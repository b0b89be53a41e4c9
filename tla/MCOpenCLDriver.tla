--------------------------- MODULE MCOpenCLDriver ---------------------------
(***************************************************************************)
(* Small instances of OpenCLDriver for TLC.                                *)
(***************************************************************************)
EXTENDS OpenCLDriver

Origin == <<0, 0, 0>>
One    == <<1, 1, 1>>

Whole(range, group, b) ==
  [kind |-> "launchKernel", nd |-> range, wg |-> group,
   from |-> Origin, max |-> One, blocking |-> TRUE, buf |-> b]
Partial(id, bound, b) ==
  [kind |-> "launchWgs", nd |-> One, wg |-> One,
   from |-> id, max |-> bound, blocking |-> TRUE, buf |-> b]
Single(id, bound, wait, b) ==
  [kind |-> "launchWg", nd |-> One, wg |-> One,
   from |-> id, max |-> bound, blocking |-> wait, buf |-> b]

(* Three arguments of the shape programInc3d uses: two inputs and an        *)
(* output, three words apart.                                               *)
WideShape   == [ins |-> 2, inw |-> 3, outs |-> 1, outw |-> 3]
NarrowShape == [ins |-> 2, inw |-> 2, outs |-> 2, outw |-> 1]

(* Ranges of one, two and three dimensions, whole, partial and single.      *)
DivisibleRequests ==
  {Whole(<<4, 2, 2>>, <<2, 1, 1>>, 1), Whole(<<3, 1, 1>>, One, 2),
   Partial(<<1, 0, 0>>, <<2, 2, 1>>, 1), Partial(<<0, 1, 0>>, <<2, 2, 2>>, 2),
   Single(<<1, 0, 0>>, <<2, 1, 1>>, FALSE, 1), Single(Origin, <<2, 1, 1>>, FALSE, 2),
   Single(<<1, 0, 0>>, <<2, 1, 1>>, TRUE, 2)}

(* A range the group size does not divide: 3 x 3 items in groups of 2 x 2.  *)
IndivisibleRequests == {Whole(<<3, 3, 1>>, <<2, 2, 1>>, 1)}

(* A range of two groups on its own.                                        *)
LineRequests == {Whole(<<2, 1, 1>>, One, 1)}

Status(s, a) == [start |-> s, auto |-> a]
RestartOnly == {Status(TRUE, FALSE)}
AllStatus   == {Status(s, a) : s \in BOOLEAN, a \in BOOLEAN}

CRequests ==
  {[kind |-> "ckernel", nd |-> One, wg |-> One, from |-> Origin, max |-> One,
    blocking |-> TRUE, buf |-> b] : b \in 1..2}
=============================================================================
