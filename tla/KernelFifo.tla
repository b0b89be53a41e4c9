------------------------------ MODULE KernelFifo ------------------------------
(***************************************************************************)
(* What the waiting queue of the scheduler promises ("Employs FIFO         *)
(* semantics", scheduler.h:111-112): a bounded first-in first-out queue    *)
(* that drops what is inserted while it is full.                           *)
(***************************************************************************)
EXTENDS Sequences, Naturals

CONSTANTS Kernels, Size, NoKernel

VARIABLES queue,    \* kernels waiting, oldest first
          taken     \* the kernel wqRemove returned last

Init == queue = << >> /\ taken = NoKernel

Insert(k) ==
  /\ queue' = IF Len(queue) < Size THEN Append(queue, k) ELSE queue
  /\ UNCHANGED taken

Remove ==
  /\ queue # << >>
  /\ taken' = Head(queue)
  /\ queue' = Tail(queue)

Next == (\E k \in Kernels : Insert(k)) \/ Remove

Spec == Init /\ [][Next]_<<queue, taken>>
=============================================================================
