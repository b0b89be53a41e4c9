----------------------------- MODULE WorkGroups -----------------------------
(***************************************************************************)
(* Work-group arithmetic of OpenCL_driver.c: how an NDRange is divided     *)
(* into groups, how many a launch issues and in which order.  A group id,  *)
(* a range and a group size are triples, x first.                          *)
(***************************************************************************)
EXTENDS Integers

CONSTANT IntMax         \* largest value of a C int
ASSUME IntMaxAssumption == IntMax \in Nat

Ids   == Nat \X Nat \X Nat
Sizes == (Nat \ {0}) \X (Nat \ {0}) \X (Nat \ {0})

Product(v) == v[1] * v[2] * v[3]

(* A C int holds -(IntMax+1)..IntMax; a product outside comes back modulo   *)
(* the size of that range, as the build's compiler computes it.             *)
Wrap(n) ==
  IF -(IntMax + 1) <= n /\ n <= IntMax THEN n
  ELSE ((n + IntMax + 1) % (2 * IntMax + 2)) - (IntMax + 1)

(* Mutants of increment_wg_id: x restarts one too low, y runs one too far,  *)
(* x is not reset.                                                          *)
NextIdFromMinusOne(id, max) ==
  IF id[1] < max[1] - 1 THEN <<id[1] + 1, id[2], id[3]>>
  ELSE IF id[2] < max[2] - 1 THEN <<-1, id[2] + 1, id[3]>>
  ELSE <<-1, 0, IF id[3] < max[3] - 1 THEN id[3] + 1 ELSE id[3]>>
NextIdTooFar(id, max) ==
  IF id[1] < max[1] - 1 THEN <<id[1] + 1, id[2], id[3]>>
  ELSE IF id[2] < max[2] THEN <<0, id[2] + 1, id[3]>>
  ELSE <<0, 0, IF id[3] < max[3] - 1 THEN id[3] + 1 ELSE id[3]>>
NextIdKeepsX(id, max) ==
  IF id[1] < max[1] - 1 THEN <<id[1] + 1, id[2], id[3]>>
  ELSE IF id[2] < max[2] - 1 THEN <<id[1], id[2] + 1, id[3]>>
  ELSE <<id[1], 0, IF id[3] < max[3] - 1 THEN id[3] + 1 ELSE id[3]>>

(* increment_wg_id: x runs fastest.  After the last group x and y go back   *)
(* to zero, z stays, and no caller looks at the NULL that says so.          *)
NextId(id, max) ==
  IF id[1] < max[1] - 1 THEN <<id[1] + 1, id[2], id[3]>>
  ELSE IF id[2] < max[2] - 1 THEN <<0, id[2] + 1, id[3]>>
  ELSE <<0, 0, IF id[3] < max[3] - 1 THEN id[3] + 1 ELSE id[3]>>

(* Position of a group in row-major order.                                  *)
Index(id, max) == id[1] + max[1] * id[2] + max[1] * max[2] * id[3]

(* Groups per dimension and groups in all, as launchKernel computes them.   *)
MaxOf(nd, wg)   == <<nd[1] \div wg[1], nd[2] \div wg[2], nd[3] \div wg[3]>>
TotalOfPlane(nd, wg) == Wrap(nd[1] * nd[2]) \div (wg[1] * wg[2])   \* mutant: no z
TotalOf(nd, wg) == Wrap(Product(nd)) \div Product(wg)

(* Mutant: max_wg_id taken as the last id, not the one behind it.           *)
PartialTotalInclusive(id, max) ==
  Wrap((max[1] - id[1] + 1) * (max[2] - id[2] + 1) * (max[3] - id[3] + 1))

(* How many groups launchWgs issues from id on.                             *)
PartialTotal(id, max) ==
  Wrap((max[1] - id[1]) * (max[2] - id[2]) * (max[3] - id[3]))

Inside(id, max) == id[1] < max[1] /\ id[2] < max[2] /\ id[3] < max[3]

(* A range that the group size divides, and whose volume an int can hold.   *)
Divides(nd, wg)   == \A d \in 1..3 : nd[d] % wg[d] = 0
Divisible(nd, wg) == Product(nd) <= IntMax /\ Divides(nd, wg)
=============================================================================
