------------------------- MODULE SlotSchedulerProofs ------------------------
(***************************************************************************)
(* What the overlap of the user's and the scheduler's thread cannot break, *)
(* first in the queue by itself (SchedulerQueue), then in the loop around  *)
(* it: the loop uses the queue as SchedulerQueue says, hands the I/O pages *)
(* out in turn and comes round again, for every number of slots, pages and *)
(* kernels and every library.                                              *)
(***************************************************************************)
EXTENDS SlotScheduler, NatLemmas, SequenceTheorems

(* A thread that has passed its test holds a promise about the counter that *)
(* the other thread's stores keep: below Size for the user, above zero for  *)
(* the scheduler.                                                           *)
CountInv ==
  /\ wqCount \in 0..Size
  /\ upc \in {"store", "load"} => wqCount < Size
  /\ upc = "count" => uloaded \in 0..(Size - 1)
  /\ spc \in {"take", "load"} => wqCount > 0
  /\ spc = "count" => sloaded \in 1..Size
  /\ upc \in {"test", "store", "load", "count"}
  /\ spc \in {"test", "take", "load", "count"}

LEMMA CountInit == Init => CountInv
BY SizeAssumption DEF Init, CountInv

LEMMA CountStep == CountInv /\ [Next]_vars => CountInv'
<1> SUFFICES ASSUME CountInv, [Next]_vars PROVE CountInv'
  OBVIOUS
<1> USE SizeAssumption DEF CountInv, userVars, schedVars, queueVars, wqIsFull, wqIsEmpty
<1>1. CASE Drop BY <1>1 DEF Drop
<1>2. CASE HasRoom BY <1>2 DEF HasRoom
<1>3. CASE StoreKernel BY <1>3 DEF StoreKernel
<1>4. CASE LoadForInsert BY <1>4 DEF LoadForInsert
<1>5. CASE CountInsert BY <1>5 DEF CountInsert
<1>6. CASE HasWork BY <1>6 DEF HasWork
<1>7. CASE TakeKernel BY <1>7 DEF TakeKernel
<1>8. CASE LoadForRemove BY <1>8 DEF LoadForRemove
<1>9. CASE CountRemove BY <1>9 DEF CountRemove
<1>10. CASE ReadSlot BY <1>10 DEF ReadSlot
<1>11. CASE Memory BY <1>11 DEF Memory, StoreSeen
<1>12. CASE UNCHANGED vars BY <1>12 DEF vars
<1> QED BY <1>1, <1>2, <1>3, <1>4, <1>5, <1>6, <1>7, <1>8, <1>9, <1>10, <1>11, <1>12
        DEF Next, User, Scheduler

(* However the two threads interleave, and for a buffer of any size, the    *)
(* counter that wqIsEmpty and wqIsFull test for equality stays in 0..Size.  *)
THEOREM CounterBounded == Spec => []CountInRange
<1>1. CountInv => CountInRange
  BY SizeAssumption DEF CountInv, CountInRange
<1> QED BY <1>1, CountInit, CountStep, PTL DEF Spec

(* The types, and that a kernel on its way into the queue is one of the     *)
(* user's.                                                                  *)
TypeInv == TypeOK /\ (upc # "test" => kernel <= MaxKernels)

LEMMA TypeInit == Init => TypeInv
<1> SUFFICES ASSUME Init PROVE TypeInv
  OBVIOUS
<1>1. << >> \in Seq(1..MaxKernels) /\ << >> \in Seq(0..MaxKernels)
  OBVIOUS
<1> QED BY <1>1, SizeAssumption, BoundAssumption DEF Init, TypeInv, TypeOK, Slots, NoKernel, NoSlot

LEMMA TypeStep == TypeInv /\ [Next]_vars => TypeInv'
<1> SUFFICES ASSUME TypeInv, [Next]_vars PROVE TypeInv'
  OBVIOUS
<1> USE SizeAssumption, BoundAssumption
    DEF TypeInv, TypeOK, Slots, NoSlot, NoKernel, userVars, schedVars, queueVars
<1>1. CASE Drop BY <1>1 DEF Drop
<1>2. CASE HasRoom BY <1>2 DEF HasRoom
<1>3. CASE StoreKernel BY <1>3 DEF StoreKernel, NextRear
<1>4. CASE LoadForInsert BY <1>4 DEF LoadForInsert
<1>5. CASE CountInsert BY <1>5 DEF CountInsert
<1>6. CASE HasWork BY <1>6 DEF HasWork
<1>7. CASE TakeKernel BY <1>7 DEF TakeKernel, NextFront
<1>8. CASE LoadForRemove BY <1>8 DEF LoadForRemove
<1>9. CASE CountRemove BY <1>9 DEF CountRemove
<1>10. CASE ReadSlot BY <1>10 DEF ReadSlot
<1>11. CASE Memory BY <1>11 DEF Memory, StoreSeen
<1>12. CASE UNCHANGED vars BY <1>12 DEF vars
<1> QED BY <1>1, <1>2, <1>3, <1>4, <1>5, <1>6, <1>7, <1>8, <1>9, <1>10, <1>11, <1>12
        DEF Next, User, Scheduler

(* The ring, the counter and both threads keep their types, for every size  *)
(* and number of kernels; no step indexes behind the ring's end.            *)
THEOREM QueueTypes == Spec => []TypeOK
<1>1. TypeInv => TypeOK
  BY DEF TypeInv
<1> QED BY <1>1, TypeInit, TypeStep, PTL DEF Spec

-----------------------------------------------------------------------------
(* The ring, as long as the two updates of its counter do not overlap and   *)
(* the accesses to the array keep their places.                             *)

(* A kernel that is stored and not yet counted, one that is taken and still *)
(* counted, one that is taken and not yet read.                             *)
Stored  == IF upc \in {"load", "count"} THEN 1 ELSE 0
Taken   == IF spc \in {"load", "count"} THEN 1 ELSE 0
Reading == IF late # NoSlot THEN 1 ELSE 0

(* What a slot holds once the store on its way has arrived.                 *)
Latest(s) == IF pending[s] # NoKernel THEN pending[s] ELSE waitingQueue[s]

(* The counter, the ends and the slots in terms of the kernels that went in *)
(* and out: every slot between the ends holds, or is about to hold, the     *)
(* kernel whose turn it is; only the last one stored can be on its way.     *)
RingInv ==
  /\ TypeInv /\ CountInv
  /\ wqCount = Len(accepted) - (Len(removed) + Reading) - Stored + Taken
  /\ upc = "count" => uloaded = wqCount
  /\ spc = "count" => sloaded = wqCount
  /\ NextRear = Len(accepted) % Size
  /\ wqFront = (Len(removed) + Reading) % Size
  /\ late # NoSlot => late = Len(removed) % Size /\ Taken = 1
  /\ \A s \in Slots : pending[s] # NoKernel =>
       Stored = 1 /\ Len(accepted) > 0 /\ s = (Len(accepted) - 1) % Size
  /\ \A i \in (Len(removed) + 1)..Len(accepted) : Latest((i - 1) % Size) = accepted[i]
  /\ \A i \in 1..Len(removed) : removed[i] = accepted[i]

LEMMA RingInit == Init => RingInv
<1> SUFFICES ASSUME Init PROVE RingInv
  OBVIOUS
<1>1. TypeInv /\ CountInv
  BY TypeInit, CountInit
<1>2. /\ Len(accepted) = 0 /\ Len(removed) = 0
      /\ Stored = 0 /\ Taken = 0 /\ Reading = 0
  BY DEF Init, Stored, Taken, Reading
<1>3. 0 % Size = 0 /\ NextRear = 0 /\ wqFront = 0
  BY SizeAssumption DEF Init, NextRear
<1> QED BY <1>1, <1>2, <1>3 DEF Init, RingInv

(* How far the ends are apart, and that the slot being read has arrived.    *)
LEMMA RingRoom ==
  ASSUME RingInv
  PROVE  /\ Len(accepted) \in Nat /\ Len(removed) \in Nat
         /\ Len(removed) <= Len(accepted) /\ Len(accepted) - Len(removed) <= Size
         /\ upc = "store" => Len(accepted) - Len(removed) < Size
         /\ spc = "take" => Len(removed) < Len(accepted) /\ late = NoSlot
         /\ late # NoSlot => Len(removed) < Len(accepted) /\ pending[late] = NoKernel
<1> DEFINE a == Len(accepted)  r == Len(removed)
<1>1. a \in Nat /\ r \in Nat /\ late \in Slots \cup {NoSlot}
  BY DEF RingInv, TypeInv, TypeOK
<1>2. wqCount = a - (r + Reading) - Stored + Taken
  BY DEF RingInv
<1>3. /\ CountInv
      /\ upc = "count" => uloaded = wqCount
      /\ spc = "count" => sloaded = wqCount
      /\ late # NoSlot => late = r % Size /\ Taken = 1
  BY DEF RingInv
<1>4. /\ r <= a /\ a - r <= Size /\ (upc = "store" => a - r < Size)
      /\ (spc = "take" => r < a /\ late = NoSlot)
      /\ (late # NoSlot => r < a /\ (Stored = 1 => r < a - 1))
  <2> HIDE DEF a, r
  <2>1. /\ upc \in {"store", "load"} => wqCount < Size
        /\ upc = "count" => wqCount < Size
        /\ spc \in {"take", "load"} => wqCount > 0
        /\ spc = "count" => wqCount > 0
        /\ wqCount \in 0..Size
    BY <1>3, SizeAssumption DEF CountInv
  <2>2. CASE late = NoSlot
    BY <1>1, <1>2, <1>3, <2>1, <2>2, SizeAssumption DEF CountInv, Stored, Taken, Reading
  <2>3. CASE late # NoSlot
    <3>1. spc \in {"load", "count"} /\ Reading = 1 /\ Taken = 1 /\ wqCount > 0
      BY <1>3, <2>1, <2>3 DEF Taken, Reading
    <3>2. a - r = wqCount + Stored
      BY <1>1, <1>2, <2>1, <3>1 DEF Stored
    <3> QED BY <1>1, <2>1, <3>1, <3>2, SizeAssumption DEF Stored
  <2> QED BY <2>2, <2>3
<1>5. ASSUME late # NoSlot, pending[late] # NoKernel PROVE FALSE
  <2>1. late \in Slots /\ late = r % Size
    BY <1>1, <1>3, <1>5
  <2>2. Stored = 1 /\ late = (a - 1) % Size
    BY <1>5, <2>1 DEF RingInv
  <2> HIDE DEF a, r
  <2>3. r < a - 1 /\ a - 1 \in Nat /\ (a - 1) - r < Size
    BY <1>1, <1>4, <1>5, <2>2, SizeAssumption
  <2> QED BY <1>1, <2>1, <2>2, <2>3, RemaindersDiffer, SizeAssumption
<1> QED BY <1>1, <1>4, <1>5 DEF a, r

LEMMA StoreKeepsRing ==
  ASSUME RingInv, StoreKernel, TypeInv', CountInv'
  PROVE  RingInv'
<1> DEFINE a == Len(accepted)  r == Len(removed)
<1>1. /\ a \in Nat /\ r \in Nat /\ r <= a /\ a - r < Size /\ upc = "store"
      /\ accepted \in Seq(1..MaxKernels) /\ kernel \in 1..MaxKernels
      /\ pending \in [Slots -> 0..MaxKernels]
      /\ \A s \in Slots : pending[s] = NoKernel
  <2>1. upc = "store" /\ TypeInv
    BY DEF StoreKernel, RingInv
  <2>2. /\ accepted \in Seq(1..MaxKernels) /\ kernel \in 1..MaxKernels
        /\ pending \in [Slots -> 0..MaxKernels]
    BY <2>1, BoundAssumption DEF TypeInv, TypeOK
  <2>3. Stored = 0
    BY <2>1 DEF Stored
  <2> QED BY <2>1, <2>2, <2>3, RingRoom DEF RingInv
<1>2. /\ accepted' = Append(accepted, kernel) /\ upc' = "load"
      /\ pending' = [pending EXCEPT ![NextRear] = kernel]
      /\ wqRear' = NextRear
      /\ UNCHANGED <<waitingQueue, late, wqFront, wqCount, removed, spc, sloaded>>
  BY DEF StoreKernel, schedVars
<1>3. /\ Len(accepted') = a + 1 /\ accepted'[a + 1] = kernel
      /\ \A i \in 1..a : accepted'[i] = accepted[i]
  BY <1>1, <1>2, AppendProperties
<1>4. /\ NextRear = a % Size /\ NextRear \in Slots
      /\ (a + 1) % Size = IF NextRear + 1 = Size THEN 0 ELSE NextRear + 1
  <2>1. NextRear = a % Size
    BY DEF RingInv
  <2> HIDE DEF a
  <2> QED BY <1>1, <2>1, RemainderStep, SizeAssumption DEF Slots
<1>5. NextRear' = (a + 1) % Size
  BY <1>2, <1>4, SizeAssumption DEF NextRear, Slots
<1>6. /\ kernel # NoKernel /\ pending'[NextRear] = kernel
      /\ \A s \in Slots : s # NextRear => pending'[s] = NoKernel
  BY <1>1, <1>2, <1>4 DEF NoKernel
<1>7. ASSUME NEW i \in (r + 1)..(a + 1) PROVE Latest((i - 1) % Size)' = accepted'[i]
  <2>1. CASE i = a + 1
    <3>1. i - 1 = a
      BY <1>1, <2>1
    <3>2. Latest((i - 1) % Size)' = IF pending'[NextRear] # NoKernel THEN pending'[NextRear]
                                    ELSE waitingQueue'[NextRear]
      BY <1>4, <3>1 DEF Latest
    <3> QED BY <1>3, <1>6, <2>1, <3>2
  <2>2. CASE i # a + 1
    <3>1. i \in (r + 1)..a /\ i \in 1..a /\ i - 1 \in Nat /\ i - 1 < a /\ a - (i - 1) < Size
      <4> HIDE DEF a, r
      <4> QED BY <1>1, <2>2, SizeAssumption
    <3>2. (i - 1) % Size # NextRear /\ (i - 1) % Size \in Slots
      <4> HIDE DEF a, r
      <4> QED BY <1>1, <1>4, <3>1, RemaindersDiffer, RemainderStep, SizeAssumption DEF Slots
    <3>3. Latest((i - 1) % Size)' = waitingQueue[(i - 1) % Size]
      BY <1>2, <1>6, <3>2 DEF Latest
    <3>4. Latest((i - 1) % Size) = waitingQueue[(i - 1) % Size]
      BY <1>1, <3>2 DEF Latest
    <3> QED BY <1>3, <3>1, <3>3, <3>4 DEF RingInv
  <2> QED BY <2>1, <2>2
<1>8. \A i \in 1..r : removed[i] = accepted'[i]
  BY <1>1, <1>3 DEF RingInv
<1>9. /\ wqCount' = Len(accepted') - (Len(removed') + Reading') - Stored' + Taken'
      /\ Taken' = Taken /\ Reading' = Reading /\ Stored' = 1
  <2>1. Taken' = Taken /\ Reading' = Reading /\ Stored' = 1 /\ Stored = 0
    BY <1>1, <1>2 DEF Stored, Taken, Reading
  <2>2. wqCount = a - (r + Reading) - Stored + Taken
    BY DEF RingInv
  <2>3. Reading \in {0, 1} /\ Taken \in {0, 1}
    BY DEF Reading, Taken
  <2>4. Len(accepted') = a + 1 /\ Len(removed') = r /\ wqCount' = wqCount
    BY <1>2, <1>3
  <2> HIDE DEF a, r
  <2> QED BY <1>1, <2>1, <2>2, <2>3, <2>4
<1>10. \A s \in Slots : pending'[s] # NoKernel =>
         Stored' = 1 /\ Len(accepted') > 0 /\ s = (Len(accepted') - 1) % Size
  <2>1. Len(accepted') > 0 /\ Len(accepted') - 1 = a
    BY <1>1, <1>3
  <2> QED BY <1>4, <1>6, <1>9, <2>1
<1>11. /\ wqFront' = (Len(removed') + Reading') % Size /\ NextRear' = Len(accepted') % Size
       /\ late' # NoSlot => late' = Len(removed') % Size /\ Taken' = 1
       /\ \A i \in (Len(removed') + 1)..Len(accepted') : Latest((i - 1) % Size)' = accepted'[i]
       /\ \A i \in 1..Len(removed') : removed'[i] = accepted'[i]
       /\ spc' = "count" => sloaded' = wqCount'
  BY <1>2, <1>3, <1>5, <1>7, <1>8, <1>9 DEF RingInv
<1> QED BY <1>2, <1>9, <1>10, <1>11 DEF RingInv, Latest

(* The arrival of a kernel changes no slot's latest content.                *)
LEMMA SeenKeepsRing ==
  ASSUME RingInv, Memory, TypeInv', CountInv'
  PROVE  RingInv'
<1> PICK t \in Slots : StoreSeen(t)
  BY DEF Memory
<1>1. /\ waitingQueue \in [Slots -> 0..MaxKernels] /\ pending \in [Slots -> 0..MaxKernels]
  BY DEF RingInv, TypeInv, TypeOK
<1>2. /\ pending[t] # NoKernel
      /\ waitingQueue' = [waitingQueue EXCEPT ![t] = pending[t]]
      /\ pending' = [pending EXCEPT ![t] = NoKernel]
      /\ UNCHANGED <<late, wqFront, wqRear, wqCount, accepted, removed, upc, spc, uloaded, sloaded>>
  BY DEF StoreSeen, userVars, schedVars
<1>3. \A s \in Slots : Latest(s)' = Latest(s) /\ (pending'[s] # NoKernel => pending[s] # NoKernel)
  BY <1>1, <1>2 DEF Latest
<1>4. UNCHANGED <<Stored, Taken, Reading, NextRear>>
  BY <1>2 DEF Stored, Taken, Reading, NextRear
<1>5. \A i \in (Len(removed) + 1)..Len(accepted) : Latest((i - 1) % Size)' = accepted[i]
  <2> TAKE i \in (Len(removed) + 1)..Len(accepted)
  <2>1. i - 1 \in Nat
    BY RingRoom
  <2>2. (i - 1) % Size \in Slots
    BY <2>1, RemainderStep, SizeAssumption DEF Slots
  <2> QED BY <1>3, <2>2 DEF RingInv
<1>6. \A s \in Slots : pending'[s] # NoKernel =>
         Stored' = 1 /\ Len(accepted') > 0 /\ s = (Len(accepted') - 1) % Size
  BY <1>2, <1>3, <1>4 DEF RingInv
<1>7. /\ wqCount' = Len(accepted') - (Len(removed') + Reading') - Stored' + Taken'
      /\ NextRear' = Len(accepted') % Size
      /\ wqFront' = (Len(removed') + Reading') % Size
      /\ late' # NoSlot => late' = Len(removed') % Size /\ Taken' = 1
      /\ upc' = "count" => uloaded' = wqCount'
      /\ spc' = "count" => sloaded' = wqCount'
      /\ \A i \in 1..Len(removed') : removed'[i] = accepted'[i]
  BY <1>2, <1>4 DEF RingInv
<1>8. \A i \in (Len(removed') + 1)..Len(accepted') : Latest((i - 1) % Size)' = accepted'[i]
  BY <1>2, <1>5
<1> QED BY <1>6, <1>7, <1>8 DEF RingInv, Latest

LEMMA TakeKeepsRing ==
  ASSUME RingInv, TakeKernel, TypeInv', CountInv'
  PROVE  RingInv'
<1> DEFINE a == Len(accepted)  r == Len(removed)
<1>1. a \in Nat /\ r \in Nat /\ spc = "take" /\ late = NoSlot /\ Reading = 0 /\ Taken = 0
  <2>1. spc = "take"
    BY DEF TakeKernel
  <2> QED BY <2>1, RingRoom DEF Reading, Taken
<1>2. /\ late' = wqFront /\ spc' = "load" /\ wqFront' = NextFront
      /\ UNCHANGED <<waitingQueue, pending, wqRear, wqCount, accepted, removed, upc, uloaded>>
  BY DEF TakeKernel, userVars
<1>3. wqFront \in Slots /\ wqFront # NoSlot
  BY SizeAssumption DEF RingInv, TypeInv, TypeOK, Slots, NoSlot
<1>4. Reading' = 1 /\ Taken' = 1 /\ Stored' = Stored /\ NextRear' = NextRear
  BY <1>2, <1>3 DEF Reading, Taken, Stored, NextRear
<1>5. wqFront = r % Size /\ wqFront' = (r + 1) % Size
  <2>1. wqFront = (r + Reading) % Size
    BY DEF RingInv
  <2>2. r + Reading = r
    BY <1>1
  <2> HIDE DEF r
  <2> QED BY <1>1, <1>2, <2>1, <2>2, RemainderStep, SizeAssumption DEF NextFront
<1>6. wqCount' = a - (r + Reading') - Stored' + Taken'
  <2>1. wqCount = a - (r + Reading) - Stored + Taken
    BY DEF RingInv
  <2>2. Stored \in {0, 1}
    BY DEF Stored
  <2> HIDE DEF a, r
  <2> QED BY <1>1, <1>2, <1>4, <2>1, <2>2
<1>7. /\ \A i \in (r + 1)..a : Latest((i - 1) % Size)' = accepted[i]
  BY <1>2 DEF RingInv, Latest
<1>8. /\ wqCount' = Len(accepted') - (Len(removed') + Reading') - Stored' + Taken'
      /\ NextRear' = Len(accepted') % Size
      /\ wqFront' = (Len(removed') + Reading') % Size
      /\ late' # NoSlot => late' = Len(removed') % Size /\ Taken' = 1
      /\ upc' = "count" => uloaded' = wqCount'
      /\ \A s \in Slots : pending'[s] # NoKernel =>
           Stored' = 1 /\ Len(accepted') > 0 /\ s = (Len(accepted') - 1) % Size
      /\ \A i \in (Len(removed') + 1)..Len(accepted') : Latest((i - 1) % Size)' = accepted'[i]
      /\ \A i \in 1..Len(removed') : removed'[i] = accepted'[i]
  BY <1>2, <1>4, <1>5, <1>6, <1>7 DEF RingInv
<1> QED BY <1>2, <1>8 DEF RingInv, Latest

LEMMA ReadKeepsRing ==
  ASSUME RingInv, ReadSlot, TypeInv', CountInv'
  PROVE  RingInv'
<1> DEFINE a == Len(accepted)  r == Len(removed)
<1>1. /\ a \in Nat /\ r \in Nat /\ r < a /\ late # NoSlot /\ late \in Slots
      /\ pending[late] = NoKernel /\ late = r % Size /\ Reading = 1 /\ Taken = 1
      /\ removed \in Seq(0..MaxKernels) /\ waitingQueue[late] \in 0..MaxKernels
  <2>1. late # NoSlot /\ TypeInv
    BY DEF ReadSlot, RingInv
  <2>2. removed \in Seq(0..MaxKernels) /\ late \in Slots /\ waitingQueue[late] \in 0..MaxKernels
    BY <2>1 DEF TypeInv, TypeOK
  <2> QED BY <2>1, <2>2, RingRoom DEF RingInv, Reading
<1>2. /\ removed' = Append(removed, waitingQueue[late]) /\ late' = NoSlot
      /\ UNCHANGED <<waitingQueue, pending, wqFront, wqRear, wqCount, accepted, upc, uloaded,
                     spc, sloaded>>
  BY DEF ReadSlot, userVars
<1>3. /\ Len(removed') = r + 1 /\ removed'[r + 1] = waitingQueue[late]
      /\ \A i \in 1..r : removed'[i] = removed[i]
  BY <1>1, <1>2, AppendProperties
<1>4. /\ Reading' = 0 /\ Taken' = Taken /\ Stored' = Stored /\ NextRear' = NextRear
      /\ Len(removed') + Reading' = r + Reading
  BY <1>1, <1>2, <1>3 DEF Reading, Taken, Stored, NextRear
<1>5. waitingQueue[late] = accepted[r + 1]
  <2>1. r + 1 \in (r + 1)..a /\ (r + 1) - 1 = r
    BY <1>1
  <2>2. Latest(r % Size) = accepted[r + 1]
    BY <2>1 DEF RingInv
  <2> QED BY <1>1, <2>2 DEF Latest
<1>6. \A i \in 1..(r + 1) : removed'[i] = accepted[i]
  <2>1. \A i \in 1..r : removed[i] = accepted[i]
    BY DEF RingInv
  <2>2. \A i \in 1..(r + 1) : i \in 1..r \/ i = r + 1
    BY <1>1
  <2> QED BY <1>3, <1>5, <2>1, <2>2
<1>7. \A i \in (r + 2)..a : Latest((i - 1) % Size)' = accepted[i]
  <2>1. \A i \in (r + 1)..a : Latest((i - 1) % Size) = accepted[i]
    BY DEF RingInv
  <2>2. \A s : Latest(s)' = Latest(s)
    BY <1>2 DEF Latest
  <2>3. \A i \in (r + 2)..a : i \in (r + 1)..a
    BY <1>1
  <2> QED BY <2>1, <2>2, <2>3
<1>8. r + 1 + 1 = r + 2
  BY <1>1
<1>9. /\ wqCount' = Len(accepted') - (Len(removed') + Reading') - Stored' + Taken'
      /\ NextRear' = Len(accepted') % Size
      /\ wqFront' = (Len(removed') + Reading') % Size
      /\ upc' = "count" => uloaded' = wqCount'
      /\ spc' = "count" => sloaded' = wqCount'
      /\ \A s \in Slots : pending'[s] # NoKernel =>
           Stored' = 1 /\ Len(accepted') > 0 /\ s = (Len(accepted') - 1) % Size
      /\ \A i \in 1..Len(removed') : removed'[i] = accepted'[i]
  BY <1>2, <1>3, <1>4, <1>6 DEF RingInv
<1>10. \A i \in (Len(removed') + 1)..Len(accepted') : Latest((i - 1) % Size)' = accepted'[i]
  BY <1>2, <1>3, <1>7, <1>8
<1> QED BY <1>2, <1>9, <1>10 DEF RingInv, Latest

(* The steps that leave the ring alone; one that starts or ends an          *)
(* insertion, or ends a removal, has nothing left on its way.               *)
LEMMA RingKept ==
  ASSUME RingInv, TypeInv', CountInv', UNCHANGED <<queueVars, accepted, removed>>,
         wqCount' = Len(accepted) - (Len(removed) + Reading) - Stored' + Taken',
         upc' = "count" => uloaded' = wqCount', spc' = "count" => sloaded' = wqCount',
         late # NoSlot => Taken' = 1,
         \A s \in Slots : pending[s] # NoKernel => Stored' = 1
  PROVE  RingInv'
<1>1. UNCHANGED <<Reading, NextRear>>
  BY DEF Reading, NextRear, queueVars
<1> QED BY <1>1 DEF RingInv, queueVars, Latest

LEMMA RingStep ==
  RingInv /\ Exclusive /\ Exclusive' /\ Ordered /\ Ordered' /\ [Next]_vars => RingInv'
<1> SUFFICES ASSUME RingInv, Exclusive, Exclusive', Ordered, Ordered', [Next]_vars
             PROVE  RingInv'
  OBVIOUS
<1>1. TypeInv' /\ CountInv'
  BY TypeStep, CountStep DEF RingInv
<1>2. Len(accepted) \in Nat /\ Len(removed) \in Nat /\ Reading \in {0, 1}
  BY RingRoom DEF Reading
<1> USE DEF userVars, schedVars, queueVars, Stored, Taken, Exclusive, Ordered
<1>3. CASE Drop BY <1>1, <1>2, <1>3, RingKept DEF Drop, RingInv
<1>4. CASE HasRoom BY <1>1, <1>2, <1>4, RingKept DEF HasRoom, RingInv
<1>5. CASE StoreKernel BY <1>1, <1>5, StoreKeepsRing
<1>6. CASE LoadForInsert BY <1>1, <1>2, <1>6, RingKept DEF LoadForInsert, RingInv
<1>7. CASE CountInsert BY <1>1, <1>2, <1>7, RingKept DEF CountInsert, RingInv
<1>8. CASE HasWork BY <1>1, <1>2, <1>8, RingKept DEF HasWork, RingInv
<1>9. CASE TakeKernel BY <1>1, <1>9, TakeKeepsRing
<1>10. CASE LoadForRemove BY <1>1, <1>2, <1>10, RingKept DEF LoadForRemove, RingInv
<1>11. CASE CountRemove BY <1>1, <1>2, <1>11, RingKept DEF CountRemove, RingInv
<1>12. CASE ReadSlot BY <1>1, <1>12, ReadKeepsRing
<1>13. CASE Memory BY <1>1, <1>13, SeenKeepsRing
<1>14. CASE UNCHANGED vars BY <1>1, <1>2, <1>14, RingKept DEF vars, RingInv
<1> QED BY <1>3, <1>4, <1>5, <1>6, <1>7, <1>8, <1>9, <1>10, <1>11, <1>12, <1>13, <1>14
        DEF Next, User, Scheduler

LEMMA RingInductive == Spec => ([]Exclusive /\ []Ordered => []RingInv)
BY RingInit, RingStep, PTL DEF Spec

(* "Employs FIFO semantics": with the updates of wqCount kept apart and the *)
(* accesses to the array in order, the kernels leave the ring in the order  *)
(* they went in, however else wqInsert and wqRemove overlap, for a ring of  *)
(* any size and any number of kernels.                                      *)
THEOREM OrderedFifo == Spec => FifoIfOrdered
<1>1. RingInv => FifoOrder
  BY RingRoom DEF RingInv, FifoOrder
<1> QED BY <1>1, RingInductive, PTL DEF FifoIfOrdered

(* The store of a kernel is the insertion, the read of a slot the removal.  *)
LEMMA StoreInserts ==
  ASSUME RingInv, StoreKernel
  PROVE  Fifo!Insert(kernel)
<1> DEFINE a == Len(accepted)  r == Len(removed)  K == 1..MaxKernels
<1>1. /\ a \in Nat /\ r \in Nat /\ r <= a /\ a - r < Size
      /\ accepted \in Seq(K) /\ kernel \in K
  <2>1. upc = "store" /\ TypeInv
    BY DEF StoreKernel, RingInv
  <2>2. accepted \in Seq(K) /\ kernel \in K
    BY <2>1, BoundAssumption DEF TypeInv, TypeOK
  <2> QED BY <2>1, <2>2, RingRoom
<1>2. accepted' = Append(accepted, kernel) /\ removed' = removed
  BY DEF StoreKernel, schedVars
<1>3. /\ accepted' \in Seq(K) /\ Len(accepted') = a + 1 /\ accepted'[a + 1] = kernel
      /\ \A i \in 1..a : accepted'[i] = accepted[i]
  BY <1>1, <1>2, AppendProperties
<1> HIDE DEF K
<1>4. /\ Waiting \in Seq(K) /\ Len(Waiting) = a - r
      /\ \A i \in 1..(a - r) : Waiting[i] = accepted[r + i]
  <2>1. \A i \in (r + 1)..a : accepted[i] \in K
    BY <1>1
  <2>2. /\ SubSeq(accepted, r + 1, a) \in Seq(K)
        /\ Len(SubSeq(accepted, r + 1, a)) = IF r + 1 <= a THEN a - (r + 1) + 1 ELSE 0
        /\ \A i \in 1..(a - (r + 1) + 1) : SubSeq(accepted, r + 1, a)[i] = accepted[(r + 1) + i - 1]
    <3> HIDE DEF a, r
    <3> QED BY <1>1, <2>1, SubSeqProperties, r + 1 \in Int, a \in Int
  <2>3. Waiting = SubSeq(accepted, r + 1, a)
    BY DEF Waiting
  <2> HIDE DEF a, r
  <2>4. a - (r + 1) + 1 = a - r /\ (IF r + 1 <= a THEN a - (r + 1) + 1 ELSE 0) = a - r
    BY <1>1
  <2>5. \A i \in 1..(a - r) : (r + 1) + i - 1 = r + i
    BY <1>1
  <2> QED BY <2>2, <2>3, <2>4, <2>5
<1>5. /\ Waiting' \in Seq(K) /\ Len(Waiting') = (a + 1) - r
      /\ \A i \in 1..((a + 1) - r) : Waiting'[i] = accepted'[r + i]
  <2>1. \A i \in (r + 1)..(a + 1) : accepted'[i] \in K
    BY <1>1, <1>3
  <2>2. /\ SubSeq(accepted', r + 1, a + 1) \in Seq(K)
        /\ Len(SubSeq(accepted', r + 1, a + 1)) = IF r + 1 <= a + 1 THEN (a + 1) - (r + 1) + 1 ELSE 0
        /\ \A i \in 1..((a + 1) - (r + 1) + 1) :
             SubSeq(accepted', r + 1, a + 1)[i] = accepted'[(r + 1) + i - 1]
    <3> HIDE DEF a, r
    <3> QED BY <1>1, <2>1, SubSeqProperties, r + 1 \in Int, a + 1 \in Int
  <2>3. Waiting' = SubSeq(accepted', r + 1, a + 1)
    BY <1>2, <1>3 DEF Waiting
  <2> HIDE DEF a, r
  <2>4. (a + 1) - (r + 1) + 1 = (a + 1) - r
        /\ (IF r + 1 <= a + 1 THEN (a + 1) - (r + 1) + 1 ELSE 0) = (a + 1) - r
    BY <1>1
  <2>5. \A i \in 1..((a + 1) - r) : (r + 1) + i - 1 = r + i
    BY <1>1
  <2> QED BY <2>2, <2>3, <2>4, <2>5
<1>6. /\ Append(Waiting, kernel) \in Seq(K) /\ Len(Append(Waiting, kernel)) = (a - r) + 1
      /\ \A i \in 1..(a - r) : Append(Waiting, kernel)[i] = Waiting[i]
      /\ Append(Waiting, kernel)[(a - r) + 1] = kernel
  BY <1>1, <1>4, AppendProperties DEF K
<1>7. ASSUME NEW i \in 1..((a + 1) - r)
      PROVE  Waiting'[i] = Append(Waiting, kernel)[i]
  <2>1. CASE i = (a - r) + 1
    <3>1. r + i = a + 1
      BY <1>1, <2>1
    <3> QED BY <1>3, <1>5, <1>6, <2>1, <3>1
  <2>2. CASE i # (a - r) + 1
    <3>1. i \in 1..(a - r) /\ r + i \in 1..a
      BY <1>1, <2>2
    <3> QED BY <1>3, <1>4, <1>5, <1>6, <3>1
  <2> QED BY <2>1, <2>2
<1>8. Waiting' = Append(Waiting, kernel)
  <2>1. (a + 1) - r = (a - r) + 1
    BY <1>1
  <2> HIDE DEF a, r
  <2> QED BY <1>5, <1>6, <1>7, <2>1, SeqEqual
<1>9. LastTaken' = LastTaken
  BY <1>2 DEF LastTaken
<1> QED BY <1>1, <1>4, <1>8, <1>9 DEF Fifo!Insert

LEMMA ReadRemoves ==
  ASSUME RingInv, RingInv', ReadSlot
  PROVE  Fifo!Remove
<1> DEFINE a == Len(accepted)  r == Len(removed)  K == 1..MaxKernels
<1>1. /\ a \in Nat /\ r \in Nat /\ r < a /\ accepted \in Seq(K)
      /\ removed \in Seq(0..MaxKernels) /\ waitingQueue[late] \in 0..MaxKernels
  <2>1. late # NoSlot /\ TypeInv
    BY DEF ReadSlot, RingInv
  <2>2. /\ accepted \in Seq(K) /\ removed \in Seq(0..MaxKernels)
        /\ waitingQueue[late] \in 0..MaxKernels
    BY <2>1 DEF TypeInv, TypeOK
  <2> QED BY <2>1, <2>2, RingRoom
<1> HIDE DEF K
<1>2. /\ removed' = Append(removed, waitingQueue[late]) /\ accepted' = accepted
  BY DEF ReadSlot, userVars
<1>3. Len(removed') = r + 1 /\ removed' # << >>
  BY <1>1, <1>2, AppendProperties
<1>4. LastTaken' = accepted[r + 1]
  <2>1. r + 1 \in 1..Len(removed')
    BY <1>1, <1>3
  <2>2. removed'[r + 1] = accepted'[r + 1]
    BY <2>1 DEF RingInv
  <2> QED BY <1>2, <1>3, <2>2 DEF LastTaken
<1>5. Waiting = SubSeq(accepted, r + 1, a) /\ Waiting' = SubSeq(accepted, r + 2, a)
  <2>1. (r + 1) + 1 = r + 2
    BY <1>1
  <2> QED BY <1>2, <1>3, <2>1 DEF Waiting
<1>6. /\ Head(SubSeq(accepted, r + 1, a)) = accepted[r + 1]
      /\ Tail(SubSeq(accepted, r + 1, a)) = SubSeq(accepted, (r + 1) + 1, a)
  <2>1. r + 1 \in 1..Len(accepted) /\ a \in (r + 1)..Len(accepted)
    BY <1>1
  <2> HIDE DEF a, r
  <2> QED BY <1>1, <2>1, HeadTailOfSubSeq
<1>7. Waiting # << >>
  <2>1. \A i \in (r + 1)..a : accepted[i] \in K
    BY <1>1
  <2>2. Len(SubSeq(accepted, r + 1, a)) = IF r + 1 <= a THEN a - (r + 1) + 1 ELSE 0
    <3> HIDE DEF a, r
    <3> QED BY <1>1, <2>1, SubSeqProperties, r + 1 \in Int, a \in Int
  <2>3. Len(Waiting) > 0
    BY <1>1, <1>5, <2>2
  <2> QED BY <2>3
<1>8. (r + 1) + 1 = r + 2
  BY <1>1
<1> QED BY <1>4, <1>5, <1>6, <1>7, <1>8 DEF Fifo!Remove

(* With the updates of wqCount kept apart and the accesses to the array in  *)
(* order, the two threads' steps implement the bounded first-in first-out   *)
(* queue, for a ring of any size: a kernel is inserted when its store to    *)
(* the array is issued and removed when the read of its slot is answered;   *)
(* every access to the counter is a stutter.                                *)
THEOREM OrderedIsFifo == Spec => ([]Exclusive /\ []Ordered => Fifo!Spec)
<1>1. Init => Fifo!Init
  <2> SUFFICES ASSUME Init PROVE Waiting = << >> /\ LastTaken = NoKernel
    BY DEF Fifo!Init
  <2>1. accepted = << >> /\ removed = << >> /\ Len(accepted) = 0 /\ Len(removed) = 0
    BY DEF Init
  <2>2. SubSeq(accepted, 0 + 1, 0) = << >>
    BY SubSeqEmpty, 0 + 1 \in Int, 0 \in Int, 0 < 0 + 1
  <2> QED BY <2>1, <2>2 DEF Waiting, LastTaken
<1>2. RingInv /\ RingInv' /\ [Next]_vars => [Fifo!Next]_<<Waiting, LastTaken>>
  <2> SUFFICES ASSUME RingInv, RingInv', [Next]_vars
               PROVE  Fifo!Next \/ UNCHANGED <<Waiting, LastTaken>>
    OBVIOUS
  <2>1. CASE StoreKernel
    <3>1. kernel \in 1..MaxKernels
      BY <2>1, BoundAssumption DEF StoreKernel, RingInv, TypeInv, TypeOK
    <3> QED BY <2>1, <3>1, StoreInserts DEF Fifo!Next
  <2>2. CASE ReadSlot
    BY <2>2, ReadRemoves DEF Fifo!Next
  <2>3. CASE ~StoreKernel /\ ~ReadSlot
    <3>1. UNCHANGED <<accepted, removed>>
      BY <2>3 DEF Next, User, Scheduler, Memory, StoreSeen, Drop, HasRoom, LoadForInsert,
         CountInsert, HasWork, TakeKernel, LoadForRemove, CountRemove, userVars, schedVars, vars
    <3> QED BY <3>1 DEF Waiting, LastTaken
  <2> QED BY <2>1, <2>2, <2>3
<1> QED BY <1>1, <1>2, RingInductive, PTL DEF Spec, Fifo!Spec

-----------------------------------------------------------------------------
(* Every step of the loop and of the user is a step of the queue or leaves  *)
(* it alone: what holds of the queue by itself holds in the program.        *)
THEOREM UsesQueue == SchedulerSpec => Spec
<1>1. SchedulerInit => Init
  BY DEF SchedulerInit
<1>2. [SchedulerNext]_allVars => [Next]_vars
  <2> SUFFICES ASSUME [SchedulerNext]_allVars PROVE [Next]_vars
    OBVIOUS
  <2>1. CASE Enqueue \/ MemoryStep BY <2>1 DEF Enqueue, MemoryStep, Next
  <2>2. CASE cleanUp BY <2>2 DEF cleanUp
  <2>3. CASE Loop
    <3>1. CASE TakeWork BY <3>1 DEF TakeWork, Next, Scheduler
    <3>2. CASE GoOnRemoving BY <3>2 DEF GoOnRemoving, Next, Scheduler
    <3>3. CASE KernelTaken BY <3>3 DEF KernelTaken, Next, Scheduler
    <3>4. CASE KernelRead BY <3>4 DEF KernelRead, Next, Scheduler
    <3>5. CASE ~TakeWork /\ ~GoOnRemoving /\ ~KernelTaken /\ ~KernelRead
      <4>1. UNCHANGED vars
        BY <2>3, <3>5 DEF Loop, ReleaseDone, NoWork, NullKernel, MapBuffer, BuffersMapped,
           NotInLibrary, NothingFits, Retrieve, Decouple, Place, Couple, Loaded
      <4> QED BY <4>1
    <3> QED BY <3>1, <3>2, <3>3, <3>4, <3>5
  <2>4. CASE UNCHANGED allVars BY <2>4 DEF allVars
  <2> QED BY <2>1, <2>2, <2>3, <2>4 DEF SchedulerNext
<1> QED BY <1>1, <1>2, PTL DEF SchedulerSpec, Spec

(* The counter the two threads race for stays in range in the program too.  *)
THEOREM SchedulerCounterBounded == SchedulerSpec => []CountInRange
BY UsesQueue, CounterBounded, PTL

(* The order of its kernels, too, needs nothing from the loop around the    *)
(* queue: updates kept apart and accesses in order are enough.              *)
THEOREM SchedulerFifo == SchedulerSpec => FifoIfOrdered
BY UsesQueue, OrderedFifo, PTL

-----------------------------------------------------------------------------
(* The pages handed out are 0, 1, ... around the buffer: the counter stands *)
(* at the next one, or behind the last one, which counts as the first.      *)
PageInv ==
  /\ pages \in Seq(0..(MaxIOPages - 1))
  /\ pageCtr \in 0..MaxIOPages
  /\ NextPage = Len(pages) % MaxIOPages
  /\ \A i \in 1..Len(pages) : pages[i] = (i - 1) % MaxIOPages

LEMMA PageInit == SchedulerInit => PageInv
<1> SUFFICES ASSUME SchedulerInit PROVE PageInv
  OBVIOUS
<1>1. pages = << >> /\ pageCtr = 0 /\ Len(pages) = 0
  BY DEF SchedulerInit
<1>2. << >> \in Seq(0..(MaxIOPages - 1))
  OBVIOUS
<1>3. 0 % MaxIOPages = 0
  BY PagesAssumption
<1> QED BY <1>1, <1>2, <1>3, PagesAssumption DEF PageInv, NextPage

LEMMA PageStep == PageInv /\ [SchedulerNext]_allVars => PageInv'
<1> SUFFICES ASSUME PageInv, [SchedulerNext]_allVars PROVE PageInv'
  OBVIOUS
<1>1. CASE MapBuffer
  <2> DEFINE n == Len(pages)
  <2>1. /\ n \in Nat /\ NextPage = n % MaxIOPages /\ NextPage \in 0..(MaxIOPages - 1)
        /\ (n + 1) % MaxIOPages = IF NextPage + 1 = MaxIOPages THEN 0 ELSE NextPage + 1
    <3>1. n \in Nat /\ NextPage = n % MaxIOPages
      BY DEF PageInv
    <3> HIDE DEF n
    <3> QED BY <3>1, PagesAssumption, RemainderStep
  <2>2. pages' = Append(pages, NextPage) /\ pageCtr' = NextPage + 1
    BY <1>1 DEF MapBuffer
  <2>3. /\ pages' \in Seq(0..(MaxIOPages - 1)) /\ Len(pages') = n + 1
        /\ pages'[n + 1] = NextPage /\ \A i \in 1..n : pages'[i] = pages[i]
    <3>1. pages \in Seq(0..(MaxIOPages - 1))
      BY DEF PageInv
    <3> QED BY <2>1, <2>2, <3>1, AppendProperties
  <2>4. pageCtr' \in 0..MaxIOPages /\ NextPage' = (n + 1) % MaxIOPages
    BY <2>1, <2>2, PagesAssumption DEF NextPage
  <2>5. ASSUME NEW i \in 1..(n + 1) PROVE pages'[i] = (i - 1) % MaxIOPages
    <3>1. CASE i = n + 1
      <4>1. i - 1 = n
        BY <2>1, <3>1
      <4> QED BY <2>1, <2>3, <3>1, <4>1
    <3>2. CASE i # n + 1
      <4>1. i \in 1..n
        BY <2>1, <3>2
      <4> QED BY <2>3, <4>1 DEF PageInv
    <3> QED BY <3>1, <3>2
  <2> QED BY <2>3, <2>4, <2>5 DEF PageInv
<1>2. CASE ~MapBuffer
  <2>1. UNCHANGED <<pageCtr, pages>>
    BY <1>2 DEF SchedulerNext, Enqueue, cleanUp, MemoryStep, Loop, ReleaseDone, NoWork, TakeWork,
       GoOnRemoving, KernelRead, KernelTaken, NullKernel, BuffersMapped, NotInLibrary, NothingFits, Retrieve,
       Decouple, Place, Couple, Loaded, loopVars, pageVars, allVars
  <2> QED BY <2>1 DEF PageInv, NextPage
<1> QED BY <1>1, <1>2

(* "allocate buffer in cyclic fashion": whatever kernels with whatever      *)
(* numbers of buffers come, a page is reused only after all the others.     *)
THEOREM PagesInTurn == SchedulerSpec => []PagesCycle
<1>1. PageInv => PagesCycle
  <2> SUFFICES ASSUME PageInv, NEW i \in 1..Len(pages), NEW j \in 1..Len(pages),
                      i < j, j - i < MaxIOPages
               PROVE  pages[i] # pages[j]
    BY DEF PagesCycle
  <2>1. i - 1 \in Nat /\ j - 1 \in Nat /\ i - 1 < j - 1 /\ (j - 1) - (i - 1) < MaxIOPages
    BY PagesAssumption DEF PageInv
  <2>2. (i - 1) % MaxIOPages # (j - 1) % MaxIOPages
    BY <2>1, PagesAssumption, RemaindersDiffer
  <2> QED BY <2>2 DEF PageInv
<1> QED BY <1>1, PageInit, PageStep, PTL DEF SchedulerSpec

-----------------------------------------------------------------------------
(* The scan for free slots.                                                 *)

(* The scan is the function its recursion describes.                        *)
LEMMA ScanDefined ==
  scan = [n \in 0..HWSlots |-> IF n = 0 THEN [region |-> 0, biggest |-> 0, first |-> -1]
                               ELSE ScanSlot(scan[n - 1], n)]
<1> DEFINE Start == [region |-> 0, biggest |-> 0, first |-> -1]
           Fits(g, m) == g = [n \in 0..m |-> IF n = 0 THEN Start ELSE ScanSlot(g[n - 1], n)]
           S == {m \in Nat : \E g : Fits(g, m)}
<1>1. 0 \in S
  <2>1. Fits([n \in 0..0 |-> Start], 0)
    OBVIOUS
  <2> QED BY <2>1
<1>2. ASSUME NEW m \in Nat, m \in S PROVE m + 1 \in S
  <2>1. PICK g : Fits(g, m)
    BY <1>2
  <2> DEFINE h == [n \in 0..(m + 1) |-> IF n = m + 1 THEN ScanSlot(g[m], m + 1) ELSE g[n]]
  <2>2. ASSUME NEW n \in 0..(m + 1)
        PROVE  h[n] = IF n = 0 THEN Start ELSE ScanSlot(h[n - 1], n)
    <3>1. CASE n = m + 1
      <4>1. n # 0 /\ n - 1 = m /\ h[n] = ScanSlot(g[m], n) /\ h[m] = g[m]
        BY <3>1
      <4> QED BY <4>1
    <3>2. CASE n # m + 1
      <4>1. n \in 0..m /\ h[n] = g[n]
        BY <3>2
      <4>2. n # 0 => n - 1 \in 0..(m + 1) /\ n - 1 # m + 1 /\ h[n - 1] = g[n - 1]
        BY <4>1
      <4> QED BY <2>1, <4>1, <4>2
    <3> QED BY <3>1, <3>2
  <2>3. Fits(h, m + 1)
    BY <2>2
  <2> HIDE DEF h, Fits
  <2> QED BY <2>3
<1>3. HWSlots \in S
  <2> HIDE DEF S
  <2> QED BY <1>1, <1>2, SetInduction, SlotsAssumption
<1>4. \E g : Fits(g, HWSlots)
  BY <1>3
<1>5. scan = CHOOSE g : Fits(g, HWSlots)
  BY DEF scan
<1> HIDE DEF Fits
<1>6. Fits(scan, HWSlots)
  BY <1>4, <1>5
<1> QED BY <1>6 DEF Fits

(* What the loop knows behind its first n slots.  A run of free slots that  *)
(* is not the biggest is not restarted: then the counter holds more slots   *)
(* than the run behind them, but the biggest region, its end, and the end   *)
(* of the run lie in front, which leaves no room for a wrong region in five *)
(* slots.                                                                   *)
Sound(n) ==
  LET s == scan[n] IN
  /\ s \in [region : 0..n, biggest : 0..n, first : -1..n]
  /\ s.biggest = 0 => s.first = -1
                      /\ \A t \in 0..(n - 1) : FPGA[t] = FREE <=> t >= n - s.region
  /\ s.biggest > 0 => s.first \in Nat /\ s.first + s.biggest + 1 <= n
  /\ \/ /\ \A t \in (n - s.region)..(n - 1) : FPGA[t] = FREE
        /\ s.biggest > 0 => s.first + s.biggest + 1 + s.region <= n
     \/ s.biggest > 0 /\ s.biggest + s.region + 2 <= n
  /\ n <= 5 /\ s.biggest > 0 =>
       \A t \in s.first..(s.first + s.biggest - 1) : FPGA[t] = FREE

LEMMA SoundStep ==
  ASSUME NEW n \in 0..(HWSlots - 1), Sound(n)
  PROVE  Sound(n + 1)
<1> DEFINE s == scan[n]  u == scan[n + 1]
<1>1. n \in Nat /\ n + 1 \in Nat /\ n + 1 # 0 /\ (n + 1) - 1 = n
  BY SlotsAssumption
<1>2. u = ScanSlot(s, n + 1)
  <2>1. n + 1 \in 0..HWSlots
    BY SlotsAssumption
  <2> QED BY <1>1, <2>1, ScanDefined
<1>3. CASE FPGA[n] = FREE
  <2>1. u = [s EXCEPT !.region = @ + 1]
    BY <1>1, <1>2, <1>3 DEF ScanSlot
  <2> QED BY <2>1, <1>1, <1>3 DEF Sound
<1>4. CASE FPGA[n] # FREE /\ s.region > s.biggest
  <2>1. u = [region |-> 0, biggest |-> s.region, first |-> n - s.region]
    BY <1>1, <1>2, <1>4 DEF ScanSlot
  <2> QED BY <2>1, <1>1, <1>4 DEF Sound
<1>5. CASE FPGA[n] # FREE /\ ~(s.region > s.biggest)
  <2>1. u = s
    BY <1>1, <1>2, <1>5 DEF ScanSlot
  <2> QED BY <2>1, <1>1, <1>5 DEF Sound
<1> QED BY <1>3, <1>4, <1>5

LEMMA SoundScan == Sound(HWSlots)
<1> DEFINE S == {n \in 0..HWSlots : Sound(n)}
<1>1. 0 \in S
  <2>1. scan[0] = [region |-> 0, biggest |-> 0, first |-> -1]
    BY ScanDefined, SlotsAssumption
  <2> QED BY <2>1, SlotsAssumption DEF Sound
<1>2. \A n \in 0..(HWSlots - 1) : n \in S => n + 1 \in S
  BY SoundStep, SlotsAssumption
<1>3. 0..HWSlots \subseteq S
  <2> HIDE DEF S
  <2> QED BY <1>1, <1>2, BoundedInduction, SlotsAssumption
<1> QED BY <1>3, SlotsAssumption

(* The region the scan finds lies in the FPGA, for any number of slots; for *)
(* up to five it is free.                                                   *)
RegionIsSound(start, length, free) ==
  /\ length \in 0..HWSlots /\ start \in -1..(HWSlots - 1)
  /\ length > 0 => /\ start \in HW
                   /\ HWSlots <= 5 => start..(start + length - 1) \subseteq free

LEMMA ScannedIsSound ==
  ASSUME FreeSlots # {}
  PROVE  RegionIsSound(Scanned.first, Scanned.biggest, FreeSlots)
<1> DEFINE s == scan[HWSlots]
<1>1. HWSlots \in Nat /\ HWSlots > 0 /\ Sound(HWSlots)
  BY SoundScan, SlotsAssumption
<1>2. CASE s.region = HWSlots
  <2>1. Scanned = [biggest |-> HWSlots, first |-> 0]
    BY <1>2 DEF Scanned
  <2>2. \A t \in HW : FPGA[t] = FREE
    BY <1>1, <1>2 DEF Sound, HW
  <2>3. HW = FreeSlots /\ 0..(0 + HWSlots - 1) = HW /\ 0 \in HW
    BY <1>1, <2>2 DEF FreeSlots, HW
  <2> QED BY <1>1, <2>1, <2>3 DEF RegionIsSound
<1>3. CASE s.region # HWSlots
  <2>1. Scanned = [biggest |-> s.biggest, first |-> s.first]
    BY <1>3 DEF Scanned
  <2>2. /\ s.biggest \in 0..HWSlots /\ s.region \in 0..HWSlots
        /\ s.biggest = 0 => s.first = -1
        /\ s.biggest > 0 => s.first \in Nat /\ s.first + s.biggest + 1 <= HWSlots
    BY <1>1 DEF Sound
  <2>3. ASSUME s.biggest > 0, HWSlots <= 5
        PROVE  s.first..(s.first + s.biggest - 1) \subseteq FreeSlots
    BY <1>1, <2>2, <2>3 DEF Sound, FreeSlots, HW
  <2> QED BY <1>1, <2>1, <2>2, <2>3 DEF RegionIsSound, HW
<1> QED BY <1>2, <1>3

-----------------------------------------------------------------------------
(* From a scan to the end of the loads that follow it.                      *)
Serving ==
  pc \in {"map", "retrieve", "load", "place", "couple"} \/ (pc = "queue" /\ spc # "test")

LoopTypes ==
  /\ pc \in {"release", "queue", "map", "retrieve", "load", "place", "couple",
             "exit", "undefined"}
  /\ FPGA \in [HW -> {FREE, OCCUPIED} \cup Kernels]
  /\ isDone \in [Kernels -> BOOLEAN] /\ decoupled \in [HW -> BOOLEAN]
  /\ first \in -1..(HWSlots - 1) /\ biggest \in 0..HWSlots
  /\ slot \in Nat /\ size \in Nat /\ buffers \in Nat
  /\ freeAtScan \subseteq HW

LoopInv ==
  /\ LoopTypes
  /\ pc \notin {"queue", "exit", "undefined"} => spc = "test"
  /\ Serving => RegionIsSound(first, biggest, freeAtScan)
  /\ pc \in {"load", "place", "couple"} => biggest > 0 /\ size > 0 /\ slot >= first
  /\ pc \in {"place", "couple"} => slot < biggest

LEMMA LoopInit == SchedulerInit => LoopInv
BY SlotsAssumption DEF SchedulerInit, Init, LoopInv, LoopTypes, Serving, HW

LEMMA LoopStep == LoopInv /\ [SchedulerNext]_allVars => LoopInv'
<1> SUFFICES ASSUME LoopInv, [SchedulerNext]_allVars PROVE LoopInv'
  OBVIOUS
<1> USE DEF LoopInv, LoopTypes, Serving, scanVars, loadVars, pageVars
<1>1. CASE ReleaseDone
  <2>1. PICK done \in SUBSET {FPGA[s] : s \in {t \in HW : FPGA[t] \notin {FREE, OCCUPIED}}} :
          releaseKernels(done)
    BY <1>1 DEF ReleaseDone
  <2>2. FPGA' \in [HW -> {FREE, OCCUPIED} \cup Kernels] /\ isDone' \in [Kernels -> BOOLEAN]
    BY <2>1 DEF releaseKernels
  <2> QED BY <1>1, <2>2 DEF ReleaseDone, vars, schedVars
<1>2. CASE NoWork
  BY <1>2 DEF NoWork, vars, schedVars
<1>3. CASE TakeWork
  <2>1. RegionIsSound(first, biggest, freeAtScan)'
    BY <1>3, ScannedIsSound DEF TakeWork, RegionIsSound
  <2> QED BY <1>3, <2>1 DEF TakeWork, RegionIsSound, FreeSlots
<1>4. CASE GoOnRemoving
  <2>1. spc # "test" /\ pc = "queue"
    BY <1>4 DEF GoOnRemoving, TakeKernel, LoadForRemove
  <2> QED BY <1>4, <2>1 DEF GoOnRemoving, loopVars, RegionIsSound
<1>17. CASE KernelRead \/ MemoryStep
  <2>1. UNCHANGED <<loopVars, spc>>
    BY <1>17 DEF KernelRead, ReadSlot, MemoryStep, Memory, StoreSeen, schedVars
  <2> QED BY <2>1 DEF loopVars, RegionIsSound
<1>18. CASE NullKernel
  BY <1>18 DEF NullKernel, vars, schedVars
<1>5. CASE KernelTaken
  <2>1. spc = "count" /\ spc' = "test"
    BY <1>5 DEF KernelTaken, CountRemove
  <2> QED BY <1>5, <2>1, IOAssumption DEF KernelTaken, RegionIsSound
<1>6. CASE MapBuffer
  BY <1>6 DEF MapBuffer, vars, schedVars, RegionIsSound
<1>7. CASE BuffersMapped
  BY <1>7 DEF BuffersMapped, vars, schedVars, RegionIsSound
<1>8. CASE NotInLibrary \/ NothingFits
  BY <1>8 DEF NotInLibrary, NothingFits, vars, schedVars
<1>9. CASE Retrieve
  <2>1. size' \in Nat \ {0} /\ size' <= biggest
    BY <1>9, LibraryAssumption DEF Retrieve
  <2>2. biggest > 0 /\ first \in HW
    BY <2>1, <1>9 DEF Retrieve, RegionIsSound
  <2> QED BY <1>9, <2>1, <2>2 DEF Retrieve, vars, schedVars, RegionIsSound, HW
<1>10. CASE Decouple
  BY <1>10 DEF Decouple, decouple, InRegion, vars, schedVars, RegionIsSound
<1>11. CASE Place
  <2>1. FPGA' \in [HW -> {FREE, OCCUPIED} \cup Kernels]
    BY <1>11 DEF Place
  <2> QED BY <1>11, <2>1 DEF Place, vars, schedVars, RegionIsSound
<1>12. CASE Couple
  <2>1. slot' \in Nat /\ slot' >= slot /\ UNCHANGED <<size, first, biggest, freeAtScan, spc>>
    BY <1>12 DEF Couple, NextSlot, vars, schedVars
  <2>2. decoupled' \in [HW -> BOOLEAN] /\ pc' \in {"load", "undefined"} /\ pc = "couple"
        /\ UNCHANGED <<FPGA, isDone, buffers>>
    BY <1>12 DEF Couple, decouple
  <2> QED BY <2>1, <2>2 DEF RegionIsSound
<1>13. CASE Loaded
  BY <1>13, SlotsAssumption DEF Loaded, vars, schedVars
<1>14. CASE Enqueue
  <2>1. UNCHANGED <<loopVars, spc>>
    BY <1>14 DEF Enqueue, User, Drop, HasRoom, StoreKernel, LoadForInsert, CountInsert, schedVars
  <2> QED BY <2>1 DEF loopVars, RegionIsSound
<1>15. CASE cleanUp
  BY <1>15 DEF cleanUp, vars, schedVars
<1>16. CASE UNCHANGED allVars
  BY <1>16 DEF allVars, loopVars, vars, schedVars, RegionIsSound
<1> QED BY <1>1, <1>2, <1>3, <1>4, <1>5, <1>6, <1>7, <1>8, <1>9, <1>10, <1>11, <1>12,
           <1>13, <1>14, <1>15, <1>16, <1>17, <1>18 DEF SchedulerNext, Loop

LEMMA LoopInductive == SchedulerSpec => []LoopInv
BY LoopInit, LoopStep, PTL DEF SchedulerSpec

(* Nothing the loop computes leaves its type: no index of the scan leaves   *)
(* the FPGA, for any number of slots, pages and kernels and any library.    *)
THEOREM SchedulerTypes == SchedulerSpec => []SchedulerTypeOK
<1>1. LoopInv /\ PageInv /\ TypeOK => SchedulerTypeOK
  BY DEF LoopInv, LoopTypes, PageInv, SchedulerTypeOK
<1>2. SchedulerSpec => []PageInv
  BY PageInit, PageStep, PTL DEF SchedulerSpec
<1> QED BY <1>1, <1>2, LoopInductive, UsesQueue, QueueTypes, PTL

(* On an FPGA of up to five slots (the program's has four) the region the   *)
(* scan picks is free, in spite of the runs it does not restart.            *)
THEOREM ScanFindsFree ==
  ASSUME HWSlots <= 5 PROVE SchedulerSpec => []ScanIsSound
<1>1. LoopInv => ScanIsSound
  BY DEF LoopInv, Serving, RegionIsSound, ScanIsSound, HW
<1> QED BY <1>1, LoopInductive, PTL

(* There, an instance is only loaded from a slot on that was free.          *)
THEOREM LoadsFreeSlots ==
  ASSUME HWSlots <= 5 PROVE SchedulerSpec => []LoadsStartFree
<1>1. LoopInv => LoadsStartFree
  <2> SUFFICES ASSUME LoopInv, pc \in {"place", "couple"} PROVE slot \in freeAtScan
    BY DEF LoadsStartFree
  <2>1. /\ first \in HW /\ biggest \in 0..HWSlots /\ slot \in Nat
        /\ first..(first + biggest - 1) \subseteq freeAtScan
    BY DEF LoopInv, LoopTypes, Serving, RegionIsSound
  <2>2. slot >= first /\ slot < biggest
    BY DEF LoopInv
  <2> QED BY <2>1, <2>2, SlotsAssumption DEF HW
<1> QED BY <1>1, LoopInductive, PTL

-----------------------------------------------------------------------------
LEMMA LoopNumbers ==
  ASSUME LoopInv
  PROVE  /\ buffers \in Nat /\ slot \in Nat /\ biggest \in Nat /\ size \in Nat
         /\ pc \in {"load", "place", "couple"} => size > 0
         /\ pc \in {"place", "couple"} => slot < biggest
<1>1. LoopTypes
  BY DEF LoopInv
<1> QED BY <1>1, SlotsAssumption DEF LoopInv, LoopTypes

(* What is left of a round is a number: a round cannot go on for ever.      *)
THEOREM RoundBounded == SchedulerSpec => [](Stage \in 0..8 /\ Left \in Nat)
<1>1. LoopInv => Stage \in 0..8 /\ Left \in Nat
  <2> SUFFICES ASSUME LoopInv PROVE Stage \in 0..8 /\ Left \in Nat
    OBVIOUS
  <2>1. Stage \in 0..8
    BY DEF Stage
  <2>2. /\ buffers \in Nat /\ slot \in Nat /\ biggest \in Nat
        /\ pc \in {"place", "couple"} => slot < biggest
    BY LoopNumbers
  <2>3. /\ 3 * (biggest - slot) \in Int
        /\ slot < biggest => /\ 3 * (biggest - slot) \in Nat
                             /\ 3 * (biggest - slot) + 1 \in Nat
                             /\ 3 * (biggest - slot) + 2 \in Nat
    BY <2>2
  <2>4. Left \in Nat
    BY <2>2, <2>3 DEF Left
  <2> QED BY <2>1, <2>4
<1> QED BY <1>1, LoopInductive, PTL

LEMMA LeftOf ==
  /\ pc = "queue" => Left = IF late = NoSlot THEN 0 ELSE 1
  /\ pc = "map" => Stage = 3 /\ Left = IF late = NoSlot THEN buffers ELSE buffers + 1
  /\ pc = "load" => Stage = 1 /\ Left = IF slot < biggest THEN 3 * (biggest - slot) + 2 ELSE 0
  /\ pc = "place" => Stage = 1 /\ Left = 3 * (biggest - slot) + 1
  /\ pc = "couple" => Stage = 1 /\ Left = 3 * (biggest - slot)
  /\ pc = "undefined" => Stage = 0
BY DEF Stage, Left

(* Every step of a round leaves less of it, for any number of slots, pages  *)
(* and kernels and any library.                                             *)
THEOREM RoundsAdvance == SchedulerSpec => RoundAdvances
<1> DEFINE Less == \/ pc' = "release" \/ Stage' < Stage
                   \/ Stage' = Stage /\ Left' < Left
           Values(s, l) ==
             /\ pc' = "queue" => l = IF late' = NoSlot THEN 0 ELSE 1
             /\ pc' = "map" => s = 3 /\ l = IF late' = NoSlot THEN buffers' ELSE buffers' + 1
             /\ pc' = "load" => s = 1 /\ l = IF slot' < biggest' THEN 3 * (biggest' - slot') + 2 ELSE 0
             /\ pc' = "place" => s = 1 /\ l = 3 * (biggest' - slot') + 1
             /\ pc' = "couple" => s = 1 /\ l = 3 * (biggest' - slot')
             /\ pc' = "undefined" => s = 0
<1>1. ASSUME LoopInv, Loop PROVE Less
  <2>1. CASE ReleaseDone BY <2>1 DEF ReleaseDone, vars, schedVars, Stage, Left
  <2>2. CASE NoWork BY <2>2 DEF NoWork
  <2>3. CASE TakeWork BY <2>3 DEF TakeWork, HasWork, Stage, Left
  <2>4. CASE GoOnRemoving
    BY <2>4 DEF GoOnRemoving, TakeKernel, LoadForRemove, loopVars, Stage, Left
  <2>5. CASE KernelTaken BY <2>5 DEF KernelTaken, CountRemove, Stage, Left
  <2>6. CASE BuffersMapped BY <2>6 DEF BuffersMapped, Stage, Left
  <2>7. CASE NullKernel \/ NotInLibrary \/ NothingFits
    BY <2>7 DEF NullKernel, NotInLibrary, NothingFits, Stage, Left
  <2>8. CASE Retrieve BY <2>8 DEF Retrieve, Stage, Left
  <2>9. CASE Loaded BY <2>9 DEF Loaded
  <2>10. Values(Stage', Left')
    BY DEF Stage, Left
  <2>11. /\ buffers \in Nat /\ slot \in Nat /\ biggest \in Nat /\ size \in Nat
         /\ pc = "couple" => slot < biggest /\ size > 0
    BY <1>1, LoopNumbers
  <2>12. CASE MapBuffer
    <3>1. /\ pc = "map" /\ pc' = "map" /\ buffers' = buffers - 1
          /\ late = NoSlot /\ late' = NoSlot
      BY <2>12 DEF MapBuffer, vars, queueVars
    <3>2. Stage = 3 /\ Left = buffers /\ Stage' = 3 /\ Left' = buffers - 1
      BY <2>10, <3>1, LeftOf
    <3> QED BY <2>11, <3>2
  <2>13. CASE Decouple
    <3>1. pc = "load" /\ pc' = "place" /\ slot < biggest /\ UNCHANGED <<slot, biggest>>
      BY <2>13 DEF Decouple, InRegion, scanVars
    <3>2. /\ Stage = 1 /\ Left = 3 * (biggest - slot) + 2
          /\ Stage' = 1 /\ Left' = 3 * (biggest - slot) + 1
      BY <2>10, <3>1, LeftOf
    <3> QED BY <2>11, <3>2
  <2>14. CASE Place
    <3>1. pc = "place" /\ pc' = "couple" /\ UNCHANGED <<slot, biggest>>
      BY <2>14 DEF Place, scanVars, loadVars
    <3>2. /\ Stage = 1 /\ Left = 3 * (biggest - slot) + 1
          /\ Stage' = 1 /\ Left' = 3 * (biggest - slot)
      BY <2>10, <3>1, LeftOf
    <3> QED BY <2>11, <3>2
  <2>15. CASE Couple
    <3>1. /\ pc = "couple" /\ pc' \in {"load", "undefined"}
          /\ slot' = slot + size /\ biggest' = biggest
      BY <2>15 DEF Couple, NextSlot, scanVars
    <3>2. Stage = 1 /\ Left = 3 * (biggest - slot)
      BY <3>1, LeftOf
    <3>3. CASE pc' = "undefined"
      <4>1. Stage' = 0
        BY <2>10, <3>3
      <4> QED BY <3>2, <4>1
    <3>4. CASE pc' = "load"
      <4>1. Stage' = 1 /\ Left' = IF slot' < biggest' THEN 3 * (biggest' - slot') + 2 ELSE 0
        BY <2>10, <3>4
      <4>2. slot < biggest /\ size > 0
        BY <2>11, <3>1
      <4> HIDE DEF Values
      <4>3. Left' < Left
        BY <2>11, <3>1, <3>2, <4>1, <4>2
      <4> QED BY <3>2, <4>1, <4>3
    <3> QED BY <3>1, <3>3, <3>4
  <2>16. CASE KernelRead
    <3>1. /\ late # NoSlot /\ late' = NoSlot /\ UNCHANGED <<pc, spc, buffers>>
          /\ pc \in {"queue", "map"}
      BY <2>16 DEF KernelRead, ReadSlot, loopVars, pageVars
    <3>2. Stage' = Stage
      BY <3>1 DEF Stage
    <3>3. CASE pc = "map"
      <4>1. Left = buffers + 1 /\ Left' = buffers
        BY <2>10, <3>1, <3>3, LeftOf
      <4> QED BY <2>11, <3>2, <4>1
    <3>4. CASE pc = "queue"
      <4>1. Left = 1 /\ Left' = 0
        BY <2>10, <3>1, <3>4, LeftOf
      <4> QED BY <3>2, <4>1
    <3> QED BY <3>1, <3>3, <3>4
  <2> QED BY <1>1, <2>1, <2>2, <2>3, <2>4, <2>5, <2>6, <2>7, <2>8, <2>9, <2>12, <2>13,
             <2>14, <2>15, <2>16 DEF Loop
<1>2. LoopInv /\ [SchedulerNext]_allVars => [Loop => Less]_allVars
  BY <1>1
<1> QED BY <1>2, LoopInductive, PTL DEF SchedulerSpec, RoundAdvances

-----------------------------------------------------------------------------
(* Nothing stores an accelerator in FPGA[]: the scan for kernels that are   *)
(* done never finds one, and the wait at scheduler.c:439 does not end,      *)
(* whatever the kernels, the libraries and the loader are.                  *)
THEOREM NoKernelIsDone == SchedulerSpec => [](\A k \in Kernels : ~isDone[k])
<1> DEFINE NoneFound == /\ \A s \in HW : FPGA[s] \in {FREE, OCCUPIED}
                        /\ \A k \in Kernels : ~isDone[k]
<1>1. SchedulerInit => NoneFound
  BY DEF SchedulerInit
<1>2. NoneFound /\ [SchedulerNext]_allVars => NoneFound'
  <2> SUFFICES ASSUME NoneFound, [SchedulerNext]_allVars PROVE NoneFound'
    OBVIOUS
  <2>1. CASE ReleaseDone
    <3>1. PICK done \in SUBSET {FPGA[s] : s \in {t \in HW : FPGA[t] \notin {FREE, OCCUPIED}}} :
            releaseKernels(done)
      BY <2>1 DEF ReleaseDone
    <3>2. done = {}
      OBVIOUS
    <3> QED BY <3>1, <3>2 DEF releaseKernels
  <2>2. CASE Place
    BY <2>2 DEF Place
  <2>3. CASE ~ReleaseDone /\ ~Place
    <3>1. UNCHANGED <<FPGA, isDone>>
      BY <2>3 DEF SchedulerNext, Enqueue, cleanUp, MemoryStep, Loop, NoWork, TakeWork,
         GoOnRemoving, KernelRead, KernelTaken, NullKernel, MapBuffer, BuffersMapped, NotInLibrary, NothingFits, Retrieve,
         Decouple, Couple, Loaded, loopVars, allVars
    <3> QED BY <3>1
  <2> QED BY <2>1, <2>2, <2>3
<1> QED BY <1>1, <1>2, PTL DEF SchedulerSpec
=============================================================================
