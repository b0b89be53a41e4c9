------------------------- MODULE WaitingQueueProofs -------------------------
(***************************************************************************)
(* The ring buffer of the scheduler implements a bounded FIFO queue, for   *)
(* every size of the buffer and every set of kernels.                      *)
(***************************************************************************)
EXTENDS WaitingQueue, SequenceTheorems, TLAPS

(* The inductive invariant: the ends agree and what lies between them are   *)
(* kernels.                                                                 *)
RingInv == TypeOK /\ EndsAgree

LEMMA RingInit == Init => RingInv
BY SizeAssumption DEF Init, RingInv, TypeOK, EndsAgree, Slots, NextRear, Slot

LEMMA InsertKeeps ==
  ASSUME RingInv, NEW k \in Kernels, wqInsert(k)
  PROVE  RingInv'
<1> USE SizeAssumption DEF RingInv, TypeOK, Slots
<1>1. CASE wqIsFull
  BY <1>1 DEF wqInsert, EndsAgree, NextRear, Slot, Contents
<1>2. CASE ~wqIsFull
  <2>1. wqCount \in 0..(Size - 1) /\ NextRear \in Slots
    BY <1>2 DEF wqIsFull, NextRear
  <2>2. /\ wqRear' = NextRear /\ wqCount' = wqCount + 1 /\ wqFront' = wqFront
        /\ waitingQueue' = [waitingQueue EXCEPT ![NextRear] = k] /\ taken' = taken
    BY <1>2 DEF wqInsert
  <2>3. TypeOK'
    BY <2>1, <2>2
  <2>4. NextRear' = Slot(wqFront + wqCount)'
    BY <2>1, <2>2 DEF EndsAgree, NextRear, Slot
  <2>5. ASSUME NEW i \in 1..wqCount' PROVE Contents'[i] \in Kernels
    <3>1. CASE i = wqCount'
      BY <2>1, <2>2, <3>1 DEF EndsAgree, Contents, Slot
    <3>2. CASE i # wqCount'
      <4>1. i \in 1..wqCount /\ Slot(wqFront + i - 1) \in Slots
        BY <2>1, <2>2, <3>2 DEF Slot
      <4>2. Contents[i] \in Kernels
        BY <4>1 DEF EndsAgree
      <4> QED BY <2>1, <2>2, <4>1, <4>2 DEF Contents, Slot
    <3> QED BY <3>1, <3>2
  <2> QED BY <2>3, <2>4, <2>5 DEF EndsAgree
<1> QED BY <1>1, <1>2

LEMMA RemoveKeeps ==
  ASSUME RingInv, Schedule
  PROVE  RingInv'
<1> USE SizeAssumption DEF RingInv, TypeOK, Slots
<1>1. /\ wqCount \in 1..Size
      /\ wqFront' = NextFront /\ wqCount' = wqCount - 1 /\ wqRear' = wqRear
      /\ waitingQueue' = waitingQueue /\ taken' = waitingQueue[wqFront]
  BY DEF Schedule, wqRemove, wqIsEmpty
<1>2. TypeOK'
  BY <1>1 DEF NextFront
<1>3. NextRear' = Slot(wqFront + wqCount)'
  BY <1>1 DEF EndsAgree, NextRear, NextFront, Slot
<1>4. ASSUME NEW i \in 1..wqCount' PROVE Contents'[i] \in Kernels
  <2>1. i + 1 \in 1..wqCount
    BY <1>1
  <2>2. Slot(wqFront' + i - 1) = Slot(wqFront + (i + 1) - 1)
    BY <1>1 DEF NextFront, Slot
  <2>3. Contents[i + 1] \in Kernels
    BY <2>1 DEF EndsAgree
  <2> QED BY <1>1, <2>1, <2>2, <2>3 DEF Contents, Slot
<1> QED BY <1>2, <1>3, <1>4 DEF EndsAgree

LEMMA RingStutter == ASSUME RingInv, UNCHANGED vars PROVE RingInv'
BY DEF RingInv, TypeOK, EndsAgree, NextRear, Slot, Contents, vars

(* The ends of the ring stay as far apart as wqCount says, for a buffer of  *)
(* any size.                                                                *)
LEMMA RingInductive == Spec => []RingInv
<1>1. RingInv /\ [Next]_vars => RingInv'
  BY InsertKeeps, RemoveKeeps, RingStutter DEF Next, Enqueue
<1> QED BY <1>1, RingInit, PTL DEF Spec

THEOREM RingConsistent == Spec => [](TypeOK /\ EndsAgree)
BY RingInductive, PTL DEF RingInv

-----------------------------------------------------------------------------
(* The refinement.                                                          *)

(* The indices and the count stay in their ranges: the ring never reads or  *)
(* writes outside its array, for every size.                                *)
THEOREM RingTypes == Spec => []TypeOK
<1>1. RingInv => TypeOK
  BY DEF RingInv
<1> QED BY <1>1, RingInductive, PTL

LEMMA ContentsSequence ==
  ASSUME RingInv
  PROVE  Contents \in Seq(Kernels) /\ Len(Contents) = wqCount
<1>1. wqCount \in Nat
  BY SizeAssumption DEF RingInv, TypeOK
<1>2. DOMAIN Contents = 1..wqCount
  BY DEF Contents
<1>3. Contents \in [1..wqCount -> Kernels]
  <2>1. \A i \in 1..wqCount : Contents[i] \in Kernels
    BY DEF RingInv, EndsAgree
  <2>2. Contents = [i \in 1..wqCount |-> Contents[i]]
    BY DEF Contents
  <2> QED BY <2>1, <2>2
<1> QED BY <1>1, <1>2, <1>3, SeqDef

LEMMA InsertRefines ==
  ASSUME RingInv, NEW k \in Kernels, wqInsert(k)
  PROVE  Fifo!Insert(k)
<1> USE SizeAssumption DEF TypeOK, Slots
<1>1. RingInv'
  BY InsertKeeps
<1>2. Contents \in Seq(Kernels) /\ Len(Contents) = wqCount
  BY ContentsSequence
<1>3. Contents' \in Seq(Kernels) /\ Len(Contents') = wqCount'
  <2>1. wqCount' \in Nat /\ DOMAIN Contents' = 1..wqCount'
    BY <1>1 DEF Contents, RingInv
  <2>2. \A i \in 1..wqCount' : Contents'[i] \in Kernels
    BY <1>1 DEF RingInv, EndsAgree
  <2>3. Contents' = [i \in 1..wqCount' |-> Contents'[i]]
    BY DEF Contents
  <2>4. Contents' \in [1..wqCount' -> Kernels]
    BY <2>2, <2>3
  <2> QED BY <2>1, <2>4, SeqDef
<1>4. CASE wqIsFull
  <2>1. Contents' = Contents
    BY <1>4 DEF wqInsert, Contents, Slot
  <2> QED BY <1>2, <1>4, <2>1 DEF Fifo!Insert, wqInsert, wqIsFull, RingInv
<1>5. CASE ~wqIsFull
  <2>1. /\ wqCount \in 0..(Size - 1) /\ NextRear \in Slots
        /\ wqCount' = wqCount + 1 /\ wqFront' = wqFront
        /\ waitingQueue' = [waitingQueue EXCEPT ![NextRear] = k] /\ taken' = taken
    BY <1>5 DEF wqInsert, wqIsFull, NextRear, RingInv
  <2>2. Len(Append(Contents, k)) = wqCount + 1
    BY <1>2, <2>1
  <2>3. ASSUME NEW i \in 1..(wqCount + 1) PROVE Contents'[i] = Append(Contents, k)[i]
    <3>1. CASE i = wqCount + 1
      <4>1. Contents'[i] = k
        BY <2>1, <3>1 DEF RingInv, EndsAgree, Contents, Slot
      <4>2. Append(Contents, k)[i] = k
        BY <1>2, <3>1
      <4> QED BY <4>1, <4>2
    <3>2. CASE i # wqCount + 1
      <4>1. i \in 1..wqCount
        BY <2>1, <3>2
      <4>2. Slot(wqFront + i - 1) # NextRear /\ Slot(wqFront + i - 1) \in Slots
        BY <2>1, <4>1 DEF RingInv, EndsAgree, Slot
      <4>3. Contents'[i] = Contents[i]
        BY <2>1, <4>1, <4>2 DEF Contents, Slot, RingInv
      <4>4. Append(Contents, k)[i] = Contents[i]
        BY <1>2, <4>1
      <4> QED BY <4>3, <4>4
    <3> QED BY <3>1, <3>2
  <2>4. Contents' = Append(Contents, k)
    <3>1. Append(Contents, k) \in Seq(Kernels)
      BY <1>2
    <3> QED BY <1>3, <2>1, <2>2, <2>3, <3>1, SeqEqual
  <2> QED BY <1>2, <2>1, <2>4 DEF Fifo!Insert
<1> QED BY <1>4, <1>5

LEMMA RemoveRefines ==
  ASSUME RingInv, Schedule
  PROVE  Fifo!Remove
<1> USE SizeAssumption DEF TypeOK, Slots
<1>1. RingInv'
  BY RemoveKeeps
<1>2. Contents \in Seq(Kernels) /\ Len(Contents) = wqCount
  BY ContentsSequence
<1>3. /\ wqCount \in 1..Size
      /\ wqFront' = NextFront /\ wqCount' = wqCount - 1
      /\ waitingQueue' = waitingQueue /\ taken' = waitingQueue[wqFront]
  BY DEF Schedule, wqRemove, wqIsEmpty, RingInv
<1>4. Contents # << >> /\ taken' = Head(Contents)
  <2>1. Slot(wqFront) = wqFront
    BY DEF Slot, RingInv
  <2>2. Contents[1] = waitingQueue[wqFront]
    BY <1>3, <2>1 DEF Contents, RingInv
  <2> QED BY <1>2, <1>3, <2>2
<1>5. Contents' \in Seq(Kernels) /\ Len(Contents') = wqCount'
  <2>1. wqCount' \in Nat /\ DOMAIN Contents' = 1..wqCount'
    BY <1>1 DEF Contents, RingInv
  <2>2. \A i \in 1..wqCount' : Contents'[i] \in Kernels
    BY <1>1 DEF RingInv, EndsAgree
  <2>3. Contents' = [i \in 1..wqCount' |-> Contents'[i]]
    BY DEF Contents
  <2>4. Contents' \in [1..wqCount' -> Kernels]
    BY <2>2, <2>3
  <2> QED BY <2>1, <2>4, SeqDef
<1>6. Tail(Contents) \in Seq(Kernels) /\ Len(Tail(Contents)) = wqCount - 1
  BY <1>2, <1>4
<1>7. ASSUME NEW i \in 1..(wqCount - 1) PROVE Contents'[i] = Tail(Contents)[i]
  <2>1. Slot(wqFront' + i - 1) = Slot(wqFront + (i + 1) - 1) /\ i + 1 \in 1..wqCount
    BY <1>3 DEF NextFront, Slot, RingInv
  <2>2. Contents'[i] = Contents[i + 1]
    BY <1>3, <2>1 DEF Contents, Slot, RingInv
  <2>3. Tail(Contents)[i] = Contents[i + 1]
    BY <1>2, <1>3, <1>4
  <2> QED BY <2>2, <2>3
<1>8. Contents' = Tail(Contents)
  BY <1>3, <1>5, <1>6, <1>7, SeqEqual
<1> QED BY <1>4, <1>8 DEF Fifo!Remove

(* The ring buffer with its two indices and its counter does what a bounded *)
(* FIFO queue does ("Employs FIFO semantics"), dropping when full.          *)
THEOREM QueueIsFifo == Spec => ImplementsFifo
<1>1. Init => Fifo!Init
  <2> SUFFICES ASSUME Init PROVE Contents = << >> /\ taken = NoKernel
    BY DEF Fifo!Init
  <2>1. RingInv /\ wqCount = 0
    BY RingInit DEF Init
  <2> QED BY <2>1, ContentsSequence DEF Init
<1>2. RingInv /\ [Next]_vars => [Fifo!Next]_<<Contents, taken>>
  <2> SUFFICES ASSUME RingInv, [Next]_vars
               PROVE  Fifo!Next \/ UNCHANGED <<Contents, taken>>
    OBVIOUS
  <2>1. CASE UNCHANGED vars
    BY <2>1 DEF vars, Contents, Slot
  <2>2. CASE Next
    BY <2>2, InsertRefines, RemoveRefines DEF Next, Enqueue, Fifo!Next
  <2> QED BY <2>1, <2>2
<1> QED BY <1>1, <1>2, RingInductive, PTL DEF Spec, ImplementsFifo, Fifo!Spec
=============================================================================
