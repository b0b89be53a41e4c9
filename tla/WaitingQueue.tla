---------------------------- MODULE WaitingQueue ----------------------------
(***************************************************************************)
(* The scheduler's waiting queue, scheduler.h:111-158: a ring buffer of    *)
(* kernel pointers.  Here every call of wqInsert and wqRemove is one step: *)
(* this is what the functions do when their calls do not overlap.          *)
(* SchedulerQueue has them overlap, as the program lets them.              *)
(***************************************************************************)
EXTENDS Integers, Sequences

CONSTANTS
  Kernels,     \* kernel descriptions clEnqueueNDRangeKernel may create
  Size,        \* WAITING_QUEUE_SIZE
  NoKernel     \* the null pointer a fresh array is full of

ASSUME SizeAssumption == Size \in Nat \ {0}
ASSUME NoKernelAssumption == NoKernel \notin Kernels

VARIABLES waitingQueue, wqFront, wqRear, wqCount,
          taken          \* what wqRemove returned last

vars == <<waitingQueue, wqFront, wqRear, wqCount, taken>>

Slots == 0..(Size - 1)

TypeOK ==
  /\ waitingQueue \in [Slots -> Kernels \cup {NoKernel}]
  /\ wqFront \in Slots
  /\ wqRear \in -1..(Size - 1)
  /\ wqCount \in 0..Size
  /\ taken \in Kernels \cup {NoKernel}

Init ==
  /\ waitingQueue = [s \in Slots |-> NoKernel]
  /\ wqFront = 0 /\ wqRear = -1 /\ wqCount = 0
  /\ taken = NoKernel

wqIsEmpty == wqCount = 0
wqIsFull  == wqCount = Size

NextRearUnwrapped == wqRear + 1      \* mutants: no wrap, wrap one slot early
NextFrontEarly == IF wqFront + 2 >= Size THEN 0 ELSE wqFront + 1

(* The slot after the last one filled, and the one after that filled first. *)
NextRear  == IF wqRear = Size - 1 THEN 0 ELSE wqRear + 1
NextFront == IF wqFront + 1 = Size THEN 0 ELSE wqFront + 1

(* A full queue drops the kernel, and its caller cannot tell.               *)
wqInsert(data) ==
  /\ IF wqIsFull
       THEN UNCHANGED <<waitingQueue, wqRear, wqCount>>
       ELSE /\ wqRear' = NextRear
            /\ waitingQueue' = [waitingQueue EXCEPT ![NextRear] = data]
            /\ wqCount' = wqCount + 1
  /\ UNCHANGED <<wqFront, taken>>

(* Mutant: waitingQueue[++wqFront].                                         *)
wqRemovePreIncrement ==
  /\ taken' = waitingQueue[NextFront]
  /\ wqFront' = NextFront
  /\ wqCount' = wqCount - 1
  /\ UNCHANGED <<waitingQueue, wqRear>>

(* wqRemove does not test for an empty queue: its one caller does.          *)
wqRemove ==
  /\ taken' = waitingQueue[wqFront]
  /\ wqFront' = NextFront
  /\ wqCount' = wqCount - 1
  /\ UNCHANGED <<waitingQueue, wqRear>>

Enqueue(k) == wqInsert(k)
Schedule   == ~wqIsEmpty /\ wqRemove

Next == (\E k \in Kernels : Enqueue(k)) \/ Schedule

Spec == Init /\ [][Next]_vars

-----------------------------------------------------------------------------
(* Properties.                                                              *)

(* The waiting kernels, oldest first.                                       *)
Slot(n) == IF n >= Size THEN n - Size ELSE n
Contents == [i \in 1..wqCount |-> waitingQueue[Slot(wqFront + i - 1)]]

(* The two ends of the ring stay wqCount apart, through every wrap of       *)
(* either: the count that wqIsFull and wqIsEmpty test is that of the        *)
(* kernels between them, and none of these is the null pointer.             *)
EndsAgree ==
  /\ NextRear = Slot(wqFront + wqCount)
  /\ \A i \in 1..wqCount : Contents[i] \in Kernels

(* The ring buffer is a bounded FIFO queue.                                 *)
Fifo == INSTANCE KernelFifo WITH queue <- Contents
ImplementsFifo == Fifo!Spec
=============================================================================
