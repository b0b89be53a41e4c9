--------------------------- MODULE SchedulerQueue ---------------------------
(***************************************************************************)
(* The waiting queue as the program uses it: the user's thread inserts     *)
(* (clEnqueueNDRangeKernel), the scheduler's thread, which startScheduler  *)
(* creates, removes, and nothing keeps the two calls apart.  A step is one *)
(* access to a variable both threads use.  `wqCount++` and `wqCount--` are *)
(* a load and a store.                                                     *)
(*                                                                         *)
(* The globals are plain and there is no barrier.  The threads' accesses   *)
(* to wqCount alone agree on one order, in the memory of the target and    *)
(* here; those to the array need not keep their places in it.  A kernel    *)
(* may reach the array after the counter that announces it has been        *)
(* stored, and the slot a kernel is taken from may be read after the       *)
(* counter that gives it back.  A read that is answered before the counter *)
(* is tested returns what the slot held then: nobody can tell it from one  *)
(* in its place that a late store has not reached.                         *)
(***************************************************************************)
EXTENDS Integers, Sequences

CONSTANTS
  Size,          \* WAITING_QUEUE_SIZE
  MaxKernels     \* bound: kernels the user enqueues

ASSUME SizeAssumption == Size \in Nat \ {0}
ASSUME BoundAssumption == MaxKernels \in Nat

NoKernel == 0              \* the null pointer; kernels are numbered from 1
Slots    == 0..(Size - 1)
NoSlot   == -1

VARIABLES
  waitingQueue, wqFront, wqRear, wqCount,
  pending,           \* the kernels stored that the other thread cannot see yet
  late,              \* the slot whose read has been issued and not answered
  upc, uloaded,      \* the user's thread: where it is, what it loaded
  spc, sloaded,      \* the scheduler's thread
  kernel,            \* the kernel clEnqueueNDRangeKernel is busy with
  accepted,          \* history: kernels stored in the queue
  removed            \* history: kernels the scheduler took out

queueVars == <<waitingQueue, pending, late, wqFront, wqRear>>
userVars  == <<upc, uloaded, kernel, accepted>>
schedVars == <<spc, sloaded, removed>>
vars == <<queueVars, wqCount, userVars, schedVars>>

TypeOK ==
  /\ waitingQueue \in [Slots -> 0..MaxKernels]
  /\ pending \in [Slots -> 0..MaxKernels] /\ late \in Slots \cup {NoSlot}
  /\ wqFront \in Slots /\ wqRear \in -1..(Size - 1)
  /\ wqCount \in Int /\ uloaded \in Int /\ sloaded \in Int
  /\ upc \in {"test", "store", "load", "count"}
  /\ spc \in {"test", "take", "load", "count"}
  /\ kernel \in 1..(MaxKernels + 1)
  /\ accepted \in Seq(1..MaxKernels) /\ removed \in Seq(0..MaxKernels)

Init ==
  /\ waitingQueue = [s \in Slots |-> NoKernel]
  /\ pending = [s \in Slots |-> NoKernel] /\ late = NoSlot
  /\ wqFront = 0 /\ wqRear = -1 /\ wqCount = 0
  /\ upc = "test" /\ uloaded = 0 /\ kernel = 1
  /\ spc = "test" /\ sloaded = 0
  /\ accepted = << >> /\ removed = << >>

wqIsEmpty == wqCount = 0
wqIsFullLate == wqCount > Size     \* mutant
wqIsFull  == wqCount = Size

-----------------------------------------------------------------------------
(* wqInsert, in the user's thread.                                          *)

(* A full queue drops the kernel; the user goes on to the next one.         *)
Drop ==
  /\ upc = "test" /\ kernel <= MaxKernels
  /\ wqIsFull
  /\ kernel' = kernel + 1
  /\ UNCHANGED <<queueVars, wqCount, upc, uloaded, accepted, schedVars>>

HasRoom ==
  /\ upc = "test" /\ kernel <= MaxKernels
  /\ ~wqIsFull
  /\ upc' = "store"
  /\ UNCHANGED <<queueVars, wqCount, uloaded, kernel, accepted, schedVars>>

NextRearUnwrapped == wqRear + 1     \* mutant

(* Only this thread uses wqRear.  The kernel is on its way to the array.    *)
NextRear == IF wqRear = Size - 1 THEN 0 ELSE wqRear + 1
StoreKernel ==
  /\ upc = "store" /\ upc' = "load"
  /\ wqRear' = NextRear
  /\ pending' = [pending EXCEPT ![NextRear] = kernel]
  /\ accepted' = Append(accepted, kernel)
  /\ UNCHANGED <<waitingQueue, late, wqFront, wqCount, uloaded, kernel, schedVars>>

(* The kernel reaches the array.                                            *)
StoreSeen(s) ==
  /\ pending[s] # NoKernel
  /\ waitingQueue' = [waitingQueue EXCEPT ![s] = pending[s]]
  /\ pending' = [pending EXCEPT ![s] = NoKernel]
  /\ UNCHANGED <<late, wqFront, wqRear, wqCount, userVars, schedVars>>

LoadForInsert ==
  /\ upc = "load" /\ upc' = "count"
  /\ uloaded' = wqCount
  /\ UNCHANGED <<queueVars, wqCount, kernel, accepted, schedVars>>

CountInsert ==
  /\ upc = "count" /\ upc' = "test"
  /\ wqCount' = uloaded + 1
  /\ kernel' = kernel + 1
  /\ UNCHANGED <<queueVars, uloaded, accepted, schedVars>>

-----------------------------------------------------------------------------
(* The scheduler's loop, when it has free slots: wqRemove if not empty.     *)

(* The kernel removed before has been used, and so read.                    *)
HasWork ==
  /\ spc = "test" /\ spc' = "take"
  /\ late = NoSlot
  /\ ~wqIsEmpty
  /\ UNCHANGED <<queueVars, wqCount, sloaded, removed, userVars>>

(* Only this thread uses wqFront.  The read of the slot is issued.          *)
NextFront == IF wqFront + 1 = Size THEN 0 ELSE wqFront + 1
TakeKernel ==
  /\ spc = "take" /\ spc' = "load"
  /\ late' = wqFront
  /\ wqFront' = NextFront
  /\ UNCHANGED <<waitingQueue, pending, wqRear, wqCount, sloaded, removed, userVars>>

(* The read is answered.                                                    *)
ReadSlot ==
  /\ late # NoSlot /\ late' = NoSlot
  /\ removed' = Append(removed, waitingQueue[late])
  /\ UNCHANGED <<waitingQueue, pending, wqFront, wqRear, wqCount, spc, sloaded, userVars>>

LoadForRemove ==
  /\ spc = "load" /\ spc' = "count"
  /\ sloaded' = wqCount
  /\ UNCHANGED <<queueVars, wqCount, removed, userVars>>

CountRemove ==
  /\ spc = "count" /\ spc' = "test"
  /\ wqCount' = sloaded - 1
  /\ UNCHANGED <<queueVars, sloaded, removed, userVars>>

User      == Drop \/ HasRoom \/ StoreKernel \/ LoadForInsert \/ CountInsert
Scheduler == HasWork \/ TakeKernel \/ ReadSlot \/ LoadForRemove \/ CountRemove
Memory    == \E s \in Slots : StoreSeen(s)

Next == User \/ Scheduler \/ Memory

Spec == Init /\ [][Next]_vars

-----------------------------------------------------------------------------
(* Properties.                                                              *)

(* Whatever updates the two threads lose, the counter stays within the      *)
(* queue: wqIsEmpty and wqIsFull, which test for equality, are never        *)
(* jumped over, so the scheduler stops removing and the user stops          *)
(* inserting.                                                               *)
CountInRange == 0 <= wqCount /\ wqCount <= Size

(* "Employs FIFO semantics" (scheduler.h:112): the scheduler takes the      *)
(* kernels out in the order they went in, each once.                        *)
FifoOrder ==
  /\ Len(removed) <= Len(accepted)
  /\ \A i \in 1..Len(removed) : removed[i] = accepted[i]

(* Two things break that order, and nothing else does: updates of wqCount   *)
(* that overlap (Exclusive), and accesses to the array that take effect     *)
(* behind the store to wqCount that follows them (Ordered).  With the       *)
(* updates kept apart and the accesses in order, wqInsert and wqRemove may  *)
(* overlap in every other way, around both ends of the array.  The program  *)
(* ensures neither.                                                         *)
Exclusive == ~(upc = "count" /\ spc = "count")
Ordered ==
  /\ upc = "test" => \A s \in Slots : pending[s] = NoKernel
  /\ spc = "test" => late = NoSlot
FifoIfOrdered == []Exclusive /\ []Ordered => []FifoOrder

(* The queue behind both threads' accesses, oldest kernel first.            *)
Waiting   == SubSeq(accepted, Len(removed) + 1, Len(accepted))
LastTaken == IF removed = << >> THEN NoKernel ELSE removed[Len(removed)]
Fifo == INSTANCE KernelFifo
          WITH Kernels <- 1..MaxKernels, queue <- Waiting, taken <- LastTaken
=============================================================================
