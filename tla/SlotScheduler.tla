--------------------------- MODULE SlotScheduler ----------------------------
(***************************************************************************)
(* The scheduler's loop (scheduler.c): it takes kernels out of the waiting *)
(* queue, hands out I/O pages, looks for free slots and loads instances of *)
(* the kernel's accelerator into them.  The queue is SchedulerQueue, step  *)
(* by step; what only the scheduler's thread touches may change in bigger  *)
(* steps.                                                                  *)
(*                                                                         *)
(* scheduler.c is modelled as written: nothing under src/ stores an        *)
(* accelerator in FPGA[], and what marks a slot OCCUPIED can only be the   *)
(* loader place_accelerator_ptr, which is not under src/.                  *)
(***************************************************************************)
EXTENDS SchedulerQueue, FiniteSets

CONSTANTS
  HWSlots,       \* HW_SLOTS
  MaxIOPages,    \* MAX_IO_PAGES
  Libraries,     \* the sizes of a kernel's bitstreams that getAccel may return
  IOCounts       \* numbers of inputs and outputs of a kernel

ASSUME SlotsAssumption == HWSlots \in Nat \ {0}
ASSUME PagesAssumption == MaxIOPages \in Nat \ {0}
ASSUME LibraryAssumption == Libraries \subseteq SUBSET (Nat \ {0})
ASSUME IOAssumption == IOCounts \subseteq Nat

HW == 0..(HWSlots - 1)

(* Values of FPGA[s]; any other number is an accelerator of that kernel.    *)
FREE     == 0
OCCUPIED == -1

VARIABLES
  pc,                   \* where the loop is; "exit" and "undefined" end the process
  FPGA, isDone, decoupled,
  first, biggest,       \* firstFreeSlot and biggestContiguousRegion
  slot, size,           \* the loading loop's slot, its step bitstream->no_of_slots
  buffers, pageCtr,     \* buffers still to map, physical_io_buffer_ctr
  pages,                \* history: the pages handed out
  freeAtScan            \* history: the slots that were free at the last scan

scanVars == <<first, biggest, freeAtScan>>
loadVars == <<slot, size, decoupled>>
pageVars == <<buffers, pageCtr, pages>>
loopVars == <<pc, FPGA, isDone, scanVars, loadVars, pageVars>>
allVars  == <<vars, loopVars>>

Kernels == 1..MaxKernels
Ended   == pc \in {"exit", "undefined"}

SchedulerTypeOK ==
  /\ TypeOK
  /\ pc \in {"release", "queue", "map", "retrieve", "load", "place", "couple",
             "exit", "undefined"}
  /\ FPGA \in [HW -> {FREE, OCCUPIED} \cup Kernels]
  /\ isDone \in [Kernels -> BOOLEAN] /\ decoupled \in [HW -> BOOLEAN]
  /\ first \in -1..(HWSlots - 1) /\ biggest \in 0..HWSlots
  /\ slot \in Nat /\ size \in Nat
  /\ buffers \in Nat /\ pageCtr \in 0..MaxIOPages
  /\ pages \in Seq(0..(MaxIOPages - 1)) /\ freeAtScan \subseteq HW

SchedulerInit ==
  /\ Init
  /\ pc = "release"
  /\ FPGA = [s \in HW |-> FREE] /\ decoupled = [s \in HW |-> FALSE]
  /\ isDone = [k \in Kernels |-> FALSE]
  /\ first = -1 /\ biggest = 0 /\ freeAtScan = {}
  /\ slot = 0 /\ size = 0
  /\ buffers = 0 /\ pageCtr = 0 /\ pages = << >>

-----------------------------------------------------------------------------
(* The scan for free slots.                                                 *)

FreeSlots == {s \in HW : FPGA[s] = FREE}

ScannedCounting ==     \* mutant
  [biggest |-> Cardinality(FreeSlots), first |-> IF FreeSlots = {} THEN -1 ELSE 0]

(* The loop's variables behind its pass over slot n - 1.                    *)
ScanSlot(before, n) ==
  IF FPGA[n - 1] = FREE
  THEN [before EXCEPT !.region = @ + 1]
  ELSE IF before.region > before.biggest
  THEN [region |-> 0, biggest |-> before.region, first |-> n - 1 - before.region]
  ELSE before
scan[n \in 0..HWSlots] ==
  IF n = 0 THEN [region |-> 0, biggest |-> 0, first |-> -1] ELSE ScanSlot(scan[n - 1], n)

Scanned ==
  IF scan[HWSlots].region = HWSlots
  THEN [biggest |-> HWSlots, first |-> 0]
  ELSE [biggest |-> scan[HWSlots].biggest, first |-> scan[HWSlots].first]

-----------------------------------------------------------------------------
(* The loop.                                                                *)

(* Frees the slots of the kernels' accelerators and marks the kernels done. *)
releaseKernels(done) ==
  /\ isDone' = [k \in Kernels |-> isDone[k] \/ k \in done]
  /\ FPGA' = [s \in HW |-> IF FPGA[s] \in done THEN FREE ELSE FPGA[s]]

(* Kernels whose accelerator is idle and that have no work left are         *)
(* released; isAccelFree and workLeft, which ask the hardware, may say      *)
(* either.                                                                  *)
ReleaseDone ==
  /\ pc = "release" /\ pc' = "queue"
  /\ \E done \in SUBSET {FPGA[s] : s \in {t \in HW : FPGA[t] \notin {FREE, OCCUPIED}}} :
       releaseKernels(done)
  /\ UNCHANGED <<scanVars, loadVars, pageVars, vars>>

NoWork ==
  /\ pc = "queue" /\ pc' = "release"
  /\ spc = "test"
  /\ FreeSlots = {} \/ wqIsEmpty
  /\ UNCHANGED <<FPGA, isDone, scanVars, loadVars, pageVars, vars>>

(* wqRemove begins.                                                         *)
TakeWork ==
  /\ pc = "queue"
  /\ FreeSlots # {}
  /\ HasWork
  /\ first' = Scanned.first /\ biggest' = Scanned.biggest
  /\ freeAtScan' = FreeSlots
  /\ UNCHANGED <<pc, FPGA, isDone, loadVars, pageVars>>

GoOnRemoving ==
  /\ pc = "queue"
  /\ TakeKernel \/ LoadForRemove
  /\ UNCHANGED loopVars

(* What the slot held arrives, at the latest when memoryMapIO looks into it.*)
KernelRead == pc \in {"queue", "map"} /\ ReadSlot /\ UNCHANGED loopVars

(* wqRemove ends; memoryMapIO begins.                                       *)
KernelTaken ==
  /\ pc = "queue" /\ pc' = "map"
  /\ CountRemove
  /\ \E n \in IOCounts : buffers' = n
  /\ UNCHANGED <<FPGA, isDone, scanVars, loadVars, pageCtr, pages>>

NextPageEarly == IF pageCtr >= MaxIOPages - 1 THEN 0 ELSE pageCtr     \* mutant

(* The slot held no kernel yet, only the null pointer.                      *)
NullKernel ==
  /\ pc = "map" /\ late = NoSlot /\ LastTaken = NoKernel
  /\ pc' = "undefined"
  /\ UNCHANGED <<FPGA, isDone, scanVars, loadVars, pageVars, vars>>

(* One round of either loop of memoryMapIO.                                 *)
NextPage == IF pageCtr >= MaxIOPages THEN 0 ELSE pageCtr
MapBuffer ==
  /\ pc = "map" /\ late = NoSlot /\ LastTaken # NoKernel
  /\ buffers > 0
  /\ buffers' = buffers - 1
  /\ pages' = Append(pages, NextPage)
  /\ pageCtr' = NextPage + 1
  /\ UNCHANGED <<pc, FPGA, isDone, scanVars, loadVars, vars>>

BuffersMapped ==
  /\ pc = "map" /\ late = NoSlot /\ LastTaken # NoKernel
  /\ buffers = 0
  /\ pc' = "retrieve"
  /\ UNCHANGED <<FPGA, isDone, scanVars, loadVars, pageVars, vars>>

(* getAccel knows no such kernel.                                           *)
NotInLibrary ==
  /\ pc = "retrieve" /\ {} \in Libraries
  /\ pc' = "exit"
  /\ UNCHANGED <<FPGA, isDone, scanVars, loadVars, pageVars, vars>>

(* No bitstream fits the region: retrieveAccelerator returns its variable   *)
(* as it found it.                                                          *)
NothingFits ==
  /\ pc = "retrieve"
  /\ \E library \in Libraries \ {{}} : \A n \in library : n > biggest
  /\ pc' = "undefined"
  /\ UNCHANGED <<FPGA, isDone, scanVars, loadVars, pageVars, vars>>

(* The biggest bitstream that fits.  (The code goes through all the         *)
(* library's entries, the unset ones too; here only those that are set.)    *)
Retrieve ==
  /\ pc = "retrieve" /\ pc' = "load"
  /\ \E library \in Libraries : \E n \in library :
       /\ n <= biggest
       /\ \A m \in library : m <= biggest => m <= n
       /\ size' = n
  /\ slot' = first
  /\ UNCHANGED <<FPGA, isDone, decoupled, scanVars, pageVars, vars>>

-----------------------------------------------------------------------------
(* loadAccel, for each slot of the loading loop.                            *)

(* decouple(slot, on)                                                       *)
decouple(on) == decoupled' = [decoupled EXCEPT ![slot] = on]

WholeRegion == slot <= biggest     \* mutant

(* The loading loop's test.                                                 *)
InRegion == slot < biggest
Decouple ==
  /\ pc = "load" /\ pc' = "place"
  /\ InRegion
  /\ decouple(TRUE)
  /\ UNCHANGED <<FPGA, isDone, slot, size, scanVars, pageVars, vars>>

(* The loader marks the slots it has filled, or fails and marks none.       *)
Place ==
  /\ pc = "place" /\ pc' = "couple"
  /\ \/ FPGA' = [s \in HW |-> IF s \in slot..(slot + size - 1) THEN OCCUPIED ELSE FPGA[s]]
     \/ UNCHANGED FPGA
  /\ UNCHANGED <<isDone, loadVars, scanVars, pageVars, vars>>

StepNowhere == slot     \* mutant

NextSlot == slot + size
(* initAccel stores through k->accelerators, which nothing has allocated.   *)
Couple ==
  /\ pc = "couple" /\ pc' \in {"load", "undefined"}
  /\ decouple(FALSE)
  /\ slot' = NextSlot
  /\ UNCHANGED <<FPGA, isDone, size, scanVars, pageVars, vars>>

(* The round's variables go out of scope.  No accelerator is in FPGA[] to   *)
(* be fed.                                                                  *)
Loaded ==
  /\ pc = "load" /\ pc' = "release"
  /\ ~InRegion
  /\ first' = -1 /\ biggest' = 0 /\ freeAtScan' = {}
  /\ slot' = 0 /\ size' = 0
  /\ UNCHANGED <<FPGA, isDone, decoupled, pageVars, vars>>

-----------------------------------------------------------------------------
(* The user's thread enqueues, or cleans up: releaseAccel follows what the  *)
(* first slot holds, an accelerator or not.                                 *)
Enqueue == ~Ended /\ User /\ UNCHANGED loopVars

cleanUp ==
  /\ ~Ended /\ upc = "test"
  /\ FPGA[0] \in {FREE, OCCUPIED}
  /\ pc' = "undefined"
  /\ UNCHANGED <<FPGA, isDone, scanVars, loadVars, pageVars, vars>>

(* A kernel stored by the user's thread reaches the array.                  *)
MemoryStep == ~Ended /\ Memory /\ UNCHANGED loopVars

Loop == ReleaseDone \/ NoWork \/ TakeWork \/ GoOnRemoving \/ KernelRead
        \/ KernelTaken \/ NullKernel \/ MapBuffer \/ BuffersMapped \/ NotInLibrary
        \/ NothingFits \/ Retrieve
        \/ Decouple \/ Place \/ Couple \/ Loaded

SchedulerNext == Enqueue \/ cleanUp \/ MemoryStep \/ Loop

(* Both threads run: neither loop blocks.                                   *)
SchedulerSpec ==
  /\ SchedulerInit /\ [][SchedulerNext]_allVars
  /\ WF_allVars(Loop) /\ WF_allVars(Enqueue)

-----------------------------------------------------------------------------
(* Properties.                                                              *)

(* The single pass over the slots (scheduler.c:377-397) does not close a run *)
(* of free slots at the end and does not always reset the counter of a run. *)
(* What it reports as a region is a region all the same: slots that exist   *)
(* and are free.  It may miss regions: see ScanFindsBiggest.                *)
ScanIsSound ==
  pc = "queue" /\ spc # "test" /\ biggest > 0 =>
    first \in HW /\ first..(first + biggest - 1) \subseteq freeAtScan

(* "extract the biggest module for the available free slots"                *)
(* (scheduler.c:403), "maximum feasible" (scheduler.c:351): no run of free  *)
(* slots is longer than the region the scan reports.                        *)
ScanFindsBiggest ==
  pc = "queue" /\ spc # "test" =>
    \A s \in HW : \A n \in 1..(HWSlots - s) :
      s..(s + n - 1) \subseteq freeAtScan => n <= biggest

(* The loading loop (scheduler.c:407-409) mixes a slot number with a        *)
(* length, but starts an instance only at a slot that was free and that     *)
(* exists.  The instance may reach into others: see LoadsOnlyFree.          *)
LoadsStartFree == pc \in {"place", "couple"} => slot \in freeAtScan

(* An instance is for the available free slots (scheduler.c:403): it is     *)
(* loaded into free slots only.                                             *)
LoadsOnlyFree == pc = "place" => slot..(slot + size - 1) \subseteq freeAtScan

(* "allocate buffer in cyclic fashion" (scheduler.c:210, 235): a page is    *)
(* given to another buffer only after all the others have been, over both   *)
(* loops and over kernels.                                                  *)
PagesCycle ==
  \A i, j \in 1..Len(pages) : i < j /\ j - i < MaxIOPages => pages[i] # pages[j]

(* Unless the process ends, the scheduler comes back to the top of its loop *)
(* for ever: no kernel, library or failing loader holds it up.              *)
KeepsServing == []<>(pc = "release") \/ <>Ended

(* What a round still has to do: its stages, and in a stage the buffers, or *)
(* the slots of the region, that are left, and the read of the kernel.      *)
Stage ==
  CASE pc = "release" -> 8
    [] pc = "queue" /\ spc = "test"  -> 7
    [] pc = "queue" /\ spc = "take"  -> 6
    [] pc = "queue" /\ spc = "load"  -> 5
    [] pc = "queue" /\ spc = "count" -> 4
    [] pc = "map"      -> 3
    [] pc = "retrieve" -> 2
    [] pc \in {"load", "place", "couple"} -> 1
    [] OTHER -> 0
Left ==
  CASE pc = "map"    -> IF late = NoSlot THEN buffers ELSE buffers + 1
    [] pc = "queue"  -> IF late = NoSlot THEN 0 ELSE 1
    [] pc = "load"   -> IF slot < biggest THEN 3 * (biggest - slot) + 2 ELSE 0
    [] pc = "place"  -> 3 * (biggest - slot) + 1
    [] pc = "couple" -> 3 * (biggest - slot)
    [] OTHER -> 0

(* Every step of the loop (scheduler.c:361-417) leaves its round less to    *)
(* do, whatever the other thread, the libraries and the loader do: no       *)
(* length of a bitstream and no slot to start from holds the loading loop   *)
(* up, which steps through slots by lengths.                                *)
RoundAdvances ==
  [][Loop => \/ pc' = "release"
             \/ Stage' < Stage
             \/ Stage' = Stage /\ Left' < Left]_allVars

(* "wait until kernel is done with its NDRange execution"                   *)
(* (scheduler.c:439): for a kernel that was enqueued the wait ends, unless  *)
(* the process does.                                                        *)
KernelFinishes ==
  \A k \in Kernels : (\E i \in 1..Len(accepted) : accepted[i] = k) ~> isDone[k] \/ Ended
=============================================================================
