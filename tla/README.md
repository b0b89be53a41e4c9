# A TLA+ model of the ZUCL run-time

ZUCL runs OpenCL and C kernels on a Zynq UltraScale+ FPGA (XCZU9EG) whose fabric
is divided into four partially reconfigurable islands ("slots"). This directory holds
TLA+ modules translated from the C code of the run-time, TLC configurations that check
them on small instances, and TLAPS proofs for every value of the constants. Paths are
relative to the repository's root; line numbers are those of the commit modelled.

## 1. Inventory

| Part | Code | State | Operations |
| --- | --- | --- | --- |
| OpenCL accelerator driver | `driver-scheduler/OpenCL_driver.c` | launch loop variables; the accelerator's register file and control register | `launchKernel`, `launchWgs`, `launchWg`, `get_status`, `set_status`, `is_done` |
| C kernel driver | `driver-scheduler/c_kernel_driver.c` | the same, without group ids | `launchKernel`, status functions |
| Waiting queue | `driver-scheduler/scheduler.h:111-158` | `waitingQueue[8]`, `wqFront`, `wqRear`, `wqCount` | `wqInsert`, `wqRemove` |
| Scheduler | `driver-scheduler/scheduler.c` | `FPGA[]`, kernels, accelerators, I/O pages | scheduler thread, `clEnqueueNDRangeKernel`, `clFinish`, `cleanUp` |
| Configuration controller | `config_controller/config-api.c` | `islands[]`, `resources[][]`, `temp_resources[][]`, open descriptors | `init_resource`, `try_place_accelerator`, `remove_accelerator`, `backupResources`, `rebaseResources`, reports |
| Bitstream relocation | `config_controller/bitman.c` | `inData` | `calNewFAR`, `ByteSwap` |
| Metafile parser | `config_controller/xmltree.c` | one global per tag | `parse*`, `getBaseAddr` |
| Device tables | `config_controller/devices.c` | device parameters, frame address | `SetDeviceParameters`, `incFrameAddress`, `getFrameIndex` |
| Decoupler tool | `driver-scheduler/decoupler_driver.c` | decoupler registers | `decouple` |
| Demo programs | `app.c`, `c_add_accel_example.c` | - | call the above once |
| Implementation flow, prebuilt systems | `OpenCL_implementation/`, `static_prebuilt/`, `prebuilt_binaries/` | - | no run-time code |

How they interact: a user's thread enqueues kernels; the scheduler's thread takes them
out of the waiting queue, has the configuration controller place accelerators into free
islands, and feeds each accelerator work groups through the driver, which talks to it by
memory-mapped registers. Placement decouples an island, streams a relocated bitstream
through the ICAP or the PCAP and couples the island again. The hardware runs at its own
pace and outlives the processes.

What makes the parts correct, and what is hard about it:

* driver: each group of the range is run exactly once, in order, with its own arguments;
  an `ap_done` is seen by whoever waits for it. The register is cleared by any read, the
  accelerator may be slow, arguments may be written too early, the count and the order of
  groups are computed in different ways;
* queue: what goes in comes out, once and in order; two threads update one counter without
  a lock or a barrier, and a full queue drops kernels silently;
* configuration controller: an island's frames change only behind its decoupler, no running
  accelerator is overwritten, the book (`avail`, `resources`) is true; a process may be
  killed at any point, runs out of descriptors, meets a metafile with missing tags, backs an
  island up and fails to replace it;
* scheduler: a kernel that is enqueued is finished, on slots nobody else uses; an accelerator
  is loaded only into slots that were free, the biggest that fits; I/O pages go round; the loop
  never hangs. The scan for free slots, the loading loop and the page counter are each
  written in a way that only works by a coincidence of bounds;
* frame addresses: the step to the next frame, the column counters it keeps and the two
  functions that turn an address into a position agree, for the device's irregular columns.

`PROJECT.json` lists the hazards with their lines and the properties that cover them.

## 2. Modules

| Module | Models | Theorems in |
| --- | --- | --- |
| `WorkGroups` | the work-group arithmetic as functions of triples | `WorkGroupsProofs` (lemmas) |
| `OpenCLDriver` | both drivers, one accelerator, the calling program | `OpenCLDriverProofs` |
| `LaunchPromise` | what a launch promises: jobs done, in order (abstract) | `LaunchPromiseProofs`: the refinement |
| `WaitingQueue` | the ring buffer, a call per step | `WaitingQueueProofs` |
| `KernelFifo` | a bounded FIFO queue (abstract) | `WaitingQueueProofs`: the refinement |
| `SchedulerQueue` | the ring buffer, an access per step, two threads without a barrier | `SlotSchedulerProofs` |
| `SlotScheduler` | the scheduler's loop, composed with `SchedulerQueue` | `SlotSchedulerProofs` |
| `ConfigController` | placement, removal, replacement, kills; decouplers and frames | `ConfigControllerProofs` |
| `IslandPromise` | what users may rely on about an island (abstract) | `ConfigControllerProofs`: the refinement |
| `FrameAddress` | the walk through the frames and their positions | `FrameAddressProofs` |
| `DeviceTable` | the columns and numbers of the XCZU9EG | |
| `NatLemmas` | lemmas on `%` and `\div`, and induction, that the proof modules share | itself |

`MC...` modules give the constants of a component their values; a `.cfg` names them.
Operators whose comment says "mutant" are wrong on purpose: each is a plausible slip in the
code, and putting it in the place of the definition it follows makes a property fail.
They are no part of the specifications.

### OpenCLDriver

A step is one access to the register file, or a run of accesses nobody can come between.
`pc` is the place in the launch function:
`test` the loop's condition, `status` the read at its top (`launchKernel` only), `args` the
writes of ids and pointers, `check` the read behind them, `load` and `start` the two halves
of `*control = *control | 1`, `poll` the waiting loop, `next` the call of
`increment_wg_id`. `wg_id`, `max_wg_id`, `tot_wgs`, `wg_num` are the code's variables. `regs`
holds the argument words at their offsets from `kernel_loc`, so that a wrong offset, width or
padding shows in what the accelerator latches (`Latched` reads them by the layout the
accelerator was synthesised with). A poll that does not see `ap_done` changes nothing and is
not a step.

The accelerator is external: `HwBegin` latches the arguments once `ap_start` is set,
`HwFinish` raises `ap_done` and clears `ap_start` unless `auto_restart` is set, as the comment at
`OpenCL_driver.c:426-437` says of the register.

The registers start as an earlier user left them: the argument words zero or `Garbage`, `ap_done`
read or not, `auto_restart` as `Leftover` says. Nobody resets them, but the runs that are to hold have
`Leftover = {FALSE}`: `driver_leftover` shows what becomes of a launch otherwise.

The program is external too: it starts a launch only when a blocking call has returned, or
when `is_done` or `get_status` has told it that the accelerator is free (`known`), as
`scheduler.c:137-145` does. `first`, `starts` and `log` are history variables.

An `int` is one of `-(IntMax+1)..IntMax`; products wrap (`Wrap`), which is what the build
does with a signed overflow that C leaves undefined. The volume of a group is assumed to
fit an `int` (`RequestAssumption`); the volume of a range need not.

### WaitingQueue and SchedulerQueue

`WaitingQueue` takes a call of `wqInsert` or `wqRemove` as a step and is shown to implement
`KernelFifo`. `SchedulerQueue` takes the same code access by access, in the user's thread and
the scheduler's: `wqCount++` is a load and a store. The globals are plain and the target, an
AArch64, orders accesses to different locations only where it is told to. So a kernel that is stored is
`pending` until `StoreSeen` takes it to the array, at any time and also behind the counter that announces
it, and the slot a kernel is taken from is read (`ReadSlot`) at any time until the scheduler uses
the kernel, also behind the counter that gives the slot back (`late`). The two threads' accesses to `wqCount`
itself agree on one order, as accesses to one location do. `wqFront` and `wqRear` belong to one thread each.

`Exclusive` says that the threads are not both between the load and the store of `wqCount`, `Ordered` that no
array access is outstanding behind the counter's store that follows it. `FifoIfOrdered` says that the queue is in order
if both always hold. The program ensures neither. For such behaviours the module has a refinement
mapping to `KernelFifo` (`Waiting`, `LastTaken`).

### SlotScheduler

The loop of `scheduler.c` around the steps of `SchedulerQueue`; what only the scheduler's thread
touches may change in bigger steps. `pc` is the place in the loop: `release` (the pass over
`FPGA[]` that frees the slots of finished kernels), `queue` (scan for free slots and `wqRemove`),
`map` (the two loops of `memoryMapIO`), `retrieve` (`retrieveAccelerator`), `load`, `place`,
`couple` (the loading loop with `loadAccel`). `FPGA[s]` is `FREE`, `OCCUPIED` or the number of the
kernel whose accelerator is there. `scan[n]` is what the loop's variables hold behind slot `n - 1`,
`Scanned` the result of the pass.

`scheduler.c` does not compile as committed and is modelled as written, with these readings:
`physical_io_buffer_ctr` is an integer counter, `bitstream[i]` is `bitstreams[i]`, `MAX_SLOTS` is
`HW_SLOTS`. The loader behind `place_accelerator_ptr` is external: it marks the slots it has
filled `OCCUPIED`, or fails and marks none.

`pc = "exit"` is `exit()` when the library knows no such kernel. `pc = "undefined"` is behind what C
leaves undefined: no bitstream fits the region and `retrieveAccelerator` returns a variable it
never set; `memoryMapIO` follows the null pointer that a slot without a kernel gave it (`NullKernel`);
`initAccel` stores through `k->accelerators`, which nothing allocates (the build may
survive that, so both outcomes are in `Couple`); `cleanUp` follows what a slot without an
accelerator holds. Nothing stores an accelerator in `FPGA[]`, so that
`feedDataToAccelerator` is unreachable and left out. `ReleaseDone` is there because the code is,
and may free whatever kernels it likes; as committed it finds none.

`pages` and `freeAtScan` are history variables. `Stage` and `Left` rank the places in the loop for
`RoundAdvances`; `StepsLeft` of `OpenCLDriver` does so for a launch.

### FrameAddress

A step is a call of `incFrameAddress`: `incInColumns` for the branches of block 0, `incInRAM` for
block 1, `incElsewhere` for the `exit(13)` of the others. `NCol` is the family of counters
`NColRI`, `NColBFG`, ... by the kind of column. `getFrameIndexGlobal` and
`getFrameIndex` are functions of the address. The error return of `incFrameAddress` for an address with a
-1 in it (`devices.c:298-302`) is left out: `StartRow` sets all three parts and none of them falls. No code of the repository calls these functions:
`StartRow` is the external caller that sets an address at the beginning of a row and clears the
counters. The branches for devices with a second half (`RowFrames2`) are left out, since the
table has none; `NColNULL` is never counted up and stays zero. `MaxRAMColumn` bounds the walk
through the RAM section, which the code does not end.

### ConfigController

`try_place_accelerator` is cut where the hardware can tell: parsing and checking
(`NoDocument`, `Mismatch`, `Relocate`), `OpenDevices`, `Decouple`, `Stream`, `EndStream`,
`Couple`, `Record`. `fabric` gives each row of frames the module it holds, `Broken` in the
middle of a configuration. A bitstream is the rows its FAR commands address and its length in
words; `Patched` is the relocation loop. `fds` counts the descriptors of the process: files are
opened in the code's order and the ones beyond `MaxFds` are not. `geometry` is the parser's
globals `height`, `width`, `start_column`. `Restart` kills the process at any point and starts the next
one: the book is fresh, the hardware is as it was.

The program calls as the header allows; one that has backed an island up places into that
island next and calls `rebaseResources` if that fails.

`IslandPromise` is what remains of this for a user of the islands: serve, release, shield, tear up, fill,
unshield. It says nothing of files, words and rows, and a kill may come at any time.

Left out: an island number outside `0..NoOfIslands-1` (the code indexes `islands[]` before it
tests the number), rectangles that leave the array, the bytes of names and the allocation of
strings. `Device` follows `target` and is not a variable of its own. A metafile's bitstream is
taken to be as long as its `length` tag says and no longer than the first one parsed, whose
length sizes the buffer.

## 3. Runs

Each takes less than a minute.

| Run | Checks | Bounds |
| --- | --- | --- |
| `driver_launch` | types, order, count and arguments of launches, handshake, termination and its rank, refinement of `LaunchPromise` | ranges up to 4x2x2 in groups of 2x1x1, partial launches of 2x2x1 and 2x2x2 from inside, single launches; 4 calls in a behaviour, `ResumeWgs` included; `auto_restart` clear at the beginning, as in the next two |
| `driver_c_status` | handshake, answered polls, stable arguments and termination with a program that polls and sets the register itself | C interface, 4 calls, all four values of `set_status` |
| `driver_indivisible` | violation of `EveryItemOnce` | 3x3x1 items in groups of 2x2x1 |
| `queue_fifo` | ring buffer is a FIFO queue | 3 slots, 3 kernels, unbounded behaviours |
| `queue_overlap` | violation of `FifoOrder` | 3 slots, 7 kernels: the ring wraps twice; states behind an unordered access are not explored (`CONSTRAINT Ordered`) |
| `scheduler` | counter, order without overlapping updates and accesses out of order, scan, loads, pages; the loop's rank falls, and it always comes round | 4 slots, a queue of 2, 3 kernels with 1 or 2 buffers, 3 pages, libraries of no bitstream, of 1, of 1 and 2, of 3 slots; about 270 000 states |
| `scheduler_scan` | violation of `ScanFindsBiggest` | the same with 2 kernels of one buffer |
| `scheduler_finish` | violation of `KernelFinishes` | one kernel, a library that fits |
| `config_place` | book, frames, replacement, decouplers | 2 islands, 3 columns, 3 modules (one without geometry), 4 placements |
| `config_kill` | decoupling, whole configurations and refinement of `IslandPromise` over kills and failing opens | PCAP, 2 islands, 10 descriptors, 3 placements, 2 kills |
| `config_descriptors` | violation of `Protected` | ICAP, 4 islands, 14 descriptors |
| `frame_address` | positions advance by one and agree, a row is full, sections are apart | the whole column string of the XCZU9EG (199 columns), three rows, RAM columns up to one behind the last |

Six more configurations are beside the runs. Each shows, with a trace of TLC's, that a property somebody might
expect of the code, or of the driver in another environment, is false:

| Configuration | Refutes | Bounds |
| --- | --- | --- |
| `driver_leftover` | `DoneMeansDone` | one range of two groups, `auto_restart` set at the beginning |
| `queue_reorder` | `FifoOrder` | 3 slots, 3 kernels; states with overlapping updates are not explored (`CONSTRAINT Exclusive`) |
| `scheduler_load` | `LoadsOnlyFree` | as `scheduler_scan` |
| `config_marks` | `AvailableIsFree` | 2 islands, a placement and a removal |
| `config_untagged` | `OccupiedIsMarked` | the shipped metafile, which has no geometry |
| `config_pcap` | `StreamIsWhole` | one module of 7 words, blocks of 4 |

Why the bounds are enough: a launch's loop distinguishes a dimension of one group from one of
several, and the carry out of each dimension; 2x2x2 has every carry. Two launches in a
row show what one leaves behind for the next. Three slots of the ring are the fewest with a slot
that is neither first nor last. Two islands show an island and its neighbour; three of four
placements can fill both, remove one and replace the other. Four is the program's own `HW_SLOTS`:
`ScanIsSound` depends on it: from six slots on the scan adds up two runs of free slots it has not reset in
between and reports a region that is not free; from eight on `LoadsStartFree` fails, too. Three
pages wrap within the buffers of two kernels; three kernels through a queue of two wrap both its ends and
find it full; bitstreams of 3 and of 2 slots do not divide every region. The frame table is the program's own.

Deadlock is not checked where the system stops by itself: after a driver's last launch
(`driver_*`), when the user enqueues no more kernels (`queue_overlap`, `queue_reorder`), when the
process has ended in `exit` or in undefined behaviour (`scheduler*`), when the process has made its last
placement or `fwrite` has killed it (`config_kill`), behind `exit(13)` or the end of a row
(`frame_address`).

### What the violations and the six configurations show

* `driver_indivisible`: `launchKernel` gets the number of groups from the volume of the range
  (`OpenCL_driver.c:125`) and their bounds from each dimension (`:121`). For a range that the
  group size does not divide it starts groups twice and never runs some items. For divisible
  ranges, `InOrder` and `EveryItemOnce` hold. The same count is wrong when the volume of the range
  exceeds `INT_MAX`: the launch starts the groups of the wrapped volume, in order, and returns.
* `driver_leftover`: `*control = *control | 1` (`OpenCL_driver.c:204`) writes back the `auto_restart` it
  has read. The accelerator starts again behind each run, so that the poll ends while the next run,
  which nobody asked for, is under way, and the next group's arguments are written under it.
* `queue_overlap`: the two threads lose an update of `wqCount`; the scheduler takes a slot
  twice or leaves a kernel in the queue. `CountInRange` holds nevertheless (`scheduler`).
* `queue_reorder`: the counter is seen before the kernel it announces, and the scheduler takes the null
  pointer out of the slot. No two updates need to overlap for it. `FifoIfOrdered` (`scheduler`, and
  `OrderedFifo` for every size) says that these two are all: a lock around both calls, which is a barrier,
  too, mends both.
* `scheduler_scan`: the scan (`scheduler.c:377-397`) records a run of free slots when an occupied slot ends it.
  A run that reaches the last slot is recorded only if all slots are free: with `O O F F` the region is empty, no
  bitstream fits, and `retrieveAccelerator` returns what it never set.
* `scheduler_load`: the loading loop (`scheduler.c:407-409`) tests the first slot of an instance only. In a region of four
  a bitstream of three slots is loaded at slot 0 and at slot 3, where it reaches over the end; in a smaller region
  it reaches into slots that are occupied. `LoadsStartFree` is what holds.
* `config_marks`: `remove_accelerator` makes the island available and leaves its columns marked in
  `resources[][]`, against the comment at `config-api.c:25`.
* `config_untagged`: a metafile without `height`, `width` and `start_column`, as the shipped one and the template
  are, leaves the parser's globals as they were. Placed first it marks no column at all; placed later it marks the
  rectangle of its predecessor.
* `scheduler_finish`: `releaseKernel`, the only code that sets `isDone`, is reached through
  `FPGA[i]`, and no code stores an accelerator there: `clFinish` (`scheduler.c:440`) spins for ever,
  for a kernel that was taken out of the queue and loaded.
* `config_descriptors`: descriptors are never closed. With one left, the ICAP is opened and
  the decouplers are not; the island is configured while coupled. With the usual limit of
  1024 and 3 in use, five per placement leave exactly one for the 205th. The PCAP build
  dies in `fwrite` before it gets there (`config_kill`).
* `config_pcap`: the file handed to the FPGA manager lacks what is still in the stdio
  buffer, for the shipped bitstream 403 of 442771 words.

Visible in the model, without a run of their own:

* the footprint comparison (`config-api.c:60`) stops one column short;
* the return value of `SetGlobalDeviceParameters` is ignored and `calNewFAR` returns 0 for a
  device it does not know: the whole bitstream of such a metafile is moved to row 0
  (the theorems assume `AllSupported`);
* a build without `ICAP_CONFIG` and `PCAP_CONFIG` (the one of `config_controller/README.md:60`)
  returns `SUCCESS` and configures nothing;
* the loading loop (`scheduler.c:408`) compares a slot number with the length of the region: with the
  first free slot behind that length, a kernel is taken and nothing is loaded for it;
* a module of several slots is loaded behind the decoupler of its first slot only (`Decouple`, `Place`);
* `retrieveAccelerator` goes through all `MAX_BITSTREAMS` entries of an accelerator and follows the unset ones,
  too; the model has the entries that are set.

### Fairness

`OpenCLDriver`: weak fairness of the driver's thread (`Body`), which loops without blocking, and
of the accelerator's two steps: an accelerator that was started latches its arguments and
finishes. The program is not fair: it need not launch. `ConfigController`: weak fairness
of the thread inside `try_place_accelerator` (`Body`). `Recoupled` is checked without
kills: after a kill an island stays decoupled until somebody places into it. `SlotScheduler`: weak
fairness of the scheduler's loop and of the user's thread inside `wqInsert` and between calls;
neither waits for the other. The read of a slot is part of the loop (`KernelRead`): it is answered, as the thread
cannot go on without the kernel. When a store reaches the array (`MemoryStep`) is left open. `KeepsServing` and `KernelFinishes` use it. `cleanUp` is not fair.
The `queue_*` runs and `frame_address` state no liveness: nothing waits there.

## 4. Proofs

All for every value of the constants; the assumptions are the modules' named `ASSUME`s and
the ones named here.

**Drivers** (`OpenCLDriverProofs`, `LaunchPromiseProofs`)

| Theorem | States | Assumes |
| --- | --- | --- |
| `TypeCorrect` | `TypeOK` | |
| `StartedInOrder` | `InOrder` | `EveryRangeDivides` |
| `PartialStaysInside` | `WgsStaysInside` | `EveryRangeDivides` |
| `ArgumentsStable` | `ArgsStable` | `CleanStart` |
| `DoneIsDone` | `DoneMeansDone` | `CleanStart` |
| `ItemsRunOnce` | `EveryItemOnce` | `CleanStart`, `EveryRangeDivisible` |
| `PromiseKept` | `ImplementsPromise` | `CleanStart`, `EveryRangeDivisible`, `CountsFit`, `NoRestarts` |
| `PollsAreAnswered` | `PollIsAnswered` | |
| `LaunchesAdvance` | `LaunchAdvances` | |

`EveryRangeDivides` says that the group size divides each range; `EveryRangeDivisible` also
that an `int` holds the volume, `CountsFit` the same of the partial launches; `NoRestarts` that no
program sets `auto_restart`, with which the accelerator runs jobs nobody asked for; `CleanStart` that no earlier
user has left it set, without which the three properties are false (`driver_leftover`).

`InOrder` is not inductive: that the next group follows needs that the cursor `wg_id` is where
`starts` ends, and that the launch has groups left. `LoopInv` says so:
`Index(wg_id, max_wg_id) = first + Len(starts)` at the top of the loop, one less behind the start, and
`tot_wgs - wg_num` never exceeds what row-major order has left. The lemmas of `WorkGroupsProofs`
carry it: `increment_wg_id` moves `Index` up by one inside the range, the count of `launchKernel` is
the number of groups for divisible ranges, the count of `launchWgs` is at most what is left.
Wrapping never makes a count larger, so that order survives an overflow; the count does not.

`Handshake` is the invariant for `ArgsStable`: where the driver writes arguments the accelerator
is idle, because the program knew it to be free or the poll saw `ap_done`; and once a launch has started a group no
older `ap_done` is left, because the reads in front of the start have cleared it. `DoneInv` adds the
contents: `RegsInv`, which argument words the loop has written so far, `LatchedArguments`, that what
the accelerator latches is the job of the last start, and `LogInv`, that the log is what was
started, with or without the running job.

`ItemsRunOnce` needs that the count is exact (`RangeInv`) and that each group of the range has one
index in row-major order (`GroupOfIndex`): the runs that cover an item are a set of one element.
`PromiseKept` maps the accelerator's `log` and the groups to go to the abstract `done` and
`todo`: a call is `Accept`, `HwFinish` is `Complete`, the end of a blocking call is `Return`, all else
stutters. `CountInv` gives the number of groups a partial launch has accepted.

`PollsAreAnswered` and `LaunchesAdvance` are the two halves of `LaunchReturns` that a state invariant and an
action property can say: whoever polls has an accelerator that runs, will, or has raised `ap_done`; and all
other steps lower `StepsLeft`, because the loop of each launch function only starts a group that is left
(`GroupLeft`). What remains for TLC is that weak fairness turns the two into termination.

**Queue** (`WaitingQueueProofs`, `SlotSchedulerProofs`)

| Theorem | States | Assumes |
| --- | --- | --- |
| `RingTypes`, `RingConsistent` | `TypeOK`, `EndsAgree` of `WaitingQueue` | |
| `QueueIsFifo` | `ImplementsFifo` | |
| `QueueTypes`, `CounterBounded` | `TypeOK`, `CountInRange` of `SchedulerQueue` | |
| `OrderedFifo` | `FifoIfOrdered` | |
| `OrderedIsFifo` | `KernelFifo` is implemented | `[]Exclusive`, `[]Ordered` |

In `WaitingQueue` the ends and the count agree, so an insertion appends to `Contents` and a removal
takes its head. In the interleaved queue, by the threads' own program counters, each holds a value of the
counter that is in range and that its own operation may still change by one (`CountInv`).

`FifoOrder` is false (`queue_overlap`, `queue_reorder`), and `OrderedFifo` says that nothing but overlapping updates
and accesses out of order make it so. `RingInv` is inductive under `Exclusive` and `Ordered`: the slots between the ends hold the kernels
accepted and not yet taken, in order; a kernel that is stored but not yet counted, or taken but still counted,
is the one at an end, by whose thread is where. `OrderedIsFifo` adds that the store of a kernel into the
ring (`StoreKernel`) is the abstract insertion and the answered read of a slot (`ReadSlot`) the abstract removal; all
other accesses, those to the counter included, are stutters.

**Scheduler** (`SlotSchedulerProofs`)

| Theorem | States | Assumes |
| --- | --- | --- |
| `UsesQueue` | `SchedulerSpec => Spec` of the queue | |
| `SchedulerCounterBounded`, `SchedulerFifo` | `CountInRange`, `FifoIfOrdered` | |
| `SchedulerTypes` | `SchedulerTypeOK` | |
| `ScanFindsFree` | `ScanIsSound` | `HWSlots <= 5` |
| `LoadsFreeSlots` | `LoadsStartFree` | `HWSlots <= 5` |
| `PagesInTurn` | `PagesCycle` | |
| `RoundsAdvance`, `RoundBounded` | `RoundAdvances`, bounds of its rank | |
| `NoKernelIsDone` | `isDone` is never set | |

Every step of the program is a step of the queue or leaves it alone (`UsesQueue`), so that the queue's theorems
hold in it. The pages handed out are the remainders of their numbers, and `NatLemmas` says that remainders
repeat only after a whole round.

The scan is a recursive function of the slots; that it exists (`ScanDefined`) and what it has found behind each
slot (`SoundScan`) are proved by induction. It does not restart a run of free slots that is not the biggest, so the
length it counts may span an occupied slot. `Sound(n)` says what is true all the same: the biggest region is
free, and either the count is a real run that ends here, or what has been added up does not exceed the biggest
by the time a wrong region could be reported, for which five slots have no room. `HWSlots <= 5` is therefore no
convenience: for six slots the theorem is false. The program has four. `LoopInv` carries the region and the
slots it was found in through the loop to every load.

`RoundsAdvance` ranks the places in the loop by `<<Stage, Left>>`: each step of the scheduler's thread enters
the next round or lowers the rank, whatever the other thread, the library and the loader do. Bitstreams of no
length would break it; `LibraryAssumption` excludes them. With fairness it gives `KeepsServing`, which TLC
checks. `NoKernelIsDone` is why `scheduler_finish` fails: no kernel is ever an owner in `FPGA`, so none is
released; the finding is a fact of every instance.

**Configuration controller** (`ConfigControllerProofs`)

| Theorem | States | Assumes |
| --- | --- | --- |
| `ConfigTypes` | `TypeOK` | |
| `FramesOfOneIsland` | `OnlyItsIsland` | `AllSupported` |
| `FramesBehindDecoupler` | `Protected` | `AllSupported`, `EnoughDescriptors` |
| `WholeWhenCoupled` | `CoupledIsWhole` | these and `WholeStreams` |
| `BookHolds` | `BookIsTrue` | these and a port |
| `IslandsKept` | `ImplementsIslands` | the same as `BookHolds` |
| `FailureRestores` | `ReplacementRestores` | |

The invariants: between check and record the island is available and every FAR is its own row or
the trailer; if not all device files could be opened no descriptor is left; what is decoupled
stays so until `Couple`; a broken row is a decoupled one; an island in the book runs its module and
is touched by nobody; what was backed up is still what `before` says. `AllSupported`: every metafile is for the XCZU9EG.
`EnoughDescriptors`: an ICAP build has the descriptors its placements take (`config_descriptors` shows
why). `WholeStreams`: every bitstream addresses frames and the PCAP gets all of it
(`config_pcap`; without it the remains of an earlier, interrupted placement would stay).

`IslandsKept` maps the book to the modules in service, the decouplers and the islands' rows to themselves:
`Decouple` is `Shield`, `Stream` is `Tear`, `EndStream` is `Fill`, `Couple` is `Unshield`, `Record` and
`rebaseResources` are `Occupy`, a removal or a backup is `Release`, a kill is `Forget`; the rest stutters, and so
does `Decouple` where the decoupler could not be opened, since then the PCAP's file cannot be opened either.
Besides `BookInv` it needs that whatever is or was in the book has a name of a module (`Named`) and that
the frames of an island are torn up in the middle of a stream (`TornMidway`).

**Frame addresses** (`FrameAddressProofs`): `FrameTypes` (`TypeOK`), `PositionsAdvance` (`IndexAdvances`),
`PositionsAgree` (`IndicesAgree`), `RowsAreFull` (`RowIsFull`) and `SectionsStayApart` (`SectionsApart`), for
every table whose columns have frames and whose only N is the last, the last two also under
`TableAssumption`: the frames of the columns and the padding make `RowFrames`, the rows of either section fit
in front of the next section or the end, and a walk stays in the device's rows. (TLC evaluates both assumptions on the table of the program.) The invariant is that the counters
are a scan of the columns in front of the address (`NCol = Scan(MJA)`). `ScanStarts` turns that scan into a
position: the counters weighted by their frames are the frames in front of the column (`ColumnStart`), by
induction over the columns.

The library's induction theorems take an operator as a parameter, which the provers used here cannot
instantiate. `NatLemmas` states induction for a set instead (`SetInduction`, from the induction on finite sets
that the library proves), which is enough for functions of a range of numbers; `ScanDefined` and `StartsDefined`
show with it that the recursive functions have values at all.

Only model-checked: liveness (`LaunchReturns`, `Recoupled`, `KeepsServing`), which the prover does not
reach.

## 5. Not modelled

* Of the scheduler: `feedDataToAccelerator` and the `increment_wg_id` it calls, which no behaviour
  of the committed code reaches; the copying of I/O data and the `mmap` calls (pure I/O).
* Two driver threads: no program of the repository launches from two, and the scheduler reaches no launch.
* `find_optimal_islands`: its array is never allocated and nothing calls it.
* `decoupler_driver.c` beyond `decouple` (which is in `SlotScheduler`): a command line that sets or reads
  one register once; `decoupler.c` is an older copy that does not compile.
* Of the parser: tags that `template.xml` puts into every metafile, `getBaseAddr` (feeds a printout),
  `parseOffAddr` (no caller). Of `bitman.c`: `ByteSwap` (no caller).
* Bytes of names, an island number outside the array and rectangles that leave it.
* Demo programs: they call the above once. The Vivado flow (`OpenCL_implementation/`) and the
  prebuilt systems have no run-time code, and `prebuilt_binaries/` holds the headers and examples of
  libxml2, which are most of the C lines in the repository but none of its program.
