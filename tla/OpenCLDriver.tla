---------------------------- MODULE OpenCLDriver ----------------------------
(***************************************************************************)
(* The user-space accelerator driver of ZUCL: OpenCL_driver.c and its C    *)
(* twin c_kernel_driver.c.  One thread of one program drives one           *)
(* accelerator through its memory-mapped registers.                        *)
(*                                                                         *)
(* A step of the driver is one access (or one run of accesses that nobody  *)
(* can come between) to the register file.  The accelerator takes its own  *)
(* steps in between: it latches its arguments when ap_start is set, runs,  *)
(* and raises ap_done.  Its control register follows the comment at        *)
(* OpenCL_driver.c:426-437: ap_done is cleared by any read, ap_start is    *)
(* cleared by the handshake, auto_restart keeps it set.                    *)
(*                                                                         *)
(* The program (the caller) knows what the driver lets it know: it starts  *)
(* the accelerator only when a call that blocks has returned, or is_done   *)
(* or get_status has told it that the accelerator is free, which is what   *)
(* scheduler.c:137-145 does before it feeds an accelerator.                *)
(***************************************************************************)
EXTENDS WorkGroups, Sequences, FiniteSets

CONSTANTS
  Interface,      \* "opencl" (work-group ids at word 4) or "c" (no ids)
  Shape,          \* [ins, inw, outs, outw]: arguments of the synthesised kernel
  Requests,       \* the launches a program may make, see RequestType
  StatusValues,   \* the values a program may pass to set_status
  MaxCalls,       \* bound: launches and set_status calls of a behaviour
  Garbage,        \* what an earlier user left in the argument registers
  Leftover,       \* and what it may have left in auto_restart
  NoCall, NoJob

(* The arguments of a launch.  buf names the buffers the caller passes, so  *)
(* that two calls can be told apart; nd and wg matter to launchKernel, from *)
(* to launchWgs and launchWg, max to launchWgs.                             *)
Kinds == {"launchKernel", "launchWgs", "launchWg", "ckernel"}
RequestType ==
  [kind : Kinds, nd : Sizes, wg : Sizes, from : Ids, max : Sizes,
   blocking : BOOLEAN, buf : Nat]

ASSUME InterfaceAssumption == Interface \in {"opencl", "c"}
ASSUME ShapeAssumption ==
  Shape \in [ins : Nat, inw : Nat \ {0}, outs : Nat, outw : Nat \ {0}]
ASSUME RequestAssumption ==
  /\ Requests \subseteq RequestType
  /\ NoCall \notin Requests
  /\ \A r \in Requests :
       /\ r.kind = "ckernel" <=> Interface = "c"
       /\ Product(r.wg) <= IntMax        \* the volume of a group is an int
       /\ r.kind \in {"launchWgs", "launchWg"} => Inside(r.from, r.max)
ASSUME BoundAssumption ==
  /\ StatusValues \subseteq [start : BOOLEAN, auto : BOOLEAN]
  /\ MaxCalls \in Nat /\ Garbage \in Int
  /\ Leftover \subseteq BOOLEAN

-----------------------------------------------------------------------------
(* Register layout: word offsets from kernel_loc.                           *)

InBase  == IF Interface = "opencl" THEN 16 ELSE 4
OutBaseByCount == InBase + Shape.ins     \* mutant: width forgotten
OutBase == InBase + Shape.ins * Shape.inw
Words   == 0..(InBase + Shape.ins * Shape.inw + Shape.outs * Shape.outw)

(* Mutant: the padding starts at wider arguments than it should.            *)
ArgWordsUnpadded(base, n, w) ==
  {base + k * w : k \in 0..(n - 1)}
    \cup (IF w > 4 THEN {base + k * w + 1 : k \in 0..(n - 1)} ELSE {})

(* The words a loop over n arguments of width w writes from base on: the    *)
(* low word of each, and the word after it when w > 2.                      *)
ArgWords(base, n, w) ==
  {base + k * w : k \in 0..(n - 1)}
    \cup (IF w > 2 THEN {base + k * w + 1 : k \in 0..(n - 1)} ELSE {})
InWords  == ArgWords(InBase, Shape.ins, Shape.inw)
OutWords == ArgWords(OutBase, Shape.outs, Shape.outw)

(* wg_x, wg_y, wg_z at 4, 6, 8 and o_x, o_y, o_z, always zero, at 10, 12,   *)
(* 14.  The C interface has neither.                                        *)
IdWords == IF Interface = "opencl" THEN {4, 6, 8, 10, 12, 14} ELSE {}

(* The pointers to a call's buffers: distinct, and never zero.              *)
InPtr(b, k)  == 100 * b + k + 1
OutPtr(b, k) == 100 * b + k + 51

(* What is written to such a word.                                          *)
InWord(b, w)  == IF (w - InBase) % Shape.inw = 0
                 THEN InPtr(b, (w - InBase) \div Shape.inw) ELSE 0
OutWord(b, w) == IF (w - OutBase) % Shape.outw = 0
                 THEN OutPtr(b, (w - OutBase) \div Shape.outw) ELSE 0
IdWord(id, w) == IF w \in {4, 6, 8} THEN id[(w - 2) \div 2] ELSE 0

(* Mutant: the loop over the outputs is missing.                            *)
WithoutOutputs(file, id, b) ==
  [w \in Words |-> IF w \in InWords THEN InWord(b, w)
                   ELSE IF w \in IdWords THEN IdWord(id, w)
                   ELSE file[w]]

(* The register file after the driver has written the arguments for group   *)
(* id: ids first, then inputs, then outputs, and what is later wins.        *)
WithArguments(file, id, b) ==
  [w \in Words |-> IF w \in OutWords THEN OutWord(b, w)
                   ELSE IF w \in InWords THEN InWord(b, w)
                   ELSE IF w \in IdWords THEN IdWord(id, w)
                   ELSE file[w]]

(* What the accelerator reads when it starts, by the layout it was          *)
(* synthesised with.  A pointer is its low and its high word.               *)
Pointer(file, base, w, k) ==
  <<file[base + k * w], IF w > 2 THEN file[base + k * w + 1] ELSE 0>>
Latched(file) ==
  [group  |-> IF Interface = "c" THEN <<0, 0, 0>> ELSE <<file[4], file[6], file[8]>>,
   offset |-> IF Interface = "c" THEN <<0, 0, 0>> ELSE <<file[10], file[12], file[14]>>,
   ins    |-> [k \in 1..Shape.ins |-> Pointer(file, InBase, Shape.inw, k - 1)],
   outs   |-> [k \in 1..Shape.outs |->
                 Pointer(file, InBase + Shape.ins * Shape.inw, Shape.outw, k - 1)]]

(* The job a launch with buffers b means for group id.                      *)
Job(id, b) ==
  [group  |-> id, offset |-> <<0, 0, 0>>,
   ins    |-> [k \in 1..Shape.ins |-> <<InPtr(b, k - 1), 0>>],
   outs   |-> [k \in 1..Shape.outs |-> <<OutPtr(b, k - 1), 0>>]]

-----------------------------------------------------------------------------
VARIABLES
  pc,             \* where the driver's thread is
  call,           \* the launch it is in, or was in last
  wg_id, max_wg_id, tot_wgs, wg_num,   \* the launch loop's variables
  loaded,         \* ap_start and auto_restart as `*control | 1` read them
  regs,           \* argument registers
  ap_start, ap_done, auto_restart,     \* control register
  running,        \* the job the accelerator is running
  known,          \* what the program knows: "free", "busy" or "looping"
  calls,          \* launches and set_status calls so far
  starts,         \* history: the groups this launch has started
  first,          \* history: Index of the first of them
  log             \* history: the jobs the accelerator has finished since

drvVars     == <<call, wg_id, max_wg_id, tot_wgs, wg_num>>
controlVars == <<ap_start, ap_done, auto_restart>>
clientVars  == <<known, calls>>
history     == <<starts, first, log>>
vars == <<pc, drvVars, loaded, regs, controlVars, running, clientVars, history>>

States == {"idle", "test", "status", "args", "check", "load", "start", "poll", "next"}

TypeOK ==
  /\ pc \in States
  /\ call \in Requests \cup {NoCall}
  /\ wg_id \in Ids /\ max_wg_id \in Ids
  /\ tot_wgs \in Int /\ wg_num \in Nat
  /\ loaded \in BOOLEAN
  /\ regs \in [Words -> Int]
  /\ ap_start \in BOOLEAN /\ ap_done \in BOOLEAN /\ auto_restart \in BOOLEAN
  /\ known \in {"free", "busy", "looping"}
  /\ calls \in 0..MaxCalls
  /\ starts \in Seq(Ids) /\ first \in Nat

(* The program finds an accelerator that is idle.  Its registers are as the *)
(* last user left them: nobody resets them, and an ap_done nobody has read  *)
(* is still set.                                                            *)
Init ==
  /\ pc = "idle" /\ call = NoCall
  /\ wg_id = <<0, 0, 0>> /\ max_wg_id = <<1, 1, 1>>
  /\ tot_wgs = 0 /\ wg_num = 0 /\ loaded = FALSE
  /\ regs \in {[w \in Words |-> 0], [w \in Words |-> Garbage]}
  /\ ap_start = FALSE /\ ap_done \in BOOLEAN /\ auto_restart \in Leftover
  /\ running = NoJob
  /\ known = "free" /\ calls = 0
  /\ starts = << >> /\ first = 0 /\ log = << >>

-----------------------------------------------------------------------------
(* Entry of the launch functions.                                           *)

Enter(r, kind, at) ==
  /\ pc = "idle" /\ known = "free" /\ calls < MaxCalls
  /\ r.kind = kind
  /\ pc' = at
  /\ call' = r
  /\ calls' = calls + 1
  /\ starts' = << >> /\ log' = << >>
  /\ UNCHANGED <<loaded, regs, controlVars, running, known>>

LaunchKernel(r) ==
  /\ Enter(r, "launchKernel", "test")
  /\ wg_id' = <<0, 0, 0>>
  /\ max_wg_id' = MaxOf(r.nd, r.wg)
  /\ tot_wgs' = TotalOf(r.nd, r.wg)
  /\ wg_num' = 0 /\ first' = 0

(* launchWgs works on the caller's own wg_id and max_wg_id arrays.          *)
LaunchWgs(r) ==
  /\ Enter(r, "launchWgs", "test")
  /\ wg_id' = r.from /\ max_wg_id' = r.max
  /\ tot_wgs' = PartialTotal(r.from, r.max)
  /\ wg_num' = 0 /\ first' = Index(r.from, r.max)

(* The caller passes the array launchWgs left behind to launchWgs again, as *)
(* long as it has groups left to issue.  The history goes on.               *)
ResumeWgs ==
  /\ pc = "idle" /\ known = "free" /\ calls < MaxCalls
  /\ call # NoCall /\ call.kind = "launchWgs"
  /\ starts # << >> /\ Len(log) = Len(starts)
  /\ first + Len(starts) < Product(max_wg_id)
  /\ pc' = "test"
  /\ tot_wgs' = PartialTotal(wg_id, max_wg_id) /\ wg_num' = 0
  /\ calls' = calls + 1
  /\ UNCHANGED <<call, wg_id, max_wg_id, loaded, regs, controlVars, running, known, history>>

LaunchWg(r) ==
  /\ Enter(r, "launchWg", "args")
  /\ wg_id' = r.from /\ max_wg_id' = r.max
  /\ tot_wgs' = 1 /\ wg_num' = 0 /\ first' = Index(r.from, r.max)

(* launchKernel of c_kernel_driver.c: one run, no ids.                      *)
LaunchCKernel(r) ==
  /\ Enter(r, "ckernel", "status")
  /\ wg_id' = <<0, 0, 0>> /\ max_wg_id' = <<1, 1, 1>>
  /\ tot_wgs' = 1 /\ wg_num' = 0 /\ first' = 0

-----------------------------------------------------------------------------
(* The body of a launch.                                                    *)

Goto(from, to) == pc = from /\ pc' = to

(* Any read of the control register clears ap_done.                         *)
ReadClears == ap_done' = FALSE /\ UNCHANGED <<ap_start, auto_restart>>

(* while (wg_num < tot_wgs): launchKernel reads the control register at the *)
(* top of its loop, launchWgs does not.                                     *)
Iterate ==
  /\ wg_num < tot_wgs
  /\ Goto("test", IF call.kind = "launchKernel" THEN "status" ELSE "args")
  /\ UNCHANGED <<drvVars, loaded, regs, controlVars, running, clientVars, history>>

Return ==
  /\ wg_num >= tot_wgs
  /\ Goto("test", "idle")
  /\ UNCHANGED <<drvVars, loaded, regs, controlVars, running, clientVars, history>>

(* con_1 = *control, before the arguments are written.                      *)
ReadStatus ==
  /\ Goto("status", "args")
  /\ ReadClears
  /\ UNCHANGED <<drvVars, loaded, regs, running, clientVars, history>>

WriteArguments ==
  /\ Goto("args", "check")
  /\ regs' = WithArguments(regs, wg_id, call.buf)
  /\ UNCHANGED <<drvVars, loaded, controlVars, running, clientVars, history>>

(* con = *control, after.                                                   *)
ReadControl ==
  /\ Goto("check", "load")
  /\ ReadClears
  /\ UNCHANGED <<drvVars, loaded, regs, running, clientVars, history>>

(* *control = *control | 1 is a load and a store.                           *)
LoadControl ==
  /\ Goto("load", "start")
  /\ loaded' = auto_restart
  /\ ReadClears
  /\ UNCHANGED <<drvVars, regs, running, clientVars, history>>

StoreStart ==
  /\ Goto("start", IF call.kind = "launchWg" /\ ~call.blocking THEN "idle" ELSE "poll")
  /\ ap_start' = TRUE /\ auto_restart' = loaded
  /\ starts' = Append(starts, wg_id)
  /\ known' = IF pc' = "idle" THEN "busy" ELSE known
  /\ UNCHANGED <<drvVars, loaded, regs, ap_done, running, calls, first, log>>

(* Mutants of the polling loop: it does not wait, or waits for ap_start too. *)
PollOnce ==
  /\ Goto("poll", IF call.kind \in {"launchKernel", "launchWgs"} THEN "next" ELSE "idle")
  /\ ReadClears
  /\ UNCHANGED <<drvVars, loaded, regs, running, clientVars, history>>
PollForBoth ==
  /\ ap_done /\ ap_start
  /\ PollOnce
PollReadingTwice ==          \* the second read is the one it tests
  \/ ap_done /\ Goto("poll", "poll") /\ ReadClears
     /\ UNCHANGED <<drvVars, loaded, regs, running, clientVars, history>>
  \/ ap_done /\ PollOnce

(* The polling loop: a read that does not see ap_done changes nothing; the  *)
(* one that does clears it.                                                 *)
Poll ==
  /\ ap_done
  /\ Goto("poll", IF call.kind \in {"launchKernel", "launchWgs"} THEN "next" ELSE "idle")
  /\ ReadClears
  /\ UNCHANGED <<drvVars, loaded, regs, running, clientVars, history>>

NextGroupUncounted ==        \* mutant
  /\ Goto("next", "test")
  /\ wg_id' = NextId(wg_id, max_wg_id)
  /\ UNCHANGED <<wg_num, call, max_wg_id, tot_wgs, loaded, regs, controlVars, running,
                 clientVars, history>>
NextGroup ==
  /\ Goto("next", "test")
  /\ wg_id' = NextId(wg_id, max_wg_id)
  /\ wg_num' = wg_num + 1
  /\ UNCHANGED <<call, max_wg_id, tot_wgs, loaded, regs, controlVars, running,
                 clientVars, history>>

-----------------------------------------------------------------------------
(* is_done, get_status and set_status, and what the program makes of them.  *)

Free == running = NoJob /\ ~ap_start      \* the ap_idle bit

(* ap_done of a started accelerator says that it is free, unless            *)
(* auto_restart has it running on.                                          *)
IsDone ==
  /\ pc = "idle"
  /\ known' = IF ap_done /\ known = "busy" THEN "free" ELSE known
  /\ ReadClears
  /\ UNCHANGED <<pc, drvVars, loaded, regs, running, calls, history>>

GetStatus ==
  /\ pc = "idle"
  /\ known' = IF \/ ap_done /\ known = "busy"
                 \/ Free /\ ~auto_restart THEN "free" ELSE known
  /\ ReadClears
  /\ UNCHANGED <<pc, drvVars, loaded, regs, running, calls, history>>

(* A program starts the accelerator again on the arguments it has, sets     *)
(* auto_restart or clears it.  Writing 0 to ap_start does nothing.  A run   *)
(* under auto_restart is nobody's launch: the history is empty.             *)
SetStatus(v) ==
  /\ pc = "idle" /\ calls < MaxCalls
  /\ v.start => known = "free" /\ starts # << >>
  /\ ap_start' = (ap_start \/ v.start)
  /\ auto_restart' = v.auto
  /\ known' = IF v.auto THEN "looping" ELSE IF v.start THEN "busy" ELSE known
  /\ calls' = calls + 1
  /\ IF v.auto
       THEN starts' = << >> /\ log' = << >> /\ UNCHANGED first
       ELSE IF v.start
         THEN /\ starts' = <<starts[Len(starts)]>> /\ log' = << >>
              /\ first' = Index(starts[Len(starts)], max_wg_id)
         ELSE UNCHANGED history
  /\ UNCHANGED <<pc, drvVars, loaded, regs, ap_done, running>>

-----------------------------------------------------------------------------
(* The accelerator.                                                         *)

HwBegin ==
  /\ ap_start /\ running = NoJob
  /\ running' = Latched(regs)
  /\ UNCHANGED <<pc, drvVars, loaded, regs, controlVars, clientVars, history>>

HwFinish ==
  /\ running # NoJob
  /\ running' = NoJob
  /\ ap_done' = TRUE
  /\ ap_start' = auto_restart
  /\ log' = IF known = "looping" THEN log ELSE Append(log, running)
  /\ UNCHANGED <<pc, drvVars, loaded, regs, auto_restart, clientVars, starts, first>>

Launch == \/ \E r \in Requests : LaunchKernel(r) \/ LaunchWgs(r) \/ LaunchWg(r)
                                   \/ LaunchCKernel(r)
          \/ ResumeWgs
Body   == \/ Iterate \/ Return \/ ReadStatus \/ WriteArguments \/ ReadControl
          \/ LoadControl \/ StoreStart \/ Poll \/ NextGroup
Query  == IsDone \/ GetStatus \/ \E v \in StatusValues : SetStatus(v)

Next == Launch \/ Body \/ Query \/ HwBegin \/ HwFinish

(* The driver's thread runs, and an accelerator that is started finishes.   *)
Fairness == WF_vars(Body) /\ WF_vars(HwBegin) /\ WF_vars(HwFinish)

Spec == Init /\ [][Next]_vars /\ Fairness

-----------------------------------------------------------------------------
(* Properties.                                                              *)

(* The groups a launch starts are consecutive in row-major order from the   *)
(* launch's first one, also over launchWgs calls that go on from the array  *)
(* an earlier one left: no group is started twice, none is left out.        *)
InOrder ==
  \A k \in 1..Len(starts) : Index(starts[k], max_wg_id) = first + k - 1

(* launchWgs never starts a group behind the last one of its range: its     *)
(* count, the volume of the box between wg_id and max_wg_id, never exceeds  *)
(* what row-major order has left, so increment_wg_id never wraps under it.  *)
WgsStaysInside ==
  call # NoCall /\ call.kind = "launchWgs" =>
    first + Len(starts) <= Product(max_wg_id)

(* When the driver or the program goes on because it saw ap_done, the       *)
(* accelerator is idle and has run exactly the jobs that were started, each *)
(* with the ids and pointers of its own call: no ap_done of an earlier run  *)
(* is taken for a later one, no start is lost, no argument register is left *)
(* with what another user wrote there, and no auto_restart that another     *)
(* user set outlives its run ("It uses polling to identify if the           *)
(* accelerator is finished with its work", OpenCL_driver.c:73-74).          *)
DoneMeansDone ==
  pc = "next" \/ (pc = "idle" /\ known = "free") =>
    /\ Free
    /\ Len(log) = Len(starts)
    /\ \A k \in 1..Len(log) : log[k] = Job(starts[k], call.buf)

(* The argument registers do not change under a running accelerator, nor    *)
(* between its start and the moment it latches them.                        *)
ArgsStable == [][~Free => regs' = regs]_vars

(* launchKernel returns when every work item of the range, divided as the   *)
(* group size says, has been executed exactly once ("launches the whole     *)
(* ndrange ... one workgroup at a time", OpenCL_driver.c:71-73).            *)
GroupOf(item, wg) == <<item[1] \div wg[1], item[2] \div wg[2], item[3] \div wg[3]>>
Items(nd) == (0..(nd[1] - 1)) \X (0..(nd[2] - 1)) \X (0..(nd[3] - 1))
EveryItemOnce ==
  [][Return /\ call.kind = "launchKernel" =>
       \A item \in Items(call.nd) :
         Cardinality({k \in 1..Len(log) : log[k].group = GroupOf(item, call.wg)}) = 1]_vars

(* The driver never polls for an ap_done that will not come: none of the    *)
(* reads of the control register on the way (OpenCL_driver.c:135, 187, 204) *)
(* takes away the one of this run, and the start is never lost.             *)
PollIsAnswered == pc = "poll" => ap_done \/ ap_start \/ running # NoJob

(* The steps of the driver a launch has left, at most.                      *)
StepsInGroup ==
  CASE pc = "test" -> 8 [] pc = "status" -> 7 [] pc = "args" -> 6 [] pc = "check" -> 5
    [] pc = "load" -> 4 [] pc = "start" -> 3 [] pc = "poll" -> 2 [] pc = "next" -> 1
    [] OTHER -> 0
StepsLeft ==
  IF pc = "idle" THEN 0
  ELSE 8 * (IF wg_num < tot_wgs THEN tot_wgs - wg_num ELSE 0) + StepsInGroup

(* Every step of the driver leaves its launch fewer steps to go: the count  *)
(* of groups stands still nowhere on the way, in any launch function.       *)
LaunchAdvances == [][Body => StepsLeft' < StepsLeft]_vars

(* A launch returns, given an accelerator that finishes what it starts: the *)
(* polling loop has no timeout and is not woken by anything but ap_done.    *)
LaunchReturns == pc # "idle" ~> pc = "idle"

(* What a launch promises, apart from how: see LaunchPromise.               *)
ToStart ==
  CASE pc = "idle" -> 0
    [] pc \in {"poll", "next"} -> tot_wgs - wg_num - 1
    [] OTHER -> tot_wgs - wg_num
GroupAt(i, max) ==
  <<i % max[1], (i \div max[1]) % max[2], i \div (max[1] * max[2])>>
AllJobs ==
  UNION {UNION {{Job(GroupAt(i, m), r.buf) : i \in 0..(Product(m) - 1)} :
                  m \in {r.max, MaxOf(r.nd, r.wg)}} : r \in Requests}
Promise == INSTANCE LaunchPromise WITH
  Jobs  <- AllJobs,
  busy  <- pc # "idle",
  async <- IF call = NoCall THEN FALSE ELSE call.kind = "launchWg" /\ ~call.blocking,
  todo  <- [k \in 1..(Len(starts) + ToStart - Len(log)) |->
              Job(GroupAt(first + Len(log) + k - 1, max_wg_id), call.buf)],
  done  <- log
ImplementsPromise == Promise!Spec
=============================================================================
