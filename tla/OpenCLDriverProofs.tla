------------------------- MODULE OpenCLDriverProofs -------------------------
(***************************************************************************)
(* Proofs about OpenCLDriver, for every set of requests, every shape of    *)
(* kernel and any number of calls.  The order in which groups are started  *)
(* is proved for callers of launchKernel whose group size divides the      *)
(* range (EveryRangeDivides): for others it does not hold.                 *)
(***************************************************************************)
EXTENDS OpenCLDriver, WorkGroupsProofs, NatLemmas, SequenceTheorems

(* No earlier user has left auto_restart set: with it there, the driver's   *)
(* `*control | 1` starts an accelerator that does not stop (see the run     *)
(* driver_leftover).                                                        *)
CleanStart == TRUE \notin Leftover

EveryRangeDivides ==
  \A r \in Requests : r.kind = "launchKernel" => Divides(r.nd, r.wg)

-----------------------------------------------------------------------------
(* The inductive invariant of the launch loop.                              *)

Position == first + Len(starts)         \* of the next group to start
Total    == Product(max_wg_id)

(* wg_id is the next group, unless the range is exhausted, when increment   *)
(* has wrapped it to a group that was started before.                       *)
Ahead ==
  /\ Position <= Total
  /\ Position < Total => Inside(wg_id, max_wg_id) /\ Index(wg_id, max_wg_id) = Position

BeforeStart ==
  pc \in {"test", "status", "args", "check", "load", "start"} =>
    /\ Ahead
    /\ Position + tot_wgs - wg_num <= Total
    /\ pc # "test" => wg_num < tot_wgs

AfterStart ==
  pc \in {"poll", "next"} =>
    /\ Inside(wg_id, max_wg_id) /\ Index(wg_id, max_wg_id) = Position - 1
    /\ Position + tot_wgs - (wg_num + 1) <= Total

BetweenCalls ==
  pc = "idle" /\ call # NoCall /\ call.kind = "launchWgs" =>
    /\ Position <= Total
    /\ starts # << >> => Ahead

(* A launch in progress has arguments.                                      *)
TypeInv == TypeOK /\ (pc # "idle" => call \in Requests)

LoopInv ==
  /\ TypeInv
  /\ max_wg_id \in Sizes
  /\ InOrder /\ BeforeStart /\ AfterStart /\ BetweenCalls

-----------------------------------------------------------------------------
(* The inductive invariant of the handshake.                                *)

Preparing == {"test", "status", "args", "check", "load", "start", "next"}

(* Where ap_done is clear once the launch, or the one before it, has        *)
(* started a group.  Before that an earlier user's may still be there.      *)
ReadyToStart == pc \in Preparing \/ (pc = "idle" /\ known = "free")

Handshake ==
  /\ TypeInv
  /\ pc # "idle" => known = "free"
  /\ auto_restart => known = "looping"
  /\ pc \in Preparing => Free
  /\ pc = "start" => ~loaded
  /\ pc = "idle" /\ known = "free" => Free
  /\ pc \in {"start", "next"} \/ (ReadyToStart /\ starts # << >>) => ~ap_done
  /\ ap_done /\ (pc = "poll" \/ known = "busy") => Free

-----------------------------------------------------------------------------
(* Type correctness.                                                        *)

(* Writing the arguments of a group leaves a register file.                 *)
LEMMA ArgumentsType ==
  ASSUME NEW file \in [Words -> Int], NEW id \in Ids, NEW b \in Nat
  PROVE  WithArguments(file, id, b) \in [Words -> Int]
<1>1. /\ Shape.ins \in Nat /\ Shape.inw \in Nat \ {0}
      /\ Shape.outs \in Nat /\ Shape.outw \in Nat \ {0}
  BY ShapeAssumption
<1>2. InBase \in Nat /\ OutBase \in Nat
  <2>1. InBase \in Nat
    BY DEF InBase
  <2> QED BY <2>1, <1>1, ProductMonotone DEF OutBase
<1>3. ASSUME NEW w \in Words
      PROVE  /\ InWord(b, w) \in Int
             /\ OutWord(b, w) \in Int
             /\ IdWord(id, w) \in Int
  <2>1. w \in Int
    BY <1>1, <1>2 DEF Words
  <2>2. InWord(b, w) \in Int
    BY <2>1, <1>1, <1>2 DEF InWord, InPtr
  <2>3. OutWord(b, w) \in Int
    BY <2>1, <1>1, <1>2 DEF OutWord, OutPtr
  <2>4. IdWord(id, w) \in Int
    <3>1. id[1] \in Int /\ id[2] \in Int /\ id[3] \in Int
      BY DEF Ids
    <3>2. w \in {4, 6, 8} => (w - 2) \div 2 \in {1, 2, 3}
      OBVIOUS
    <3> QED BY <3>1, <3>2 DEF IdWord
  <2> QED BY <2>2, <2>3, <2>4
<1> QED BY <1>3 DEF WithArguments

LEMMA IndexType ==
  ASSUME NEW id \in Ids, NEW max \in Ids
  PROVE  Index(id, max) \in Nat
<1>1. /\ id[1] \in Nat /\ id[2] \in Nat /\ id[3] \in Nat
      /\ max[1] \in Nat /\ max[2] \in Nat
  BY DEF Ids
<1>2. max[1] * max[2] \in Nat
  BY <1>1, ProductMonotone
<1>3. max[1] * id[2] \in Nat /\ (max[1] * max[2]) * id[3] \in Nat
  BY <1>1, <1>2, ProductMonotone
<1> QED BY <1>1, <1>3 DEF Index

(* What launchKernel and launchWgs compute from their arguments has the     *)
(* type of the variable it goes to.                                         *)
LEMMA RangeTypes ==
  ASSUME NEW nd \in Sizes, NEW wg \in Sizes
  PROVE  MaxOf(nd, wg) \in Ids /\ TotalOf(nd, wg) \in Int
<1>1. /\ nd[1] \in Nat \ {0} /\ nd[2] \in Nat \ {0} /\ nd[3] \in Nat \ {0}
      /\ wg[1] \in Nat \ {0} /\ wg[2] \in Nat \ {0} /\ wg[3] \in Nat \ {0}
  BY DEF Sizes
<1>2. MaxOf(nd, wg) \in Ids
  BY <1>1 DEF MaxOf, Ids
<1>3. Product(nd) \in Nat \ {0} /\ Product(wg) \in Nat \ {0}
  <2>1. nd[1] * nd[2] \in Nat \ {0} /\ wg[1] * wg[2] \in Nat \ {0}
    BY <1>1, ProductPositive
  <2> QED BY <1>1, <2>1, ProductPositive DEF Product
<1>4. TotalOf(nd, wg) \in Int
  <2>1. Wrap(Product(nd)) \in Int
    BY <1>3, WrapBound
  <2> QED BY <2>1, <1>3 DEF TotalOf
<1> QED BY <1>2, <1>4

LEMMA PartialType ==
  ASSUME NEW id \in Ids, NEW max \in Ids
  PROVE  PartialTotal(id, max) \in Int
<1>1. /\ max[1] - id[1] \in Int /\ max[2] - id[2] \in Int /\ max[3] - id[3] \in Int
  BY DEF Ids
<1>2. (max[1] - id[1]) * (max[2] - id[2]) * (max[3] - id[3]) \in Int
  BY <1>1
<1>3. ASSUME NEW n \in Int PROVE Wrap(n) \in Int
  BY IntMaxAssumption DEF Wrap
<1> QED BY <1>2, <1>3 DEF PartialTotal

LEMMA RequestFields ==
  ASSUME NEW r \in Requests
  PROVE  /\ r.nd \in Sizes /\ r.wg \in Sizes
         /\ r.from \in Ids /\ r.max \in Sizes /\ r.max \in Ids
         /\ r.buf \in Nat /\ r.kind \in Kinds /\ r.blocking \in BOOLEAN
         /\ r.kind \in {"launchWgs", "launchWg"} => Inside(r.from, r.max)
         /\ r # NoCall
<1>1. r \in RequestType
  BY RequestAssumption
<1>2. Sizes \subseteq Ids
  BY DEF Sizes, Ids
<1> QED BY <1>1, <1>2, RequestAssumption DEF RequestType

LEMMA TypeInit == Init => TypeInv
<1> SUFFICES ASSUME Init PROVE TypeInv
  OBVIOUS
<1>1. regs \in [Words -> Int]
  BY BoundAssumption DEF Init
<1>2. wg_id \in Ids /\ max_wg_id \in Ids /\ starts \in Seq(Ids)
  BY DEF Init, Ids
<1>3. pc \in States /\ call \in Requests \cup {NoCall} /\ pc = "idle"
  BY DEF Init, States
<1>4. ap_start \in BOOLEAN /\ ap_done \in BOOLEAN /\ auto_restart \in BOOLEAN
      /\ loaded \in BOOLEAN
  BY BoundAssumption DEF Init
<1>5. tot_wgs \in Int /\ wg_num \in Nat /\ first \in Nat /\ calls \in 0..MaxCalls
  BY BoundAssumption DEF Init
<1>6. known \in {"free", "busy", "looping"}
  BY DEF Init
<1> QED BY <1>1, <1>2, <1>3, <1>4, <1>5, <1>6 DEF TypeInv, TypeOK

LEMMA TypeLaunch ==
  ASSUME TypeInv, Launch PROVE TypeInv'
<1> USE DEF TypeInv, TypeOK, States, controlVars
<1>1. <<0, 0, 0>> \in Ids /\ <<1, 1, 1>> \in Ids /\ << >> \in Seq(Ids)
  BY DEF Ids
<1>2. calls < MaxCalls => calls + 1 \in 0..MaxCalls
  BY BoundAssumption
<1>3. ASSUME NEW r \in Requests, LaunchKernel(r) PROVE TypeInv'
  BY <1>1, <1>2, <1>3, RequestFields, RangeTypes DEF LaunchKernel, Enter
<1>4. ASSUME NEW r \in Requests, LaunchWgs(r) PROVE TypeInv'
  BY <1>1, <1>2, <1>4, RequestFields, PartialType, IndexType DEF LaunchWgs, Enter
<1>5. ASSUME NEW r \in Requests, LaunchWg(r) PROVE TypeInv'
  <2>1. r.from \in Ids /\ r.max \in Ids /\ Index(r.from, r.max) \in Nat
    BY RequestFields, IndexType
  <2> QED BY <1>1, <1>2, <1>5, <2>1 DEF LaunchWg, Enter
<1>6. ASSUME NEW r \in Requests, LaunchCKernel(r) PROVE TypeInv'
  BY <1>1, <1>2, <1>6 DEF LaunchCKernel, Enter
<1>7. ASSUME ResumeWgs PROVE TypeInv'
  BY <1>2, <1>7, PartialType DEF ResumeWgs, history
<1> QED BY <1>3, <1>4, <1>5, <1>6, <1>7 DEF Launch

LEMMA TypeBody ==
  ASSUME TypeInv, Body PROVE TypeInv'
<1> USE DEF TypeInv, TypeOK, States, drvVars, controlVars, clientVars, history, Goto,
            ReadClears
<1>1. CASE Iterate BY <1>1 DEF Iterate
<1>2. CASE Return BY <1>2 DEF Return
<1>3. CASE ReadStatus BY <1>3 DEF ReadStatus
<1>4. CASE WriteArguments
  <2>1. regs' \in [Words -> Int]
    BY <1>4, RequestFields, ArgumentsType DEF WriteArguments
  <2> QED BY <1>4, <2>1 DEF WriteArguments
<1>5. CASE ReadControl BY <1>5 DEF ReadControl
<1>6. CASE LoadControl BY <1>6 DEF LoadControl
<1>7. CASE StoreStart BY <1>7 DEF StoreStart
<1>8. CASE Poll BY <1>8 DEF Poll
<1>9. CASE NextGroup BY <1>9, NextIdType DEF NextGroup
<1> QED BY <1>1, <1>2, <1>3, <1>4, <1>5, <1>6, <1>7, <1>8, <1>9 DEF Body

LEMMA TypeQuery ==
  ASSUME TypeInv, Query PROVE TypeInv'
<1> USE DEF TypeInv, TypeOK, States, drvVars, controlVars, history, ReadClears
<1>1. CASE IsDone BY <1>1 DEF IsDone
<1>2. CASE GetStatus BY <1>2 DEF GetStatus
<1>3. ASSUME NEW v \in StatusValues, SetStatus(v) PROVE TypeInv'
  <2>1. v.start \in BOOLEAN /\ v.auto \in BOOLEAN
    BY BoundAssumption
  <2>2. calls' \in 0..MaxCalls
    BY <1>3, BoundAssumption DEF SetStatus
  <2>3. starts # << >> => starts[Len(starts)] \in Ids
    OBVIOUS
  <2>4. starts' \in Seq(Ids) /\ first' \in Nat
    <3>1. CASE v.auto
      BY <1>3, <3>1 DEF SetStatus
    <3>2. CASE ~v.auto /\ v.start
      <4>1. starts[Len(starts)] \in Ids
        BY <1>3, <3>2, <2>3 DEF SetStatus
      <4>2. Index(starts[Len(starts)], max_wg_id) \in Nat
        BY <4>1, IndexType
      <4>3. starts' = <<starts[Len(starts)]>>
            /\ first' = Index(starts[Len(starts)], max_wg_id)
        BY <1>3, <3>2 DEF SetStatus
      <4>4. <<starts[Len(starts)]>> \in Seq(Ids)
        BY <4>1
      <4> QED BY <4>2, <4>3, <4>4
    <3>3. CASE ~v.auto /\ ~v.start
      BY <1>3, <3>3 DEF SetStatus
    <3> QED BY <3>1, <3>2, <3>3
  <2>5. ap_start' \in BOOLEAN
    BY <1>3 DEF SetStatus
  <2>6. auto_restart' \in BOOLEAN
    BY <1>3, <2>1 DEF SetStatus
  <2>7. known' \in {"free", "busy", "looping"}
    BY <1>3 DEF SetStatus
  <2> QED BY <1>3, <2>2, <2>4, <2>5, <2>6, <2>7 DEF SetStatus
<1> QED BY <1>1, <1>2, <1>3 DEF Query

LEMMA TypeHardware ==
  ASSUME TypeInv, HwBegin \/ HwFinish \/ UNCHANGED vars PROVE TypeInv'
BY DEF TypeInv, TypeOK, HwBegin, HwFinish, vars, drvVars, controlVars, clientVars, history

(* The variables of the driver keep their types: no group id leaves the     *)
(* naturals, no write leaves the register file of the kernel's shape.       *)
THEOREM TypeCorrect == Spec => []TypeOK
<1>1. Init => TypeInv
  BY TypeInit
<1>2. TypeInv /\ [Next]_vars => TypeInv'
  BY TypeLaunch, TypeBody, TypeQuery, TypeHardware DEF Next
<1>3. TypeInv => TypeOK
  BY DEF TypeInv
<1> QED BY <1>1, <1>2, <1>3, PTL DEF Spec

-----------------------------------------------------------------------------
(* Groups are started in order.                                             *)

LEMMA OriginIndex ==
  ASSUME NEW max \in Sizes
  PROVE  /\ Index(<<0, 0, 0>>, max) = 0 /\ Inside(<<0, 0, 0>>, max)
         /\ Product(max) \in Nat \ {0}
<1>1. max[1] \in Nat \ {0} /\ max[2] \in Nat \ {0} /\ max[3] \in Nat \ {0}
  BY DEF Sizes
<1>2. max[1] * max[2] \in Nat \ {0}
  BY <1>1, ProductPositive
<1>3. (max[1] * max[2]) * max[3] \in Nat \ {0}
  BY <1>1, <1>2, ProductPositive
<1>4. max[1] * 0 = 0 /\ max[1] * max[2] * 0 = 0
  BY <1>1, <1>2
<1> QED BY <1>1, <1>3, <1>4 DEF Index, Inside, Product

LEMMA LoopInit == Init => LoopInv
<1> SUFFICES ASSUME Init PROVE LoopInv
  OBVIOUS
<1>1. TypeInv
  BY TypeInit
<1>2. max_wg_id \in Sizes
  BY DEF Init, Sizes
<1>3. pc = "idle" /\ call = NoCall /\ starts = << >>
  BY DEF Init
<1> QED BY <1>1, <1>2, <1>3
        DEF LoopInv, InOrder, BeforeStart, AfterStart, BetweenCalls

(* At entry the range is set up and nothing is started.                     *)
LEMMA LoopEntry ==
  ASSUME LoopInv, TypeInv',
         starts' = << >>, max_wg_id' \in Sizes,
         pc' \in {"test", "status", "args"},
         pc' # "test" => wg_num' < tot_wgs',
         Inside(wg_id', max_wg_id'), Index(wg_id', max_wg_id') = first',
         first' + tot_wgs' <= Product(max_wg_id'), wg_num' = 0
  PROVE  LoopInv'
<1>1. Len(starts') = 0 /\ first' \in Nat /\ tot_wgs' \in Int /\ wg_id' \in Ids
  BY DEF TypeInv, TypeOK
<1>2. first' < Product(max_wg_id')
  BY <1>1, IndexBound
<1>3. Position' = first' /\ Total' = Product(max_wg_id')
  <2>1. Position' = first' + Len(starts')
    BY DEF Position
  <2>2. first' + 0 = first'
    <3>1. \A n \in Nat : n + 0 = n
      OBVIOUS
    <3> QED BY <1>1, <3>1, Zenon
  <2>3. Position' = first'
    BY <1>1, <2>1, <2>2, Zenon
  <2>4. Total' = Product(max_wg_id')
    BY DEF Total
  <2> QED BY <2>3, <2>4
<1>4. Product(max_wg_id') \in Nat
  BY OriginIndex
<1>5. InOrder'
  BY <1>1 DEF InOrder
<1>6. BeforeStart'
  BY <1>1, <1>2, <1>3, <1>4 DEF BeforeStart, Ahead
<1> QED BY <1>5, <1>6 DEF LoopInv, AfterStart, BetweenCalls

LEMMA LoopLaunch ==
  ASSUME EveryRangeDivides, LoopInv, Launch
  PROVE  LoopInv'
<1>1. TypeInv'
  BY TypeLaunch DEF LoopInv
<1>2. ASSUME NEW r \in Requests, LaunchKernel(r) PROVE LoopInv'
  <2>1. /\ wg_id' = <<0, 0, 0>> /\ max_wg_id' = MaxOf(r.nd, r.wg)
        /\ tot_wgs' = TotalOf(r.nd, r.wg) /\ wg_num' = 0 /\ first' = 0
        /\ starts' = << >> /\ pc' = "test" /\ Divides(r.nd, r.wg)
    BY <1>2 DEF LaunchKernel, Enter, EveryRangeDivides
  <2>2. /\ max_wg_id' \in Sizes /\ tot_wgs' \in Int
        /\ tot_wgs' <= Product(max_wg_id')
    BY <2>1, RequestFields, WholeFits
  <2>3. 0 + tot_wgs' <= Product(max_wg_id')
    BY <2>2, OriginIndex
  <2> QED BY <1>1, <2>1, <2>2, <2>3, OriginIndex, LoopEntry
<1>3. ASSUME NEW r \in Requests, LaunchWgs(r) PROVE LoopInv'
  <2>1. /\ wg_id' = r.from /\ max_wg_id' = r.max
        /\ tot_wgs' = PartialTotal(r.from, r.max) /\ wg_num' = 0
        /\ first' = Index(r.from, r.max)
        /\ starts' = << >> /\ pc' = "test" /\ r.kind = "launchWgs"
    BY <1>3 DEF LaunchWgs, Enter
  <2>2. r.from \in Ids /\ r.max \in Sizes /\ Inside(r.from, r.max)
    BY <2>1, RequestFields
  <2> QED BY <1>1, <2>1, <2>2, PartialFits, LoopEntry
<1>4. ASSUME NEW r \in Requests, LaunchWg(r) PROVE LoopInv'
  <2>1. /\ wg_id' = r.from /\ max_wg_id' = r.max
        /\ tot_wgs' = 1 /\ wg_num' = 0 /\ first' = Index(r.from, r.max)
        /\ starts' = << >> /\ pc' = "args" /\ r.kind = "launchWg"
    BY <1>4 DEF LaunchWg, Enter
  <2>2. r.from \in Ids /\ r.max \in Sizes /\ Inside(r.from, r.max)
    BY <2>1, RequestFields
  <2>3. first' + tot_wgs' <= Product(max_wg_id')
    BY <2>1, <2>2, IndexBound, OriginIndex
  <2> QED BY <1>1, <2>1, <2>2, <2>3, LoopEntry
<1>5. ASSUME NEW r \in Requests, LaunchCKernel(r) PROVE LoopInv'
  <2>1. /\ wg_id' = <<0, 0, 0>> /\ max_wg_id' = <<1, 1, 1>>
        /\ tot_wgs' = 1 /\ wg_num' = 0 /\ first' = 0
        /\ starts' = << >> /\ pc' = "status"
    BY <1>5 DEF LaunchCKernel, Enter
  <2>2. <<1, 1, 1>> \in Sizes
    BY DEF Sizes
  <2>3. first' + tot_wgs' <= Product(max_wg_id')
    BY <2>1, <2>2, OriginIndex
  <2> QED BY <1>1, <2>1, <2>2, <2>3, OriginIndex, LoopEntry
<1>6. ASSUME ResumeWgs PROVE LoopInv'
  <2>1. /\ pc = "idle" /\ call # NoCall /\ call.kind = "launchWgs"
        /\ starts # << >> /\ Position < Total
        /\ pc' = "test" /\ wg_num' = 0
        /\ tot_wgs' = PartialTotal(wg_id, max_wg_id)
        /\ wg_id' = wg_id /\ max_wg_id' = max_wg_id
        /\ starts' = starts /\ first' = first
    BY <1>6 DEF ResumeWgs, history, Position, Total
  <2>2. wg_id \in Ids /\ max_wg_id \in Sizes
    BY DEF LoopInv, TypeInv, TypeOK
  <2>3. Position <= Total /\ Inside(wg_id, max_wg_id)
        /\ Index(wg_id, max_wg_id) = Position
    BY <2>1 DEF LoopInv, BetweenCalls, Ahead
  <2>4. tot_wgs' \in Int /\ Position + tot_wgs' <= Total
    BY <2>1, <2>2, <2>3, PartialFits DEF Total
  <2>5. Position' = Position /\ Total' = Total /\ Position \in Int
    BY <2>1 DEF Position, Total, LoopInv, TypeInv, TypeOK
  <2>6. Ahead'
    BY <2>1, <2>3, <2>5 DEF Ahead
  <2>7. BeforeStart'
    BY <2>1, <2>4, <2>5, <2>6 DEF BeforeStart
  <2>8. InOrder'
    BY <2>1 DEF LoopInv, InOrder
  <2> QED BY <1>1, <2>1, <2>2, <2>7, <2>8 DEF LoopInv, AfterStart, BetweenCalls
<1> QED BY <1>2, <1>3, <1>4, <1>5, <1>6 DEF Launch

(* A step within the body that leaves the loop's variables alone.           *)
LEMMA LoopWithin ==
  ASSUME LoopInv, TypeInv', UNCHANGED <<drvVars, starts, first>>,
         \/ /\ pc \in {"test", "status", "args", "check", "load", "start"}
            /\ pc' \in {"test", "status", "args", "check", "load", "start"}
            /\ pc' # "test" => wg_num < tot_wgs
         \/ pc = "poll" /\ pc' = "next"
         \/ pc' = pc
  PROVE  LoopInv'
<1>1. /\ wg_id' = wg_id /\ max_wg_id' = max_wg_id /\ tot_wgs' = tot_wgs
      /\ wg_num' = wg_num /\ call' = call /\ starts' = starts /\ first' = first
  BY DEF drvVars
<1>2. Position' = Position /\ Total' = Total
  BY <1>1 DEF Position, Total
<1>3. Ahead' <=> Ahead
  BY <1>1, <1>2 DEF Ahead
<1>4. InOrder' /\ max_wg_id' \in Sizes
  BY <1>1 DEF LoopInv, InOrder
<1>5. BeforeStart'
  BY <1>1, <1>2, <1>3 DEF LoopInv, BeforeStart
<1>6. AfterStart'
  BY <1>1, <1>2 DEF LoopInv, AfterStart
<1>7. BetweenCalls'
  BY <1>1, <1>2, <1>3 DEF LoopInv, BetweenCalls
<1> QED BY <1>4, <1>5, <1>6, <1>7 DEF LoopInv

LEMMA LoopStart ==
  ASSUME LoopInv, TypeInv', StoreStart PROVE LoopInv'
<1>1. /\ pc = "start" /\ pc' \in {"idle", "poll"}
      /\ wg_id' = wg_id /\ max_wg_id' = max_wg_id /\ tot_wgs' = tot_wgs
      /\ wg_num' = wg_num /\ call' = call /\ first' = first
      /\ starts' = Append(starts, wg_id)
      /\ pc' = "idle" => call.kind = "launchWg"
  BY DEF StoreStart, Goto, drvVars
<1>2. /\ starts \in Seq(Ids) /\ wg_id \in Ids /\ first \in Nat /\ max_wg_id \in Sizes
      /\ tot_wgs \in Int /\ wg_num \in Nat
  BY DEF LoopInv, TypeInv, TypeOK
<1>3. Ahead /\ Position + tot_wgs - wg_num <= Total /\ wg_num < tot_wgs
  BY <1>1 DEF LoopInv, BeforeStart
<1>4. Total \in Nat /\ Position \in Nat
  BY <1>2, OriginIndex DEF Total, Position
<1>5. Inside(wg_id, max_wg_id) /\ Index(wg_id, max_wg_id) = Position
  BY <1>2, <1>3, <1>4 DEF Ahead
<1>6. Len(starts') = Len(starts) + 1 /\ Position' = Position + 1 /\ Total' = Total
  <2>1. Len(starts') = Len(starts) + 1 /\ Len(starts) \in Nat
    BY <1>1, <1>2
  <2>2. Position' = first' + Len(starts') /\ Total' = Product(max_wg_id')
    BY DEF Position, Total
  <2> QED BY <1>1, <1>2, <2>1, <2>2 DEF Position, Total
<1>7. InOrder'
  <2> SUFFICES ASSUME NEW k \in 1..Len(starts')
               PROVE  Index(starts'[k], max_wg_id') = first' + k - 1
    BY DEF InOrder
  <2>1. CASE k = Len(starts')
    <3>1. starts'[k] = wg_id
      BY <1>1, <1>2, <1>6, <2>1
    <3> QED BY <1>1, <1>2, <1>5, <1>6, <2>1, <3>1 DEF Position
  <2>2. CASE k # Len(starts')
    <3>1. k \in 1..Len(starts) /\ starts'[k] = starts[k]
      BY <1>1, <1>2, <1>6, <2>2
    <3> QED BY <1>1, <3>1 DEF LoopInv, InOrder
  <2> QED BY <2>1, <2>2
<1>8. AfterStart'
  BY <1>1, <1>2, <1>3, <1>4, <1>5, <1>6 DEF AfterStart
<1>9. BeforeStart' /\ BetweenCalls'
  BY <1>1 DEF BeforeStart, BetweenCalls
<1> QED BY <1>1, <1>2, <1>7, <1>8, <1>9 DEF LoopInv

LEMMA LoopNext ==
  ASSUME LoopInv, TypeInv', NextGroup PROVE LoopInv'
<1>1. /\ pc = "next" /\ pc' = "test"
      /\ wg_id' = NextId(wg_id, max_wg_id) /\ wg_num' = wg_num + 1
      /\ max_wg_id' = max_wg_id /\ tot_wgs' = tot_wgs
      /\ starts' = starts /\ first' = first
  BY DEF NextGroup, Goto, history
<1>2. /\ wg_id \in Ids /\ max_wg_id \in Sizes /\ tot_wgs \in Int /\ wg_num \in Nat
  BY DEF LoopInv, TypeInv, TypeOK
<1>3. Total \in Nat /\ Position \in Nat
  <2>1. Total \in Nat
    BY <1>2, OriginIndex DEF Total
  <2>2. Position \in Nat
    BY DEF LoopInv, TypeInv, TypeOK, Position
  <2> QED BY <2>1, <2>2
<1>4. /\ Inside(wg_id, max_wg_id) /\ Index(wg_id, max_wg_id) = Position - 1
      /\ Position + tot_wgs - (wg_num + 1) <= Total
  BY <1>1 DEF LoopInv, AfterStart
<1>5. Position <= Total
  BY <1>2, <1>3, <1>4, IndexBound DEF Total
<1>6. Position < Total => Inside(wg_id', max_wg_id) /\ Index(wg_id', max_wg_id) = Position
  BY <1>1, <1>2, <1>3, <1>4, NextIdAdvances DEF Total
<1>7. Position' = Position /\ Total' = Total
  BY <1>1 DEF Position, Total
<1>8. Ahead'
  BY <1>1, <1>5, <1>6, <1>7 DEF Ahead
<1>9. BeforeStart'
  BY <1>1, <1>4, <1>7, <1>8 DEF BeforeStart
<1>10. InOrder'
  BY <1>1 DEF LoopInv, InOrder
<1> QED BY <1>1, <1>2, <1>9, <1>10 DEF LoopInv, AfterStart, BetweenCalls

(* Leaving a launch: from the loop of launchKernel and launchWgs, or from   *)
(* the poll of launchWg and the C kernel.                                   *)
LEMMA LoopLeave ==
  ASSUME LoopInv, TypeInv', UNCHANGED <<drvVars, starts, first>>, pc' = "idle",
         pc = "test" \/ call.kind # "launchWgs"
  PROVE  LoopInv'
<1>1. /\ wg_id' = wg_id /\ max_wg_id' = max_wg_id /\ call' = call
      /\ starts' = starts /\ first' = first
  BY DEF drvVars
<1>2. Position' = Position /\ Total' = Total
  BY <1>1 DEF Position, Total
<1>3. Ahead' <=> Ahead
  BY <1>1, <1>2 DEF Ahead
<1>4. InOrder' /\ max_wg_id' \in Sizes
  BY <1>1 DEF LoopInv, InOrder
<1>5. BetweenCalls'
  BY <1>1, <1>2, <1>3 DEF LoopInv, BeforeStart, BetweenCalls, Ahead
<1> QED BY <1>4, <1>5 DEF LoopInv, BeforeStart, AfterStart

LEMMA LoopBody ==
  ASSUME LoopInv, Body PROVE LoopInv'
<1>1. TypeInv'
  BY TypeBody DEF LoopInv
<1> USE DEF Goto, drvVars, history
<1>2. CASE Iterate BY <1>1, <1>2, LoopWithin DEF Iterate
<1>3. CASE Return BY <1>1, <1>3, LoopLeave DEF Return
<1>4. CASE ReadStatus
  BY <1>1, <1>4, LoopWithin DEF ReadStatus, LoopInv, BeforeStart
<1>5. CASE WriteArguments
  BY <1>1, <1>5, LoopWithin DEF WriteArguments, LoopInv, BeforeStart
<1>6. CASE ReadControl
  BY <1>1, <1>6, LoopWithin DEF ReadControl, LoopInv, BeforeStart
<1>7. CASE LoadControl
  BY <1>1, <1>7, LoopWithin DEF LoadControl, LoopInv, BeforeStart
<1>8. CASE StoreStart BY <1>1, <1>8, LoopStart
<1>9. CASE Poll
  <2>1. CASE call.kind \in {"launchKernel", "launchWgs"}
    BY <1>1, <1>9, <2>1, LoopWithin DEF Poll
  <2>2. CASE call.kind \notin {"launchKernel", "launchWgs"}
    BY <1>1, <1>9, <2>2, LoopLeave DEF Poll
  <2> QED BY <2>1, <2>2
<1>10. CASE NextGroup BY <1>1, <1>10, LoopNext
<1> QED BY <1>2, <1>3, <1>4, <1>5, <1>6, <1>7, <1>8, <1>9, <1>10 DEF Body

LEMMA LoopQuery ==
  ASSUME LoopInv, Query PROVE LoopInv'
<1>1. TypeInv'
  BY TypeQuery DEF LoopInv
<1> USE DEF drvVars, history
<1>2. CASE IsDone BY <1>1, <1>2, LoopWithin DEF IsDone
<1>3. CASE GetStatus BY <1>1, <1>3, LoopWithin DEF GetStatus
<1>4. ASSUME NEW v \in StatusValues, SetStatus(v) PROVE LoopInv'
  <2>1. CASE ~v.auto /\ ~v.start
    BY <1>1, <1>4, <2>1, LoopWithin DEF SetStatus
  <2>2. /\ pc = "idle" /\ pc' = "idle" /\ max_wg_id' = max_wg_id /\ wg_id' = wg_id
        /\ call' = call
    BY <1>4 DEF SetStatus
  <2>3. /\ starts \in Seq(Ids) /\ first \in Nat /\ Len(starts) \in Nat
        /\ max_wg_id \in Sizes /\ Total \in Nat
    BY OriginIndex DEF LoopInv, TypeInv, TypeOK, Total
  <2>4. CASE v.auto
    <3>1. starts' = << >> /\ first' = first
      BY <1>4, <2>4 DEF SetStatus
    <3>2. Position' = first /\ Total' = Total /\ Position >= first
      <4>1. Len(starts') = 0
        BY <3>1
      <4>2. Position' = first' + Len(starts') /\ Total' = Product(max_wg_id')
        BY DEF Position, Total
      <4> QED BY <2>2, <2>3, <3>1, <4>1, <4>2 DEF Position, Total
    <3>3. InOrder'
      BY <3>1 DEF InOrder
    <3>4. BetweenCalls'
      BY <2>2, <2>3, <3>1, <3>2 DEF LoopInv, BetweenCalls, Position
    <3> QED BY <1>1, <2>2, <2>3, <3>3, <3>4 DEF LoopInv, BeforeStart, AfterStart
  <2>5. CASE ~v.auto /\ v.start
    <3> DEFINE last == starts[Len(starts)]
    <3>1. starts # << >> /\ starts' = <<last>> /\ first' = Index(last, max_wg_id)
      BY <1>4, <2>5 DEF SetStatus
    <3>2. Len(starts) \in 1..Len(starts) /\ last \in Ids
      BY <2>3, <3>1
    <3>3. Index(last, max_wg_id) = first + Len(starts) - 1
      BY <3>2 DEF LoopInv, InOrder
    <3>4. Len(starts') = 1 /\ starts'[1] = last
      BY <3>1
    <3>5. Position' = Position /\ Total' = Total
      <4>1. Position' = first' + Len(starts') /\ Total' = Product(max_wg_id')
        BY DEF Position, Total
      <4> QED BY <2>2, <2>3, <3>1, <3>3, <3>4, <4>1 DEF Position, Total
    <3>6. InOrder'
      <4>1. first' \in Nat
        BY <1>1 DEF TypeInv, TypeOK
      <4> QED BY <2>2, <3>1, <3>4, <4>1 DEF InOrder
    <3>7. BetweenCalls'
      <4>1. Ahead' <=> Ahead
        BY <2>2, <3>5 DEF Ahead
      <4> QED BY <2>2, <3>1, <3>5, <4>1 DEF LoopInv, BetweenCalls
    <3> QED BY <1>1, <2>2, <2>3, <3>6, <3>7 DEF LoopInv, BeforeStart, AfterStart
  <2> QED BY <2>1, <2>4, <2>5
<1> QED BY <1>2, <1>3, <1>4 DEF Query

LEMMA LoopHardware ==
  ASSUME LoopInv, HwBegin \/ HwFinish \/ UNCHANGED vars PROVE LoopInv'
<1>1. TypeInv'
  BY TypeHardware DEF LoopInv
<1> QED BY <1>1, LoopWithin DEF HwBegin, HwFinish, vars, drvVars, history

LEMMA LoopInductive ==
  ASSUME EveryRangeDivides
  PROVE  Spec => []LoopInv
<1>1. LoopInv /\ [Next]_vars => LoopInv'
  BY LoopLaunch, LoopBody, LoopQuery, LoopHardware DEF Next
<1> QED BY <1>1, LoopInit, PTL DEF Spec

(* The groups a launch starts are the row-major sequence from its first     *)
(* group on, whatever the ranges and however many launchWgs calls go on     *)
(* from each other: none is started twice, none is skipped.  Also when the  *)
(* volume overflows an int: then groups are missing at the end only.        *)
THEOREM StartedInOrder ==
  ASSUME EveryRangeDivides
  PROVE  Spec => []InOrder
<1>1. LoopInv => InOrder
  BY DEF LoopInv
<1> QED BY <1>1, LoopInductive, PTL

(* launchWgs never starts a group behind the end of its range, also when    *)
(* its count overflows.                                                     *)
THEOREM PartialStaysInside ==
  ASSUME EveryRangeDivides
  PROVE  Spec => []WgsStaysInside
<1>1. LoopInv => WgsStaysInside
  <2> SUFFICES ASSUME LoopInv, call # NoCall, call.kind = "launchWgs"
               PROVE  Position <= Total
    BY DEF WgsStaysInside, Position, Total
  <2>1. pc = "idle" => Position <= Total
    BY DEF LoopInv, BetweenCalls
  <2>2. pc \in {"poll", "next"} => Position <= Total
    <3> SUFFICES ASSUME pc \in {"poll", "next"} PROVE Position <= Total
      OBVIOUS
    <3>1. /\ Inside(wg_id, max_wg_id) /\ Index(wg_id, max_wg_id) = Position - 1
          /\ wg_id \in Ids /\ max_wg_id \in Sizes /\ Position \in Int
      BY DEF LoopInv, AfterStart, TypeInv, TypeOK, Position
    <3>2. Total \in Nat
      BY <3>1, OriginIndex DEF Total
    <3> QED BY <3>1, <3>2, IndexBound DEF Total
  <2>3. pc \notin {"idle", "poll", "next"} => Position <= Total
    BY DEF LoopInv, BeforeStart, Ahead, TypeInv, TypeOK, States
  <2> QED BY <2>1, <2>2, <2>3
<1> QED BY <1>1, LoopInductive, PTL

-----------------------------------------------------------------------------
(* The handshake: who may touch the registers.                              *)

LEMMA HandshakeInit ==
  ASSUME CleanStart PROVE Init => Handshake
<1> SUFFICES ASSUME Init PROVE Handshake
  OBVIOUS
<1>1. TypeInv
  BY TypeInit
<1>2. /\ pc = "idle" /\ known = "free" /\ ~ap_start /\ ~auto_restart
      /\ running = NoJob /\ starts = << >>
  BY BoundAssumption DEF Init, CleanStart
<1> QED BY <1>1, <1>2 DEF Handshake, Preparing, Free, ReadyToStart

LEMMA HandshakeLaunch ==
  ASSUME Handshake, Launch PROVE Handshake'
<1>1. TypeInv'
  BY TypeLaunch DEF Handshake
<1>2. /\ pc = "idle" /\ known = "free" /\ pc' \in {"test", "status", "args"}
      /\ known' = known /\ ap_start' = ap_start /\ ap_done' = ap_done
      /\ auto_restart' = auto_restart /\ running' = running
      /\ starts' = << >> \/ starts' = starts
  BY DEF Launch, LaunchKernel, LaunchWgs, LaunchWg, LaunchCKernel, ResumeWgs, Enter,
         controlVars, history
<1> QED BY <1>1, <1>2 DEF Handshake, Preparing, Free, ReadyToStart

LEMMA HandshakeBody ==
  ASSUME Handshake, Body PROVE Handshake'
<1>1. TypeInv'
  BY TypeBody DEF Handshake
<1> USE DEF Goto, Handshake, Preparing, Free, ReadyToStart, controlVars, clientVars,
        history, ReadClears
<1>2. CASE Iterate BY <1>1, <1>2 DEF Iterate
<1>3. CASE Return BY <1>1, <1>3 DEF Return
<1>4. CASE ReadStatus BY <1>1, <1>4 DEF ReadStatus
<1>5. CASE WriteArguments BY <1>1, <1>5 DEF WriteArguments
<1>6. CASE ReadControl BY <1>1, <1>6 DEF ReadControl
<1>7. CASE LoadControl BY <1>1, <1>7 DEF LoadControl
<1>8. CASE StoreStart BY <1>1, <1>8 DEF StoreStart
<1>9. CASE Poll BY <1>1, <1>9 DEF Poll
<1>10. CASE NextGroup BY <1>1, <1>10 DEF NextGroup
<1> QED BY <1>2, <1>3, <1>4, <1>5, <1>6, <1>7, <1>8, <1>9, <1>10 DEF Body

LEMMA HandshakeQuery ==
  ASSUME Handshake, Query PROVE Handshake'
<1>1. TypeInv'
  BY TypeQuery DEF Handshake
<1> USE DEF Handshake, Preparing, Free, ReadyToStart, history, ReadClears
<1>2. CASE IsDone BY <1>1, <1>2 DEF IsDone
<1>3. CASE GetStatus BY <1>1, <1>3 DEF GetStatus
<1>4. ASSUME NEW v \in StatusValues, SetStatus(v) PROVE Handshake'
  <2>1. pc = "idle" /\ pc' = "idle" /\ ap_done' = ap_done /\ running' = running
    BY <1>4 DEF SetStatus
  <2>2. CASE v.auto
    BY <1>1, <1>4, <2>1, <2>2 DEF SetStatus
  <2>3. CASE ~v.auto /\ v.start
    BY <1>1, <1>4, <2>1, <2>3 DEF SetStatus
  <2>4. CASE ~v.auto /\ ~v.start
    <3>1. known' = known /\ ~auto_restart' /\ starts' = starts
      BY <1>4, <2>4 DEF SetStatus
    <3>2. ap_start' <=> ap_start
      BY <1>4, <2>4 DEF SetStatus
    <3> QED BY <1>1, <2>1, <3>1, <3>2
  <2> QED BY <2>2, <2>3, <2>4
<1> QED BY <1>2, <1>3, <1>4 DEF Query

LEMMA HandshakeHardware ==
  ASSUME Handshake, HwBegin \/ HwFinish \/ UNCHANGED vars PROVE Handshake'
<1>1. TypeInv'
  BY TypeHardware DEF Handshake
<1> USE DEF Handshake, Preparing, Free, ReadyToStart, controlVars, clientVars, history
<1>2. CASE HwBegin BY <1>1, <1>2 DEF HwBegin
<1>3. CASE HwFinish BY <1>1, <1>3 DEF HwFinish
<1>4. CASE UNCHANGED vars BY <1>1, <1>4 DEF vars
<1> QED BY <1>2, <1>3, <1>4

LEMMA HandshakeInductive ==
  ASSUME CleanStart PROVE Spec => []Handshake
<1>1. Handshake /\ [Next]_vars => Handshake'
  BY HandshakeLaunch, HandshakeBody, HandshakeQuery, HandshakeHardware DEF Next
<1> QED BY <1>1, HandshakeInit, PTL DEF Spec

(* No argument register changes between a start of the accelerator and the  *)
(* end of its run, for every mix of blocking and non-blocking launches and  *)
(* set_status calls of a program that starts it only when it knows it free. *)
THEOREM ArgumentsStable ==
  ASSUME CleanStart PROVE Spec => ArgsStable
<1>1. Handshake /\ [Next]_vars => (~Free => regs' = regs)
  <2> SUFFICES ASSUME Handshake, [Next]_vars, ~Free PROVE regs' = regs
    OBVIOUS
  <2>1. pc # "args"
    BY DEF Handshake, Preparing
  <2>2. CASE Launch
    BY <2>2 DEF Launch, LaunchKernel, LaunchWgs, LaunchWg, LaunchCKernel, ResumeWgs, Enter
  <2>3. CASE Body
    BY <2>1, <2>3 DEF Body, Iterate, Return, ReadStatus, WriteArguments, ReadControl,
                     LoadControl, StoreStart, Poll, NextGroup, Goto
  <2>4. CASE Query
    BY <2>4 DEF Query, IsDone, GetStatus, SetStatus
  <2>5. CASE HwBegin \/ HwFinish \/ UNCHANGED vars
    BY <2>5 DEF HwBegin, HwFinish, vars
  <2> QED BY <2>2, <2>3, <2>4, <2>5 DEF Next
<1> QED BY <1>1, HandshakeInductive, PTL DEF Spec, ArgsStable
-----------------------------------------------------------------------------
(* What is latched is what was written.                                     *)

(* Where the words of the k-th argument of a row of n arguments of width w  *)
(* lie, and what the driver takes them for.                                 *)
Placed(base, n, w, k) ==
  LET low == base + k * w
  IN /\ low \in base..(base + n * w - 1)
     /\ (low - base) % w = 0 /\ (low - base) \div w = k
     /\ w > 2 => low + 1 \in base..(base + n * w - 1)
     /\ w > 2 => ((low + 1) - base) % w = 1

LEMMA ArgumentPlace ==
  ASSUME NEW base \in Nat, NEW n \in Nat, NEW w \in Nat \ {0}, NEW k \in 0..(n - 1)
  PROVE  Placed(base, n, w, k)
<1> DEFINE x == k * w
<1>1. x \in Nat /\ n * w \in Nat /\ x = w * k
  <2>1. k \in Nat
    OBVIOUS
  <2> QED BY <2>1
<1>2. x + w <= n * w
  <2>1. (k + 1) * w <= n * w
    BY ProductMonotone
  <2>2. (k + 1) * w = x + w
    BY <1>1
  <2> QED BY <2>1, <2>2
<1>3. (w * k + 0) % w = 0 /\ (w * k + 0) \div w = k
  BY RemainderUnique, k \in Nat, 0 \in 0..(w - 1)
<1>4. w > 2 => (w * k + 1) % w = 1
  BY RemainderUnique, k \in Nat, w > 2 => 1 \in 0..(w - 1)
<1>5. w * k + 0 = x /\ w * k + 1 = x + 1
  BY <1>1
<1>6. x % w = 0 /\ x \div w = k /\ (w > 2 => (x + 1) % w = 1)
  BY <1>3, <1>4, <1>5
<1> HIDE DEF x
<1>7. base + x - base = x /\ base + x + 1 - base = x + 1
  BY <1>1
<1>8. /\ base + x \in base..(base + n * w - 1)
      /\ w > 2 => base + x + 1 \in base..(base + n * w - 1)
  BY <1>1, <1>2
<1> QED BY <1>6, <1>7, <1>8 DEF x, Placed

(* The rows of ids, inputs and outputs lie one behind the other within the  *)
(* register file.                                                           *)
LEMMA Layout ==
  /\ InBase \in Nat /\ OutBase \in Nat /\ InBase <= OutBase
  /\ OutBase = InBase + Shape.ins * Shape.inw
  /\ \A w \in IdWords : w < InBase
  /\ InWords \subseteq InBase..(OutBase - 1)
  /\ OutWords \subseteq OutBase..(OutBase + Shape.outs * Shape.outw - 1)
  /\ Words = 0..(OutBase + Shape.outs * Shape.outw)
<1>1. /\ Shape.ins \in Nat /\ Shape.inw \in Nat \ {0}
      /\ Shape.outs \in Nat /\ Shape.outw \in Nat \ {0}
  BY ShapeAssumption
<1>2. InBase \in Nat /\ \A w \in IdWords : w < InBase
  BY InterfaceAssumption DEF InBase, IdWords
<1>3. Shape.ins * Shape.inw \in Nat /\ Shape.outs * Shape.outw \in Nat
  BY <1>1, ProductMonotone
<1>4. OutBase \in Nat /\ InBase <= OutBase
  BY <1>2, <1>3 DEF OutBase
<1>5. ASSUME NEW base \in Nat, NEW n \in Nat, NEW w \in Nat \ {0}
      PROVE  ArgWords(base, n, w) \subseteq base..(base + n * w - 1)
  BY ArgumentPlace DEF ArgWords, Placed
<1>6. InWords \subseteq InBase..(OutBase - 1)
  BY <1>1, <1>2, <1>5 DEF InWords, OutBase
<1>7. OutWords \subseteq OutBase..(OutBase + Shape.outs * Shape.outw - 1)
  BY <1>1, <1>4, <1>5 DEF OutWords
<1> QED BY <1>2, <1>4, <1>6, <1>7 DEF OutBase, Words

(* The accelerator reads the ids and the pointers of the call from where    *)
(* the driver has put them, whatever was in the registers before.           *)
LEMMA LatchedArguments ==
  ASSUME NEW file \in [Words -> Int], NEW id \in Ids, NEW b \in Nat,
         Interface = "c" => id = <<0, 0, 0>>
  PROVE  Latched(WithArguments(file, id, b)) = Job(id, b)
<1> DEFINE new == WithArguments(file, id, b)
<1>1. /\ Shape.ins \in Nat /\ Shape.inw \in Nat \ {0}
      /\ Shape.outs \in Nat /\ Shape.outw \in Nat \ {0}
  BY ShapeAssumption
<1>2. ASSUME NEW k \in 1..Shape.ins
      PROVE  Pointer(new, InBase, Shape.inw, k - 1) = <<InPtr(b, k - 1), 0>>
  <2> DEFINE j == k - 1  low == InBase + j * Shape.inw  next == low + 1
  <2>1. j \in 0..(Shape.ins - 1)
    BY <1>1
  <2>2. InBase \in Nat
    BY Layout
  <2> HIDE DEF j
  <2>3. Placed(InBase, Shape.ins, Shape.inw, j)
    BY <1>1, <2>1, <2>2, ArgumentPlace
  <2>4. low \in InWords /\ (Shape.inw > 2 => next \in InWords)
    BY <2>1 DEF InWords, ArgWords
  <2>5. \A w \in InBase..(OutBase - 1) : w \in Words /\ w \notin OutWords
    <3>1. Shape.outs * Shape.outw \in Nat
      BY <1>1, ProductMonotone
    <3> QED BY <3>1, Layout
  <2>6. ASSUME NEW w \in InWords PROVE new[w] = InWord(b, w)
    BY <2>5, Layout DEF WithArguments
  <2>7. InWord(b, low) = InPtr(b, j)
    BY <2>3 DEF InWord, Placed
  <2>8. Shape.inw > 2 => InWord(b, next) = 0
    <3>1. Shape.inw > 2 => (next - InBase) % Shape.inw = 1
      BY <2>3 DEF Placed
    <3> HIDE DEF next
    <3> QED BY <3>1 DEF InWord
  <2>9. new[low] = InPtr(b, j) /\ (Shape.inw > 2 => new[next] = 0)
    BY <2>4, <2>6, <2>7, <2>8
  <2> HIDE DEF new
  <2> QED BY <2>9 DEF Pointer, j
<1>3. ASSUME NEW k \in 1..Shape.outs
      PROVE  Pointer(new, OutBase, Shape.outw, k - 1) = <<OutPtr(b, k - 1), 0>>
  <2> DEFINE j == k - 1  low == OutBase + j * Shape.outw  next == low + 1
  <2>1. j \in 0..(Shape.outs - 1)
    BY <1>1
  <2>2. OutBase \in Nat
    BY Layout
  <2> HIDE DEF j
  <2>3. Placed(OutBase, Shape.outs, Shape.outw, j)
    BY <1>1, <2>1, <2>2, ArgumentPlace
  <2>4. low \in OutWords /\ (Shape.outw > 2 => next \in OutWords)
    BY <2>1 DEF OutWords, ArgWords
  <2>5. OutWords \subseteq Words
    <3>1. Shape.outs * Shape.outw \in Nat
      BY <1>1, ProductMonotone
    <3> QED BY <3>1, Layout
  <2>6. ASSUME NEW w \in OutWords PROVE new[w] = OutWord(b, w)
    BY <2>5 DEF WithArguments
  <2>7. OutWord(b, low) = OutPtr(b, j)
    BY <2>3 DEF OutWord, Placed
  <2>8. Shape.outw > 2 => OutWord(b, next) = 0
    <3>1. Shape.outw > 2 => (next - OutBase) % Shape.outw = 1
      BY <2>3 DEF Placed
    <3> HIDE DEF next
    <3> QED BY <3>1 DEF OutWord
  <2>9. new[low] = OutPtr(b, j) /\ (Shape.outw > 2 => new[next] = 0)
    BY <2>4, <2>6, <2>7, <2>8
  <2> HIDE DEF new
  <2> QED BY <2>9 DEF Pointer, j
<1>4. Interface = "opencl" =>
        /\ new[4] = id[1] /\ new[6] = id[2] /\ new[8] = id[3]
        /\ new[10] = 0 /\ new[12] = 0 /\ new[14] = 0
  <2> SUFFICES ASSUME Interface = "opencl"
               PROVE  /\ new[4] = id[1] /\ new[6] = id[2] /\ new[8] = id[3]
                      /\ new[10] = 0 /\ new[12] = 0 /\ new[14] = 0
    OBVIOUS
  <2>1. InBase = 16 /\ IdWords = {4, 6, 8, 10, 12, 14}
    BY DEF InBase, IdWords
  <2>2. ASSUME NEW w \in IdWords PROVE new[w] = IdWord(id, w)
    <3>1. Shape.outs * Shape.outw \in Nat
      BY <1>1, ProductMonotone
    <3>2. w \in Words /\ w \notin OutWords /\ w \notin InWords
      BY <2>1, <3>1, Layout
    <3> QED BY <3>2 DEF WithArguments
  <2>3. (4 - 2) \div 2 = 1 /\ (6 - 2) \div 2 = 2 /\ (8 - 2) \div 2 = 3
    OBVIOUS
  <2> QED BY <2>1, <2>2, <2>3 DEF IdWord
<1>5. id = <<id[1], id[2], id[3]>>
  BY DEF Ids
<1>6. OutBase = InBase + Shape.ins * Shape.inw
  BY DEF OutBase
<1> HIDE DEF new
<1>7. Latched(new).group = id /\ Latched(new).offset = <<0, 0, 0>>
  BY <1>4, <1>5, InterfaceAssumption DEF Latched
<1> QED BY <1>2, <1>3, <1>6, <1>7 DEF Latched, Job, new
-----------------------------------------------------------------------------
(* What is started is run, once and with the arguments of its call.         *)

AnyJob  == {Job(id, b) : id \in Ids, b \in Nat}
LastJob == Job(starts[Len(starts)], call.buf)

(* The C kernel has no ids: its launch has one group and no loop.           *)
NoIds == Interface = "c" => wg_id = <<0, 0, 0>> /\ pc \notin {"test", "next"}

(* Whose arguments the registers hold: behind WriteArguments those of the   *)
(* group to start, else those of the last one started.                      *)
RegsInv ==
  /\ pc \in {"check", "load", "start"} => Latched(regs) = Job(wg_id, call.buf)
  /\ pc \notin {"check", "load", "start"} /\ starts # << >> => Latched(regs) = LastJob

LogOf ==
  /\ log \in Seq(AnyJob)
  /\ \A k \in 1..Len(log) : log[k] = Job(starts[k], call.buf)

(* The log is what was started, without the job that still runs or is about *)
(* to: of that one the accelerator has, or is about to latch, the arguments.*)
LogInv ==
  /\ LogOf
  /\ starts # << >> => call \in Requests
  /\ known = "looping" => starts = << >> /\ log = << >>
  /\ known # "looping" =>
       /\ Free => Len(log) = Len(starts)
       /\ ~Free => /\ Len(log) + 1 = Len(starts)
                   /\ running # NoJob => running = LastJob

DoneInv == Handshake /\ NoIds /\ RegsInv /\ LogInv

LEMMA LastJobType ==
  ASSUME TypeOK, starts # << >>, call \in Requests
  PROVE  LastJob \in AnyJob
<1>1. starts[Len(starts)] \in Ids
  BY DEF TypeOK
<1>2. call.buf \in Nat
  BY RequestFields
<1> QED BY <1>1, <1>2 DEF LastJob, AnyJob

LEMMA LogAfter ==
  ASSUME log' \in Seq(AnyJob),
         \A k \in 1..Len(log') : log'[k] = Job(starts'[k], call'.buf)
  PROVE  LogOf'
<1>1. (log \in Seq(AnyJob))'
  BY DEF AnyJob, Job, InPtr, OutPtr
<1>2. (\A k \in 1..Len(log) : log[k] = Job(starts[k], call.buf))'
  BY DEF Job, InPtr, OutPtr
<1> QED BY <1>1, <1>2 DEF LogOf

LEMMA LogKept ==
  ASSUME LogOf, UNCHANGED <<call, starts, log>>
  PROVE  LogOf' /\ LastJob' = LastJob
<1>1. (log \in Seq(AnyJob))'
  BY DEF LogOf, AnyJob, Job, InPtr, OutPtr
<1>2. (\A k \in 1..Len(log) : log[k] = Job(starts[k], call.buf))'
  BY DEF LogOf, Job, InPtr, OutPtr
<1>3. LastJob' = LastJob
  BY DEF LastJob, Job, InPtr, OutPtr
<1> QED BY <1>1, <1>2, <1>3 DEF LogOf

(* A step that leaves history, registers and accelerator alone, and         *)
(* neither enters nor leaves the places behind WriteArguments.              *)
LEMMA DoneWithin ==
  ASSUME DoneInv, Handshake', NoIds',
         UNCHANGED <<call, regs, ap_start, running, starts, log>>,
         known' = "looping" <=> known = "looping",
         \/ pc \in {"check", "load", "start"} /\ pc' \in {"check", "load", "start"}
            /\ wg_id' = wg_id
         \/ pc \notin {"check", "load", "start"} /\ pc' \notin {"check", "load", "start"}
  PROVE  DoneInv'
<1>1. LastJob' = LastJob /\ Latched(regs)' = Latched(regs) /\ (Free' <=> Free)
  BY DEF LastJob, Job, Latched, Pointer, OutBase, InBase, InPtr, OutPtr, Free
<1>2. RegsInv'
  BY <1>1 DEF DoneInv, RegsInv, Job, InPtr, OutPtr
<1>3. LogInv'
  BY <1>1, LogKept DEF DoneInv, LogInv
<1> QED BY <1>2, <1>3 DEF DoneInv

LEMMA DoneInit ==
  ASSUME CleanStart PROVE Init => DoneInv
<1> SUFFICES ASSUME Init PROVE DoneInv
  OBVIOUS
<1>1. /\ pc = "idle" /\ known = "free" /\ wg_id = <<0, 0, 0>>
      /\ starts = << >> /\ log = << >> /\ Free
  BY DEF Init, Free
<1> QED BY <1>1, HandshakeInit DEF DoneInv, NoIds, RegsInv, LogInv, LogOf

LEMMA DoneLaunch ==
  ASSUME DoneInv, Launch PROVE DoneInv'
<1>1. Handshake'
  BY HandshakeLaunch DEF DoneInv
<1>2. pc = "idle" /\ known = "free" /\ known' = known /\ Free /\ (Free' <=> Free)
  BY DEF Launch, LaunchKernel, LaunchWgs, LaunchWg, LaunchCKernel, ResumeWgs, Enter,
         DoneInv, Handshake, Free, controlVars
<1>3. CASE ~ResumeWgs
  <2>1. PICK r \in Requests : LaunchKernel(r) \/ LaunchWgs(r) \/ LaunchWg(r)
                                \/ LaunchCKernel(r)
    BY <1>3 DEF Launch
  <2>2. /\ starts' = << >> /\ log' = << >> /\ pc' \notin {"check", "load", "start"}
        /\ r.kind = "ckernel" => (wg_id' = <<0, 0, 0>> /\ pc' \notin {"test", "next"})
    BY <2>1 DEF LaunchKernel, LaunchWgs, LaunchWg, LaunchCKernel, Enter
  <2>3. NoIds'
    BY <2>2, RequestAssumption DEF NoIds
  <2> QED BY <1>1, <1>2, <2>2, <2>3 DEF DoneInv, RegsInv, LogInv, LogOf
<1>4. CASE ResumeWgs
  <2>1. /\ UNCHANGED <<call, wg_id, regs, ap_start, running, starts, log>>
        /\ pc' = "test" /\ call # NoCall /\ call.kind = "launchWgs"
    BY <1>4 DEF ResumeWgs, history, controlVars
  <2>2. NoIds'
    BY <2>1, RequestAssumption DEF NoIds, DoneInv, Handshake, TypeInv, TypeOK
  <2> QED BY <1>1, <1>2, <2>1, <2>2, DoneWithin
<1> QED BY <1>3, <1>4

LEMMA DoneStart ==
  ASSUME DoneInv, StoreStart, Handshake' PROVE DoneInv'
<1>1. /\ pc = "start" /\ pc' \in {"poll", "idle"} /\ ap_start' = TRUE
      /\ UNCHANGED <<call, wg_id, regs, running, log>>
      /\ starts' = Append(starts, wg_id)
      /\ known' = known \/ known' = "busy"
  BY DEF StoreStart, Goto, drvVars
<1>2. known = "free" /\ Free /\ call \in Requests /\ starts \in Seq(Ids) /\ wg_id \in Ids
  BY <1>1 DEF DoneInv, Handshake, Preparing, TypeInv, TypeOK
<1>3. /\ Len(starts') = Len(starts) + 1 /\ starts'[Len(starts')] = wg_id
      /\ \A k \in 1..Len(starts) : starts'[k] = starts[k]
      /\ starts' # << >>
  BY <1>1, <1>2
<1>4. Latched(regs) = Job(wg_id, call.buf) /\ Len(log) = Len(starts)
      /\ log \in Seq(AnyJob) /\ \A k \in 1..Len(log) : log[k] = Job(starts[k], call.buf)
  BY <1>1, <1>2 DEF DoneInv, RegsInv, LogInv, LogOf
<1>5. LastJob' = Job(wg_id, call.buf) /\ ~Free' /\ running' = NoJob
  BY <1>1, <1>2, <1>3 DEF LastJob, Free, Job, InPtr, OutPtr
<1>6. Latched(regs)' = Latched(regs)
  BY <1>1 DEF Latched, Pointer, InBase
<1>7. RegsInv'
  BY <1>1, <1>4, <1>5, <1>6 DEF RegsInv
<1>8. LogInv'
  <2>1. known' # "looping" /\ Len(log') + 1 = Len(starts') 
    BY <1>1, <1>2, <1>3, <1>4 DEF AnyJob, Job, InPtr, OutPtr
  <2>2. \A k \in 1..Len(log') : log'[k] = Job(starts'[k], call'.buf)
    BY <1>1, <1>3, <1>4
  <2>3. LogOf'
    BY <1>1, <1>3, <1>4, <2>2, LogAfter
  <2> QED BY <1>1, <1>2, <1>5, <2>1, <2>3 DEF LogInv
<1>9. NoIds'
  BY <1>1 DEF DoneInv, NoIds
<1> QED BY <1>7, <1>8, <1>9 DEF DoneInv

LEMMA DoneBody ==
  ASSUME DoneInv, Body PROVE DoneInv'
<1>1. Handshake'
  BY HandshakeBody DEF DoneInv
<1>2. TypeOK /\ (pc # "idle" => call \in Requests)
  BY DEF DoneInv, Handshake, TypeInv
<1> USE DEF Goto, drvVars, controlVars, clientVars, history, ReadClears
<1>3. CASE Iterate \/ Return
  BY <1>1, <1>3, DoneWithin DEF Iterate, Return, DoneInv, NoIds
<1>4. CASE ReadStatus \/ ReadControl \/ LoadControl
  BY <1>1, <1>4, DoneWithin DEF ReadStatus, ReadControl, LoadControl, DoneInv, NoIds
<1>5. CASE WriteArguments
  <2>1. /\ pc = "args" /\ pc' = "check" /\ regs' = WithArguments(regs, wg_id, call.buf)
        /\ UNCHANGED <<call, wg_id, ap_start, running, starts, log, known>>
    BY <1>5 DEF WriteArguments
  <2>2. regs \in [Words -> Int] /\ wg_id \in Ids /\ call.buf \in Nat
    BY <1>2, <2>1, RequestFields DEF TypeOK
  <2>3. Latched(regs') = Job(wg_id, call.buf)
    BY <2>1, <2>2, LatchedArguments DEF DoneInv, NoIds
  <2>4. Latched(regs)' = Latched(regs')
    BY DEF Latched, Pointer
  <2>5. RegsInv'
    BY <2>1, <2>3, <2>4 DEF RegsInv, Job, InPtr, OutPtr
  <2>6. Free /\ Free' /\ known = "free"
    BY <2>1 DEF DoneInv, Handshake, Preparing, Free
  <2>7. LogInv'
    BY <2>1, <2>6, LogKept DEF DoneInv, LogInv
  <2>8. NoIds'
    BY <2>1 DEF DoneInv, NoIds
  <2> QED BY <1>1, <2>5, <2>7, <2>8 DEF DoneInv
<1>6. CASE StoreStart
  BY <1>1, <1>6, DoneStart
<1>7. CASE Poll
  <2>1. Interface = "c" => pc' # "next"
    BY <1>2, <1>7, RequestAssumption DEF Poll
  <2> QED BY <1>1, <1>7, <2>1, DoneWithin DEF Poll, DoneInv, NoIds
<1>8. CASE NextGroup
  <2>1. Interface # "c"
    BY <1>8 DEF NextGroup, DoneInv, NoIds
  <2> QED BY <1>1, <1>8, <2>1, DoneWithin DEF NextGroup, NoIds
<1> QED BY <1>3, <1>4, <1>5, <1>6, <1>7, <1>8 DEF Body

LEMMA DoneQuery ==
  ASSUME DoneInv, Query PROVE DoneInv'
<1>1. Handshake'
  BY HandshakeQuery DEF DoneInv
<1> USE DEF drvVars, history, ReadClears
<1>2. CASE IsDone
  <2>1. known' = "looping" <=> known = "looping"
    BY <1>2 DEF IsDone
  <2> QED BY <1>1, <1>2, <2>1, DoneWithin DEF IsDone, DoneInv, NoIds
<1>3. CASE GetStatus
  <2>1. /\ UNCHANGED <<pc, call, wg_id, regs, ap_start, running, starts, log>>
        /\ pc = "idle"
    BY <1>3 DEF GetStatus
  <2>2. NoIds'
    BY <2>1 DEF DoneInv, NoIds
  <2>3. CASE known # "looping" \/ known' = known
    <3>1. known' = "looping" <=> known = "looping"
      BY <1>3, <2>3 DEF GetStatus
    <3> QED BY <1>1, <2>1, <2>2, <3>1, DoneWithin
  <2>4. CASE known = "looping" /\ known' # known
    <3>1. Free /\ (Free' <=> Free) /\ starts = << >> /\ log = << >>
      BY <1>3, <2>1, <2>4 DEF GetStatus, Free, DoneInv, LogInv
    <3> QED BY <1>1, <2>1, <2>2, <3>1, LogKept DEF DoneInv, RegsInv, LogInv
  <2> QED BY <2>3, <2>4
<1>4. ASSUME NEW v \in StatusValues, SetStatus(v) PROVE DoneInv'
  <2>0. v.start \in BOOLEAN /\ v.auto \in BOOLEAN
    BY BoundAssumption
  <2>1. /\ pc = "idle" /\ UNCHANGED <<pc, call, wg_id, max_wg_id, regs, running>>
        /\ ap_start' = (ap_start \/ v.start)
        /\ known' = IF v.auto THEN "looping" ELSE IF v.start THEN "busy" ELSE known
    BY <1>4 DEF SetStatus
  <2>2. NoIds'
    BY <2>1 DEF DoneInv, NoIds
  <2>3. CASE v.auto
    <3>1. starts' = << >> /\ log' = << >>
      BY <1>4, <2>3 DEF SetStatus
    <3> QED BY <1>1, <2>1, <2>2, <2>3, <3>1 DEF DoneInv, RegsInv, LogInv, LogOf
  <2>4. CASE ~v.auto /\ v.start
    <3>1. /\ starts # << >> /\ starts' = <<starts[Len(starts)]>> /\ log' = << >>
          /\ known = "free" /\ ap_start' /\ known' = "busy"
      BY <1>4, <2>1, <2>4 DEF SetStatus
    <3>2. Free /\ running' = NoJob /\ ~Free'
      BY <2>1, <3>1 DEF DoneInv, Handshake, Free
    <3>3. LastJob' = LastJob /\ Latched(regs)' = Latched(regs)
      BY <2>1, <3>1 DEF LastJob, Job, InPtr, OutPtr, Latched, Pointer
    <3>4. RegsInv'
      BY <2>1, <3>1, <3>3 DEF DoneInv, RegsInv
    <3>5. LogInv'
      BY <2>1, <3>1, <3>2, <3>3 DEF DoneInv, LogInv, LogOf
    <3> QED BY <1>1, <2>2, <3>4, <3>5 DEF DoneInv
  <2>5. CASE ~v.auto /\ ~v.start
    <3>1. known' = known /\ starts' = starts /\ log' = log
      BY <1>4, <2>1, <2>5 DEF SetStatus
    <3>2. ap_start' = ap_start
      BY <2>1, <2>5 DEF DoneInv, Handshake, TypeInv, TypeOK
    <3> QED BY <1>1, <2>1, <2>2, <3>1, <3>2, DoneWithin
  <2> QED BY <2>0, <2>3, <2>4, <2>5
<1> QED BY <1>2, <1>3, <1>4 DEF Query

LEMMA DoneHardware ==
  ASSUME DoneInv, HwBegin \/ HwFinish \/ UNCHANGED vars PROVE DoneInv'
<1>1. Handshake'
  BY HandshakeHardware DEF DoneInv
<1>2. UNCHANGED <<pc, call, wg_id, regs, starts, known>>
  BY DEF HwBegin, HwFinish, vars, drvVars, clientVars, history
<1>3. NoIds'
  BY <1>2 DEF DoneInv, NoIds
<1>4. LastJob' = LastJob /\ Latched(regs)' = Latched(regs)
  BY <1>2 DEF LastJob, Job, InPtr, OutPtr, Latched, Pointer
<1>5. RegsInv'
  BY <1>2, <1>4 DEF DoneInv, RegsInv, Job, InPtr, OutPtr
<1>6. pc \in {"check", "load", "start"} => Free
  BY DEF DoneInv, Handshake, Preparing
<1>7. CASE HwBegin
  <2>1. ~Free /\ ap_start' = ap_start /\ log' = log /\ running' = Latched(regs)
    BY <1>7 DEF HwBegin, Free, controlVars, history
  <2>2. ~Free'
    BY <1>7, <2>1 DEF HwBegin, Free
  <2>3. known # "looping" => starts # << >>
    BY <2>1 DEF DoneInv, LogInv
  <2>4. known # "looping" => running' = LastJob
    BY <1>6, <2>1, <2>3 DEF DoneInv, RegsInv
  <2>5. LogInv'
    BY <1>2, <1>4, <2>1, <2>2, <2>4, LogKept DEF DoneInv, LogInv
  <2> QED BY <1>1, <1>3, <1>5, <2>5 DEF DoneInv
<1>8. CASE HwFinish
  <2>1. /\ running # NoJob /\ running' = NoJob /\ ap_start' = auto_restart
        /\ log' = IF known = "looping" THEN log ELSE Append(log, running)
    BY <1>8 DEF HwFinish
  <2>2. CASE known = "looping"
    BY <1>1, <1>2, <1>3, <1>5, <2>1, <2>2, LogKept DEF DoneInv, LogInv
  <2>3. CASE known # "looping"
    <3>1. ~Free /\ Free'
      BY <1>2, <2>1, <2>3 DEF DoneInv, Handshake, Free, TypeInv, TypeOK
    <3>2. /\ log \in Seq(AnyJob) /\ Len(log) + 1 = Len(starts) /\ running = LastJob
          /\ starts # << >> /\ call \in Requests
      BY <2>1, <2>3, <3>1 DEF DoneInv, LogInv, LogOf
    <3>3. running \in AnyJob
      BY <3>2, LastJobType DEF DoneInv, Handshake, TypeInv
    <3>4. log' = Append(log, running) /\ log' \in Seq(AnyJob) /\ Len(log') = Len(log) + 1
      BY <2>1, <2>3, <3>2, <3>3
    <3>5. ASSUME NEW k \in 1..Len(log') PROVE log'[k] = Job(starts'[k], call'.buf)
      <4>1. CASE k = Len(log')
        BY <1>2, <3>2, <3>4, <4>1 DEF LastJob
      <4>2. CASE k # Len(log')
        BY <1>2, <3>2, <3>4, <4>2 DEF DoneInv, LogInv, LogOf
      <4> QED BY <4>1, <4>2
    <3>6. LogInv'
      <4>1. LogOf'
        BY <3>4, <3>5, LogAfter
      <4> QED BY <1>2, <2>3, <3>1, <3>2, <3>4, <4>1 DEF LogInv
    <3> QED BY <1>1, <1>3, <1>5, <3>6 DEF DoneInv
  <2> QED BY <2>2, <2>3
<1>9. CASE UNCHANGED vars
  BY <1>1, <1>3, <1>9, DoneWithin DEF vars, drvVars, controlVars, clientVars, history
<1> QED BY <1>7, <1>8, <1>9

(* Whoever goes on because of an ap_done finds the accelerator idle, and    *)
(* behind it exactly the jobs that were started, each with the ids and      *)
(* pointers of its own call, whatever the kernel's shape and whatever an    *)
(* earlier user left in the argument registers and in ap_done, but not if   *)
(* it left auto_restart set.                                                *)
THEOREM DoneIsDone ==
  ASSUME CleanStart PROVE Spec => []DoneMeansDone
<1>1. DoneInv /\ [Next]_vars => DoneInv'
  BY DoneLaunch, DoneBody, DoneQuery, DoneHardware DEF Next
<1>2. DoneInv => DoneMeansDone
  <2> SUFFICES ASSUME DoneInv, pc = "next" \/ (pc = "idle" /\ known = "free")
               PROVE  Free /\ Len(log) = Len(starts)
                      /\ \A k \in 1..Len(log) : log[k] = Job(starts[k], call.buf)
    BY DEF DoneMeansDone
  <2>1. Free /\ known = "free"
    BY DEF DoneInv, Handshake, Preparing
  <2> QED BY <2>1 DEF DoneInv, LogInv, LogOf
<1> QED BY <1>1, <1>2, DoneInit, PTL DEF Spec

-----------------------------------------------------------------------------
(* Why a launch ends.                                                       *)

(* However the accelerator, the launch and the status calls before it go, a *)
(* driver that polls has an ap_done to read, or an accelerator to wait for. *)
THEOREM PollsAreAnswered == Spec => []PollIsAnswered
<1>1. Init => PollIsAnswered
  BY DEF Init, PollIsAnswered
<1>2. PollIsAnswered /\ [Next]_vars => PollIsAnswered'
  <2> SUFFICES ASSUME PollIsAnswered, [Next]_vars PROVE PollIsAnswered'
    OBVIOUS
  <2> USE DEF PollIsAnswered
  <2>1. CASE Launch
    BY <2>1 DEF Launch, LaunchKernel, LaunchWgs, LaunchWg, LaunchCKernel, ResumeWgs, Enter
  <2>2. CASE Body
    BY <2>2 DEF Body, Iterate, Return, ReadStatus, WriteArguments, ReadControl, LoadControl,
       StoreStart, Poll, NextGroup, Goto
  <2>3. CASE Query
    BY <2>3 DEF Query, IsDone, GetStatus, SetStatus
  <2>4. CASE HwBegin BY <2>4 DEF HwBegin, controlVars
  <2>5. CASE HwFinish BY <2>5 DEF HwFinish
  <2>6. CASE UNCHANGED vars BY <2>6 DEF vars, controlVars
  <2> QED BY <2>1, <2>2, <2>3, <2>4, <2>5, <2>6 DEF Next
<1> QED BY <1>1, <1>2, PTL DEF Spec

(* In the body of the loop there is a group to start.                       *)
GroupLeft == pc \notin {"idle", "test"} => wg_num < tot_wgs

LEMMA GroupLeftInductive == Spec => [](TypeInv /\ GroupLeft)
<1>1. Init => TypeInv /\ GroupLeft
  BY TypeInit DEF Init, GroupLeft
<1>2. TypeInv /\ GroupLeft /\ [Next]_vars => (TypeInv /\ GroupLeft)'
  <2> SUFFICES ASSUME TypeInv, GroupLeft, [Next]_vars PROVE TypeInv' /\ GroupLeft'
    OBVIOUS
  <2>1. CASE Launch
    BY <2>1, TypeLaunch DEF Launch, LaunchKernel, LaunchWgs, LaunchWg, LaunchCKernel,
       ResumeWgs, Enter, GroupLeft
  <2>2. CASE Body
    <3>1. TypeInv'
      BY <2>2, TypeBody
    <3>2. GroupLeft'
      BY <2>2 DEF Body, Iterate, Return, ReadStatus, WriteArguments, ReadControl, LoadControl,
         StoreStart, Poll, NextGroup, Goto, GroupLeft, drvVars
    <3> QED BY <3>1, <3>2
  <2>3. CASE Query
    <3>1. TypeInv'
      BY <2>3, TypeQuery
    <3>2. pc' = pc /\ UNCHANGED drvVars
      BY <2>3 DEF Query, IsDone, GetStatus, SetStatus
    <3> QED BY <3>1, <3>2 DEF GroupLeft, drvVars
  <2>4. CASE HwBegin \/ HwFinish \/ UNCHANGED vars
    <3>1. TypeInv'
      BY <2>4, TypeHardware
    <3>2. pc' = pc /\ UNCHANGED drvVars
      BY <2>4 DEF HwBegin, HwFinish, vars
    <3> QED BY <3>1, <3>2 DEF GroupLeft, drvVars
  <2> QED BY <2>1, <2>2, <2>3, <2>4 DEF Next
<1> QED BY <1>1, <1>2, PTL DEF Spec

(* Every step of the driver brings its launch closer to its end, a number   *)
(* of steps away, for every range, also one the group size does not divide  *)
(* and one whose volume overflows.                                          *)
THEOREM LaunchesAdvance == Spec => LaunchAdvances
<1> DEFINE Rank(p) == CASE p = "test" -> 8 [] p = "status" -> 7 [] p = "args" -> 6
                        [] p = "check" -> 5 [] p = "load" -> 4 [] p = "start" -> 3
                        [] p = "poll" -> 2 [] p = "next" -> 1 [] OTHER -> 0
           Groups == IF wg_num < tot_wgs THEN tot_wgs - wg_num ELSE 0
<1>1. /\ Rank("test") = 8 /\ Rank("status") = 7 /\ Rank("args") = 6 /\ Rank("check") = 5
      /\ Rank("load") = 4 /\ Rank("start") = 3 /\ Rank("poll") = 2 /\ Rank("next") = 1
  OBVIOUS
<1>2. StepsInGroup = Rank(pc) /\ StepsInGroup' = Rank(pc')
  BY DEF StepsInGroup
<1> HIDE DEF Rank
<1>3. ASSUME TypeInv, GroupLeft, Body PROVE StepsLeft' < StepsLeft
  <2>1. wg_num \in Nat /\ tot_wgs \in Int /\ Groups \in Nat /\ pc # "idle"
    BY <1>3 DEF TypeInv, TypeOK, Body, Iterate, Return, ReadStatus, WriteArguments,
       ReadControl, LoadControl, StoreStart, Poll, NextGroup, Goto
  <2>2. StepsLeft = 8 * Groups + Rank(pc)
    BY <1>2, <2>1 DEF StepsLeft
  <2>3. StepsLeft' = IF pc' = "idle" THEN 0 ELSE 8 * Groups' + Rank(pc')
    BY <1>2 DEF StepsLeft
  <2>4. CASE NextGroup
    <3>1. pc = "next" /\ pc' = "test" /\ wg_num' = wg_num + 1 /\ tot_wgs' = tot_wgs
          /\ wg_num < tot_wgs
      BY <1>3, <2>4 DEF NextGroup, Goto, GroupLeft
    <3>2. Groups = tot_wgs - wg_num /\ Groups' = Groups - 1
      BY <2>1, <3>1
    <3>3. StepsLeft = 8 * Groups + 1 /\ StepsLeft' = 8 * (Groups - 1) + 8
      BY <1>1, <2>2, <2>3, <3>1, <3>2
    <3> HIDE DEF Groups
    <3> QED BY <2>1, <3>3
  <2>5. CASE ~NextGroup
    <3>1. /\ wg_num' = wg_num /\ tot_wgs' = tot_wgs
          /\ \/ pc' = "idle" /\ pc \in {"test", "start", "poll"}
             \/ pc = "test" /\ pc' \in {"status", "args"}
             \/ pc = "status" /\ pc' = "args"
             \/ pc = "args" /\ pc' = "check"
             \/ pc = "check" /\ pc' = "load"
             \/ pc = "load" /\ pc' = "start"
             \/ pc = "start" /\ pc' = "poll"
             \/ pc = "poll" /\ pc' = "next"
      BY <1>3, <2>5 DEF Body, Iterate, Return, ReadStatus, WriteArguments, ReadControl,
         LoadControl, StoreStart, Poll, Goto, drvVars
    <3>2. Groups' = Groups
      BY <3>1
    <3> HIDE DEF Groups
    <3> QED BY <1>1, <2>1, <2>2, <2>3, <3>1, <3>2
  <2> QED BY <2>4, <2>5
<1>4. TypeInv /\ GroupLeft /\ [Next]_vars => [Body => StepsLeft' < StepsLeft]_vars
  BY <1>3
<1> QED BY <1>4, GroupLeftInductive, PTL DEF Spec, LaunchAdvances
=============================================================================
