------------------------ MODULE LaunchPromiseProofs -------------------------
(***************************************************************************)
(* What a launch achieves: launchKernel runs every work item once, and the *)
(* driver with its accelerator implements LaunchPromise.                   *)
(***************************************************************************)
EXTENDS OpenCLDriverProofs, FiniteSetTheorems

(* Callers of launchKernel whose group size divides the range, of a volume  *)
(* that an int holds.                                                       *)
EveryRangeDivisible ==
  \A r \in Requests : r.kind = "launchKernel" => Divisible(r.nd, r.wg)

(* A group id is what its row-major position says.                          *)
LEMMA GroupOfIndex ==
  ASSUME NEW id \in Ids, NEW max \in Sizes, Inside(id, max)
  PROVE  GroupAt(Index(id, max), max) = id
<1> DEFINE x == id[1]  y == id[2]  z == id[3]  mx == max[1]  my == max[2]
           plane == my * z + y  i == Index(id, max)
<1>1. /\ x \in Nat /\ y \in Nat /\ z \in Nat /\ mx \in Nat \ {0} /\ my \in Nat \ {0}
      /\ x \in 0..(mx - 1) /\ y \in 0..(my - 1) /\ id = <<x, y, z>>
  BY DEF Ids, Sizes, Inside
<1>2. i = x + mx * y + mx * my * z
  BY DEF Index
<1> HIDE DEF x, y, z, mx, my, i
<1>3. my * z \in Nat /\ mx * my \in Nat \ {0} /\ mx * y \in Nat
  BY <1>1, ProductPositive, ProductMonotone
<1>4. plane \in Nat /\ plane % my = y
  <2>1. plane \in Nat
    BY <1>1, <1>3
  <2>2. (my * z + y) % my = y
    BY <1>1, RemainderUnique
  <2> QED BY <2>1, <2>2
<1>5. i = mx * plane + x
  BY <1>1, <1>2
<1>6. i % mx = x /\ i \div mx = plane
  <2> HIDE DEF plane
  <2> QED BY <1>1, <1>4, <1>5, RemainderUnique
<1>7. mx * y + x \in 0..(mx * my - 1)
  <2>1. (y + 1) * mx <= my * mx
    BY <1>1, ProductMonotone
  <2> QED BY <1>1, <1>3, <2>1
<1>8. i \div (mx * my) = z
  <2>1. i = (mx * my) * z + (mx * y + x)
    BY <1>1, <1>2
  <2> QED BY <1>1, <1>3, <1>7, <2>1, RemainderUnique
<1> QED BY <1>1, <1>4, <1>6, <1>8 DEF GroupAt, mx, my, i

(* For a range the group size divides, launchKernel counts the groups of    *)
(* the range, and every item lies in one of them.                           *)
LEMMA WholeCount ==
  ASSUME NEW nd \in Sizes, NEW wg \in Sizes, Divisible(nd, wg)
  PROVE  /\ MaxOf(nd, wg) \in Sizes
         /\ TotalOf(nd, wg) = Product(MaxOf(nd, wg))
         /\ \A item \in Items(nd) : GroupOf(item, wg) \in Ids
                                    /\ Inside(GroupOf(item, wg), MaxOf(nd, wg))
<1> DEFINE p1 == nd[1] \div wg[1]  p2 == nd[2] \div wg[2]  p3 == nd[3] \div wg[3]
           W == Product(wg)  P == Product(MaxOf(nd, wg))
<1>1. /\ nd[1] \in Nat \ {0} /\ nd[2] \in Nat \ {0} /\ nd[3] \in Nat \ {0}
      /\ wg[1] \in Nat \ {0} /\ wg[2] \in Nat \ {0} /\ wg[3] \in Nat \ {0}
  BY DEF Sizes
<1>2. nd[1] % wg[1] = 0 /\ nd[2] % wg[2] = 0 /\ nd[3] % wg[3] = 0
  BY DEF Divisible, Divides
<1>3. /\ p1 \in Nat \ {0} /\ nd[1] = p1 * wg[1]
      /\ p2 \in Nat \ {0} /\ nd[2] = p2 * wg[2]
      /\ p3 \in Nat \ {0} /\ nd[3] = p3 * wg[3]
  BY <1>1, <1>2, ExactQuotient
<1>4. MaxOf(nd, wg) = <<p1, p2, p3>> /\ MaxOf(nd, wg) \in Sizes
  BY <1>3, WholeFits DEF MaxOf, Divisible
<1>5. W = wg[1] * wg[2] * wg[3] /\ P = p1 * p2 * p3
      /\ Product(nd) = nd[1] * nd[2] * nd[3]
  BY <1>4 DEF Product
<1>6. TotalOf(nd, wg) = P
  <2>1. W \in Nat \ {0} /\ P \in Nat \ {0}
    BY <1>4, OriginIndex
  <2> HIDE DEF p1, p2, p3, W, P
  <2>2. Product(nd) = W * P + 0
    <3>1. Product(nd) = (p1 * wg[1]) * (p2 * wg[2]) * (p3 * wg[3])
      BY <1>3, <1>5, Zenon
    <3>2. (p1 * wg[1]) * (p2 * wg[2]) * (p3 * wg[3])
            = (wg[1] * wg[2] * wg[3]) * (p1 * p2 * p3)
      BY <1>1, <1>3
    <3>3. Product(nd) = W * P
      BY <1>5, <3>1, <3>2, Zenon
    <3>4. W * P \in Nat
      BY <2>1, ProductMonotone
    <3> QED BY <3>3, <3>4
  <2>3. W * P \in Nat
    BY <2>1, ProductMonotone
  <2>4. Wrap(Product(nd)) = W * P + 0
    BY <2>2, <2>3, IntMaxAssumption DEF Wrap, Divisible
  <2>5. (W * P + 0) \div W = P
    BY <2>1, RemainderUnique, 0 \in 0..(W - 1)
  <2> QED BY <2>4, <2>5 DEF TotalOf, W
<1>7. ASSUME NEW n \in Nat, NEW w \in Nat \ {0}, NEW p \in Nat, n < p * w
      PROVE  n \div w \in Nat /\ n \div w < p
  <2> DEFINE q == n \div w
  <2>1. q \in Nat /\ q * w <= n
    BY <1>7
  <2> HIDE DEF q
  <2>2. ~(p <= q)
    BY <1>7, <2>1, ProductMonotone
  <2> QED BY <1>7, <2>1, <2>2 DEF q
<1>8. ASSUME NEW item \in Items(nd)
      PROVE  GroupOf(item, wg) \in Ids /\ Inside(GroupOf(item, wg), MaxOf(nd, wg))
  <2>1. /\ item[1] \in Nat /\ item[1] < nd[1]
        /\ item[2] \in Nat /\ item[2] < nd[2]
        /\ item[3] \in Nat /\ item[3] < nd[3]
    BY <1>1 DEF Items
  <2>2. /\ item[1] \div wg[1] \in Nat /\ item[1] \div wg[1] < p1
        /\ item[2] \div wg[2] \in Nat /\ item[2] \div wg[2] < p2
        /\ item[3] \div wg[3] \in Nat /\ item[3] \div wg[3] < p3
    <3> HIDE DEF p1, p2, p3
    <3> QED BY <1>1, <1>3, <1>7, <2>1
  <2> QED BY <1>4, <2>2 DEF GroupOf, Ids, Inside
<1> QED BY <1>4, <1>6, <1>8

-----------------------------------------------------------------------------
(* launchKernel runs every item of its range once.                          *)

RangeOf(r) ==
  IF r.kind = "launchKernel" THEN MaxOf(r.nd, r.wg)
  ELSE IF r.kind = "ckernel" THEN <<1, 1, 1>>
  ELSE r.max

(* Groups of this call that were started, as wg_num counts them.            *)
Counted == wg_num + (IF pc \in {"poll", "next"} THEN 1 ELSE 0)

(* A launchKernel has all groups of the range to start, from the first one  *)
(* on, and counts the ones it has started.                                  *)
RangeInv ==
  /\ call # NoCall => call \in Requests /\ max_wg_id = RangeOf(call)
  /\ \A k \in 1..Len(starts) : Inside(starts[k], max_wg_id)
  /\ pc # "idle" /\ call.kind = "launchKernel" =>
       first = 0 /\ tot_wgs = Total /\ Len(starts) = Counted

LEMMA RangeLaunch ==
  ASSUME EveryRangeDivisible, LoopInv, RangeInv, Launch
  PROVE  RangeInv'
<1>1. ASSUME NEW r \in Requests,
             LaunchKernel(r) \/ LaunchWgs(r) \/ LaunchWg(r) \/ LaunchCKernel(r)
      PROVE  RangeInv'
  <2>1. starts' = << >> /\ call' = r /\ pc' \notin {"poll", "next"}
    BY <1>1 DEF LaunchKernel, LaunchWgs, LaunchWg, LaunchCKernel, Enter
  <2>2. max_wg_id' = RangeOf(r)
    BY <1>1 DEF LaunchKernel, LaunchWgs, LaunchWg, LaunchCKernel, Enter, RangeOf
  <2>3. CASE LaunchKernel(r)
    <3>1. tot_wgs' = Product(max_wg_id') /\ first' = 0 /\ wg_num' = 0
      BY <2>3, RequestFields, WholeCount DEF LaunchKernel, Enter, EveryRangeDivisible
    <3> QED BY <2>1, <2>2, <3>1 DEF RangeInv, RangeOf, Total, Counted
  <2>4. CASE ~LaunchKernel(r)
    <3>1. r.kind # "launchKernel"
      BY <1>1, <2>4 DEF LaunchWgs, LaunchWg, LaunchCKernel, Enter
    <3> QED BY <2>1, <2>2, <3>1 DEF RangeInv, RangeOf
  <2> QED BY <2>3, <2>4
<1>2. ASSUME ResumeWgs PROVE RangeInv'
  <2>1. UNCHANGED <<call, max_wg_id, starts>> /\ call.kind = "launchWgs"
    BY <1>2 DEF ResumeWgs, history
  <2> QED BY <2>1 DEF RangeInv, RangeOf
<1> QED BY <1>1, <1>2 DEF Launch

(* A step that starts nothing.                                              *)
LEMMA RangeWithin ==
  ASSUME RangeInv, UNCHANGED <<call, max_wg_id, tot_wgs, starts, first>>,
         \/ pc' = "idle"
         \/ pc # "idle" /\ Counted' = Counted
  PROVE  RangeInv'
<1>1. Total' = Total
  BY DEF Total
<1> QED BY <1>1 DEF RangeInv, RangeOf

LEMMA RangeStart ==
  ASSUME LoopInv, RangeInv, StoreStart PROVE RangeInv'
<1>1. /\ pc = "start" /\ pc' \in {"idle", "poll"}
      /\ UNCHANGED <<call, max_wg_id, tot_wgs, wg_num, first>>
      /\ starts' = Append(starts, wg_id)
  BY DEF StoreStart, Goto, drvVars
<1>2. starts \in Seq(Ids) /\ wg_id \in Ids /\ wg_num \in Nat
  BY DEF LoopInv, TypeInv, TypeOK
<1>3. Inside(wg_id, max_wg_id)
  <2>1. Position \in Nat /\ Total \in Nat /\ tot_wgs \in Int
    BY OriginIndex DEF LoopInv, TypeInv, TypeOK, Position, Total
  <2> QED BY <1>1, <1>2, <2>1 DEF LoopInv, BeforeStart, Ahead
<1>4. \A k \in 1..Len(starts') : Inside(starts'[k], max_wg_id')
  BY <1>1, <1>2, <1>3 DEF RangeInv
<1>5. Len(starts') = Len(starts) + 1
  BY <1>1, <1>2
<1>6. Total' = Total /\ (pc' = "poll" => Counted' = Counted + 1)
  BY <1>1, <1>2 DEF Total, Counted
<1> QED BY <1>1, <1>4, <1>5, <1>6 DEF RangeInv, RangeOf

LEMMA RangeStep ==
  ASSUME EveryRangeDivisible, LoopInv, RangeInv, [Next]_vars PROVE RangeInv'
<1> USE DEF drvVars, history, clientVars, Goto
<1>1. CASE Launch BY <1>1, RangeLaunch
<1>2. CASE Body
  <2>1. CASE StoreStart BY <2>1, RangeStart
  <2>2. CASE NextGroup
    <3>1. wg_num \in Nat
      BY DEF LoopInv, TypeInv, TypeOK
    <3> QED BY <2>2, <3>1, RangeWithin DEF NextGroup, Counted
  <2>3. CASE ~StoreStart /\ ~NextGroup
    <3> USE DEF Counted
    <3>1. CASE Iterate BY <3>1, RangeWithin DEF Iterate
    <3>2. CASE Return BY <3>2, RangeWithin DEF Return
    <3>3. CASE ReadStatus BY <3>3, RangeWithin DEF ReadStatus
    <3>4. CASE WriteArguments BY <3>4, RangeWithin DEF WriteArguments
    <3>5. CASE ReadControl BY <3>5, RangeWithin DEF ReadControl
    <3>6. CASE LoadControl BY <3>6, RangeWithin DEF LoadControl
    <3>7. CASE Poll BY <3>7, RangeWithin DEF Poll
    <3> QED BY <1>2, <2>3, <3>1, <3>2, <3>3, <3>4, <3>5, <3>6, <3>7 DEF Body
  <2> QED BY <2>1, <2>2, <2>3
<1>3. CASE Query
  <2>1. CASE IsDone \/ GetStatus
    BY <2>1, RangeWithin DEF IsDone, GetStatus
  <2>2. ASSUME NEW v \in StatusValues, SetStatus(v) PROVE RangeInv'
    <3>1. pc' = "idle" /\ UNCHANGED <<call, max_wg_id>>
      BY <2>2 DEF SetStatus
    <3>2. \/ starts' = << >> \/ starts' = starts
          \/ starts # << >> /\ starts' = <<starts[Len(starts)]>>
      BY <2>2 DEF SetStatus
    <3>3. starts \in Seq(Ids)
      BY DEF LoopInv, TypeInv, TypeOK
    <3>4. starts # << >> => Len(starts) \in 1..Len(starts)
      BY <3>3
    <3>5. \A k \in 1..Len(starts') : Inside(starts'[k], max_wg_id')
      BY <3>1, <3>2, <3>4 DEF RangeInv
    <3> QED BY <3>1, <3>5 DEF RangeInv, RangeOf
  <2> QED BY <1>3, <2>1, <2>2 DEF Query
<1>4. CASE HwBegin \/ HwFinish \/ UNCHANGED vars
  <2>1. UNCHANGED <<pc, call, max_wg_id, tot_wgs, wg_num, starts, first>>
    BY <1>4 DEF HwBegin, HwFinish, vars
  <2> QED BY <2>1, RangeWithin DEF Counted
<1> QED BY <1>1, <1>2, <1>3, <1>4 DEF Next

LEMMA RangeInductive ==
  ASSUME EveryRangeDivisible, CleanStart
  PROVE  Spec => [](LoopInv /\ DoneInv /\ RangeInv)
<1>1. Init => RangeInv
  BY DEF Init, RangeInv
<1>2. LoopInv /\ [Next]_vars => LoopInv'
  BY LoopLaunch, LoopBody, LoopQuery, LoopHardware
     DEF Next, EveryRangeDivisible, EveryRangeDivides, Divisible
<1>3. DoneInv /\ [Next]_vars => DoneInv'
  BY DoneLaunch, DoneBody, DoneQuery, DoneHardware DEF Next
<1>4. LoopInv /\ RangeInv /\ [Next]_vars => RangeInv'
  BY RangeStep
<1> QED BY <1>1, <1>2, <1>3, <1>4, LoopInit, DoneInit, PTL DEF Spec

(* When launchKernel returns, every work item of the range has been         *)
(* executed in exactly one of the runs of the accelerator, for ranges and   *)
(* group sizes of any size as long as the one divides the other.            *)
THEOREM ItemsRunOnce ==
  ASSUME EveryRangeDivisible, CleanStart
  PROVE  Spec => EveryItemOnce
<1> DEFINE Once ==
      Return /\ call.kind = "launchKernel" =>
        \A item \in Items(call.nd) :
          Cardinality({k \in 1..Len(log) : log[k].group = GroupOf(item, call.wg)}) = 1
<1>1. LoopInv /\ DoneInv /\ RangeInv => Once
  <2> SUFFICES ASSUME LoopInv, DoneInv, RangeInv, Return, call.kind = "launchKernel",
                      NEW item \in Items(call.nd)
               PROVE  Cardinality({k \in 1..Len(log) :
                                     log[k].group = GroupOf(item, call.wg)}) = 1
    OBVIOUS
  <2> DEFINE g == GroupOf(item, call.wg)  i == Index(g, max_wg_id) + 1
  <2>1. /\ pc = "test" /\ wg_num >= tot_wgs /\ call \in Requests
        /\ starts \in Seq(Ids) /\ max_wg_id \in Sizes /\ wg_num \in Nat
    BY DEF Return, Goto, LoopInv, TypeInv, TypeOK
  <2>2. max_wg_id = MaxOf(call.nd, call.wg) /\ first = 0 /\ tot_wgs = Total
        /\ Len(starts) = wg_num
    BY <2>1, RequestFields DEF RangeInv, RangeOf, Counted
  <2>3. Len(starts) = Total
    <3>1. Position <= Total /\ Position = Len(starts)
      BY <2>1, <2>2 DEF LoopInv, BeforeStart, Ahead, Position
    <3>2. Total \in Nat
      BY <2>1, OriginIndex DEF Total
    <3> QED BY <2>1, <2>2, <3>1, <3>2
  <2>4. Len(log) = Len(starts) /\ \A k \in 1..Len(log) : log[k].group = starts[k]
    <3>1. known # "looping" /\ Free
      BY <2>1 DEF DoneInv, Handshake, Preparing
    <3>2. Len(log) = Len(starts)
      BY <3>1 DEF DoneInv, LogInv
    <3>3. ASSUME NEW k \in 1..Len(log) PROVE log[k].group = starts[k]
      <4>1. log[k] = Job(starts[k], call.buf)
        BY DEF DoneInv, LogInv, LogOf
      <4>2. Job(starts[k], call.buf).group = starts[k]
        BY DEF Job
      <4> QED BY <4>1, <4>2
    <3> QED BY <3>2, <3>3
  <2>5. g \in Ids /\ Inside(g, max_wg_id)
    BY <2>1, <2>2, RequestFields, WholeCount DEF EveryRangeDivisible
  <2>6. i \in 1..Len(starts)
    BY <2>1, <2>3, <2>5, IndexBound, OriginIndex DEF Total
  <2>7. ASSUME NEW k \in 1..Len(starts)
        PROVE  starts[k] = g <=> k = i
    <3>1. /\ starts[k] \in Ids /\ Inside(starts[k], max_wg_id)
          /\ Index(starts[k], max_wg_id) = k - 1
      BY <2>1, <2>2 DEF LoopInv, InOrder, RangeInv
    <3>2. GroupAt(k - 1, max_wg_id) = starts[k] /\ GroupAt(i - 1, max_wg_id) = g
      <4>1. i - 1 = Index(g, max_wg_id)
        BY <2>1, <2>5, IndexBound
      <4> QED BY <2>1, <2>5, <3>1, <4>1, GroupOfIndex
    <3>3. k = i => starts[k] = g
      BY <3>2
    <3>4. starts[k] = g => k = i
      <4>1. Index(g, max_wg_id) \in Nat
        BY <2>1, <2>5, IndexBound
      <4> QED BY <3>1, <4>1
    <3> QED BY <3>3, <3>4
  <2>8. {k \in 1..Len(log) : log[k].group = g} = {i}
    <3> HIDE DEF i, g
    <3> QED BY <2>4, <2>6, <2>7
  <2> QED BY <2>8, FS_Singleton
<1>2. LoopInv /\ DoneInv /\ RangeInv /\ [Next]_vars => [Once]_vars
  BY <1>1
<1> QED BY <1>2, RangeInductive, PTL DEF Spec, EveryItemOnce

-----------------------------------------------------------------------------
(* The driver keeps the promise of LaunchPromise.                           *)

(* No program turns auto_restart on, under which jobs run that nobody has   *)
(* launched, and the groups of a partial launch are counted in an int.      *)
NoRestarts  == \A v \in StatusValues : ~v.auto
CountsFit   == \A r \in Requests : r.kind = "launchWgs" => Product(r.max) <= IntMax

(* The loop counts up to its bound and stops there; a launch without a loop *)
(* starts one job.                                                          *)
CountInv ==
  /\ known # "looping"
  /\ pc = "test" => wg_num <= tot_wgs
  /\ pc \in {"poll", "next"} => wg_num < tot_wgs
  /\ pc # "idle" /\ call.kind \in {"launchWg", "ckernel"} =>
       tot_wgs = 1 /\ wg_num = 0 /\ pc \notin {"test", "next"}

PromiseInv == LoopInv /\ DoneInv /\ RangeInv /\ CountInv

LEMMA PartialPositive ==
  ASSUME NEW id \in Ids, NEW max \in Sizes, Inside(id, max), Product(max) <= IntMax
  PROVE  PartialTotal(id, max) \in Nat \ {0}
<1> DEFINE a == max[1] - id[1]  b == max[2] - id[2]  c == max[3] - id[3]
<1>1. /\ a \in Nat \ {0} /\ b \in Nat \ {0} /\ c \in Nat \ {0}
      /\ max[1] \in Nat /\ max[2] \in Nat /\ max[3] \in Nat
      /\ a <= max[1] /\ b <= max[2] /\ c <= max[3]
  BY DEF Ids, Sizes, Inside
<1>2. PartialTotal(id, max) = Wrap(a * b * c)
  BY DEF PartialTotal
<1> HIDE DEF a, b, c
<1>3. a * b \in Nat \ {0} /\ (a * b) * c \in Nat \ {0}
  <2>1. a * b \in Nat \ {0}
    BY <1>1, ProductPositive
  <2> QED BY <1>1, <2>1, ProductPositive
<1>4. (a * b) * c <= Product(max)
  <2>1. a * b <= max[1] * b /\ b * max[1] <= max[2] * max[1] /\ max[1] * max[2] \in Nat
    BY <1>1, ProductMonotone
  <2>2. a * b <= max[1] * max[2]
    <3>1. max[1] * b = b * max[1] /\ max[2] * max[1] = max[1] * max[2]
          /\ max[1] * b \in Nat
      BY <1>1
    <3> QED BY <1>3, <2>1, <3>1
  <2>3. (a * b) * c <= (max[1] * max[2]) * c /\ (max[1] * max[2]) * c \in Nat
    BY <1>1, <1>3, <2>1, <2>2, ProductMonotone
  <2>4. c * (max[1] * max[2]) <= max[3] * (max[1] * max[2])
    BY <1>1, <2>1, ProductMonotone
  <2>5. c * (max[1] * max[2]) = (max[1] * max[2]) * c
        /\ max[3] * (max[1] * max[2]) = max[1] * max[2] * max[3]
        /\ max[1] * max[2] * max[3] \in Nat
    BY <1>1, <2>1
  <2> QED BY <1>3, <2>3, <2>4, <2>5 DEF Product
<1>5. a * b * c <= IntMax
  <2>1. Product(max) \in Nat
    BY OriginIndex
  <2> QED BY <1>3, <1>4, <2>1, IntMaxAssumption
<1> QED BY <1>2, <1>3, <1>5, IntMaxAssumption DEF Wrap

LEMMA CountLaunch ==
  ASSUME EveryRangeDivisible, CountsFit, LoopInv, RangeInv, CountInv, Launch
  PROVE  CountInv' /\ tot_wgs' \in Nat \ {0} /\ wg_num' = 0
<1>1. known' = known /\ pc' \in {"test", "args", "status"} /\ wg_num' = 0
  BY DEF Launch, LaunchKernel, LaunchWgs, LaunchWg, LaunchCKernel, ResumeWgs, Enter
<1>2. ASSUME NEW r \in Requests, LaunchKernel(r)
      PROVE  tot_wgs' \in Nat \ {0} /\ call'.kind \notin {"launchWg", "ckernel"}
  <2>1. MaxOf(r.nd, r.wg) \in Sizes /\ tot_wgs' = Product(MaxOf(r.nd, r.wg))
        /\ call' = r /\ r.kind = "launchKernel"
    BY <1>2, RequestFields, WholeCount DEF LaunchKernel, Enter, EveryRangeDivisible
  <2> QED BY <2>1, OriginIndex
<1>3. ASSUME NEW r \in Requests, LaunchWgs(r)
      PROVE  tot_wgs' \in Nat \ {0} /\ call'.kind \notin {"launchWg", "ckernel"}
  BY <1>3, RequestFields, PartialPositive DEF LaunchWgs, Enter, CountsFit
<1>4. ASSUME NEW r \in Requests, LaunchWg(r) \/ LaunchCKernel(r)
      PROVE  tot_wgs' = 1 /\ pc' # "test"
  BY <1>4 DEF LaunchWg, LaunchCKernel, Enter
<1>5. ASSUME ResumeWgs
      PROVE  tot_wgs' \in Nat \ {0} /\ call'.kind \notin {"launchWg", "ckernel"}
  <2>1. /\ pc = "idle" /\ call # NoCall /\ call.kind = "launchWgs" /\ call' = call
        /\ starts # << >> /\ Position < Total
        /\ tot_wgs' = PartialTotal(wg_id, max_wg_id)
    BY <1>5 DEF ResumeWgs, Position, Total
  <2>2. wg_id \in Ids /\ max_wg_id \in Sizes /\ Inside(wg_id, max_wg_id)
    BY <2>1 DEF LoopInv, TypeInv, TypeOK, BetweenCalls, Ahead
  <2>3. Product(max_wg_id) <= IntMax
    BY <2>1 DEF RangeInv, RangeOf, CountsFit
  <2> QED BY <2>1, <2>2, <2>3, PartialPositive
<1> QED BY <1>1, <1>2, <1>3, <1>4, <1>5 DEF Launch, CountInv

LEMMA CountStep ==
  ASSUME EveryRangeDivisible, CountsFit, NoRestarts, LoopInv, RangeInv, CountInv, [Next]_vars
  PROVE  CountInv'
<1> USE DEF CountInv, drvVars, clientVars, Goto
<1>1. CASE Launch BY <1>1, CountLaunch
<1>2. CASE Body
  <2>1. wg_num \in Nat /\ tot_wgs \in Int
    BY DEF LoopInv, TypeInv, TypeOK
  <2>2. pc \in {"status", "args", "check", "load", "start"} => wg_num < tot_wgs
    BY DEF LoopInv, BeforeStart
  <2>3. CASE Iterate BY <2>3 DEF Iterate
  <2>4. CASE Return BY <2>4 DEF Return
  <2>5. CASE ReadStatus BY <2>5 DEF ReadStatus
  <2>6. CASE WriteArguments BY <2>6 DEF WriteArguments
  <2>7. CASE ReadControl BY <2>7 DEF ReadControl
  <2>8. CASE LoadControl BY <2>8 DEF LoadControl
  <2>9. CASE StoreStart BY <2>2, <2>9 DEF StoreStart
  <2>10. CASE Poll BY <2>10 DEF Poll
  <2>11. CASE NextGroup BY <2>1, <2>11 DEF NextGroup
  <2> QED BY <1>2, <2>3, <2>4, <2>5, <2>6, <2>7, <2>8, <2>9, <2>10, <2>11 DEF Body
<1>3. CASE Query
  BY <1>3 DEF Query, IsDone, GetStatus, SetStatus, NoRestarts
<1>4. CASE HwBegin \/ HwFinish \/ UNCHANGED vars
  BY <1>4 DEF HwBegin, HwFinish, vars
<1> QED BY <1>1, <1>2, <1>3, <1>4 DEF Next

(* The jobs a launch accepts are among those the abstract specification     *)
(* allows.                                                                  *)
LEMMA JobInRange ==
  ASSUME NEW r \in Requests, NEW i \in Nat, i < Product(RangeOf(r))
  PROVE  Job(GroupAt(i, RangeOf(r)), r.buf) \in AllJobs
<1> DEFINE JobsOf(m) == {Job(GroupAt(j, m), r.buf) : j \in 0..(Product(m) - 1)}
<1>1. \A m \in {r.max, MaxOf(r.nd, r.wg)} : JobsOf(m) \subseteq AllJobs
  BY DEF AllJobs
<1>2. CASE r.kind # "ckernel"
  <2>1. RangeOf(r) \in {r.max, MaxOf(r.nd, r.wg)}
    BY <1>2 DEF RangeOf
  <2>2. Product(RangeOf(r)) \in Int
    BY <1>2, RequestFields, RangeTypes DEF RangeOf, Product, Sizes, Ids
  <2>3. i \in 0..(Product(RangeOf(r)) - 1)
    BY <2>2
  <2>4. Job(GroupAt(i, RangeOf(r)), r.buf) \in JobsOf(RangeOf(r))
    BY <2>3
  <2> QED BY <1>1, <2>1, <2>4
<1>3. CASE r.kind = "ckernel"
  <2> DEFINE one == <<1, 1, 1>>
  <2>1. RangeOf(r) = one /\ Product(one) = 1 /\ i = 0
    BY <1>3 DEF RangeOf, Product
  <2>2. /\ Index(<<0, 0, 0>>, one) = 0 /\ Inside(<<0, 0, 0>>, one) /\ one \in Sizes
        /\ Index(<<0, 0, 0>>, r.max) = 0 /\ Inside(<<0, 0, 0>>, r.max) /\ r.max \in Sizes
        /\ Product(r.max) \in Nat \ {0} /\ <<0, 0, 0>> \in Ids
    <3>1. one \in Sizes /\ <<0, 0, 0>> \in Ids /\ r.max \in Sizes
      BY RequestFields DEF Sizes, Ids
    <3> QED BY <3>1, OriginIndex
  <2>3. GroupAt(i, RangeOf(r)) = <<0, 0, 0>> /\ GroupAt(0, r.max) = <<0, 0, 0>>
    <3> HIDE DEF one
    <3> QED BY <2>1, <2>2, GroupOfIndex
  <2>4. 0 \in 0..(Product(r.max) - 1)
    BY <2>2
  <2>5. Job(GroupAt(0, r.max), r.buf) \in JobsOf(r.max)
    BY <2>4
  <2> QED BY <1>1, <2>3, <2>5
<1> QED BY <1>2, <1>3

(* What the refinement mapping gives for todo and async.                    *)
Left  == Len(starts) + ToStart - Len(log)
Todo  == [k \in 1..Left |-> Job(GroupAt(first + Len(log) + k - 1, max_wg_id), call.buf)]
Async == IF call = NoCall THEN FALSE ELSE call.kind = "launchWg" /\ ~call.blocking

LEMMA RangeProduct ==
  ASSUME NEW r \in Requests
  PROVE  Product(RangeOf(r)) \in Int
<1>1. RangeOf(r) \in Ids
  <2>1. <<1, 1, 1>> \in Ids
    BY DEF Ids
  <2> QED BY <2>1, RequestFields, RangeTypes DEF RangeOf
<1> DEFINE max == RangeOf(r)
<1>2. max[1] \in Nat /\ max[2] \in Nat /\ max[3] \in Nat
  BY <1>1 DEF Ids
<1> HIDE DEF max
<1>3. max[1] * max[2] * max[3] \in Int
  BY <1>2
<1> QED BY <1>3 DEF Product, max

LEMMA AcceptStep ==
  ASSUME pc = "idle", Left = 0, Left' \in Nat \ {0},
         call' \in Requests, max_wg_id' = RangeOf(call'),
         log' = << >> \/ log' = log, (first + Len(log))' \in Nat,
         (first + Len(log))' + Left' <= Product(RangeOf(call'))
  PROVE  Promise!Accept
<1>1. Todo = << >>
  BY DEF Todo
<1>2. Todo' # << >> /\ Todo' \in Seq(AllJobs)
  <2> DEFINE place == (first + Len(log))'
  <2>1. Todo' = [k \in 1..Left' |-> Job(GroupAt(place + k - 1, RangeOf(call')), call'.buf)]
    BY DEF Todo, Job, GroupAt, InPtr, OutPtr
  <2>2. Product(RangeOf(call')) \in Int
    BY RangeProduct
  <2> HIDE DEF place
  <2>3. ASSUME NEW k \in 1..Left'
        PROVE  Job(GroupAt(place + k - 1, RangeOf(call')), call'.buf) \in AllJobs
    <3>1. place + k - 1 \in Nat /\ place + k - 1 < Product(RangeOf(call'))
      BY <2>2 DEF place
    <3> QED BY <3>1, JobInRange
  <2>4. Todo' \in [1..Left' -> AllJobs]
    BY <2>1, <2>3
  <2>5. Todo' \in Seq(AllJobs) /\ Len(Todo') = Left'
    BY <2>4, SeqDef
  <2> QED BY <2>5
<1>3. Async' \in BOOLEAN
  BY DEF Async
<1>4. AllJobs' = AllJobs
  BY DEF AllJobs, Job, InPtr, OutPtr, GroupAt
<1> QED BY <1>1, <1>2, <1>3, <1>4 DEF Promise!Accept, Todo, Left, Async

(* A step the abstract specification does not see.                          *)
LEMMA StutterStep ==
  ASSUME UNCHANGED <<call, max_wg_id, first, log, Left>>, pc = "idle" <=> pc' = "idle"
  PROVE  UNCHANGED <<pc # "idle", Async, Todo, log>>
<1>1. Todo' = Todo
  BY DEF Todo, Job, GroupAt, InPtr, OutPtr
<1>2. Async' = Async
  BY DEF Async
<1> QED BY <1>1, <1>2

LEMMA ReturnStep ==
  ASSUME UNCHANGED <<call, max_wg_id, first, log, Left>>, pc # "idle", pc' = "idle",
         Async \/ Left = 0
  PROVE  Promise!Return
<1>1. Todo' = Todo
  BY DEF Todo, Job, GroupAt, InPtr, OutPtr
<1>2. Async' = Async
  BY DEF Async
<1>3. Left = 0 => Todo = << >>
  BY DEF Todo
<1> QED BY <1>1, <1>2, <1>3 DEF Promise!Return, Todo, Left, Async

LEMMA PromiseLaunch ==
  ASSUME EveryRangeDivisible, CountsFit, PromiseInv, Launch, PromiseInv'
  PROVE  Promise!Accept
<1>1. pc = "idle" /\ known = "free" /\ pc' \in {"test", "args", "status"}
  BY DEF Launch, LaunchKernel, LaunchWgs, LaunchWg, LaunchCKernel, ResumeWgs, Enter
<1>2. Len(log) = Len(starts) /\ starts \in Seq(Ids)
  BY <1>1 DEF PromiseInv, DoneInv, Handshake, TypeInv, TypeOK, LogInv
<1>3. Left = 0
  BY <1>1, <1>2 DEF Left, ToStart
<1>4. tot_wgs' \in Nat \ {0} /\ wg_num' = 0
  BY CountLaunch DEF PromiseInv
<1>5. \/ starts' = << >> /\ log' = << >>
      \/ starts' = starts /\ log' = log
  BY DEF Launch, LaunchKernel, LaunchWgs, LaunchWg, LaunchCKernel, ResumeWgs, Enter, history
<1>6. Left' = tot_wgs' /\ Len(starts') = Len(log')
  <2>1. Left' = Len(starts') + ToStart' - Len(log') /\ ToStart' = tot_wgs' - wg_num'
    BY <1>1 DEF Left, ToStart
  <2>2. Len(starts') = Len(log') /\ Len(starts') \in Nat
    BY <1>2, <1>5
  <2> QED BY <1>4, <2>1, <2>2
<1>7. call' \in Requests /\ max_wg_id' = RangeOf(call')
  <2>1. call' \in Requests
    BY <1>1 DEF PromiseInv, LoopInv, TypeInv
  <2>2. call' # NoCall
    BY <2>1, RequestFields
  <2>3. (call # NoCall => max_wg_id = RangeOf(call))'
    BY DEF PromiseInv, RangeInv
  <2>4. (RangeOf(call))' = RangeOf(call')
    BY DEF RangeOf
  <2> QED BY <2>1, <2>2, <2>3, <2>4
<1>8. first' \in Nat /\ Len(starts') \in Nat
  BY DEF PromiseInv, LoopInv, TypeInv, TypeOK
<1>9. first' + Len(starts') + tot_wgs' <= Product(max_wg_id')
  <2>1. (Position + tot_wgs - wg_num <= Total)'
    BY <1>1 DEF PromiseInv, LoopInv, BeforeStart
  <2>2. Position' = first' + Len(starts') /\ Total' = Product(max_wg_id')
    BY DEF Position, Total
  <2> QED BY <1>4, <1>8, <2>1, <2>2
<1> QED BY <1>1, <1>3, <1>4, <1>5, <1>6, <1>7, <1>8, <1>9, AcceptStep

LEMMA PromiseBody ==
  ASSUME PromiseInv, Body
  PROVE  Promise!Return \/ UNCHANGED <<pc # "idle", Async, Todo, log>>
<1> USE DEF drvVars, history, Goto
<1>1. /\ starts \in Seq(Ids) /\ Len(starts) \in Nat /\ wg_num \in Nat /\ tot_wgs \in Int
      /\ wg_id \in Ids /\ call \in Requests \cup {NoCall}
      /\ pc # "idle" => call \in Requests
  BY DEF PromiseInv, LoopInv, TypeInv, TypeOK
<1>2. Len(log) \in Nat
  BY DEF PromiseInv, DoneInv, LogInv, LogOf
<1>3. Free => Len(log) = Len(starts)
  BY DEF PromiseInv, DoneInv, LogInv, CountInv
<1>4. CASE Return
  <2>1. Left = 0 /\ Left' = 0
    BY <1>1, <1>2, <1>3, <1>4
       DEF Return, PromiseInv, DoneInv, Handshake, Preparing, CountInv, Left, ToStart
  <2> QED BY <1>4, <2>1, ReturnStep DEF Return
<1>5. CASE StoreStart
  <2>1. Len(starts') = Len(starts) + 1
    BY <1>1, <1>5 DEF StoreStart
  <2>2. CASE pc' = "poll"
    <3>1. Left' = Left
      BY <1>1, <1>2, <1>5, <2>1, <2>2 DEF StoreStart, Left, ToStart
    <3> QED BY <1>5, <2>2, <3>1, StutterStep DEF StoreStart
  <2>3. CASE pc' # "poll"
    <3>1. pc' = "idle" /\ call.kind = "launchWg" /\ ~call.blocking /\ call # NoCall
      BY <1>1, <1>5, <2>3, RequestFields DEF StoreStart
    <3>2. Left' = Left
      BY <1>1, <1>2, <1>5, <2>1, <3>1
         DEF StoreStart, PromiseInv, CountInv, Left, ToStart
    <3> QED BY <1>5, <3>1, <3>2, ReturnStep DEF StoreStart, Async
  <2> QED BY <2>2, <2>3
<1>6. CASE Poll
  <2>1. Len(log) = Len(starts)
    BY <1>3, <1>6 DEF Poll, PromiseInv, DoneInv, Handshake
  <2>2. CASE pc' = "next"
    <3>1. Left' = Left
      BY <1>6, <2>2 DEF Poll, Left, ToStart
    <3> QED BY <1>6, <2>2, <3>1, StutterStep DEF Poll
  <2>3. CASE pc' # "next"
    <3>1. pc' = "idle" /\ call.kind \in {"launchWg", "ckernel"}
      BY <1>1, <1>6, <2>3, RequestFields DEF Poll, Kinds
    <3>2. Left = 0 /\ Left' = 0
      BY <1>1, <1>2, <1>6, <2>1, <3>1 DEF Poll, PromiseInv, CountInv, Left, ToStart
    <3> QED BY <1>6, <3>1, <3>2, ReturnStep DEF Poll
  <2> QED BY <2>2, <2>3
<1>7. CASE NextGroup
  <2>1. Left' = Left
    BY <1>1, <1>2, <1>7 DEF NextGroup, Left, ToStart
  <2> QED BY <1>7, <2>1, StutterStep DEF NextGroup
<1>8. CASE Iterate \/ ReadStatus \/ WriteArguments \/ ReadControl \/ LoadControl
  <2>1. /\ UNCHANGED <<call, max_wg_id, first, log, starts, tot_wgs, wg_num>>
        /\ pc \in {"test", "status", "args", "check", "load"}
        /\ pc' \in {"status", "args", "check", "load", "start"}
    BY <1>8 DEF Iterate, ReadStatus, WriteArguments, ReadControl, LoadControl
  <2>2. Left' = Left
    BY <2>1 DEF Left, ToStart
  <2> QED BY <2>1, <2>2, StutterStep
<1> QED BY <1>4, <1>5, <1>6, <1>7, <1>8 DEF Body

LEMMA PromiseQuery ==
  ASSUME NoRestarts, PromiseInv, Query, PromiseInv'
  PROVE  Promise!Accept \/ UNCHANGED <<pc # "idle", Async, Todo, log>>
<1> USE DEF drvVars, history
<1>1. CASE IsDone \/ GetStatus
  <2>1. UNCHANGED <<pc, call, max_wg_id, first, log, starts, tot_wgs, wg_num>>
    BY <1>1 DEF IsDone, GetStatus
  <2>2. Left' = Left
    BY <2>1 DEF Left, ToStart
  <2> QED BY <2>1, <2>2, StutterStep
<1>2. ASSUME NEW v \in StatusValues, SetStatus(v)
      PROVE  Promise!Accept \/ UNCHANGED <<pc # "idle", Async, Todo, log>>
  <2>1. ~v.auto /\ v.start \in BOOLEAN
    BY BoundAssumption DEF NoRestarts
  <2>2. UNCHANGED <<pc, call, max_wg_id, tot_wgs, wg_num>> /\ pc = "idle"
    BY <1>2 DEF SetStatus
  <2>3. CASE ~v.start
    <3>1. UNCHANGED <<starts, first, log>>
      BY <1>2, <2>1, <2>3 DEF SetStatus
    <3>2. Left' = Left
      BY <2>2, <3>1 DEF Left, ToStart
    <3> QED BY <2>2, <3>1, <3>2, StutterStep
  <2>4. CASE v.start
    <3> DEFINE last == starts[Len(starts)]
    <3>1. /\ known = "free" /\ starts # << >> /\ starts' = <<last>> /\ log' = << >>
          /\ first' = Index(last, max_wg_id)
      BY <1>2, <2>1, <2>4 DEF SetStatus
    <3>2. /\ starts \in Seq(Ids) /\ Len(starts) \in 1..Len(starts) /\ last \in Ids
          /\ max_wg_id \in Sizes
      BY <3>1 DEF PromiseInv, LoopInv, TypeInv, TypeOK
    <3>3. Inside(last, max_wg_id)
      BY <3>2 DEF PromiseInv, RangeInv
    <3>4. call \in Requests /\ max_wg_id = RangeOf(call)
      BY <3>1, RequestFields DEF PromiseInv, RangeInv, DoneInv, LogInv
    <3>5. Len(log) = Len(starts)
      BY <2>2, <3>1 DEF PromiseInv, DoneInv, Handshake, LogInv
    <3>6. Left = 0
      BY <2>2, <3>2, <3>5 DEF Left, ToStart
    <3>7. Len(starts') = 1 /\ Len(log') = 0
      BY <3>1
    <3>8. Left' = 1
      BY <2>2, <3>7 DEF Left, ToStart
    <3>9. first' \in Nat /\ first' < Product(max_wg_id)
      BY <3>1, <3>2, <3>3, IndexBound
    <3>10. (first + Len(log))' = first'
      <4>1. (first + Len(log))' = first' + Len(log')
        OBVIOUS
      <4>2. \A n \in Nat : n + 0 = n
        OBVIOUS
      <4>3. first' + 0 = first'
        BY <3>9, <4>2, Zenon
      <4> QED BY <3>7, <4>1, <4>3, Zenon
    <3>11. first' + Left' <= Product(RangeOf(call'))
      <4>1. Product(max_wg_id) \in Nat
        BY <3>2, OriginIndex
      <4> QED BY <2>2, <3>4, <3>8, <3>9, <4>1
    <3> QED BY <2>2, <3>1, <3>4, <3>6, <3>8, <3>9, <3>10, <3>11, AcceptStep
  <2> QED BY <2>1, <2>3, <2>4
<1> QED BY <1>1, <1>2 DEF Query

LEMMA PromiseFinish ==
  ASSUME PromiseInv, HwFinish
  PROVE  Promise!Complete
<1>1. /\ UNCHANGED <<pc, call, max_wg_id, tot_wgs, wg_num, starts, first>>
      /\ log' = Append(log, running) /\ running # NoJob
  BY DEF HwFinish, drvVars, PromiseInv, CountInv
<1>2. /\ starts \in Seq(Ids) /\ first \in Nat /\ max_wg_id \in Sizes
      /\ wg_num \in Nat /\ tot_wgs \in Int
  BY DEF PromiseInv, LoopInv, TypeInv, TypeOK
<1>3. /\ log \in Seq(AnyJob) /\ Len(log) + 1 = Len(starts) /\ running = LastJob
      /\ Len(log) \in Nat
  BY <1>1 DEF PromiseInv, CountInv, DoneInv, LogInv, LogOf, Free
<1>4. ToStart \in Nat
  <2>1. pc \in {"idle", "poll"}
    BY <1>1 DEF PromiseInv, DoneInv, Handshake, TypeInv, TypeOK, States, Preparing, Free
  <2> QED BY <1>2, <2>1 DEF PromiseInv, CountInv, ToStart
<1>5. Left = ToStart + 1 /\ Len(log') = Len(log) + 1
  BY <1>1, <1>3, <1>4 DEF Left
<1>6. Left' = ToStart
  <2>1. ToStart' = ToStart
    BY <1>1 DEF ToStart
  <2>2. Left' = Len(starts') + ToStart' - Len(log')
    BY DEF Left
  <2> QED BY <1>1, <1>3, <1>4, <1>5, <2>1, <2>2
<1>7. running = Job(GroupAt(first + Len(log), max_wg_id), call.buf)
  <2> DEFINE last == starts[Len(starts)]
  <2>1. /\ Len(starts) \in 1..Len(starts) /\ last \in Ids /\ Inside(last, max_wg_id)
        /\ Index(last, max_wg_id) = first + Len(starts) - 1
    BY <1>2, <1>3 DEF PromiseInv, LoopInv, InOrder, RangeInv
  <2>2. first + Len(starts) - 1 = first + Len(log)
    BY <1>2, <1>3
  <2>3. GroupAt(first + Len(log), max_wg_id) = last
    BY <1>2, <2>1, <2>2, GroupOfIndex
  <2> QED BY <1>3, <2>3 DEF LastJob
<1> DEFINE job(k) == Job(GroupAt(first + Len(log) + k - 1, max_wg_id), call.buf)
<1>8. Todo = [k \in 1..(ToStart + 1) |-> job(k)]
  BY <1>5 DEF Todo
<1>9. Todo' = [k \in 1..ToStart |-> job(k + 1)]
  <2>1. ASSUME NEW k \in 1..ToStart
        PROVE  (first + Len(log))' + k - 1 = first + Len(log) + (k + 1) - 1
    BY <1>1, <1>2, <1>3, <1>4, <1>5
  <2>2. Todo' = [k \in 1..ToStart |->
                   Job(GroupAt((first + Len(log))' + k - 1, max_wg_id), call.buf)]
    BY <1>1, <1>6 DEF Todo, Job, GroupAt, InPtr, OutPtr
  <2> QED BY <2>1, <2>2
<1>10. job(1) = running
  <2>1. first + Len(log) + 1 - 1 = first + Len(log)
    BY <1>2, <1>3
  <2> QED BY <1>7, <2>1
<1>11. /\ Todo # << >> /\ Head(Todo) = running
       /\ Tail(Todo) = [k \in 1..ToStart |-> job(k + 1)]
  <2> HIDE DEF job
  <2>1. Todo \in Seq({job(k) : k \in 1..(ToStart + 1)}) /\ Len(Todo) = ToStart + 1
    BY <1>4, <1>8, SeqDef
  <2>2. Todo # << >> /\ Head(Todo) = Todo[1] /\ Todo[1] = job(1)
    BY <1>4, <1>8, <2>1
  <2> DEFINE S == {job(k) : k \in 1..(ToStart + 1)}  rest == Tail(Todo)
  <2>3. /\ rest \in Seq(S) /\ Len(rest) = Len(Todo) - 1
        /\ \A k \in 1..Len(rest) : rest[k] = Todo[k + 1]
    <3> HIDE DEF S
    <3>1. Todo \in Seq(S)
      BY <2>1 DEF S
    <3> QED BY <2>2, <3>1, HeadTailProperties
  <2>4. Len(rest) = ToStart
    BY <1>4, <2>1, <2>3
  <2>5. ASSUME NEW k \in 1..ToStart PROVE rest[k] = job(k + 1)
    <3>1. k + 1 \in 1..(ToStart + 1)
      BY <1>4
    <3> QED BY <1>8, <2>3, <2>4, <3>1
  <2>6. rest = [k \in 1..Len(rest) |-> rest[k]]
    <3> HIDE DEF S, rest
    <3> QED BY <2>3
  <2>7. rest = [k \in 1..ToStart |-> job(k + 1)]
    <3> HIDE DEF rest
    <3> QED BY <2>4, <2>5, <2>6
  <2> QED BY <1>10, <2>2, <2>7
<1>12. UNCHANGED <<pc # "idle", Async>>
  BY <1>1 DEF Async
<1> QED BY <1>1, <1>9, <1>11, <1>12 DEF Promise!Complete, Todo, Left, Async

(* The driver and the accelerator implement LaunchPromise: a launch accepts *)
(* its jobs when it is called, the accelerator completes them in that order *)
(* with the arguments of the call, and a call that blocks returns when none *)
(* is left.                                                                 *)
THEOREM PromiseKept ==
  ASSUME EveryRangeDivisible, CountsFit, NoRestarts, CleanStart
  PROVE  Spec => ImplementsPromise
<1>1. Init => Promise!Init
  <2> SUFFICES ASSUME Init PROVE Promise!Init
    OBVIOUS
  <2>1. pc = "idle" /\ call = NoCall /\ starts = << >> /\ log = << >>
    BY DEF Init
  <2>2. ToStart = 0 /\ Len(starts) = 0 /\ Len(log) = 0
    BY <2>1 DEF ToStart
  <2>3. Todo = << >> /\ Async = FALSE
    BY <2>1, <2>2 DEF Todo, Left, Async
  <2> QED BY <2>1, <2>3 DEF Promise!Init, Todo, Left, Async
<1>2. PromiseInv /\ PromiseInv' /\ [Next]_vars
        => [Promise!Next]_<<pc # "idle", Async, Todo, log>>
  <2> SUFFICES ASSUME PromiseInv, PromiseInv', [Next]_vars
               PROVE  Promise!Next \/ UNCHANGED <<pc # "idle", Async, Todo, log>>
    OBVIOUS
  <2>1. CASE Launch BY <2>1, PromiseLaunch DEF Promise!Next
  <2>2. CASE Body BY <2>2, PromiseBody DEF Promise!Next
  <2>3. CASE Query BY <2>3, PromiseQuery DEF Promise!Next
  <2>4. CASE HwFinish BY <2>4, PromiseFinish DEF Promise!Next
  <2>5. CASE HwBegin \/ UNCHANGED vars
    <3>1. UNCHANGED <<pc, call, max_wg_id, first, log, starts, tot_wgs, wg_num>>
      BY <2>5 DEF HwBegin, vars, drvVars, history
    <3>2. Left' = Left
      BY <3>1 DEF Left, ToStart
    <3> QED BY <3>1, <3>2, StutterStep
  <2> QED BY <2>1, <2>2, <2>3, <2>4, <2>5 DEF Next
<1>3. Init => CountInv
  BY DEF Init, CountInv
<1>4. LoopInv /\ RangeInv /\ CountInv /\ [Next]_vars => CountInv'
  BY CountStep
<1>5. Spec => []PromiseInv
  <2>1. Spec => [](LoopInv /\ DoneInv /\ RangeInv)
    BY RangeInductive
  <2>2. Spec => []CountInv
    BY <1>3, <1>4, <2>1, PTL DEF Spec
  <2> QED BY <2>1, <2>2, PTL DEF PromiseInv
<1> QED BY <1>1, <1>2, <1>5, PTL DEF Spec, ImplementsPromise, Promise!Spec, Todo, Left, Async
=============================================================================
