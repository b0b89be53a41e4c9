------------------------- MODULE FrameAddressProofs -------------------------
(***************************************************************************)
(* For every device table: the address of a walk stays in its types, each  *)
(* step moves the position up by one, and the counters kept on the way are *)
(* those that a scan of the columns finds.  For tables whose numbers add   *)
(* up, rows are full and the two sections apart.                           *)
(***************************************************************************)
EXTENDS FrameAddress, NatLemmas, TLAPS

-----------------------------------------------------------------------------
(* Sums over the kinds.                                                     *)

LEMMA OneMore ==
  ASSUME NEW a \in Nat, NEW f \in Nat
  PROVE  a * f \in Nat /\ (a + 1) * f = a * f + f
OBVIOUS

CountUp(n, kind) == [k \in Counted |-> IF k = kind THEN n[k] + 1 ELSE n[k]]

LEMMA Positions ==
  ASSUME NEW n \in [Counted -> Nat]
  PROVE  Weighted(n) \in Nat /\ Total(n) \in Nat
<1> DEFINE w(k) == n[k] * Frames[k]
<1>1. \A k \in Counted : w(k) \in Nat
  BY FramesAssumption, OneMore
<1>2. Weighted(n) = w("R") + w("B") + w("M") + w("D") + w("s") + w("P") + w("I")
                    + w("m") + w("F") + w("V")
  BY DEF Weighted
<1>3. Weighted(n) \in Nat
  <2> HIDE DEF w
  <2> QED BY <1>1, <1>2 DEF Counted
<1> QED BY <1>3 DEF Total, Counted

(* Counting a column up adds its frames, and one column.                    *)
LEMMA SumsCountUp ==
  ASSUME NEW n \in [Counted -> Nat], NEW kind \in Counted
  PROVE  /\ Weighted(CountUp(n, kind)) = Weighted(n) + Frames[kind]
         /\ Total(CountUp(n, kind)) = Total(n) + 1
<1> DEFINE up == CountUp(n, kind)
           w(k) == n[k] * Frames[k]
           w2(k) == up[k] * Frames[k]
<1>1. ASSUME NEW k \in Counted
      PROVE  /\ w(k) \in Nat /\ w2(k) = w(k) + (IF k = kind THEN Frames[k] ELSE 0)
             /\ up[k] = n[k] + (IF k = kind THEN 1 ELSE 0)
  BY FramesAssumption, OneMore DEF CountUp
<1>2. \A k \in Counted : n[k] \in Nat /\ Frames[k] \in Nat
  BY FramesAssumption
<1>3. Weighted(up) = w2("R") + w2("B") + w2("M") + w2("D") + w2("s") + w2("P") + w2("I")
                     + w2("m") + w2("F") + w2("V")
  BY DEF Weighted
<1>4. Weighted(n) = w("R") + w("B") + w("M") + w("D") + w("s") + w("P") + w("I")
                    + w("m") + w("F") + w("V")
  BY DEF Weighted
<1>5. Total(up) = up["R"] + up["B"] + up["M"] + up["D"] + up["s"] + up["P"] + up["I"]
                  + up["m"] + up["F"] + up["V"]
  BY DEF Total
<1> HIDE DEF up, w, w2
<1>6. Weighted(up) = Weighted(n) + Frames[kind]
  BY <1>1, <1>2, <1>3, <1>4 DEF Counted
<1>7. Total(up) = Total(n) + 1
  BY <1>1, <1>2, <1>5 DEF Counted, Total
<1> QED BY <1>6, <1>7 DEF up

-----------------------------------------------------------------------------
(* The scan.                                                                *)

LEMMA ScanTypes ==
  ASSUME NEW mja \in 0..NColCLB
  PROVE  Scan(mja) \in [Counted -> 0..mja]
<1> SUFFICES ASSUME NEW k \in Counted
             PROVE  Cardinality({c \in 0..(mja - 1) : ResourceString[c] = k}) \in 0..mja
  BY DEF Scan
<1>1. mja \in Nat
  BY ColumnsAssumption
<1>2. IsFiniteSet(0..(mja - 1)) /\ Cardinality(0..(mja - 1)) = mja
  BY <1>1, FS_Interval
<1> QED BY <1>1, <1>2, FS_Subset, FS_CardinalityType

LEMMA ScanStart == \A k \in Counted : Scan(0)[k] = 0
<1> SUFFICES ASSUME NEW k \in Counted PROVE Scan(0)[k] = 0
  OBVIOUS
<1>1. {c \in 0..(0 - 1) : ResourceString[c] = k} = {}
  OBVIOUS
<1> QED BY <1>1, FS_EmptySet DEF Scan

(* The scan counts what NextColumn counts.                                  *)
LEMMA ScanCountsUp ==
  ASSUME NEW mja \in 0..(NColCLB - 1)
  PROVE  Scan(mja + 1) = CountUp(Scan(mja), ResourceString[mja])
<1> SUFFICES ASSUME NEW k \in Counted
             PROVE  Scan(mja + 1)[k] = IF k = ResourceString[mja] THEN Scan(mja)[k] + 1
                                       ELSE Scan(mja)[k]
  BY DEF Scan, CountUp
<1> DEFINE S == {c \in 0..(mja - 1) : ResourceString[c] = k}
           T == {c \in 0..((mja + 1) - 1) : ResourceString[c] = k}
<1>1. mja \in Nat
  BY ColumnsAssumption
<1>2. Scan(mja)[k] = Cardinality(S) /\ Scan(mja + 1)[k] = Cardinality(T)
  BY DEF Scan
<1>3. IsFiniteSet(S)
  <2>1. IsFiniteSet(0..(mja - 1)) /\ S \subseteq 0..(mja - 1)
    BY <1>1, FS_Interval
  <2> QED BY <2>1, FS_Subset
<1>4. CASE k = ResourceString[mja]
  <2>1. T = S \cup {mja} /\ mja \notin S
    BY <1>1, <1>4
  <2> HIDE DEF S, T
  <2> QED BY <1>2, <1>3, <1>4, <2>1, FS_AddElement
<1>5. CASE k # ResourceString[mja]
  <2>1. T = S
    BY <1>1, <1>5
  <2> QED BY <1>2, <1>5, <2>1
<1> QED BY <1>4, <1>5

-----------------------------------------------------------------------------
(* The inductive invariant: the types, and in a row the counters are those  *)
(* of the scan.                                                             *)
FrameInv ==
  /\ BA \in {0, 1, 2} /\ <<TB, RA>> \in Rows \cup {<<0, 0>>}
  /\ MJA \in 0..(IF BA = 1 THEN MaxRAMColumn ELSE NColCLB)
  /\ MNA \in Nat
  /\ BA = 0 /\ MJA < NColCLB => MNA < FramesOf(ResourceString[MJA])
  /\ BA = 0 /\ MJA = NColCLB => MNA = 0
  /\ BA = 1 => MNA < RAMFrames
  /\ BA = 0 => NCol = Scan(MJA)
  /\ BA # 0 => NCol = [kind \in Counted |-> 0]
  /\ exited \in BOOLEAN

LEMMA InvTypes == FrameInv => TypeOK /\ NCol \in [Counted -> Nat]
<1> SUFFICES ASSUME FrameInv PROVE TypeOK /\ NCol \in [Counted -> Nat]
  OBVIOUS
<1>1. NCol \in [Counted -> 0..NColCLB]
  <2>1. CASE BA = 0
    <3>1. MJA \in 0..NColCLB /\ NColCLB \in Nat
      BY <2>1, ColumnsAssumption DEF FrameInv
    <3>2. NCol \in [Counted -> 0..MJA]
      BY <2>1, <3>1, ScanTypes DEF FrameInv
    <3> QED BY <3>1, <3>2
  <2>2. CASE BA # 0
    BY <2>2, ColumnsAssumption DEF FrameInv
  <2> QED BY <2>1, <2>2
<1>2. NCol \in [Counted -> Nat]
  BY <1>1, ColumnsAssumption
<1> QED BY <1>1, <1>2 DEF FrameInv, TypeOK

(* The first frame of a row: its column has frames, unless the row is empty. *)
LEMMA FirstFrame ==
  ASSUME NEW c \in 0..NColCLB, c < NColCLB
  PROVE  0 < FramesOf(ResourceString[c])
BY ColumnsAssumption, FramesAssumption DEF FramesOf, Kinds

LEMMA FrameInit == Init => FrameInv
<1> SUFFICES ASSUME Init PROVE FrameInv
  OBVIOUS
<1>1. NCol = Scan(MJA) /\ MJA = 0
  BY ScanStart DEF Init, Scan
<1>2. 0 \in 0..NColCLB
  BY ColumnsAssumption
<1>3. 0 < NColCLB => 0 < FramesOf(ResourceString[0])
  BY <1>2, FirstFrame
<1>4. <<TB, RA>> \in Rows \cup {<<0, 0>>}
  BY DEF Init
<1>5. BA = 0 /\ MNA = 0
  BY DEF Init
<1>6. exited \in BOOLEAN
  BY DEF Init
<1>7. MJA \in 0..(IF BA = 1 THEN MaxRAMColumn ELSE NColCLB)
  BY <1>1, <1>2, <1>5
<1>8. MJA < NColCLB => MNA < FramesOf(ResourceString[MJA])
  BY <1>1, <1>3, <1>5
<1> QED BY <1>1, <1>4, <1>5, <1>6, <1>7, <1>8 DEF FrameInv

LEMMA StartKeeps == ASSUME FrameInv, StartRow PROVE FrameInv'
<1>1. NCol' = [kind \in Counted |-> 0] /\ MJA' = 0 /\ MNA' = 0
  BY DEF StartRow
<1>2. NCol' = Scan(0)
  BY <1>1, ScanStart DEF Scan
<1>3. BA' \in {0, 1, 2} /\ <<TB', RA'>> \in Rows /\ exited' = exited
  BY RowsAssumption DEF StartRow
<1>4. 0 \in 0..NColCLB /\ 0 \in 0..MaxRAMColumn /\ RAMFrames > 0
  BY ColumnsAssumption, FramesAssumption
<1>5. 0 < NColCLB => 0 < FramesOf(ResourceString[0])
  BY <1>4, FirstFrame
<1> QED BY <1>1, <1>2, <1>3, <1>4, <1>5 DEF FrameInv

(* What a step over the end of a column does.                               *)
LEMMA ColumnEnd ==
  ASSUME FrameInv, incInColumns, LastFrame(ResourceString[MJA])
  PROVE  /\ MJA \in 0..(NColCLB - 1) /\ MJA' = MJA + 1 /\ MNA' = 0
         /\ NCol' = CountUp(NCol, ResourceString[MJA])
         /\ MNA = FramesOf(ResourceString[MJA]) - 1
<1>1. BA = 0 /\ MJA \in 0..NColCLB /\ ResourceString[MJA] # "N"
  BY DEF FrameInv, incInColumns
<1>2. MJA \in 0..(NColCLB - 1) /\ MJA < NColCLB
  BY <1>1, ColumnsAssumption
<1>3. FramesOf(ResourceString[MJA]) \in Nat
  BY <1>1, ColumnsAssumption, FramesAssumption DEF FramesOf, Kinds
<1>4. MNA = FramesOf(ResourceString[MJA]) - 1
  BY <1>1, <1>2, <1>3 DEF FrameInv, LastFrame
<1> QED BY <1>2, <1>4 DEF incInColumns, NextColumn, CountUp

LEMMA ColumnsKeep == ASSUME FrameInv, incInColumns PROVE FrameInv'
<1>1. /\ BA = 0 /\ BA' = 0 /\ UNCHANGED <<TB, RA, exited>>
      /\ NColCLB \in Nat /\ MJA \in 0..NColCLB /\ ResourceString[MJA] # "N"
  BY ColumnsAssumption DEF incInColumns, FrameInv
<1>2. CASE LastFrame(ResourceString[MJA])
  <2>1. /\ MJA \in 0..(NColCLB - 1) /\ MJA' = MJA + 1 /\ MNA' = 0
        /\ NCol' = Scan(MJA')
    BY <1>1, <1>2, ColumnEnd, ScanCountsUp DEF FrameInv
  <2>2. MJA' \in 0..NColCLB
    BY <1>1, <2>1
  <2>3. MJA' < NColCLB => 0 < FramesOf(ResourceString[MJA'])
    BY <2>2, FirstFrame
  <2>4. NCol' = Scan(MJA)'
    BY <2>1 DEF Scan
  <2> QED BY <1>1, <2>1, <2>2, <2>3, <2>4 DEF FrameInv
<1>3. CASE ~LastFrame(ResourceString[MJA])
  <2>1. MNA' = MNA + 1 /\ MJA' = MJA /\ NCol' = NCol
    BY <1>3 DEF incInColumns
  <2>2. MJA < NColCLB
    BY <1>1, ColumnsAssumption
  <2>3. FramesOf(ResourceString[MJA]) \in Nat
    BY <1>1, ColumnsAssumption, FramesAssumption DEF FramesOf, Kinds
  <2>4. MNA + 1 < FramesOf(ResourceString[MJA])
    BY <1>3, <2>3 DEF LastFrame, FrameInv
  <2>5. NCol' = Scan(MJA)'
    BY <1>1, <2>1 DEF FrameInv, Scan
  <2> QED BY <1>1, <2>1, <2>2, <2>4, <2>5 DEF FrameInv
<1> QED BY <1>2, <1>3

LEMMA FrameStep == FrameInv /\ [Next]_vars => FrameInv'
<1> SUFFICES ASSUME FrameInv, [Next]_vars PROVE FrameInv'
  OBVIOUS
<1>1. CASE StartRow BY <1>1, StartKeeps
<1>2. CASE incInColumns BY <1>2, ColumnsKeep
<1>3. CASE incInRAM
  <2>1. BA = 1 /\ BA' = 1 /\ MJA < MaxRAMColumn /\ UNCHANGED <<TB, RA, NCol, exited>>
    BY <1>3 DEF incInRAM
  <2>2. CASE MNA < RAMFrames - 1
    BY <1>3, <2>1, <2>2, FramesAssumption, ColumnsAssumption DEF incInRAM, FrameInv
  <2>3. CASE ~(MNA < RAMFrames - 1)
    BY <1>3, <2>1, <2>3, FramesAssumption, ColumnsAssumption DEF incInRAM, FrameInv
  <2> QED BY <2>2, <2>3
<1>4. CASE incElsewhere BY <1>4 DEF incElsewhere, FrameInv, Scan
<1>5. CASE UNCHANGED vars BY <1>5 DEF vars, FrameInv, Scan
<1> QED BY <1>1, <1>2, <1>3, <1>4, <1>5 DEF Next, incFrameAddress

LEMMA FrameInductive == Spec => []FrameInv
BY FrameInit, FrameStep, PTL DEF Spec

(* The address of every walk names a column of the row and a frame of that  *)
(* column, for every device table.                                          *)
THEOREM FrameTypes == Spec => []TypeOK
BY FrameInductive, InvTypes, PTL

-----------------------------------------------------------------------------
(* The positions.                                                           *)

LEMMA ColumnsAdvance ==
  ASSUME FrameInv, incInColumns
  PROVE  InRow(NCol, MJA, MNA)' = InRow(NCol, MJA, MNA) + 1
<1> DEFINE kind == ResourceString[MJA]  W == Weighted(NCol)  N == Total(NCol)
           rest == (MJA - N) * CLBFrames
<1>1. /\ W \in Nat /\ N \in Nat /\ CLBFrames \in Nat /\ NColCLB \in Nat
      /\ MJA \in 0..NColCLB /\ MNA \in Nat /\ NCol \in [Counted -> Nat]
  BY InvTypes, Positions, ColumnsAssumption, FramesAssumption DEF FrameInv, incInColumns
<1>2. rest \in Int
  <2> HIDE DEF N
  <2> QED BY <1>1
<1>3. CASE ~LastFrame(kind)
  <2>1. MNA' = MNA + 1 /\ MJA' = MJA /\ NCol' = NCol
    BY <1>3 DEF incInColumns
  <2>2. Weighted(NCol)' = W /\ Total(NCol)' = N
    BY <2>1 DEF Weighted, Total
  <2>3. InRow(NCol, MJA, MNA)' = (MNA + 1) + W + rest
    BY <2>1, <2>2 DEF InRow
  <2>4. InRow(NCol, MJA, MNA) = MNA + W + rest
    BY DEF InRow
  <2> HIDE DEF W, N, rest
  <2> QED BY <1>1, <1>2, <2>3, <2>4
<1>4. CASE LastFrame(kind)
  <2>1. /\ MJA' = MJA + 1 /\ MNA' = 0 /\ NCol' = CountUp(NCol, kind)
        /\ MNA = FramesOf(kind) - 1 /\ kind \in Kinds
    <3>1. MJA \in 0..(NColCLB - 1) /\ NColCLB \in Nat
      BY <1>4, ColumnEnd, ColumnsAssumption
    <3>2. kind \in Kinds
      BY <3>1, ColumnsAssumption
    <3> QED BY <1>4, <3>2, ColumnEnd
  <2>2. InRow(NCol, MJA, MNA) = (FramesOf(kind) - 1) + W + rest
    BY <2>1 DEF InRow
  <2>3. InRow(NCol, MJA, MNA)'
          = 0 + Weighted(CountUp(NCol, kind))
            + ((MJA + 1) - Total(CountUp(NCol, kind))) * CLBFrames
    BY <2>1 DEF InRow, Weighted, Total
  <2>4. CASE kind \in Counted
    <3>1. Weighted(CountUp(NCol, kind)) = W + Frames[kind]
          /\ Total(CountUp(NCol, kind)) = N + 1
      BY <1>1, <2>4, SumsCountUp
    <3>2. Frames[kind] \in Nat /\ FramesOf(kind) = Frames[kind]
      BY <2>4, FramesAssumption DEF FramesOf
    <3>3. (MJA + 1) - (N + 1) = MJA - N
      BY <1>1
    <3>4. InRow(NCol, MJA, MNA)' = 0 + (W + Frames[kind]) + rest
      BY <2>3, <3>1, <3>3
    <3> HIDE DEF W, N, rest, kind
    <3> QED BY <1>1, <1>2, <2>2, <3>2, <3>4
  <2>5. CASE kind \notin Counted
    <3>1. CountUp(NCol, kind) = NCol
      BY <1>1, <2>5 DEF CountUp
    <3>2. FramesOf(kind) = CLBFrames
      BY <2>5 DEF FramesOf
    <3>3. ((MJA + 1) - N) * CLBFrames = rest + CLBFrames
      <4> HIDE DEF W, N
      <4> QED BY <1>1
    <3>4. InRow(NCol, MJA, MNA)' = 0 + W + (rest + CLBFrames)
      BY <2>3, <3>1, <3>3
    <3> HIDE DEF W, N, rest, kind
    <3> QED BY <1>1, <1>2, <2>2, <3>2, <3>4
  <2> QED BY <2>4, <2>5
<1> QED BY <1>3, <1>4

(* Where in the bitstream a row begins.                                     *)
LEMMA RowType == FrameInv => TB \in {0, 1} /\ RA \in Nat /\ Row \in Nat
<1> SUFFICES ASSUME FrameInv PROVE TB \in {0, 1} /\ RA \in Nat /\ Row \in Nat
  OBVIOUS
<1>1. <<TB, RA>> \in {0, 1} \X Nat
  BY RowsAssumption DEF FrameInv
<1>2. TB \in {0, 1} /\ RA \in Nat
  BY <1>1
<1>3. TB * NRowRsc \in Nat
  BY <1>2, LayoutAssumption
<1>4. (TB * NRowRsc) \div 2 \in Nat
  BY <1>3
<1> QED BY <1>2, <1>4 DEF Row

(* "incFrameAddress": for every table each call that finds a frame leads to *)
(* the next one of the bitstream, in the columns and in the RAM section.    *)
THEOREM PositionsAdvance == Spec => IndexAdvances
<1>1. ASSUME FrameInv, incInColumns
      PROVE  getFrameIndexGlobal' = getFrameIndexGlobal + 1
  <2>1. BA = 0 /\ BA' = 0 /\ UNCHANGED <<TB, RA>>
    BY <1>1 DEF incInColumns
  <2>2. Row' = Row
    BY <2>1 DEF Row
  <2>3. InRow(NCol, MJA, MNA) \in Int
    <3>1. Weighted(NCol) \in Nat /\ Total(NCol) \in Nat
      BY <1>1, InvTypes, Positions
    <3>2. MJA \in Int /\ MNA \in Int /\ CLBFrames \in Int
      BY <1>1, <2>1, FramesAssumption, ColumnsAssumption DEF FrameInv
    <3>3. (MJA - Total(NCol)) * CLBFrames \in Int
      BY <3>1, <3>2
    <3> QED BY <3>1, <3>2, <3>3 DEF InRow
  <2>4. Row * RowFrames \in Int
    BY <1>1, RowType, LayoutAssumption
  <2>5. /\ getFrameIndexGlobal = InRow(NCol, MJA, MNA) + Row * RowFrames
        /\ getFrameIndexGlobal' = InRow(NCol, MJA, MNA)' + Row * RowFrames
    BY <2>1, <2>2 DEF getFrameIndexGlobal
  <2>6. InRow(NCol, MJA, MNA)' = InRow(NCol, MJA, MNA) + 1
    BY <1>1, ColumnsAdvance
  <2> QED BY <2>3, <2>4, <2>5, <2>6
<1>2. ASSUME FrameInv, incInRAM
      PROVE  getFrameIndexGlobal' = getFrameIndexGlobal + 1
  <2>1. BA = 1 /\ BA' = 1 /\ UNCHANGED <<TB, RA>>
    BY <1>2 DEF incInRAM
  <2>2. Row' = Row
    BY <2>1 DEF Row
  <2>3. /\ MJA \in Nat /\ MNA \in Nat /\ MNA < RAMFrames
        /\ RAMFrames \in Nat /\ RAMRowOff \in Nat
    BY <1>2, <2>1, FramesAssumption, LayoutAssumption, ColumnsAssumption DEF FrameInv
  <2>4. Row * RAMRowFrames \in Int
    BY <1>2, RowType, LayoutAssumption
  <2>5. MJA * RAMFrames \in Int /\ (MJA + 1) * RAMFrames = MJA * RAMFrames + RAMFrames
    BY <2>3, OneMore
  <2>6. /\ getFrameIndexGlobal = MNA + MJA * RAMFrames + RAMRowOff + Row * RAMRowFrames
        /\ getFrameIndexGlobal' = MNA' + MJA' * RAMFrames + RAMRowOff + Row * RAMRowFrames
    BY <2>1, <2>2 DEF getFrameIndexGlobal
  <2>7. CASE MNA < RAMFrames - 1
    <3>1. MNA' = MNA + 1 /\ MJA' = MJA
      BY <1>2, <2>7 DEF incInRAM
    <3>2. getFrameIndexGlobal' = (MNA + 1) + MJA * RAMFrames + RAMRowOff + Row * RAMRowFrames
      BY <2>6, <3>1
    <3> QED BY <2>3, <2>4, <2>5, <2>6, <3>2
  <2>8. CASE ~(MNA < RAMFrames - 1)
    <3>1. MNA' = 0 /\ MJA' = MJA + 1 /\ MNA = RAMFrames - 1
      BY <1>2, <2>3, <2>8 DEF incInRAM
    <3>2. getFrameIndexGlobal'
            = 0 + (MJA * RAMFrames + RAMFrames) + RAMRowOff + Row * RAMRowFrames
      BY <2>5, <2>6, <3>1
    <3> QED BY <2>3, <2>4, <2>5, <2>6, <3>1, <3>2
  <2> QED BY <2>7, <2>8
<1>3. FrameInv /\ [Next]_vars
        => [incInColumns \/ incInRAM => getFrameIndexGlobal' = getFrameIndexGlobal + 1]_vars
  BY <1>1, <1>2
<1> QED BY <1>3, FrameInductive, PTL DEF Spec, IndexAdvances

(* The counters of the walk and a scan of the columns give the same         *)
(* position to every frame, for every table.                                *)
THEOREM PositionsAgree == Spec => []IndicesAgree
<1>1. FrameInv => IndicesAgree
  <2> SUFFICES ASSUME FrameInv, ~(BA = 0 /\ MJA = NColCLB)
               PROVE  getFrameIndexGlobal = getFrameIndex(BA, MJA, MNA, Row)
    BY DEF IndicesAgree
  <2>1. CASE BA = 0
    <3>1. ResourceString[MJA] # "N" /\ NCol = Scan(MJA)
      BY <2>1, ColumnsAssumption DEF FrameInv
    <3>2. Row * RowFrames \in Int
      BY RowType, LayoutAssumption
    <3>3. InRow(NCol, MJA, MNA) \in Int
      <4>1. Weighted(NCol) \in Nat /\ Total(NCol) \in Nat
        BY InvTypes, Positions
      <4>2. MJA \in Int /\ MNA \in Int /\ CLBFrames \in Int
        BY <2>1, FramesAssumption, ColumnsAssumption DEF FrameInv
      <4>3. (MJA - Total(NCol)) * CLBFrames \in Int
        BY <4>1, <4>2
      <4> QED BY <4>1, <4>2, <4>3 DEF InRow
    <3>4. /\ getFrameIndexGlobal = InRow(NCol, MJA, MNA) + Row * RowFrames
          /\ getFrameIndex(BA, MJA, MNA, Row) = InRow(NCol, MJA, MNA) + 0 + Row * RowFrames
      BY <2>1, <3>1 DEF getFrameIndexGlobal, getFrameIndex
    <3> QED BY <3>2, <3>3, <3>4
  <2>2. CASE BA = 1 BY <2>2 DEF getFrameIndexGlobal, getFrameIndex
  <2>3. CASE BA = 2 BY <2>3 DEF getFrameIndexGlobal, getFrameIndex
  <2> QED BY <2>1, <2>2, <2>3 DEF FrameInv
<1> QED BY <1>1, FrameInductive, PTL

-----------------------------------------------------------------------------
(* The room of a row.                                                       *)

LEMMA ColumnFrames ==
  ASSUME NEW c \in 0..(NColCLB - 1)
  PROVE  /\ c \in 0..NColCLB /\ c + 1 \in 0..NColCLB /\ c < NColCLB
         /\ ResourceString[c] \in Kinds /\ FramesOf(ResourceString[c]) \in Nat
<1>1. c \in 0..NColCLB /\ c + 1 \in 0..NColCLB /\ c < NColCLB
  BY ColumnsAssumption
<1>2. ResourceString[c] \in Kinds
  BY <1>1, ColumnsAssumption
<1> QED BY <1>1, <1>2, FramesAssumption DEF FramesOf, Kinds

(* The recursion of ColumnStart has a solution.                             *)
LEMMA StartsDefined ==
  ColumnStart = [c \in 0..NColCLB |->
                  IF c = 0 THEN 0 ELSE ColumnStart[c - 1] + FramesOf(ResourceString[c - 1])]
<1> DEFINE fr(c) == FramesOf(ResourceString[c])
           Fits(g, m) == g = [c \in 0..m |-> IF c = 0 THEN 0 ELSE g[c - 1] + fr(c - 1)]
           S == {m \in Nat : \E g : Fits(g, m)}
<1> HIDE DEF fr
<1>1. 0 \in S
  <2>1. Fits([c \in 0..0 |-> 0], 0)
    OBVIOUS
  <2> QED BY <2>1
<1>2. ASSUME NEW m \in Nat, m \in S PROVE m + 1 \in S
  <2>1. PICK g : Fits(g, m)
    BY <1>2
  <2> DEFINE h == [c \in 0..(m + 1) |-> IF c = m + 1 THEN g[m] + fr(m) ELSE g[c]]
  <2>2. ASSUME NEW c \in 0..(m + 1)
        PROVE  h[c] = IF c = 0 THEN 0 ELSE h[c - 1] + fr(c - 1)
    <3>1. CASE c = m + 1
      <4>1. c # 0 /\ c - 1 = m /\ h[c] = g[m] + fr(m) /\ h[m] = g[m]
        BY <3>1
      <4> QED BY <4>1
    <3>2. CASE c # m + 1
      <4>1. c \in 0..m /\ h[c] = g[c]
        BY <3>2
      <4>2. c # 0 => c - 1 \in 0..(m + 1) /\ c - 1 # m + 1 /\ h[c - 1] = g[c - 1]
        BY <4>1
      <4> QED BY <2>1, <4>1, <4>2
    <3> QED BY <3>1, <3>2
  <2>3. Fits(h, m + 1)
    BY <2>2
  <2> HIDE DEF h, Fits
  <2> QED BY <2>3
<1>3. NColCLB \in S
  <2> HIDE DEF S
  <2> QED BY <1>1, <1>2, SetInduction, ColumnsAssumption
<1>4. \E g : Fits(g, NColCLB)
  BY <1>3
<1>5. ColumnStart = CHOOSE g : Fits(g, NColCLB)
  BY DEF ColumnStart, fr
<1> HIDE DEF Fits
<1>6. Fits(ColumnStart, NColCLB)
  BY <1>4, <1>5
<1> QED BY <1>6 DEF Fits, fr

LEMMA StartsStep ==
  /\ ColumnStart[0] = 0
  /\ \A c \in 0..(NColCLB - 1) :
       ColumnStart[c + 1] = ColumnStart[c] + FramesOf(ResourceString[c])
<1>1. ColumnStart[0] = 0
  BY StartsDefined, ColumnsAssumption
<1>2. ASSUME NEW c \in 0..(NColCLB - 1)
      PROVE  ColumnStart[c + 1] = ColumnStart[c] + FramesOf(ResourceString[c])
  <2>1. c + 1 \in 0..NColCLB /\ c + 1 # 0 /\ (c + 1) - 1 = c
    BY ColumnsAssumption
  <2> QED BY <2>1, StartsDefined
<1> QED BY <1>1, <1>2

LEMMA StartsTypes == \A c \in 0..NColCLB : ColumnStart[c] \in Nat
<1> DEFINE S == {c \in 0..NColCLB : ColumnStart[c] \in Nat}
<1>1. 0 \in S
  BY StartsStep, ColumnsAssumption
<1>2. \A c \in 0..(NColCLB - 1) : c \in S => c + 1 \in S
  BY ColumnFrames, StartsStep
<1>3. 0..NColCLB \subseteq S
  <2> HIDE DEF S
  <2> QED BY <1>1, <1>2, BoundedInduction, ColumnsAssumption
<1> QED BY <1>3

(* The row ends behind the frames of every column.                          *)
LEMMA StartsRise == \A c \in 0..NColCLB : ColumnStart[c] <= ColumnStart[NColCLB]
<1> DEFINE S == {m \in 0..NColCLB : \A c \in 0..m : ColumnStart[c] <= ColumnStart[m]}
<1>1. 0 \in S
  BY StartsTypes, ColumnsAssumption
<1>2. ASSUME NEW m \in 0..(NColCLB - 1), m \in S PROVE m + 1 \in S
  <2>1. /\ m + 1 \in 0..NColCLB /\ FramesOf(ResourceString[m]) \in Nat
        /\ ColumnStart[m + 1] = ColumnStart[m] + FramesOf(ResourceString[m])
    BY ColumnFrames, StartsStep
  <2>2. ASSUME NEW c \in 0..(m + 1) PROVE ColumnStart[c] <= ColumnStart[m + 1]
    <3>1. m \in Nat /\ NColCLB \in Nat /\ c \in 0..NColCLB /\ m \in 0..NColCLB
      BY ColumnsAssumption
    <3>2. ColumnStart[c] \in Nat /\ ColumnStart[m] \in Nat
      BY <3>1, StartsTypes
    <3>3. c = m + 1 \/ ColumnStart[c] <= ColumnStart[m]
      BY <1>2, <3>1
    <3> QED BY <2>1, <3>2, <3>3
  <2> QED BY <2>1, <2>2
<1>3. 0..NColCLB \subseteq S
  <2> HIDE DEF S
  <2> QED BY <1>1, <1>2, BoundedInduction, ColumnsAssumption
<1> QED BY <1>3, ColumnsAssumption

(* The counters and the kinds' frames give a column the position where its  *)
(* row's frames in front of it end.                                         *)
LEMMA ScanStarts ==
  ASSUME NEW c \in 0..NColCLB, NEW f \in Nat
  PROVE  InRow(Scan(c), c, f) = f + ColumnStart[c]
<1> DEFINE At(m) == Weighted(Scan(m)) + (m - Total(Scan(m))) * CLBFrames
           S == {m \in 0..NColCLB : At(m) = ColumnStart[m]}
<1>1. \A m \in 0..NColCLB : Scan(m) \in [Counted -> Nat]
  <2> TAKE m \in 0..NColCLB
  <2>1. Scan(m) \in [Counted -> 0..m] /\ m \in Nat
    BY ScanTypes, ColumnsAssumption
  <2> QED BY <2>1
<1>2. 0 \in S
  <2>1. 0 \in 0..NColCLB /\ Scan(0) \in [Counted -> Nat]
    BY <1>1, ColumnsAssumption
  <2>2. Weighted(Scan(0)) = 0
    <3>1. \A k \in Counted : Scan(0)[k] * Frames[k] = 0
      BY ScanStart, FramesAssumption
    <3> QED BY <3>1 DEF Weighted, Counted
  <2>3. Total(Scan(0)) = 0
    BY ScanStart DEF Total, Counted
  <2> QED BY <2>1, <2>2, <2>3, StartsStep, FramesAssumption
<1>3. ASSUME NEW m \in 0..(NColCLB - 1), m \in S PROVE m + 1 \in S
  <2> DEFINE n == Scan(m)  kind == ResourceString[m]  W == Weighted(n)  N == Total(n)
             rest == (m - N) * CLBFrames
  <2>1. /\ m + 1 \in 0..NColCLB /\ m \in Nat /\ kind \in Kinds /\ CLBFrames \in Nat
        /\ ColumnStart[m + 1] = ColumnStart[m] + FramesOf(kind)
    BY ColumnFrames, StartsStep, FramesAssumption
  <2>2. n \in [Counted -> Nat] /\ W \in Nat /\ N \in Nat
    BY <1>1, Positions, ColumnFrames
  <2>3. Scan(m + 1) = CountUp(n, kind)
    BY ScanCountsUp
  <2>4. rest \in Int
    <3> HIDE DEF W, N
    <3> QED BY <2>1, <2>2
  <2>5. ColumnStart[m] = W + rest
    BY <1>3
  <2>6. CASE kind \in Counted
    <3>1. Weighted(Scan(m + 1)) = W + Frames[kind] /\ Total(Scan(m + 1)) = N + 1
      BY <2>2, <2>3, <2>6, SumsCountUp
    <3>2. Frames[kind] \in Nat /\ FramesOf(kind) = Frames[kind]
      BY <2>6, FramesAssumption DEF FramesOf
    <3>3. (m + 1) - (N + 1) = m - N
      BY <2>1, <2>2
    <3>4. At(m + 1) = (W + Frames[kind]) + rest
      BY <3>1, <3>3
    <3>5. At(m + 1) = ColumnStart[m + 1]
      <4> HIDE DEF W, N, rest, kind, n, At
      <4> QED BY <2>1, <2>2, <2>4, <2>5, <3>2, <3>4
    <3> QED BY <2>1, <3>5
  <2>7. CASE kind \notin Counted
    <3>1. CountUp(n, kind) = n
      BY <2>2, <2>7 DEF CountUp
    <3>2. FramesOf(kind) = CLBFrames
      BY <2>7 DEF FramesOf
    <3>3. ((m + 1) - N) * CLBFrames = rest + CLBFrames
      <4> HIDE DEF W, N
      <4> QED BY <2>1, <2>2
    <3>4. At(m + 1) = W + (rest + CLBFrames)
      BY <2>3, <3>1, <3>3
    <3>5. At(m + 1) = ColumnStart[m + 1]
      <4> HIDE DEF W, N, rest, kind, n, At
      <4> QED BY <2>1, <2>2, <2>4, <2>5, <3>2, <3>4
    <3> QED BY <2>1, <3>5
  <2> QED BY <2>6, <2>7
<1>4. 0..NColCLB \subseteq S
  <2> HIDE DEF S
  <2> QED BY <1>2, <1>3, BoundedInduction, ColumnsAssumption
<1>5. At(c) = ColumnStart[c] /\ ColumnStart[c] \in Nat
  BY <1>4, StartsTypes
<1>6. Weighted(Scan(c)) \in Nat /\ (c - Total(Scan(c))) * CLBFrames \in Int
  <2>1. Weighted(Scan(c)) \in Nat /\ Total(Scan(c)) \in Nat /\ c \in Nat /\ CLBFrames \in Nat
    BY <1>1, Positions, ColumnsAssumption, FramesAssumption
  <2> HIDE DEF At
  <2> QED BY <2>1
<1>7. InRow(Scan(c), c, f) = f + Weighted(Scan(c)) + (c - Total(Scan(c))) * CLBFrames
  BY DEF InRow
<1> QED BY <1>5, <1>6, <1>7

(* Every row of a walk is one of the device's.                              *)
LEMMA RowInDevice ==
  ASSUME FrameInv
  PROVE  Row \in 0..(NRowRsc - 1)
<1>1. Row \in Nat /\ TB \in {0, 1} /\ RA \in Nat
  BY RowType
<1>2. CASE <<TB, RA>> \in Rows
  <2>1. (<<TB, RA>>[1] * NRowRsc) \div 2 + <<TB, RA>>[2] < NRowRsc
    BY <1>2, TableAssumption
  <2> QED BY <1>1, <2>1, LayoutAssumption DEF Row
<1>3. CASE <<TB, RA>> = <<0, 0>>
  <2>1. TB = 0 /\ RA = 0 /\ (0 * NRowRsc) \div 2 = 0
    BY <1>3, LayoutAssumption
  <2>2. Row = 0
    BY <2>1 DEF Row
  <2> QED BY <2>2, TableAssumption, LayoutAssumption
<1> QED BY <1>2, <1>3 DEF FrameInv

LEMMA ColumnPosition ==
  ASSUME FrameInv, BA = 0
  PROVE  /\ getFrameIndexGlobal = MNA + ColumnStart[MJA] + Row * RowFrames
         /\ MJA \in 0..NColCLB /\ MNA \in Nat /\ ColumnStart[MJA] \in Nat
<1>1. MJA \in 0..NColCLB /\ MNA \in Nat /\ NCol = Scan(MJA)
  BY DEF FrameInv
<1>2. InRow(NCol, MJA, MNA) = MNA + ColumnStart[MJA]
  BY <1>1, ScanStarts
<1>3. getFrameIndexGlobal = InRow(NCol, MJA, MNA) + Row * RowFrames
  BY DEF getFrameIndexGlobal
<1> QED BY <1>1, <1>2, <1>3, StartsTypes

(* A row with room for its columns and its padding is filled by a walk up   *)
(* to the padding, on every table.                                          *)
THEOREM RowsAreFull == Spec => []RowIsFull
<1>1. ASSUME FrameInv, BA = 0, MJA = NColCLB
      PROVE  getFrameIndexGlobal + RowIOPad = (Row + 1) * RowFrames
  <2>1. getFrameIndexGlobal = MNA + ColumnStart[NColCLB] + Row * RowFrames
    BY <1>1, ColumnPosition
  <2>2. MNA = 0 /\ ColumnStart[NColCLB] \in Nat
    BY <1>1, ColumnPosition DEF FrameInv
  <2>3. /\ Row * RowFrames \in Nat
        /\ (Row + 1) * RowFrames = Row * RowFrames + RowFrames
    BY <1>1, RowType, LayoutAssumption, OneMore
  <2>4. ColumnStart[NColCLB] + RowIOPad = RowFrames /\ RowIOPad \in Nat
    BY TableAssumption, LayoutAssumption
  <2> QED BY <2>1, <2>2, <2>3, <2>4
<1>2. FrameInv => RowIsFull
  BY <1>1 DEF RowIsFull
<1> QED BY <1>2, FrameInductive, PTL

(* A row of a device ends before its rows do.                               *)
LEMMA RowsFit ==
  ASSUME NEW n \in Nat, NEW f \in Nat, NEW r \in 0..(n - 1)
  PROVE  r * f \in Nat /\ r * f + f <= n * f
<1>1. (r + 1) * f = r * f + f /\ r * f \in Nat
  BY OneMore
<1>2. r + 1 <= n
  OBVIOUS
<1>3. (r + 1) * f <= n * f
  BY <1>2
<1> QED BY <1>1, <1>3

(* No walk takes a frame of the columns for one of the RAM section, or one  *)
(* of the RAM columns for a frame outside it, on every table.               *)
THEOREM SectionsStayApart == Spec => []SectionsApart
<1>1. ASSUME FrameInv, BA = 0
      PROVE  getFrameIndexGlobal \in 0..(RAMRowOff - 1)
  <2>1. /\ getFrameIndexGlobal = MNA + ColumnStart[MJA] + Row * RowFrames
        /\ MJA \in 0..NColCLB /\ MNA \in Nat /\ ColumnStart[MJA] \in Nat
    BY <1>1, ColumnPosition
  <2>2. MNA + ColumnStart[MJA] <= ColumnStart[NColCLB] /\ ColumnStart[NColCLB] \in Nat
    <3>1. ColumnStart[NColCLB] \in Nat /\ NColCLB \in Nat
      BY StartsTypes, ColumnsAssumption
    <3>2. CASE MJA = NColCLB
      BY <1>1, <2>1, <3>1, <3>2 DEF FrameInv
    <3>3. CASE MJA < NColCLB
      <4>1. /\ MJA \in 0..(NColCLB - 1)
            /\ MNA < FramesOf(ResourceString[MJA])
        BY <1>1, <2>1, <3>1, <3>3 DEF FrameInv
      <4>2. /\ FramesOf(ResourceString[MJA]) \in Nat
            /\ ColumnStart[MJA + 1] = ColumnStart[MJA] + FramesOf(ResourceString[MJA])
            /\ ColumnStart[MJA + 1] <= ColumnStart[NColCLB]
        BY <4>1, ColumnFrames, StartsStep, StartsRise
      <4> QED BY <2>1, <3>1, <4>1, <4>2
    <3> QED BY <2>1, <3>1, <3>2, <3>3
  <2>3. Row * RowFrames \in Nat /\ Row * RowFrames + RowFrames <= NRowRsc * RowFrames
    BY <1>1, RowInDevice, RowsFit, LayoutAssumption
  <2>4. /\ ColumnStart[NColCLB] + RowIOPad = RowFrames /\ RowIOPad > 0
        /\ NRowRsc * RowFrames <= RAMRowOff
    BY TableAssumption
  <2>5. RowFrames \in Nat /\ RAMRowOff \in Nat /\ RowIOPad \in Nat /\ NRowRsc * RowFrames \in Nat
    BY LayoutAssumption
  <2> QED BY <2>1, <2>2, <2>3, <2>4, <2>5
<1>2. ASSUME FrameInv, BA = 1, MJA < NColRAM
      PROVE  getFrameIndexGlobal \in RAMRowOff..(NFrames - 1)
  <2>1. /\ getFrameIndexGlobal = MNA + MJA * RAMFrames + RAMRowOff + Row * RAMRowFrames
        /\ MJA \in Nat /\ MNA \in Nat /\ MNA < RAMFrames
    BY <1>2, ColumnsAssumption DEF FrameInv, getFrameIndexGlobal
  <2>2. MJA * RAMFrames \in Nat /\ MJA * RAMFrames + RAMFrames <= NColRAM * RAMFrames
    BY <1>2, <2>1, RowsFit, ColumnsAssumption, FramesAssumption
  <2>3. /\ Row * RAMRowFrames \in Nat
        /\ Row * RAMRowFrames + RAMRowFrames <= NRowRsc * RAMRowFrames
    BY <1>2, RowInDevice, RowsFit, LayoutAssumption
  <2>4. /\ NColRAM * RAMFrames <= RAMRowFrames
        /\ RAMRowOff + NRowRsc * RAMRowFrames <= NFrames
    BY TableAssumption
  <2>5. /\ RAMFrames \in Nat /\ RAMRowFrames \in Nat /\ RAMRowOff \in Nat /\ NFrames \in Nat
        /\ NColRAM * RAMFrames \in Nat /\ NRowRsc * RAMRowFrames \in Nat
    BY LayoutAssumption, ColumnsAssumption, FramesAssumption
  <2> QED BY <2>1, <2>2, <2>3, <2>4, <2>5
<1>3. FrameInv => SectionsApart
  BY <1>1, <1>2 DEF SectionsApart
<1> QED BY <1>3, FrameInductive, PTL
=============================================================================
