---------------------------- MODULE FrameAddress ----------------------------
(***************************************************************************)
(* Frame addresses (devices.c): incFrameAddress walks through the frames   *)
(* of a row, column by column, and keeps count of the columns it has left  *)
(* behind; getFrameIndexGlobal turns the address and these counts into a   *)
(* position in the bitstream, getFrameIndex the address alone.             *)
(*                                                                         *)
(* The device is one without a second half (RowFrames2 = 0) whose column   *)
(* string ends a row with its only N, as all devices of the table.         *)
(***************************************************************************)
EXTENDS Integers, FiniteSets

CONSTANTS
  ResourceString,          \* the kind of each column; "N" at the end
  NColCLB, NColRAM,        \* columns of a row, of block RAM contents in a row
  Frames,                  \* frames of a column of each counted kind
  CLBFrames, RAMFrames,    \* frames of a CLB column, of a RAM column
  NULLArea1,               \* frames to skip behind N
  RowFrames, RAMRowFrames, \* bitstream positions of a row
  RAMRowOff,               \* position of the first RAM row
  RowIOPad, NFrames,       \* positions at the end of a row, of the device
  NRowRsc,                 \* rows of the device
  Rows,                    \* rows a caller walks through: pairs of TB and RA
  MaxRAMColumn             \* bound: incFrameAddress itself goes on for ever

(* The kinds that have a counter; "L" and "C" are CLB columns.              *)
Counted == {"R", "B", "M", "D", "s", "P", "I", "m", "F", "V"}
Kinds   == Counted \cup {"C", "L"}

ASSUME ColumnsAssumption ==
  /\ NColCLB \in Nat /\ NColRAM \in Nat /\ MaxRAMColumn \in Nat
  /\ ResourceString \in [0..NColCLB -> Kinds \cup {"N"}]
  /\ \A c \in 0..NColCLB : ResourceString[c] = "N" <=> c = NColCLB
ASSUME FramesAssumption ==
  /\ Frames \in [Counted -> Nat] /\ CLBFrames \in Nat \ {0} /\ RAMFrames \in Nat \ {0}
  /\ \A c \in 0..(NColCLB - 1) :
       ResourceString[c] \in Counted => Frames[ResourceString[c]] > 0
ASSUME LayoutAssumption ==
  /\ NULLArea1 \in Nat /\ RowFrames \in Nat /\ RAMRowFrames \in Nat /\ RAMRowOff \in Nat
  /\ NRowRsc \in Nat /\ RowIOPad \in Nat /\ NFrames \in Nat
ASSUME RowsAssumption == Rows \subseteq {0, 1} \X Nat

VARIABLES
  BA, TB, RA, MJA, MNA,   \* block, half, row, column and frame of the column
  NCol,                   \* NColRI, NColBFG, ...: the counters, by kind
  exited                  \* the process has ended in exit(13)

vars == <<BA, TB, RA, MJA, MNA, NCol, exited>>

FramesOf(kind) == IF kind \in Counted THEN Frames[kind] ELSE CLBFrames

(* The frames of a row in front of a column.                                *)
ColumnStart[c \in 0..NColCLB] ==
  IF c = 0 THEN 0 ELSE ColumnStart[c - 1] + FramesOf(ResourceString[c - 1])

(* The numbers of the table fit each other: a row has room for its columns  *)
(* and its padding, the device for its rows, and the walks stay in them.    *)
ASSUME TableAssumption ==
  /\ ColumnStart[NColCLB] + RowIOPad = RowFrames
  /\ NColRAM * RAMFrames <= RAMRowFrames
  /\ NRowRsc * RowFrames <= RAMRowOff
  /\ RAMRowOff + NRowRsc * RAMRowFrames <= NFrames
  /\ RowIOPad > 0 /\ NRowRsc > 0
  /\ \A row \in Rows : (row[1] * NRowRsc) \div 2 + row[2] < NRowRsc

TypeOK ==
  /\ BA \in {0, 1, 2} /\ <<TB, RA>> \in Rows \cup {<<0, 0>>}
  /\ MJA \in 0..(IF BA = 1 THEN MaxRAMColumn ELSE NColCLB)
  /\ MNA \in Nat
  /\ BA = 0 /\ MJA < NColCLB => MNA < FramesOf(ResourceString[MJA])
  /\ BA = 0 /\ MJA = NColCLB => MNA = 0
  /\ BA = 1 => MNA < RAMFrames
  /\ NCol \in [Counted -> 0..NColCLB]
  /\ exited \in BOOLEAN

Init ==
  /\ BA = 0 /\ TB = 0 /\ RA = 0 /\ MJA = 0 /\ MNA = 0
  /\ NCol = [kind \in Counted |-> 0]
  /\ exited = FALSE

-----------------------------------------------------------------------------
(* The positions.                                                           *)

WeightedNoIOSection(n) ==     \* mutant
  n["R"] * Frames["R"] + n["B"] * Frames["B"] + n["M"] * Frames["M"]
  + n["D"] * Frames["D"] + n["s"] * Frames["s"] + n["P"] * Frames["P"]
  + n["m"] * Frames["m"] + n["F"] * Frames["F"] + n["V"] * Frames["V"]

Weighted(n) ==
  n["R"] * Frames["R"] + n["B"] * Frames["B"] + n["M"] * Frames["M"]
  + n["D"] * Frames["D"] + n["s"] * Frames["s"] + n["P"] * Frames["P"]
  + n["I"] * Frames["I"] + n["m"] * Frames["m"] + n["F"] * Frames["F"]
  + n["V"] * Frames["V"]
Total(n) ==
  n["R"] + n["B"] + n["M"] + n["D"] + n["s"] + n["P"] + n["I"] + n["m"] + n["F"] + n["V"]

(* The position in its row of frame mna of column mja, behind n columns of  *)
(* the counted kinds.                                                       *)
InRow(n, mja, mna) == mna + Weighted(n) + (mja - Total(n)) * CLBFrames

RowNoDivision == TB * NRowRsc + RA     \* mutant
Row == ((TB * NRowRsc) \div 2) + RA

(* NColNULL is never counted up, so that no NULL area is added.             *)
getFrameIndexGlobal ==
  CASE BA = 0 -> InRow(NCol, MJA, MNA) + Row * RowFrames
    [] BA = 1 -> MNA + MJA * RAMFrames + RAMRowOff + Row * RAMRowFrames
    [] OTHER  -> -1

(* The columns of a kind in front of column mja, as the scan counts them.   *)
Scan(mja) ==
  [kind \in Counted |-> Cardinality({c \in 0..(mja - 1) : ResourceString[c] = kind})]

getFrameIndex(ba, mja, mna, tb_ra) ==
  CASE ba = 0 -> InRow(Scan(mja), mja, mna)
                 + (IF ResourceString[mja] = "N" THEN NULLArea1 ELSE 0) + tb_ra * RowFrames
    [] ba = 1 -> mna + mja * RAMFrames + RAMRowOff + tb_ra * RAMRowFrames
    [] OTHER  -> -1

-----------------------------------------------------------------------------
(* A caller starts a walk at the beginning of a row (no code under src/     *)
(* does): it sets the address and clears the counters.                      *)
StartRow ==
  /\ ~exited
  /\ BA' \in {0, 1, 2}
  /\ \E row \in Rows : TB' = row[1] /\ RA' = row[2]
  /\ MJA' = 0 /\ MNA' = 0
  /\ NCol' = [kind \in Counted |-> 0]
  /\ UNCHANGED exited

NextColumnUncounted ==     \* mutant
  /\ MJA' = MJA + 1 /\ MNA' = 0
  /\ NCol' = [kind \in Counted |->
       IF kind = ResourceString[MJA] /\ kind # "m" THEN NCol[kind] + 1 ELSE NCol[kind]]

(* Behind the last frame of a column.                                       *)
NextColumn ==
  /\ MJA' = MJA + 1 /\ MNA' = 0
  /\ NCol' = [kind \in Counted |->
       IF kind = ResourceString[MJA] THEN NCol[kind] + 1 ELSE NCol[kind]]

LastFrameLate(kind) == MNA >= FramesOf(kind)     \* mutant

(* The branches of incFrameAddress for the CLB, I/O, CLK and interconnect   *)
(* block.  At N the address stays where it is.  The error return in front   *)
(* of them, for an address with a -1 in it, is left out: no address of the  *)
(* walk has one, as StartRow sets all three and none of them falls.         *)
LastFrame(kind) == MNA >= FramesOf(kind) - 1
incInColumns ==
  /\ ~exited /\ BA = 0
  /\ ResourceString[MJA] # "N"
  /\ IF LastFrame(ResourceString[MJA])
       THEN NextColumn
       ELSE MNA' = MNA + 1 /\ UNCHANGED <<MJA, NCol>>
  /\ UNCHANGED <<BA, TB, RA, exited>>

(* The branch for the block RAM contents.                                   *)
incInRAM ==
  /\ ~exited /\ BA = 1 /\ MJA < MaxRAMColumn
  /\ IF MNA < RAMFrames - 1
       THEN MNA' = MNA + 1 /\ UNCHANGED MJA
       ELSE MJA' = MJA + 1 /\ MNA' = 0
  /\ UNCHANGED <<BA, TB, RA, NCol, exited>>

(* Any other block: exit(13).                                               *)
incElsewhere ==
  /\ ~exited /\ BA \notin {0, 1}
  /\ exited' = TRUE
  /\ UNCHANGED <<BA, TB, RA, MJA, MNA, NCol>>

incFrameAddress == incInColumns \/ incInRAM \/ incElsewhere

Next == StartRow \/ incFrameAddress

Spec == Init /\ [][Next]_vars

-----------------------------------------------------------------------------
(* Properties.                                                              *)

(* incFrameAddress (devices.c:296-410) leads to the next frame of the       *)
(* bitstream: over every column's end, the counters it keeps make the       *)
(* position that getFrameIndexGlobal computes one higher.                   *)
IndexAdvances ==
  [][incInColumns \/ incInRAM => getFrameIndexGlobal' = getFrameIndexGlobal + 1]_vars

(* The two ways to the position of a frame, one from the counters the walk  *)
(* has kept and one from a scan of the columns, agree (devices.c:212, 235). *)
IndicesAgree ==
  ~(BA = 0 /\ MJA = NColCLB) => getFrameIndexGlobal = getFrameIndex(BA, MJA, MNA, Row)

(* At N the columns have filled the row up to its padding.                  *)
RowIsFull ==
  BA = 0 /\ MJA = NColCLB => getFrameIndexGlobal + RowIOPad = (Row + 1) * RowFrames

(* No frame of the columns lies in the RAM section, none of the RAM section *)
(* outside it or the device.                                                *)
SectionsApart ==
  /\ BA = 0 => getFrameIndexGlobal \in 0..(RAMRowOff - 1)
  /\ BA = 1 /\ MJA < NColRAM => getFrameIndexGlobal \in RAMRowOff..(NFrames - 1)
=============================================================================
