---------------------------- MODULE DeviceTable -----------------------------
(* The parameters SetDeviceParameters gives the XCZU9EG (devices.c:124-160). *)
EXTENDS Integers, SequencesExt

(* The columns of a row from left to right: the first one, then patterns,   *)
(* then the end of the row.                                                 *)
LM    == <<"s", "L", "M">>
LR    == <<"s", "L", "R">>
DM    == <<"s", "D", "M">>
Ports == <<"s", "m", "P", "m">>
End   == <<"s", "N">>
Columns ==
  FlattenSeq(<< <<"I", "m">>,
    LM, LR, LM, DM, LM, LR, LM, DM, LM, DM, LM, LR, LM, DM, LM, LR, LM, DM,
    LM, DM, LM, LR, LM, DM, LM, LR, LM, DM, LM, DM, LM, LR, LM, DM, LM, DM,
    LM, DM, LM, LR, LM, DM, LM, LR, LM, DM, LM, LR, LM, DM, LM, DM, LM, LR,
    LM, LR, LM, Ports, LM, DM, LM, DM, LM, LR, LM, End>>)
XCZU9EGString == [c \in 0..(Len(Columns) - 1) |-> Columns[c + 1]]

(* Frames per column; FFrames and VFrames are not set, and no column has    *)
(* that kind.                                                               *)
XCZU9EGFrames ==
  [R |-> 6, B |-> 0, M |-> 16, D |-> 8, s |-> 76, P |-> 10, I |-> 9, m |-> 4,
   F |-> 0, V |-> 0]
=============================================================================
