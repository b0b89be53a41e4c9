------------------------ MODULE ConfigControllerProofs ------------------------
(***************************************************************************)
(* Theorems about ConfigController: its types, that a placement writes the *)
(* frames of its own island only and only behind the decoupler, that an    *)
(* island the system is coupled to is never half configured, that the book *)
(* of islands is true, that a failed replacement restores it, and that all *)
(* this implements IslandPromise.                                          *)
(***************************************************************************)
EXTENDS ConfigController, TLAPS

-----------------------------------------------------------------------------
(* Types.                                                                   *)

Far == Rows \cup {Trailer}

LEMMA IslandFacts ==
  /\ Islands \subseteq Int /\ 0 \in Islands /\ NoIsland \notin Islands
  /\ NoOfIslands \in Nat \ {0}
  /\ \A i \in Islands : i \in Nat /\ Row(i) \in Rows
BY DeviceAssumption DEF Islands, Row, Rows, NoIsland

LEMMA LengthPositive ==
  ASSUME NEW m \in Modules
  PROVE  Meta[m].bitstream_len \in Nat /\ Meta[m].bitstream_len > 0
<1>1. MetaType(m)
  BY ModuleAssumption
<1>2. Meta[m].bitstream_len \in Nat \ {0}
  BY <1>1, Zenon DEF MetaType
<1> QED
  BY <1>2

(* Parsing leaves a geometry behind, the metafile's or the one there was.   *)
LEMMA GeometryType ==
  ASSUME TypeOK, NEW m \in Modules
  PROVE  ParsedGeometry(m) \in Geometry
<1>1. CASE Meta[m].geometry = {}
  BY <1>1 DEF ParsedGeometry, TypeOK
<1>2. CASE Meta[m].geometry # {}
  <2>1. PICK g \in Meta[m].geometry : TRUE
    BY <1>2
  <2>2. (CHOOSE h \in Meta[m].geometry : TRUE) \in Meta[m].geometry
    BY <2>1
  <2> QED
    BY <1>2, <2>2, ModuleAssumption DEF ParsedGeometry, MetaType
<1> QED
  BY <1>1, <1>2

(* The relocated words are rows or the trailer.                             *)
LEMMA PatchedType ==
  ASSUME NEW m \in Modules, NEW i \in Islands
  PROVE  Patched(m, i) \in Seq(Far)
<1>1. Meta[m].fars \in Seq(Far)
  BY ModuleAssumption DEF MetaType, Far
<1>2. Len(Meta[m].fars) \in Nat
  BY <1>1
<1>3. calNewFAR(m, i) \in Rows
  BY IslandFacts, DeviceAssumption DEF calNewFAR, Rows
<1>4. \A k \in 1..Len(Meta[m].fars) :
        (IF Meta[m].fars[k] # Trailer THEN calNewFAR(m, i) ELSE Trailer) \in Far
  BY <1>3 DEF Far
<1> DEFINE n == Len(Meta[m].fars)
<1>5. Patched(m, i) \in [1..n -> Far]
  BY <1>4 DEF Patched
<1> QED
  BY <1>2, <1>5 DEF Seq

LEMMA ConfigTypeInit == Init => TypeOK
BY IslandFacts, LimitAssumption, DeviceAssumption
DEF Init, TypeOK, AllAvailable, NoKernels, AllClear, NoGeometry, Geometry, RC

LEMMA ConfigTypeStep == TypeOK /\ [Next]_vars => TypeOK'
<1> SUFFICES ASSUME TypeOK, [Next]_vars PROVE TypeOK'
  OBVIOUS
<1> USE IslandFacts
<1>1. ASSUME NEW i \in Islands, NEW m \in Modules \cup {Missing}, NoDocument(m, i)
      PROVE  TypeOK'
  BY <1>1 DEF NoDocument, Call, TypeOK, book, place, hw, RC
<1>2. ASSUME NEW i \in Islands, NEW m \in Modules \cup {Missing}, Mismatch(m, i)
      PROVE  TypeOK'
  <2>1. m \in Modules BY <1>2 DEF Mismatch
  <2> QED
    BY <1>2, <2>1, GeometryType DEF Mismatch, Call, TypeOK, book, place, hw, RC
<1>3. ASSUME NEW i \in Islands, NEW m \in Modules \cup {Missing}, Relocate(m, i)
      PROVE  TypeOK'
  <2>1. m \in Modules BY <1>3 DEF Relocate
  <2>2. Patched(m, i) \in Seq(Rows \cup {Trailer})
    BY <2>1, PatchedType DEF Far
  <2>3. 0 \in 0..(NoOfIslands + 1)
    BY DeviceAssumption
  <2> QED
    BY <1>3, <2>1, <2>2, <2>3, GeometryType DEF Relocate, Call, TypeOK, book, hw, RC
<1>4. CASE OpenDevices
  <2>1. fds \in 0..MaxFds /\ MaxFds \in Nat
    BY LimitAssumption DEF TypeOK
  <2>2. opened' \in 0..(NoOfIslands + 1) /\ fds' \in 0..MaxFds
    BY <1>4, <2>1 DEF OpenDevices, Ahead
  <2> QED
    BY <1>4, <2>2 DEF OpenDevices, Goto, TypeOK, book, client, hw
<1>5. CASE Decouple
  BY <1>5 DEF Decouple, SetDecoupler, Goto, TypeOK, book, place, client
<1>6. CASE Stream
  <2>1. fds' \in 0..MaxFds
    BY <1>6, LimitAssumption DEF Stream, TypeOK
  <2>2. fabric' \in [Rows -> Modules \cup {NoModule, Broken}]
    BY <1>6 DEF Stream, TypeOK
  <2> QED
    BY <1>6, <2>1, <2>2 DEF Stream, Goto, TypeOK, book, place, client
<1>7. CASE NoFile
  BY <1>7 DEF NoFile, Goto, TypeOK, book, place, client, hw
<1>8. CASE EndStream
  <2>1. fabric' \in [Rows -> Modules \cup {NoModule, Broken}]
    BY <1>8 DEF EndStream, TypeOK
  <2> QED
    BY <1>8, <2>1 DEF EndStream, Goto, TypeOK, book, place, client
<1>9. CASE Couple
  BY <1>9 DEF Couple, SetDecoupler, Goto, TypeOK, book, place, client
<1>10. CASE Record
  BY <1>10 DEF Record, Goto, Marked, TypeOK, place, hw, RC
<1>11. ASSUME NEW i \in Islands, remove_accelerator(i) PROVE TypeOK'
  BY <1>11 DEF remove_accelerator, set_avail_region, TypeOK, place, client, hw, RC
<1>12. ASSUME NEW i \in Islands, backupResources(i) PROVE TypeOK'
  BY <1>12 DEF backupResources, set_avail_region, Marked, TypeOK, place, hw, RC
<1>13. CASE rebaseResources
  BY <1>13 DEF rebaseResources, TypeOK, place, hw, RC
<1>14. CASE Restart
  BY <1>14, LimitAssumption, DeviceAssumption
  DEF Restart, TypeOK, AllAvailable, NoKernels, AllClear, NoGeometry, Geometry, RC, hw
<1>15. CASE UNCHANGED vars
  BY <1>15 DEF vars, book, place, client, hw, TypeOK
<1> QED
  BY <1>1, <1>2, <1>3, <1>4, <1>5, <1>6, <1>7, <1>8, <1>9, <1>10, <1>11, <1>12,
     <1>13, <1>14, <1>15 DEF Next, Body, try_place_accelerator

(* The controller and the hardware keep their state in its types.           *)
THEOREM ConfigTypes == Spec => []TypeOK
BY ConfigTypeInit, ConfigTypeStep, PTL DEF Spec

-----------------------------------------------------------------------------
(* Frames of one island.                                                    *)

Placing == {"open", "decouple", "stream", "streaming", "couple", "record"}

(* Between the check of an island and its entry in the book the island is   *)
(* available, and the bitstream addresses no other row.                     *)
OwnRow ==
  pc \in Placing =>
    module \in Modules /\ avail[island] = 0 /\ Addressed \subseteq {Row(island)}

AllSupported == \A m \in Modules : Meta[m].target = "XCZU9EG"

LEMMA PatchedRow ==
  ASSUME AllSupported, NEW m \in Modules, NEW i \in Islands
  PROVE  {Patched(m, i)[k] : k \in 1..Len(Patched(m, i))} \ {Trailer} \subseteq {Row(i)}
<1> DEFINE n == Len(Meta[m].fars)
<1>1. n \in Nat
  BY ModuleAssumption DEF MetaType
<1>2. Patched(m, i) \in Seq(Far)
  BY PatchedType
<1>3. DOMAIN Patched(m, i) = 1..n
  BY DEF Patched
<1>4. 1..Len(Patched(m, i)) = 1..n
  BY <1>2, <1>3
<1>5. \A k \in 1..n : Patched(m, i)[k] \in {Row(i), Trailer}
  BY DEF Patched, calNewFAR, AllSupported
<1> QED
  BY <1>4, <1>5

LEMMA OwnRowStep ==
  ASSUME AllSupported, TypeOK, OwnRow, [Next]_vars
  PROVE  OwnRow'
<1> USE DEF OwnRow
<1>1. ASSUME NEW i \in Islands, NEW m \in Modules \cup {Missing},
             NoDocument(m, i) \/ Mismatch(m, i)
      PROVE  pc' = "idle"
  BY <1>1 DEF NoDocument, Mismatch, Call
<1>2. ASSUME NEW i \in Islands, NEW m \in Modules \cup {Missing}, Relocate(m, i)
      PROVE  OwnRow'
  <2>1. m \in Modules /\ inData' = Patched(m, i) /\ island' = i /\ module' = m
    BY <1>2 DEF Relocate
  <2>2. avail[i] = 0 /\ avail' = avail
    BY <1>2 DEF Relocate, check_available_region_RS, book
  <2>3. Addressed' \subseteq {Row(i)}
    BY <2>1, PatchedRow DEF Addressed
  <2> QED
    BY <2>1, <2>2, <2>3 DEF Row
<1>3. ASSUME OpenDevices \/ Decouple \/ Stream \/ EndStream \/ Couple PROVE OwnRow'
  <2>1. pc \in Placing /\ avail' = avail /\ island' = island /\ module' = module
        /\ inData' = inData
    BY <1>3 DEF OpenDevices, Decouple, Stream, EndStream, Couple, Goto, Placing, book, place
  <2> QED
    BY <2>1 DEF Addressed, Row
<1>4. ASSUME NoFile \/ Record \/ rebaseResources \/ Restart PROVE pc' \notin Placing
  BY <1>4 DEF NoFile, Record, rebaseResources, Restart, Goto, Placing
<1>5. ASSUME NEW i \in Islands, remove_accelerator(i) \/ backupResources(i)
      PROVE  pc' \notin Placing
  BY <1>5 DEF remove_accelerator, backupResources, Placing
<1>6. CASE UNCHANGED vars
  BY <1>6 DEF vars, book, place, Addressed, Row
<1> QED
  BY <1>1, <1>2, <1>3, <1>4, <1>5, <1>6 DEF Next, Body, try_place_accelerator, Placing

(* The rows a step may change, and when.                                    *)
LEMMA FrameStep ==
  ASSUME TypeOK, OwnRow, [Next]_vars, NEW r \in Rows, fabric'[r] # fabric[r]
  PROVE  /\ r = Row(island) /\ avail[island] = 0
         /\ pc \in {"stream", "streaming"} /\ Sent(module) > 0
         /\ pc = "stream" /\ Port = "pcap" => fds < MaxFds
<1>1. Stream \/ EndStream
  BY DEF Next, Body, try_place_accelerator, vars, hw, NoDocument, Mismatch, Relocate,
         OpenDevices, Decouple, NoFile, Couple, Record, remove_accelerator,
         backupResources, rebaseResources, Restart
<1>2. pc \in {"stream", "streaming"} /\ module \in Modules
  BY <1>1 DEF Stream, EndStream, Goto, OwnRow, Placing
<1>3. Meta[module].bitstream_len > 0
  BY <1>2, LengthPositive
<1>4. r \in Addressed /\ Sent(module) > 0
  BY <1>1, <1>3 DEF Stream, EndStream, TypeOK
<1> QED
  BY <1>1, <1>2, <1>4 DEF OwnRow, Placing, Stream, EndStream, Goto

(* A placement writes frames of its own island, which no accelerator uses,  *)
(* and no others, when every metafile is for the device of the board.       *)
THEOREM FramesOfOneIsland ==
  ASSUME AllSupported PROVE Spec => OnlyItsIsland
<1>1. Init => TypeOK /\ OwnRow
  BY ConfigTypeInit DEF Init, OwnRow, Placing
<1>2. TypeOK /\ OwnRow /\ [Next]_vars => (TypeOK /\ OwnRow)'
  BY ConfigTypeStep, OwnRowStep
<1>3. TypeOK /\ OwnRow /\ [Next]_vars =>
        [\A r \in Rows : fabric'[r] # fabric[r] =>
           \E i \in report_available_regions : r = Row(i) /\ i = island]_vars
  <2> SUFFICES ASSUME TypeOK, OwnRow, [Next]_vars, NEW r \in Rows, fabric'[r] # fabric[r]
               PROVE  \E i \in report_available_regions : r = Row(i) /\ i = island
    OBVIOUS
  <2>1. island \in report_available_regions
    BY FrameStep DEF report_available_regions, TypeOK
  <2> QED
    BY <2>1, FrameStep
<1> QED
  BY <1>1, <1>2, <1>3, PTL DEF Spec, OnlyItsIsland
-----------------------------------------------------------------------------
(* Frames behind the decoupler.                                             *)

AllOpen == opened = NoOfIslands + Ahead

(* An ICAP build opens one file per island and the ICAP in each placement.  *)
EnoughDescriptors == Port = "icap" => MaxFds >= 3 + (NoOfIslands + 1) * MaxCalls

Budget(c) == 3 + (NoOfIslands + 1) * c

(* No process has opened more than its calls so far account for.            *)
WithinBudget ==
  /\ calls \in 0..MaxCalls
  /\ Port = "icap" =>
       /\ fds <= Budget(calls)
       /\ pc = "open" => fds + NoOfIslands + 1 <= Budget(calls)

(* Where device files are missing no descriptor is left for the PCAP's file *)
(* either, and where none is missing the island is decoupled.               *)
Shielded ==
  /\ pc \in {"decouple", "stream"} => AllOpen \/ (fds = MaxFds /\ Port # "icap")
  /\ pc \in {"streaming", "couple"} => AllOpen \/ Port = "none"
  /\ pc \in {"stream", "streaming", "couple"} /\ AllOpen => decoupled[island]

LEMMA BudgetGrows ==
  ASSUME NEW c \in Nat
  PROVE  Budget(c) \in Nat /\ Budget(c + 1) = Budget(c) + NoOfIslands + 1
BY IslandFacts DEF Budget

LEMMA BudgetHolds ==
  ASSUME EnoughDescriptors, Port = "icap", NEW c \in 0..MaxCalls
  PROVE  Budget(c) <= MaxFds
<1>1. NoOfIslands + 1 \in Nat /\ c \in Nat /\ MaxCalls \in Nat /\ c <= MaxCalls
  BY IslandFacts, LimitAssumption
<1>2. \A a, x, y \in Nat : x <= y => a * x <= a * y
  OBVIOUS
<1>3. (NoOfIslands + 1) * c <= (NoOfIslands + 1) * MaxCalls
  BY <1>1, <1>2
<1>4. (NoOfIslands + 1) * c \in Nat /\ (NoOfIslands + 1) * MaxCalls \in Nat
  BY <1>1
<1> QED
  BY <1>3, <1>4, LimitAssumption DEF EnoughDescriptors, Budget

LEMMA BudgetStep ==
  ASSUME TypeOK, WithinBudget, [Next]_vars
  PROVE  WithinBudget'
<1> USE IslandFacts
<1>0. calls \in Nat /\ MaxCalls \in Nat /\ fds \in Nat /\ Budget(calls) \in Nat
  <2>1. MaxCalls \in Nat /\ MaxFds \in Nat
    BY LimitAssumption
  <2>2. fds \in 0..MaxFds
    BY DEF TypeOK
  <2>3. calls \in 0..MaxCalls
    BY DEF WithinBudget
  <2>4. calls \in Nat /\ fds \in Nat
    BY <2>1, <2>2, <2>3
  <2> QED
    BY <2>1, <2>4, BudgetGrows
<1>1. ASSUME NEW i \in Islands, Call(i), fds' = fds
      PROVE  WithinBudget'
  <2>1. calls' \in 0..MaxCalls /\ calls' = calls + 1
    BY <1>0, <1>1 DEF Call
  <2>2. Budget(calls') = Budget(calls) + NoOfIslands + 1
    BY <1>0, <2>1, BudgetGrows
  <2> QED
    BY <1>0, <1>1, <2>1, <2>2 DEF WithinBudget, Budget
<1>2. ASSUME NEW i \in Islands, NEW m \in Modules \cup {Missing},
             NoDocument(m, i) \/ Mismatch(m, i) \/ Relocate(m, i)
      PROVE  WithinBudget'
  BY <1>1, <1>2 DEF NoDocument, Mismatch, Relocate
<1>3. CASE OpenDevices
  <2>1. calls' = calls /\ pc = "open" /\ pc' = "decouple"
    BY <1>3 DEF OpenDevices, Goto, client
  <2>2. Port = "icap" => fds' <= fds + NoOfIslands + 1
    BY <1>0, <1>3, LimitAssumption DEF OpenDevices, Ahead
  <2>3. Port = "icap" => fds' \in Nat
    BY <1>3, ConfigTypeStep, LimitAssumption DEF TypeOK
  <2> QED
    BY <1>0, <2>1, <2>2, <2>3 DEF WithinBudget, Budget
<1>4. ASSUME Decouple \/ Stream \/ NoFile \/ EndStream \/ Couple \/ Record
      PROVE  WithinBudget'
  <2>1. calls' = calls /\ pc' # "open" /\ (Port = "icap" => fds' = fds)
    BY <1>4 DEF Decouple, Stream, NoFile, EndStream, Couple, Record, Goto, client
  <2> QED
    BY <2>1 DEF WithinBudget, Budget
<1>5. ASSUME NEW i \in Islands, remove_accelerator(i) \/ backupResources(i)
      PROVE  WithinBudget'
  <2>1. calls' = calls /\ pc' = pc /\ fds' = fds
    BY <1>5 DEF remove_accelerator, backupResources, client
  <2> QED
    BY <2>1 DEF WithinBudget, Budget
<1>6. ASSUME rebaseResources \/ UNCHANGED vars
      PROVE  WithinBudget'
  <2>1. calls' = calls /\ pc' = pc /\ fds' = fds
    BY <1>6 DEF rebaseResources, vars, client
  <2> QED
    BY <2>1 DEF WithinBudget, Budget
<1>7. CASE Restart
  <2>1. calls' = calls /\ pc' = "idle" /\ fds' = 3
    BY <1>7 DEF Restart
  <2>2. Budget(calls) >= 3
    BY <1>0 DEF Budget
  <2> QED
    BY <1>0, <2>1, <2>2 DEF WithinBudget, Budget
<1> QED
  BY <1>2, <1>3, <1>4, <1>5, <1>6, <1>7 DEF Next, Body, try_place_accelerator

LEMMA ShieldStep ==
  ASSUME EnoughDescriptors, TypeOK, WithinBudget, Shielded, [Next]_vars
  PROVE  Shielded'
<1> USE IslandFacts
<1> DEFINE Inside == {"decouple", "stream", "streaming", "couple"}
<1>1. CASE OpenDevices
  <2>1. pc = "open" /\ pc' = "decouple"
    BY <1>1 DEF OpenDevices, Goto
  <2>2. AllOpen' \/ fds' = MaxFds
    BY <1>1, LimitAssumption DEF OpenDevices, AllOpen, Ahead, TypeOK
  <2>3. Port = "icap" => AllOpen'
    <3> SUFFICES ASSUME Port = "icap" PROVE AllOpen'
      OBVIOUS
    <3>1. fds + NoOfIslands + 1 <= Budget(calls) /\ Budget(calls) <= MaxFds
      BY <2>1, BudgetHolds DEF WithinBudget
    <3>2. Budget(calls) \in Nat /\ MaxFds \in Nat /\ fds \in Nat
      <4>1. fds \in 0..MaxFds /\ MaxFds \in Nat
        BY LimitAssumption DEF TypeOK
      <4>2. calls \in 0..MaxCalls /\ MaxCalls \in Nat
        BY LimitAssumption DEF WithinBudget
      <4> QED
        BY <4>1, <4>2, BudgetGrows
    <3>3. ~(MaxFds - fds < NoOfIslands + Ahead)
      BY <3>1, <3>2 DEF Ahead
    <3> QED
      BY <1>1, <3>3 DEF OpenDevices, AllOpen, Ahead
  <2> QED
    BY <2>1, <2>2, <2>3 DEF Shielded
<1>2. CASE Decouple
  <2>1. pc = "decouple" /\ pc' = "stream" /\ fds' = fds /\ opened' = opened /\ island' = island
    BY <1>2 DEF Decouple, Goto, place
  <2>2. AllOpen => decoupled'[island]
    BY <1>2 DEF Decouple, SetDecoupler, DcplOpen, AllOpen, Ahead, TypeOK, Islands
  <2> QED
    BY <2>1, <2>2 DEF Shielded, AllOpen, Ahead
<1>3. CASE Stream
  <2>1. /\ pc = "stream" /\ pc' = "streaming" /\ opened' = opened /\ island' = island
        /\ decoupled' = decoupled
        /\ Port = "pcap" => fds < MaxFds
    BY <1>3 DEF Stream, Goto, place
  <2>2. AllOpen \/ Port = "none"
    BY <2>1, LimitAssumption DEF Shielded, TypeOK
  <2> QED
    BY <2>1, <2>2 DEF Shielded, AllOpen, Ahead
<1>4. CASE EndStream
  BY <1>4 DEF EndStream, Goto, place, Shielded, AllOpen, Ahead
<1>5. ASSUME NoFile \/ Couple \/ Record \/ rebaseResources \/ Restart
      PROVE  pc' \notin Inside
  BY <1>5 DEF NoFile, Couple, Record, rebaseResources, Restart, Goto
<1>6. ASSUME NEW i \in Islands, remove_accelerator(i) \/ backupResources(i)
      PROVE  pc' \notin Inside
  BY <1>6 DEF remove_accelerator, backupResources
<1>7. ASSUME NEW i \in Islands, NEW m \in Modules \cup {Missing},
             NoDocument(m, i) \/ Mismatch(m, i) \/ Relocate(m, i)
      PROVE  pc' \notin Inside
  BY <1>7 DEF NoDocument, Mismatch, Relocate, Call
<1>8. CASE UNCHANGED vars
  BY <1>8 DEF vars, place, hw, Shielded, AllOpen, Ahead
<1> QED
  BY <1>1, <1>2, <1>3, <1>4, <1>5, <1>6, <1>7, <1>8
  DEF Next, Body, try_place_accelerator, Shielded

(* The island whose frames a step changes is decoupled.                     *)
LEMMA ShieldedFrames ==
  ASSUME TypeOK, OwnRow, Shielded, [Next]_vars,
         NEW r \in Rows, fabric'[r] # fabric[r]
  PROVE  r = Row(island) /\ decoupled[island] /\ AllOpen
<1>1. /\ r = Row(island) /\ pc \in {"stream", "streaming"} /\ Sent(module) > 0
      /\ pc = "stream" /\ Port = "pcap" => fds < MaxFds
  BY FrameStep
<1>2. Port = "icap" \/ Port = "pcap"
  BY <1>1 DEF Sent
<1>3. AllOpen
  BY <1>1, <1>2, LimitAssumption DEF Shielded, TypeOK
<1> QED
  BY <1>1, <1>3 DEF Shielded

Safe == TypeOK /\ OwnRow /\ WithinBudget /\ Shielded

LEMMA SafeInit == Init => Safe
<1> SUFFICES ASSUME Init PROVE Safe
  OBVIOUS
<1>1. calls = 0 /\ fds = 3 /\ pc = "idle"
  BY DEF Init
<1>2. Budget(0) = 3
  BY IslandFacts DEF Budget
<1> QED
  BY <1>1, <1>2, ConfigTypeInit, LimitAssumption
  DEF Safe, OwnRow, Placing, WithinBudget, Shielded

LEMMA SafeStep ==
  ASSUME AllSupported, EnoughDescriptors
  PROVE  Safe /\ [Next]_vars => Safe'
BY ConfigTypeStep, OwnRowStep, BudgetStep, ShieldStep DEF Safe

(* No frame of an island changes unless its decoupler is set, in any build, *)
(* with any number of kills, as long as the descriptors of an ICAP build    *)
(* suffice.                                                                 *)
THEOREM FramesBehindDecoupler ==
  ASSUME AllSupported, EnoughDescriptors PROVE Spec => Protected
<1>1. Safe /\ [Next]_vars =>
        [\A i \in Islands : fabric'[Row(i)] # fabric[Row(i)] => decoupled[i]]_vars
  <2> SUFFICES ASSUME Safe, [Next]_vars, NEW i \in Islands,
                      fabric'[Row(i)] # fabric[Row(i)]
               PROVE  decoupled[i]
    OBVIOUS
  <2>1. Row(i) = Row(island) /\ decoupled[island]
    BY IslandFacts, ShieldedFrames DEF Safe
  <2>2. i = island
    BY <2>1, IslandFacts DEF Row, Safe, TypeOK
  <2> QED
    BY <2>1, <2>2
<1> QED
  BY <1>1, SafeInit, SafeStep, PTL DEF Spec, Protected
-----------------------------------------------------------------------------
(* Whole configurations.                                                    *)

(* Every bitstream addresses frames, and the PCAP gets all of it.           *)
WholeStreams ==
  \A m \in Modules :
    /\ \E k \in 1..Len(Meta[m].fars) : Meta[m].fars[k] # Trailer
    /\ Port = "pcap" => (Meta[m].bitstream_len \div Block) * Block = Meta[m].bitstream_len

AddressesItsRow == pc \in Placing => Row(island) \in Addressed

(* Remains of an interrupted configuration are behind a decoupler, and gone *)
(* when the decoupler is about to be released.                              *)
BrokenIsDecoupled ==
  /\ \A i \in Islands : fabric[Row(i)] = Broken => decoupled[i]
  /\ pc = "couple" => fabric[Row(island)] # Broken
  /\ Port = "none" => \A i \in Islands : fabric[Row(i)] # Broken

LEMMA PatchedAddresses ==
  ASSUME AllSupported, WholeStreams, NEW m \in Modules, NEW i \in Islands
  PROVE  Row(i) \in {Patched(m, i)[k] : k \in 1..Len(Patched(m, i))} \ {Trailer}
<1> DEFINE n == Len(Meta[m].fars)
<1>1. n \in Nat
  BY ModuleAssumption DEF MetaType
<1>2. 1..Len(Patched(m, i)) = 1..n
  <2>1. Patched(m, i) \in Seq(Far)
    BY PatchedType
  <2>2. DOMAIN Patched(m, i) = 1..n
    BY DEF Patched
  <2> QED
    BY <2>1, <2>2
<1>3. PICK k \in 1..n : Meta[m].fars[k] # Trailer
  BY DEF WholeStreams
<1>4. Patched(m, i)[k] = Row(i)
  BY <1>3 DEF Patched, calNewFAR, AllSupported
<1>5. Row(i) # Trailer
  BY IslandFacts, DeviceAssumption
<1> QED
  BY <1>2, <1>4, <1>5

LEMMA AddressStep ==
  ASSUME AllSupported, WholeStreams, AddressesItsRow, [Next]_vars
  PROVE  AddressesItsRow'
<1>1. ASSUME NEW i \in Islands, NEW m \in Modules \cup {Missing}, Relocate(m, i)
      PROVE  AddressesItsRow'
  <2>1. m \in Modules /\ inData' = Patched(m, i) /\ island' = i
    BY <1>1 DEF Relocate
  <2> QED
    BY <2>1, PatchedAddresses DEF AddressesItsRow, Addressed, Row
<1>2. ASSUME OpenDevices \/ Decouple \/ Stream \/ EndStream \/ Couple
      PROVE  AddressesItsRow'
  <2>1. pc \in Placing /\ island' = island /\ inData' = inData
    BY <1>2 DEF OpenDevices, Decouple, Stream, EndStream, Couple, Goto, Placing, place
  <2> QED
    BY <2>1 DEF AddressesItsRow, Addressed, Row
<1>3. ASSUME NoFile \/ Record \/ rebaseResources \/ Restart
      PROVE  pc' \notin Placing
  BY <1>3 DEF NoFile, Record, rebaseResources, Restart, Goto, Placing
<1>4. ASSUME NEW i \in Islands, remove_accelerator(i) \/ backupResources(i)
      PROVE  pc' \notin Placing
  BY <1>4 DEF remove_accelerator, backupResources, Placing
<1>5. ASSUME NEW i \in Islands, NEW m \in Modules \cup {Missing},
             NoDocument(m, i) \/ Mismatch(m, i)
      PROVE  pc' \notin Placing
  BY <1>5 DEF NoDocument, Mismatch, Call, Placing
<1>6. CASE UNCHANGED vars
  BY <1>6 DEF vars, place, AddressesItsRow, Addressed, Row
<1> QED
  BY <1>1, <1>2, <1>3, <1>4, <1>5, <1>6
  DEF Next, Body, try_place_accelerator, AddressesItsRow

(* A port that is there gets the whole bitstream.                           *)
LEMMA SentWhole ==
  ASSUME TypeOK, WholeStreams, AllOpen, Port # "none", NEW m \in Modules
  PROVE  Sent(m) = Meta[m].bitstream_len
<1>1. CASE Port = "icap"
  <2>1. opened > 0
    BY <1>1, IslandFacts DEF AllOpen, Ahead
  <2> QED
    BY <1>1, <2>1, Zenon DEF Sent
<1>2. CASE Port = "pcap"
  <2>1. (Meta[m].bitstream_len \div Block) * Block = Meta[m].bitstream_len
    BY <1>2 DEF WholeStreams
  <2>2. Port # "icap"
    BY <1>2
  <2> QED
    BY <1>2, <2>1, <2>2 DEF Sent
<1> QED
  BY <1>1, <1>2, LimitAssumption

LEMMA BrokenStep ==
  ASSUME WholeStreams, Safe, AddressesItsRow, BrokenIsDecoupled, [Next]_vars
  PROVE  BrokenIsDecoupled'
<1> USE IslandFacts
<1>0. TypeOK /\ OwnRow /\ Shielded
  BY DEF Safe
<1>1. CASE Stream
  <2>1. pc' = "streaming" /\ decoupled' = decoupled
    BY <1>1 DEF Stream, Goto
  <2>2. ASSUME NEW i \in Islands, fabric'[Row(i)] = Broken PROVE decoupled[i]
    <3>1. CASE fabric'[Row(i)] = fabric[Row(i)]
      BY <2>2, <3>1 DEF BrokenIsDecoupled
    <3>2. CASE fabric'[Row(i)] # fabric[Row(i)]
      <4>1. Row(i) = Row(island) /\ decoupled[island]
        BY <1>0, <3>2, ShieldedFrames
      <4>2. i = island
        BY <1>0, <4>1 DEF Row, TypeOK
      <4> QED
        BY <4>1, <4>2
    <3> QED
      BY <3>1, <3>2
  <2>3. Port = "none" => fabric' = fabric
    <3> SUFFICES ASSUME Port = "none" PROVE fabric' = fabric
      OBVIOUS
    <3>1. Sent(module) = 0
      BY Zenon DEF Sent
    <3> QED
      BY <1>1, <3>1 DEF Stream
  <2> QED
    BY <2>1, <2>2, <2>3 DEF BrokenIsDecoupled, Row
<1>2. CASE EndStream
  <2>1. pc = "streaming" /\ pc' = "couple" /\ decoupled' = decoupled /\ island' = island
    BY <1>2 DEF EndStream, Goto, place
  <2>2. module \in Modules /\ module # Broken /\ island \in Islands
    BY <1>0, <2>1, ModuleAssumption DEF OwnRow, Placing, TypeOK
  <2>3. \A r \in Rows : fabric'[r] \in {module, fabric[r]}
    BY <1>0, <1>2 DEF EndStream, TypeOK
  <2>4. \A i \in Islands : fabric'[Row(i)] = Broken => fabric[Row(i)] = Broken
    BY <2>2, <2>3
  <2>5. fabric'[Row(island)] # Broken
    <3>1. CASE Port = "none"
      BY <2>2, <2>4, <3>1 DEF BrokenIsDecoupled
    <3>2. CASE Port # "none"
      <4>1. Sent(module) = Meta[module].bitstream_len
        BY <1>0, <2>1, <2>2, <3>2, SentWhole DEF Shielded
      <4>2. Row(island) \in Addressed
        BY <2>1 DEF AddressesItsRow, Placing
      <4>3. fabric'[Row(island)] = module
        BY <1>2, <2>2, <4>1, <4>2 DEF EndStream
      <4> QED
        BY <2>2, <4>3
    <3> QED
      BY <3>1, <3>2
  <2> QED
    BY <2>1, <2>4, <2>5 DEF BrokenIsDecoupled, Row
<1>3. CASE Couple
  <2>1. /\ pc = "couple" /\ pc' = "record" /\ fabric' = fabric
        /\ decoupled' \in {decoupled, [decoupled EXCEPT ![island] = FALSE]}
    BY <1>3 DEF Couple, SetDecoupler, Goto
  <2>2. fabric[Row(island)] # Broken
    BY <2>1 DEF BrokenIsDecoupled
  <2>3. ASSUME NEW i \in Islands, fabric[Row(i)] = Broken PROVE decoupled'[i]
    <3>1. i # island /\ decoupled[i]
      BY <2>2, <2>3 DEF BrokenIsDecoupled
    <3> QED
      BY <1>0, <2>1, <3>1 DEF TypeOK
  <2> QED
    BY <2>1, <2>3 DEF BrokenIsDecoupled, Row
<1>4. CASE Decouple
  <2>1. pc' = "stream" /\ fabric' = fabric
        /\ decoupled' \in {decoupled, [decoupled EXCEPT ![island] = TRUE]}
    BY <1>4 DEF Decouple, SetDecoupler, Goto
  <2>2. \A i \in Islands : decoupled[i] => decoupled'[i]
    BY <1>0, <2>1 DEF TypeOK
  <2> QED
    BY <2>1, <2>2 DEF BrokenIsDecoupled, Row
<1>5. ASSUME fabric' = fabric, decoupled' = decoupled, pc' # "couple"
      PROVE  BrokenIsDecoupled'
  BY <1>5 DEF BrokenIsDecoupled, Row
<1>6. ASSUME OpenDevices \/ NoFile \/ Record \/ rebaseResources \/ Restart
      PROVE  BrokenIsDecoupled'
  BY <1>5, <1>6 DEF OpenDevices, NoFile, Record, rebaseResources, Restart, Goto, hw
<1>7. ASSUME NEW i \in Islands, remove_accelerator(i) \/ backupResources(i)
      PROVE  BrokenIsDecoupled'
  BY <1>5, <1>7 DEF remove_accelerator, backupResources, hw
<1>8. ASSUME NEW i \in Islands, NEW m \in Modules \cup {Missing},
             NoDocument(m, i) \/ Mismatch(m, i) \/ Relocate(m, i)
      PROVE  BrokenIsDecoupled'
  BY <1>5, <1>8 DEF NoDocument, Mismatch, Relocate, Call, hw
<1>9. CASE UNCHANGED vars
  BY <1>9 DEF vars, hw, place, BrokenIsDecoupled, Row
<1> QED
  BY <1>1, <1>2, <1>3, <1>4, <1>6, <1>7, <1>8, <1>9 DEF Next, Body, try_place_accelerator

(* After any number of placements, failures and kills, an island that the   *)
(* system is coupled to holds no half of a configuration.                   *)
THEOREM WholeWhenCoupled ==
  ASSUME AllSupported, EnoughDescriptors, WholeStreams
  PROVE  Spec => []CoupledIsWhole
<1> DEFINE Inv == Safe /\ AddressesItsRow /\ BrokenIsDecoupled
<1>1. Init => Inv
  <2> SUFFICES ASSUME Init PROVE AddressesItsRow /\ BrokenIsDecoupled
    BY SafeInit
  <2>1. pc = "idle" /\ \A r \in Rows : fabric[r] = NoModule
    BY DEF Init
  <2> QED
    BY <2>1, IslandFacts, ModuleAssumption DEF AddressesItsRow, BrokenIsDecoupled, Placing
<1>2. Inv /\ [Next]_vars => Inv'
  BY SafeStep, AddressStep, BrokenStep
<1>3. Inv => CoupledIsWhole
  BY DEF BrokenIsDecoupled, CoupledIsWhole
<1> QED
  BY <1>1, <1>2, <1>3, PTL DEF Spec
-----------------------------------------------------------------------------
(* The book.                                                                *)

(* What the book says of an island, and what it will say again when a       *)
(* backed-up replacement fails; and how far the running placement is on the *)
(* way to the island's new entry.                                           *)
Runs(i, m) == fabric[Row(i)] = m /\ ~decoupled[i]

BookInv ==
  /\ avail \in [Islands -> {0, 1}]
  /\ \A i \in Islands : avail[i] = 1 => Runs(i, kernel[i])
  /\ replacing # NoIsland =>
       avail[replacing] = 0 /\ (pc = "idle" => Runs(replacing, kernel[replacing]))
  /\ pc \in {"couple", "record"} => fabric[Row(island)] = module
  /\ pc = "record" => ~decoupled[island]

(* Hardware that stays as it is on every island but the one being placed    *)
(* into keeps every entry of the book true.                                 *)
LEMMA EntriesStay ==
  ASSUME Safe, BookInv, pc \in Placing, UNCHANGED <<avail, kernel, replacing>>,
         pc' # "idle",
         \A i \in Islands : i # island =>
           fabric'[Row(i)] = fabric[Row(i)] /\ decoupled'[i] = decoupled[i],
         pc' \in {"couple", "record"} => fabric'[Row(island')] = module',
         pc' = "record" => ~decoupled'[island']
  PROVE  BookInv'
<1>1. avail[island] = 0
  BY DEF Safe, OwnRow
<1>2. ASSUME NEW i \in Islands, avail'[i] = 1 PROVE Runs(i, kernel[i])'
  <2>1. i # island
    BY <1>1, <1>2
  <2> QED BY <1>2, <2>1 DEF BookInv, Runs, Row
<1> QED BY <1>2 DEF BookInv, Row

LEMMA BookStep ==
  ASSUME AllSupported, EnoughDescriptors, WholeStreams, Port # "none",
         Safe, AddressesItsRow, BookInv, [Next]_vars
  PROVE  BookInv'
<1> USE IslandFacts
<1>0. TypeOK /\ OwnRow /\ Shielded
  BY DEF Safe
<1>1. CASE OpenDevices
  <2>1. /\ pc \in Placing /\ pc' = "decouple"
        /\ UNCHANGED <<avail, kernel, replacing, fabric, decoupled>>
    BY <1>1 DEF OpenDevices, Goto, Placing, book, client, hw
  <2> QED BY <2>1, EntriesStay
<1>2. CASE Decouple
  <2>1. /\ pc \in Placing /\ pc' = "stream"
        /\ UNCHANGED <<avail, kernel, replacing, fabric>>
        /\ decoupled' \in {decoupled, [decoupled EXCEPT ![island] = TRUE]}
    BY <1>2 DEF Decouple, SetDecoupler, Goto, Placing, book, client
  <2>2. \A i \in Islands : i # island => decoupled'[i] = decoupled[i]
    BY <1>0, <2>1 DEF TypeOK
  <2> QED BY <2>1, <2>2, EntriesStay
<1>3. CASE Stream \/ EndStream
  <2>1. /\ pc \in Placing /\ pc' \in {"streaming", "couple"}
        /\ UNCHANGED <<avail, kernel, replacing, decoupled>>
    BY <1>3 DEF Stream, EndStream, Goto, Placing, book, client
  <2>2. ASSUME NEW i \in Islands, i # island PROVE fabric'[Row(i)] = fabric[Row(i)]
    <3>1. Row(i) # Row(island)
      BY <1>0, <2>2 DEF TypeOK, Row
    <3> QED BY <1>0, <3>1, FrameStep
  <2>3. ASSUME pc' = "couple" PROVE fabric'[Row(island')] = module'
    <3>1. EndStream /\ pc = "streaming" /\ island' = island /\ module' = module
      BY <1>3, <2>3 DEF Stream, EndStream, Goto, place
    <3>2. module \in Modules /\ Row(island) \in Addressed
      BY <1>0, <3>1 DEF OwnRow, AddressesItsRow, Placing
    <3>3. Sent(module) = Meta[module].bitstream_len
      BY <1>0, <3>1, <3>2, SentWhole DEF Shielded
    <3> QED BY <1>0, <3>1, <3>2, <3>3 DEF EndStream, TypeOK
  <2> QED BY <2>1, <2>2, <2>3, EntriesStay
<1>4. CASE Couple
  <2>1. /\ pc = "couple" /\ pc' = "record" /\ island' = island /\ module' = module
        /\ UNCHANGED <<avail, kernel, replacing, fabric>>
        /\ AllOpen
    BY <1>0, <1>4 DEF Couple, Goto, book, client, place, Shielded
  <2>2. DcplOpen(island)
    BY <1>0, <2>1 DEF DcplOpen, AllOpen, Ahead, TypeOK, Islands
  <2>3. decoupled' = [decoupled EXCEPT ![island] = FALSE]
    BY <1>4, <2>2 DEF Couple, SetDecoupler
  <2>4. /\ ~decoupled'[island]
        /\ \A i \in Islands : i # island => decoupled'[i] = decoupled[i]
    BY <1>0, <2>3 DEF TypeOK
  <2> QED BY <2>1, <2>4, EntriesStay DEF Placing, BookInv, Row
<1>5. CASE NoFile
  <2>1. /\ pc \in Placing /\ pc' = "dead"
        /\ UNCHANGED <<avail, kernel, replacing, fabric, decoupled>>
    BY <1>5 DEF NoFile, Goto, Placing, book, client, hw
  <2> QED BY <2>1, EntriesStay
<1>6. CASE Record
  <2>1. /\ pc = "record" /\ pc' = "idle" /\ replacing' = NoIsland
        /\ avail' = [avail EXCEPT ![island] = @ + 1]
        /\ kernel' = [kernel EXCEPT ![island] = module]
        /\ UNCHANGED <<fabric, decoupled>>
    BY <1>6 DEF Record, Goto, hw
  <2>2. avail[island] = 0 /\ Runs(island, module)
    BY <1>0, <2>1 DEF OwnRow, Placing, BookInv, Runs
  <2>3. avail' \in [Islands -> {0, 1}]
    BY <1>0, <2>1, <2>2 DEF BookInv, TypeOK
  <2>4. ASSUME NEW i \in Islands, avail'[i] = 1 PROVE Runs(i, kernel[i])'
    <3>1. CASE i = island
      BY <1>0, <2>1, <2>2, <3>1 DEF TypeOK, Runs, Row
    <3>2. CASE i # island
      BY <1>0, <2>1, <2>4, <3>2 DEF TypeOK, BookInv, Runs, Row
    <3> QED BY <3>1, <3>2
  <2> QED BY <2>1, <2>3, <2>4 DEF BookInv
<1>7. ASSUME NEW i \in Islands, NEW m \in Modules \cup {Missing},
             NoDocument(m, i) \/ Mismatch(m, i) \/ Relocate(m, i)
      PROVE  BookInv'
  <2>1. /\ pc = "idle" /\ pc' \in {"idle", "open"}
        /\ UNCHANGED <<avail, kernel, replacing, fabric, decoupled>>
    BY <1>7 DEF NoDocument, Mismatch, Relocate, Call, book, hw
  <2> QED BY <2>1 DEF BookInv, Runs, Row
<1>8. ASSUME NEW i \in Islands, remove_accelerator(i) \/ backupResources(i)
      PROVE  BookInv'
  <2>1. /\ pc = "idle" /\ pc' = pc /\ replacing = NoIsland
        /\ avail' = [avail EXCEPT ![i] = IF @ > 0 THEN @ - 1 ELSE @]
        /\ replacing' # NoIsland => replacing' = i /\ avail[i] > 0
        /\ UNCHANGED <<kernel, fabric, decoupled>>
    BY <1>8 DEF remove_accelerator, backupResources, set_avail_region, client, hw
  <2>2. /\ avail' \in [Islands -> {0, 1}] /\ avail'[i] = 0
        /\ \A j \in Islands : avail'[j] = 1 => avail[j] = 1
        /\ avail[i] > 0 => avail[i] = 1
    BY <2>1 DEF BookInv
  <2> QED BY <2>1, <2>2 DEF BookInv, Runs, Row
<1>9. CASE rebaseResources
  <2>1. /\ pc = "idle" /\ pc' = pc /\ replacing # NoIsland /\ replacing' = NoIsland
        /\ avail' = [avail EXCEPT ![replacing] = @ + 1]
        /\ UNCHANGED <<kernel, fabric, decoupled>>
    BY <1>9 DEF rebaseResources, hw
  <2>2. replacing \in Islands /\ avail[replacing] = 0 /\ Runs(replacing, kernel[replacing])
    BY <1>0, <2>1 DEF TypeOK, BookInv
  <2>3. /\ avail' \in [Islands -> {0, 1}]
        /\ \A j \in Islands : j # replacing => avail'[j] = avail[j]
    BY <2>1, <2>2 DEF BookInv
  <2> QED BY <2>1, <2>2, <2>3 DEF BookInv, Runs, Row
<1>10. CASE Restart
  BY <1>10 DEF Restart, AllAvailable, BookInv
<1>11. CASE UNCHANGED vars
  BY <1>11 DEF vars, book, place, client, hw, BookInv, Runs, Row
<1> QED
  BY <1>1, <1>2, <1>3, <1>4, <1>5, <1>6, <1>7, <1>8, <1>9, <1>10, <1>11
  DEF Next, Body, try_place_accelerator

(* An island in the book runs, whole and coupled, the module the book names *)
(* there: after placements, removals, failed replacements and restarts,     *)
(* when a port is there and gets whole bitstreams.                          *)
THEOREM BookHolds ==
  ASSUME AllSupported, EnoughDescriptors, WholeStreams, Port # "none"
  PROVE  Spec => []BookIsTrue
<1> DEFINE Inv == Safe /\ AddressesItsRow /\ BookInv
<1>1. Init => Inv
  <2> SUFFICES ASSUME Init PROVE AddressesItsRow /\ BookInv
    BY SafeInit
  <2> QED BY DEF Init, AddressesItsRow, Placing, BookInv, AllAvailable
<1>2. Inv /\ [Next]_vars => Inv'
  BY SafeStep, AddressStep, BookStep
<1>3. Inv => BookIsTrue
  <2> SUFFICES ASSUME BookInv, NEW i \in Islands, avail[i] > 0
               PROVE  avail[i] = 1 /\ Runs(i, kernel[i])
    BY DEF BookIsTrue, Runs
  <2>1. avail[i] = 1
    BY DEF BookInv
  <2> QED BY <2>1 DEF BookInv
<1> QED BY <1>1, <1>2, <1>3, PTL DEF Spec
-----------------------------------------------------------------------------
(* The promise about islands.                                               *)

(* Islands in the book, and one that is backed up, have a module's name.    *)
Named ==
  /\ \A i \in Islands : avail[i] > 0 => kernel[i] \in Modules
  /\ replacing # NoIsland => kernel[replacing] \in Modules

(* Before the last word of a bitstream the island's frames are torn up.     *)
TornMidway == pc = "streaming" => fabric[Row(island)] = Broken

LEMMA NamedStep ==
  ASSUME TypeOK, OwnRow, BookInv, Named, [Next]_vars
  PROVE  Named'
<1> USE IslandFacts DEF Named
<1>1. ASSUME NEW i \in Islands, NEW m \in Modules \cup {Missing}, try_place_accelerator(m, i)
      PROVE  Named'
  BY <1>1 DEF try_place_accelerator, NoDocument, Mismatch, Relocate, book
<1>2. CASE Body /\ ~Record
  BY <1>2 DEF Body, OpenDevices, Decouple, Stream, NoFile, EndStream, Couple, book, client
<1>3. CASE Record
  <2>1. /\ module \in Modules /\ replacing' = NoIsland
        /\ avail' = [avail EXCEPT ![island] = @ + 1]
        /\ kernel' = [kernel EXCEPT ![island] = module]
    BY <1>3 DEF Record, Goto, OwnRow, Placing
  <2>2. ASSUME NEW i \in Islands, avail'[i] > 0 PROVE kernel'[i] \in Modules
    BY <2>1, <2>2 DEF TypeOK
  <2> QED BY <2>1, <2>2
<1>4. ASSUME NEW i \in Islands, remove_accelerator(i) \/ backupResources(i)
      PROVE  Named'
  <2>1. /\ avail' = [avail EXCEPT ![i] = IF @ > 0 THEN @ - 1 ELSE @]
        /\ kernel' = kernel
        /\ replacing' # NoIsland => replacing' = i /\ avail[i] > 0
    BY <1>4 DEF remove_accelerator, backupResources, set_avail_region, client
  <2>2. \A j \in Islands : avail'[j] > 0 => avail[j] > 0
    BY <2>1 DEF TypeOK
  <2> QED BY <2>1, <2>2
<1>5. CASE rebaseResources
  <2>1. /\ avail' = [avail EXCEPT ![replacing] = @ + 1] /\ kernel' = kernel
        /\ replacing # NoIsland /\ replacing' = NoIsland
    BY <1>5 DEF rebaseResources
  <2>2. \A j \in Islands : avail'[j] > 0 => avail[j] > 0 \/ j = replacing
    BY <2>1 DEF TypeOK
  <2> QED BY <2>1, <2>2
<1>6. CASE Restart
  BY <1>6 DEF Restart, AllAvailable
<1>7. CASE UNCHANGED vars
  BY <1>7 DEF vars, book, client
<1> QED
  BY <1>1, <1>2, <1>3, <1>4, <1>5, <1>6, <1>7 DEF Next

(* The first word that reaches an open port tears the island's row up.      *)
LEMMA StreamTears ==
  ASSUME WholeStreams, Port # "none", Safe, AddressesItsRow, Stream
  PROVE  fabric' = [fabric EXCEPT ![Row(island)] = Broken] /\ decoupled[island]
<1>1. /\ TypeOK /\ pc = "stream" /\ module \in Modules
      /\ Addressed \subseteq {Row(island)} /\ Row(island) \in Addressed
  BY DEF Safe, OwnRow, AddressesItsRow, Stream, Goto, Placing
<1>2. AllOpen /\ decoupled[island]
  BY <1>1, LimitAssumption DEF Safe, Shielded, Stream, TypeOK
<1>3. Sent(module) > 0
  <2>1. Sent(module) = Meta[module].bitstream_len
    BY <1>1, <1>2, SentWhole
  <2> QED BY <1>1, <2>1, LengthPositive
<1>4. fabric' = [r \in Rows |-> IF r \in Addressed THEN Broken ELSE fabric[r]]
  BY <1>3 DEF Stream
<1>5. Addressed = {Row(island)}
  BY <1>1
<1>6. fabric \in [Rows -> Modules \cup {NoModule, Broken}]
  BY <1>1 DEF TypeOK
<1> HIDE DEF Addressed, Row
<1> QED BY <1>2, <1>4, <1>5, <1>6

(* The last one makes it the module's.                                      *)
LEMMA EndStreamFills ==
  ASSUME WholeStreams, Port # "none", Safe, AddressesItsRow, EndStream
  PROVE  fabric' = [fabric EXCEPT ![Row(island)] = module] /\ decoupled[island]
<1>1. /\ TypeOK /\ pc = "streaming" /\ module \in Modules
      /\ Addressed \subseteq {Row(island)} /\ Row(island) \in Addressed
  BY DEF Safe, OwnRow, AddressesItsRow, EndStream, Goto, Placing
<1>2. AllOpen /\ decoupled[island]
  BY <1>1 DEF Safe, Shielded
<1>3. Sent(module) = Meta[module].bitstream_len
  BY <1>1, <1>2, SentWhole
<1>4. fabric' = [r \in Rows |-> IF r \in Addressed THEN module ELSE fabric[r]]
  BY <1>3 DEF EndStream
<1>5. Addressed = {Row(island)}
  BY <1>1
<1>6. fabric \in [Rows -> Modules \cup {NoModule, Broken}]
  BY <1>1 DEF TypeOK
<1> HIDE DEF Addressed, Row
<1> QED BY <1>2, <1>4, <1>5, <1>6

LEMMA TornStep ==
  ASSUME WholeStreams, Port # "none", Safe, AddressesItsRow, TornMidway, [Next]_vars
  PROVE  TornMidway'
<1> USE IslandFacts
<1>1. CASE Stream
  <2>1. fabric' = [fabric EXCEPT ![Row(island)] = Broken] /\ island' = island
    BY <1>1, StreamTears DEF Stream, place
  <2>2. Row(island) \in Rows /\ fabric \in [Rows -> Modules \cup {NoModule, Broken}]
    BY DEF Safe, TypeOK
  <2> QED BY <2>1, <2>2 DEF TornMidway, Row
<1>2. CASE UNCHANGED vars
  BY <1>2 DEF vars, place, hw, TornMidway, Row
<1>3. ASSUME ~Stream, Next PROVE pc' # "streaming"
  BY <1>3 DEF Next, Body, try_place_accelerator, NoDocument, Mismatch, Relocate, Call,
     OpenDevices, Decouple, NoFile, EndStream, Couple, Record, remove_accelerator,
     backupResources, rebaseResources, Restart, Goto
<1> QED BY <1>1, <1>2, <1>3 DEF TornMidway

PromiseInv == Safe /\ AddressesItsRow /\ BookInv /\ Named /\ TornMidway

(* The abstract view of an island, and what hides behind its names.         *)
Serves   == [i \in Islands |-> IF avail[i] > 0 THEN kernel[i] ELSE NoModule]
FramesOf == [i \in Islands |-> fabric[Row(i)]]

LEMMA ViewFacts ==
  ASSUME PromiseInv
  PROVE  /\ \A i \in Islands : avail[i] = 0 => Serves[i] = NoModule
         /\ pc \in Placing => Serves[island] = NoModule
         /\ island \in Islands /\ decoupled \in [Islands -> BOOLEAN]
         /\ avail \in [Islands -> {0, 1}]
BY DEF PromiseInv, Safe, OwnRow, TypeOK, BookInv, Serves

(* A row that changes is a change of its island's frames.                   *)
LEMMA RowIsIsland ==
  ASSUME TypeOK, NEW i \in Islands, NEW f, fabric' = [fabric EXCEPT ![Row(i)] = f]
  PROVE  FramesOf' = [FramesOf EXCEPT ![i] = f]
<1>1. ASSUME NEW j \in Islands
      PROVE  fabric'[Row(j)] = IF j = i THEN f ELSE fabric[Row(j)]
  <2>1. Row(j) \in Rows /\ (Row(j) = Row(i) <=> j = i)
    BY IslandFacts DEF Row
  <2> QED BY <2>1 DEF TypeOK
<1>2. FramesOf' = [j \in Islands |-> fabric'[Row(j)]]
  BY DEF FramesOf, Row
<1> QED BY <1>1, <1>2 DEF FramesOf

(* An island that comes into the book or goes out of it.                    *)
LEMMA EntryIsService ==
  ASSUME NEW i \in Islands, NEW v,
         \A j \in Islands \ {i} : avail'[j] = avail[j] /\ kernel'[j] = kernel[j],
         v = IF avail'[i] > 0 THEN kernel'[i] ELSE NoModule
  PROVE  Serves' = [Serves EXCEPT ![i] = v]
<1>1. Serves' = [j \in Islands |-> IF avail'[j] > 0 THEN kernel'[j] ELSE NoModule]
  BY DEF Serves
<1>2. \A j \in Islands : Serves'[j] = IF j = i THEN v ELSE Serves[j]
  BY <1>1 DEF Serves
<1> QED BY <1>1, <1>2 DEF Serves

LEMMA IslandsInit == Init => Promise!Init
<1> SUFFICES ASSUME Init PROVE Promise!Init
  OBVIOUS
<1>1. \A i \in Islands : avail[i] = 0 /\ fabric[Row(i)] = NoModule
  BY IslandFacts DEF Init, AllAvailable
<1> QED BY <1>1 DEF Init, Promise!Init

(* The steps of the placement.                                              *)
LEMMA PlacementSteps ==
  ASSUME WholeStreams, Port # "none", PromiseInv, Body
  PROVE  Promise!Next \/ UNCHANGED <<Serves, decoupled, FramesOf>>
<1> USE IslandFacts, ViewFacts
<1>1. CASE OpenDevices \/ NoFile
  BY <1>1 DEF OpenDevices, NoFile, book, hw, Serves, FramesOf, Row
<1>2. CASE Decouple
  <2>1. /\ pc \in Placing /\ UNCHANGED <<Serves, FramesOf>>
        /\ decoupled' \in {decoupled, [decoupled EXCEPT ![island] = TRUE]}
    BY <1>2 DEF Decouple, SetDecoupler, Goto, Placing, book, Serves, FramesOf, Row
  <2>2. decoupled' = decoupled \/ Promise!Shield(island)
    BY <2>1 DEF Promise!Shield, Serves, FramesOf
  <2> QED BY <2>1, <2>2 DEF Promise!Next
<1>3. CASE Stream
  <2>1. fabric' = [fabric EXCEPT ![Row(island)] = Broken] /\ decoupled[island]
    BY <1>3, StreamTears DEF PromiseInv
  <2>2. FramesOf' = [FramesOf EXCEPT ![island] = Broken]
    BY <2>1, RowIsIsland DEF PromiseInv, Safe
  <2>3. pc \in Placing /\ UNCHANGED <<Serves, decoupled>>
    BY <1>3 DEF Stream, Goto, Placing, book, Serves
  <2>4. Promise!Tear(island)
    BY <2>1, <2>2, <2>3 DEF Promise!Tear, Serves, FramesOf
  <2> QED BY <2>4 DEF Promise!Next
<1>4. CASE EndStream
  <2>1. fabric' = [fabric EXCEPT ![Row(island)] = module] /\ decoupled[island]
    BY <1>4, EndStreamFills DEF PromiseInv
  <2>2. FramesOf' = [FramesOf EXCEPT ![island] = module]
    BY <2>1, RowIsIsland DEF PromiseInv, Safe
  <2>3. /\ module \in Modules /\ FramesOf[island] = Broken
        /\ UNCHANGED <<Serves, decoupled>>
    BY <1>4 DEF EndStream, Goto, Placing, PromiseInv, Safe, OwnRow, TornMidway, book,
       Serves, FramesOf
  <2>4. Promise!Fill(island, module)
    BY <2>1, <2>2, <2>3 DEF Promise!Fill, Serves, FramesOf
  <2> QED BY <2>3, <2>4 DEF Promise!Next
<1>5. CASE Couple
  <2>1. /\ pc = "couple" /\ UNCHANGED <<Serves, FramesOf>>
        /\ decoupled' \in {decoupled, [decoupled EXCEPT ![island] = FALSE]}
    BY <1>5 DEF Couple, SetDecoupler, Goto, book, Serves, FramesOf, Row
  <2>2. FramesOf[island] \in Modules
    BY <2>1 DEF PromiseInv, Safe, OwnRow, Placing, BookInv, FramesOf
  <2>3. decoupled[island]
    BY <2>1 DEF PromiseInv, Safe, Shielded
  <2>4. decoupled' = decoupled \/ Promise!Unshield(island)
    BY <2>1, <2>2, <2>3 DEF Promise!Unshield, Serves, FramesOf
  <2> QED BY <2>1, <2>4 DEF Promise!Next
<1>6. CASE Record
  <2>1. /\ pc = "record" /\ UNCHANGED <<FramesOf, decoupled>>
        /\ avail' = [avail EXCEPT ![island] = @ + 1]
        /\ kernel' = [kernel EXCEPT ![island] = module]
    BY <1>6 DEF Record, Goto, hw, FramesOf, Row
  <2>2. /\ avail[island] = 0 /\ module \in Modules
        /\ FramesOf[island] = module /\ ~decoupled[island]
    BY <2>1 DEF PromiseInv, Safe, OwnRow, Placing, BookInv, FramesOf
  <2>3. /\ island \in Islands /\ module = IF avail'[island] > 0 THEN kernel'[island] ELSE NoModule
        /\ \A j \in Islands \ {island} : avail'[j] = avail[j] /\ kernel'[j] = kernel[j]
    BY <2>1, <2>2 DEF PromiseInv, Safe, TypeOK
  <2>4. Serves' = [Serves EXCEPT ![island] = module]
    BY <2>3, EntryIsService
  <2>5. ASSUME NEW i \in Islands, i = island PROVE Promise!Occupy(i)
    BY <2>1, <2>2, <2>4, <2>5 DEF Promise!Occupy, Serves, FramesOf, Placing
  <2> QED BY <2>3, <2>5 DEF Promise!Next
<1> QED BY <1>1, <1>2, <1>3, <1>4, <1>5, <1>6 DEF Body

(* The other calls, and the death of the process.                           *)
LEMMA OtherSteps ==
  ASSUME PromiseInv, [Next]_vars, ~Body
  PROVE  Promise!Next \/ UNCHANGED <<Serves, decoupled, FramesOf>>
<1> USE IslandFacts, ViewFacts
<1>1. ASSUME NEW i \in Islands, NEW m \in Modules \cup {Missing}, try_place_accelerator(m, i)
      PROVE  UNCHANGED <<Serves, decoupled, FramesOf>>
  BY <1>1 DEF try_place_accelerator, NoDocument, Mismatch, Relocate, book, hw,
     Serves, FramesOf, Row
<1>2. ASSUME NEW i \in Islands, remove_accelerator(i) \/ backupResources(i)
      PROVE  Promise!Release(i)
  <2>1. /\ avail' = [avail EXCEPT ![i] = IF @ > 0 THEN @ - 1 ELSE @]
        /\ UNCHANGED <<kernel, FramesOf, decoupled>>
    BY <1>2 DEF remove_accelerator, backupResources, set_avail_region, hw, FramesOf, Row
  <2>2. avail'[i] = 0 /\ \A j \in Islands \ {i} : avail'[j] = avail[j]
    BY <2>1
  <2>3. Serves' = [Serves EXCEPT ![i] = NoModule]
    BY <2>1, <2>2, EntryIsService
  <2> QED BY <2>1, <2>3 DEF Promise!Release, Serves, FramesOf
<1>3. CASE rebaseResources
  <2>1. /\ pc = "idle" /\ replacing # NoIsland
        /\ avail' = [avail EXCEPT ![replacing] = @ + 1]
        /\ UNCHANGED <<kernel, FramesOf, decoupled>>
    BY <1>3 DEF rebaseResources, hw, FramesOf, Row
  <2>2. /\ replacing \in Islands /\ avail[replacing] = 0 /\ kernel[replacing] \in Modules
        /\ FramesOf[replacing] = kernel[replacing] /\ ~decoupled[replacing]
    BY <2>1 DEF PromiseInv, Safe, TypeOK, BookInv, Runs, Named, FramesOf
  <2>3. avail'[replacing] = 1 /\ \A j \in Islands \ {replacing} : avail'[j] = avail[j]
    BY <2>1, <2>2
  <2>4. Serves' = [Serves EXCEPT ![replacing] = kernel[replacing]]
    BY <2>1, <2>2, <2>3, EntryIsService
  <2>5. ASSUME NEW i \in Islands, i = replacing PROVE Promise!Occupy(i)
    BY <2>1, <2>2, <2>4, <2>5 DEF Promise!Occupy, Serves, FramesOf
  <2> QED BY <2>2, <2>5 DEF Promise!Next
<1>4. CASE Restart
  <2>1. \A i \in Islands : avail'[i] = 0
    BY <1>4 DEF Restart, AllAvailable
  <2>2. Serves' = [i \in Islands |-> NoModule]
    BY <2>1 DEF Serves
  <2>3. UNCHANGED <<decoupled, FramesOf>>
    BY <1>4 DEF Restart, hw, FramesOf, Row
  <2> QED BY <2>2, <2>3 DEF Promise!Next, Promise!Forget, Serves, FramesOf
<1>5. CASE UNCHANGED vars
  BY <1>5 DEF vars, book, hw, Serves, FramesOf, Row
<1> QED BY <1>1, <1>2, <1>3, <1>4, <1>5 DEF Next, Promise!Next

(* The controller and the hardware keep the promise about every island:     *)
(* what is in service is whole, coupled and untouched until it is released, *)
(* over any number of placements, failed replacements and killed processes. *)
THEOREM IslandsKept ==
  ASSUME AllSupported, EnoughDescriptors, WholeStreams, Port # "none"
  PROVE  Spec => ImplementsIslands
<1>1. Init => PromiseInv
  <2> SUFFICES ASSUME Init
               PROVE  AddressesItsRow /\ BookInv /\ Named /\ TornMidway
    BY SafeInit DEF PromiseInv
  <2> QED BY DEF Init, AddressesItsRow, Placing, BookInv, AllAvailable, Named, TornMidway
<1>2. PromiseInv /\ [Next]_vars => PromiseInv'
  BY SafeStep, AddressStep, BookStep, NamedStep, TornStep DEF PromiseInv, Safe
<1>3. PromiseInv /\ [Next]_vars => [Promise!Next]_(Promise!vars)
  BY PlacementSteps, OtherSteps DEF Promise!vars, Serves, FramesOf
<1> QED BY <1>1, <1>2, <1>3, IslandsInit, PTL DEF Spec, ImplementsIslands, Promise!Spec

-----------------------------------------------------------------------------
(* A replacement that fails leaves no trace in the book.                    *)

(* While an island is backed up, the book before the backup is the one of   *)
(* now with the island in it again and the marks of the backup.             *)
BackupInv ==
  replacing # NoIsland =>
    /\ replacing \in Islands
    /\ before = <<[avail EXCEPT ![replacing] = @ + 1], temp_resources>>

LEMMA BackupKept ==
  ASSUME BackupInv, UNCHANGED <<replacing, before, avail, temp_resources>>
  PROVE  BackupInv'
BY DEF BackupInv

LEMMA BackupStep ==
  ASSUME TypeOK, BackupInv, [Next]_vars PROVE BackupInv'
<1> USE DEF book, client, hw
<1>1. ASSUME NEW i \in Islands, NEW m \in Modules \cup {Missing}, try_place_accelerator(m, i)
      PROVE  BackupInv'
  BY <1>1, BackupKept DEF try_place_accelerator, NoDocument, Mismatch, Relocate
<1>2. ASSUME NEW i \in Islands, remove_accelerator(i) PROVE BackupInv'
  BY <1>2 DEF remove_accelerator, BackupInv
<1>3. ASSUME NEW i \in Islands, backupResources(i) PROVE BackupInv'
  <2>1. /\ avail[i] > 0 /\ avail' = [avail EXCEPT ![i] = avail[i] - 1]
        /\ replacing' = i /\ before' = <<avail, resources>> /\ temp_resources' = resources
    BY <1>3 DEF backupResources, set_avail_region
  <2>2. avail \in [Islands -> Nat]
    BY DEF TypeOK
  <2>3. [avail' EXCEPT ![i] = @ + 1] = avail
    <3>1. avail' \in [Islands -> Int] /\ avail'[i] + 1 = avail[i]
          /\ \A j \in Islands \ {i} : avail'[j] = avail[j]
      BY <2>1, <2>2
    <3> QED BY <2>2, <3>1
  <2> QED BY <2>1, <2>3 DEF BackupInv
<1>4. CASE rebaseResources \/ Record \/ Restart
  BY <1>4 DEF rebaseResources, Record, Restart, BackupInv
<1>5. CASE Body /\ ~Record
  BY <1>5, BackupKept DEF Body, OpenDevices, Decouple, Stream, NoFile, EndStream, Couple
<1>6. CASE UNCHANGED vars
  BY <1>6, BackupKept DEF vars
<1> QED BY <1>1, <1>2, <1>3, <1>4, <1>5, <1>6 DEF Next

(* Whatever failed between a backup and rebaseResources, the book is again  *)
(* what it was before the backup, for every device, island and metafile.    *)
THEOREM FailureRestores == Spec => ReplacementRestores
<1>1. Init => BackupInv
  BY DEF Init, BackupInv
<1>2. BackupInv /\ [Next]_vars => [rebaseResources => <<avail', resources'>> = before]_vars
  <2> SUFFICES ASSUME BackupInv, rebaseResources
               PROVE  <<avail', resources'>> = before
    OBVIOUS
  <2> QED BY DEF rebaseResources, BackupInv
<1>3. TypeOK /\ BackupInv /\ [Next]_vars => BackupInv'
  BY BackupStep
<1> QED BY <1>1, <1>2, <1>3, ConfigTypes, PTL DEF Spec, ReplacementRestores
=============================================================================
