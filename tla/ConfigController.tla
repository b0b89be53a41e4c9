-------------------------- MODULE ConfigController --------------------------
(***************************************************************************)
(* The configuration controller (config-api.c with bitman.c and the part   *)
(* of xmltree.c it calls): it places an accelerator, described by an XML   *)
(* metafile, into an island of the FPGA, and keeps the book of islands.    *)
(*                                                                         *)
(* One thread makes the calls.  try_place_accelerator is cut where the     *)
(* hardware sees it: the decoupler of the island is set, the bitstream is  *)
(* streamed, the decoupler is released, the book is updated.  The process  *)
(* may be killed at any of these points; the hardware keeps its state and  *)
(* the next process starts from init_resource.                             *)
(***************************************************************************)
EXTENDS Integers, Sequences

CONSTANTS
  NoOfIslands, NoOfColumns,
  ResourceString,     \* the device's columns, left to right
  Modules, Meta,      \* metafiles, and what each says: see MetaType
  Missing,            \* a file xmlReadFile cannot parse
  Port,               \* "icap", "pcap" or "none": the macro of the build
  MaxFds,             \* descriptors a process may hold
  Block,              \* words stdio holds back: its buffer, in words
  Trailer,            \* 0x07FC0000, the FAR value that is no frame address
  NoModule, Broken,
  MaxCalls, MaxKills  \* bounds: placements, and kills, of a behaviour

Islands == 0..(NoOfIslands - 1)
Columns == 0..(NoOfColumns - 1)
Cells   == Islands \X Columns
Row(i)  == i + 3                        \* "Fixed for Trenz board"
Rows    == 0..(NoOfIslands + 2)

(* height, width and start_column; a metafile without the tags says nothing *)
(* of them.  fars: the words behind the FAR commands of the bitstream, each *)
(* the row it addresses, or Trailer.                                        *)
Geometry == [height : Nat, width : Nat, start_column : Nat]
MetaType(m) ==
  /\ Meta[m].target \in {"XCZU9EG", "other"}
  /\ Meta[m].RS \in Seq({ResourceString[k] : k \in 1..Len(ResourceString)})
  /\ Len(Meta[m].RS) <= NoOfColumns
  /\ Meta[m].geometry \subseteq Geometry /\ \A g, h \in Meta[m].geometry : g = h
  /\ Meta[m].fars \in Seq(Rows \cup {Trailer})
  /\ Meta[m].bitstream_len \in Nat \ {0}

ASSUME DeviceAssumption ==
  /\ NoOfIslands \in Nat \ {0} /\ NoOfColumns \in Nat \ {0}
  /\ Len(ResourceString) >= NoOfColumns /\ Trailer \notin Rows
ASSUME ModuleAssumption ==
  /\ Missing \notin Modules /\ NoModule \notin Modules /\ Broken \notin Modules \cup {NoModule}
  /\ \A m \in Modules : MetaType(m)
ASSUME LimitAssumption ==
  /\ Port \in {"icap", "pcap", "none"}
  /\ MaxFds \in Nat /\ MaxFds >= 3 /\ Block \in Nat \ {0} /\ MaxCalls \in Nat /\ MaxKills \in Nat

VARIABLES
  avail, kernel,              \* islands[i].avail and .KernelName
  resources, temp_resources,
  geometry,                   \* height, width, start_column: xmltree.c globals
  inData,                     \* the FAR words of the parsed bitstream
  pc, island, module,         \* the running try_place_accelerator
  opened,                     \* device files it could open, of those it tries
  result,                     \* what the last call returned
  fds,                        \* descriptors the process holds
  replacing, before,          \* island backed up, and the book at that time
  decoupled, fabric,          \* hardware: decouplers, and each row's frames
  calls, kills

book    == <<avail, kernel, resources, temp_resources>>
place   == <<island, module, opened, inData>>
client  == <<replacing, before, calls>>
hw      == <<decoupled, fabric>>
vars == <<book, geometry, pc, place, result, fds, client, hw, kills>>

NoIsland == -1
RC == {"none", "SUCCESS", "FAILURE", "RESOURCE_MISMATCH"}
TypeOK ==
  /\ avail \in [Islands -> Nat] /\ kernel \in [Islands -> Modules \cup {NoModule}]
  /\ resources \in [Cells -> {0, 1}] /\ temp_resources \in [Cells -> {0, 1}]
  /\ geometry \in Geometry
  /\ inData \in Seq(Rows \cup {Trailer})
  /\ pc \in {"idle", "open", "decouple", "stream", "streaming", "couple", "record", "dead"}
  /\ island \in Islands /\ module \in Modules \cup {NoModule}
  /\ opened \in 0..(NoOfIslands + 1) /\ result \in RC /\ fds \in 0..MaxFds
  /\ replacing \in Islands \cup {NoIsland}
  /\ decoupled \in [Islands -> BOOLEAN]
  /\ fabric \in [Rows -> Modules \cup {NoModule, Broken}]

-----------------------------------------------------------------------------
(* Helpers.                                                                 *)

IslandString == SubSeq(ResourceString, 1, NoOfColumns - 1)

(* Mutant: an occupied island is not turned down.                           *)
FootprintOnly(i, rs) ==
  \A k \in 0..(Len(rs) - 1) : SubSeq(rs, 1, k) = SubSeq(IslandString, 1, k)

(* strncmp over the first i characters, for each i below the length of the  *)
(* module's string.                                                         *)
check_available_region_RS(i, rs) ==
  /\ avail[i] = 0
  /\ \A k \in 0..(Len(rs) - 1) : SubSeq(rs, 1, k) = SubSeq(IslandString, 1, k)

calNewFAR(m, i) == IF Meta[m].target = "XCZU9EG" THEN Row(i) ELSE 0

PatchedFirst(m, i) ==       \* mutant: stops at the first FAR command
  [k \in 1..Len(Meta[m].fars) |->
     IF k = 1 /\ Meta[m].fars[k] # Trailer THEN calNewFAR(m, i) ELSE Meta[m].fars[k]]
Patched(m, i) ==
  [k \in 1..Len(Meta[m].fars) |->
     IF Meta[m].fars[k] # Trailer THEN calNewFAR(m, i) ELSE Trailer]

(* The globals of xmltree.c keep what an earlier metafile left in them.     *)
ParsedGeometry(m) ==
  IF Meta[m].geometry = {} THEN geometry ELSE CHOOSE g \in Meta[m].geometry : TRUE

Region(i, g) ==
  (i..(i + g.height - 1)) \X (g.start_column..(g.start_column + g.width - 1))
Marked(cells, value) ==
  [c \in Cells |-> IF c \in cells THEN value ELSE resources[c]]

(* Files are opened in a fixed order: the ICAP, if the build uses it, then  *)
(* the decouplers of islands 0, 1, ...                                      *)
Ahead       == IF Port = "icap" THEN 1 ELSE 0
DcplOpen(i) == opened > i + Ahead

SentShort(m) == Meta[m].bitstream_len - 1     \* mutant

(* Words that reach the port.  The file for the PCAP is never closed: what  *)
(* is left in its last buffer is not in the file.                           *)
Sent(m) ==
  CASE Port = "icap" -> IF opened > 0 THEN Meta[m].bitstream_len ELSE 0
    [] Port = "pcap" -> (Meta[m].bitstream_len \div Block) * Block
    [] OTHER -> 0

Addressed == {inData[k] : k \in 1..Len(inData)} \ {Trailer}

-----------------------------------------------------------------------------
(* A process starts with init_resource; the kernel has closed what an       *)
(* earlier process held.  Descriptors 0 to 2 are the terminal's.            *)

AllAvailable == [i \in Islands |-> 0]
NoKernels    == [i \in Islands |-> NoModule]
AllClear     == [c \in Cells |-> 0]
NoGeometry   == [height |-> 0, width |-> 0, start_column |-> 0]

Init ==
  /\ avail = AllAvailable /\ kernel = NoKernels
  /\ resources = AllClear /\ temp_resources = AllClear
  /\ geometry = NoGeometry
  /\ pc = "idle" /\ island = 0 /\ module = NoModule /\ opened = 0 /\ inData = << >>
  /\ result = "none" /\ fds = 3
  /\ replacing = NoIsland /\ before = << >> /\ calls = 0
  /\ decoupled = [i \in Islands |-> FALSE] /\ fabric = [r \in Rows |-> NoModule]
  /\ kills = 0

Restart ==
  /\ kills < MaxKills
  /\ kills' = kills + 1
  /\ avail' = AllAvailable /\ kernel' = NoKernels
  /\ resources' = AllClear /\ temp_resources' = AllClear
  /\ geometry' = NoGeometry
  /\ pc' = "idle" /\ island' = 0 /\ module' = NoModule /\ opened' = 0 /\ inData' = << >>
  /\ result' = "none" /\ fds' = 3
  /\ replacing' = NoIsland /\ before' = << >>
  /\ UNCHANGED <<calls, hw>>

-----------------------------------------------------------------------------
(* try_place_accelerator.                                                   *)

(* A program that has backed an island up places into that island next, and *)
(* puts the backup back if that fails.                                      *)
Call(i) ==
  /\ pc = "idle" /\ calls < MaxCalls
  /\ replacing # NoIsland => replacing = i /\ result = "none"
  /\ calls' = calls + 1

(* xmlReadFile needs a file it can parse, and a descriptor for it.          *)
NoDocument(m, i) ==
  /\ Call(i)
  /\ m = Missing \/ fds = MaxFds
  /\ result' = "FAILURE"
  /\ UNCHANGED <<book, geometry, pc, place, fds, replacing, before, hw, kills>>

Mismatch(m, i) ==
  /\ Call(i)
  /\ m \in Modules /\ fds < MaxFds
  /\ geometry' = ParsedGeometry(m)
  /\ ~check_available_region_RS(i, Meta[m].RS)
  /\ result' = "RESOURCE_MISMATCH"
  /\ UNCHANGED <<book, pc, place, fds, replacing, before, hw, kills>>

Relocate(m, i) ==
  /\ Call(i)
  /\ m \in Modules /\ fds < MaxFds
  /\ geometry' = ParsedGeometry(m)
  /\ check_available_region_RS(i, Meta[m].RS)
  /\ inData' = Patched(m, i)
  /\ pc' = "open" /\ island' = i /\ module' = m /\ opened' = 0
  /\ result' = "none"
  /\ UNCHANGED <<book, fds, replacing, before, hw, kills>>

Goto(from, to) == pc = from /\ pc' = to

(* Opens the device files, as many as the process may still hold, and never *)
(* closes them.                                                             *)
OpenDevices ==
  /\ Goto("open", "decouple")
  /\ opened' = IF MaxFds - fds < NoOfIslands + Ahead THEN MaxFds - fds ELSE NoOfIslands + Ahead
  /\ fds' = fds + opened'
  /\ UNCHANGED <<book, geometry, island, module, inData, result, client, hw, kills>>

(* A write to a descriptor of -1 has no effect.                             *)
SetDecoupler(on) == decoupled' = IF DcplOpen(island) THEN [decoupled EXCEPT ![island] = on]
                                 ELSE decoupled

Decouple ==
  /\ Goto("decouple", "stream")
  /\ SetDecoupler(TRUE)
  /\ UNCHANGED <<book, geometry, place, result, fds, client, fabric, kills>>

(* Mutant: an fopen that fails is not noticed.                              *)
StreamAnyway ==
  /\ Goto("stream", "streaming")
  /\ fds' = IF Port = "pcap" /\ fds < MaxFds THEN fds + 1 ELSE fds
  /\ fabric' = IF Sent(module) > 0 THEN [r \in Rows |-> IF r \in Addressed THEN Broken ELSE fabric[r]]
               ELSE fabric
  /\ UNCHANGED <<book, geometry, place, result, client, decoupled, kills>>

(* While the words come in the frames of the addressed rows are neither the *)
(* old ones nor the new ones.                                               *)
Stream ==
  /\ Goto("stream", "streaming")
  /\ Port = "pcap" => fds < MaxFds
  /\ fds' = IF Port = "pcap" THEN fds + 1 ELSE fds      \* fopen, no fclose
  /\ fabric' = IF Sent(module) > 0 THEN [r \in Rows |-> IF r \in Addressed THEN Broken ELSE fabric[r]]
               ELSE fabric
  /\ UNCHANGED <<book, geometry, place, result, client, decoupled, kills>>

(* fopen fails, and fwrite dereferences the NULL it returned.               *)
NoFile ==
  /\ Goto("stream", "dead")
  /\ Port = "pcap" /\ fds = MaxFds
  /\ UNCHANGED <<book, geometry, place, result, fds, client, hw, kills>>

EndStream ==
  /\ Goto("streaming", "couple")
  /\ fabric' = IF Sent(module) = Meta[module].bitstream_len
               THEN [r \in Rows |-> IF r \in Addressed THEN module ELSE fabric[r]]
               ELSE fabric
  /\ UNCHANGED <<book, geometry, place, result, fds, client, decoupled, kills>>

CoupleWithOne ==            \* mutant: writes "1" again
  /\ Goto("couple", "record")
  /\ SetDecoupler(TRUE)
  /\ UNCHANGED <<book, geometry, place, result, fds, client, fabric, kills>>
Couple ==
  /\ Goto("couple", "record")
  /\ SetDecoupler(FALSE)
  /\ UNCHANGED <<book, geometry, place, result, fds, client, fabric, kills>>

(* set_occupied_region, setResourceOccupied and the names.  Cells outside   *)
(* the array are not modelled: modules fit the device.                      *)
Record ==
  /\ Goto("record", "idle")
  /\ avail' = [avail EXCEPT ![island] = @ + 1]
  /\ resources' = Marked(Region(island, geometry), 1)
  /\ kernel' = [kernel EXCEPT ![island] = module]
  /\ result' = "SUCCESS"
  /\ replacing' = NoIsland /\ before' = << >>
  /\ UNCHANGED <<temp_resources, geometry, place, fds, calls, hw, kills>>

-----------------------------------------------------------------------------
(* The other calls.                                                         *)

set_avail_region_below(i) == avail' = [avail EXCEPT ![i] = @ - 1]     \* mutant
set_avail_region(i) == avail' = [avail EXCEPT ![i] = IF @ > 0 THEN @ - 1 ELSE @]

remove_accelerator(i) ==
  /\ pc = "idle" /\ replacing = NoIsland
  /\ set_avail_region(i)
  /\ result' = "SUCCESS"
  /\ UNCHANGED <<kernel, resources, temp_resources, geometry, pc, place, fds, client, hw, kills>>

(* Mutant: the cells are cleared before they are saved.                     *)
backupResourcesLate(i) ==
  /\ pc = "idle" /\ replacing = NoIsland /\ avail[i] > 0 /\ calls < MaxCalls
  /\ resources' = Marked(UNION {Region(i, g) : g \in Meta[kernel[i]].geometry}, 0)
  /\ temp_resources' = resources'
  /\ set_avail_region(i)
  /\ replacing' = i /\ before' = <<avail, resources>> /\ result' = "none"
  /\ UNCHANGED <<kernel, geometry, pc, place, fds, calls, hw, kills>>

(* The program backs up an island that is occupied, by the geometry of the  *)
(* module in it.                                                            *)
backupResources(i) ==
  /\ pc = "idle" /\ replacing = NoIsland /\ avail[i] > 0 /\ calls < MaxCalls
  /\ temp_resources' = resources
  /\ resources' = Marked(UNION {Region(i, g) : g \in Meta[kernel[i]].geometry}, 0)
  /\ set_avail_region(i)
  /\ replacing' = i /\ before' = <<avail, resources>> /\ result' = "none"
  /\ UNCHANGED <<kernel, geometry, pc, place, fds, calls, hw, kills>>

rebaseResources ==
  /\ pc = "idle" /\ replacing # NoIsland /\ result \in {"FAILURE", "RESOURCE_MISMATCH"}
  /\ resources' = temp_resources
  /\ avail' = [avail EXCEPT ![replacing] = @ + 1]
  /\ replacing' = NoIsland /\ before' = << >> /\ result' = "none"
  /\ UNCHANGED <<kernel, temp_resources, geometry, pc, place, fds, calls, hw, kills>>

report_available_regions == {i \in Islands : avail[i] = 0}

-----------------------------------------------------------------------------
try_place_accelerator(m, i) == NoDocument(m, i) \/ Mismatch(m, i) \/ Relocate(m, i)
Body ==
  OpenDevices \/ Decouple \/ Stream \/ NoFile \/ EndStream \/ Couple \/ Record

Next ==
  \/ \E i \in Islands : \/ \E m \in Modules \cup {Missing} : try_place_accelerator(m, i)
                        \/ remove_accelerator(i)
                        \/ backupResources(i)
  \/ rebaseResources
  \/ Body
  \/ Restart

(* The thread that placed runs on.                                          *)
Spec == Init /\ [][Next]_vars /\ WF_vars(Body)

-----------------------------------------------------------------------------
(* Properties.                                                              *)

(* Frames of an island change only while its decoupler shields the rest of  *)
(* the system from it ("de-activate the PR module before partial            *)
(* reconfiguration", config-api.c:282).                                     *)
Protected ==
  [][\A i \in Islands : fabric'[Row(i)] # fabric[Row(i)] => decoupled[i]]_vars

(* A placement changes frames of its own island only, never of the static   *)
(* system or of an island that runs an accelerator: the FAR commands of a   *)
(* bitstream that was built for another row are all moved ("Failed to cal   *)
(* new FAR value", config-api.c:265-266, is for a FAR that cannot be).      *)
OnlyItsIsland ==
  [][\A r \in Rows : fabric'[r] # fabric[r] =>
       \E i \in report_available_regions : r = Row(i) /\ i = island]_vars

(* An island that the system is coupled to never holds the remains of an    *)
(* interrupted configuration, also when the process was killed.             *)
CoupledIsWhole ==
  \A i \in Islands : ~decoupled[i] => fabric[Row(i)] # Broken

(* An island is in the book once, and then the module the book names is in  *)
(* its frames and is coupled to the system.                                 *)
BookIsTrue ==
  \A i \in Islands : avail[i] > 0 =>
    avail[i] = 1 /\ fabric[Row(i)] = kernel[i] /\ ~decoupled[i]

(* "Region is available when the resource[i][j] is 0 while it is occupied   *)
(* when 1" (config-api.c:25).  The other book, resources[][], against       *)
(* islands[]: between placements and with no replacement under way, an      *)
(* island that report_available_regions reports has no cell marked ...      *)
AvailableIsFree ==
  pc = "idle" /\ replacing = NoIsland =>
    \A i \in report_available_regions : \A c \in Columns : resources[<<i, c>>] = 0

(* ... and in the row of an island that is occupied some cell is marked.    *)
OccupiedIsMarked ==
  \A i \in Islands : avail[i] > 0 => \E c \in Columns : resources[<<i, c>>] = 1

(* A replacement that fails leaves the book as it was before the backup.    *)
ReplacementRestores == [][rebaseResources => <<avail', resources'>> = before]_vars

(* An island that is decoupled is coupled again.                            *)
Recoupled == \A i \in Islands : decoupled[i] ~> ~decoupled[i]

(* The file made for the PCAP is the bitstream ("prepare the                *)
(* Trenz_partial.bit.bin for PCAP programming", config-api.c:308).          *)
StreamIsWhole ==
  pc = "streaming" => Sent(module) = Meta[module].bitstream_len

(* What the book says of the islands is what users may rely on: see         *)
(* IslandPromise.  An island in service is released before it is touched,   *)
(* decoupled, torn up, filled and coupled again, in this order, before it   *)
(* serves again, also by a process that follows a killed one.               *)
Promise == INSTANCE IslandPromise WITH
  Torn     <- Broken,
  serves   <- [i \in Islands |-> IF avail[i] > 0 THEN kernel[i] ELSE NoModule],
  shielded <- decoupled,
  frames   <- [i \in Islands |-> fabric[Row(i)]]
ImplementsIslands == Promise!Spec
=============================================================================
