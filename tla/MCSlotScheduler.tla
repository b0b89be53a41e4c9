-------------------------- MODULE MCSlotScheduler ---------------------------
(***************************************************************************)
(* Small instances of SlotScheduler for TLC: the committed number of slots,*)
(* a ring and a page buffer that wrap, libraries whose bitstreams divide a *)
(* region and whose bitstreams do not.                                     *)
(***************************************************************************)
EXTENDS SlotScheduler

AllLibraries == {{}, {1}, {1, 2}, {3}}
WorkingLibraries == {{1, 2}}
=============================================================================
