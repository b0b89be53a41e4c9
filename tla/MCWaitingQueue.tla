--------------------------- MODULE MCWaitingQueue ---------------------------
(* Small instances of WaitingQueue for TLC.                                 *)
EXTENDS WaitingQueue
=============================================================================
