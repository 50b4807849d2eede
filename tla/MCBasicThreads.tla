--------------------------- MODULE MCBasicThreads ---------------------------
(* Instances of BasicThreads for TLC. *)
EXTENDS BasicThreads

OutsideCreate == {"user", "b1", "b2", "b3", "b4"}
Readable == {"READY", "other"}
=============================================================================
