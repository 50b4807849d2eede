----------------------------- MODULE MCThreads -----------------------------
(* Instances of Threads for TLC. *)
EXTENDS Threads

AnyPoint == Labels
OutsideHandOff == {"user", "e0", "e1"}
Readable == {"READY", "other"}
=============================================================================
