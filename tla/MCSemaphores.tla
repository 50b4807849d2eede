---------------------------- MODULE MCSemaphores ----------------------------
(* Instances of Semaphores for TLC. *)
EXTENDS Semaphores

AnyPoint == Labels
ProgramPoints == {"user", "crit"}
Readable == {"READY", "other"}
=============================================================================
