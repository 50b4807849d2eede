----------------------------- MODULE Semaphores -----------------------------
(***************************************************************************)
(* The semaphores of src/Project3/threads.c: sem_init, sem_wait, sem_post   *)
(* and sem_destroy, called by the threads of module Threads.  None of them  *)
(* calls lock(), so every access to the semaphore or to the thread table is *)
(* a step, and an alarm may arrive between any two of them:                 *)
(*   w1 w2   sem_wait about to mark the caller BLOCKED, to queue it         *)
(*   d1 d2   sem_wait about to load, to store val                           *)
(*   p1..p4  sem_post about to search the queue, to read the slot found, to *)
(*           clear it, to jump                                              *)
(*   u1 u2   sem_post about to load, to store val                           *)
(* The program has one semaphore of InitialValue units: a thread whose      *)
(* sem_wait returned is at "crit" until it posts.                           *)
(*                                                                         *)
(* An alarm after sem_wait queued its caller does what the call of          *)
(* scheduler() on the next line does, so the two are one step.              *)
(***************************************************************************)
EXTENDS Threads

CONSTANTS
  InitialValue,   \* the argument of sem_init
  Users           \* the threads that call sem_wait and sem_post

SemLabels == {"crit", "w1", "w2", "d1", "d2", "p1", "p2", "p3", "p4", "u1", "u2"}

ASSUME SemAssumption == ClientLabels = SemLabels /\ InitialValue \in Nat /\ Users \subseteq Tid

Empty == 0              \* a free queue slot, which is also main's identity

VARIABLES
  sem,       \* seminfo.status, or "none" before sem_init
  val,       \* seminfo.val
  waiting,   \* seminfo.waiting
  loaded,    \* val as flow t last loaded it
  slot,      \* "i" in flow t's sem_post
  next_run   \* of flow t's sem_post

semaphore == <<sem, val, waiting>>
locals == <<loaded, slot, next_run>>
semvars == <<semaphore, locals>>
allvars == <<vars, semvars>>

SemSetUp ==
  /\ Init
  /\ sem = "none"
  /\ val = 0
  /\ waiting = [i \in Tid |-> Empty]
  /\ loaded = [t \in Tid |-> 0]
  /\ slot = [t \in Tid |-> 0]
  /\ next_run = [t \in Tid |-> 0]

(* The semaphore call of the running flow returns, to the label given.      *)
Returns(label) ==
  /\ Goto(label)
  /\ pos' = [pos EXCEPT ![cpu.flow] = @ + 1]
  /\ UNCHANGED <<tcb, globals, target, local, proc>>

Moves(label) == Goto(label) /\ UNCHANGED <<tcb, globals, pos, target, local, proc>>
LoadsVal(to) ==
  /\ loaded' = [loaded EXCEPT ![cpu.flow] = val]
  /\ Moves(to)
  /\ UNCHANGED <<semaphore, slot, next_run>>

-----------------------------------------------------------------------------
(* sem_init and sem_destroy, by main, with nobody using the semaphore *)

SemInit ==
  /\ At("user") /\ cpu.flow = 0
  /\ sem = "none"
  /\ sem' = "INITIALIZED"
  /\ val' = InitialValue
  /\ waiting' = [i \in Tid |-> Empty]
  /\ UNCHANGED <<vars, locals>>

Inside ==
  {t \in Tid : \/ t = curr_TID /\ cpu.at = "crit"
               \/ t # curr_TID /\ status[t] = "READY" /\ reg[t].at = "crit"}

SemDestroy ==
  /\ At("user") /\ cpu.flow = 0
  /\ sem = "INITIALIZED"
  /\ \A t \in Tid : status[t] # "BLOCKED" /\ reg[t].at \notin SemLabels
  /\ sem' = "DESTROYED"
  /\ UNCHANGED <<vars, val, waiting, locals>>

-----------------------------------------------------------------------------
(* sem_wait *)

WaitTestsOffByOne ==                                                      \* mutant
  /\ At("user") /\ sem = "INITIALIZED"
  /\ cpu.flow \in Users
  /\ pos[cpu.flow] < MaxCalls
  /\ Moves(IF val < 0 THEN "w1" ELSE "d1")
  /\ UNCHANGED semvars

WaitTests ==
  /\ At("user") /\ sem = "INITIALIZED"
  /\ cpu.flow \in Users
  /\ pos[cpu.flow] < MaxCalls
  /\ Moves(IF val <= 0 THEN "w1" ELSE "d1")
  /\ UNCHANGED semvars

WaitBlocks ==
  /\ At("w1")
  /\ status' = [status EXCEPT ![curr_TID] = "BLOCKED"]
  /\ Goto("w2")
  /\ UNCHANGED <<joining, exitcode, stack, reg, globals, pos, target, local, proc, semvars>>

FreeSlots == {i \in Tid : waiting[i] = Empty}
TakenSlots == {i \in Tid : waiting[i] # Empty}
FirstSlot(i, S) == i \in S /\ \A j \in S : i <= j

(* The search of line 343 has no bound: with every slot taken it leaves the *)
(* queue.  The caller is BLOCKED, so scheduler() does not save it.          *)
WaitQueues ==
  /\ At("w2")
  /\ \/ /\ FreeSlots = {}
        /\ Ends("overrun")
        /\ UNCHANGED waiting
     \/ \E i \in Tid :
          /\ FirstSlot(i, FreeSlots)
          /\ waiting' = [waiting EXCEPT ![i] = curr_TID]
          /\ Scheduler(status, reg, Here("user"))
          /\ UNCHANGED <<joining, exitcode, stack, total_threads, first_call, target>>
  /\ UNCHANGED <<sem, val, locals>>

WaitLoads == At("d1") /\ LoadsVal("d2")

WaitTakes ==
  /\ At("d2")
  /\ val' = loaded[cpu.flow] - 1
  /\ Returns("crit")
  /\ UNCHANGED <<sem, waiting, locals>>

-----------------------------------------------------------------------------
(* sem_post *)

PostTests ==
  /\ At("crit") /\ sem = "INITIALIZED"
  /\ pos[cpu.flow] <= MaxCalls
  /\ \/ val = 0 /\ Moves("p1")
     \/ val > 0 /\ Moves("u1")
     \/ val < 0 /\ Returns("user")
  /\ UNCHANGED semvars

PostSkipsSearch ==                                                        \* mutant
  /\ At("p1")
  /\ Moves("u1")
  /\ UNCHANGED semvars

PostSearchesPastEnd ==                                                    \* mutant
  /\ At("p1")
  /\ slot' = [slot EXCEPT ![cpu.flow] =
       IF TakenSlots = {} THEN MAX_THREADS ELSE CHOOSE i \in Tid : FirstSlot(i, TakenSlots)]
  /\ Moves("p2")
  /\ UNCHANGED <<semaphore, loaded, next_run>>

PostSearches ==
  /\ At("p1")
  /\ \/ TakenSlots = {} /\ Moves("u1") /\ UNCHANGED slot
     \/ \E i \in Tid :
          FirstSlot(i, TakenSlots) /\ Moves("p2") /\ slot' = [slot EXCEPT ![cpu.flow] = i]
  /\ UNCHANGED <<semaphore, loaded, next_run>>

PostReads ==
  /\ At("p2")
  /\ LET i == slot[cpu.flow]
     IN  /\ next_run' = [next_run EXCEPT ![cpu.flow] = waiting[i]]
         /\ waiting' = [waiting EXCEPT ![i] = Empty]
  /\ Moves("p3")
  /\ UNCHANGED <<sem, val, loaded, slot>>

PostWakes ==
  /\ At("p3")
  /\ status' = [status EXCEPT ![next_run[cpu.flow]] = "RUNNING"]
  /\ Goto("p4")
  /\ UNCHANGED <<joining, exitcode, stack, reg, globals, pos, target, local, proc, semvars>>

(* longjmp: the poster is not saved and curr_TID still names it.            *)
PostJumps ==
  /\ At("p4")
  /\ Resume(reg[next_run[cpu.flow]], NoTid)
  /\ UNCHANGED <<tcb, globals, target, semvars>>

PostLoads == At("u1") /\ LoadsVal("u2")

PostGives ==
  /\ At("u2")
  /\ val' = loaded[cpu.flow] + 1
  /\ Returns("user")
  /\ UNCHANGED <<sem, waiting, locals>>

-----------------------------------------------------------------------------
SemStep ==
  \/ SemInit \/ SemDestroy
  \/ WaitTests \/ WaitBlocks \/ WaitQueues \/ WaitLoads \/ WaitTakes
  \/ PostTests \/ PostSearches \/ PostReads \/ PostWakes \/ PostJumps
  \/ PostLoads \/ PostGives

(* After the jump of sem_post the waiter runs under the poster's identity,   *)
(* and what it then creates, joins or ends is the poster's.  Bound: such a   *)
(* thread makes only semaphore calls.                                        *)
SemNext ==
  \/ SemStep
  \/ (Library \/ Alarm \/ Terminated) /\ UNCHANGED semvars
  \/ RunsAsItself /\ Calls /\ UNCHANGED semvars

SemSpec == SemSetUp /\ [][SemNext]_allvars

-----------------------------------------------------------------------------
SemTypeOK ==
  /\ TypeOK
  /\ sem \in {"none", "INITIALIZED", "DESTROYED"}
  /\ val \in Int
  /\ waiting \in [Tid -> Tid]
  /\ loaded \in [Tid -> Int]
  /\ slot \in [Tid -> Tid]
  /\ next_run \in [Tid -> Tid]

(* No unit is made up: what val offers and what the threads inside hold     *)
(* never exceed what sem_init gave, and val never falls below zero (README   *)
(* of Project 3), whatever sem_post's jumps replay.  Holds when no alarm     *)
(* interrupts the calls, as the stores of val (352, 381, 394) are no atomic  *)
(* updates, and main is no user: main may run without being marked RUNNING   *)
(* (197-199), is then not saved, and holds once more a unit it gave back.    *)
UnitsBounded ==
  Running => val >= 0 /\ val + Cardinality(Inside) <= InitialValue

(* No wake-up is lost: while sem_wait would let a caller through (350),      *)
(* nobody is queued.  sem_wait's test, BLOCKED mark and queue entry (338-347)*)
(* and sem_post's search and increment (373-381) must not interleave.        *)
NoIdleValue ==
  At("user") /\ val > 0 => TakenSlots = {}

(* A thread woken by sem_post is past its sem_wait.  The code resumes it in  *)
(* the context that was saved before it called sem_wait (348, 389).          *)
WokenProceeds ==
  [][At("p4") /\ proc' = "running" => cpu'.at = "crit"]_allvars
=============================================================================
