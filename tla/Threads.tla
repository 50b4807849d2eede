------------------------------ MODULE Threads ------------------------------
(***************************************************************************)
(* The user-level thread library of src/Project3/threads.c: pthread_create, *)
(* pthread_exit, pthread_join and the round-robin scheduler, which runs     *)
(* either by a call or as the SIGALRM handler.                              *)
(*                                                                         *)
(* There is one CPU.  "flow" names a C control flow by the thread whose     *)
(* stack it runs on, "at" says where it is.  A region between lock() and    *)
(* unlock() is one step; every point outside such a region at which an      *)
(* alarm changes the outcome is a label of its own:                         *)
(*   user    the program, outside the library                              *)
(*   e0 e1   pthread_exit about to return to the main thread (198, 199)     *)
(*   x1..x6  pthread_exit's tail for a joined thread (213..227)             *)
(*   k1      pthread_join about to enter the exiting thread (283)           *)
(*   j1      pthread_join resumed by the exiting thread (299..304)          *)
(* One run of scheduler() is one step: the timer period (50 ms, line 76) is *)
(* taken to be longer than the scheduler, so SA_NODEFER (line 83) nests no  *)
(* alarm in it.                                                             *)
(*                                                                         *)
(* The exit value of thread t is t itself, so a value stored by the wrong   *)
(* thread shows.  A setjmp buffer is a context [flow, at, pos]; pos counts  *)
(* the calls the flow had completed, so a jump to a buffer whose frame has  *)
(* since returned shows too.                                                *)
(***************************************************************************)
EXTENDS Integers, FiniteSets

CONSTANTS
  MAX_THREADS,  \* size of the thread table (line 8)
  AlarmPoints,  \* the labels at which a run lets an alarm arrive
  PastTable,    \* what TCB[MAX_THREADS].status, past the table, may read as
  MaxCreated,   \* bound: threads a program creates
  MaxCalls,     \* bound: pthread_create and pthread_join calls per thread
  ClientLabels  \* labels of the modules built on this one ({} for none)

Tid == 0 .. MAX_THREADS - 1
NoTid == -1     \* TCB[i].joining == -1 (line 71); the longjmp value 1 in "joined"

LibraryLabels == {"e0", "e1", "x1", "x2", "x3", "x4", "x5", "x6", "k1", "j1"}
Labels == {"user"} \cup LibraryLabels \cup ClientLabels
BufferLabels == Labels \cup {"none", "start"}

ASSUME MaxAssumption == MAX_THREADS \in Nat /\ MAX_THREADS >= 2
ASSUME BoundAssumption == MaxCreated \in Nat /\ MaxCalls \in Nat
ASSUME ClientAssumption ==
  ClientLabels \cap ({"user", "none", "start"} \cup LibraryLabels) = {}
ASSUME AlarmAssumption == AlarmPoints \subseteq Labels
ASSUME PastAssumption == PastTable \subseteq {"READY", "other"}

VARIABLES
  status,         \* TCB[t].status
  joining,        \* TCB[t].joining
  exitcode,       \* TCB[t].exitcode: the thread whose value it holds
  stack,          \* TCB[t].stack: "none", "owned" or "freed"
  reg,            \* TCB[t].reg
  curr_TID,       \* the thread the library takes to be running
  total_threads,
  first_call,
  cpu,            \* [flow, at]: where the CPU is
  pos,            \* library calls flow t has completed
  target,         \* the argument of the pthread_join flow t is in
  local,          \* "joined" in pthread_exit, "waiting_thread" in pthread_join,
                  \* less the offset MAX_THREADS that both carry
  proc            \* "running" or how the process ended

tcb == <<status, joining, exitcode, stack, reg>>
globals == <<curr_TID, total_threads, first_call>>
flows == <<cpu, pos, target, local>>
vars == <<tcb, globals, flows, proc>>

Status == {"READY", "RUNNING", "EXITED", "WAITING", "FRESH", "BLOCKED"}
Context == [flow : Tid, at : BufferLabels, pos : Nat]

(* The table is in .bss: every field reads zero, and READY is 0.            *)
Init ==
  /\ status = [t \in Tid |-> "READY"]
  /\ joining = [t \in Tid |-> 0]
  /\ exitcode = [t \in Tid |-> NoTid]
  /\ stack = [t \in Tid |-> "none"]
  /\ reg = [t \in Tid |-> [flow |-> t, at |-> "none", pos |-> 0]]
  /\ curr_TID = 0
  /\ total_threads = 0
  /\ first_call = TRUE
  /\ cpu = [flow |-> 0, at |-> "user"]
  /\ pos = [t \in Tid |-> 0]
  /\ target = [t \in Tid |-> NoTid]
  /\ local = [t \in Tid |-> NoTid]
  /\ proc = "running"

At(label) == proc = "running" /\ cpu.at = label
Goto(label) == cpu' = [cpu EXCEPT !.at = label]
Here(label) == [flow |-> cpu.flow, at |-> label, pos |-> pos[cpu.flow]]

(* The process ends at this step; what it leaves in memory is immaterial.   *)
Ends(how) == proc' = how /\ UNCHANGED <<tcb, globals, flows>>

-----------------------------------------------------------------------------
(* longjmp and the scheduler *)

(* longjmp(c, v).  A buffer never set holds no code address.  A waiting     *)
(* pthread_exit that gets the value 1 (NoTid here) and not that of a joiner *)
(* is lost: line 223 makes curr_TID 1 - MAX_THREADS and line 227 jumps      *)
(* there.  That comes about only with no READY thread to switch to, so an   *)
(* alarm in between merely enters it again.                                 *)
(* A buffer at "start" is the one pthread_create made: it runs the start    *)
(* routine from its beginning.  Jumping to a setjmp buffer whose frame has  *)
(* returned is undefined: the flow may carry on where it is, do again what  *)
(* it had done, or crash.                                                   *)
Stale(c) == c.at # "start" /\ c.pos # pos[c.flow]

Resume(c, v) ==
  IF c.at = "none" \/ (c.at = "x1" /\ v = NoTid)
  THEN proc' = "crashed" /\ UNCHANGED <<cpu, pos, local>>
  ELSE \/ /\ cpu' = [flow |-> c.flow, at |-> IF c.at = "start" THEN "user" ELSE c.at]
          /\ \E p \in {c.pos} \cup (IF Stale(c) THEN {pos[c.flow]} ELSE {}) :
               pos' = [pos EXCEPT ![c.flow] = p]
          /\ local' = IF c.at = "x1" THEN [local EXCEPT ![c.flow] = v] ELSE local
          /\ UNCHANGED proc
       \/ /\ Stale(c)
          /\ proc' = "crashed"
          /\ UNCHANGED <<cpu, pos, local>>

(* The search of lines 37-39 starts at c + 1, without "% MAX_THREADS".      *)
(* From the last slot it therefore reads past the table and goes on at 1.   *)
Scanned(c) == IF c = MAX_THREADS - 1 THEN 1 .. MAX_THREADS - 2 ELSE Tid \ {c}

BeforeFromZero(c, a, b) == a < b                                          \* mutant
Before(c, a, b) == IF (a > c) = (b > c) THEN a < b ELSE a > c

FirstAmong(sts, st, c, n) ==
  LET candidates == {t \in Scanned(c) : st[t] \in sts}
  IN  IF candidates = {}
      THEN n = c
      ELSE n \in candidates /\ \A t \in candidates \ {n} : Before(c, n, t)

IsNextNotBlocked(st, c, n) == FirstAmong({"READY", "BLOCKED"}, st, c, n)  \* mutant
IsNextNotExited(st, c, n) == FirstAmong({"READY", "EXITED"}, st, c, n)    \* mutant
IsNext(st, c, n) == FirstAmong({"READY"}, st, c, n)

NotDemoted(st, c) == st                                                   \* mutant
Demoted(st, c) == IF st[c] = "RUNNING" THEN [st EXCEPT ![c] = "READY"] ELSE st

NotSaved(st, rg, c, here) == rg                                           \* mutant
Saved(st, rg, c, here) == IF st[c] = "RUNNING" THEN [rg EXCEPT ![c] = here] ELSE rg

(* scheduler(), called with the table st and the buffers rg.  Only a        *)
(* RUNNING thread is saved; with none READY, next is curr_TID itself.       *)
Scheduler(st, rg, here) ==
  LET c == curr_TID
      rg1 == Saved(st, rg, c, here)
  IN  \/ \E n \in Tid :
           /\ IsNext(st, c, n)
           /\ curr_TID' = n
           /\ status' = [Demoted(st, c) EXCEPT ![n] = "RUNNING"]
           /\ reg' = rg1
           /\ Resume(rg1[n], NoTid)
      \/ /\ c = MAX_THREADS - 1
         /\ "READY" \in PastTable
         /\ proc' = "crashed"       \* longjmp through what lies past the table
         /\ UNCHANGED <<status, reg, curr_TID, cpu, pos, local>>

Alarm ==
  /\ proc = "running"
  /\ ~first_call
  /\ cpu.at \in AlarmPoints
  /\ Scheduler(status, reg, Here(cpu.at))
  /\ UNCHANGED <<joining, exitcode, stack, total_threads, first_call, target>>

-----------------------------------------------------------------------------
(* pthread_create, one locked region *)

Created == {t \in Tid : stack[t] # "none"}

(* init_system and lines 97-107, when first_call is set.                    *)
InitStatus ==
  IF first_call THEN [t \in Tid |-> IF t = 0 THEN "RUNNING" ELSE "FRESH"] ELSE status
InitReg ==
  IF first_call
  THEN [reg EXCEPT ![0] = [flow |-> 0, at |-> "user", pos |-> pos[0] + 1]]
  ELSE reg
InitTotalMainUncounted == total_threads                                   \* mutant
InitTotal == IF first_call THEN total_threads + 1 ELSE total_threads

FirstFresh(i) ==
  /\ InitStatus[i] = "FRESH"
  /\ \A t \in Tid : t < i => InitStatus[t] # "FRESH"

CreateThread(i) ==
  /\ FirstFresh(i)
  /\ status' = [InitStatus EXCEPT ![i] = "READY"]
  /\ reg' = [InitReg EXCEPT ![i] = [flow |-> i, at |-> "start", pos |-> 0]]
  /\ joining' = IF first_call THEN [t \in Tid |-> NoTid] ELSE joining
  /\ stack' = [stack EXCEPT ![i] = "owned"]
  /\ total_threads' = InitTotal + 1
  /\ first_call' = FALSE
  /\ pos' = [pos EXCEPT ![cpu.flow] = @ + 1]
  /\ UNCHANGED <<exitcode, curr_TID, cpu, target, local, proc>>

(* Above the limit the call returns with SIGALRM still blocked (113-117).   *)
(* With no FRESH slot the search ends at i = MAX_THREADS, and lines 126-159 *)
(* write a thread past the end of the table.                                *)
Create ==
  /\ At("user")
  /\ pos[cpu.flow] < MaxCalls
  /\ Cardinality(Created) < MaxCreated
  /\ IF InitTotal > MAX_THREADS
     THEN Ends("masked")
     ELSE IF \A t \in Tid : InitStatus[t] # "FRESH"
          THEN Ends("overrun")
          ELSE \E i \in Tid : CreateThread(i)

-----------------------------------------------------------------------------
(* pthread_exit *)

NoneReady(st) == \A t \in Tid \ {0} : st[t] # "READY"

(* Lines 181-183 and 209-226 in one locked region: a joiner is waiting.     *)
ExitToJoiner ==
  LET c == curr_TID
  IN  /\ joining[c] # NoTid
      /\ status' = [status EXCEPT ![c] = "EXITED"]
      /\ stack' = [stack EXCEPT ![c] = IF @ = "owned" THEN "freed" ELSE @]
      /\ total_threads' = total_threads - 1
      /\ exitcode' = [exitcode EXCEPT ![c] = cpu.flow]
      /\ curr_TID' = joining[c]
      /\ Goto("x6")
      /\ UNCHANGED <<joining, reg, first_call, pos, target, local, proc>>

(* Lines 184-207: wait to be joined, and give up the CPU.                   *)
ExitToWait ==
  LET c == curr_TID
      st == [status EXCEPT ![c] = "WAITING"]
      rg == [reg EXCEPT ![c] = Here("x1")]
  IN  /\ joining[c] = NoTid
      /\ IF NoneReady(st)
         THEN /\ status' = st /\ reg' = rg
              /\ Goto("e0")
              /\ UNCHANGED <<curr_TID, pos, local, proc>>
         ELSE Scheduler(st, rg, Here("user"))
      /\ UNCHANGED <<joining, exitcode, stack, total_threads, first_call, target>>

Exit == At("user") /\ (ExitToJoiner \/ ExitToWait)

ExitToMainKeepsTid ==                                                     \* mutant
  /\ At("e0")
  /\ Goto("e1")
  /\ UNCHANGED <<tcb, globals, pos, target, local, proc>>

ExitToMain0 ==
  /\ At("e0")
  /\ curr_TID' = 0
  /\ Goto("e1")
  /\ UNCHANGED <<tcb, total_threads, first_call, pos, target, local, proc>>

ExitToMain1 ==
  /\ At("e1")
  /\ Resume(reg[0], NoTid)
  /\ UNCHANGED <<tcb, globals, target>>

(* The same tail, entered through pthread_join's longjmp.  The signal mask  *)
(* is not part of a jmp_buf and line 281 has unblocked SIGALRM, so each     *)
(* store is a step of its own.                                              *)
Tail1 ==
  /\ At("x1")
  /\ IF status[curr_TID] # "EXITED"
     THEN status' = [status EXCEPT ![curr_TID] = "EXITED"] /\ Goto("x2")
     ELSE Goto("x4") /\ UNCHANGED status
  /\ UNCHANGED <<joining, exitcode, stack, reg, globals, pos, target, local, proc>>

Tail2 ==
  /\ At("x2")
  /\ IF stack[curr_TID] = "freed"
     THEN Ends("crashed")          \* free() of a freed stack aborts
     ELSE /\ stack' = [stack EXCEPT ![curr_TID] = IF @ = "owned" THEN "freed" ELSE @]
          /\ Goto("x3")
          /\ UNCHANGED <<status, joining, exitcode, reg, globals, pos, target, local, proc>>

Tail3Uncounted ==                                                         \* mutant
  /\ At("x3")
  /\ Goto("x4")
  /\ UNCHANGED <<tcb, globals, pos, target, local, proc>>

Tail3 ==
  /\ At("x3")
  /\ total_threads' = total_threads - 1
  /\ Goto("x4")
  /\ UNCHANGED <<tcb, curr_TID, first_call, pos, target, local, proc>>

Tail4NoValue ==                                                           \* mutant
  /\ At("x4")
  /\ Goto("x5")
  /\ UNCHANGED <<tcb, globals, pos, target, local, proc>>

Tail4 ==
  /\ At("x4")
  /\ exitcode' = [exitcode EXCEPT ![curr_TID] = cpu.flow]
  /\ Goto("x5")
  /\ UNCHANGED <<status, joining, stack, reg, globals, pos, target, local, proc>>

Tail5KeepsOffset ==                                                       \* mutant
  /\ At("x5")
  /\ curr_TID' = local[cpu.flow] + MAX_THREADS
  /\ Goto("x6")
  /\ UNCHANGED <<tcb, total_threads, first_call, pos, target, local, proc>>

Tail5 ==
  /\ At("x5")
  /\ curr_TID' = local[cpu.flow]
  /\ Goto("x6")
  /\ UNCHANGED <<tcb, total_threads, first_call, pos, target, local, proc>>

Tail6 ==
  /\ At("x6")
  /\ Resume(reg[curr_TID], NoTid)
  /\ UNCHANGED <<tcb, globals, target>>

-----------------------------------------------------------------------------
(* pthread_join *)

(* What a program may do: join a thread that exists and was created after   *)
(* the caller (so no cycle of joins), and never two joins of one target     *)
(* at a time, which line 291 and the README call undefined.                 *)
Joinable(t) ==
  /\ t > cpu.flow
  /\ t \in Created
  /\ \A u \in Tid : target[u] # t
  /\ joining[t] = NoTid \/ status[t] = "EXITED"

JoinReturnsAtOnce(t) ==
  /\ status[t] = "EXITED"
  /\ pos' = [pos EXCEPT ![cpu.flow] = @ + 1]
  /\ UNCHANGED <<tcb, globals, cpu, target, local, proc>>

(* Lines 275-283: the target waits in pthread_exit, enter it there.         *)
JoinEntersSavesLate(t) ==                                                 \* mutant
  /\ status[t] = "WAITING"
  /\ status' = [status EXCEPT ![curr_TID] = "BLOCKED"]
  /\ reg' = [reg EXCEPT ![t] = Here("j1")]
  /\ curr_TID' = t
  /\ target' = [target EXCEPT ![cpu.flow] = t]
  /\ local' = [local EXCEPT ![cpu.flow] = curr_TID]
  /\ Goto("k1")
  /\ UNCHANGED <<joining, exitcode, stack, total_threads, first_call, pos, proc>>

JoinEnters(t) ==
  /\ status[t] = "WAITING"
  /\ status' = [status EXCEPT ![curr_TID] = "BLOCKED"]
  /\ reg' = [reg EXCEPT ![curr_TID] = Here("j1")]
  /\ curr_TID' = t
  /\ target' = [target EXCEPT ![cpu.flow] = t]
  /\ local' = [local EXCEPT ![cpu.flow] = curr_TID]
  /\ Goto("k1")
  /\ UNCHANGED <<joining, exitcode, stack, total_threads, first_call, pos, proc>>

NotNoted(t) == joining                                                    \* mutant
Noted(t) == [joining EXCEPT ![t] = curr_TID]

(* Lines 289-294: leave a note in the target and give up the CPU.           *)
JoinBlocks(t) ==
  LET st == [status EXCEPT ![curr_TID] = "BLOCKED"]
      rg == [reg EXCEPT ![curr_TID] = Here("j1")]
  IN  /\ status[t] \notin {"EXITED", "WAITING"}
      /\ joining' = Noted(t)
      /\ target' = [target EXCEPT ![cpu.flow] = t]
      /\ UNCHANGED <<exitcode, stack, total_threads, first_call>>
      /\ Scheduler(st, rg, Here("user"))

Join(t) ==
  /\ At("user")
  /\ pos[cpu.flow] < MaxCalls
  /\ Joinable(t)
  /\ JoinReturnsAtOnce(t) \/ JoinEnters(t) \/ JoinBlocks(t)

JoinJumps ==
  /\ At("k1")
  /\ Resume(reg[curr_TID], local[cpu.flow])
  /\ UNCHANGED <<tcb, globals, target>>

JoinReturns ==
  /\ At("j1")
  /\ status' = [status EXCEPT ![curr_TID] = "RUNNING"]
  /\ target' = [target EXCEPT ![cpu.flow] = NoTid]
  /\ pos' = [pos EXCEPT ![cpu.flow] = @ + 1]
  /\ Goto("user")
  /\ UNCHANGED <<joining, exitcode, stack, reg, globals, local, proc>>

-----------------------------------------------------------------------------
(* main() returning ends the process, whatever the other threads do. *)
MainReturns ==
  /\ At("user")
  /\ cpu.flow = 0
  /\ Ends("exited")

Terminated == proc # "running" /\ UNCHANGED vars

Library ==
  \/ ExitToMain0 \/ ExitToMain1
  \/ Tail1 \/ Tail2 \/ Tail3 \/ Tail4 \/ Tail5 \/ Tail6
  \/ JoinJumps \/ JoinReturns

Calls == Create \/ Exit \/ (\E t \in Tid : Join(t)) \/ MainReturns

Next == Calls \/ Library \/ Alarm \/ Terminated

Spec == Init /\ [][Next]_vars

(* A flow inside the library goes on.  The timer never stops, and an alarm  *)
(* that comes while SIGALRM is blocked stays pending until unlock(): hence  *)
(* strong fairness.  Nothing obliges a program to make a call.              *)
FairSpec == Spec /\ WF_vars(Library) /\ SF_vars(Alarm)

-----------------------------------------------------------------------------
TypeOK ==
  /\ status \in [Tid -> Status]
  /\ joining \in [Tid -> Tid \cup {NoTid}]
  /\ exitcode \in [Tid -> Tid \cup {NoTid}]
  /\ stack \in [Tid -> {"none", "owned", "freed"}]
  /\ reg \in [Tid -> Context]
  /\ curr_TID \in Tid
  /\ total_threads \in Int
  /\ first_call \in BOOLEAN
  /\ cpu \in [flow : Tid, at : Labels]
  /\ pos \in [Tid -> Nat]
  /\ target \in [Tid -> Tid \cup {NoTid}]
  /\ local \in [Tid -> Tid \cup {NoTid}]
  /\ proc \in {"running", "exited", "crashed", "overrun", "masked"}

Running == proc = "running"

(* No thread but curr_TID is marked RUNNING: the invariant scheduler()      *)
(* relies on when it saves and demotes curr_TID only (lines 44-48).         *)
OnlyCurrRuns == \A t \in Tid : Running /\ status[t] = "RUNNING" => t = curr_TID

(* A program is always run under its own identity: whoever executes user    *)
(* code is curr_TID, whatever jumps led there (pthread_self, line 243).     *)
RunsAsItself == At("user") => cpu.flow = curr_TID

(* A saved buffer is filed under the thread that saved it, so a switch to t *)
(* always continues t.                                                     *)
ContextOwner == \A t \in Tid : reg[t].flow = t

(* Once pthread_exit has freed a thread's stack (217) the scheduler never   *)
(* takes the thread up again and its program never runs again.              *)
FreedStaysDown ==
  \A t \in Tid : Running /\ stack[t] = "freed" =>
    /\ status[t] \notin {"READY", "BLOCKED"}
    /\ ~(cpu.flow = t /\ cpu.at = "user")

Live == {t \in Tid : status[t] \notin {"FRESH", "EXITED"}}

(* The count that the limit check of line 113 compares never falls below    *)
(* the threads in use, main included, and never exceeds the table.          *)
CountBounded ==
  Running /\ ~first_call =>
    Cardinality(Live) <= total_threads /\ total_threads <= MAX_THREADS

(* No thread but main does again what it has done: the buffer a switch      *)
(* returns to is the one its flow saved last (lines 47, 185, 272).          *)
WorkersNotReplayed == [][\A t \in Tid \ {0} : pos'[t] >= pos[t]]_vars

-----------------------------------------------------------------------------
(* Properties of the runs whose AlarmPoints leave out the windows           *)

(* total_threads is the number of threads in use, but for the two stores    *)
(* of pthread_exit's tail (214, 218) that change both.                      *)
CountExact ==
  Running /\ ~first_call /\ cpu.at \notin {"x2", "x3"} =>
    total_threads = Cardinality(Live)

(* A pthread_join about to return finds its target ended and, in the        *)
(* target's slot, the value the target itself passed to pthread_exit (302). *)
JoinGetsValue ==
  At("j1") => LET t == target[cpu.flow]
              IN  status[t] = "EXITED" /\ exitcode[t] = t

(* The library keeps the promise of ThreadLife: a thread lives from its     *)
(* creation to the call of pthread_exit, and waits while it is in a join.   *)
Life == [t \in Tid |->
  IF first_call THEN IF t = 0 THEN "live" ELSE "new"
  ELSE CASE status[t] = "FRESH" -> "new"
         [] status[t] \in {"WAITING", "EXITED"} -> "ended"
         [] OTHER -> "live"]

Promise == INSTANCE ThreadLife WITH
  Thread <- Tid, Main <- 0, None <- NoTid,
  life <- Life, waits <- target, up <- Running

KeepsPromise == Promise!LifeSpec

(* A thread that is READY is run in the end (README of Project 2: threads   *)
(* share the CPU).                                                          *)
ReadyRuns == \A t \in Tid : (status[t] = "READY" /\ ~first_call)
                            ~> (curr_TID = t \/ ~Running)

(* A join whose target has ended returns (264-312).                         *)
JoinEnds == \A s \in Tid :
  (target[s] # NoTid /\ Life[target[s]] = "ended") ~> (target[s] = NoTid \/ ~Running)

=============================================================================
