-------------------------- MODULE SemaphoresProofs --------------------------
(***************************************************************************)
(* Proofs about Semaphores, for any table, any value of the semaphore and   *)
(* any users: types, no unit lost while somebody is queued, and no unit     *)
(* made up.                                                                 *)
(***************************************************************************)
EXTENDS Semaphores, FiniteSetTheorems, TLAPS

(* A flow in the tail of pthread_exit knows whom to return to, and so does  *)
(* one that an alarm has saved there.                                       *)
InTail == {"k1", "x2", "x3", "x4", "x5"}
Known ==
  /\ cpu.at \in InTail \cup {"x1"} => local[cpu.flow] # NoTid
  /\ \A t \in Tid : reg[t].at \in InTail => local[reg[t].flow] # NoTid
TInv == SemTypeOK /\ Known

(* No alarm interrupts a call of the semaphore.                             *)
SemUninterrupted == AlarmPoints \cap (SemLabels \ {"crit"}) = {}

(* What a call of the semaphore has found out is still so.                  *)
NotInCall == \A t \in Tid : reg[t].at \notin SemLabels \ {"crit"}
BeforeSemInit ==
  sem = "none" => /\ val = 0 /\ cpu.at \notin SemLabels
                  /\ \A t \in Tid : waiting[t] = Empty /\ reg[t].at # "crit"
ValueAt ==
  Running =>
    /\ cpu.at \in {"w1", "w2"} => val = 0
    /\ cpu.at \in {"d1", "d2"} => val > 0
    /\ cpu.at \in {"u1", "u2"} => TakenSlots = {}
    /\ cpu.at \in {"d2", "u2"} => loaded[cpu.flow] = val
QueueIdle == val >= 0 /\ (val > 0 => TakenSlots = {})
NInv == NotInCall /\ BeforeSemInit /\ ValueAt /\ QueueIdle

-----------------------------------------------------------------------------
(* Types *)

(* What the assumptions say of the constants.                               *)
LEMMA Constants ==
  /\ MAX_THREADS \in Nat /\ MAX_THREADS >= 2 /\ MaxCalls \in Nat
  /\ 0 \in Tid /\ NoTid \notin Tid /\ Tid \subseteq Nat
  /\ ClientLabels = SemLabels /\ InitialValue \in Nat /\ Users \subseteq Tid
  /\ AlarmPoints \subseteq Labels
BY MaxAssumption, BoundAssumption, SemAssumption, AlarmAssumption DEF Tid, NoTid

(* The labels, the calls of the semaphore included.                         *)
LEMMA LabelFacts ==
  /\ Labels = {"user"} \cup LibraryLabels \cup SemLabels
  /\ BufferLabels = Labels \cup {"none", "start"}
BY Constants DEF Labels, BufferLabels

(* longjmp goes to the label saved.                                         *)
LEMMA ResumeTypes ==
  ASSUME TypeOK, NEW c \in Context, NEW v \in Tid \cup {NoTid},
         c.at \in InTail => local[c.flow] # NoTid,
         cpu.at \in InTail \cup {"x1"} => local[cpu.flow] # NoTid,
         Resume(c, v)
  PROVE  /\ cpu' \in [flow : Tid, at : Labels]
         /\ pos' \in [Tid -> Nat]
         /\ local' \in [Tid -> Tid \cup {NoTid}]
         /\ proc' \in {proc, "crashed"}
         /\ cpu'.at \in InTail \cup {"x1"} => local'[cpu'.flow] # NoTid
         /\ \A f \in Tid : local[f] # NoTid => local'[f] # NoTid
         /\ proc' # "crashed" => /\ cpu'.flow = c.flow
                                 /\ c.at # "start" => cpu'.at = c.at
                                 /\ c.at = "start" => cpu'.at = "user"
                                 /\ c.at # "none"
<1>0. c.flow \in Tid /\ c.at \in BufferLabels /\ c.pos \in Nat
  BY DEF Context
<1>1. CASE c.at = "none" \/ (c.at = "x1" /\ v = NoTid)
  BY <1>1 DEF Resume, TypeOK
<1>2. CASE ~(c.at = "none" \/ (c.at = "x1" /\ v = NoTid))
  <2>1. CASE proc' = "crashed" /\ UNCHANGED <<cpu, pos, local>>
    BY <2>1 DEF TypeOK
  <2>2. CASE /\ cpu' = [flow |-> c.flow, at |-> IF c.at = "start" THEN "user" ELSE c.at]
             /\ \E p \in {c.pos} \cup (IF Stale(c) THEN {pos[c.flow]} ELSE {}) :
                  pos' = [pos EXCEPT ![c.flow] = p]
             /\ local' = IF c.at = "x1" THEN [local EXCEPT ![c.flow] = v] ELSE local
             /\ UNCHANGED proc
    <3>1. pos' \in [Tid -> Nat]
      BY <2>2, <1>0 DEF TypeOK
    <3>2. local' \in [Tid -> Tid \cup {NoTid}] /\ (c.at = "x1" => local'[c.flow] # NoTid)
          /\ \A f \in Tid : local[f] # NoTid => local'[f] # NoTid
      BY <1>0, <1>2, <2>2 DEF TypeOK
    <3>3. cpu' \in [flow : Tid, at : Labels] /\ cpu'.flow = c.flow /\ cpu'.at = IF c.at = "start" THEN "user" ELSE c.at
      BY <1>0, <1>2, <2>2, LabelFacts DEF LibraryLabels
    <3>4. cpu'.at \in InTail \cup {"x1"} => local'[cpu'.flow] # NoTid
      BY <1>2, <2>2, <3>2, <3>3 DEF InTail
    <3> QED BY <1>0, <1>2, <2>2, <3>1, <3>2, <3>3, <3>4
  <2> QED BY <1>2, <2>1, <2>2 DEF Resume
<1> QED BY <1>1, <1>2

(* scheduler() goes on with thread n of the table.                          *)
Switches(st, rg, here, n) ==
  /\ n # curr_TID => st[n] = "READY"
  /\ n = curr_TID => \A t \in Scanned(curr_TID) : st[t] # "READY"
  /\ curr_TID' = n
  /\ status' = [Demoted(st, curr_TID) EXCEPT ![n] = "RUNNING"]
  /\ reg' = Saved(st, rg, curr_TID, here)
  /\ Resume(reg'[n], NoTid)

(* scheduler() crashes past the table or goes on with a thread of it.       *)
LEMMA SchedulerFacts ==
  ASSUME TypeOK, NEW st, NEW rg, NEW here, Scheduler(st, rg, here)
  PROVE  \/ proc' = "crashed" /\ UNCHANGED <<status, reg, curr_TID, cpu, pos, local>>
         \/ \E n \in Tid : Switches(st, rg, here, n)
<1>1. CASE \E n \in Tid :
             /\ IsNext(st, curr_TID, n)
             /\ curr_TID' = n
             /\ status' = [Demoted(st, curr_TID) EXCEPT ![n] = "RUNNING"]
             /\ reg' = Saved(st, rg, curr_TID, here)
             /\ Resume(Saved(st, rg, curr_TID, here)[n], NoTid)
  <2>1. PICK n \in Tid :
             /\ IsNext(st, curr_TID, n)
             /\ curr_TID' = n
             /\ status' = [Demoted(st, curr_TID) EXCEPT ![n] = "RUNNING"]
             /\ reg' = Saved(st, rg, curr_TID, here)
             /\ Resume(Saved(st, rg, curr_TID, here)[n], NoTid)
    BY <1>1
  <2>2. curr_TID \notin Scanned(curr_TID)
    BY Constants DEF TypeOK, Scanned, Tid
  <2>3. /\ n # curr_TID => st[n] = "READY"
        /\ n = curr_TID => \A t \in Scanned(curr_TID) : st[t] # "READY"
    BY <2>1, <2>2 DEF IsNext, FirstAmong
  <2>4. Resume(reg'[n], NoTid)
    BY <2>1
  <2>5. Switches(st, rg, here, n)
    BY <2>1, <2>3, <2>4 DEF Switches
  <2> QED BY <2>5
<1>2. CASE /\ curr_TID = MAX_THREADS - 1
           /\ "READY" \in PastTable
           /\ proc' = "crashed"
           /\ UNCHANGED <<status, reg, curr_TID, cpu, pos, local>>
  BY <1>2
<1> QED BY <1>1, <1>2 DEF Scheduler

(* What scheduler() leaves in the table.                                    *)
LEMMA SwitchFacts ==
  ASSUME TypeOK, NEW st \in [Tid -> Status], NEW rg \in [Tid -> Context], NEW here \in Context,
         NEW n \in Tid, Switches(st, rg, here, n)
  PROVE  /\ status' \in [Tid -> Status] /\ reg' \in [Tid -> Context]
         /\ status'[n] = "RUNNING" /\ curr_TID' = n
         /\ \A t \in Tid \ {n} :
              status'[t] = IF t = curr_TID /\ st[t] = "RUNNING" THEN "READY" ELSE st[t]
         /\ \A t \in Tid :
              reg'[t] = IF t = curr_TID /\ st[t] = "RUNNING" THEN here ELSE rg[t]
<1>1. curr_TID \in Tid
  BY DEF TypeOK
<1>2. /\ Demoted(st, curr_TID) \in [Tid -> Status]
      /\ \A t \in Tid : Demoted(st, curr_TID)[t] =
           IF t = curr_TID /\ st[t] = "RUNNING" THEN "READY" ELSE st[t]
  BY <1>1 DEF Demoted, Status
<1>3. /\ Saved(st, rg, curr_TID, here) \in [Tid -> Context]
      /\ \A t \in Tid : Saved(st, rg, curr_TID, here)[t] =
           IF t = curr_TID /\ st[t] = "RUNNING" THEN here ELSE rg[t]
  BY <1>1 DEF Saved
<1> QED BY <1>2, <1>3 DEF Switches, Status

(* A switch keeps the types, and what the tails know.                       *)
LEMMA SchedulerTypes ==
  ASSUME TypeOK, Known, NEW st \in [Tid -> Status], NEW rg \in [Tid -> Context],
         NEW here \in Context,
         here.at \in InTail => local[here.flow] # NoTid,
         \A t \in Tid : rg[t].at \in InTail => local[rg[t].flow] # NoTid,
         Scheduler(st, rg, here)
  PROVE  /\ status' \in [Tid -> Status] /\ reg' \in [Tid -> Context]
         /\ curr_TID' \in Tid
         /\ cpu' \in [flow : Tid, at : Labels]
         /\ pos' \in [Tid -> Nat]
         /\ local' \in [Tid -> Tid \cup {NoTid}]
         /\ proc' \in {proc, "crashed"}
         /\ Known'
<1>1. CASE proc' = "crashed" /\ UNCHANGED <<status, reg, curr_TID, cpu, pos, local>>
  BY <1>1 DEF TypeOK, Known
<1>2. CASE \E n \in Tid : Switches(st, rg, here, n)
  <2>1. PICK n \in Tid : Switches(st, rg, here, n)
    BY <1>2
  <2>2. /\ status' \in [Tid -> Status] /\ reg' \in [Tid -> Context] /\ curr_TID' \in Tid
        /\ \A t \in Tid : reg'[t] = IF t = curr_TID /\ st[t] = "RUNNING" THEN here ELSE rg[t]
    BY <2>1, SwitchFacts
  <2>3. \A t \in Tid : reg'[t].at \in InTail => local[reg'[t].flow] # NoTid
    BY <2>2
  <2>4. reg'[n] \in Context /\ Resume(reg'[n], NoTid)
    BY <2>1, <2>2 DEF Switches
  <2>5. /\ cpu' \in [flow : Tid, at : Labels]
        /\ pos' \in [Tid -> Nat]
        /\ local' \in [Tid -> Tid \cup {NoTid}]
        /\ proc' \in {proc, "crashed"}
        /\ cpu'.at \in InTail \cup {"x1"} => local'[cpu'.flow] # NoTid
        /\ \A f \in Tid : local[f] # NoTid => local'[f] # NoTid
    BY <2>3, <2>4, ResumeTypes DEF Known
  <2>6. \A t \in Tid : reg'[t].flow \in Tid
    BY <2>2 DEF Context
  <2>7. Known'
    BY <2>3, <2>5, <2>6 DEF Known
  <2> QED BY <2>2, <2>5, <2>7
<1> QED BY <1>1, <1>2, SchedulerFacts

(* The state of the CPU, as a switch would save it.                         *)
LEMMA HereFacts ==
  ASSUME TypeOK, NEW label \in BufferLabels
  PROVE  Here(label) \in Context /\ Here(label).at = label /\ Here(label).flow = cpu.flow
BY DEF Here, Context, TypeOK

(* A move within the running flow.                                          *)
LEMMA GotoFacts ==
  ASSUME TypeOK, NEW label \in Labels, Goto(label)
  PROVE  cpu' \in [flow : Tid, at : Labels] /\ cpu'.at = label /\ cpu'.flow = cpu.flow
BY DEF Goto, TypeOK

(* The types, action by action.                                             *)
LEMMA AlarmTypes == ASSUME TypeOK, Known, Alarm PROVE TypeOK' /\ Known'
<1>1. cpu.at \in BufferLabels
  BY LabelFacts DEF TypeOK
<1>2. Here(cpu.at) \in Context /\ (Here(cpu.at).at \in InTail => local[Here(cpu.at).flow] # NoTid)
  BY <1>1, HereFacts DEF Known
<1>3. /\ Scheduler(status, reg, Here(cpu.at))
      /\ UNCHANGED <<joining, exitcode, stack, total_threads, first_call, target>>
      /\ proc = "running"
  BY DEF Alarm
<1>4. status \in [Tid -> Status] /\ reg \in [Tid -> Context]
      /\ \A t \in Tid : reg[t].at \in InTail => local[reg[t].flow] # NoTid
  BY DEF TypeOK, Known
<1> QED BY <1>2, <1>3, <1>4, SchedulerTypes DEF TypeOK

LEMMA EndsTypes ==
  ASSUME TypeOK, Known, NEW how \in {"exited", "crashed", "overrun", "masked"}, Ends(how)
  PROVE  TypeOK' /\ Known'
BY DEF Ends, TypeOK, Known, tcb, globals, flows

LEMMA CreateTypes == ASSUME TypeOK, Known, Create PROVE TypeOK' /\ Known'
<1>1. CASE Ends("masked") \/ Ends("overrun")
  BY <1>1, EndsTypes
<1>2. ASSUME NEW i \in Tid, CreateThread(i) PROVE TypeOK' /\ Known'
  <2>1. cpu.flow \in Tid /\ proc' = proc /\ UNCHANGED <<exitcode, curr_TID, cpu, target, local>>
    BY <1>2 DEF TypeOK, CreateThread
  <2>2. status' \in [Tid -> Status]
    BY <1>2 DEF CreateThread, InitStatus, TypeOK, Status
  <2>3. pos' \in [Tid -> Nat] /\ [flow |-> 0, at |-> "user", pos |-> pos[0] + 1] \in Context
        /\ [flow |-> i, at |-> "start", pos |-> 0] \in Context
    <3>1. /\ pos \in [Tid -> Nat] /\ pos[0] + 1 \in Nat
          /\ {"user", "start"} \subseteq BufferLabels
          /\ pos' = [pos EXCEPT ![cpu.flow] = @ + 1]
      BY <1>2, Constants, LabelFacts DEF CreateThread, TypeOK
    <3>2. pos' \in [Tid -> Nat]
      BY <2>1, <3>1
    <3> QED BY <3>1, <3>2, Constants DEF Context
  <2>4. InitReg \in [Tid -> Context] /\ \A t \in Tid : InitReg[t] = reg[t] \/ InitReg[t].at = "user"
    BY <2>3, Constants DEF InitReg, TypeOK
  <2>5. reg' \in [Tid -> Context]
        /\ \A t \in Tid : reg'[t] = reg[t] \/ reg'[t].at \in {"user", "start"}
    BY <1>2, <2>3, <2>4 DEF CreateThread
  <2>6. joining' \in [Tid -> Tid \cup {NoTid}]
    BY <1>2 DEF CreateThread, TypeOK
  <2>7. stack' \in [Tid -> {"none", "owned", "freed"}] /\ total_threads' \in Int /\ first_call' \in BOOLEAN
    <3>1. /\ stack' = [stack EXCEPT ![i] = "owned"] /\ first_call' = FALSE
          /\ total_threads' = InitTotal + 1 /\ InitTotal \in Int
      BY <1>2 DEF CreateThread, InitTotal, TypeOK
    <3>2. stack' \in [Tid -> {"none", "owned", "freed"}]
      BY <3>1 DEF TypeOK
    <3>3. total_threads' \in Int
      BY <3>1
    <3>4. first_call' \in BOOLEAN
      BY <3>1
    <3> QED BY <3>2, <3>3, <3>4
  <2>8. TypeOK'
    BY <2>1, <2>2, <2>3, <2>5, <2>6, <2>7 DEF TypeOK
  <2>9. Known'
    BY <2>1, <2>5 DEF Known, InTail
  <2> QED BY <2>8, <2>9
<1> QED BY <1>1, <1>2 DEF Create

LEMMA ExitTypes == ASSUME TypeOK, Known, Exit PROVE TypeOK' /\ Known'
<1>1. curr_TID \in Tid /\ cpu.flow \in Tid /\ "x6" \in Labels /\ "e0" \in Labels /\ "user" \in BufferLabels
      /\ "x1" \in BufferLabels /\ proc = "running"
  BY LabelFacts DEF TypeOK, Exit, At, LibraryLabels
<1>2. CASE ExitToJoiner
  <2>1. status' \in [Tid -> Status] /\ exitcode' \in [Tid -> Tid \cup {NoTid}] /\ curr_TID' \in Tid
        /\ stack' \in [Tid -> {"none", "owned", "freed"}] /\ total_threads' \in Int
    BY <1>1, <1>2 DEF ExitToJoiner, TypeOK, Status
  <2>2. cpu' \in [flow : Tid, at : Labels] /\ cpu'.at = "x6"
    BY <1>1, <1>2, GotoFacts DEF ExitToJoiner
  <2>3. UNCHANGED <<joining, reg, first_call, pos, target, local, proc>>
    BY <1>2 DEF ExitToJoiner
  <2>4. TypeOK'
    BY <2>1, <2>2, <2>3 DEF TypeOK
  <2> QED BY <2>2, <2>3, <2>4 DEF Known, InTail
<1>3. CASE ExitToWait
  <2> DEFINE st == [status EXCEPT ![curr_TID] = "WAITING"]
             rg == [reg EXCEPT ![curr_TID] = Here("x1")]
  <2>1. /\ st \in [Tid -> Status] /\ rg \in [Tid -> Context]
        /\ \A t \in Tid : rg[t].at \in InTail => local[rg[t].flow] # NoTid
    BY <1>1, HereFacts DEF TypeOK, Status, Known, InTail
  <2>2. UNCHANGED <<joining, exitcode, stack, total_threads, first_call, target>>
    BY <1>3 DEF ExitToWait
  <2>3. CASE NoneReady(st)
    <3>1. status' = st /\ reg' = rg /\ Goto("e0") /\ UNCHANGED <<curr_TID, pos, local, proc>>
      BY <1>3, <2>3 DEF ExitToWait
    <3>2. cpu' \in [flow : Tid, at : Labels] /\ cpu'.at = "e0"
      BY <1>1, <3>1, GotoFacts
    <3>3. TypeOK'
      BY <2>1, <2>2, <3>1, <3>2 DEF TypeOK
    <3> QED BY <2>1, <3>1, <3>2, <3>3 DEF Known, InTail
  <2>4. CASE ~NoneReady(st)
    <3>1. Scheduler(st, rg, Here("user"))
      BY <1>3, <2>4 DEF ExitToWait
    <3>2. Here("user") \in Context /\ Here("user").at = "user"
      BY <1>1, HereFacts
    <3> HIDE DEF st, rg
    <3>3. /\ status' \in [Tid -> Status] /\ reg' \in [Tid -> Context] /\ curr_TID' \in Tid
          /\ cpu' \in [flow : Tid, at : Labels] /\ pos' \in [Tid -> Nat]
          /\ local' \in [Tid -> Tid \cup {NoTid}] /\ proc' \in {proc, "crashed"} /\ Known'
      BY <2>1, <3>1, <3>2, SchedulerTypes DEF InTail
    <3> QED BY <1>1, <2>2, <3>3 DEF TypeOK
  <2> QED BY <2>3, <2>4
<1> QED BY <1>2, <1>3 DEF Exit

LEMMA JoinTypes == ASSUME TypeOK, Known, NEW t \in Tid, Join(t) PROVE TypeOK' /\ Known'
<1>1. curr_TID \in Tid /\ cpu.flow \in Tid /\ "k1" \in Labels /\ "user" \in BufferLabels
      /\ "j1" \in BufferLabels /\ proc = "running" /\ cpu.at = "user"
  BY LabelFacts DEF TypeOK, Join, At, LibraryLabels
<1>2. /\ [status EXCEPT ![curr_TID] = "BLOCKED"] \in [Tid -> Status]
      /\ [reg EXCEPT ![curr_TID] = Here("j1")] \in [Tid -> Context]
      /\ \A u \in Tid : [reg EXCEPT ![curr_TID] = Here("j1")][u].at \in InTail
            => local[[reg EXCEPT ![curr_TID] = Here("j1")][u].flow] # NoTid
  BY <1>1, HereFacts DEF TypeOK, Status, Known, InTail
<1>3. CASE JoinReturnsAtOnce(t)
  BY <1>1, <1>3 DEF JoinReturnsAtOnce, TypeOK, Known, tcb, globals
<1>4. CASE JoinEnters(t)
  <2>1. cpu' \in [flow : Tid, at : Labels] /\ cpu'.at = "k1" /\ cpu'.flow = cpu.flow
    BY <1>1, <1>4, GotoFacts DEF JoinEnters
  <2>2. /\ status' = [status EXCEPT ![curr_TID] = "BLOCKED"]
        /\ reg' = [reg EXCEPT ![curr_TID] = Here("j1")]
        /\ curr_TID' = t
        /\ target' = [target EXCEPT ![cpu.flow] = t]
        /\ local' = [local EXCEPT ![cpu.flow] = curr_TID]
        /\ UNCHANGED <<joining, exitcode, stack, total_threads, first_call, pos, proc>>
    BY <1>4 DEF JoinEnters
  <2>3. target' \in [Tid -> Tid \cup {NoTid}] /\ local' \in [Tid -> Tid \cup {NoTid}]
        /\ local'[cpu.flow] = curr_TID
        /\ \A f \in Tid : local[f] # NoTid => local'[f] # NoTid
    BY <1>1, <2>2, Constants DEF TypeOK
  <2>4. TypeOK'
    BY <1>2, <2>1, <2>2, <2>3 DEF TypeOK
  <2>5. \A u \in Tid : reg'[u].flow \in Tid /\ (reg'[u].at \in InTail => local[reg'[u].flow] # NoTid)
    BY <1>2, <2>2 DEF Context
  <2>6. Known'
    BY <1>1, <2>1, <2>3, <2>5, Constants DEF Known
  <2> QED BY <2>4, <2>6
<1>5. CASE JoinBlocks(t)
  <2> DEFINE st == [status EXCEPT ![curr_TID] = "BLOCKED"]
             rg == [reg EXCEPT ![curr_TID] = Here("j1")]
  <2>1. /\ joining' \in [Tid -> Tid \cup {NoTid}]
        /\ target' \in [Tid -> Tid \cup {NoTid}]
        /\ UNCHANGED <<exitcode, stack, total_threads, first_call>>
        /\ Scheduler(st, rg, Here("user"))
    BY <1>1, <1>5 DEF JoinBlocks, Noted, TypeOK
  <2>2. Here("user") \in Context /\ Here("user").at = "user"
    BY <1>1, HereFacts
  <2>3. /\ st \in [Tid -> Status] /\ rg \in [Tid -> Context]
        /\ \A u \in Tid : rg[u].at \in InTail => local[rg[u].flow] # NoTid
    BY <1>2
  <2> HIDE DEF st, rg
  <2>4. /\ status' \in [Tid -> Status] /\ reg' \in [Tid -> Context] /\ curr_TID' \in Tid
        /\ cpu' \in [flow : Tid, at : Labels] /\ pos' \in [Tid -> Nat]
        /\ local' \in [Tid -> Tid \cup {NoTid}] /\ proc' \in {proc, "crashed"} /\ Known'
    BY <2>1, <2>2, <2>3, SchedulerTypes DEF InTail
  <2> QED BY <1>1, <2>1, <2>4 DEF TypeOK
<1> QED BY <1>3, <1>4, <1>5 DEF Join

(* A jump to the buffer of a thread.                                        *)
LEMMA JumpTypes ==
  ASSUME TypeOK, Known, proc = "running", NEW n \in Tid, NEW v \in Tid \cup {NoTid},
         Resume(reg[n], v), UNCHANGED <<tcb, globals, target>>
  PROVE  TypeOK' /\ Known'
<1>1. reg[n] \in Context /\ \A t \in Tid : reg[t].flow \in Tid
  BY DEF TypeOK, Context
<1>2. /\ cpu' \in [flow : Tid, at : Labels] /\ pos' \in [Tid -> Nat]
      /\ local' \in [Tid -> Tid \cup {NoTid}] /\ proc' \in {proc, "crashed"}
      /\ cpu'.at \in InTail \cup {"x1"} => local'[cpu'.flow] # NoTid
      /\ \A f \in Tid : local[f] # NoTid => local'[f] # NoTid
  BY <1>1, ResumeTypes DEF Known
<1>3. TypeOK'
  BY <1>2 DEF TypeOK, tcb, globals
<1>4. Known'
  BY <1>1, <1>2 DEF Known, tcb
<1> QED BY <1>3, <1>4

LEMMA LibraryTypes == ASSUME TypeOK, Known, Library PROVE TypeOK' /\ Known'
<1>0. curr_TID \in Tid /\ cpu.flow \in Tid /\ {"e1", "x2", "x3", "x4", "x5", "x6", "user"} \subseteq Labels
  BY LabelFacts DEF TypeOK, LibraryLabels
<1>1. CASE ExitToMain0
  BY <1>0, <1>1, GotoFacts, Constants DEF ExitToMain0, TypeOK, Known, InTail, tcb
<1>2. CASE ExitToMain1
  BY <1>2, JumpTypes, Constants DEF ExitToMain1, At
<1>3. CASE Tail1
  <2>1. CASE status' = [status EXCEPT ![curr_TID] = "EXITED"] /\ Goto("x2")
    BY <1>0, <1>3, <2>1, GotoFacts DEF Tail1, At, TypeOK, Status, Known, globals
  <2>2. CASE Goto("x4") /\ UNCHANGED status
    BY <1>0, <1>3, <2>2, GotoFacts DEF Tail1, At, TypeOK, Known, globals
  <2> QED BY <1>3, <2>1, <2>2 DEF Tail1
<1>4. CASE Tail2
  <2>1. CASE Ends("crashed")
    BY <2>1, EndsTypes
  <2>2. CASE ~Ends("crashed")
    BY <1>0, <1>4, <2>2, GotoFacts DEF Tail2, At, TypeOK, Known, globals, InTail
  <2> QED BY <2>1, <2>2
<1>5. CASE Tail3
  BY <1>0, <1>5, GotoFacts DEF Tail3, At, TypeOK, Known, tcb, InTail
<1>6. CASE Tail4
  BY <1>0, <1>6, GotoFacts DEF Tail4, At, TypeOK, Known, globals, InTail
<1>7. CASE Tail5
  <2>1. local[cpu.flow] \in Tid
    BY <1>0, <1>7 DEF Tail5, At, Known, InTail, TypeOK
  <2> QED BY <1>0, <1>7, <2>1, GotoFacts DEF Tail5, At, TypeOK, Known, tcb, InTail
<1>8. CASE Tail6
  BY <1>0, <1>8, JumpTypes DEF Tail6, At
<1>9. CASE JoinJumps
  <2>1. local[cpu.flow] \in Tid \cup {NoTid}
    BY <1>0 DEF TypeOK
  <2> QED BY <1>0, <1>9, <2>1, JumpTypes DEF JoinJumps, At
<1>10. CASE JoinReturns
  <2>1. cpu' \in [flow : Tid, at : Labels] /\ cpu'.at = "user"
    BY <1>0, <1>10, GotoFacts DEF JoinReturns
  <2>2. status' \in [Tid -> Status] /\ target' \in [Tid -> Tid \cup {NoTid}] /\ pos' \in [Tid -> Nat]
        /\ UNCHANGED <<joining, exitcode, stack, reg, globals, local, proc>>
    BY <1>0, <1>10 DEF JoinReturns, TypeOK, Status
  <2> QED BY <2>1, <2>2 DEF TypeOK, Known, globals, InTail
<1> QED BY <1>1, <1>2, <1>3, <1>4, <1>5, <1>6, <1>7, <1>8, <1>9, <1>10 DEF Library

(* A step of a semaphore call within the flow that makes it.                *)
LEMMA MoveTypes ==
  ASSUME TypeOK, Known, NEW label \in Labels \ (InTail \cup {"x1"}), Goto(label),
         pos' \in [Tid -> Nat], status' \in [Tid -> Status],
         UNCHANGED <<joining, exitcode, stack, reg, globals, target, local, proc>>
  PROVE  TypeOK' /\ Known' /\ cpu'.at = label /\ cpu'.flow = cpu.flow
<1>1. cpu' \in [flow : Tid, at : Labels] /\ cpu'.at = label /\ cpu'.flow = cpu.flow
  BY GotoFacts
<1> QED BY <1>1 DEF TypeOK, Known, globals

(* A step of a semaphore call that leaves the thread table alone.           *)
LEMMA MovesTypes ==
  ASSUME TypeOK, Known, NEW label \in Labels \ (InTail \cup {"x1"}),
         Moves(label) \/ Returns(label)
  PROVE  TypeOK' /\ Known' /\ cpu'.at = label /\ cpu'.flow = cpu.flow
<1>1. pos' \in [Tid -> Nat] /\ status' \in [Tid -> Status]
  <2>1. cpu.flow \in Tid /\ pos \in [Tid -> Nat] /\ status \in [Tid -> Status]
    BY DEF TypeOK
  <2>2. status' = status /\ (pos' = pos \/ pos' = [pos EXCEPT ![cpu.flow] = @ + 1])
    BY DEF Moves, Returns, tcb
  <2> QED BY <2>1, <2>2
<1> QED BY <1>1, MoveTypes DEF Moves, Returns, tcb

(* The labels of the semaphore are none of the tail of pthread_exit.        *)
LEMMA SemLabelsApart ==
  SemLabels \cup {"user"} \subseteq Labels \ (InTail \cup {"x1"})
BY LabelFacts DEF SemLabels, InTail

LEMMA WaitTypes ==
  ASSUME TInv, WaitTests \/ WaitBlocks \/ WaitQueues \/ WaitLoads \/ WaitTakes PROVE TInv'
<1>0. /\ TypeOK /\ Known /\ val \in Int /\ loaded \in [Tid -> Int] /\ waiting \in [Tid -> Tid]
      /\ curr_TID \in Tid /\ cpu.flow \in Tid /\ 0 \in Tid
      /\ SemLabels \cup {"user"} \subseteq Labels \ (InTail \cup {"x1"})
  BY SemLabelsApart, Constants DEF TInv, SemTypeOK, TypeOK
<1>1. CASE WaitTests
  <2>1. TypeOK' /\ Known'
    BY <1>0, <1>1, MovesTypes DEF WaitTests, SemLabels
  <2> QED BY <1>1, <2>1 DEF WaitTests, TInv, SemTypeOK, semvars, semaphore, locals
<1>2. CASE WaitBlocks
  <2>1. status' \in [Tid -> Status] /\ pos' \in [Tid -> Nat]
    BY <1>0, <1>2 DEF WaitBlocks, TypeOK, Status
  <2>2. TypeOK' /\ Known'
    BY <1>0, <1>2, <2>1, MoveTypes DEF WaitBlocks, SemLabels
  <2> QED BY <1>2, <2>2 DEF WaitBlocks, TInv, SemTypeOK, semvars, semaphore, locals
<1>3. CASE WaitQueues
  <2>1. CASE Ends("overrun") /\ UNCHANGED waiting
    <3>1. TypeOK' /\ Known'
      BY <1>0, <2>1, EndsTypes
    <3> QED BY <1>3, <2>1, <3>1 DEF WaitQueues, TInv, SemTypeOK, locals
  <2>2. ASSUME NEW i \in Tid, waiting' = [waiting EXCEPT ![i] = curr_TID],
               Scheduler(status, reg, Here("user")),
               UNCHANGED <<joining, exitcode, stack, total_threads, first_call, target>>
        PROVE  TInv'
    <3>1. waiting' \in [Tid -> Tid]
      BY <1>0, <2>2
    <3>2. Here("user") \in Context /\ Here("user").at = "user"
      BY <1>0, HereFacts, LabelFacts
    <3>3. /\ status \in [Tid -> Status] /\ reg \in [Tid -> Context]
          /\ \A u \in Tid : reg[u].at \in InTail => local[reg[u].flow] # NoTid
      BY <1>0 DEF TypeOK, Known
    <3>4. /\ status' \in [Tid -> Status] /\ reg' \in [Tid -> Context] /\ curr_TID' \in Tid
          /\ cpu' \in [flow : Tid, at : Labels] /\ pos' \in [Tid -> Nat]
          /\ local' \in [Tid -> Tid \cup {NoTid}] /\ proc' \in {proc, "crashed"} /\ Known'
      BY <1>0, <2>2, <3>2, <3>3, SchedulerTypes DEF InTail
    <3>5. TypeOK'
      BY <1>0, <2>2, <3>4 DEF TypeOK
    <3> QED BY <1>3, <3>1, <3>4, <3>5 DEF WaitQueues, TInv, SemTypeOK, locals
  <2> QED BY <1>3, <2>1, <2>2 DEF WaitQueues
<1>4. CASE WaitLoads
  <2>1. TypeOK' /\ Known'
    BY <1>0, <1>4, MovesTypes DEF WaitLoads, LoadsVal, SemLabels
  <2> QED BY <1>0, <1>4, <2>1 DEF WaitLoads, LoadsVal, TInv, SemTypeOK, semaphore
<1>5. CASE WaitTakes
  <2>1. TypeOK' /\ Known'
    BY <1>0, <1>5, MovesTypes DEF WaitTakes, SemLabels
  <2> QED BY <1>0, <1>5, <2>1 DEF WaitTakes, TInv, SemTypeOK, locals
<1> QED BY <1>1, <1>2, <1>3, <1>4, <1>5

LEMMA PostTypes ==
  ASSUME TInv,
         PostTests \/ PostSearches \/ PostReads \/ PostWakes \/ PostJumps \/ PostLoads \/ PostGives
  PROVE  TInv'
<1>0. /\ TypeOK /\ Known /\ val \in Int /\ loaded \in [Tid -> Int] /\ waiting \in [Tid -> Tid]
      /\ slot \in [Tid -> Tid] /\ next_run \in [Tid -> Tid] /\ Empty \in Tid
      /\ curr_TID \in Tid /\ cpu.flow \in Tid
      /\ SemLabels \cup {"user"} \subseteq Labels \ (InTail \cup {"x1"})
  BY SemLabelsApart, Constants DEF TInv, SemTypeOK, TypeOK, Empty
<1>1. CASE PostTests
  <2>1. TypeOK' /\ Known'
    BY <1>0, <1>1, MovesTypes DEF PostTests, SemLabels
  <2> QED BY <1>1, <2>1 DEF PostTests, TInv, SemTypeOK, semvars, semaphore, locals
<1>2. CASE PostSearches
  <2>1. TypeOK' /\ Known'
    BY <1>0, <1>2, MovesTypes DEF PostSearches, SemLabels
  <2>2. slot' \in [Tid -> Tid]
    BY <1>0, <1>2 DEF PostSearches
  <2> QED BY <1>2, <2>1, <2>2 DEF PostSearches, TInv, SemTypeOK, semaphore
<1>3. CASE PostReads
  <2>1. TypeOK' /\ Known'
    BY <1>0, <1>3, MovesTypes DEF PostReads, SemLabels
  <2>2. waiting[slot[cpu.flow]] \in Tid
    BY <1>0
  <2>3. next_run' \in [Tid -> Tid] /\ waiting' \in [Tid -> Tid]
    BY <1>0, <1>3, <2>2 DEF PostReads
  <2> QED BY <1>3, <2>1, <2>3 DEF PostReads, TInv, SemTypeOK
<1>4. CASE PostWakes
  <2>1. status' \in [Tid -> Status] /\ pos' \in [Tid -> Nat]
    BY <1>0, <1>4 DEF PostWakes, TypeOK, Status
  <2>2. TypeOK' /\ Known'
    BY <1>0, <1>4, <2>1, MoveTypes DEF PostWakes, SemLabels
  <2> QED BY <1>4, <2>2 DEF PostWakes, TInv, SemTypeOK, semvars, semaphore, locals
<1>5. CASE PostJumps
  <2>1. TypeOK' /\ Known'
    <3>1. next_run[cpu.flow] \in Tid
      BY <1>0
    <3> QED BY <1>0, <1>5, <3>1, JumpTypes DEF PostJumps, At
  <2> QED BY <1>5, <2>1 DEF PostJumps, TInv, SemTypeOK, semvars, semaphore, locals
<1>6. CASE PostLoads
  <2>1. TypeOK' /\ Known'
    BY <1>0, <1>6, MovesTypes DEF PostLoads, LoadsVal, SemLabels
  <2> QED BY <1>0, <1>6, <2>1 DEF PostLoads, LoadsVal, TInv, SemTypeOK, semaphore
<1>7. CASE PostGives
  <2>1. TypeOK' /\ Known'
    BY <1>0, <1>7, MovesTypes DEF PostGives, SemLabels
  <2> QED BY <1>0, <1>7, <2>1 DEF PostGives, TInv, SemTypeOK, locals
<1> QED BY <1>1, <1>2, <1>3, <1>4, <1>5, <1>6, <1>7

LEMMA InitTypes == SemSetUp => TInv
<1> SUFFICES ASSUME SemSetUp PROVE TInv
  OBVIOUS
<1>1. TypeOK
  <2>1. \A t \in Tid : [flow |-> t, at |-> "none", pos |-> 0] \in Context
    BY LabelFacts DEF Context
  <2>2. "user" \in Labels /\ 0 \in Tid
    BY LabelFacts, Constants
  <2> QED BY <2>1, <2>2 DEF SemSetUp, Init, TypeOK, Status
<1>2. Known
  BY DEF SemSetUp, Init, Known, InTail
<1> QED BY <1>1, <1>2, Constants DEF SemSetUp, TInv, SemTypeOK, Empty

(* Every step keeps the types.                                              *)
LEMMA TypesInductive == TInv /\ [SemNext]_allvars => TInv'
<1> SUFFICES ASSUME TInv, [SemNext]_allvars PROVE TInv'
  OBVIOUS
<1>0. TypeOK /\ Known
  BY DEF TInv, SemTypeOK
<1>1. CASE UNCHANGED allvars
  BY <1>1 DEF allvars, vars, tcb, globals, flows, semvars, semaphore, locals, TInv,
    SemTypeOK, TypeOK, Known
<1>2. CASE SemStep
  <2>1. CASE SemInit
    BY <2>1, Constants
       DEF SemInit, vars, tcb, globals, flows, locals, TInv, SemTypeOK, TypeOK, Known, Empty
  <2>2. CASE SemDestroy
    BY <2>2 DEF SemDestroy, vars, tcb, globals, flows, locals, TInv, SemTypeOK, TypeOK, Known
  <2> QED BY <1>2, <2>1, <2>2, WaitTypes, PostTypes DEF SemStep
<1>3. CASE (Library \/ Alarm \/ Terminated) /\ UNCHANGED semvars
  <2>1. TypeOK' /\ Known'
    <3>1. CASE Terminated
      BY <1>0, <3>1 DEF Terminated, vars, tcb, globals, flows, TypeOK, Known
    <3> QED BY <1>0, <1>3, <3>1, LibraryTypes, AlarmTypes
  <2> QED BY <1>3, <2>1 DEF TInv, SemTypeOK, semvars, semaphore, locals
<1>4. CASE RunsAsItself /\ Calls /\ UNCHANGED semvars
  <2>1. TypeOK' /\ Known'
    BY <1>0, <1>4, CreateTypes, ExitTypes, JoinTypes, EndsTypes DEF Calls, MainReturns
  <2> QED BY <1>4, <2>1 DEF TInv, SemTypeOK, semvars, semaphore, locals
<1> QED BY <1>1, <1>2, <1>3, <1>4 DEF SemNext

(* Every variable keeps its type wherever alarms arrive: in the middle of   *)
(* the calls of the semaphore too, a switch is always to a thread of the    *)
(* table (30-60, 320-414).                                                  *)
THEOREM SemTypeCorrect == SemSpec => []SemTypeOK
<1>1. SemSetUp => TInv
  BY InitTypes
<1>2. TInv /\ [SemNext]_allvars => TInv'
  BY TypesInductive
<1>3. TInv => SemTypeOK
  BY DEF TInv
<1> QED BY <1>1, <1>2, <1>3, PTL DEF SemSpec

-----------------------------------------------------------------------------
(* No unit is offered while somebody is queued *)

(* A step after which the CPU is outside the calls of the semaphore.        *)
LEMMA OutsideStep ==
  ASSUME NInv, UNCHANGED <<sem, val, waiting, loaded>>,
         \A t \in Tid : reg'[t].at \notin SemLabels \ {"crit"},
         sem = "none" => cpu'.at \notin SemLabels /\ \A t \in Tid : reg'[t].at # "crit",
         Running' => cpu'.at \notin SemLabels \ {"crit"}
  PROVE  NInv'
<1>1. NotInCall'
  BY DEF NotInCall
<1>2. BeforeSemInit'
  BY DEF NInv, BeforeSemInit
<1>3. ValueAt'
  BY DEF ValueAt, SemLabels
<1>4. QueueIdle'
  BY DEF NInv, QueueIdle, TakenSlots
<1> QED BY <1>1, <1>2, <1>3, <1>4 DEF NInv

(* A jump leads outside the calls of the semaphore.                         *)
LEMMA JumpOutside ==
  ASSUME TypeOK, Known, NInv, NEW c \in Context, NEW v \in Tid \cup {NoTid},
         c.at \in InTail => local[c.flow] # NoTid,
         c.at \notin SemLabels \ {"crit"}, sem = "none" => c.at # "crit",
         Resume(c, v)
  PROVE  /\ sem = "none" => cpu'.at \notin SemLabels
         /\ proc' = "running" => cpu'.at \notin SemLabels \ {"crit"}
<1>1. proc' # "crashed" => cpu'.at \in {c.at, "user"}
  BY ResumeTypes DEF Known
<1>2. proc' = "crashed" => cpu' = cpu \/ proc = "crashed"
  BY DEF Resume
<1>3. proc' = "crashed" => cpu' = cpu \/ cpu'.at \in {c.at, "user"}
  BY DEF Resume
<1>4. "user" \notin SemLabels
  BY DEF SemLabels
<1> QED BY <1>1, <1>3, <1>4 DEF NInv, BeforeSemInit

(* scheduler() goes on outside the calls, from buffers that lead there.     *)
LEMMA SchedulerOutside ==
  ASSUME TypeOK, Known, NInv,
         NEW st \in [Tid -> Status], NEW rg \in [Tid -> Context], NEW here \in Context,
         here.at \in InTail => local[here.flow] # NoTid,
         \A t \in Tid : rg[t].at \in InTail => local[rg[t].flow] # NoTid,
         here.at \notin SemLabels \ {"crit"}, sem = "none" => here.at # "crit",
         \A t \in Tid : rg[t].at \notin SemLabels \ {"crit"} /\ (sem = "none" => rg[t].at # "crit"),
         Scheduler(st, rg, here)
  PROVE  /\ \A t \in Tid : reg'[t].at \notin SemLabels \ {"crit"}
         /\ sem = "none" => cpu'.at \notin SemLabels /\ \A t \in Tid : reg'[t].at # "crit"
         /\ Running' => cpu'.at \notin SemLabels \ {"crit"}
<1>1. CASE proc' = "crashed" /\ UNCHANGED <<status, reg, curr_TID, cpu, pos, local>>
  BY <1>1 DEF NInv, NotInCall, BeforeSemInit, Running
<1>2. ASSUME NEW n \in Tid, Switches(st, rg, here, n)
      PROVE  /\ \A t \in Tid : reg'[t].at \notin SemLabels \ {"crit"}
             /\ sem = "none" => cpu'.at \notin SemLabels /\ \A t \in Tid : reg'[t].at # "crit"
             /\ Running' => cpu'.at \notin SemLabels \ {"crit"}
  <2>1. /\ reg' \in [Tid -> Context]
        /\ \A t \in Tid : reg'[t] = here \/ reg'[t] = rg[t]
    BY <1>2, SwitchFacts
  <2>2. /\ \A t \in Tid : reg'[t].at \notin SemLabels \ {"crit"}
        /\ sem = "none" => \A t \in Tid : reg'[t].at # "crit"
        /\ reg'[n].at \in InTail => local[reg'[n].flow] # NoTid
    BY <2>1
  <2>3. Resume(reg'[n], NoTid) /\ reg'[n] \in Context
    BY <1>2, <2>1 DEF Switches
  <2> QED BY <2>2, <2>3, JumpOutside DEF Running
<1> QED BY <1>1, <1>2, SchedulerFacts

(* The steps of module Threads, action by action.                           *)
LEMMA AlarmOutside == ASSUME TInv, NInv, SemUninterrupted, Alarm, UNCHANGED semvars PROVE NInv'
<1>0. TypeOK /\ Known /\ cpu.at \in BufferLabels
  BY LabelFacts DEF TInv, SemTypeOK, TypeOK
<1>1. /\ Here(cpu.at) \in Context /\ Here(cpu.at).at = cpu.at
      /\ Here(cpu.at).at \in InTail => local[Here(cpu.at).flow] # NoTid
  BY <1>0, HereFacts DEF Known
<1>2. cpu.at \notin SemLabels \ {"crit"} /\ (sem = "none" => cpu.at # "crit")
  BY DEF Alarm, SemUninterrupted, NInv, BeforeSemInit, SemLabels
<1>3. status \in [Tid -> Status] /\ reg \in [Tid -> Context]
      /\ \A t \in Tid : reg[t].at \in InTail => local[reg[t].flow] # NoTid
  BY <1>0 DEF TypeOK, Known
<1>4. \A t \in Tid : reg[t].at \notin SemLabels \ {"crit"} /\ (sem = "none" => reg[t].at # "crit")
  BY DEF NInv, NotInCall, BeforeSemInit
<1>5. Scheduler(status, reg, Here(cpu.at))
  BY DEF Alarm
<1> HIDE DEF NInv
<1>6. /\ \A t \in Tid : reg'[t].at \notin SemLabels \ {"crit"}
      /\ sem = "none" => cpu'.at \notin SemLabels /\ \A t \in Tid : reg'[t].at # "crit"
      /\ Running' => cpu'.at \notin SemLabels \ {"crit"}
  BY <1>0, <1>1, <1>2, <1>3, <1>4, <1>5, SchedulerOutside
<1> QED BY <1>6, OutsideStep DEF semvars, semaphore, locals

(* The labels of the library and the program are outside the calls.         *)
LEMMA LabelsOutside ==
  /\ "crit" \in SemLabels
  /\ \A label \in LibraryLabels \cup {"user", "start", "none"} : label \notin SemLabels
BY DEF LibraryLabels, SemLabels

LEMMA EndsOutside ==
  ASSUME NInv, NEW how \in {"exited", "crashed", "overrun", "masked"}, Ends(how),
         UNCHANGED <<sem, val, waiting, loaded>>
  PROVE  NInv'
BY OutsideStep DEF Ends, Running, NInv, NotInCall, BeforeSemInit, tcb, flows

LEMMA CallsOutside ==
  ASSUME TInv, NInv, Calls, UNCHANGED semvars PROVE NInv'
<1>0. /\ TypeOK /\ Known /\ curr_TID \in Tid /\ cpu.flow \in Tid /\ "user" \in BufferLabels
      /\ {"x1", "j1", "user"} \subseteq BufferLabels
      /\ UNCHANGED <<sem, val, waiting, loaded>>
      /\ reg \in [Tid -> Context] /\ status \in [Tid -> Status]
  BY LabelFacts DEF TInv, SemTypeOK, TypeOK, semvars, semaphore, locals, LibraryLabels
<1>1. \A t \in Tid : reg[t].at \notin SemLabels \ {"crit"} /\ (sem = "none" => reg[t].at # "crit")
  BY DEF NInv, NotInCall, BeforeSemInit
<1>2. /\ Here("user") \in Context /\ Here("user").at = "user"
      /\ Here("x1").at = "x1" /\ Here("j1").at = "j1"
      /\ Here("x1") \in Context /\ Here("j1") \in Context
  BY <1>0, HereFacts
<1>3. \A t \in Tid : reg[t].at \in InTail => local[reg[t].flow] # NoTid
  BY <1>0 DEF Known
<1>4. CASE Create
  <2>1. ASSUME NEW i \in Tid, CreateThread(i) PROVE NInv'
    <3>1. cpu.at = "user" /\ cpu' = cpu
      BY <1>4, <2>1 DEF Create, At, CreateThread
    <3>2. \A t \in Tid : reg'[t].at \in {reg[t].at, "user", "start"}
      <4>1. \A t \in Tid : InitReg[t] = reg[t] \/ InitReg[t].at = "user"
        BY <1>0, Constants DEF InitReg
      <4>2. DOMAIN InitReg = Tid
        BY <1>0 DEF InitReg
      <4> QED BY <2>1, <4>1, <4>2 DEF CreateThread
    <3> QED BY <1>0, <1>1, <3>1, <3>2, OutsideStep, LabelsOutside
  <2> QED BY <1>0, <1>4, <2>1, EndsOutside DEF Create
<1>5. CASE Exit
  <2>1. CASE ExitToJoiner
    <3>1. reg' = reg /\ cpu'.at = "x6"
      BY <1>0, <2>1, LabelFacts, GotoFacts DEF ExitToJoiner, LibraryLabels
    <3> QED BY <1>0, <1>1, <3>1, OutsideStep, LabelsOutside DEF LibraryLabels
  <2>2. CASE ExitToWait
    <3> DEFINE st == [status EXCEPT ![curr_TID] = "WAITING"]
               rg == [reg EXCEPT ![curr_TID] = Here("x1")]
    <3>1. /\ st \in [Tid -> Status] /\ rg \in [Tid -> Context]
          /\ \A t \in Tid : rg[t].at = reg[t].at \/ rg[t].at = "x1"
          /\ \A t \in Tid : rg[t].at \in InTail => local[rg[t].flow] # NoTid
      BY <1>0, <1>2, <1>3 DEF Status, InTail
    <3>2. \A t \in Tid : rg[t].at \notin SemLabels \ {"crit"} /\ (sem = "none" => rg[t].at # "crit")
      BY <1>1, <3>1, LabelsOutside DEF LibraryLabels
    <3>3. CASE reg' = rg /\ Goto("e0")
      <4>1. cpu'.at = "e0"
        BY <1>0, <3>3, LabelFacts, GotoFacts DEF LibraryLabels
      <4> QED BY <1>0, <3>2, <3>3, <4>1, OutsideStep, LabelsOutside DEF LibraryLabels
    <3>4. CASE Scheduler(st, rg, Here("user"))
      <4> HIDE DEF st, rg
      <4>1. /\ \A t \in Tid : reg'[t].at \notin SemLabels \ {"crit"}
            /\ sem = "none" => cpu'.at \notin SemLabels /\ \A t \in Tid : reg'[t].at # "crit"
            /\ Running' => cpu'.at \notin SemLabels \ {"crit"}
        BY <1>0, <1>2, <3>1, <3>2, <3>4, SchedulerOutside, LabelsOutside DEF InTail
      <4> QED BY <1>0, <4>1, OutsideStep
    <3> QED BY <2>2, <3>3, <3>4 DEF ExitToWait
  <2> QED BY <1>5, <2>1, <2>2 DEF Exit
<1>6. ASSUME NEW t \in Tid, Join(t) PROVE NInv'
  <2> DEFINE st == [status EXCEPT ![curr_TID] = "BLOCKED"]
             rg == [reg EXCEPT ![curr_TID] = Here("j1")]
  <2>1. /\ st \in [Tid -> Status] /\ rg \in [Tid -> Context]
        /\ \A u \in Tid : rg[u].at = reg[u].at \/ rg[u].at = "j1"
        /\ \A u \in Tid : rg[u].at \in InTail => local[rg[u].flow] # NoTid
    BY <1>0, <1>2, <1>3 DEF Status, InTail
  <2>2. \A u \in Tid : rg[u].at \notin SemLabels \ {"crit"} /\ (sem = "none" => rg[u].at # "crit")
    BY <1>1, <2>1, LabelsOutside DEF LibraryLabels
  <2>3. CASE JoinReturnsAtOnce(t)
    <3>1. cpu' = cpu /\ reg' = reg /\ cpu.at = "user"
      BY <1>6, <2>3 DEF JoinReturnsAtOnce, Join, At, tcb
    <3> QED BY <1>0, <1>1, <3>1, OutsideStep, LabelsOutside
  <2>4. CASE JoinEnters(t)
    <3>1. cpu'.at = "k1" /\ reg' = rg
      BY <1>0, <2>4, LabelFacts, GotoFacts DEF JoinEnters, LibraryLabels
    <3> QED BY <1>0, <2>2, <3>1, OutsideStep, LabelsOutside DEF LibraryLabels
  <2>5. CASE JoinBlocks(t)
    <3>1. Scheduler(st, rg, Here("user"))
      BY <2>5 DEF JoinBlocks
    <3> HIDE DEF st, rg
    <3>2. /\ \A u \in Tid : reg'[u].at \notin SemLabels \ {"crit"}
          /\ sem = "none" => cpu'.at \notin SemLabels /\ \A u \in Tid : reg'[u].at # "crit"
          /\ Running' => cpu'.at \notin SemLabels \ {"crit"}
      BY <1>0, <1>2, <2>1, <2>2, <3>1, SchedulerOutside, LabelsOutside DEF InTail
    <3> QED BY <1>0, <3>2, OutsideStep
  <2> QED BY <1>6, <2>3, <2>4, <2>5 DEF Join
<1>7. CASE MainReturns
  BY <1>0, <1>7, EndsOutside DEF MainReturns
<1> QED BY <1>4, <1>5, <1>6, <1>7 DEF Calls

LEMMA LibraryOutside ==
  ASSUME TInv, NInv, Library, UNCHANGED semvars PROVE NInv'
<1>0. /\ TypeOK /\ Known /\ curr_TID \in Tid /\ cpu.flow \in Tid
      /\ LibraryLabels \cup {"user"} \subseteq Labels
      /\ UNCHANGED <<sem, val, waiting, loaded>>
  BY LabelFacts DEF TInv, SemTypeOK, TypeOK, semvars, semaphore, locals
<1>1. \A t \in Tid : reg[t].at \notin SemLabels \ {"crit"} /\ (sem = "none" => reg[t].at # "crit")
  BY DEF NInv, NotInCall, BeforeSemInit
<1>2. ASSUME NEW n \in Tid, NEW v \in Tid \cup {NoTid}, Resume(reg[n], v), UNCHANGED tcb
      PROVE  NInv'
  <2>1. reg[n] \in Context /\ (reg[n].at \in InTail => local[reg[n].flow] # NoTid) /\ reg' = reg
    BY <1>0, <1>2 DEF TypeOK, Known, tcb
  <2>2. /\ sem = "none" => cpu'.at \notin SemLabels
        /\ proc' = "running" => cpu'.at \notin SemLabels \ {"crit"}
    BY <1>0, <1>1, <1>2, <2>1, JumpOutside
  <2> QED BY <1>0, <1>1, <2>1, <2>2, OutsideStep DEF Running
<1>3. ASSUME NEW label \in LibraryLabels \cup {"user"}, Goto(label), UNCHANGED reg
      PROVE  NInv'
  <2>1. cpu'.at = label
    BY <1>0, <1>3, GotoFacts
  <2> QED BY <1>0, <1>1, <1>3, <2>1, OutsideStep, LabelsOutside
<1>4. CASE ExitToMain1 \/ Tail6 \/ JoinJumps
  <2>1. 0 \in Tid /\ NoTid \in Tid \cup {NoTid} /\ local[cpu.flow] \in Tid \cup {NoTid}
    BY <1>0, Constants DEF TypeOK
  <2> QED BY <1>0, <1>2, <1>4, <2>1 DEF ExitToMain1, Tail6, JoinJumps
<1>5. CASE ExitToMain0 \/ Tail1 \/ Tail3 \/ Tail4 \/ Tail5 \/ JoinReturns
  BY <1>3, <1>5 DEF ExitToMain0, Tail1, Tail3, Tail4, Tail5, JoinReturns, tcb, LibraryLabels
<1>6. CASE Tail2
  BY <1>0, <1>3, <1>6, EndsOutside DEF Tail2, LibraryLabels
<1> QED BY <1>4, <1>5, <1>6 DEF Library

(* A step of a call that leaves the table alone.                            *)
LEMMA InsideStep ==
  ASSUME TInv, NInv, NEW label \in SemLabels \cup {"user"}, Moves(label) \/ Returns(label),
         sem = "INITIALIZED", sem' = sem
  PROVE  /\ NotInCall' /\ BeforeSemInit' /\ cpu'.at = label /\ cpu'.flow = cpu.flow
         /\ proc' = proc
<1>1. cpu'.at = label /\ cpu'.flow = cpu.flow
  BY SemLabelsApart, MovesTypes DEF TInv, SemTypeOK
<1> QED BY <1>1 DEF Moves, Returns, tcb, NInv, NotInCall, BeforeSemInit

(* The steps of sem_wait and of sem_post.                                   *)
LEMMA WaitInside ==
  ASSUME TInv, NInv, WaitTests \/ WaitBlocks \/ WaitQueues \/ WaitLoads \/ WaitTakes
  PROVE  NInv'
<1>0. /\ TypeOK /\ Known /\ curr_TID \in Tid /\ cpu.flow \in Tid
      /\ cpu \in [flow : Tid, at : Labels]
      /\ val \in Int /\ loaded \in [Tid -> Int] /\ waiting \in [Tid -> Tid]
      /\ QueueIdle /\ ValueAt /\ NotInCall /\ BeforeSemInit
      /\ {"w1", "w2", "d1", "d2", "crit"} \subseteq SemLabels
  BY DEF TInv, SemTypeOK, TypeOK, NInv, SemLabels
<1>1. CASE WaitTests
  <2>1. /\ sem' = sem /\ val' = val /\ waiting' = waiting /\ loaded' = loaded
        /\ sem = "INITIALIZED" /\ Moves(IF val <= 0 THEN "w1" ELSE "d1")
    BY <1>1 DEF WaitTests, semvars, semaphore, locals
  <2>2. /\ NotInCall' /\ BeforeSemInit' /\ cpu'.at = IF val <= 0 THEN "w1" ELSE "d1"
    BY <1>0, <2>1, InsideStep
  <2>3. ValueAt'
    BY <1>0, <2>1, <2>2 DEF ValueAt, QueueIdle
  <2>4. QueueIdle'
    BY <1>0, <2>1 DEF QueueIdle, TakenSlots
  <2> QED BY <2>2, <2>3, <2>4 DEF NInv
<1>2. CASE WaitBlocks
  <2>1. cpu'.at = "w2" /\ reg' = reg /\ proc' = proc /\ cpu.at = "w1"
        /\ UNCHANGED <<sem, val, waiting, loaded>>
    <3>1. cpu'.at = "w2"
      BY <1>0, <1>2, GotoFacts, SemLabelsApart DEF WaitBlocks
    <3> QED BY <1>2, <3>1 DEF WaitBlocks, At, semvars, semaphore, locals
  <2>2. sem # "none"
    BY <1>0, <2>1 DEF BeforeSemInit
  <2>3. NotInCall' /\ BeforeSemInit' /\ QueueIdle'
    BY <1>0, <2>1, <2>2 DEF NotInCall, BeforeSemInit, QueueIdle, TakenSlots
  <2>4. ValueAt'
    BY <1>0, <2>1 DEF ValueAt, Running
  <2> QED BY <2>3, <2>4 DEF NInv
<1>3. CASE WaitQueues
  <2>1. sem # "none" /\ val = 0 /\ UNCHANGED <<sem, val, loaded>> /\ proc = "running" /\ sem' # "none"
    BY <1>0, <1>3 DEF WaitQueues, At, BeforeSemInit, ValueAt, Running, locals
  <2>2. ASSUME NEW i \in Tid, Scheduler(status, reg, Here("user")) PROVE NInv'
    <3>1. Here("user") \in Context /\ Here("user").at = "user"
      BY <1>0, HereFacts, LabelFacts
    <3>2. /\ status \in [Tid -> Status] /\ reg \in [Tid -> Context]
          /\ \A u \in Tid : reg[u].at \in InTail => local[reg[u].flow] # NoTid
          /\ \A u \in Tid : reg[u].at \notin SemLabels \ {"crit"} /\ (sem = "none" => reg[u].at # "crit")
      BY <1>0, <2>1 DEF TypeOK, Known, NotInCall
    <3>3. /\ \A u \in Tid : reg'[u].at \notin SemLabels \ {"crit"}
          /\ Running' => cpu'.at \notin SemLabels \ {"crit"}
      BY <1>0, <2>2, <3>1, <3>2, SchedulerOutside, LabelsOutside DEF InTail
    <3>4. NotInCall' /\ BeforeSemInit' /\ QueueIdle'
      BY <2>1, <3>3 DEF NotInCall, BeforeSemInit, QueueIdle
    <3>5. ValueAt'
      BY <3>3 DEF ValueAt, SemLabels
    <3> QED BY <3>4, <3>5 DEF NInv
  <2>3. CASE Ends("overrun") /\ UNCHANGED waiting
    BY <2>1, <2>3, EndsOutside
  <2> QED BY <1>3, <2>2, <2>3 DEF WaitQueues
<1>4. CASE WaitLoads
  <2>1. /\ cpu.at = "d1" /\ Running /\ Moves("d2")
        /\ loaded' = [loaded EXCEPT ![cpu.flow] = val]
        /\ sem' = sem /\ val' = val /\ waiting' = waiting
    BY <1>4 DEF WaitLoads, LoadsVal, At, Running, semaphore
  <2>2. cpu'.at = "d2" /\ cpu'.flow = cpu.flow /\ reg' = reg
    BY <1>0, <2>1, SemLabelsApart, MovesTypes DEF Moves, tcb
  <2>3. sem # "none"
    BY <1>0, <2>1 DEF BeforeSemInit
  <2>4. NotInCall' /\ BeforeSemInit' /\ QueueIdle'
    BY <1>0, <2>1, <2>2, <2>3 DEF NotInCall, BeforeSemInit, QueueIdle, TakenSlots
  <2>5. ValueAt'
    BY <1>0, <2>1, <2>2 DEF ValueAt
  <2> QED BY <2>4, <2>5 DEF NInv
<1>5. CASE WaitTakes
  <2>1. /\ cpu.at = "d2" /\ Running /\ Returns("crit") /\ val' = loaded[cpu.flow] - 1
        /\ sem' = sem /\ waiting' = waiting
    BY <1>5 DEF WaitTakes, At, Running
  <2>2. cpu'.at = "crit" /\ reg' = reg
    BY <1>0, <2>1, SemLabelsApart, MovesTypes DEF Returns, tcb
  <2>3. sem # "none" /\ val > 0 /\ val' = val - 1
    BY <1>0, <2>1 DEF BeforeSemInit, ValueAt
  <2>4. NotInCall' /\ BeforeSemInit' /\ QueueIdle'
    BY <1>0, <2>1, <2>2, <2>3 DEF NotInCall, BeforeSemInit, QueueIdle, TakenSlots
  <2>5. ValueAt'
    BY <2>2 DEF ValueAt
  <2> QED BY <2>4, <2>5 DEF NInv
<1> QED BY <1>1, <1>2, <1>3, <1>4, <1>5

LEMMA PostInside ==
  ASSUME TInv, NInv,
         PostTests \/ PostSearches \/ PostReads \/ PostWakes \/ PostJumps \/ PostLoads \/ PostGives
  PROVE  NInv'
<1>0. /\ TypeOK /\ Known /\ curr_TID \in Tid /\ cpu.flow \in Tid
      /\ cpu \in [flow : Tid, at : Labels]
      /\ val \in Int /\ loaded \in [Tid -> Int] /\ waiting \in [Tid -> Tid]
      /\ slot \in [Tid -> Tid] /\ next_run \in [Tid -> Tid]
      /\ QueueIdle /\ ValueAt /\ NotInCall /\ BeforeSemInit
      /\ {"p1", "p2", "p3", "p4", "u1", "u2", "crit"} \subseteq SemLabels
  BY DEF TInv, SemTypeOK, TypeOK, NInv, SemLabels
<1>1. CASE PostTests
  <2>1. /\ sem' = sem /\ val' = val /\ waiting' = waiting /\ loaded' = loaded
        /\ sem = "INITIALIZED"
    BY <1>1 DEF PostTests, semvars, semaphore, locals
  <2>2. \/ val = 0 /\ Moves("p1")
        \/ val > 0 /\ Moves("u1")
    BY <1>0, <1>1 DEF PostTests, QueueIdle
  <2>3. /\ NotInCall' /\ BeforeSemInit'
        /\ \/ cpu'.at = "p1"
           \/ val > 0 /\ cpu'.at = "u1"
    BY <1>0, <2>1, <2>2, InsideStep
  <2>4. ValueAt'
    BY <1>0, <2>1, <2>3 DEF ValueAt, QueueIdle, TakenSlots
  <2>5. QueueIdle'
    BY <1>0, <2>1 DEF QueueIdle, TakenSlots
  <2> QED BY <2>3, <2>4, <2>5 DEF NInv
<1>2. CASE PostSearches
  <2>1. /\ cpu.at = "p1" /\ UNCHANGED <<sem, val, waiting, loaded>>
        /\ \/ TakenSlots = {} /\ Moves("u1")
           \/ Moves("p2")
    BY <1>2 DEF PostSearches, At, semaphore
  <2>2. /\ reg' = reg /\ sem # "none"
        /\ \/ TakenSlots = {} /\ cpu'.at = "u1"
           \/ cpu'.at = "p2"
    BY <1>0, <2>1, SemLabelsApart, MovesTypes DEF Moves, tcb, BeforeSemInit
  <2>3. NotInCall' /\ BeforeSemInit' /\ QueueIdle'
    BY <1>0, <2>1, <2>2 DEF NotInCall, BeforeSemInit, QueueIdle, TakenSlots
  <2>4. ValueAt'
    BY <2>1, <2>2 DEF ValueAt, TakenSlots
  <2> QED BY <2>3, <2>4 DEF NInv
<1>3. CASE PostReads
  <2>1. /\ cpu.at = "p2" /\ UNCHANGED <<sem, val, loaded>> /\ Moves("p3")
        /\ waiting' = [waiting EXCEPT ![slot[cpu.flow]] = Empty]
    BY <1>3 DEF PostReads, At
  <2>2. reg' = reg /\ sem # "none" /\ cpu'.at = "p3"
    BY <1>0, <2>1, SemLabelsApart, MovesTypes DEF Moves, tcb, BeforeSemInit
  <2>3. \A i \in Tid : waiting'[i] \in {waiting[i], Empty}
    BY <1>0, <2>1
  <2>4. NotInCall' /\ BeforeSemInit' /\ QueueIdle'
    BY <1>0, <2>1, <2>2, <2>3 DEF NotInCall, BeforeSemInit, QueueIdle, TakenSlots
  <2>5. ValueAt'
    BY <2>2 DEF ValueAt
  <2> QED BY <2>4, <2>5 DEF NInv
<1>4. CASE PostWakes
  <2>1. cpu'.at = "p4" /\ reg' = reg /\ cpu.at = "p3" /\ UNCHANGED <<sem, val, waiting, loaded>>
    <3>1. cpu'.at = "p4"
      BY <1>0, <1>4, GotoFacts, SemLabelsApart DEF PostWakes
    <3> QED BY <1>4, <3>1 DEF PostWakes, At, semvars, semaphore, locals
  <2>2. sem # "none"
    BY <1>0, <2>1 DEF BeforeSemInit
  <2>3. NotInCall' /\ BeforeSemInit' /\ QueueIdle'
    BY <1>0, <2>1, <2>2 DEF NotInCall, BeforeSemInit, QueueIdle, TakenSlots
  <2>4. ValueAt'
    BY <2>1 DEF ValueAt
  <2> QED BY <2>3, <2>4 DEF NInv
<1>5. CASE PostJumps
  <2>1. /\ cpu.at = "p4" /\ UNCHANGED <<sem, val, waiting, loaded, reg>>
        /\ Resume(reg[next_run[cpu.flow]], NoTid)
    BY <1>5 DEF PostJumps, At, semvars, semaphore, locals, tcb
  <2>2. sem # "none"
    BY <1>0, <2>1 DEF BeforeSemInit
  <2> DEFINE c == reg[next_run[cpu.flow]]
  <2>3. c \in Context /\ (c.at \in InTail => local[c.flow] # NoTid) /\ c.at \notin SemLabels \ {"crit"}
    BY <1>0 DEF TypeOK, Known, NotInCall
  <2>4. Running' => cpu'.at \notin SemLabels \ {"crit"}
    <3> HIDE DEF c
    <3>1. Resume(c, NoTid)
      BY <2>1 DEF c
    <3> QED BY <1>0, <2>2, <2>3, <3>1, JumpOutside DEF Running
  <2> QED BY <1>0, <2>1, <2>2, <2>4, OutsideStep DEF NotInCall
<1>6. CASE PostLoads
  <2>1. /\ cpu.at = "u1" /\ Running /\ Moves("u2")
        /\ loaded' = [loaded EXCEPT ![cpu.flow] = val]
        /\ sem' = sem /\ val' = val /\ waiting' = waiting
    BY <1>6 DEF PostLoads, LoadsVal, At, Running, semaphore
  <2>2. cpu'.at = "u2" /\ cpu'.flow = cpu.flow /\ reg' = reg /\ sem # "none"
    BY <1>0, <2>1, SemLabelsApart, MovesTypes DEF Moves, tcb, BeforeSemInit
  <2>3. NotInCall' /\ BeforeSemInit' /\ QueueIdle'
    BY <1>0, <2>1, <2>2 DEF NotInCall, BeforeSemInit, QueueIdle, TakenSlots
  <2>4. ValueAt'
    BY <1>0, <2>1, <2>2 DEF ValueAt, TakenSlots
  <2> QED BY <2>3, <2>4 DEF NInv
<1>7. CASE PostGives
  <2>1. /\ cpu.at = "u2" /\ Running /\ Returns("user") /\ val' = loaded[cpu.flow] + 1
        /\ sem' = sem /\ waiting' = waiting
    BY <1>7 DEF PostGives, At, Running
  <2>2. cpu'.at = "user" /\ reg' = reg /\ sem # "none" /\ val' = val + 1 /\ TakenSlots = {}
    BY <1>0, <2>1, SemLabelsApart, MovesTypes DEF Returns, tcb, BeforeSemInit, ValueAt
  <2>3. NotInCall' /\ BeforeSemInit' /\ QueueIdle'
    BY <1>0, <2>1, <2>2 DEF NotInCall, BeforeSemInit, QueueIdle, TakenSlots
  <2>4. ValueAt'
    BY <2>2 DEF ValueAt
  <2> QED BY <2>3, <2>4 DEF NInv
<1> QED BY <1>1, <1>2, <1>3, <1>4, <1>5, <1>6, <1>7

(* Every step keeps what the calls have found out.                          *)
LEMMA NInvInductive == SemUninterrupted /\ TInv /\ NInv /\ [SemNext]_allvars => NInv'
<1> SUFFICES ASSUME SemUninterrupted, TInv, NInv, [SemNext]_allvars PROVE NInv'
  OBVIOUS
<1>1. CASE UNCHANGED allvars
  BY <1>1 DEF allvars, vars, tcb, globals, flows, semvars, semaphore, locals, NInv, NotInCall,
    BeforeSemInit, ValueAt, QueueIdle, Running, TakenSlots
<1>2. CASE SemInit
  <2>1. /\ sem' = "INITIALIZED" /\ cpu' = cpu /\ cpu.at = "user" /\ reg' = reg
        /\ val' \in Nat /\ waiting' = [i \in Tid |-> Empty]
    BY <1>2, Constants DEF SemInit, At, vars, tcb, flows
  <2> QED BY <2>1 DEF NInv, NotInCall, BeforeSemInit, ValueAt, QueueIdle, TakenSlots
<1>3. CASE SemDestroy
  <2>1. sem' = "DESTROYED" /\ cpu' = cpu /\ cpu.at = "user" /\ UNCHANGED <<reg, val, waiting>>
    BY <1>3 DEF SemDestroy, At, vars, tcb, flows
  <2> QED BY <2>1 DEF NInv, NotInCall, BeforeSemInit, ValueAt, QueueIdle, TakenSlots
<1>4. CASE SemStep
  BY <1>2, <1>3, <1>4, WaitInside, PostInside DEF SemStep
<1>5. CASE Terminated /\ UNCHANGED semvars
  BY <1>5 DEF Terminated, vars, tcb, globals, flows, semvars, semaphore, locals, NInv,
    NotInCall,
    BeforeSemInit, ValueAt, QueueIdle, Running, TakenSlots
<1> QED BY <1>1, <1>4, <1>5, LibraryOutside, AlarmOutside, CallsOutside DEF SemNext

LEMMA NInvInitially == SemSetUp => NInv
<1> SUFFICES ASSUME SemSetUp PROVE NInv
  OBVIOUS
<1>1. cpu.at = "user" /\ \A t \in Tid : reg[t].at = "none"
  BY DEF SemSetUp, Init
<1>2. sem = "none" /\ val = 0 /\ \A i \in Tid : waiting[i] = Empty
  BY DEF SemSetUp
<1> QED BY <1>1, <1>2, LabelsOutside DEF NInv, NotInCall, BeforeSemInit, ValueAt,
  QueueIdle, TakenSlots

(* When no alarm interrupts a call of the semaphore: what sem_wait or       *)
(* sem_post has tested or loaded is still so when it acts on it, and val is *)
(* never below zero (337-355, 372-399).                                     *)
THEOREM CallsInvariance == SemUninterrupted /\ SemSpec => [](TInv /\ NInv)
<1>1. SemSetUp => TInv /\ NInv
  BY InitTypes, NInvInitially
<1>2. SemUninterrupted /\ TInv /\ NInv /\ [SemNext]_allvars => TInv' /\ NInv'
  BY TypesInductive, NInvInductive
<1>3. SemUninterrupted => SemUninterrupted'
  BY DEF SemUninterrupted
<1> QED BY <1>1, <1>2, <1>3, PTL DEF SemSpec

(* When no alarm interrupts a call of the semaphore, no unit is on offer    *)
(* while a thread is queued, at any point of the program and however the    *)
(* jumps of sem_post mix up who is who (337-355, 372-399).                  *)
THEOREM NoIdleValueAlways == SemUninterrupted /\ SemSpec => []NoIdleValue
<1>1. TInv /\ NInv => NoIdleValue
  BY DEF NInv, QueueIdle, NoIdleValue
<1> QED BY <1>1, CallsInvariance, PTL

-----------------------------------------------------------------------------
(* No unit is made up: who runs under which mark, and where each buffer     *)
(* leads                                                                    *)

(* An alarm comes only while the program runs, and main does not use the    *)
(* semaphore.                                                               *)
CallsUninterrupted == AlarmPoints \subseteq {"user", "crit"}
MainUsesNone == 0 \notin Users

BuffersAt == \A t \in Tid : reg[t].at \in {"none", "start", "user", "crit", "x1", "j1"}
BeforeFirst ==
  first_call => /\ curr_TID = 0 /\ cpu.at \in {"user", "x6"}
                /\ \A t \in Tid : /\ status[t] \in {"READY", "EXITED"} /\ joining[t] = 0
                                  /\ stack[t] = "none" /\ reg[t].at = "none"
(* Main alone runs under its identity, but for the return to it.            *)
MainApart ==
  /\ reg[0].flow = 0 /\ reg[0].at # "crit"
  /\ curr_TID = 0 => cpu.at \notin SemLabels
  /\ curr_TID = 0 /\ cpu.at \notin {"e1", "x6"} => cpu.flow = 0
Tail == {"x1", "x2", "x3", "x4", "x5"}
MarkedAt ==
  /\ curr_TID # 0 /\ cpu.at \in ({"user"} \cup SemLabels) \ {"w2"} => status[curr_TID] = "RUNNING"
  /\ cpu.at = "w2" => status[curr_TID] = "BLOCKED"
  /\ cpu.at \in {"e0", "k1"} => status[curr_TID] = "WAITING"
  /\ cpu.at \in Tail => status[curr_TID] \in {"WAITING", "EXITED"}
  /\ cpu.at = "e1" => curr_TID = 0
  /\ cpu.at = "x6" => curr_TID = 0 \/ reg[curr_TID].at = "j1"
WaitingOK ==
  \A t \in Tid :
    /\ status[t] = "WAITING" => reg[t].at = "x1"
    /\ status[t] \in {"WAITING", "FRESH"} => joining[t] = NoTid
    /\ stack[t] # "none" => status[t] # "FRESH"
    /\ joining[t] \notin {NoTid, 0} => joining[t] < t
Layout == BuffersAt /\ BeforeFirst /\ MainApart /\ MarkedAt /\ WaitingOK
LInv == Running => Layout

(* A parked joiner: it is named by its target and waits to be jumped to.    *)
Parked(j, S) ==
  /\ j \in S \ {curr_TID}
  /\ reg[j].at = "j1" /\ status[j] \in {"BLOCKED", "RUNNING"}
(* S are the threads that can still run: each joiner is named once, by one  *)
(* of them or by the tail the CPU is in, and the others never run again.    *)
InPlay(S) ==
  /\ 0 \in S /\ curr_TID \in S
  /\ \A t \in Tid \ S : status[t] \in {"EXITED", "RUNNING", "BLOCKED"}
  /\ \A t \in S : joining[t] \notin {NoTid, 0} => Parked(joining[t], S)
  /\ \A s, t \in S : joining[s] = joining[t] /\ joining[s] \notin {NoTid, 0} => s = t
  /\ cpu.at \in InTail \cup {"x1"} /\ local[cpu.flow] # 0 =>
       /\ Parked(local[cpu.flow], S)
       /\ \A s \in S : joining[s] # local[cpu.flow]
DInv == Running => \E S \in SUBSET Tid : InPlay(S)

(* A jump that does not end the process goes where its buffer says.         *)
LEMMA ResumeGoes ==
  ASSUME TypeOK, NEW c \in Context, NEW v \in Tid \cup {NoTid}, Resume(c, v), Running'
  PROVE  /\ Running
         /\ cpu'.flow = c.flow /\ cpu'.at = (IF c.at = "start" THEN "user" ELSE c.at)
         /\ c.at # "none"
         /\ c.at = "x1" => v # NoTid /\ local' = [local EXCEPT ![c.flow] = v]
         /\ c.at # "x1" => local' = local
BY DEF Resume, Running

(* scheduler() keeps the layout, from a table st and buffers rg that have   *)
(* it.                                                                      *)
LEMMA SwitchLayout ==
  ASSUME TypeOK, NEW st \in [Tid -> Status], NEW rg \in [Tid -> Context], NEW here \in Context,
         NEW n \in Tid, Switches(st, rg, here, n), Running', ~first_call',
         here.at \in {"user", "crit"},
         curr_TID = 0 => here.flow = 0 /\ here.at # "crit",
         rg[0].flow = 0 /\ rg[0].at # "crit",
         \A t \in Tid : rg[t].at \in {"none", "start", "user", "crit", "x1", "j1"},
         \A t \in Tid :
           /\ st[t] = "WAITING" => rg[t].at = "x1"
           /\ st[t] \in {"WAITING", "FRESH"} => joining'[t] = NoTid
           /\ stack'[t] # "none" => st[t] # "FRESH"
           /\ joining'[t] \notin {NoTid, 0} => joining'[t] < t
  PROVE  Layout'
<1>1. /\ status' \in [Tid -> Status] /\ reg' \in [Tid -> Context]
      /\ status'[n] = "RUNNING" /\ curr_TID' = n
      /\ \A t \in Tid \ {n} :
           status'[t] = IF t = curr_TID /\ st[t] = "RUNNING" THEN "READY" ELSE st[t]
      /\ \A t \in Tid :
           reg'[t] = IF t = curr_TID /\ st[t] = "RUNNING" THEN here ELSE rg[t]
  BY SwitchFacts
<1>2. /\ cpu'.flow = reg'[n].flow
      /\ cpu'.at = (IF reg'[n].at = "start" THEN "user" ELSE reg'[n].at)
      /\ reg'[n].at \notin {"none", "x1"}
  <2>1. reg'[n] \in Context /\ Resume(reg'[n], NoTid)
    BY <1>1 DEF Switches
  <2> QED BY <2>1, ResumeGoes
<1>3. BuffersAt'
  BY <1>1 DEF BuffersAt
<1>4. reg'[0].flow = 0 /\ reg'[0].at # "crit"
  BY <1>1, Constants
<1>5. cpu'.at \in {"user", "crit", "j1"} /\ (n = 0 => cpu'.at # "crit" /\ cpu'.flow = 0)
  BY <1>2, <1>3, <1>4 DEF BuffersAt
<1>6. MainApart'
  BY <1>1, <1>4, <1>5 DEF MainApart, SemLabels
<1>7. MarkedAt'
  BY <1>1, <1>5 DEF MarkedAt, Tail
<1>8. WaitingOK'
  BY <1>1 DEF WaitingOK
<1> QED BY <1>3, <1>6, <1>7, <1>8 DEF Layout, BeforeFirst

(* A jump past the scheduler keeps the layout.                              *)
LEMMA JumpLayout ==
  ASSUME TypeOK, Layout, NEW n \in Tid, NEW v \in Tid \cup {NoTid}, Resume(reg[n], v),
         Running', UNCHANGED <<status, joining, stack, reg, curr_TID, first_call>>,
         curr_TID = 0 => n = 0,
         v # NoTid => status[curr_TID] \in {"WAITING", "EXITED"},
         reg[n].at \in {"start", "user", "crit"} => curr_TID = 0 \/ status[curr_TID] = "RUNNING"
  PROVE  Layout'
<1>1. /\ cpu'.flow = reg[n].flow
      /\ cpu'.at = (IF reg[n].at = "start" THEN "user" ELSE reg[n].at)
      /\ reg[n].at # "none" /\ (reg[n].at = "x1" => v # NoTid)
  <2>1. reg[n] \in Context
    BY DEF TypeOK
  <2> QED BY <2>1, ResumeGoes
<1>2. BuffersAt' /\ WaitingOK' /\ cpu'.at \in {"user", "crit", "x1", "j1"}
  BY <1>1 DEF Layout, BuffersAt, WaitingOK
<1>3. BeforeFirst'
  BY <1>1 DEF Layout, BeforeFirst
<1>4. MainApart'
  BY <1>1, <1>2 DEF Layout, MainApart, SemLabels
<1>5. MarkedAt'
  BY <1>1, <1>2 DEF MarkedAt, Tail, SemLabels
<1> QED BY <1>2, <1>3, <1>4, <1>5 DEF Layout

(* The layout, action by action.                                            *)
LEMMA AlarmLayout ==
  ASSUME CallsUninterrupted, TypeOK, Layout, Alarm, Running' PROVE Layout'
<1>1. cpu.at \in {"user", "crit"} /\ cpu.at \in BufferLabels /\ ~first_call /\ ~first_call'
  BY LabelFacts DEF Alarm, CallsUninterrupted, TypeOK
<1>2. Here(cpu.at) \in Context /\ Here(cpu.at).at = cpu.at /\ Here(cpu.at).flow = cpu.flow
  BY <1>1, HereFacts
<1>3. curr_TID = 0 => cpu.flow = 0 /\ cpu.at # "crit"
  BY <1>1, LabelsOutside DEF Layout, MainApart
<1>4. PICK n \in Tid : Switches(status, reg, Here(cpu.at), n)
  BY SchedulerFacts DEF Alarm, Running
<1>5. /\ status \in [Tid -> Status] /\ reg \in [Tid -> Context]
      /\ joining' = joining /\ stack' = stack
  BY DEF TypeOK, Alarm
<1>6. \A t \in Tid : /\ status[t] = "WAITING" => reg[t].at = "x1"
                     /\ status[t] \in {"WAITING", "FRESH"} => joining'[t] = NoTid
                     /\ stack'[t] # "none" => status[t] # "FRESH"
                     /\ joining'[t] \notin {NoTid, 0} => joining'[t] < t
  BY <1>5 DEF Layout, WaitingOK
<1>7. /\ reg[0].flow = 0 /\ reg[0].at # "crit"
      /\ \A t \in Tid : reg[t].at \in {"none", "start", "user", "crit", "x1", "j1"}
  BY DEF Layout, MainApart, BuffersAt
<1> QED BY <1>1, <1>2, <1>3, <1>4, <1>5, <1>6, <1>7, SwitchLayout

LEMMA CreateLayout == ASSUME TypeOK, Layout, Create, Running' PROVE Layout'
<1>1. PICK i \in Tid : CreateThread(i)
  BY DEF Create, Ends, Running
<1>0. status \in [Tid -> Status] /\ reg \in [Tid -> Context] /\ joining \in [Tid -> Tid \cup {NoTid}]
      /\ stack \in [Tid -> {"none", "owned", "freed"}]
  BY DEF TypeOK
<1>2. /\ cpu.at = "user" /\ cpu' = cpu /\ curr_TID' = curr_TID /\ ~first_call'
      /\ stack' = [stack EXCEPT ![i] = "owned"]
  BY <1>1 DEF Create, CreateThread, At
<1>3. CASE first_call
  <2>1. /\ \A t \in Tid : /\ status[t] \in {"READY", "EXITED"} /\ joining[t] = 0
                          /\ stack[t] = "none" /\ reg[t].at = "none"
        /\ curr_TID = 0
    BY <1>3 DEF Layout, BeforeFirst
  <2>2. /\ InitStatus = [t \in Tid |-> IF t = 0 THEN "RUNNING" ELSE "FRESH"]
        /\ InitReg = [reg EXCEPT ![0] = [flow |-> 0, at |-> "user", pos |-> pos[0] + 1]]
    BY <1>3 DEF InitStatus, InitReg
  <2>3. /\ status' = [[t \in Tid |-> IF t = 0 THEN "RUNNING" ELSE "FRESH"] EXCEPT ![i] = "READY"]
        /\ reg' = [[reg EXCEPT ![0] = [flow |-> 0, at |-> "user", pos |-> pos[0] + 1]]
                   EXCEPT ![i] = [flow |-> i, at |-> "start", pos |-> 0]]
        /\ joining' = [t \in Tid |-> NoTid]
    BY <1>1, <1>3, <2>2 DEF CreateThread
  <2>4. \A t \in Tid : /\ status'[t] \in {"READY", "RUNNING", "FRESH"} /\ joining'[t] = NoTid
                       /\ status'[t] = "FRESH" => t # i
                       /\ reg'[t].at \in {"none", "start", "user"}
    BY <2>1, <2>3, <1>0
  <2>5. reg'[0].flow = 0
    BY <2>3, <1>0, Constants
  <2>6. BuffersAt' /\ WaitingOK'
    BY <1>0, <1>2, <2>1, <2>4 DEF BuffersAt, WaitingOK
  <2>7. MainApart'
    BY <1>2, <2>4, <2>5, Constants DEF Layout, MainApart
  <2>8. MarkedAt'
    BY <1>2, <2>1 DEF MarkedAt, Tail
  <2> QED BY <1>2, <2>6, <2>7, <2>8 DEF Layout, BeforeFirst
<1>4. CASE ~first_call
  <2>1. /\ status' = [status EXCEPT ![i] = "READY"] /\ status[i] = "FRESH"
        /\ reg' = [reg EXCEPT ![i] = [flow |-> i, at |-> "start", pos |-> 0]]
        /\ joining' = joining
    BY <1>1, <1>4 DEF CreateThread, InitStatus, InitReg, FirstFresh
  <2>2. BuffersAt'
    BY <1>0, <2>1 DEF Layout, BuffersAt
  <2>3. WaitingOK'
    BY <1>0, <1>2, <2>1 DEF Layout, WaitingOK
  <2>4. MainApart'
    BY <1>0, <1>2, <2>1, Constants DEF Layout, MainApart
  <2>5. MarkedAt'
    BY <1>0, <1>2, <2>1 DEF Layout, MarkedAt, Tail, TypeOK
  <2> QED BY <1>2, <2>2, <2>3, <2>4, <2>5 DEF Layout, BeforeFirst
<1> QED BY <1>3, <1>4

LEMMA ExitLayout ==
  ASSUME TypeOK, Layout, Exit, \E S \in SUBSET Tid : InPlay(S), Running' PROVE Layout'
<1>0. /\ status \in [Tid -> Status] /\ reg \in [Tid -> Context] /\ curr_TID \in Tid
      /\ joining \in [Tid -> Tid \cup {NoTid}] /\ stack \in [Tid -> {"none", "owned", "freed"}]
      /\ cpu.at = "user" /\ cpu.flow \in Tid
      /\ LibraryLabels \subseteq Labels /\ {"x1", "user"} \subseteq BufferLabels
  BY LabelFacts DEF TypeOK, Exit, At, LibraryLabels
<1>1. CASE ExitToJoiner
  <2>1. /\ status' = [status EXCEPT ![curr_TID] = "EXITED"]
        /\ stack' = [stack EXCEPT ![curr_TID] = IF @ = "owned" THEN "freed" ELSE @]
        /\ curr_TID' = joining[curr_TID] /\ joining[curr_TID] # NoTid
        /\ cpu'.at = "x6"
        /\ UNCHANGED <<joining, reg, first_call>>
    BY <1>0, <1>1, GotoFacts DEF ExitToJoiner, LibraryLabels
  <2>2. joining[curr_TID] = 0 \/ reg[joining[curr_TID]].at = "j1"
    BY <1>0, <2>1 DEF InPlay, Parked
  <2>3. BuffersAt' /\ MarkedAt'
    BY <2>1, <2>2 DEF Layout, BuffersAt, MarkedAt, SemLabels, Tail
  <2>4. BeforeFirst'
    BY <1>0, <2>1 DEF Layout, BeforeFirst
  <2>5. MainApart'
    BY <2>1 DEF Layout, MainApart, SemLabels
  <2>6. WaitingOK'
    BY <1>0, <2>1 DEF Layout, WaitingOK
  <2> QED BY <2>3, <2>4, <2>5, <2>6 DEF Layout
<1>2. CASE ExitToWait
  <2> DEFINE st == [status EXCEPT ![curr_TID] = "WAITING"]
             rg == [reg EXCEPT ![curr_TID] = Here("x1")]
  <2>0. /\ Here("x1") \in Context /\ Here("x1").at = "x1" /\ Here("x1").flow = cpu.flow
        /\ Here("user") \in Context /\ Here("user").at = "user" /\ Here("user").flow = cpu.flow
    BY <1>0, HereFacts
  <2>1. joining[curr_TID] = NoTid /\ ~first_call /\ ~first_call' /\ joining' = joining /\ stack' = stack
    BY <1>0, <1>2, Constants DEF ExitToWait, Layout, BeforeFirst
  <2>2. curr_TID = 0 => cpu.flow = 0
    BY <1>0 DEF Layout, MainApart
  <2>3. /\ st \in [Tid -> Status] /\ rg \in [Tid -> Context]
        /\ st[curr_TID] = "WAITING" /\ rg[curr_TID].at = "x1"
        /\ \A t \in Tid : /\ st[t] = "WAITING" => rg[t].at = "x1"
                          /\ st[t] \in {"WAITING", "FRESH"} => joining'[t] = NoTid
                          /\ stack'[t] # "none" => st[t] # "FRESH"
                          /\ joining'[t] \notin {NoTid, 0} => joining'[t] < t
        /\ \A t \in Tid : rg[t].at \in {"none", "start", "user", "crit", "x1", "j1"}
    BY <1>0, <2>0, <2>1 DEF Layout, WaitingOK, BuffersAt, Status
  <2>4. rg[0].flow = 0 /\ rg[0].at # "crit"
    BY <1>0, <2>0, <2>2 DEF Layout, MainApart
  <2>5. CASE status' = st /\ reg' = rg /\ Goto("e0") /\ UNCHANGED curr_TID
    <3>1. cpu'.at = "e0" /\ cpu'.flow = cpu.flow
      BY <1>0, <2>5, GotoFacts DEF LibraryLabels
    <3>2. BuffersAt' /\ WaitingOK'
      BY <2>3, <2>5 DEF BuffersAt, WaitingOK
    <3>3. MainApart' /\ MarkedAt'
      BY <2>2, <2>3, <2>4, <2>5, <3>1 DEF MainApart, MarkedAt, SemLabels, Tail
    <3> QED BY <2>1, <3>2, <3>3 DEF Layout, BeforeFirst
  <2>6. CASE Scheduler(st, rg, Here("user"))
    <3> HIDE DEF st, rg
    <3>1. PICK n \in Tid : Switches(st, rg, Here("user"), n)
      BY <2>6, SchedulerFacts DEF Running
    <3> QED BY <2>0, <2>1, <2>2, <2>3, <2>4, <3>1, SwitchLayout
  <2> QED BY <1>2, <2>5, <2>6 DEF ExitToWait
<1> QED BY <1>1, <1>2 DEF Exit

LEMMA JoinLayout ==
  ASSUME TypeOK, Layout, RunsAsItself, NEW t \in Tid, Join(t), Running' PROVE Layout'
<1>0. /\ status \in [Tid -> Status] /\ reg \in [Tid -> Context] /\ curr_TID \in Tid
      /\ joining \in [Tid -> Tid \cup {NoTid}] /\ stack \in [Tid -> {"none", "owned", "freed"}]
      /\ cpu.at = "user" /\ cpu.flow = curr_TID
      /\ LibraryLabels \subseteq Labels /\ {"j1", "user"} \subseteq BufferLabels
  BY LabelFacts DEF TypeOK, Join, At, RunsAsItself, LibraryLabels
<1>1. t > curr_TID /\ t # 0 /\ stack[t] # "none" /\ ~first_call /\ status[t] # "FRESH"
      /\ curr_TID \in Nat /\ t \in Nat
  BY <1>0, Constants DEF Join, Joinable, Created, Layout, BeforeFirst, WaitingOK
<1>2. /\ Here("j1") \in Context /\ Here("j1").at = "j1" /\ Here("j1").flow = curr_TID
      /\ Here("user") \in Context /\ Here("user").at = "user" /\ Here("user").flow = curr_TID
  BY <1>0, HereFacts
<1>3. CASE JoinReturnsAtOnce(t)
  BY <1>3 DEF JoinReturnsAtOnce, tcb, globals, Layout, BuffersAt, BeforeFirst, MainApart,
    MarkedAt, WaitingOK
<1>4. CASE JoinEnters(t)
  <2>1. /\ status' = [status EXCEPT ![curr_TID] = "BLOCKED"]
        /\ reg' = [reg EXCEPT ![curr_TID] = Here("j1")]
        /\ curr_TID' = t /\ status[t] = "WAITING" /\ cpu'.at = "k1"
        /\ UNCHANGED <<joining, stack, first_call>>
    BY <1>0, <1>4, GotoFacts DEF JoinEnters, LibraryLabels
  <2>2. BuffersAt' /\ MainApart'
    BY <1>0, <1>1, <1>2, <2>1 DEF Layout, BuffersAt, MainApart
  <2>3. MarkedAt'
    BY <1>0, <1>1, <2>1 DEF MarkedAt, SemLabels, Tail
  <2>4. WaitingOK'
    BY <1>0, <1>2, <2>1 DEF Layout, WaitingOK
  <2> QED BY <1>1, <2>1, <2>2, <2>3, <2>4 DEF Layout, BeforeFirst
<1>5. CASE JoinBlocks(t)
  <2> DEFINE st == [status EXCEPT ![curr_TID] = "BLOCKED"]
             rg == [reg EXCEPT ![curr_TID] = Here("j1")]
  <2>1. /\ joining' = [joining EXCEPT ![t] = curr_TID] /\ stack' = stack /\ ~first_call'
        /\ status[t] \notin {"FRESH", "WAITING"}
    BY <1>1, <1>5 DEF JoinBlocks, Noted
  <2>2. /\ st \in [Tid -> Status] /\ rg \in [Tid -> Context]
        /\ \A u \in Tid : /\ st[u] = "WAITING" => rg[u].at = "x1"
                          /\ stack'[u] # "none" => st[u] # "FRESH"
        /\ \A u \in Tid : rg[u].at \in {"none", "start", "user", "crit", "x1", "j1"}
        /\ rg[0].flow = 0 /\ rg[0].at # "crit"
    BY <1>0, <1>2, <2>1 DEF Layout, WaitingOK, BuffersAt, MainApart, Status
  <2>3. \A u \in Tid : /\ st[u] \in {"WAITING", "FRESH"} => joining'[u] = NoTid
                       /\ joining'[u] \notin {NoTid, 0} => joining'[u] < u
    BY <1>0, <1>1, <2>1 DEF Layout, WaitingOK
  <2>4. Scheduler(st, rg, Here("user"))
    BY <1>5 DEF JoinBlocks
  <2> HIDE DEF st, rg
  <2>5. PICK n \in Tid : Switches(st, rg, Here("user"), n)
    BY <2>4, SchedulerFacts DEF Running
  <2> QED BY <1>2, <2>1, <2>2, <2>3, <2>5, SwitchLayout
<1> QED BY <1>3, <1>4, <1>5 DEF Join

LEMMA LibraryLayout ==
  ASSUME TypeOK, Known, Layout, Library, \E S \in SUBSET Tid : InPlay(S), Running' PROVE Layout'
<1>0. /\ status \in [Tid -> Status] /\ reg \in [Tid -> Context] /\ curr_TID \in Tid /\ 0 \in Tid
      /\ joining \in [Tid -> Tid \cup {NoTid}] /\ stack \in [Tid -> {"none", "owned", "freed"}]
      /\ local[cpu.flow] \in Tid \cup {NoTid} /\ NoTid \in Tid \cup {NoTid}
      /\ LibraryLabels \cup {"user"} \subseteq Labels
  BY LabelFacts, Constants DEF TypeOK
<1>1. CASE ExitToMain0
  <2>1. /\ cpu.at = "e0" /\ cpu'.at = "e1" /\ cpu'.flow = cpu.flow /\ curr_TID' = 0
        /\ UNCHANGED <<status, joining, stack, reg, first_call>>
    BY <1>0, <1>1, GotoFacts DEF ExitToMain0, At, LibraryLabels, tcb
  <2> QED BY <2>1 DEF Layout, BuffersAt, BeforeFirst, MainApart, MarkedAt, WaitingOK,
    SemLabels, Tail
<1>2. CASE ExitToMain1
  <2>1. /\ cpu.at = "e1" /\ curr_TID = 0 /\ Resume(reg[0], NoTid)
        /\ UNCHANGED <<status, joining, stack, reg, curr_TID, first_call>>
    BY <1>2 DEF ExitToMain1, At, tcb, globals, Layout, MarkedAt
  <2> QED BY <1>0, <2>1, JumpLayout
<1>3. CASE Tail1 \/ Tail2 \/ Tail3 \/ Tail4
  <2>1. /\ \A u \in Tid : status'[u] \in {status[u], "EXITED"}
        /\ cpu.at \in Tail => status'[curr_TID] \in {"WAITING", "EXITED"}
        /\ UNCHANGED <<joining, reg, first_call, curr_TID>>
        /\ \A u \in Tid : stack'[u] # "none" => stack[u] # "none"
    BY <1>0, <1>3 DEF Tail1, Tail2, Tail3, Tail4, tcb, globals, Ends, Running, Layout, MarkedAt
  <2>2. /\ cpu.at \in Tail /\ cpu'.flow = cpu.flow /\ cpu'.at \in {"x2", "x3", "x4", "x5"}
    <3>1. \E label \in {"x2", "x3", "x4", "x5"} : Goto(label) /\ label \in Labels
      BY <1>0, <1>3 DEF Tail1, Tail2, Tail3, Tail4, Ends, Running, LibraryLabels
    <3>2. cpu.at \in Tail
      BY <1>3 DEF Tail1, Tail2, Tail3, Tail4, At, Tail
    <3> QED BY <3>1, <3>2, GotoFacts
  <2>3. ~first_call
    BY <2>2 DEF Layout, BeforeFirst, Tail
  <2>4. BuffersAt' /\ BeforeFirst' /\ WaitingOK'
    BY <2>1, <2>3 DEF Layout, BuffersAt, BeforeFirst, WaitingOK
  <2>5. MainApart' /\ MarkedAt'
    BY <2>1, <2>2 DEF Layout, MainApart, MarkedAt, SemLabels, Tail
  <2> QED BY <2>4, <2>5 DEF Layout
<1>4. CASE Tail5
  <2>1. /\ cpu.at = "x5" /\ cpu'.at = "x6" /\ curr_TID' = local[cpu.flow]
        /\ UNCHANGED <<status, joining, stack, reg, first_call>>
    BY <1>0, <1>4, GotoFacts DEF Tail5, At, LibraryLabels, tcb
  <2>2. local[cpu.flow] # 0 => reg[local[cpu.flow]].at = "j1"
    BY <2>1 DEF InPlay, Parked, InTail
  <2> QED BY <2>1, <2>2 DEF Layout, BuffersAt, BeforeFirst, MainApart, MarkedAt, WaitingOK,
    SemLabels, Tail
<1>5. CASE Tail6
  <2>1. /\ cpu.at = "x6" /\ Resume(reg[curr_TID], NoTid)
        /\ UNCHANGED <<status, joining, stack, reg, curr_TID, first_call>>
    BY <1>5 DEF Tail6, At, tcb, globals
  <2>2. curr_TID = 0 \/ reg[curr_TID].at = "j1"
    BY <2>1 DEF Layout, MarkedAt
  <2> QED BY <1>0, <2>1, <2>2, JumpLayout
<1>6. CASE JoinJumps
  <2>1. /\ cpu.at = "k1" /\ Resume(reg[curr_TID], local[cpu.flow])
        /\ UNCHANGED <<status, joining, stack, reg, curr_TID, first_call>>
    BY <1>6 DEF JoinJumps, At, tcb, globals
  <2>2. status[curr_TID] = "WAITING" /\ reg[curr_TID].at = "x1"
    BY <1>0, <2>1 DEF Layout, MarkedAt, WaitingOK
  <2> QED BY <1>0, <2>1, <2>2, JumpLayout
<1>7. CASE JoinReturns
  <2>1. /\ cpu.at = "j1" /\ cpu'.at = "user" /\ cpu'.flow = cpu.flow
        /\ status' = [status EXCEPT ![curr_TID] = "RUNNING"]
        /\ UNCHANGED <<joining, stack, reg, curr_TID, first_call>>
    BY <1>0, <1>7, GotoFacts DEF JoinReturns, At, globals
  <2>2. BuffersAt' /\ BeforeFirst' /\ MainApart'
    BY <2>1 DEF Layout, BuffersAt, BeforeFirst, MainApart, SemLabels
  <2>3. MarkedAt' /\ WaitingOK'
    BY <1>0, <2>1 DEF Layout, MarkedAt, WaitingOK, Tail
  <2> QED BY <2>2, <2>3 DEF Layout
<1> QED BY <1>1, <1>2, <1>3, <1>4, <1>5, <1>6, <1>7 DEF Library

(* A step of the calls that leaves the table, or marks a thread RUNNING.    *)
LEMMA MarksRunning ==
  ASSUME TypeOK, Layout, Running, NEW label \in SemLabels \cup {"user"}, cpu'.at = label,
         cpu'.flow = cpu.flow, curr_TID # 0,
         \A u \in Tid : status'[u] \in {status[u], "RUNNING"},
         status'[curr_TID] = (IF label = "w2" THEN "BLOCKED" ELSE "RUNNING"),
         ~first_call, UNCHANGED <<joining, stack, reg, curr_TID, first_call>>
  PROVE  Layout'
<1>1. BuffersAt' /\ BeforeFirst' /\ MainApart'
  BY DEF Layout, BuffersAt, BeforeFirst, MainApart, SemLabels
<1>2. MarkedAt'
  BY DEF MarkedAt, SemLabels, Tail
<1>3. WaitingOK'
  BY DEF Layout, WaitingOK
<1> QED BY <1>1, <1>2, <1>3 DEF Layout

(* The calls of the semaphore run under a thread other than main.           *)
LEMMA SemLayout ==
  ASSUME MainUsesNone, TInv, Layout, SemStep, Running' PROVE Layout'
<1>0. /\ TypeOK /\ Known /\ curr_TID \in Tid /\ cpu.flow \in Tid /\ status \in [Tid -> Status]
      /\ reg \in [Tid -> Context]
      /\ next_run \in [Tid -> Tid] /\ "user" \in BufferLabels
      /\ Running
      /\ {"user", "crit", "w1", "w2", "d1", "d2", "p1", "p2", "p3", "p4", "u1", "u2"} \subseteq SemLabels \cup {"user"}
  <2>1. Running
    BY DEF SemStep, SemInit, SemDestroy, WaitTests, WaitBlocks, WaitQueues, WaitLoads,
      WaitTakes,
      PostTests, PostSearches, PostReads, PostWakes, PostJumps, PostLoads, PostGives, At,
        Running
  <2> QED BY <2>1, LabelFacts DEF TInv, SemTypeOK, TypeOK, SemLabels
<1>1. ASSUME NEW label \in (SemLabels \cup {"user"}) \ {"w2"}, Moves(label) \/ Returns(label),
             cpu.at \in SemLabels \ {"w2"} \/ (cpu.at = "user" /\ cpu.flow # 0),
             cpu.at = "user" => ~first_call \/ label # "user"
      PROVE  curr_TID # 0 /\ (~first_call => Layout')
  <2>1. cpu'.at = label /\ cpu'.flow = cpu.flow /\ UNCHANGED <<status, joining, stack, reg, curr_TID, first_call>>
    BY <1>0, <1>1, SemLabelsApart, MovesTypes DEF Moves, Returns, tcb, globals
  <2>2. curr_TID # 0 /\ status[curr_TID] = "RUNNING"
    BY <1>1, LabelsOutside DEF Layout, MainApart, MarkedAt
  <2> QED BY <1>0, <1>1, <2>1, <2>2, MarksRunning
<1>2. curr_TID # 0 => ~first_call
  BY DEF Layout, BeforeFirst
<1>3. CASE SemInit \/ SemDestroy
  BY <1>3 DEF SemInit, SemDestroy, vars, tcb, globals, flows, Layout, BuffersAt,
    BeforeFirst, MainApart,
    MarkedAt, WaitingOK
<1>4. CASE WaitTests
  <2>1. cpu.at = "user" /\ cpu.flow # 0 /\ (Moves("w1") \/ Moves("d1"))
    BY <1>4 DEF WaitTests, At, MainUsesNone
  <2> QED BY <1>0, <1>1, <1>2, <2>1
<1>5. CASE WaitBlocks
  <2>1. cpu.at = "w1" /\ status' = [status EXCEPT ![curr_TID] = "BLOCKED"] /\ Goto("w2")
        /\ UNCHANGED <<joining, stack, reg, curr_TID, first_call>>
    BY <1>5 DEF WaitBlocks, At, globals
  <2>2. cpu'.at = "w2" /\ cpu'.flow = cpu.flow
    BY <1>0, <2>1, GotoFacts, SemLabelsApart
  <2>3. curr_TID # 0 /\ cpu.at \in SemLabels
    BY <2>1 DEF Layout, MainApart, SemLabels
  <2>4. BuffersAt' /\ BeforeFirst' /\ MainApart'
    BY <1>2, <2>1, <2>2, <2>3 DEF Layout, BuffersAt, BeforeFirst, MainApart
  <2>5. MarkedAt' /\ WaitingOK'
    BY <1>0, <2>1, <2>2 DEF Layout, MarkedAt, WaitingOK, Tail, SemLabels
  <2> QED BY <2>4, <2>5 DEF Layout
<1>6. CASE WaitQueues
  <2>1. Scheduler(status, reg, Here("user")) /\ cpu.at = "w2" /\ UNCHANGED <<joining, stack, first_call>>
    BY <1>6 DEF WaitQueues, At, Ends, Running
  <2>2. curr_TID # 0 /\ ~first_call /\ ~first_call'
    BY <2>1, <1>2 DEF Layout, MainApart, SemLabels
  <2>3. Here("user") \in Context /\ Here("user").at = "user"
    BY <1>0, HereFacts
  <2>4. PICK n \in Tid : Switches(status, reg, Here("user"), n)
    BY <1>0, <2>1, SchedulerFacts DEF Running
  <2>5. \A t \in Tid : /\ status[t] = "WAITING" => reg[t].at = "x1"
                       /\ status[t] \in {"WAITING", "FRESH"} => joining'[t] = NoTid
                       /\ stack'[t] # "none" => status[t] # "FRESH"
                       /\ joining'[t] \notin {NoTid, 0} => joining'[t] < t
    BY <2>1 DEF Layout, WaitingOK
  <2>6. /\ reg[0].flow = 0 /\ reg[0].at # "crit"
        /\ \A t \in Tid : reg[t].at \in {"none", "start", "user", "crit", "x1", "j1"}
    BY DEF Layout, MainApart, BuffersAt
  <2> QED BY <1>0, <2>2, <2>3, <2>4, <2>5, <2>6, SwitchLayout
<1>7. CASE WaitLoads \/ WaitTakes \/ PostTests \/ PostSearches \/ PostReads \/ PostLoads \/ PostGives
  <2>1. cpu.at \in SemLabels \ {"w2"}
    BY <1>7 DEF WaitLoads, WaitTakes, PostTests, PostSearches, PostReads, PostLoads,
      PostGives, At, SemLabels
  <2>2. \E label \in (SemLabels \cup {"user"}) \ {"w2"} : Moves(label) \/ Returns(label)
    BY <1>0, <1>7 DEF WaitLoads, WaitTakes, PostTests, PostSearches, PostReads, PostLoads,
      PostGives, LoadsVal
  <2>3. cpu.at # "user"
    BY <2>1, LabelsOutside
  <2> QED BY <1>1, <1>2, <2>1, <2>2, <2>3
<1>8. CASE PostWakes
  <2>1. /\ cpu.at = "p3" /\ Goto("p4")
        /\ status' = [status EXCEPT ![next_run[cpu.flow]] = "RUNNING"]
        /\ UNCHANGED <<joining, stack, reg, curr_TID, first_call>>
    BY <1>8 DEF PostWakes, At, globals
  <2>2. cpu'.at = "p4" /\ cpu'.flow = cpu.flow
    BY <1>0, <2>1, GotoFacts, SemLabelsApart
  <2>3. curr_TID # 0 /\ cpu.at \in SemLabels /\ status[curr_TID] = "RUNNING"
    BY <2>1 DEF Layout, MainApart, SemLabels, MarkedAt
  <2> QED BY <1>0, <1>2, <2>1, <2>2, <2>3, MarksRunning
<1>9. CASE PostJumps
  <2>1. /\ cpu.at = "p4" /\ Resume(reg[next_run[cpu.flow]], NoTid)
        /\ UNCHANGED <<status, joining, stack, reg, curr_TID, first_call>>
    BY <1>9 DEF PostJumps, At, tcb, globals
  <2>2. curr_TID # 0 /\ status[curr_TID] = "RUNNING" /\ next_run[cpu.flow] \in Tid
    BY <1>0, <2>1 DEF Layout, MainApart, SemLabels, MarkedAt
  <2> QED BY <1>0, <2>1, <2>2, JumpLayout
<1> QED BY <1>3, <1>4, <1>5, <1>6, <1>7, <1>8, <1>9 DEF SemStep

(* A process that has ended does not go on.                                 *)
LEMMA EndedStays == [SemNext]_allvars /\ Running' => Running
<1>1. UNCHANGED allvars /\ Running' => Running
  BY DEF allvars, vars, Running
<1>2. SemNext /\ Running' => Running
  BY DEF SemNext, SemStep, SemInit, SemDestroy, WaitTests, WaitBlocks, WaitQueues,
    WaitLoads, WaitTakes,
    PostTests, PostSearches, PostReads, PostWakes, PostJumps, PostLoads, PostGives,
      Library, Alarm,
    Terminated, Calls, Create, Exit, Join, MainReturns, ExitToMain0, ExitToMain1, Tail1,
      Tail2, Tail3,
    Tail4, Tail5, Tail6, JoinJumps, JoinReturns, At, Running, vars
<1> QED BY <1>1, <1>2

(* Every step keeps the layout.                                             *)
LEMMA LInvInductive ==
  CallsUninterrupted /\ MainUsesNone /\ TInv /\ LInv /\ DInv /\ [SemNext]_allvars => LInv'
<1> SUFFICES ASSUME CallsUninterrupted, MainUsesNone, TInv, LInv, DInv, [SemNext]_allvars,
                    Running'
             PROVE  Layout'
  BY DEF LInv
<1>1. (Running /\ Layout /\ \E S \in SUBSET Tid : InPlay(S)) \/ UNCHANGED allvars
  BY EndedStays DEF LInv, DInv
<1>2. TypeOK /\ Known /\ SemTypeOK
  BY DEF TInv, SemTypeOK
<1>3. CASE UNCHANGED vars
  <2>1. UNCHANGED <<proc, status, joining, stack, reg, curr_TID, first_call, cpu>>
    BY <1>3 DEF vars, tcb, globals, flows
  <2>2. Layout
    BY <2>1 DEF LInv, Running
  <2> QED BY <2>1, <2>2 DEF Layout, BuffersAt, BeforeFirst, MainApart, MarkedAt, WaitingOK
<1>4. CASE Running /\ Layout /\ (\E S \in SUBSET Tid : InPlay(S)) /\ ~UNCHANGED vars
  <2>1. SemNext /\ ~Terminated
    BY <1>4 DEF allvars, Terminated
  <2>2. CASE SemStep
    BY <1>4, <2>2, SemLayout
  <2>3. CASE Library
    BY <1>2, <1>4, <2>3, LibraryLayout
  <2>4. CASE Alarm
    BY <1>2, <1>4, <2>4, AlarmLayout
  <2>5. CASE RunsAsItself /\ Calls
    <3>1. CASE MainReturns
      BY <3>1 DEF MainReturns, Ends, Running
    <3> QED BY <1>2, <1>4, <2>5, <3>1, CreateLayout, ExitLayout, JoinLayout DEF Calls
  <2> QED BY <2>1, <2>2, <2>3, <2>4, <2>5 DEF SemNext
<1> QED BY <1>1, <1>3, <1>4 DEF allvars

LEMMA LInvInitially == SemSetUp => LInv
<1> SUFFICES ASSUME SemSetUp PROVE Layout
  BY DEF LInv
<1> QED BY Constants DEF SemSetUp, Init, Layout, BuffersAt, BeforeFirst, MainApart,
  MarkedAt, WaitingOK,
  SemLabels, Tail

-----------------------------------------------------------------------------
(* No unit is made up: no two joins are answered by one exit                *)

(* A step of the running thread that disturbs no parked one.                *)
LEMMA KeepsInPlay ==
  ASSUME TypeOK, NEW S \in SUBSET Tid, InPlay(S), curr_TID' = curr_TID, joining' = joining,
         \A t \in Tid \ {curr_TID} :
           status[t] \in {"EXITED", "RUNNING", "BLOCKED"} =>
             status'[t] \in {status[t], "RUNNING"} /\ reg'[t] = reg[t],
         cpu'.at \in InTail \cup {"x1"} =>
           cpu.at \in InTail \cup {"x1"} /\ local'[cpu'.flow] = local[cpu.flow]
  PROVE  InPlay(S)'
<1>0. curr_TID \in S /\ 0 \in S
  BY DEF InPlay
<1>1. ASSUME NEW j \in Tid, Parked(j, S) PROVE Parked(j, S)'
  BY <1>1 DEF Parked
<1>2. \A t \in Tid \ S : status'[t] \in {"EXITED", "RUNNING", "BLOCKED"}
  BY <1>0 DEF InPlay
<1>3. \A t \in S : joining'[t] \notin {NoTid, 0} => Parked(joining[t], S)'
  BY <1>1 DEF InPlay, Parked, TypeOK
<1>4. cpu'.at \in InTail \cup {"x1"} /\ local'[cpu'.flow] # 0 =>
        /\ Parked(local[cpu.flow], S)'
        /\ \A s \in S : joining'[s] # local'[cpu'.flow]
  <2> SUFFICES ASSUME cpu'.at \in InTail \cup {"x1"}, local'[cpu'.flow] # 0
               PROVE  /\ Parked(local[cpu.flow], S)'
                      /\ \A s \in S : joining'[s] # local'[cpu'.flow]
    OBVIOUS
  <2>1. Parked(local[cpu.flow], S) /\ \A s \in S : joining[s] # local[cpu.flow]
    BY DEF InPlay
  <2>2. local[cpu.flow] \in Tid
    BY <2>1 DEF Parked
  <2>3. Parked(local[cpu.flow], S)'
    BY <1>1, <2>1, <2>2 DEF Parked
  <2> QED BY <2>1, <2>3
<1> QED BY <1>0, <1>2, <1>3, <1>4 DEF InPlay

(* scheduler() takes up no parked thread, and one that is in play.          *)
LEMMA SwitchInPlay ==
  ASSUME TypeOK, NEW st \in [Tid -> Status], NEW rg \in [Tid -> Context], NEW here \in Context,
         NEW n \in Tid, Switches(st, rg, here, n), Layout',
         NEW S \in SUBSET Tid, 0 \in S, curr_TID \in S,
         \A t \in Tid \ S : st[t] \in {"EXITED", "RUNNING", "BLOCKED"},
         joining' \in [Tid -> Tid \cup {NoTid}],
         \A t \in S : joining'[t] \notin {NoTid, 0} =>
           /\ joining'[t] \in S /\ rg[joining'[t]].at = "j1"
           /\ st[joining'[t]] \in {"BLOCKED", "RUNNING"}
           /\ joining'[t] = curr_TID => st[curr_TID] = "BLOCKED" /\ n # curr_TID,
         \A s, t \in S : joining'[s] = joining'[t] /\ joining'[s] \notin {NoTid, 0} => s = t
  PROVE  InPlay(S)'
<1>1. /\ status'[n] = "RUNNING" /\ curr_TID' = n
      /\ \A t \in Tid \ {n} :
           status'[t] = IF t = curr_TID /\ st[t] = "RUNNING" THEN "READY" ELSE st[t]
      /\ \A t \in Tid :
           reg'[t] = IF t = curr_TID /\ st[t] = "RUNNING" THEN here ELSE rg[t]
  BY SwitchFacts
<1>2. n # curr_TID => st[n] = "READY"
  BY DEF Switches
<1>3. n \in S
  BY <1>2
<1>4. \A t \in Tid \ S : status'[t] \in {"EXITED", "RUNNING", "BLOCKED"}
  BY <1>1, <1>3
<1>5. ASSUME NEW t \in S, joining'[t] \notin {NoTid, 0} PROVE Parked(joining[t], S)'
  <2> DEFINE j == joining'[t]
  <2>1. j \in S /\ rg[j].at = "j1" /\ st[j] \in {"BLOCKED", "RUNNING"} /\ j \in Tid
        /\ (j = curr_TID => st[j] = "BLOCKED" /\ n # curr_TID)
    BY <1>5
  <2>2. j # n
    BY <1>2, <2>1
  <2>3. status'[j] = st[j] /\ reg'[j] = rg[j]
    BY <1>1, <2>1, <2>2
  <2> QED BY <1>1, <2>1, <2>2, <2>3 DEF Parked
<1>6. cpu'.at \notin InTail \cup {"x1"}
  BY <1>1 DEF Layout, MarkedAt, InTail, Tail
<1> QED BY <1>1, <1>3, <1>4, <1>5, <1>6 DEF InPlay

(* A switch from the table as it is.                                        *)
LEMMA SwitchAsIs ==
  ASSUME TypeOK, NEW here \in Context, Scheduler(status, reg, here), Running', Layout',
         joining' = joining, NEW S \in SUBSET Tid, InPlay(S)
  PROVE  InPlay(S)'
<1>1. PICK n \in Tid : Switches(status, reg, here, n)
  BY SchedulerFacts DEF Running
<1>2. status \in [Tid -> Status] /\ reg \in [Tid -> Context] /\ joining' \in [Tid -> Tid \cup {NoTid}]
  BY DEF TypeOK
<1>3. /\ 0 \in S /\ curr_TID \in S
      /\ \A t \in Tid \ S : status[t] \in {"EXITED", "RUNNING", "BLOCKED"}
      /\ \A s, t \in S : joining'[s] = joining'[t] /\ joining'[s] \notin {NoTid, 0} => s = t
  BY DEF InPlay
<1>4. \A t \in S : joining'[t] \notin {NoTid, 0} =>
        /\ joining'[t] \in S /\ reg[joining'[t]].at = "j1"
        /\ status[joining'[t]] \in {"BLOCKED", "RUNNING"}
        /\ joining'[t] # curr_TID
  BY DEF InPlay, Parked
<1> QED BY <1>1, <1>2, <1>3, <1>4, SwitchInPlay

(* The first pthread_create sets the table up: every thread is in play.     *)
LEMMA CreateInPlay ==
  ASSUME TypeOK, Layout, Create, Running', NEW S \in SUBSET Tid, InPlay(S)
  PROVE  \E P \in SUBSET Tid : InPlay(P)'
<1>1. PICK i \in Tid : CreateThread(i)
  BY DEF Create, Ends, Running
<1>2. /\ cpu' = cpu /\ cpu.at = "user" /\ curr_TID' = curr_TID /\ curr_TID \in Tid
      /\ status \in [Tid -> Status] /\ reg \in [Tid -> Context]
  BY <1>1 DEF Create, CreateThread, At, TypeOK
<1>3. CASE first_call
  <2>1. joining' = [t \in Tid |-> NoTid]
    BY <1>1, <1>3 DEF CreateThread
  <2>2. InPlay(Tid)'
    BY <1>2, <2>1, Constants DEF InPlay, InTail
  <2> QED BY <2>2
<1>4. CASE ~first_call
  <2>1. /\ status' = [status EXCEPT ![i] = "READY"] /\ status[i] = "FRESH"
        /\ reg' = [reg EXCEPT ![i] = [flow |-> i, at |-> "start", pos |-> 0]]
        /\ joining' = joining
    BY <1>1, <1>4 DEF CreateThread, InitStatus, InitReg, FirstFresh
  <2>2. \A t \in Tid \ {curr_TID} : status[t] \in {"EXITED", "RUNNING", "BLOCKED"} =>
          status'[t] \in {status[t], "RUNNING"} /\ reg'[t] = reg[t]
    BY <1>2, <2>1
  <2>3. cpu'.at \notin InTail \cup {"x1"}
    BY <1>2 DEF InTail
  <2>4. InPlay(S)'
    BY <1>2, <2>1, <2>2, <2>3, KeepsInPlay
  <2> QED BY <2>4
<1> QED BY <1>3, <1>4

(* A thread that ends for its joiner leaves the play; the joiner stays.     *)
LEMMA ExitInPlay ==
  ASSUME TypeOK, Layout, Exit, Running', Layout', NEW S \in SUBSET Tid, InPlay(S)
  PROVE  \E P \in SUBSET Tid : InPlay(P)'
<1>0. /\ status \in [Tid -> Status] /\ reg \in [Tid -> Context] /\ curr_TID \in Tid
      /\ joining \in [Tid -> Tid \cup {NoTid}] /\ 0 \in S /\ curr_TID \in S /\ 0 \in Tid
      /\ Tid \subseteq Nat
      /\ LibraryLabels \subseteq Labels /\ {"x1", "user"} \subseteq BufferLabels
  BY LabelFacts, Constants DEF TypeOK, LibraryLabels, InPlay
<1>1. CASE ExitToJoiner
  <2> DEFINE c == curr_TID
             j == joining[curr_TID]
  <2>0. PICK P \in SUBSET S : P = IF c = 0 THEN S ELSE S \ {c}
    OBVIOUS
  <2>1. /\ status' = [status EXCEPT ![c] = "EXITED"]
        /\ curr_TID' = j /\ j # NoTid /\ cpu'.at = "x6"
        /\ UNCHANGED <<joining, reg>>
    BY <1>0, <1>1, GotoFacts DEF ExitToJoiner, LibraryLabels
  <2>2. c = 0 => j = 0
    BY <1>0, <2>1, Constants DEF Layout, WaitingOK
  <2>3. j # 0 => j \in S \ {c}
    BY <1>0, <2>1 DEF InPlay, Parked
  <2>4. 0 \in P /\ j \in P /\ P \in SUBSET Tid
    BY <1>0, <2>0, <2>2, <2>3
  <2>5. \A t \in Tid \ P : status'[t] \in {"EXITED", "RUNNING", "BLOCKED"}
    BY <1>0, <2>0, <2>1 DEF InPlay
  <2>6. ASSUME NEW t \in P, joining'[t] \notin {NoTid, 0} PROVE Parked(joining[t], P)'
    <3>1. Parked(joining[t], S) /\ t \in S
      BY <2>1, <2>4, <2>6 DEF InPlay
    <3>2. t # c
      BY <2>0, <2>1, <2>2, <2>6
    <3>3. joining[t] # j
      BY <1>0, <2>1, <2>6, <3>1, <3>2 DEF InPlay
    <3>4. joining[t] \in P \ {j} /\ joining[t] \in Tid \ {c}
      BY <2>0, <3>1, <3>3 DEF Parked
    <3> QED BY <1>0, <2>1, <3>1, <3>4 DEF Parked
  <2>7. \A s, t \in P : joining'[s] = joining'[t] /\ joining'[s] \notin {NoTid, 0} => s = t
    BY <2>1, <2>4 DEF InPlay
  <2>8. InPlay(P)'
    BY <2>1, <2>4, <2>5, <2>6, <2>7 DEF InPlay, InTail
  <2> QED BY <2>4, <2>8
<1>2. CASE ExitToWait
  <2> DEFINE st == [status EXCEPT ![curr_TID] = "WAITING"]
             rg == [reg EXCEPT ![curr_TID] = Here("x1")]
  <2>0. Here("x1") \in Context /\ Here("user") \in Context /\ joining' = joining
    BY <1>0, <1>2, HereFacts DEF ExitToWait
  <2>1. CASE status' = st /\ reg' = rg /\ Goto("e0") /\ UNCHANGED curr_TID
    <3>1. cpu'.at = "e0"
      BY <1>0, <2>1, GotoFacts DEF LibraryLabels
    <3>2. \A t \in Tid \ {curr_TID} : status'[t] = status[t] /\ reg'[t] = reg[t]
      BY <1>0, <2>1
    <3>3. InPlay(S)'
      BY <2>0, <2>1, <3>1, <3>2, KeepsInPlay DEF InTail
    <3> QED BY <3>3
  <2>2. CASE Scheduler(st, rg, Here("user"))
    <3>1. st \in [Tid -> Status] /\ rg \in [Tid -> Context]
          /\ \A t \in Tid \ {curr_TID} : st[t] = status[t] /\ rg[t] = reg[t]
      BY <1>0, <2>0 DEF Status
    <3>2. joining' \in [Tid -> Tid \cup {NoTid}]
      BY <1>0, <2>0
    <3> HIDE DEF st, rg
    <3>3. PICK n \in Tid : Switches(st, rg, Here("user"), n)
      BY <2>2, SchedulerFacts DEF Running
    <3>4. \A t \in Tid \ S : st[t] \in {"EXITED", "RUNNING", "BLOCKED"}
      BY <1>0, <3>1 DEF InPlay
    <3>5. \A t \in S : joining'[t] \notin {NoTid, 0} =>
            /\ joining'[t] \in S /\ rg[joining'[t]].at = "j1"
            /\ st[joining'[t]] \in {"BLOCKED", "RUNNING"}
            /\ joining'[t] # curr_TID
      BY <1>0, <2>0, <3>1 DEF InPlay, Parked
    <3>6. \A s, t \in S : joining'[s] = joining'[t] /\ joining'[s] \notin {NoTid, 0} => s = t
      BY <2>0 DEF InPlay
    <3>7. InPlay(S)'
      BY <1>0, <2>0, <3>1, <3>2, <3>3, <3>4, <3>5, <3>6, SwitchInPlay
    <3> QED BY <3>7
  <2> QED BY <1>2, <2>1, <2>2 DEF ExitToWait
<1> QED BY <1>1, <1>2 DEF Exit

(* A joiner is parked. With nobody READY it goes on itself, and those       *)
(* after it are out of the play.                                            *)
LEMMA JoinInPlay ==
  ASSUME TypeOK, Layout, RunsAsItself, NEW t \in Tid, Join(t), Running', Layout',
         NEW S \in SUBSET Tid, InPlay(S)
  PROVE  \E P \in SUBSET Tid : InPlay(P)'
<1>0. /\ status \in [Tid -> Status] /\ reg \in [Tid -> Context] /\ curr_TID \in Tid
      /\ joining \in [Tid -> Tid \cup {NoTid}] /\ 0 \in S /\ curr_TID \in S /\ Tid \subseteq Nat
      /\ local \in [Tid -> Tid \cup {NoTid}]
      /\ cpu.at = "user" /\ cpu.flow = curr_TID
      /\ LibraryLabels \subseteq Labels /\ {"j1", "user"} \subseteq BufferLabels
  BY LabelFacts, Constants DEF TypeOK, Join, At, RunsAsItself, LibraryLabels, InPlay
<1>1. t > curr_TID /\ curr_TID \in Nat /\ t \in Nat
  BY <1>0 DEF Join, Joinable
<1>2. Here("j1") \in Context /\ Here("j1").at = "j1" /\ Here("user") \in Context
  BY <1>0, HereFacts
<1>3. CASE JoinReturnsAtOnce(t)
  <2>1. InPlay(S)'
    BY <1>0, <1>3, KeepsInPlay DEF JoinReturnsAtOnce, tcb, globals, InTail
  <2> QED BY <2>1
<1>4. CASE JoinEnters(t)
  <2>1. /\ status' = [status EXCEPT ![curr_TID] = "BLOCKED"]
        /\ reg' = [reg EXCEPT ![curr_TID] = Here("j1")]
        /\ curr_TID' = t /\ status[t] = "WAITING" /\ joining' = joining
        /\ cpu'.flow = curr_TID /\ local' = [local EXCEPT ![curr_TID] = curr_TID]
    BY <1>0, <1>4, GotoFacts DEF JoinEnters, LibraryLabels
  <2>2. t \in S
    BY <2>1 DEF InPlay
  <2>3. \A u \in Tid \ S : status'[u] \in {"EXITED", "RUNNING", "BLOCKED"}
    BY <1>0, <2>1 DEF InPlay
  <2>4. ASSUME NEW u \in S, joining'[u] \notin {NoTid, 0} PROVE Parked(joining[u], S)'
    <3>1. Parked(joining[u], S) /\ joining[u] \in Tid
      BY <1>0, <2>1, <2>4 DEF InPlay, Parked
    <3> QED BY <1>0, <2>1, <3>1 DEF Parked
  <2>5. \A s, u \in S : joining'[s] = joining'[u] /\ joining'[s] \notin {NoTid, 0} => s = u
    BY <2>1 DEF InPlay
  <2>6. local'[cpu'.flow] = curr_TID
    BY <1>0, <2>1
  <2>7. curr_TID # 0 => Parked(local[cpu.flow], S)' /\ \A s \in S : joining'[s] # curr_TID
    <3>1. Parked(local[cpu.flow], S)'
      BY <1>0, <1>1, <1>2, <2>1, <2>6 DEF Parked
    <3>2. curr_TID # 0 => \A s \in S : joining'[s] # curr_TID
      BY <1>0, <2>1, Constants DEF InPlay, Parked
    <3> QED BY <3>1, <3>2
  <2>8. InPlay(S)'
    BY <1>0, <2>1, <2>2, <2>3, <2>4, <2>5, <2>6, <2>7 DEF InPlay
  <2> QED BY <2>8
<1>5. CASE JoinBlocks(t)
  <2> DEFINE st == [status EXCEPT ![curr_TID] = "BLOCKED"]
             rg == [reg EXCEPT ![curr_TID] = Here("j1")]
  <2>1. joining' = [joining EXCEPT ![t] = curr_TID] /\ joining' \in [Tid -> Tid \cup {NoTid}]
    BY <1>0, <1>5 DEF JoinBlocks, Noted
  <2>2. /\ st \in [Tid -> Status] /\ rg \in [Tid -> Context]
        /\ st[curr_TID] = "BLOCKED" /\ rg[curr_TID].at = "j1"
        /\ \A u \in Tid \ {curr_TID} : st[u] = status[u] /\ rg[u] = reg[u]
    BY <1>0, <1>2 DEF Status
  <2>3. Scheduler(st, rg, Here("user"))
    BY <1>5 DEF JoinBlocks
  <2> HIDE DEF st, rg
  <2>4. PICK n \in Tid : Switches(st, rg, Here("user"), n)
    BY <2>3, SchedulerFacts DEF Running
  <2>5. \A u \in Tid \ S : st[u] \in {"EXITED", "RUNNING", "BLOCKED"}
    BY <1>0, <2>2 DEF InPlay
  <2>6. ASSUME NEW u \in S, joining'[u] \notin {NoTid, 0}, u # t
        PROVE  /\ joining'[u] = joining[u] /\ Parked(joining[u], S)
               /\ joining[u] \in Tid \ {curr_TID} /\ joining[u] \in S
               /\ rg[joining[u]].at = "j1" /\ st[joining[u]] \in {"BLOCKED", "RUNNING"}
    <3>1. joining'[u] = joining[u] /\ Parked(joining[u], S)
      BY <1>0, <2>1, <2>6 DEF InPlay
    <3> QED BY <2>2, <3>1 DEF Parked
  <2>7. CASE n # curr_TID
    <3>1. \A u \in S : joining'[u] \notin {NoTid, 0} =>
            /\ joining'[u] \in S /\ rg[joining'[u]].at = "j1"
            /\ st[joining'[u]] \in {"BLOCKED", "RUNNING"}
      <4> TAKE u \in S
      <4>1. CASE u = t
        BY <1>0, <2>1, <2>2, <2>7, <4>1
      <4>2. CASE u # t
        BY <2>6, <4>2
      <4> QED BY <4>1, <4>2
    <3>2. \A s, u \in S : joining'[s] = joining'[u] /\ joining'[s] \notin {NoTid, 0} => s = u
      <4> SUFFICES ASSUME NEW s \in S, NEW u \in S, joining'[s] = joining'[u],
                          joining'[s] \notin {NoTid, 0}
                   PROVE  s = u
        OBVIOUS
      <4>1. CASE s = t /\ u # t
        BY <1>0, <2>1, <2>6, <4>1
      <4>2. CASE s # t /\ u = t
        BY <1>0, <2>1, <2>6, <4>2
      <4>3. CASE s # t /\ u # t
        BY <2>6, <4>3 DEF InPlay
      <4> QED BY <4>1, <4>2, <4>3
    <3>3. \A u \in S : joining'[u] \notin {NoTid, 0} =>
            /\ joining'[u] \in S /\ rg[joining'[u]].at = "j1"
            /\ st[joining'[u]] \in {"BLOCKED", "RUNNING"}
            /\ joining'[u] = curr_TID => st[curr_TID] = "BLOCKED" /\ n # curr_TID
      BY <2>2, <2>7, <3>1
    <3>4. st \in [Tid -> Status] /\ rg \in [Tid -> Context] /\ 0 \in S /\ curr_TID \in S
          /\ joining' \in [Tid -> Tid \cup {NoTid}] /\ Here("user") \in Context
      BY <1>0, <1>2, <2>1, <2>2
    <3> HIDE DEF InPlay
    <3>5. InPlay(S)'
      BY <2>4, <2>5, <3>2, <3>3, <3>4, SwitchInPlay
    <3> QED BY <3>5
  <2>8. CASE n = curr_TID
    <3>0. PICK P \in SUBSET S : P = {x \in S : x <= curr_TID \/ st[x] \in {"WAITING", "FRESH"}}
      OBVIOUS
    <3>1. \A u \in Tid \ {curr_TID} : st[u] # "READY"
      <4>1. curr_TID # MAX_THREADS - 1
        BY <1>1, Constants DEF Tid
      <4> QED BY <2>4, <2>8, <4>1 DEF Switches, Scanned
    <3>2. /\ status'[n] = "RUNNING" /\ curr_TID' = n
          /\ \A u \in Tid \ {n} : status'[u] = st[u]
          /\ \A u \in Tid : reg'[u] = rg[u]
      BY <1>2, <2>2, <2>4, <2>8, SwitchFacts
    <3>3. 0 \in P /\ curr_TID \in P
      BY <1>0, <1>1, <3>0
    <3>4. \A u \in Tid \ P : status'[u] \in {"EXITED", "RUNNING", "BLOCKED"}
      BY <1>0, <1>1, <2>2, <2>5, <2>8, <3>0, <3>1, <3>2 DEF Status
    <3>5. ASSUME NEW u \in P, joining'[u] \notin {NoTid, 0}
          PROVE  u # t /\ joining'[u] = joining[u] /\ Parked(joining[u], P)'
      <4>1. u <= curr_TID
        <5>1. u \in Tid /\ (u # n => status'[u] \notin {"WAITING", "FRESH"})
          BY <3>5 DEF Layout, WaitingOK
        <5>2. u <= curr_TID \/ st[u] \in {"WAITING", "FRESH"}
          BY <3>0
        <5>3. u # n => status'[u] = st[u]
          BY <3>2, <5>1
        <5> QED BY <1>1, <2>8, <5>1, <5>2, <5>3
      <4>2. u # t /\ u \in S /\ u \in Nat
        BY <1>0, <1>1, <4>1
      <4>3. /\ joining'[u] = joining[u] /\ Parked(joining[u], S)
            /\ joining[u] \in Tid \ {curr_TID} /\ joining[u] \in S
            /\ rg[joining[u]].at = "j1" /\ st[joining[u]] \in {"BLOCKED", "RUNNING"}
        BY <2>6, <3>5, <4>2
      <4>4. joining[u] < u
        BY <3>5, <4>3 DEF Layout, WaitingOK
      <4>5. joining[u] \in P
        <5>0. joining[u] \in Nat
          BY <4>3, Constants
        <5>1. joining[u] <= curr_TID
          BY <1>1, <4>1, <4>2, <4>4, <5>0
        <5> QED BY <3>0, <4>3, <5>1
      <4> QED BY <2>8, <3>2, <4>2, <4>3, <4>5 DEF Parked
    <3>6. \A s, u \in P : joining'[s] = joining'[u] /\ joining'[s] \notin {NoTid, 0} => s = u
      BY <3>5 DEF InPlay
    <3>7. cpu'.at \notin InTail \cup {"x1"}
      BY <3>2 DEF Layout, MarkedAt, InTail, Tail
    <3>8. InPlay(P)'
      BY <2>8, <3>2, <3>3, <3>4, <3>5, <3>6, <3>7 DEF InPlay
    <3> QED BY <3>3, <3>8
  <2> QED BY <2>7, <2>8
<1> QED BY <1>3, <1>4, <1>5 DEF Join

(* The tail hands over to the joiner it names, which no other names.        *)
LEMMA LibraryInPlay ==
  ASSUME TypeOK, Layout, Library, Running', Layout', NEW S \in SUBSET Tid, InPlay(S)
  PROVE  InPlay(S)'
<1>0. /\ status \in [Tid -> Status] /\ reg \in [Tid -> Context] /\ curr_TID \in Tid /\ 0 \in Tid
      /\ joining \in [Tid -> Tid \cup {NoTid}] /\ local \in [Tid -> Tid \cup {NoTid}]
      /\ cpu.flow \in Tid /\ NoTid \in Tid \cup {NoTid} /\ local[cpu.flow] \in Tid \cup {NoTid}
      /\ LibraryLabels \cup {"user"} \subseteq Labels
  BY LabelFacts, Constants DEF TypeOK
(* a jump to a buffer of the table *)
<1>1. ASSUME NEW m \in Tid, NEW v \in Tid \cup {NoTid}, Resume(reg[m], v), UNCHANGED <<tcb,
             globals>>,
             v = NoTid \/ (v = local[cpu.flow] /\ cpu.at \in InTail)
      PROVE  InPlay(S)'
  <2>1. /\ cpu'.flow = reg[m].flow /\ cpu'.flow \in Tid
        /\ cpu'.at = (IF reg[m].at = "start" THEN "user" ELSE reg[m].at)
        /\ reg[m].at = "x1" => v # NoTid /\ local' = [local EXCEPT ![cpu'.flow] = v]
    <3>1. reg[m] \in Context
      BY <1>0
    <3> QED BY <1>1, <3>1, ResumeGoes DEF Context
  <2>2. cpu'.at \in InTail \cup {"x1"} => reg[m].at = "x1"
    BY <2>1 DEF Layout, BuffersAt, InTail
  <2>3. reg[m].at = "x1" => local'[cpu'.flow] = v
    BY <1>0, <2>1
  <2> QED BY <1>1, <2>1, <2>2, <2>3, KeepsInPlay DEF tcb, globals
<1>2. CASE ExitToMain1 \/ Tail6
  BY <1>0, <1>1, <1>2 DEF ExitToMain1, Tail6
<1>3. CASE JoinJumps
  BY <1>0, <1>1, <1>3 DEF JoinJumps, At, InTail
<1>4. CASE Tail1 \/ Tail2 \/ Tail3 \/ Tail4 \/ JoinReturns
  <2>1. /\ \A u \in Tid \ {curr_TID} : status'[u] = status[u]
        /\ UNCHANGED <<joining, reg, curr_TID, local>>
    BY <1>0, <1>4 DEF Tail1, Tail2, Tail3, Tail4, JoinReturns, tcb, globals, Ends, Running
  <2>2. cpu'.flow = cpu.flow /\ (cpu.at \in InTail \cup {"x1"} \/ cpu'.at = "user")
    <3>1. \/ \E label \in Labels : Goto(label) /\ cpu.at \in InTail \cup {"x1"}
          \/ Goto("user")
      BY <1>0, <1>4 DEF Tail1, Tail2, Tail3, Tail4, JoinReturns, At, Ends, Running,
        LibraryLabels, InTail
    <3> QED BY <1>0, <3>1, GotoFacts
  <2> QED BY <2>1, <2>2, KeepsInPlay DEF InTail
<1>5. CASE ExitToMain0
  <2>1. curr_TID' = 0 /\ UNCHANGED <<status, reg, joining>> /\ cpu'.at = "e1"
    BY <1>0, <1>5, GotoFacts DEF ExitToMain0, tcb, LibraryLabels
  <2>2. \A t \in S : joining[t] \notin {NoTid, 0} => Parked(joining[t], S)'
    BY <2>1 DEF InPlay, Parked
  <2> QED BY <1>0, <2>1, <2>2 DEF InPlay, InTail
<1>6. CASE Tail5
  <2>1. /\ curr_TID' = local[cpu.flow] /\ UNCHANGED <<status, reg, joining>> /\ cpu'.at = "x6"
        /\ cpu.at = "x5"
    BY <1>0, <1>6, GotoFacts DEF Tail5, At, tcb, LibraryLabels
  <2>2. local[cpu.flow] # 0 =>
          local[cpu.flow] \in S /\ \A s \in S : joining[s] # local[cpu.flow]
    BY <2>1 DEF InPlay, Parked, InTail
  <2>3. \A t \in S : joining[t] \notin {NoTid, 0} => Parked(joining[t], S)'
    BY <2>1, <2>2 DEF InPlay, Parked
  <2>4. curr_TID' \in S
    BY <2>1, <2>2 DEF InPlay
  <2> QED BY <1>0, <2>1, <2>3, <2>4 DEF InPlay, InTail
<1> QED BY <1>2, <1>3, <1>4, <1>5, <1>6 DEF Library

(* The semaphore parks nobody, and its marks take nobody out of the         *)
(* play.                                                                    *)
LEMMA SemInPlay ==
  ASSUME TInv, MainUsesNone, Layout, SemStep, Running', Layout', NEW S \in SUBSET Tid, InPlay(S)
  PROVE  InPlay(S)'
<1>0. /\ TypeOK /\ Known /\ curr_TID \in Tid /\ cpu.flow \in Tid /\ status \in [Tid -> Status]
      /\ reg \in [Tid -> Context] /\ next_run \in [Tid -> Tid] /\ "user" \in BufferLabels
      /\ {"user", "crit", "w1", "w2", "d1", "d2", "p1", "p2", "p3", "p4", "u1", "u2"}
           \subseteq SemLabels \cup {"user"}
  BY LabelFacts DEF TInv, SemTypeOK, TypeOK, SemLabels
<1>1. ASSUME NEW label \in SemLabels \cup {"user"}, Moves(label) \/ Returns(label)
      PROVE  InPlay(S)'
  <2>1. cpu'.at = label /\ UNCHANGED <<status, joining, reg, curr_TID>>
    BY <1>0, <1>1, SemLabelsApart, MovesTypes DEF Moves, Returns, tcb, globals
  <2>2. label \notin InTail \cup {"x1"}
    BY SemLabelsApart
  <2> QED BY <1>0, <2>1, <2>2, KeepsInPlay
<1>2. CASE SemInit \/ SemDestroy
  BY <1>2 DEF SemInit, SemDestroy, vars, tcb, globals, flows, InPlay, Parked
<1>3. CASE WaitTests \/ WaitLoads \/ WaitTakes \/ PostTests \/ PostSearches \/ PostReads
           \/ PostLoads \/ PostGives
  <2>1. \E label \in SemLabels \cup {"user"} : Moves(label) \/ Returns(label)
    BY <1>0, <1>3 DEF WaitTests, WaitLoads, WaitTakes, PostTests, PostSearches, PostReads,
      PostLoads,
      PostGives, LoadsVal
  <2> QED BY <1>1, <2>1
<1>4. CASE WaitBlocks
  <2>1. /\ status' = [status EXCEPT ![curr_TID] = "BLOCKED"]
        /\ UNCHANGED <<joining, reg, curr_TID>>
        /\ cpu'.at = "w2"
    BY <1>0, <1>4, GotoFacts, SemLabelsApart DEF WaitBlocks, globals
  <2> QED BY <1>0, <2>1, KeepsInPlay DEF InTail
<1>5. CASE WaitQueues
  <2>1. Scheduler(status, reg, Here("user")) /\ joining' = joining
    BY <1>5 DEF WaitQueues, Ends, Running
  <2>2. Here("user") \in Context
    BY <1>0, HereFacts
  <2> QED BY <1>0, <2>1, <2>2, SwitchAsIs
<1>6. CASE PostWakes
  <2>1. /\ status' = [status EXCEPT ![next_run[cpu.flow]] = "RUNNING"]
        /\ UNCHANGED <<joining, reg, curr_TID>> /\ cpu'.at = "p4"
    BY <1>0, <1>6, GotoFacts, SemLabelsApart DEF PostWakes, globals
  <2>2. \A t \in Tid : status'[t] \in {status[t], "RUNNING"}
    BY <1>0, <2>1
  <2> QED BY <1>0, <2>1, <2>2, KeepsInPlay DEF InTail
<1>7. CASE PostJumps
  <2>1. /\ cpu.at = "p4" /\ Resume(reg[next_run[cpu.flow]], NoTid)
        /\ UNCHANGED <<status, joining, reg, curr_TID>>
    BY <1>7 DEF PostJumps, At, tcb, globals
  <2>2. reg[next_run[cpu.flow]] \in Context /\ reg[next_run[cpu.flow]].at \in {"none", "start", "user", "crit", "x1", "j1"}
    BY <1>0 DEF Layout, BuffersAt
  <2>3. cpu'.at \in {"user", "crit", "j1"}
    BY <1>0, <2>1, <2>2, ResumeGoes
  <2> QED BY <1>0, <2>1, <2>3, KeepsInPlay DEF InTail
<1> QED BY <1>2, <1>3, <1>4, <1>5, <1>6, <1>7 DEF SemStep

LEMMA AlarmInPlay ==
  ASSUME TypeOK, Alarm, Running', Layout', NEW S \in SUBSET Tid, InPlay(S)
  PROVE  InPlay(S)'
<1>1. Here(cpu.at) \in Context
  BY HereFacts, LabelFacts DEF TypeOK
<1> QED BY <1>1, SwitchAsIs DEF Alarm

(* Every step leaves some set of threads in play.                           *)
LEMMA DInvInductive ==
  MainUsesNone /\ TInv /\ LInv /\ LInv' /\ DInv /\ [SemNext]_allvars => DInv'
<1> SUFFICES ASSUME MainUsesNone, TInv, LInv, LInv', DInv, [SemNext]_allvars, Running'
             PROVE  \E P \in SUBSET Tid : InPlay(P)'
  BY DEF DInv
<1>1. Running /\ Layout /\ Layout' /\ TypeOK
  BY EndedStays DEF LInv, TInv, SemTypeOK
<1>2. PICK S \in SUBSET Tid : InPlay(S)
  BY <1>1 DEF DInv
<1>3. CASE UNCHANGED vars
  <2>1. InPlay(S)'
    BY <1>2, <1>3 DEF vars, tcb, globals, flows, InPlay, Parked
  <2> QED BY <2>1
<1>4. CASE SemStep
  <2>1. InPlay(S)'
    BY <1>1, <1>2, <1>4, SemInPlay
  <2> QED BY <2>1
<1>5. CASE Library
  <2>1. InPlay(S)'
    BY <1>1, <1>2, <1>5, LibraryInPlay
  <2> QED BY <2>1
<1>6. CASE Alarm
  <2>1. InPlay(S)'
    BY <1>1, <1>2, <1>6, AlarmInPlay
  <2> QED BY <2>1
<1>7. CASE RunsAsItself /\ Calls
  <2>1. CASE MainReturns
    BY <2>1 DEF MainReturns, Ends, Running
  <2>2. CASE Create
    BY <1>1, <1>2, <2>2, CreateInPlay
  <2>3. CASE Exit
    BY <1>1, <1>2, <2>3, ExitInPlay
  <2>4. CASE \E t \in Tid : Join(t)
    BY <1>1, <1>2, <1>7, <2>4, JoinInPlay
  <2> QED BY <1>7, <2>1, <2>2, <2>3, <2>4 DEF Calls
<1> QED BY <1>3, <1>4, <1>5, <1>6, <1>7 DEF SemNext, allvars, Terminated

LEMMA DInvInitially == SemSetUp => DInv
<1> SUFFICES ASSUME SemSetUp PROVE InPlay(Tid)
  BY DEF DInv
<1> QED BY Constants DEF SemSetUp, Init, InPlay, InTail

-----------------------------------------------------------------------------
(* No unit is made up: the count                                            *)

(* Held are the threads that a switch would take up inside; Holders adds    *)
(* the running one until its sem_post has given the unit back; Claims are   *)
(* those whose buffer would take them inside, the running one included,     *)
(* which may have queued in sem_wait with the buffer of an earlier visit.   *)
Held == {t \in Tid \ {curr_TID} : reg[t].at = "crit" /\ status[t] \in {"READY", "BLOCKED"}}
Holding == {"crit", "p1", "p2", "p3", "p4", "u1", "u2"}
Holders == Held \cup {t \in {curr_TID} : cpu.at \in Holding}
Claims == Held \cup {t \in {curr_TID} : cpu.at \in Holding \/ reg[t].at = "crit"}
Bounded == Cardinality(Claims) <= InitialValue /\ val + Cardinality(Holders) <= InitialValue
CInv == Running => Bounded

(* The sets are finite.                                                     *)
LEMMA FiniteHolders ==
  ASSUME TypeOK
  PROVE  /\ IsFiniteSet(Held) /\ IsFiniteSet(Holders) /\ IsFiniteSet(Claims)
         /\ Held \in SUBSET Tid /\ Holders \in SUBSET Tid /\ Claims \in SUBSET Tid
         /\ Cardinality(Held) \in Nat /\ Cardinality(Holders) \in Nat
         /\ Cardinality(Claims) \in Nat
<1>1. IsFiniteSet(Tid)
  BY Constants, FS_Interval DEF Tid
<1>2. Held \in SUBSET Tid /\ Holders \in SUBSET Tid /\ Claims \in SUBSET Tid
  BY DEF Held, Holders, Claims, TypeOK
<1>3. IsFiniteSet(Held) /\ IsFiniteSet(Holders) /\ IsFiniteSet(Claims)
  BY <1>1, <1>2, FS_Subset
<1> QED BY <1>2, <1>3, FS_CardinalityType

(* A step after which nobody holds or claims a unit that did not before.    *)
LEMMA FewerHold ==
  ASSUME TypeOK, TypeOK', val \in Int, val' = val, Bounded,
         \A t \in Tid : t # curr_TID' /\ reg'[t].at = "crit" /\ status'[t] \in {"READY", "BLOCKED"} =>
           t \in Holders,
         cpu'.at \in Holding => curr_TID' \in Holders,
         reg'[curr_TID'].at = "crit" => curr_TID' \in Claims
  PROVE  Bounded'
<1>1. Holders \subseteq Claims
  BY DEF Holders, Claims
<1>2. Holders' \subseteq Holders /\ Claims' \subseteq Claims
  <2>1. Held' \subseteq Holders
    BY DEF Held
  <2>2. Holders' \subseteq Holders
    BY <2>1 DEF Holders
  <2>3. Claims' \subseteq Claims
    BY <1>1, <2>1 DEF Claims
  <2> QED BY <2>2, <2>3
<1>3. /\ IsFiniteSet(Holders) /\ IsFiniteSet(Claims)
      /\ Cardinality(Holders) \in Nat /\ Cardinality(Claims) \in Nat
  BY FiniteHolders
<1>4. /\ Cardinality(Holders') \in Nat /\ Cardinality(Claims') \in Nat
      /\ Cardinality(Holders') <= Cardinality(Holders)
      /\ Cardinality(Claims') <= Cardinality(Claims)
  BY <1>2, <1>3, FS_Subset, FS_CardinalityType
<1> QED BY <1>3, <1>4, Constants DEF Bounded

(* The steps of the running thread that leave the other threads alone.      *)
LEMMA SameHold ==
  ASSUME TypeOK, TypeOK', val \in Int, val' = val, Bounded, curr_TID' = curr_TID,
         \A t \in Tid \ {curr_TID} : status'[t] = status[t] /\ reg'[t] = reg[t],
         cpu'.at \in Holding => cpu.at \in Holding,
         reg'[curr_TID].at = "crit" => curr_TID \in Claims
  PROVE  Bounded'
<1>1. \A t \in Tid : t # curr_TID' /\ reg'[t].at = "crit" /\ status'[t] \in {"READY", "BLOCKED"} =>
        t \in Holders
  BY DEF Holders, Held
<1>2. cpu'.at \in Holding => curr_TID' \in Holders
  BY DEF Holders
<1> QED BY <1>1, <1>2, FewerHold

(* scheduler() creates no holder: the running thread is saved at a point    *)
(* where it holds, or its buffer leads elsewhere.                           *)
LEMMA SwitchHolds ==
  ASSUME TypeOK, TypeOK', val \in Int, val' = val, Bounded, Layout,
         NEW st \in [Tid -> Status], NEW rg \in [Tid -> Context], NEW here \in Context,
         NEW n \in Tid, Switches(st, rg, here, n), Running',
         \A t \in Tid \ {curr_TID} : st[t] = status[t] /\ rg[t] = reg[t],
         rg[curr_TID].at \in {"none", "start", "user", "crit", "x1", "j1"},
         rg[curr_TID].at = "crit" => st[curr_TID] = "RUNNING",
         here.at \in {"user", "crit"},
         here.at = "crit" => cpu.at = "crit"
  PROVE  Bounded'
<1>1. /\ status'[n] = "RUNNING" /\ curr_TID' = n
      /\ \A t \in Tid \ {n} :
           status'[t] = IF t = curr_TID /\ st[t] = "RUNNING" THEN "READY" ELSE st[t]
      /\ \A t \in Tid :
           reg'[t] = IF t = curr_TID /\ st[t] = "RUNNING" THEN here ELSE rg[t]
  BY SwitchFacts
<1>2. curr_TID \in Tid /\ (n # curr_TID => st[n] = "READY")
  BY DEF Switches, TypeOK
<1>3. reg'[curr_TID].at = "crit" => curr_TID \in Holders
  BY <1>1, <1>2 DEF Holders, Holding
<1>4. \A t \in Tid : t # n /\ reg'[t].at = "crit" /\ status'[t] \in {"READY", "BLOCKED"} => t \in Holders
  <2> SUFFICES ASSUME NEW t \in Tid, t # n, reg'[t].at = "crit", status'[t] \in {"READY", "BLOCKED"}
               PROVE  t \in Holders
    OBVIOUS
  <2>1. CASE t # curr_TID
    BY <1>1, <2>1 DEF Holders, Held
  <2> QED BY <1>3, <2>1
<1>5. reg'[n].at = "crit" => n \in Holders
  <2>1. CASE n # curr_TID
    BY <1>1, <1>2, <2>1 DEF Holders, Held
  <2> QED BY <1>3, <2>1
<1>6. cpu'.at \in Holding => reg'[n].at = "crit"
  <2>1. reg'[n] \in Context /\ Resume(reg'[n], NoTid)
    BY DEF Switches, TypeOK
  <2>2. cpu'.at = IF reg'[n].at = "start" THEN "user" ELSE reg'[n].at
    BY <2>1, ResumeGoes
  <2>3. reg'[n].at \in {"none", "start", "user", "crit", "x1", "j1"}
    BY <1>1, <1>2 DEF Layout, BuffersAt
  <2> QED BY <2>2, <2>3 DEF Holding
<1>7. Holders \subseteq Claims
  BY DEF Holders, Claims
<1> QED BY <1>1, <1>4, <1>5, <1>6, <1>7, FewerHold

(* The count, action by action.                                             *)
LEMMA AlarmHolds ==
  ASSUME CallsUninterrupted, TypeOK, TypeOK', val \in Int, val' = val, Bounded, Layout,
         Alarm, Running'
  PROVE  Bounded'
<1>1. cpu.at \in {"user", "crit"} /\ cpu.at \in BufferLabels /\ ~first_call /\ curr_TID \in Tid
      /\ status \in [Tid -> Status] /\ reg \in [Tid -> Context]
  BY LabelFacts DEF Alarm, CallsUninterrupted, TypeOK
<1>2. Here(cpu.at) \in Context /\ Here(cpu.at).at = cpu.at
  BY <1>1, HereFacts
<1>3. reg[curr_TID].at = "crit" => status[curr_TID] = "RUNNING"
  BY <1>1 DEF Layout, MainApart, MarkedAt, SemLabels
<1>4. reg[curr_TID].at \in {"none", "start", "user", "crit", "x1", "j1"}
  BY <1>1 DEF Layout, BuffersAt
<1>5. PICK n \in Tid : Switches(status, reg, Here(cpu.at), n)
  BY SchedulerFacts DEF Alarm, Running
<1> QED BY <1>1, <1>2, <1>3, <1>4, <1>5, SwitchHolds

LEMMA CreateHolds ==
  ASSUME TypeOK, TypeOK', val \in Int, val' = val, Bounded, Layout, Create, Running'
  PROVE Bounded'
<1>1. PICK i \in Tid : CreateThread(i)
  BY DEF Create, Ends, Running
<1>2. /\ cpu' = cpu /\ cpu.at = "user" /\ curr_TID' = curr_TID /\ curr_TID \in Tid
      /\ status \in [Tid -> Status] /\ reg \in [Tid -> Context]
  BY <1>1 DEF Create, CreateThread, At, TypeOK
<1>3. ASSUME NEW t \in Tid, reg'[t].at = "crit"
      PROVE reg[t].at = "crit" /\ (status'[t] = status[t])
  <2>1. CASE first_call
    <3>1. \A u \in Tid : reg[u].at = "none"
      BY <2>1 DEF Layout, BeforeFirst
    <3>2. reg' = [[reg EXCEPT ![0] = [flow |-> 0, at |-> "user", pos |-> pos[0] + 1]]
                   EXCEPT ![i] = [flow |-> i, at |-> "start", pos |-> 0]]
      BY <1>1, <2>1 DEF CreateThread, InitReg
    <3> QED BY <1>2, <1>3, <3>1, <3>2
  <2>2. CASE ~first_call
    <3>1. /\ status' = [status EXCEPT ![i] = "READY"]
          /\ reg' = [reg EXCEPT ![i] = [flow |-> i, at |-> "start", pos |-> 0]]
      BY <1>1, <2>2 DEF CreateThread, InitStatus, InitReg
    <3> QED BY <1>2, <1>3, <3>1
  <2> QED BY <2>1, <2>2
<1>4. \A t \in Tid : t # curr_TID' /\ reg'[t].at = "crit" /\ status'[t] \in {"READY", "BLOCKED"} =>
        t \in Holders
  BY <1>2, <1>3 DEF Holders, Held
<1>5. reg'[curr_TID'].at = "crit" => curr_TID' \in Claims
  BY <1>2, <1>3 DEF Claims
<1> QED BY <1>2, <1>4, <1>5, FewerHold DEF Holding

LEMMA ExitHolds ==
  ASSUME TypeOK, TypeOK', val \in Int, val' = val, Bounded, Layout, Layout', Exit, Running'
  PROVE  Bounded'
<1>0. /\ status \in [Tid -> Status] /\ reg \in [Tid -> Context] /\ curr_TID \in Tid
      /\ cpu.at = "user" /\ cpu.flow \in Tid
      /\ LibraryLabels \subseteq Labels /\ {"x1", "user"} \subseteq BufferLabels
  BY LabelFacts DEF TypeOK, Exit, At, LibraryLabels
<1>1. CASE ExitToJoiner
  <2>1. /\ status' = [status EXCEPT ![curr_TID] = "EXITED"] /\ cpu'.at = "x6" /\ reg' = reg
    BY <1>0, <1>1, GotoFacts DEF ExitToJoiner, LibraryLabels
  <2>2. \A t \in Tid : t # curr_TID' /\ reg'[t].at = "crit" /\ status'[t] \in {"READY", "BLOCKED"} =>
          t \in Holders
    BY <1>0, <2>1 DEF Holders, Held
  <2>3. reg'[curr_TID'].at # "crit"
    BY <2>1 DEF Layout, MainApart, MarkedAt
  <2> QED BY <2>1, <2>2, <2>3, FewerHold DEF Holding
<1>2. CASE ExitToWait
  <2> DEFINE st == [status EXCEPT ![curr_TID] = "WAITING"]
             rg == [reg EXCEPT ![curr_TID] = Here("x1")]
  <2>0. /\ Here("x1") \in Context /\ Here("x1").at = "x1"
        /\ Here("user") \in Context /\ Here("user").at = "user"
    BY <1>0, HereFacts
  <2>1. /\ st \in [Tid -> Status] /\ rg \in [Tid -> Context] /\ rg[curr_TID].at = "x1"
        /\ \A t \in Tid \ {curr_TID} : st[t] = status[t] /\ rg[t] = reg[t]
    BY <1>0, <2>0 DEF Status
  <2>2. CASE status' = st /\ reg' = rg /\ Goto("e0") /\ UNCHANGED curr_TID
    <3>1. cpu'.at = "e0"
      BY <1>0, <2>2, GotoFacts DEF LibraryLabels
    <3> QED BY <2>1, <2>2, <3>1, SameHold DEF Holding
  <2>3. CASE Scheduler(st, rg, Here("user"))
    <3> HIDE DEF st, rg
    <3>1. PICK n \in Tid : Switches(st, rg, Here("user"), n)
      BY <2>3, SchedulerFacts DEF Running
    <3> QED BY <2>0, <2>1, <3>1, SwitchHolds
  <2> QED BY <1>2, <2>2, <2>3 DEF ExitToWait
<1> QED BY <1>1, <1>2 DEF Exit

LEMMA JoinHolds ==
  ASSUME TypeOK, TypeOK', val \in Int, val' = val, Bounded, Layout, Layout',
         NEW t \in Tid, Join(t), Running'
  PROVE  Bounded'
<1>0. /\ status \in [Tid -> Status] /\ reg \in [Tid -> Context] /\ curr_TID \in Tid
      /\ cpu.at = "user" /\ cpu.flow \in Tid
      /\ LibraryLabels \subseteq Labels /\ {"j1", "user"} \subseteq BufferLabels
  BY LabelFacts DEF TypeOK, Join, At, LibraryLabels
<1>1. /\ Here("j1") \in Context /\ Here("j1").at = "j1"
      /\ Here("user") \in Context /\ Here("user").at = "user"
  BY <1>0, HereFacts
<1>2. CASE JoinReturnsAtOnce(t)
  <2>1. UNCHANGED <<status, reg, curr_TID, cpu>>
    BY <1>2 DEF JoinReturnsAtOnce, tcb, globals
  <2> QED BY <1>0, <2>1, SameHold DEF Claims
<1>3. CASE JoinEnters(t)
  <2>1. /\ status' = [status EXCEPT ![curr_TID] = "BLOCKED"]
        /\ reg' = [reg EXCEPT ![curr_TID] = Here("j1")]
        /\ curr_TID' = t /\ status[t] = "WAITING" /\ cpu'.at = "k1"
    BY <1>0, <1>3, GotoFacts DEF JoinEnters, LibraryLabels
  <2>2. \A u \in Tid : u # curr_TID' /\ reg'[u].at = "crit" /\ status'[u] \in {"READY", "BLOCKED"} =>
          u \in Holders
    BY <1>0, <1>1, <2>1 DEF Holders, Held
  <2>3. reg'[curr_TID'].at # "crit"
    <3>1. status'[t] = "WAITING"
      BY <2>1 DEF Layout, MarkedAt
    <3> QED BY <2>1, <3>1 DEF Layout, WaitingOK
  <2> QED BY <2>1, <2>2, <2>3, FewerHold DEF Holding
<1>4. CASE JoinBlocks(t)
  <2> DEFINE st == [status EXCEPT ![curr_TID] = "BLOCKED"]
             rg == [reg EXCEPT ![curr_TID] = Here("j1")]
  <2>1. /\ st \in [Tid -> Status] /\ rg \in [Tid -> Context] /\ rg[curr_TID].at = "j1"
        /\ \A u \in Tid \ {curr_TID} : st[u] = status[u] /\ rg[u] = reg[u]
    BY <1>0, <1>1 DEF Status
  <2>2. Scheduler(st, rg, Here("user"))
    BY <1>4 DEF JoinBlocks
  <2> HIDE DEF st, rg
  <2>3. PICK n \in Tid : Switches(st, rg, Here("user"), n)
    BY <2>2, SchedulerFacts DEF Running
  <2> QED BY <1>1, <2>1, <2>3, SwitchHolds
<1> QED BY <1>2, <1>3, <1>4 DEF Join

LEMMA LibraryHolds ==
  ASSUME TypeOK, TypeOK', val \in Int, val' = val, Bounded, Layout, Layout', Library, Running'
  PROVE  Bounded'
<1>0. /\ status \in [Tid -> Status] /\ reg \in [Tid -> Context] /\ curr_TID \in Tid /\ 0 \in Tid
      /\ local[cpu.flow] \in Tid \cup {NoTid} /\ NoTid \in Tid \cup {NoTid}
      /\ LibraryLabels \cup {"user"} \subseteq Labels
  BY LabelFacts, Constants DEF TypeOK
(* a jump to a buffer of the running identity, which does not lead inside *)
<1>1. ASSUME NEW m \in Tid, NEW v \in Tid \cup {NoTid}, Resume(reg[m], v), UNCHANGED <<tcb,
             globals>>,
             reg[m].at # "crit", m = curr_TID
      PROVE  Bounded'
  <2>1. cpu'.at = IF reg[m].at = "start" THEN "user" ELSE reg[m].at
    BY <1>0, <1>1, ResumeGoes
  <2>2. cpu'.at \notin Holding
    BY <1>1, <2>1 DEF Holding, Layout, BuffersAt
  <2> QED BY <1>1, <2>2, SameHold DEF tcb, globals
<1>2. CASE ExitToMain1
  <2>1. cpu.at = "e1" /\ curr_TID = 0 /\ reg[0].at # "crit"
    BY <1>2 DEF ExitToMain1, At, Layout, MarkedAt, MainApart
  <2> QED BY <1>0, <1>1, <1>2, <2>1 DEF ExitToMain1
<1>3. CASE Tail6
  <2>1. reg[curr_TID].at # "crit"
    BY <1>3 DEF Tail6, At, Layout, MarkedAt, MainApart
  <2> QED BY <1>0, <1>1, <1>3, <2>1 DEF Tail6
<1>4. CASE JoinJumps
  <2>1. reg[curr_TID].at # "crit"
    BY <1>0, <1>4 DEF JoinJumps, At, Layout, MarkedAt, WaitingOK
  <2> QED BY <1>0, <1>1, <1>4, <2>1 DEF JoinJumps
<1>5. CASE Tail1 \/ Tail2 \/ Tail3 \/ Tail4 \/ JoinReturns
  <2>1. /\ \A u \in Tid \ {curr_TID} : status'[u] = status[u]
        /\ UNCHANGED <<reg, curr_TID>>
    BY <1>0, <1>5 DEF Tail1, Tail2, Tail3, Tail4, JoinReturns, tcb, globals, Ends, Running
  <2>2. cpu'.at \in {"x2", "x3", "x4", "x5", "user"}
    <3>1. \E label \in {"x2", "x3", "x4", "x5", "user"} : Goto(label) /\ label \in Labels
      BY <1>0, <1>5 DEF Tail1, Tail2, Tail3, Tail4, JoinReturns, Ends, Running, LibraryLabels
    <3> QED BY <3>1, GotoFacts
  <2> QED BY <1>0, <2>1, <2>2, SameHold DEF Holding, Claims
<1>6. CASE ExitToMain0 \/ Tail5
  <2>1. UNCHANGED <<status, reg>> /\ cpu'.at \in {"e1", "x6"} /\ status[curr_TID] \in {"WAITING", "EXITED"}
    <3>1. Goto("e1") \/ Goto("x6")
      BY <1>6 DEF ExitToMain0, Tail5
    <3>2. cpu.at \in {"e0", "x5"}
      BY <1>6 DEF ExitToMain0, Tail5, At
    <3> QED BY <1>0, <1>6, <3>1, <3>2, GotoFacts DEF ExitToMain0, Tail5, tcb,
      LibraryLabels, Layout, MarkedAt, Tail
  <2>2. reg'[curr_TID'].at # "crit"
    BY <2>1 DEF Layout, MarkedAt, MainApart
  <2>3. \A t \in Tid : t # curr_TID' /\ reg'[t].at = "crit" /\ status'[t] \in {"READY", "BLOCKED"} =>
          t \in Holders
    BY <2>1 DEF Holders, Held
  <2> QED BY <2>1, <2>2, <2>3, FewerHold DEF Holding
<1> QED BY <1>2, <1>3, <1>4, <1>5, <1>6 DEF Library

(* sem_wait takes a unit, or queues its caller when there is none.          *)
LEMMA WaitHolds ==
  ASSUME TInv, TInv', NInv, Bounded, Layout, Running', MainUsesNone,
         WaitTests \/ WaitBlocks \/ WaitQueues \/ WaitLoads \/ WaitTakes
  PROVE  Bounded'
<1>0. /\ TypeOK /\ TypeOK' /\ Known /\ curr_TID \in Tid /\ status \in [Tid -> Status]
      /\ reg \in [Tid -> Context]
      /\ cpu.flow \in Tid /\ val \in Int /\ loaded \in [Tid -> Int] /\ InitialValue \in Nat
      /\ {"user", "crit", "w1", "w2", "d1", "d2"} \subseteq SemLabels \cup {"user"}
      /\ "user" \in BufferLabels
  BY LabelFacts, Constants DEF TInv, SemTypeOK, TypeOK, SemLabels
<1>1. ASSUME NEW label \in SemLabels \cup {"user"}, Moves(label) \/ Returns(label)
      PROVE  cpu'.at = label /\ UNCHANGED <<status, reg, curr_TID>>
  BY <1>0, <1>1, SemLabelsApart, MovesTypes DEF Moves, Returns, tcb, globals
<1>2. CASE WaitTests \/ WaitLoads
  <2>1. val' = val
    BY <1>2 DEF WaitTests, WaitLoads, LoadsVal, semvars, semaphore
  <2>2. cpu'.at \in {"w1", "d1", "d2"} /\ UNCHANGED <<status, reg, curr_TID>>
    BY <1>0, <1>1, <1>2 DEF WaitTests, WaitLoads, LoadsVal
  <2> QED BY <1>0, <2>1, <2>2, SameHold DEF Holding, Claims
<1>3. CASE WaitBlocks
  <2>1. /\ status' = [status EXCEPT ![curr_TID] = "BLOCKED"] /\ UNCHANGED <<reg, curr_TID, val>>
        /\ cpu'.at = "w2"
    BY <1>0, <1>3, GotoFacts, SemLabelsApart DEF WaitBlocks, globals, semvars, semaphore
  <2> QED BY <1>0, <2>1, SameHold DEF Holding, Claims
<1>4. CASE WaitQueues
  <2>1. Scheduler(status, reg, Here("user")) /\ val' = val /\ cpu.at = "w2" /\ Running
    BY <1>4 DEF WaitQueues, At, Ends, Running
  <2>2. val = 0 /\ status[curr_TID] = "BLOCKED"
    BY <2>1 DEF NInv, ValueAt, Layout, MarkedAt
  <2>3. Here("user") \in Context
    BY <1>0, HereFacts
  <2>4. PICK n \in Tid : Switches(status, reg, Here("user"), n)
    BY <1>0, <2>1, SchedulerFacts DEF Running
  <2>5. /\ status'[n] = "RUNNING" /\ curr_TID' = n
        /\ \A t \in Tid \ {n} : status'[t] = status[t]
        /\ \A t \in Tid : reg'[t] = reg[t]
    BY <1>0, <2>2, <2>3, <2>4, SwitchFacts
  <2>6. n # curr_TID => status[n] = "READY"
    BY <2>4 DEF Switches
  <2>7. cpu'.at \in Holding => reg[n].at = "crit"
    <3>1. reg'[n] \in Context /\ Resume(reg'[n], NoTid)
      BY <1>0, <2>4 DEF Switches, TypeOK
    <3>2. cpu'.at = IF reg'[n].at = "start" THEN "user" ELSE reg'[n].at
      BY <1>0, <3>1, ResumeGoes
    <3> QED BY <2>5, <3>2 DEF Layout, BuffersAt, Holding
  <2>8. Claims' \subseteq Claims /\ Holders' \subseteq Claims
    <3>1. \A t \in Tid : t # n /\ reg[t].at = "crit" /\ status[t] \in {"READY", "BLOCKED"} => t \in Claims
      BY <1>0 DEF Claims, Held
    <3>2. Held' \subseteq Claims
      BY <2>5, <3>1 DEF Held
    <3>3. reg[n].at = "crit" => n \in Claims
      BY <1>0, <2>6 DEF Claims, Held
    <3> QED BY <2>5, <2>7, <3>2, <3>3 DEF Claims, Holders
  <2>9. /\ IsFiniteSet(Claims) /\ Cardinality(Claims) \in Nat
    BY <1>0, FiniteHolders
  <2>10. /\ Cardinality(Claims') \in Nat /\ Cardinality(Holders') \in Nat
         /\ Cardinality(Claims') <= Cardinality(Claims)
         /\ Cardinality(Holders') <= Cardinality(Claims)
    BY <2>8, <2>9, FS_Subset, FS_CardinalityType
  <2> QED BY <1>0, <2>1, <2>2, <2>9, <2>10 DEF Bounded
<1>5. CASE WaitTakes
  <2>1. /\ cpu.at = "d2" /\ Running /\ val' = loaded[cpu.flow] - 1 /\ Returns("crit")
    BY <1>5 DEF WaitTakes, At, Running
  <2>2. val > 0 /\ val' = val - 1
    BY <1>0, <2>1 DEF NInv, ValueAt
  <2>3. cpu'.at = "crit" /\ UNCHANGED <<status, reg, curr_TID>>
    BY <1>0, <1>1, <2>1
  <2>4. Holders = Held /\ Held' = Held /\ Holders' = Held \cup {curr_TID} /\ Claims' = Holders'
    BY <1>0, <2>1, <2>3 DEF Holders, Held, Claims, Holding
  <2>5. curr_TID \notin Held /\ IsFiniteSet(Held) /\ Cardinality(Held) \in Nat
    BY <1>0, FiniteHolders DEF Held
  <2>6. Cardinality(Holders') = Cardinality(Held) + 1
    BY <2>4, <2>5, FS_AddElement
  <2>7. val + Cardinality(Held) <= InitialValue /\ Cardinality(Claims') = Cardinality(Held) + 1
    BY <2>4, <2>6 DEF Bounded
  <2>8. val' + Cardinality(Holders') <= InitialValue /\ Cardinality(Claims') <= InitialValue
    BY <1>0, <2>2, <2>5, <2>6, <2>7
  <2> QED BY <2>8 DEF Bounded
<1> QED BY <1>2, <1>3, <1>4, <1>5

(* sem_post gives the unit back, or jumps to a waiter in its stead.         *)
LEMMA PostHolds ==
  ASSUME TInv, TInv', NInv, Bounded, Layout, Running',
         PostTests \/ PostSearches \/ PostReads \/ PostWakes \/ PostJumps \/ PostLoads \/ PostGives
  PROVE  Bounded'
<1>0. /\ TypeOK /\ TypeOK' /\ Known /\ curr_TID \in Tid /\ status \in [Tid -> Status]
      /\ reg \in [Tid -> Context]
      /\ cpu.flow \in Tid /\ val \in Int /\ loaded \in [Tid -> Int] /\ InitialValue \in Nat
      /\ next_run \in [Tid -> Tid]
      /\ {"user", "p1", "p2", "p3", "p4", "u1", "u2"} \subseteq SemLabels \cup {"user"}
  BY LabelFacts, Constants DEF TInv, SemTypeOK, TypeOK, SemLabels
<1>1. ASSUME NEW label \in SemLabels \cup {"user"}, Moves(label) \/ Returns(label)
      PROVE  cpu'.at = label /\ UNCHANGED <<status, reg, curr_TID>>
  BY <1>0, <1>1, SemLabelsApart, MovesTypes DEF Moves, Returns, tcb, globals
<1>2. CASE PostTests \/ PostSearches \/ PostReads \/ PostLoads
  <2>1. val' = val /\ cpu.at \in Holding
    BY <1>2 DEF PostTests, PostSearches, PostReads, PostLoads, LoadsVal, semvars,
      semaphore, At, Holding
  <2>2. UNCHANGED <<status, reg, curr_TID>>
    <3>1. \E label \in SemLabels \cup {"user"} : Moves(label) \/ Returns(label)
      BY <1>0, <1>2 DEF PostTests, PostSearches, PostReads, PostLoads, LoadsVal
    <3> QED BY <1>1, <3>1
  <2> QED BY <1>0, <2>1, <2>2, SameHold DEF Claims
<1>3. CASE PostWakes
  <2>1. /\ status' = [status EXCEPT ![next_run[cpu.flow]] = "RUNNING"]
        /\ UNCHANGED <<reg, curr_TID, val>>
        /\ cpu.at = "p3"
    BY <1>3 DEF PostWakes, At, globals, semvars, semaphore
  <2>2. \A t \in Tid : t # curr_TID' /\ reg'[t].at = "crit" /\ status'[t] \in {"READY", "BLOCKED"} =>
          t \in Holders
    BY <1>0, <2>1 DEF Holders, Held
  <2>3. curr_TID' \in Holders /\ curr_TID' \in Claims
    BY <1>0, <2>1 DEF Holders, Holding, Claims
  <2> QED BY <1>0, <2>1, <2>2, <2>3, FewerHold
<1>4. CASE PostJumps
  <2>1. UNCHANGED <<status, reg, curr_TID, val>> /\ cpu.at = "p4"
    BY <1>4 DEF PostJumps, At, tcb, globals, semvars, semaphore
  <2> QED BY <1>0, <2>1, SameHold DEF Holding, Claims
<1>5. CASE PostGives
  <2>1. /\ cpu.at = "u2" /\ Running /\ val' = loaded[cpu.flow] + 1 /\ Returns("user")
    BY <1>5 DEF PostGives, At, Running
  <2>2. val' = val + 1
    BY <1>0, <2>1 DEF NInv, ValueAt
  <2>3. cpu'.at = "user" /\ UNCHANGED <<status, reg, curr_TID>>
    BY <1>0, <1>1, <2>1
  <2>4. Holders = Held \cup {curr_TID} /\ Holders' = Held /\ Claims' \subseteq Claims
    BY <1>0, <2>1, <2>3 DEF Holders, Held, Claims, Holding
  <2>5. /\ curr_TID \notin Held /\ IsFiniteSet(Held) /\ Cardinality(Held) \in Nat
        /\ IsFiniteSet(Claims) /\ Cardinality(Claims) \in Nat
    BY <1>0, FiniteHolders DEF Held
  <2>6. Cardinality(Holders) = Cardinality(Held) + 1 /\ Cardinality(Holders') = Cardinality(Held)
    BY <2>4, <2>5, FS_AddElement
  <2>7. Cardinality(Claims') <= Cardinality(Claims) /\ Cardinality(Claims') \in Nat
    BY <2>4, <2>5, FS_Subset, FS_CardinalityType
  <2>8. val' + Cardinality(Holders') <= InitialValue /\ Cardinality(Claims') <= InitialValue
    BY <1>0, <2>2, <2>5, <2>6, <2>7 DEF Bounded
  <2> QED BY <2>8 DEF Bounded
<1> QED BY <1>2, <1>3, <1>4, <1>5

(* sem_init finds nobody inside, sem_destroy changes no count.              *)
LEMMA SetUpHolds ==
  ASSUME TInv, TInv', NInv, Bounded, SemInit \/ SemDestroy PROVE Bounded'
<1>0. TypeOK /\ TypeOK' /\ curr_TID \in Tid /\ InitialValue \in Nat /\ val \in Int
  BY Constants DEF TInv, SemTypeOK, TypeOK
<1>1. CASE SemInit
  <2>1. /\ UNCHANGED <<status, reg, curr_TID, cpu>> /\ val' = InitialValue /\ cpu.at = "user"
        /\ \A t \in Tid : reg[t].at # "crit"
    BY <1>1 DEF SemInit, At, vars, tcb, globals, flows, NInv, BeforeSemInit
  <2>2. Holders' = {} /\ Claims' = {}
    BY <1>0, <2>1 DEF Holders, Held, Claims, Holding
  <2>3. Cardinality(Holders') = 0 /\ Cardinality(Claims') = 0
    BY <2>2, FS_EmptySet
  <2> QED BY <1>0, <2>1, <2>3 DEF Bounded
<1>2. CASE SemDestroy
  <2>1. UNCHANGED <<status, reg, curr_TID, cpu, val>>
    BY <1>2 DEF SemDestroy, vars, tcb, globals, flows
  <2> QED BY <1>0, <2>1, SameHold DEF Claims
<1> QED BY <1>1, <1>2

(* Every step keeps the count.                                              *)
LEMMA CInvInductive ==
  /\ CallsUninterrupted /\ MainUsesNone
  /\ TInv /\ TInv' /\ NInv /\ LInv /\ LInv' /\ CInv /\ [SemNext]_allvars
  => CInv'
<1> SUFFICES ASSUME CallsUninterrupted, MainUsesNone, TInv, TInv', NInv, LInv, LInv', CInv,
                    [SemNext]_allvars, Running'
             PROVE  Bounded'
  BY DEF CInv
<1>1. Running /\ Layout /\ Layout' /\ Bounded /\ TypeOK /\ TypeOK' /\ val \in Int
  BY EndedStays DEF LInv, TInv, SemTypeOK, CInv
<1>2. CASE UNCHANGED allvars \/ (Terminated /\ UNCHANGED semvars)
  <2>1. UNCHANGED <<status, reg, curr_TID, cpu, val>>
    BY <1>2 DEF allvars, vars, tcb, globals, flows, semvars, semaphore, Terminated
  <2> QED BY <1>1, <2>1, SameHold DEF Claims
<1>3. CASE SemStep
  BY <1>1, <1>3, SetUpHolds, WaitHolds, PostHolds DEF SemStep
<1>4. CASE Library /\ UNCHANGED semvars
  BY <1>1, <1>4, LibraryHolds DEF semvars, semaphore
<1>5. CASE Alarm /\ UNCHANGED semvars
  BY <1>1, <1>5, AlarmHolds DEF semvars, semaphore
<1>6. CASE Calls /\ UNCHANGED semvars
  <2>1. CASE MainReturns
    BY <2>1 DEF MainReturns, Ends, Running
  <2>2. val' = val
    BY <1>6 DEF semvars, semaphore
  <2> QED BY <1>1, <1>6, <2>1, <2>2, CreateHolds, ExitHolds, JoinHolds DEF Calls
<1> QED BY <1>2, <1>3, <1>4, <1>5, <1>6 DEF SemNext

LEMMA CInvInitially == SemSetUp => CInv
<1> SUFFICES ASSUME SemSetUp PROVE Bounded
  BY DEF CInv
<1>1. Holders = {} /\ Claims = {} /\ val = 0 /\ InitialValue \in Nat
  BY Constants DEF SemSetUp, Init, Holders, Held, Claims, Holding
<1>2. Cardinality(Holders) = 0 /\ Cardinality(Claims) = 0
  BY <1>1, FS_EmptySet
<1> QED BY <1>1, <1>2 DEF Bounded

(* When alarms come only while the program runs, and main does not use the  *)
(* semaphore: a thread is under the mark its place in the library asks for, *)
(* each parked joiner is named by one thread in play, and the units on      *)
(* offer, held or claimed by a saved buffer never exceed what sem_init gave.*)
THEOREM UnitsInvariance ==
  CallsUninterrupted /\ MainUsesNone /\ SemSpec => [](TInv /\ NInv /\ LInv /\ DInv /\ CInv)
<1> DEFINE H == CallsUninterrupted /\ MainUsesNone
<1>1. SemSetUp => LInv /\ DInv /\ CInv
  BY LInvInitially, DInvInitially, CInvInitially
<1>2. CallsUninterrupted => SemUninterrupted
  BY DEF CallsUninterrupted, SemUninterrupted, SemLabels
<1>3. H /\ TInv /\ TInv' /\ NInv /\ LInv /\ DInv /\ CInv /\ [SemNext]_allvars => LInv' /\ DInv' /\ CInv'
  BY LInvInductive, DInvInductive, CInvInductive
<1>4. H => H'
  BY DEF CallsUninterrupted, MainUsesNone
<1> QED BY <1>1, <1>2, <1>3, <1>4, CallsInvariance, PTL DEF SemSpec

(* When alarms come only while the program runs, and main does not use the  *)
(* semaphore, no unit is made up and val never falls below zero, whatever   *)
(* the jumps of sem_post replay (337-355, 372-399).                         *)
THEOREM UnitsBoundedAlways ==
  CallsUninterrupted /\ MainUsesNone /\ SemSpec => []UnitsBounded
<1>1. TInv /\ NInv /\ CInv => UnitsBounded
  <2> SUFFICES ASSUME TInv, NInv, CInv, Running
               PROVE val >= 0 /\ val + Cardinality(Inside) <= InitialValue
    BY DEF UnitsBounded
  <2>1. TypeOK /\ val \in Int /\ Bounded /\ val >= 0 /\ InitialValue \in Nat
    BY Constants DEF TInv, SemTypeOK, CInv, NInv, QueueIdle
  <2>2. Inside \subseteq Holders
    BY <2>1 DEF Inside, Holders, Held, Holding, TypeOK
  <2>3. IsFiniteSet(Holders) /\ Cardinality(Holders) \in Nat
    BY <2>1, FiniteHolders
  <2>4. Cardinality(Inside) <= Cardinality(Holders) /\ Cardinality(Inside) \in Nat
    BY <2>2, <2>3, FS_Subset, FS_CardinalityType
  <2> QED BY <2>1, <2>3, <2>4 DEF Bounded
<1> QED BY <1>1, UnitsInvariance, PTL
=============================================================================
