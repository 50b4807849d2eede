--------------------------- MODULE ThreadsProofs ---------------------------
(***************************************************************************)
(* Proofs about Threads, for a table of any size and alarms at any set of   *)
(* points: the types, and that the library never loses track of who runs;   *)
(* then who waits for whom, and what follows for freed stacks, replayed     *)
(* calls and the count of threads.                                          *)
(***************************************************************************)
EXTENDS Threads, FiniteSetTheorems, TLAPS

(* Where scheduler() or setjmp may leave a thread to be resumed.            *)
SavedAt == {"none", "start", "user", "x1", "j1"} \cup ClientLabels

(* In the middle of a hand-off nobody is marked RUNNING: pthread_exit and   *)
(* pthread_join have unmarked the caller, and the next thread is not yet    *)
(* marked.  (A joiner at j1 may be: scheduler() marked it.)                 *)
NoneRunsInHandOff ==
  Running /\ cpu.at \in LibraryLabels \ {"j1"} => \A t \in Tid : status[t] # "RUNNING"

BuffersSaved == \A t \in Tid : reg[t].at \in SavedAt

(* The tail of pthread_exit knows whom to return to.                        *)
JoinerKnown ==
  Running /\ cpu.at \in {"k1", "x1", "x2", "x3", "x4", "x5"} => local[cpu.flow] # NoTid

(* curr_TID is ahead of the CPU only at the points about to longjmp.        *)
FlowIsCurr ==
  Running /\ cpu.at \notin {"e0", "e1", "k1", "x6"} => cpu.flow = curr_TID

MainIsNext == Running /\ cpu.at = "e1" => curr_TID = 0

(* Until the first pthread_create main is alone and the table is zero.      *)
BeforeFirstCall ==
  first_call => /\ curr_TID = 0
                /\ cpu.at \in {"user", "x6"}
                /\ \A t \in Tid : /\ status[t] # "RUNNING" /\ joining[t] = 0
                                  /\ stack[t] = "none" /\ reg[t].at = "none"

IInv ==
  /\ TypeOK
  /\ OnlyCurrRuns
  /\ ContextOwner
  /\ NoneRunsInHandOff
  /\ BuffersSaved
  /\ JoinerKnown
  /\ FlowIsCurr
  /\ MainIsNext
  /\ BeforeFirstCall
-----------------------------------------------------------------------------
(* longjmp to a saved buffer continues its flow, at the point it was saved. *)
(* It enters a waiting pthread_exit only with the number of a joiner.       *)
LEMMA ResumeFacts ==
  ASSUME TypeOK, NEW c \in Context, NEW v \in Tid \cup {NoTid},
         c.at \in SavedAt, Resume(c, v)
  PROVE  /\ cpu' \in [flow : Tid, at : Labels]
         /\ pos' \in [Tid -> Nat]
         /\ local' \in [Tid -> Tid \cup {NoTid}]
         /\ proc' \in {proc, "crashed"}
         /\ Running' => /\ cpu'.flow = c.flow
                        /\ cpu'.at \in {"user", "x1", "j1"} \cup ClientLabels
                        /\ cpu'.at = "x1" => v # NoTid /\ local'[c.flow] = v
<1>1. CASE c.at = "none" \/ (c.at = "x1" /\ v = NoTid)
  BY <1>1 DEF Resume, TypeOK, Running
<1>2. CASE ~(c.at = "none" \/ (c.at = "x1" /\ v = NoTid))
  <2>1. CASE proc' = "crashed" /\ UNCHANGED <<cpu, pos, local>>
    BY <2>1 DEF TypeOK, Running
  <2>2. CASE /\ cpu' = [flow |-> c.flow, at |-> IF c.at = "start" THEN "user" ELSE c.at]
             /\ \E p \in {c.pos} \cup (IF Stale(c) THEN {pos[c.flow]} ELSE {}) :
                  pos' = [pos EXCEPT ![c.flow] = p]
             /\ local' = IF c.at = "x1" THEN [local EXCEPT ![c.flow] = v] ELSE local
             /\ UNCHANGED proc
    <3>1. c.flow \in Tid /\ c.pos \in Nat
      BY DEF Context
    <3>2. pos' \in [Tid -> Nat]
      BY <2>2, <3>1 DEF TypeOK
    <3>3. local' \in [Tid -> Tid \cup {NoTid}]
      BY <2>2, <3>1 DEF TypeOK
    <3>4. c.at = "x1" => v # NoTid /\ local'[c.flow] = v
      BY <1>2, <2>2, <3>1 DEF TypeOK
    <3>5. cpu' \in [flow : Tid, at : Labels] /\ cpu'.flow = c.flow
      BY <1>2, <2>2, <3>1 DEF SavedAt, Labels, LibraryLabels
    <3>6. /\ cpu'.at \in {"user", "x1", "j1"} \cup ClientLabels
          /\ cpu'.at = "x1" => c.at = "x1"
      BY <1>2, <2>2 DEF SavedAt
    <3> QED BY <2>2, <3>2, <3>3, <3>4, <3>5, <3>6
  <2> QED BY <1>2, <2>1, <2>2 DEF Resume
<1> QED BY <1>1, <1>2

(* One run of the scheduler, whoever called it: it marks exactly the thread *)
(* it continues, and files the buffer it saves under the thread's number.   *)
SchedulerPost ==
  /\ status' \in [Tid -> Status]
  /\ reg' \in [Tid -> Context]
  /\ curr_TID' \in Tid
  /\ cpu' \in [flow : Tid, at : Labels]
  /\ pos' \in [Tid -> Nat]
  /\ local' \in [Tid -> Tid \cup {NoTid}]
  /\ proc' \in {proc, "crashed"}
  /\ OnlyCurrRuns'
  /\ ContextOwner'
  /\ NoneRunsInHandOff'
  /\ BuffersSaved'
  /\ JoinerKnown'
  /\ FlowIsCurr'
  /\ MainIsNext'

LEMMA SchedulerFacts ==
  ASSUME TypeOK, BuffersSaved, ContextOwner, 
         NEW st \in [Tid -> Status], NEW rg \in [Tid -> Context], NEW here \in Context,
         \A t \in Tid : st[t] = "RUNNING" => t = curr_TID,
         \A t \in Tid : rg[t].flow = t /\ rg[t].at \in SavedAt,
         st[curr_TID] = "RUNNING" => here.flow = curr_TID /\ here.at \in SavedAt,
         Scheduler(st, rg, here)
  PROVE  SchedulerPost
<1> DEFINE c == curr_TID
           rg1 == Saved(st, rg, c, here)
           st1 == Demoted(st, c)
<1>1. c \in Tid
  BY DEF TypeOK
<1>2. /\ rg1 \in [Tid -> Context]
      /\ \A t \in Tid : rg1[t].flow = t /\ rg1[t].at \in SavedAt
  BY <1>1 DEF Saved
<1>3. /\ st1 \in [Tid -> Status]
      /\ \A t \in Tid : st1[t] # "RUNNING"
  BY <1>1 DEF Demoted, Status
<1>4. CASE /\ proc' = "crashed"
           /\ UNCHANGED <<status, reg, curr_TID, cpu, pos, local>>
  <2>1. ContextOwner' /\ BuffersSaved'
    BY <1>4 DEF ContextOwner, BuffersSaved
  <2>2. ~Running'
    BY <1>4 DEF Running
  <2> QED
    BY <1>4, <2>1, <2>2 DEF SchedulerPost, TypeOK, OnlyCurrRuns, NoneRunsInHandOff,
       JoinerKnown, FlowIsCurr, MainIsNext
<1>5. ASSUME NEW n \in Tid,
             curr_TID' = n,
             status' = [st1 EXCEPT ![n] = "RUNNING"],
             reg' = rg1,
             Resume(rg1[n], NoTid)
      PROVE  SchedulerPost
  <2>1. rg1[n] \in Context /\ rg1[n].at \in SavedAt /\ rg1[n].flow = n
    BY <1>2
  <2>2. /\ cpu' \in [flow : Tid, at : Labels]
        /\ pos' \in [Tid -> Nat]
        /\ local' \in [Tid -> Tid \cup {NoTid}]
        /\ proc' \in {proc, "crashed"}
        /\ Running' => /\ cpu'.flow = n
                       /\ cpu'.at \in {"user", "j1"} \cup ClientLabels
    BY <1>5, <2>1, ResumeFacts
  <2>3. status' \in [Tid -> Status] /\ \A t \in Tid : status'[t] = "RUNNING" => t = n
    BY <1>3, <1>5 DEF Status
  <2>4. OnlyCurrRuns'
    BY <1>5, <2>3 DEF OnlyCurrRuns
  <2>5. reg' \in [Tid -> Context] /\ ContextOwner' /\ BuffersSaved'
    BY <1>2, <1>5 DEF ContextOwner, BuffersSaved
  <2>6. Running' => cpu'.at \notin LibraryLabels \ {"j1"}
    BY <2>2, ClientAssumption DEF LibraryLabels
  <2>7. NoneRunsInHandOff' /\ JoinerKnown' /\ MainIsNext'
    BY <2>6 DEF NoneRunsInHandOff, JoinerKnown, MainIsNext, LibraryLabels
  <2>8. FlowIsCurr'
    BY <1>5, <2>2 DEF FlowIsCurr
  <2> QED BY <1>5, <2>2, <2>3, <2>4, <2>5, <2>7, <2>8 DEF SchedulerPost
<1> HIDE DEF c, rg1, st1
<1> QED BY <1>4, <1>5 DEF Scheduler, c, rg1, st1

-----------------------------------------------------------------------------
(* The invariant, action by action *)

LEMMA InitIInv == Init => IInv
<1> SUFFICES ASSUME Init PROVE IInv
  OBVIOUS
<1>1. 0 \in Tid
  BY MaxAssumption DEF Tid
<1>2. TypeOK
  BY <1>1 DEF Init, TypeOK, Tid, NoTid, Status, Context, BufferLabels, Labels
<1> QED
  BY <1>1, <1>2 DEF Init, IInv, OnlyCurrRuns, ContextOwner, NoneRunsInHandOff, BuffersSaved,
     SavedAt, JoinerKnown, FlowIsCurr, MainIsNext, BeforeFirstCall, LibraryLabels

(* A process that ended keeps nothing of the invariant but the types and    *)
(* the table, which the last step left alone.                               *)
LEMMA EndsKeepsIInv == ASSUME IInv, NEW how \in {"exited", "crashed", "overrun", "masked"},
                              Ends(how)
                       PROVE  IInv'
<1>1. ~Running' /\ TypeOK'
  BY DEF Ends, IInv, TypeOK, Running, tcb, globals, flows
<1> QED
  BY <1>1 DEF Ends, IInv, tcb, globals, flows, OnlyCurrRuns, ContextOwner, NoneRunsInHandOff,
     BuffersSaved, JoinerKnown, FlowIsCurr, MainIsNext, BeforeFirstCall

(* Every action that runs the scheduler after the first call.               *)
LEMMA AfterScheduler ==
  ASSUME SchedulerPost, Running,
         joining' \in [Tid -> Tid \cup {NoTid}],
         target' \in [Tid -> Tid \cup {NoTid}],
         exitcode' \in [Tid -> Tid \cup {NoTid}],
         stack' \in [Tid -> {"none", "owned", "freed"}],
         total_threads' \in Int,
         first_call' \in BOOLEAN,
         ~first_call'
  PROVE  IInv'
<1>1. proc' \in {"running", "exited", "crashed", "overrun", "masked"}
  BY DEF SchedulerPost, Running
<1>2. TypeOK'
  BY <1>1 DEF SchedulerPost, TypeOK
<1> QED BY <1>2 DEF SchedulerPost, IInv, BeforeFirstCall

LEMMA AlarmKeepsIInv == ASSUME IInv, Alarm PROVE IInv'
<1>1. curr_TID \in Tid /\ status \in [Tid -> Status] /\ reg \in [Tid -> Context]
  BY DEF IInv, TypeOK
<1>2. Here(cpu.at) \in Context
  BY DEF Here, Context, BufferLabels, IInv, TypeOK
<1>3. \A t \in Tid : status[t] = "RUNNING" => t = curr_TID
  BY DEF Alarm, IInv, OnlyCurrRuns, Running
<1>4. ASSUME status[curr_TID] = "RUNNING"
      PROVE  Here(cpu.at).flow = curr_TID /\ Here(cpu.at).at \in SavedAt
  <2>1. cpu.at \notin LibraryLabels \ {"j1"}
    BY <1>1, <1>4 DEF Alarm, IInv, NoneRunsInHandOff, Running
  <2>2. cpu.at \in {"user", "j1"} \cup ClientLabels
    BY <2>1 DEF IInv, TypeOK, Labels
  <2>3. cpu.flow = curr_TID
    BY <2>1 DEF Alarm, IInv, FlowIsCurr, Running, LibraryLabels
  <2> QED BY <2>2, <2>3 DEF Here, SavedAt
<1>5. \A t \in Tid : reg[t].flow = t /\ reg[t].at \in SavedAt
  BY DEF IInv, ContextOwner, BuffersSaved
<1>6. SchedulerPost
  BY <1>1, <1>2, <1>3, <1>4, <1>5, SchedulerFacts DEF Alarm, IInv
<1> QED BY <1>6, AfterScheduler DEF Alarm, IInv, TypeOK, Running

LEMMA CreateKeepsIInv == ASSUME IInv, Create PROVE IInv'
<1>1. CASE Ends("masked") \/ Ends("overrun")
  BY <1>1, EndsKeepsIInv
<1>2. ASSUME NEW i \in Tid, CreateThread(i), At("user") PROVE IInv'
  <2>1. 0 \in Tid /\ cpu.flow \in Tid /\ curr_TID \in Tid
    BY MaxAssumption DEF Tid, IInv, TypeOK
  <2>2. /\ InitStatus \in [Tid -> Status]
        /\ \A t \in Tid : InitStatus[t] = "RUNNING" => t = curr_TID
    BY <1>2, <2>1 DEF InitStatus, IInv, TypeOK, Status, BeforeFirstCall, OnlyCurrRuns, Running, At
  <2>3. /\ InitReg \in [Tid -> Context]
        /\ \A t \in Tid : InitReg[t].flow = t /\ InitReg[t].at \in SavedAt
    BY <2>1 DEF InitReg, IInv, TypeOK, Context, BufferLabels, Labels, SavedAt, ContextOwner, BuffersSaved
  <2>4. TypeOK'
    <3>1. status' \in [Tid -> Status] /\ reg' \in [Tid -> Context]
      BY <1>2, <2>2, <2>3 DEF CreateThread, Status, Context, BufferLabels
    <3>2. /\ joining' \in [Tid -> Tid \cup {NoTid}]
          /\ stack' \in [Tid -> {"none", "owned", "freed"}]
          /\ total_threads' \in Int
          /\ pos' \in [Tid -> Nat]
      BY <1>2, <2>1 DEF CreateThread, IInv, TypeOK, InitTotal
    <3> QED BY <1>2, <3>1, <3>2 DEF CreateThread, IInv, TypeOK
  <2>5. OnlyCurrRuns'
    BY <1>2, <2>2 DEF CreateThread, OnlyCurrRuns
  <2>6. ContextOwner' /\ BuffersSaved'
    BY <1>2, <2>3 DEF CreateThread, ContextOwner, BuffersSaved, SavedAt, Context
  <2>7. NoneRunsInHandOff' /\ JoinerKnown' /\ FlowIsCurr' /\ MainIsNext'
    BY <1>2 DEF CreateThread, IInv, At, NoneRunsInHandOff, JoinerKnown, FlowIsCurr, MainIsNext,
       LibraryLabels, Running
  <2> QED BY <1>2, <2>4, <2>5, <2>6, <2>7 DEF IInv, BeforeFirstCall, CreateThread
<1> QED BY <1>1, <1>2 DEF Create

LEMMA ExitKeepsIInv == ASSUME IInv, Exit PROVE IInv'
<1> DEFINE c == curr_TID
<1>0. /\ Running /\ cpu.at = "user" /\ cpu.flow = c /\ c \in Tid /\ cpu.flow \in Tid
      /\ status \in [Tid -> Status] /\ reg \in [Tid -> Context]
  BY DEF Exit, At, IInv, TypeOK, FlowIsCurr, Running
<1>1. CASE ExitToJoiner
  <2>1. TypeOK'
    BY <1>0, <1>1 DEF ExitToJoiner, Goto, IInv, TypeOK, Labels, LibraryLabels, Status
  <2>2. OnlyCurrRuns' /\ NoneRunsInHandOff'
    BY <1>0, <1>1 DEF ExitToJoiner, IInv, OnlyCurrRuns, NoneRunsInHandOff, Running
  <2>3. ContextOwner' /\ BuffersSaved'
    BY <1>1 DEF ExitToJoiner, IInv, ContextOwner, BuffersSaved
  <2>4. JoinerKnown' /\ FlowIsCurr' /\ MainIsNext'
    BY <1>0, <1>1 DEF ExitToJoiner, Goto, JoinerKnown, FlowIsCurr, MainIsNext, IInv, TypeOK
  <2>5. BeforeFirstCall'
    BY <1>0, <1>1 DEF ExitToJoiner, Goto, BeforeFirstCall, IInv, TypeOK
  <2> QED BY <2>1, <2>2, <2>3, <2>4, <2>5 DEF IInv
<1>2. CASE ExitToWait
  <2> DEFINE st == [status EXCEPT ![c] = "WAITING"]
             rg == [reg EXCEPT ![c] = Here("x1")]
  <2>1. ~first_call
    <3>1. joining[c] = -1
      BY <1>2 DEF ExitToWait, NoTid
    <3> QED BY <1>0, <3>1 DEF IInv, BeforeFirstCall
  <2>2. Here("x1") \in Context /\ Here("user") \in Context
    BY <1>0 DEF Here, Context, BufferLabels, Labels, LibraryLabels, IInv, TypeOK
  <2>3. st \in [Tid -> Status] /\ rg \in [Tid -> Context]
    BY <1>0, <2>2 DEF Status
  <2>4. \A t \in Tid : st[t] # "RUNNING"
    BY <1>0 DEF IInv, OnlyCurrRuns
  <2>5. \A t \in Tid : rg[t].flow = t /\ rg[t].at \in SavedAt
    BY <1>0 DEF IInv, ContextOwner, BuffersSaved, Here, SavedAt
  <2>6. CASE NoneReady(st)
    <3>1. /\ status' = st /\ reg' = rg /\ cpu' = [cpu EXCEPT !.at = "e0"]
          /\ UNCHANGED <<curr_TID, pos, local, proc>>
          /\ UNCHANGED <<joining, exitcode, stack, total_threads, first_call, target>>
      BY <1>2, <2>6 DEF ExitToWait, Goto
    <3> HIDE DEF st, rg
    <3>2. TypeOK'
      BY <2>3, <3>1 DEF IInv, TypeOK, Labels, LibraryLabels
    <3>3. cpu'.at = "e0"
      BY <3>1 DEF IInv, TypeOK
    <3>4. OnlyCurrRuns' /\ NoneRunsInHandOff' /\ ContextOwner' /\ BuffersSaved'
      BY <2>4, <2>5, <3>1 DEF OnlyCurrRuns, NoneRunsInHandOff, ContextOwner, BuffersSaved
    <3>5. JoinerKnown' /\ FlowIsCurr' /\ MainIsNext' /\ BeforeFirstCall'
      BY <2>1, <3>1, <3>3 DEF JoinerKnown, FlowIsCurr, MainIsNext, BeforeFirstCall
    <3> QED BY <3>2, <3>4, <3>5 DEF IInv
  <2>7. CASE ~NoneReady(st)
    <3>1. Scheduler(st, rg, Here("user"))
      BY <1>2, <2>7 DEF ExitToWait
    <3> HIDE DEF st, rg
    <3>2. SchedulerPost
      BY <1>0, <2>2, <2>3, <2>4, <2>5, <3>1, SchedulerFacts DEF IInv
    <3> QED BY <1>0, <1>2, <2>1, <3>2, AfterScheduler DEF ExitToWait, IInv, TypeOK
  <2> QED BY <2>6, <2>7
<1> QED BY <1>1, <1>2 DEF Exit

(* Steps that move only the flow, or one field, in the midst of a hand-off. *)
LEMMA ToMain0KeepsIInv == ASSUME IInv, ExitToMain0 PROVE IInv'
<1> USE DEF ExitToMain0, At, Goto, tcb, IInv
<1>0. 0 \in Tid
  BY MaxAssumption DEF Tid
<1>1. TypeOK' /\ cpu'.at = "e1"
  <2>1. cpu' \in [flow : Tid, at : Labels] /\ cpu'.at = "e1"
    BY DEF TypeOK, Labels, LibraryLabels
  <2> QED BY <1>0, <2>1 DEF TypeOK
<1>2. OnlyCurrRuns' /\ NoneRunsInHandOff'
  BY DEF OnlyCurrRuns, NoneRunsInHandOff, Running, LibraryLabels
<1>3. ContextOwner' /\ BuffersSaved'
  BY DEF ContextOwner, BuffersSaved
<1>4. JoinerKnown' /\ FlowIsCurr' /\ MainIsNext' /\ BeforeFirstCall'
  BY <1>1 DEF JoinerKnown, FlowIsCurr, MainIsNext, BeforeFirstCall
<1> QED BY <1>1, <1>2, <1>3, <1>4

(* A longjmp that ends a hand-off: the table does not change.               *)
LEMMA ResumeKeepsIInv ==
  ASSUME IInv, Running, cpu.at \in {"e1", "k1", "x6"},
         NEW v \in Tid \cup {NoTid},
         Resume(reg[curr_TID], v), UNCHANGED <<tcb, globals, target>>
  PROVE  IInv'
<1>0. curr_TID \in Tid /\ reg[curr_TID] \in Context /\ reg[curr_TID].flow = curr_TID
      /\ reg[curr_TID].at \in SavedAt
  BY DEF IInv, TypeOK, ContextOwner, BuffersSaved
<1>1. /\ cpu' \in [flow : Tid, at : Labels]
      /\ pos' \in [Tid -> Nat]
      /\ local' \in [Tid -> Tid \cup {NoTid}]
      /\ proc' \in {proc, "crashed"}
      /\ Running' => /\ cpu'.flow = curr_TID
                     /\ cpu'.at \in {"user", "x1", "j1"} \cup ClientLabels
                     /\ cpu'.at = "x1" => v # NoTid /\ local'[curr_TID] = v
  BY <1>0, ResumeFacts DEF IInv
<1>2. \A t \in Tid : status[t] # "RUNNING"
  BY DEF IInv, NoneRunsInHandOff, LibraryLabels
<1>3. TypeOK'
  BY <1>1 DEF IInv, TypeOK, tcb, globals, Running
<1>4. /\ OnlyCurrRuns' /\ NoneRunsInHandOff' /\ ContextOwner' /\ BuffersSaved'
  BY <1>2 DEF IInv, OnlyCurrRuns, NoneRunsInHandOff, ContextOwner, BuffersSaved, tcb
<1>5. JoinerKnown' /\ FlowIsCurr' /\ MainIsNext'
  BY <1>1, ClientAssumption DEF JoinerKnown, FlowIsCurr, MainIsNext, globals, LibraryLabels
<1>6. BeforeFirstCall'
  <2>1. first_call => cpu' = cpu
    BY <1>0 DEF Resume, IInv, BeforeFirstCall
  <2> QED BY <2>1 DEF IInv, BeforeFirstCall, tcb, globals
<1> QED BY <1>3, <1>4, <1>5, <1>6 DEF IInv

LEMMA JumpsKeepIInv == ASSUME IInv, ExitToMain1 \/ Tail6 \/ JoinJumps PROVE IInv'
<1>0. NoTid \in Tid \cup {NoTid} /\ local[cpu.flow] \in Tid \cup {NoTid}
  BY DEF IInv, TypeOK
<1>1. CASE ExitToMain1
  BY <1>0, <1>1, ResumeKeepsIInv DEF ExitToMain1, At, Running, IInv, MainIsNext
<1>2. CASE Tail6
  BY <1>0, <1>2, ResumeKeepsIInv DEF Tail6, At, Running
<1>3. CASE JoinJumps
  BY <1>0, <1>3, ResumeKeepsIInv DEF JoinJumps, At, Running
<1> QED BY <1>1, <1>2, <1>3

(* The tail of pthread_exit for a joined thread, store by store.            *)
LEMMA TailKeepsIInv ==
  ASSUME IInv, Tail1 \/ Tail2 \/ Tail3 \/ Tail4 \/ Tail5 PROVE IInv'
<1>0. /\ curr_TID \in Tid /\ cpu.flow \in Tid
      /\ \A l \in Labels : [cpu EXCEPT !.at = l] \in [flow : Tid, at : Labels]
      /\ \A l \in Labels : /\ [cpu EXCEPT !.at = l].at = l
                          /\ [cpu EXCEPT !.at = l].flow = cpu.flow
  BY DEF IInv, TypeOK
<1>1. {"x1", "x2", "x3", "x4", "x5", "x6"} \subseteq Labels
  BY DEF Labels, LibraryLabels
<1>2. /\ Running /\ ~first_call
      /\ cpu.at \in {"x1", "x2", "x3", "x4", "x5"}
      /\ cpu.flow = curr_TID /\ local[cpu.flow] \in Tid
      /\ \A t \in Tid : status[t] # "RUNNING"
  BY <1>0 DEF Tail1, Tail2, Tail3, Tail4, Tail5, At, IInv, TypeOK, Running, FlowIsCurr, JoinerKnown,
     NoneRunsInHandOff, LibraryLabels, BeforeFirstCall
<1>3. CASE Tail2 /\ Ends("crashed")
  BY <1>3, EndsKeepsIInv
<1>4. ASSUME NEW l \in {"x2", "x3", "x4", "x5", "x6"}, Goto(l),
             status' \in [Tid -> Status], \A t \in Tid : status'[t] # "RUNNING",
             exitcode' \in [Tid -> Tid \cup {NoTid}],
             stack' \in [Tid -> {"none", "owned", "freed"}],
             curr_TID' \in Tid, l # "x6" => curr_TID' = curr_TID,
             total_threads' \in Int,
             UNCHANGED <<joining, reg, first_call, pos, target, local, proc>>
      PROVE  IInv'
  <2>1. cpu' \in [flow : Tid, at : Labels] /\ cpu'.at = l /\ cpu'.flow = cpu.flow
    BY <1>0, <1>1, <1>4 DEF Goto
  <2>2. TypeOK'
    BY <1>4, <2>1 DEF IInv, TypeOK
  <2>3. OnlyCurrRuns' /\ NoneRunsInHandOff' /\ ContextOwner' /\ BuffersSaved'
    BY <1>4 DEF IInv, OnlyCurrRuns, NoneRunsInHandOff, ContextOwner, BuffersSaved
  <2>4. JoinerKnown' /\ FlowIsCurr' /\ MainIsNext' /\ BeforeFirstCall'
    BY <1>2, <1>4, <2>1 DEF JoinerKnown, FlowIsCurr, MainIsNext, BeforeFirstCall, NoTid, Tid
  <2> QED BY <2>2, <2>3, <2>4 DEF IInv
<1> USE DEF tcb, globals, IInv, TypeOK
<1>5. CASE Tail1
  <2>1. /\ status' \in [Tid -> Status]
        /\ \A t \in Tid : status'[t] # "RUNNING"
        /\ Goto("x2") \/ Goto("x4")
    BY <1>0, <1>2, <1>5 DEF Tail1, Status
  <2> QED BY <1>4, <1>5, <2>1 DEF Tail1
<1>6. CASE Tail2 /\ ~Ends("crashed")
  <2>1. stack' = [stack EXCEPT ![curr_TID] = IF @ = "owned" THEN "freed" ELSE @]
        /\ Goto("x3")
        /\ UNCHANGED <<status, joining, exitcode, reg, globals, pos, target, local, proc>>
    BY <1>6 DEF Tail2
  <2> QED BY <1>0, <1>2, <1>4, <2>1
<1>7. CASE Tail3
  BY <1>2, <1>4, <1>7 DEF Tail3
<1>8. CASE Tail4
  BY <1>0, <1>2, <1>4, <1>8 DEF Tail4
<1>9. CASE Tail5
  BY <1>2, <1>4, <1>9 DEF Tail5
<1> QED BY <1>3, <1>5, <1>6, <1>7, <1>8, <1>9

LEMMA JoinKeepsIInv == ASSUME IInv, NEW t \in Tid, Join(t) PROVE IInv'
<1> DEFINE c == curr_TID
           st == [status EXCEPT ![c] = "BLOCKED"]
           rg == [reg EXCEPT ![c] = Here("j1")]
<1>0. /\ Running /\ cpu.at = "user" /\ cpu.flow = c /\ c \in Tid
      /\ status \in [Tid -> Status] /\ reg \in [Tid -> Context]
      /\ ~first_call
  BY DEF Join, Joinable, Created, At, IInv, TypeOK, FlowIsCurr, Running, BeforeFirstCall
<1>1. Here("j1") \in Context /\ Here("user") \in Context
  BY <1>0 DEF Here, Context, BufferLabels, Labels, LibraryLabels, IInv, TypeOK
<1>2. /\ st \in [Tid -> Status] /\ rg \in [Tid -> Context]
      /\ \A u \in Tid : st[u] # "RUNNING"
      /\ \A u \in Tid : rg[u].flow = u /\ rg[u].at \in SavedAt
  BY <1>0, <1>1 DEF Status, IInv, OnlyCurrRuns, ContextOwner, BuffersSaved, Here, SavedAt
<1>3. CASE JoinReturnsAtOnce(t)
  <2>1. TypeOK'
    BY <1>0, <1>3 DEF JoinReturnsAtOnce, IInv, TypeOK, tcb, globals
  <2> QED
    BY <1>3, <2>1 DEF JoinReturnsAtOnce, IInv, tcb, globals, OnlyCurrRuns, ContextOwner,
       NoneRunsInHandOff, BuffersSaved, JoinerKnown, FlowIsCurr, MainIsNext, BeforeFirstCall, Running
<1>4. CASE JoinEnters(t)
  <2>1. /\ status' = st /\ reg' = rg /\ curr_TID' = t
        /\ target' = [target EXCEPT ![c] = t] /\ local' = [local EXCEPT ![c] = c]
        /\ cpu' = [cpu EXCEPT !.at = "k1"]
        /\ UNCHANGED <<joining, exitcode, stack, total_threads, first_call, pos, proc>>
    BY <1>0, <1>4 DEF JoinEnters, Goto
  <2> HIDE DEF st, rg
  <2>2. cpu' \in [flow : Tid, at : Labels] /\ cpu'.at = "k1" /\ cpu'.flow = c
    BY <1>0, <2>1 DEF IInv, TypeOK, Labels, LibraryLabels
  <2>3. TypeOK' /\ local'[c] = c
    BY <1>0, <1>2, <2>1, <2>2 DEF IInv, TypeOK
  <2>4. OnlyCurrRuns' /\ NoneRunsInHandOff' /\ ContextOwner' /\ BuffersSaved'
    BY <1>2, <2>1 DEF OnlyCurrRuns, NoneRunsInHandOff, ContextOwner, BuffersSaved
  <2>5. JoinerKnown' /\ FlowIsCurr' /\ MainIsNext' /\ BeforeFirstCall'
    BY <1>0, <2>1, <2>2, <2>3 DEF JoinerKnown, FlowIsCurr, MainIsNext, BeforeFirstCall, NoTid, Tid
  <2> QED BY <2>3, <2>4, <2>5 DEF IInv
<1>5. CASE JoinBlocks(t)
  <2>1. Scheduler(st, rg, Here("user"))
    BY <1>5 DEF JoinBlocks
  <2>2. /\ joining' \in [Tid -> Tid \cup {NoTid}]
        /\ target' \in [Tid -> Tid \cup {NoTid}]
        /\ UNCHANGED <<exitcode, stack, total_threads, first_call>>
    BY <1>0, <1>5 DEF JoinBlocks, Noted, IInv, TypeOK
  <2> HIDE DEF st, rg
  <2>3. SchedulerPost
    BY <1>0, <1>1, <1>2, <2>1, SchedulerFacts DEF IInv
  <2> QED BY <1>0, <2>2, <2>3, AfterScheduler DEF IInv, TypeOK
<1> QED BY <1>3, <1>4, <1>5 DEF Join

LEMMA JoinReturnsKeepsIInv == ASSUME IInv, JoinReturns PROVE IInv'
<1>0. /\ Running /\ cpu.at = "j1" /\ cpu.flow = curr_TID /\ curr_TID \in Tid
      /\ ~first_call
  BY DEF JoinReturns, At, IInv, TypeOK, FlowIsCurr, Running, BeforeFirstCall
<1>1. cpu' \in [flow : Tid, at : Labels] /\ cpu'.at = "user" /\ cpu'.flow = cpu.flow
  BY DEF JoinReturns, Goto, IInv, TypeOK, Labels
<1>2. TypeOK'
  BY <1>0, <1>1 DEF JoinReturns, IInv, TypeOK, globals, Status
<1>3. OnlyCurrRuns' /\ ContextOwner' /\ BuffersSaved'
  BY <1>0 DEF JoinReturns, IInv, TypeOK, OnlyCurrRuns, ContextOwner, BuffersSaved, globals
<1>4. NoneRunsInHandOff' /\ JoinerKnown' /\ FlowIsCurr' /\ MainIsNext' /\ BeforeFirstCall'
  BY <1>0, <1>1 DEF JoinReturns, NoneRunsInHandOff, JoinerKnown, FlowIsCurr, MainIsNext,
     BeforeFirstCall, LibraryLabels, globals
<1> QED BY <1>2, <1>3, <1>4 DEF IInv

-----------------------------------------------------------------------------
(* Every step keeps the invariant. *)
LEMMA NextKeepsIInv == IInv /\ [Next]_vars => IInv'
<1> SUFFICES ASSUME IInv, [Next]_vars PROVE IInv'
  OBVIOUS
<1>1. CASE Create
  BY <1>1, CreateKeepsIInv
<1>2. CASE Exit
  BY <1>2, ExitKeepsIInv
<1>3. ASSUME NEW t \in Tid, Join(t) PROVE IInv'
  BY <1>3, JoinKeepsIInv
<1>4. CASE MainReturns
  BY <1>4, EndsKeepsIInv DEF MainReturns
<1>5. CASE Library
  BY <1>5, ToMain0KeepsIInv, JumpsKeepIInv, TailKeepsIInv, JoinReturnsKeepsIInv DEF Library
<1>6. CASE Alarm
  BY <1>6, AlarmKeepsIInv
<1>7. CASE UNCHANGED vars
  BY <1>7 DEF IInv, TypeOK, OnlyCurrRuns, ContextOwner, NoneRunsInHandOff, BuffersSaved, JoinerKnown,
     FlowIsCurr, MainIsNext, BeforeFirstCall, Running, vars, tcb, globals, flows
<1> QED
  BY <1>1, <1>2, <1>3, <1>4, <1>5, <1>6, <1>7 DEF Next, Calls, Terminated

THEOREM Invariance == Spec => []IInv
<1>1. Init => IInv
  BY InitIInv
<1>2. IInv /\ [Next]_vars => IInv'
  BY NextKeepsIInv
<1> QED BY <1>1, <1>2, PTL DEF Spec

(* Every field keeps its type: curr_TID always indexes the table, and so    *)
(* does every thread number the library stores (threads.c:26-32).           *)
THEOREM TypeCorrect == Spec => []TypeOK
<1>1. IInv => TypeOK
  BY DEF IInv
<1> QED BY <1>1, Invariance, PTL

(* At most one thread is marked RUNNING, and it is curr_TID: what           *)
(* scheduler() relies on to save and demote one thread only (43-48).        *)
THEOREM OnlyCurrRunsAlways == Spec => []OnlyCurrRuns
<1>1. IInv => OnlyCurrRuns
  BY DEF IInv
<1> QED BY <1>1, Invariance, PTL

(* A program always runs as the thread pthread_self() says it is (241-244). *)
THEOREM RunsAsItselfAlways == Spec => []RunsAsItself
<1>1. IInv => RunsAsItself
  BY DEF IInv, FlowIsCurr, RunsAsItself, At, Running
<1> QED BY <1>1, Invariance, PTL

(* A thread's buffer always holds that thread's own context (47, 185, 272). *)
THEOREM ContextOwnerAlways == Spec => []ContextOwner
<1>1. IInv => ContextOwner
  BY DEF IInv
<1> QED BY <1>1, Invariance, PTL

-----------------------------------------------------------------------------
(* Joins: who waits for whom                                                *)

(* The first predicates take the statuses st, the buffers rg, the targets   *)
(* tg, the notes jn and the number c of the thread that runs as arguments,  *)
(* since an action changes some of them before it calls scheduler().        *)
Ended == {"WAITING", "EXITED"}

(* Only a thread in pthread_join has a target, later than itself.           *)
Targets(st, rg, tg, jn) ==
  \A s \in Tid :
    /\ tg[s] # NoTid =>
         /\ s < tg[s] /\ rg[s].at = "j1" /\ st[s] \in {"BLOCKED", "READY", "RUNNING"}
         /\ st[tg[s]] # "FRESH"
         /\ st[tg[s]] \notin Ended => jn[tg[s]] = s
    /\ st[s] = "BLOCKED" => tg[s] # NoTid
    /\ st[s] = "READY" /\ rg[s].at = "j1" => tg[s] # NoTid
    /\ st[s] = "WAITING" => rg[s].at = "x1"
OneJoiner(tg) == \A s, u \in Tid : tg[s] # NoTid /\ tg[s] = tg[u] => s = u

(* Threads that will never move again: each has ended, or is blocked for    *)
(* another of them, or was lost on the way to the thread that joined it.    *)
DeadSet(st, tg, c, D) ==
  /\ 0 \notin D /\ c \notin D
  /\ \A x \in D : \/ st[x] = "EXITED"
                  \/ st[x] = "BLOCKED" /\ tg[x] \in D
                  \/ st[x] = "WAITING" /\ \E s \in D : tg[s] = x
Dead(st, tg, c, w) == \E D \in SUBSET Tid : w \in D /\ DeadSet(st, tg, c, D)

(* The note in a thread's "joining" names the thread that waits for it; if  *)
(* that one went on without it, the thread is dead.                         *)
Notes(st, tg, jn, c) ==
  \A w \in Tid : jn[w] # NoTid =>
    /\ st[w] \notin {"WAITING", "FRESH"}
    /\ st[w] = "EXITED" \/ tg[jn[w]] = w \/ Dead(st, tg, c, w)
Returning(st, tg, c) ==
  \A s \in Tid : tg[s] # NoTid /\ st[s] # "BLOCKED" =>
    st[tg[s]] \in Ended \/ Dead(st, tg, c, tg[s])

JoinsRight(st, rg, tg, jn, c) ==
  Targets(st, rg, tg, jn) /\ OneJoiner(tg) /\ Notes(st, tg, jn, c) /\ Returning(st, tg, c)

(* The buffer of a thread that does not run is up to date.                  *)
Fresh(st, rg, ps) ==
  \A t \in Tid \ {0} :
    /\ st[t] = "FRESH" => ps[t] = 0
    /\ st[t] \in {"READY", "BLOCKED", "WAITING"} => rg[t].pos = ps[t]

(* Where the CPU is, and in what state the thread is that the library takes *)
(* to be running there.                                                     *)
UserMarked ==
  cpu.at \notin LibraryLabels =>
    /\ target[cpu.flow] = NoTid
    /\ cpu.flow # 0 => status[cpu.flow] = "RUNNING"
NobodyReady == cpu.at \in {"e0", "e1"} => \A t \in Tid \ {0} : status[t] # "READY"
WaiterKnown == cpu.at = "e0" => status[curr_TID] = "WAITING"
JoinerEntered ==
  cpu.at \in {"k1", "x1", "x2", "x3", "x4", "x5"} =>
    /\ target[local[cpu.flow]] = curr_TID /\ status[local[cpu.flow]] = "BLOCKED"
    /\ reg[curr_TID].at = "x1"
    /\ status[curr_TID] = IF cpu.at \in {"k1", "x1"} THEN "WAITING" ELSE "EXITED"
JoinerNext ==
  cpu.at = "x6" /\ ~first_call =>
    /\ status[curr_TID] = "BLOCKED" /\ target[curr_TID] # NoTid
    /\ status[target[curr_TID]] = "EXITED"
JoinerBack ==
  cpu.at = "j1" =>
    /\ target[curr_TID] # NoTid
    /\ \/ status[target[curr_TID]] \in Ended
       \/ Dead(status, target, curr_TID, target[curr_TID])

CpuRight ==
  UserMarked /\ NobodyReady /\ WaiterKnown /\ JoinerEntered /\ JoinerNext /\ JoinerBack

FreedHasExited == \A t \in Tid : stack[t] = "freed" => status[t] = "EXITED"
CreatedTaken == ~first_call => \A t \in Tid : stack[t] # "none" => status[t] # "FRESH"
MainStays ==
  /\ stack[0] = "none"
  /\ ~first_call => status[0] \notin {"FRESH", "EXITED"} /\ joining[0] = NoTid
StacksRight == FreedHasExited /\ CreatedTaken /\ MainStays

(* Every thread in use is counted, and so may one be that is about to leave *)
(* the count, or that an alarm kept from leaving it.                        *)
Taken == {t \in Tid : status[t] # "FRESH"}
Uncounting == IF cpu.at \in {"x2", "x3"} THEN 1 ELSE 0
CountFits ==
  ~first_call => /\ Cardinality(Live) + Uncounting <= total_threads
                 /\ total_threads <= Cardinality(Taken)

NothingYet ==
  first_call => /\ \A t \in Tid : target[t] = NoTid
                /\ \A t \in Tid \ {0} : pos[t] = 0
                /\ cpu.at = "user" => total_threads = 0

JInv ==
  Running => /\ ~first_call => /\ JoinsRight(status, reg, target, joining, curr_TID)
                               /\ Fresh(status, reg, pos)
             /\ CpuRight /\ StacksRight /\ CountFits /\ NothingYet

-----------------------------------------------------------------------------
(* Dead threads *)

(* Once the threads after s can no longer be chosen, each of them that is   *)
(* blocked or has exited will never move again.                             *)
LEMMA NoneLeft ==
  ASSUME NEW st \in [Tid -> Status], NEW rg, NEW tg \in [Tid -> Tid \cup {NoTid}], NEW jn,
         Targets(st, rg, tg, jn),
         NEW s \in Tid, \A x \in Tid : x > s => st[x] \notin {"READY", "RUNNING"},
         NEW w \in Tid, w > s, st[w] \notin {"FRESH", "WAITING"}
  PROVE  Dead(st, tg, s, w)
<1> DEFINE D == {x \in Tid : /\ x > s
                             /\ \/ st[x] \in {"BLOCKED", "EXITED"}
                                \/ st[x] = "WAITING"
                                   /\ \E y \in Tid : y > s /\ st[y] = "BLOCKED" /\ tg[y] = x}
<1>1. w \in D /\ D \subseteq Tid /\ 0 \notin D /\ s \notin D
  BY DEF Status, Tid
<1>2. ASSUME NEW x \in D, st[x] = "BLOCKED" PROVE tg[x] \in D
  <2>1. x \in Tid /\ x > s
    OBVIOUS
  <2>2. tg[x] \in Tid /\ x < tg[x] /\ st[tg[x]] # "FRESH"
    BY <1>2, <2>1 DEF Targets
  <2>3. tg[x] > s
    BY <2>1, <2>2 DEF Tid
  <2>4. st[tg[x]] \in {"BLOCKED", "EXITED", "WAITING"}
    BY <2>2, <2>3 DEF Status
  <2> QED BY <1>2, <2>1, <2>2, <2>3, <2>4
<1>3. ASSUME NEW x \in D, st[x] = "WAITING" PROVE \E y \in D : tg[y] = x
  <2>1. PICK y \in Tid : y > s /\ st[y] = "BLOCKED" /\ tg[y] = x
    BY <1>3
  <2> QED BY <2>1
<1>4. \A x \in D : st[x] \in {"EXITED", "BLOCKED", "WAITING"}
  OBVIOUS
<1> HIDE DEF D
<1>5. DeadSet(st, tg, s, D)
  BY <1>1, <1>2, <1>3, <1>4 DEF DeadSet
<1> QED BY <1>1, <1>5 DEF Dead

(* A dead thread stays dead in every step that leaves the dead alone.       *)
LEMMA StaysDead ==
  ASSUME NEW st, NEW tg, NEW c, NEW st2, NEW tg2, NEW d,
         \A D \in SUBSET Tid : DeadSet(st, tg, c, D) =>
           d \notin D /\ \A x \in D : st2[x] = st[x] /\ tg2[x] = tg[x],
         NEW w, Dead(st, tg, c, w)
  PROVE  Dead(st2, tg2, d, w)
<1>1. PICK D \in SUBSET Tid : w \in D /\ DeadSet(st, tg, c, D)
  BY DEF Dead
<1>2. DeadSet(st2, tg2, d, D)
  BY <1>1 DEF DeadSet
<1> QED BY <1>1, <1>2 DEF Dead

(* What a dead thread is not.                                               *)
LEMMA DeadStatus ==
  ASSUME NEW st, NEW tg, NEW c, NEW D \in SUBSET Tid, DeadSet(st, tg, c, D), NEW x \in D
  PROVE  st[x] \in {"EXITED", "BLOCKED", "WAITING"} /\ x # c /\ x # 0
BY DEF DeadSet

-----------------------------------------------------------------------------
(* The scheduler *)

(* What a run of the scheduler from the statuses st, with the targets tg    *)
(* and the notes jn, leaves behind if the process goes on.                  *)
SwitchPost(st, tg, jn) ==
  /\ JoinsRight(status', reg', tg, jn, curr_TID')
  /\ Fresh(status', reg', pos')
  /\ \A t \in Tid \ {0} : pos'[t] = pos[t]
  /\ \A t \in Tid : (status'[t] = "FRESH" <=> st[t] = "FRESH")
                    /\ (status'[t] = "EXITED" <=> st[t] = "EXITED")
                    /\ (status'[t] = "WAITING" <=> st[t] = "WAITING")
  /\ cpu'.flow = curr_TID' /\ status'[curr_TID'] = "RUNNING"
  /\ cpu'.at \in {"user", "j1"} \cup ClientLabels
  /\ cpu'.at = "j1" <=> tg[curr_TID'] # NoTid

NotReplayed == \A t \in Tid \ {0} : pos'[t] >= pos[t]

(* longjmp to an up-to-date buffer does nothing again.                      *)
LEMMA ResumeFresh ==
  ASSUME TypeOK, NEW c \in Context, NEW v, c.at \in SavedAt, Resume(c, v), Running',
         c.flow # 0 => c.pos = pos[c.flow]
  PROVE  /\ \A t \in Tid \ {0} : pos'[t] = pos[t]
         /\ c.at # "none" /\ (c.at = "x1" => v # NoTid /\ local'[c.flow] = v)
         /\ cpu'.flow = c.flow
         /\ cpu'.at = IF c.at = "start" THEN "user" ELSE c.at
<1>1. ~(c.at = "none" \/ (c.at = "x1" /\ v = NoTid)) /\ proc' # "crashed"
  BY DEF Resume, Running
<1>2. /\ cpu' = [flow |-> c.flow, at |-> IF c.at = "start" THEN "user" ELSE c.at]
      /\ \E p \in {c.pos} \cup (IF Stale(c) THEN {pos[c.flow]} ELSE {}) :
           pos' = [pos EXCEPT ![c.flow] = p]
      /\ local' = IF c.at = "x1" THEN [local EXCEPT ![c.flow] = v] ELSE local
  BY <1>1 DEF Resume
<1>3. c.flow \in Tid /\ pos \in [Tid -> Nat] /\ local \in [Tid -> Tid \cup {NoTid}]
  BY DEF Context, TypeOK
<1>4. PICK p \in {c.pos, pos[c.flow]} : pos' = [pos EXCEPT ![c.flow] = p]
  BY <1>2
<1>5. \A t \in Tid \ {0} : pos'[t] = pos[t]
  BY <1>3, <1>4
<1>6. c.at = "x1" => local'[c.flow] = v
  BY <1>2, <1>3
<1> QED BY <1>1, <1>2, <1>5, <1>6

(* The thread that the scheduler picks is one it may pick.                  *)
LEMMA NextIsReady ==
  ASSUME NEW st \in [Tid -> Status], NEW c \in Tid, NEW n \in Tid, IsNext(st, c, n)
  PROVE  \/ st[n] = "READY"
         \/ n = c /\ \A t \in Scanned(c) : st[t] # "READY"
<1>0. Scanned(c) \subseteq Tid
  BY MaxAssumption DEF Scanned, Tid
<1> QED BY <1>0 DEF IsNext, FirstAmong

LEMMA SchedulerSwitches ==
  ASSUME TypeOK,
         NEW st \in [Tid -> Status], NEW rg \in [Tid -> Context], NEW here \in Context,
         NEW tg \in [Tid -> Tid \cup {NoTid}], NEW jn \in [Tid -> Tid \cup {NoTid}],
         \A t \in Tid : rg[t].flow = t /\ rg[t].at \in SavedAt,
         \A t \in Tid : st[t] = "RUNNING" => t = curr_TID,
         st[curr_TID] = "RUNNING" =>
           /\ here.flow = curr_TID /\ here.pos = pos[curr_TID] /\ here.at \in SavedAt
           /\ here.at = "j1" <=> tg[curr_TID] # NoTid,
         st[curr_TID] # "FRESH", st[curr_TID] = "EXITED" => rg[curr_TID].at = "x1",
         JoinsRight(st, rg, tg, jn, curr_TID), Fresh(st, rg, pos),
         Scheduler(st, rg, here), Running'
  PROVE  SwitchPost(st, tg, jn)
<1> DEFINE c == curr_TID
           rg1 == Saved(st, rg, c, here)
           st1 == Demoted(st, c)
<1>1. c \in Tid
  BY DEF TypeOK
<1>2. PICK n \in Tid : /\ IsNext(st, c, n)
                       /\ curr_TID' = n
                       /\ status' = [st1 EXCEPT ![n] = "RUNNING"]
                       /\ reg' = rg1
                       /\ Resume(rg1[n], NoTid)
  BY DEF Scheduler, Running
(* the buffers with the caller's saved *)
<1>3. /\ rg1 \in [Tid -> Context]
      /\ \A t \in Tid : rg1[t].flow = t /\ rg1[t].at \in SavedAt
      /\ \A t \in Tid : st[t] # "RUNNING" => rg1[t] = rg[t]
      /\ st[c] = "RUNNING" => rg1[c] = here
  BY <1>1 DEF Saved
<1>4. /\ st1 \in [Tid -> Status]
      /\ \A t \in Tid : st[t] # "RUNNING" => st1[t] = st[t]
      /\ \A t \in Tid : st[t] = "RUNNING" => st1[t] = "READY"
  BY <1>1 DEF Demoted, Status
<1>5. /\ \A t \in Tid : st[t] # "RUNNING" /\ t # n => status'[t] = st[t]
      /\ \A t \in Tid : st[t] = "RUNNING" /\ t # n => status'[t] = "READY"
      /\ status'[n] = "RUNNING" /\ status' \in [Tid -> Status]
  BY <1>2, <1>4 DEF Status
<1> HIDE DEF c, rg1, st1
<1>6. \A t \in Tid \ {0} : st[t] \in {"READY", "BLOCKED", "WAITING", "RUNNING"} =>
        rg1[t].pos = pos[t]
  BY <1>3 DEF Fresh, c
<1>7. n # 0 /\ st[n] \in {"READY", "BLOCKED", "RUNNING"} => rg1[n].pos = pos[n]
  BY <1>6
(* the thread chosen is not one that waits in pthread_exit *)
<1>8. st[n] = "READY" \/ (n = c /\ \A t \in Scanned(c) : st[t] # "READY")
  BY <1>1, <1>2, NextIsReady
<1>9. rg1[n] \in Context /\ rg1[n].at \in SavedAt /\ rg1[n].flow = n
  BY <1>3
<1>10. rg1[n].at # "x1"
  BY <1>2 , <1>9 DEF Resume, Running
<1>11. st[n] \in {"READY", "BLOCKED", "RUNNING"}
  <2>1. Targets(st, rg, tg, jn)
    BY DEF JoinsRight
  <2>2. st[n] # "FRESH" /\ (st[n] = "EXITED" => rg[n].at = "x1")
    BY <1>8 DEF c
  <2>3. st[n] = "WAITING" => rg[n].at = "x1"
    BY <2>1 DEF Targets
  <2> QED BY <1>3, <1>10, <2>2, <2>3 DEF Status
<1>12. /\ \A t \in Tid \ {0} : pos'[t] = pos[t]
       /\ cpu'.flow = n
       /\ cpu'.at \in {"user", "j1"} \cup ClientLabels
       /\ cpu'.at = "j1" <=> rg1[n].at = "j1"
  <2>1. /\ \A t \in Tid \ {0} : pos'[t] = pos[t]
        /\ cpu'.flow = n /\ rg1[n].at # "none"
        /\ cpu'.at = IF rg1[n].at = "start" THEN "user" ELSE rg1[n].at
    BY <1>2, <1>7, <1>9, <1>11, ResumeFresh
  <2> QED BY <1>9, <1>10, <2>1 DEF SavedAt
<1>13. \A t \in Tid : (status'[t] = "FRESH" <=> st[t] = "FRESH")
                      /\ (status'[t] = "EXITED" <=> st[t] = "EXITED")
                      /\ (status'[t] = "WAITING" <=> st[t] = "WAITING")
                      /\ (status'[t] = "BLOCKED" => st[t] = "BLOCKED")
                      /\ (st[t] = "BLOCKED" /\ t # n => status'[t] = "BLOCKED")
                      /\ (st[t] \in {"BLOCKED", "READY", "RUNNING"} <=>
                          status'[t] \in {"BLOCKED", "READY", "RUNNING"})
  BY <1>5, <1>11 DEF Status
<1>14. \A t \in Tid : tg[t] # NoTid <=>
                        st[t] \in {"BLOCKED", "READY", "RUNNING"} /\ rg1[t].at = "j1"
  <2>1. Targets(st, rg, tg, jn)
    BY DEF JoinsRight
  <2> TAKE t \in Tid
  <2>2. CASE st[t] = "RUNNING"
    BY <1>3, <2>2 DEF c
  <2>3. CASE st[t] # "RUNNING"
    BY <1>3, <2>1, <2>3 DEF Targets
  <2> QED BY <2>2, <2>3
<1>15. Targets(status', rg1, tg, jn)
  <2>1. Targets(st, rg, tg, jn)
    BY DEF JoinsRight
  <2> SUFFICES ASSUME NEW s \in Tid
               PROVE  /\ tg[s] # NoTid =>
                           /\ s < tg[s] /\ rg1[s].at = "j1"
                           /\ status'[s] \in {"BLOCKED", "READY", "RUNNING"}
                           /\ status'[tg[s]] # "FRESH"
                           /\ status'[tg[s]] \notin Ended => jn[tg[s]] = s
                      /\ status'[s] = "BLOCKED" => tg[s] # NoTid
                      /\ status'[s] = "READY" /\ rg1[s].at = "j1" => tg[s] # NoTid
                      /\ status'[s] = "WAITING" => rg1[s].at = "x1"
    BY DEF Targets
  <2>2. ASSUME tg[s] # NoTid
        PROVE  /\ s < tg[s] /\ rg1[s].at = "j1"
               /\ status'[s] \in {"BLOCKED", "READY", "RUNNING"}
               /\ status'[tg[s]] # "FRESH"
               /\ status'[tg[s]] \notin Ended => jn[tg[s]] = s
    <3>1. /\ tg[s] \in Tid /\ s < tg[s] /\ st[s] \in {"BLOCKED", "READY", "RUNNING"}
          /\ st[tg[s]] # "FRESH" /\ (st[tg[s]] \notin Ended => jn[tg[s]] = s)
      BY <2>1, <2>2 DEF Targets
    <3>2. rg1[s].at = "j1"
      BY <1>14, <2>2
    <3> QED BY <1>13, <3>1, <3>2 DEF Ended
  <2>3. status'[s] = "BLOCKED" => tg[s] # NoTid
    BY <1>13, <2>1 DEF Targets
  <2>4. status'[s] = "READY" /\ rg1[s].at = "j1" => tg[s] # NoTid
    BY <1>13, <1>14
  <2>5. status'[s] = "WAITING" => rg1[s].at = "x1"
    BY <1>3, <1>13, <2>1 DEF Targets
  <2> QED BY <2>2, <2>3, <2>4, <2>5
(* the dead are not touched *)
<1>16. ASSUME NEW w, Dead(st, tg, c, w) PROVE Dead(status', tg, n, w)
  <2>1. \A D \in SUBSET Tid : DeadSet(st, tg, c, D) =>
          n \notin D /\ \A x \in D : status'[x] = st[x] /\ tg[x] = tg[x]
    <3> SUFFICES ASSUME NEW D \in SUBSET Tid, DeadSet(st, tg, c, D)
                 PROVE  n \notin D /\ \A x \in D : status'[x] = st[x]
      OBVIOUS
    <3>1. \A x \in D : st[x] \in {"EXITED", "BLOCKED", "WAITING"} /\ x # c
      BY DeadStatus
    <3> QED BY <1>5, <1>8, <3>1
  <2> QED BY <1>16, <2>1, StaysDead
<1>17. Notes(status', tg, jn, n)
  <2>1. Notes(st, tg, jn, c)
    BY DEF JoinsRight, c
  <2> SUFFICES ASSUME NEW w \in Tid, jn[w] # NoTid
               PROVE  /\ status'[w] \notin {"WAITING", "FRESH"}
                      /\ status'[w] = "EXITED" \/ tg[jn[w]] = w \/ Dead(status', tg, n, w)
    BY DEF Notes
  <2>2. /\ st[w] \notin {"WAITING", "FRESH"}
        /\ st[w] = "EXITED" \/ tg[jn[w]] = w \/ Dead(st, tg, c, w)
    BY <2>1 DEF Notes
  <2> QED BY <1>13, <1>16, <2>2
<1>18. Returning(status', tg, n)
  <2>1. Returning(st, tg, c) /\ Targets(st, rg, tg, jn)
    BY DEF JoinsRight, c
  <2> SUFFICES ASSUME NEW s \in Tid, tg[s] # NoTid, status'[s] # "BLOCKED"
               PROVE  status'[tg[s]] \in Ended \/ Dead(status', tg, n, tg[s])
    BY DEF Returning
  <2>2. tg[s] \in Tid /\ s < tg[s] /\ st[tg[s]] # "FRESH"
    BY <2>1 DEF Targets
  <2>3. CASE st[s] # "BLOCKED"
    <3>1. st[tg[s]] \in Ended \/ Dead(st, tg, c, tg[s])
      BY <2>1, <2>3 DEF Returning
    <3> QED BY <1>13, <1>16, <2>2, <3>1 DEF Ended
  <2>4. CASE st[s] = "BLOCKED"
    <3>1. s = n /\ n = c /\ \A t \in Scanned(c) : st[t] # "READY"
      BY <1>8, <1>13, <2>4
    <3>2. \A x \in Tid : x > c => x \in Scanned(c)
      BY <1>1, <2>2, <3>1 DEF Scanned, Tid
    <3>3. \A x \in Tid : x > c => st[x] \notin {"READY", "RUNNING"}
      <4> TAKE x \in Tid
      <4>1. st[x] = "RUNNING" => x = c
        BY DEF c
      <4> QED BY <1>1, <3>1, <3>2, <4>1 DEF Tid
    <3>4. CASE st[tg[s]] = "WAITING"
      BY <1>13, <2>2, <3>4 DEF Ended
    <3>5. CASE st[tg[s]] # "WAITING"
      <4>1. tg[s] > c
        BY <2>2, <3>1 DEF Tid
      <4>2. Dead(st, tg, c, tg[s])
        BY <1>1, <2>1, <2>2, <3>3, <3>5, <4>1, NoneLeft
      <4> QED BY <1>16, <4>2
    <3> QED BY <3>4, <3>5
  <2> QED BY <2>3, <2>4
<1>19. JoinsRight(status', rg1, tg, jn, n)
  BY <1>15, <1>17, <1>18 DEF JoinsRight
<1>20. Fresh(status', rg1, pos')
  <2>1. \A t \in Tid \ {0} : st[t] = "FRESH" => pos[t] = 0
    BY DEF Fresh
  <2> SUFFICES ASSUME NEW t \in Tid \ {0}
               PROVE  /\ status'[t] = "FRESH" => pos'[t] = 0
                      /\ status'[t] \in {"READY", "BLOCKED", "WAITING"} => rg1[t].pos = pos'[t]
    BY DEF Fresh
  <2> QED BY <1>6, <1>12, <1>13, <2>1
<1>21. cpu'.at = "j1" <=> tg[n] # NoTid
  BY <1>11, <1>12, <1>14
<1> QED BY <1>2, <1>5, <1>12, <1>13, <1>19, <1>20, <1>21 DEF SwitchPost

(* A run of the scheduler ends a call in a state of the invariant.          *)
LEMMA AfterSwitch ==
  ASSUME IInv, JInv, Running, ~first_call, IInv',
         NEW st \in [Tid -> Status],
         \A t \in Tid : (st[t] = "FRESH" <=> status[t] = "FRESH")
                        /\ (st[t] = "EXITED" <=> status[t] = "EXITED"),
         SwitchPost(st, target', joining'), joining'[0] = NoTid,
         UNCHANGED <<stack, total_threads, first_call>>
  PROVE  JInv' /\ NotReplayed
<1>1. /\ JoinsRight(status', reg', target', joining', curr_TID') /\ Fresh(status', reg', pos')
      /\ \A t \in Tid : (status'[t] = "FRESH" <=> status[t] = "FRESH")
                        /\ (status'[t] = "EXITED" <=> status[t] = "EXITED")
      /\ cpu'.flow = curr_TID' /\ status'[curr_TID'] = "RUNNING"
      /\ cpu'.at \in {"user", "j1"} \cup ClientLabels
      /\ cpu'.at = "j1" <=> target'[curr_TID'] # NoTid
  BY DEF SwitchPost
<1>2. cpu'.at \notin LibraryLabels \ {"j1"}
  BY <1>1, ClientAssumption DEF LibraryLabels
<1>3. curr_TID' \in Tid
  BY DEF IInv, TypeOK
<1>4. CpuRight'
  <2>1. UserMarked'
    BY <1>1 DEF UserMarked, LibraryLabels
  <2>2. NobodyReady' /\ WaiterKnown' /\ JoinerEntered' /\ JoinerNext'
    BY <1>2 DEF NobodyReady, WaiterKnown, JoinerEntered, JoinerNext, LibraryLabels
  <2>3. JoinerBack'
    <3> SUFFICES ASSUME cpu'.at = "j1"
                 PROVE  /\ target'[curr_TID'] # NoTid
                        /\ \/ status'[target'[curr_TID']] \in Ended
                           \/ Dead(status', target', curr_TID', target'[curr_TID'])
      BY DEF JoinerBack
    <3>1. Returning(status', target', curr_TID')
      BY <1>1 DEF JoinsRight
    <3> QED BY <1>1, <1>3, <3>1 DEF Returning
  <2> QED BY <2>1, <2>2, <2>3 DEF CpuRight
<1>5. StacksRight /\ CountFits
  BY DEF JInv
<1>6. StacksRight'
  <2>1. 0 \in Tid
    BY MaxAssumption DEF Tid
  <2>2. FreedHasExited' /\ CreatedTaken'
    BY <1>1, <1>5 DEF StacksRight, FreedHasExited, CreatedTaken
  <2>3. MainStays'
    BY <1>1, <1>5, <2>1 DEF StacksRight, MainStays
  <2> QED BY <2>2, <2>3 DEF StacksRight
<1>7. CountFits'
  <2>1. Live' = Live /\ Taken' = Taken
    BY <1>1 DEF Live, Taken
  <2>2. Uncounting' = 0
    BY <1>2 DEF Uncounting, LibraryLabels
  <2>3. Live \subseteq Tid /\ IsFiniteSet(Tid)
    BY FS_Interval, MaxAssumption DEF Live, Tid
  <2>4. Cardinality(Live) \in Nat /\ total_threads \in Int
    BY <2>3, FS_Subset, FS_CardinalityType DEF IInv, TypeOK
  <2>5. Uncounting \in {0, 1} /\ Cardinality(Live) + Uncounting <= total_threads
    BY <1>5 DEF CountFits, Uncounting
  <2>6. Cardinality(Live) + 0 <= total_threads /\ total_threads <= Cardinality(Taken)
    BY <1>5, <2>4, <2>5 DEF CountFits
  <2> QED BY <2>1, <2>2, <2>6 DEF CountFits
<1>8. NotReplayed
  BY DEF SwitchPost, NotReplayed, IInv, TypeOK
<1> QED BY <1>1, <1>4, <1>6, <1>7, <1>8 DEF JInv, NothingYet

LEMMA AlarmKeepsJInv ==
  ASSUME IInv, JInv, Alarm, IInv'
  PROVE  JInv' /\ (Running' => NotReplayed /\ SwitchPost(status, target, joining))
<1> SUFFICES ASSUME Running' PROVE JInv' /\ NotReplayed /\ SwitchPost(status, target, joining)
  BY DEF JInv
<1>1. /\ Running /\ ~first_call /\ Scheduler(status, reg, Here(cpu.at))
      /\ UNCHANGED <<joining, exitcode, stack, total_threads, first_call, target>>
  BY DEF Alarm, Running
<1>2. /\ TypeOK /\ curr_TID \in Tid /\ status \in [Tid -> Status] /\ reg \in [Tid -> Context]
      /\ target \in [Tid -> Tid \cup {NoTid}] /\ joining \in [Tid -> Tid \cup {NoTid}]
      /\ cpu.flow \in Tid /\ cpu.at \in Labels
  BY DEF IInv, TypeOK
<1>3. /\ JoinsRight(status, reg, target, joining, curr_TID) /\ Fresh(status, reg, pos)
      /\ CpuRight /\ StacksRight
  BY <1>1 DEF JInv
<1>4. Here(cpu.at) \in Context
  BY DEF Here, Context, BufferLabels, IInv, TypeOK
<1>5. \A t \in Tid : status[t] = "RUNNING" => t = curr_TID
  BY <1>1 DEF IInv, OnlyCurrRuns
<1>6. \A t \in Tid : reg[t].flow = t /\ reg[t].at \in SavedAt
  BY DEF IInv, ContextOwner, BuffersSaved
<1>7. ASSUME status[curr_TID] = "RUNNING"
      PROVE  /\ Here(cpu.at).flow = curr_TID /\ Here(cpu.at).pos = pos[curr_TID]
             /\ Here(cpu.at).at \in SavedAt
             /\ Here(cpu.at).at = "j1" <=> target[curr_TID] # NoTid
  <2>1. cpu.at \notin LibraryLabels \ {"j1"}
    BY <1>1, <1>2, <1>7 DEF IInv, NoneRunsInHandOff
  <2>2. cpu.at \in {"user", "j1"} \cup ClientLabels
    BY <1>2, <2>1 DEF Labels
  <2>3. cpu.flow = curr_TID
    BY <1>1, <2>1 DEF IInv, FlowIsCurr, LibraryLabels
  <2>4. cpu.at = "j1" <=> target[curr_TID] # NoTid
    BY <1>3, <2>1, <2>3 DEF CpuRight, UserMarked, JoinerBack
  <2> QED BY <2>2, <2>3, <2>4 DEF Here, SavedAt
<1>8. /\ status[curr_TID] # "FRESH"
      /\ status[curr_TID] = "EXITED" => reg[curr_TID].at = "x1"
  <2>1. CASE cpu.at \notin LibraryLabels
    <3>1. cpu.flow = curr_TID
      BY <1>1, <2>1 DEF IInv, FlowIsCurr, LibraryLabels
    <3>2. curr_TID # 0 => status[curr_TID] = "RUNNING"
      BY <1>3, <2>1, <3>1 DEF CpuRight, UserMarked
    <3>3. curr_TID = 0 => status[curr_TID] \notin {"FRESH", "EXITED"}
      BY <1>1, <1>3 DEF StacksRight, MainStays
    <3> QED BY <3>2, <3>3
  <2>2. CASE cpu.at = "e0"
    BY <1>3, <2>2 DEF CpuRight, WaiterKnown
  <2>3. CASE cpu.at = "e1"
    BY <1>1, <1>3, <2>3 DEF IInv, MainIsNext, StacksRight, MainStays
  <2>4. CASE cpu.at \in {"k1", "x1", "x2", "x3", "x4", "x5"}
    BY <1>3, <2>4 DEF CpuRight, JoinerEntered
  <2>5. CASE cpu.at = "x6"
    BY <1>1, <1>3, <2>5 DEF CpuRight, JoinerNext
  <2>6. CASE cpu.at = "j1"
    <3>1. target[curr_TID] # NoTid /\ Targets(status, reg, target, joining)
      BY <1>3, <2>6 DEF CpuRight, JoinerBack, JoinsRight
    <3> QED BY <1>2, <3>1 DEF Targets
  <2> QED BY <2>1, <2>2, <2>3, <2>4, <2>5, <2>6 DEF LibraryLabels
<1>9. SwitchPost(status, target, joining)
  BY <1>1, <1>2, <1>3, <1>4, <1>5, <1>6, <1>7, <1>8, SchedulerSwitches
<1>10. SwitchPost(status, target', joining') /\ joining'[0] = NoTid
  BY <1>1, <1>3, <1>9 DEF StacksRight, MainStays
<1> QED BY <1>1, <1>2, <1>9, <1>10, AfterSwitch

LEMMA InitJInv == Init => JInv
<1> SUFFICES ASSUME Init PROVE JInv
  OBVIOUS
<1>1. 0 \in Tid
  BY MaxAssumption DEF Tid
<1>2. CpuRight
  BY <1>1 DEF Init, CpuRight, UserMarked, NobodyReady, WaiterKnown, JoinerEntered, JoinerNext, JoinerBack,
     LibraryLabels
<1>3. StacksRight
  BY <1>1 DEF Init, StacksRight, FreedHasExited, CreatedTaken, MainStays
<1>4. CountFits /\ NothingYet
  BY DEF Init, CountFits, NothingYet
<1> QED BY <1>2, <1>3, <1>4 DEF JInv, Init

-----------------------------------------------------------------------------
(* The calls *)

LEMMA TidFinite ==
  ASSUME NEW S \in SUBSET Tid, NEW x \in Tid
  PROVE  /\ Cardinality(S) \in Nat
         /\ x \notin S => Cardinality(S \cup {x}) = Cardinality(S) + 1
         /\ x \in S => Cardinality(S \ {x}) = Cardinality(S) - 1
<1>1. IsFiniteSet(Tid)
  BY FS_Interval, MaxAssumption DEF Tid
<1>2. IsFiniteSet(S)
  BY <1>1, FS_Subset
<1> QED BY <1>2, FS_CardinalityType, FS_AddElement, FS_RemoveElement

(* The thread that makes a call.                                            *)
LEMMA Caller ==
  ASSUME IInv, JInv, At("user")
  PROVE  /\ Running /\ cpu.at = "user" /\ cpu.flow = curr_TID
         /\ curr_TID \in Tid /\ 0 \in Tid
         /\ status \in [Tid -> Status] /\ reg \in [Tid -> Context]
         /\ target \in [Tid -> Tid \cup {NoTid}] /\ joining \in [Tid -> Tid \cup {NoTid}]
         /\ pos \in [Tid -> Nat] /\ stack \in [Tid -> {"none", "owned", "freed"}]
         /\ total_threads \in Int
         /\ target[curr_TID] = NoTid /\ (curr_TID # 0 => status[curr_TID] = "RUNNING")
         /\ \A t \in Tid : status[t] = "RUNNING" => t = curr_TID
         /\ ~first_call => /\ status[curr_TID] \notin {"FRESH", "EXITED", "BLOCKED"}
                           /\ JoinsRight(status, reg, target, joining, curr_TID)
                           /\ Fresh(status, reg, pos)
         /\ Uncounting = 0 /\ CountFits /\ StacksRight
<1>1. 0 \in Tid
  BY MaxAssumption DEF Tid
<1>2. /\ Running /\ cpu.at = "user" /\ cpu.flow = curr_TID /\ Uncounting = 0
  BY DEF IInv, FlowIsCurr, At, Running, Uncounting
<1>3. CpuRight /\ StacksRight /\ CountFits
  BY <1>2 DEF JInv
<1>4. target[curr_TID] = NoTid /\ (curr_TID # 0 => status[curr_TID] = "RUNNING")
  BY <1>2, <1>3 DEF CpuRight, UserMarked, LibraryLabels
<1>5. curr_TID \in Tid
  BY DEF IInv, TypeOK
<1>6. ASSUME ~first_call
      PROVE  /\ status[curr_TID] \notin {"FRESH", "EXITED", "BLOCKED"}
             /\ JoinsRight(status, reg, target, joining, curr_TID) /\ Fresh(status, reg, pos)
  <2>1. JoinsRight(status, reg, target, joining, curr_TID) /\ Fresh(status, reg, pos)
    BY <1>2, <1>6 DEF JInv
  <2>2. status[curr_TID] # "BLOCKED"
    BY <1>4, <1>5, <2>1 DEF JoinsRight, Targets
  <2> QED BY <1>3, <1>4, <1>6, <2>1, <2>2 DEF StacksRight, MainStays
<1>7. \A t \in Tid : status[t] = "RUNNING" => t = curr_TID
  BY <1>2 DEF IInv, OnlyCurrRuns
<1> QED BY <1>1, <1>2, <1>3, <1>4, <1>5, <1>6, <1>7 DEF IInv, TypeOK

(* The first pthread_create sets up the table (91-107).                     *)
LEMMA FirstCreateKeepsJInv ==
  ASSUME IInv, JInv, At("user"), first_call, NEW i \in Tid, CreateThread(i)
  PROVE  JInv'
<1>1. /\ Running /\ cpu.at = "user" /\ cpu.flow = 0 /\ curr_TID = 0 /\ 0 \in Tid
      /\ reg \in [Tid -> Context] /\ pos \in [Tid -> Nat] 
      /\ stack \in [Tid -> {"none", "owned", "freed"}]
      /\ \A t \in Tid : stack[t] = "none" /\ reg[t].at = "none"
  BY Caller DEF IInv, BeforeFirstCall
<1>2. /\ \A t \in Tid : target[t] = NoTid
      /\ \A t \in Tid \ {0} : pos[t] = 0
      /\ total_threads = 0
  BY <1>1 DEF JInv, NothingYet
<1>3. InitStatus = [t \in Tid |-> IF t = 0 THEN "RUNNING" ELSE "FRESH"] /\ InitTotal = 1
  BY <1>2 DEF InitStatus, InitTotal
<1>4. i # 0
  BY <1>1, <1>3 DEF CreateThread, FirstFresh
<1>5. /\ status' = [t \in Tid |-> IF t = 0 THEN "RUNNING" ELSE IF t = i THEN "READY" ELSE "FRESH"]
      /\ total_threads' = 2 /\ ~first_call'
  BY <1>1, <1>3, <1>4 DEF CreateThread
<1>6. /\ reg'[i].at = "start" /\ reg'[i].pos = 0
      /\ \A t \in Tid \ {0} : pos'[t] = 0
  BY <1>1, <1>2 DEF CreateThread, InitReg
<1>7. /\ \A t \in Tid : target'[t] = NoTid /\ joining'[t] = NoTid
      /\ stack' = [stack EXCEPT ![i] = "owned"]
      /\ cpu' = cpu /\ proc' = proc
  BY <1>1, <1>2 DEF CreateThread
<1>8. JoinsRight(status', reg', target', joining', curr_TID')
  <2>1. Targets(status', reg', target', joining')
    BY <1>5, <1>6, <1>7 DEF Targets
  <2> QED BY <1>7, <2>1 DEF JoinsRight, OneJoiner, Notes, Returning
<1>9. Fresh(status', reg', pos')
  BY <1>5, <1>6 DEF Fresh
<1>10. CpuRight'
  BY <1>1, <1>7 DEF CpuRight, UserMarked, NobodyReady, WaiterKnown, JoinerEntered, JoinerNext, JoinerBack
<1>11. StacksRight'
  BY <1>1, <1>4, <1>5, <1>7 DEF StacksRight, FreedHasExited, CreatedTaken, MainStays
<1>12. CountFits'
  <2>1. Live' = {0, i} /\ Taken' = {0, i}
    BY <1>1, <1>4, <1>5 DEF Live, Taken
  <2>2. Cardinality({0, i}) = 2
    <3>1. {0} \in SUBSET Tid /\ i \notin {0} /\ {0} \cup {i} = {0, i}
      BY <1>1, <1>4
    <3>2. Cardinality({0}) = 1
      BY FS_Singleton
    <3>3. Cardinality({0} \cup {i}) = Cardinality({0}) + 1
      BY <3>1, TidFinite
    <3> QED BY <3>1, <3>2, <3>3
  <2>3. Uncounting' = 0
    BY <1>1, <1>7 DEF Uncounting
  <2> QED BY <1>5, <2>1, <2>2, <2>3 DEF CountFits
<1> QED BY <1>5, <1>8, <1>9, <1>10, <1>11, <1>12 DEF JInv, NothingYet

LEMMA LaterCreateKeepsJInv ==
  ASSUME IInv, JInv, At("user"), ~first_call, NEW i \in Tid, CreateThread(i)
  PROVE  JInv'
<1> DEFINE c == curr_TID
<1>1. /\ Running /\ cpu.at = "user" /\ cpu.flow = c /\ c \in Tid /\ 0 \in Tid
      /\ status \in [Tid -> Status] /\ reg \in [Tid -> Context]
      /\ target \in [Tid -> Tid \cup {NoTid}]
      /\ pos \in [Tid -> Nat] /\ stack \in [Tid -> {"none", "owned", "freed"}]
      /\ total_threads \in Int /\ target[c] = NoTid /\ (c # 0 => status[c] = "RUNNING")
      /\ JoinsRight(status, reg, target, joining, c) /\ Fresh(status, reg, pos)
      /\ Uncounting = 0 /\ CountFits /\ StacksRight
  BY Caller
<1>2. /\ status[i] = "FRESH" /\ status' = [status EXCEPT ![i] = "READY"]
      /\ reg' = [reg EXCEPT ![i] = [flow |-> i, at |-> "start", pos |-> 0]]
      /\ stack' = [stack EXCEPT ![i] = "owned"]
      /\ total_threads' = total_threads + 1 /\ ~first_call'
      /\ pos' = [pos EXCEPT ![c] = @ + 1]
      /\ UNCHANGED <<joining, curr_TID, cpu, target, proc>>
  BY <1>1 DEF CreateThread, FirstFresh, InitStatus, InitReg, InitTotal
<1>3. /\ status'[i] = "READY" /\ \A t \in Tid \ {i} : status'[t] = status[t]
      /\ reg'[i].at = "start" /\ reg'[i].pos = 0 /\ \A t \in Tid \ {i} : reg'[t] = reg[t]
      /\ \A t \in Tid \ {c} : pos'[t] = pos[t]
  BY <1>1, <1>2 DEF Status
<1>4. i # 0 /\ i # c
  BY <1>1, <1>2 DEF StacksRight, MainStays
<1>5. Targets(status, reg, target, joining) /\ OneJoiner(target)
      /\ Notes(status, target, joining, c) /\ Returning(status, target, c)
  BY <1>1 DEF JoinsRight
<1> HIDE DEF c
<1>6. target[i] = NoTid /\ \A s \in Tid : target[s] # i
  BY <1>2, <1>5 DEF Targets, NoTid, Tid
<1>7. ASSUME NEW w, Dead(status, target, c, w) PROVE Dead(status', target, c, w)
  <2>1. \A D \in SUBSET Tid : DeadSet(status, target, c, D) =>
          c \notin D /\ \A x \in D : status'[x] = status[x] /\ target[x] = target[x]
    <3> SUFFICES ASSUME NEW D \in SUBSET Tid, DeadSet(status, target, c, D)
                 PROVE  c \notin D /\ \A x \in D : status'[x] = status[x]
      OBVIOUS
    <3>1. \A x \in D : status[x] \in {"EXITED", "BLOCKED", "WAITING"} /\ x # c
      BY DeadStatus
    <3> QED BY <1>2, <1>3, <3>1
  <2> QED BY <1>7, <2>1, StaysDead
<1>8. Targets(status', reg', target, joining)
  BY <1>3, <1>5, <1>6, <1>1 DEF Targets, Ended
<1>9. Notes(status', target, joining, c)
  <2> SUFFICES ASSUME NEW w \in Tid, joining[w] # NoTid
               PROVE  /\ status'[w] \notin {"WAITING", "FRESH"}
                      /\ status'[w] = "EXITED" \/ target[joining[w]] = w
                         \/ Dead(status', target, c, w)
    BY DEF Notes
  <2>1. /\ status[w] \notin {"WAITING", "FRESH"}
        /\ status[w] = "EXITED" \/ target[joining[w]] = w \/ Dead(status, target, c, w)
    BY <1>5 DEF Notes
  <2> QED BY <1>2, <1>3, <1>7, <2>1
<1>10. Returning(status', target, c)
  <2> SUFFICES ASSUME NEW s \in Tid, target[s] # NoTid, status'[s] # "BLOCKED"
               PROVE  status'[target[s]] \in Ended \/ Dead(status', target, c, target[s])
    BY DEF Returning
  <2>1. s # i /\ target[s] # i /\ target[s] \in Tid
    BY <1>1, <1>6
  <2>2. status[target[s]] \in Ended \/ Dead(status, target, c, target[s])
    BY <1>3, <1>5, <2>1 DEF Returning
  <2> QED BY <1>3, <1>7, <2>1, <2>2
<1>11. JoinsRight(status', reg', target', joining', curr_TID')
  <2>1. JoinsRight(status', reg', target, joining, c)
    BY <1>5, <1>8, <1>9, <1>10 DEF JoinsRight
  <2>2. target' = target /\ joining' = joining /\ curr_TID' = c
    BY <1>2 DEF c
  <2> QED BY <2>1, <2>2
<1>12. Fresh(status', reg', pos')
  <2> SUFFICES ASSUME NEW t \in Tid \ {0}
               PROVE  /\ status'[t] = "FRESH" => pos'[t] = 0
                      /\ status'[t] \in {"READY", "BLOCKED", "WAITING"} => reg'[t].pos = pos'[t]
    BY DEF Fresh
  <2>1. /\ status[t] = "FRESH" => pos[t] = 0
        /\ status[t] \in {"READY", "BLOCKED", "WAITING"} => reg[t].pos = pos[t]
    BY <1>1 DEF Fresh
  <2>2. CASE t = c
    BY <1>1, <1>3, <1>4, <2>2
  <2>3. CASE t = i
    BY <1>2, <1>3, <1>4, <2>1, <2>3
  <2>4. CASE t # c /\ t # i
    BY <1>3, <2>1, <2>4
  <2> QED BY <2>2, <2>3, <2>4
<1>13. CpuRight'
  <2>1. cpu'.at = "user" /\ cpu'.flow = c /\ target'[c] = NoTid /\ (c # 0 => status'[c] = "RUNNING")
    BY <1>1, <1>2, <1>3, <1>4
  <2> QED BY <2>1 DEF CpuRight, UserMarked, NobodyReady, WaiterKnown, JoinerEntered, JoinerNext, JoinerBack
<1>14. StacksRight'
  BY <1>1, <1>2, <1>3, <1>4 DEF StacksRight, FreedHasExited, CreatedTaken, MainStays
<1>15. CountFits'
  <2>1. Live' = Live \cup {i} /\ Taken' = Taken \cup {i}
    BY <1>3 DEF Live, Taken
  <2>2. i \notin Live /\ i \notin Taken /\ Live \in SUBSET Tid /\ Taken \in SUBSET Tid
    BY <1>2 DEF Live, Taken
  <2>3. /\ Cardinality(Live) \in Nat /\ Cardinality(Live \cup {i}) = Cardinality(Live) + 1
        /\ Cardinality(Taken) \in Nat /\ Cardinality(Taken \cup {i}) = Cardinality(Taken) + 1
    BY <2>2, TidFinite
  <2>4. Uncounting' = 0
    BY <1>1, <1>2 DEF Uncounting
  <2>5. Cardinality(Live) + 0 <= total_threads /\ total_threads <= Cardinality(Taken)
    BY <1>1 DEF CountFits
  <2>6. /\ Cardinality(Live) + 1 + 0 <= total_threads + 1
        /\ total_threads + 1 <= Cardinality(Taken) + 1
    BY <1>1, <2>3, <2>5
  <2> QED BY <1>2, <2>1, <2>3, <2>4, <2>6 DEF CountFits
<1> QED BY <1>2, <1>11, <1>12, <1>13, <1>14, <1>15 DEF JInv, NothingYet

LEMMA CreateKeepsJInv == ASSUME IInv, JInv, Create PROVE JInv'
<1>1. CASE Ends("masked") \/ Ends("overrun")
  BY <1>1 DEF Ends, JInv, Running
<1> QED BY <1>1, FirstCreateKeepsJInv, LaterCreateKeepsJInv DEF Create

(* pthread_exit called while the joiner waits: the joiner is blocked.       *)
LEMMA ExitToJoinerKeepsJInv ==
  ASSUME IInv, JInv, At("user"), ExitToJoiner
  PROVE  JInv'
<1> DEFINE c == curr_TID
           s == joining[c]
<1>1. /\ Running /\ cpu.at = "user" /\ cpu.flow = c /\ c \in Tid /\ 0 \in Tid
      /\ status \in [Tid -> Status]
      /\ target \in [Tid -> Tid \cup {NoTid}] /\ joining \in [Tid -> Tid \cup {NoTid}]
      /\ stack \in [Tid -> {"none", "owned", "freed"}]
      /\ total_threads \in Int /\ target[c] = NoTid /\ (c # 0 => status[c] = "RUNNING")
      /\ \A t \in Tid : status[t] = "RUNNING" => t = c
      /\ Uncounting = 0 /\ CountFits /\ StacksRight
  BY Caller
<1>2. /\ s \in Tid /\ status' = [status EXCEPT ![c] = "EXITED"]
      /\ stack' = [stack EXCEPT ![c] = IF @ = "owned" THEN "freed" ELSE @]
      /\ total_threads' = total_threads - 1 /\ curr_TID' = s
      /\ UNCHANGED <<joining, reg, first_call, pos, target, proc>>
  BY <1>1 DEF ExitToJoiner
<1>3. cpu'.at = "x6"
  BY DEF ExitToJoiner, Goto, IInv, TypeOK
<1>4. Uncounting' = 0
  BY <1>3 DEF Uncounting
<1>5. CASE first_call
  <2>1. \A t \in Tid : stack[t] = "none"
    BY <1>5 DEF IInv, BeforeFirstCall
  <2>2. \A t \in Tid : stack'[t] = "none"
    BY <1>1, <1>2, <2>1
  <2>3. StacksRight'
    BY <1>1, <1>2, <1>5, <2>2 DEF StacksRight, FreedHasExited, CreatedTaken, MainStays
  <2>4. CpuRight'
    BY <1>2, <1>3, <1>5
       DEF CpuRight, UserMarked, NobodyReady, WaiterKnown, JoinerEntered, JoinerNext, JoinerBack,
           LibraryLabels
  <2>5. NothingYet'
    BY <1>1, <1>2, <1>3, <1>5 DEF NothingYet, JInv
  <2> QED BY <1>2, <1>5, <2>3, <2>4, <2>5 DEF JInv, CountFits
<1>6. CASE ~first_call
  <2>0. /\ JoinsRight(status, reg, target, joining, c) /\ Fresh(status, reg, pos)
    BY <1>6, Caller
  <2>1. Targets(status, reg, target, joining) /\ OneJoiner(target)
        /\ Notes(status, target, joining, c) /\ Returning(status, target, c)
    BY <2>0 DEF JoinsRight
  <2> HIDE DEF c, s
  <2>2. c # 0 /\ status[c] = "RUNNING"
    <3>1. joining[0] = NoTid
      BY <1>1, <1>6 DEF StacksRight, MainStays
    <3> QED BY <1>1, <1>2, <3>1 DEF s, NoTid, Tid
  <2>3. ~Dead(status, target, c, c)
    BY DEF Dead, DeadSet
  <2>4. target[s] = c
    <3>1. joining[c] # NoTid
      BY <1>1, <1>2 DEF s, NoTid, Tid
    <3> QED BY <1>1, <2>1, <2>2, <2>3, <3>1 DEF Notes, s
  <2>5. s # c /\ status[s] = "BLOCKED"
    <3>1. c # NoTid
      BY <1>1 DEF NoTid, Tid
    <3>2. s < c /\ status[s] \in {"BLOCKED", "READY", "RUNNING"}
      BY <1>2, <2>1, <2>4, <3>1 DEF Targets
    <3>3. status[s] # "RUNNING"
      BY <1>1, <1>2, <3>2 DEF Tid
    <3>4. status[s] # "BLOCKED" => status[c] \in Ended \/ Dead(status, target, c, c)
      BY <1>2, <2>1, <2>4, <3>1 DEF Returning
    <3> QED BY <1>1, <1>2, <2>2, <2>3, <3>2, <3>3, <3>4 DEF Ended, Tid
  <2>6. status'[c] = "EXITED" /\ \A t \in Tid \ {c} : status'[t] = status[t]
    BY <1>1, <1>2
  <2>7. ASSUME NEW w, Dead(status, target, c, w) PROVE Dead(status', target, s, w)
    <3>1. \A D \in SUBSET Tid : DeadSet(status, target, c, D) =>
            s \notin D /\ \A x \in D : status'[x] = status[x] /\ target[x] = target[x]
      <4> SUFFICES ASSUME NEW D \in SUBSET Tid, DeadSet(status, target, c, D)
                   PROVE  s \notin D /\ \A x \in D : status'[x] = status[x]
        OBVIOUS
      <4>1. \A x \in D : x # c
        BY DeadStatus
      <4>2. s \notin D
        BY <2>4, <2>5, <4>1 DEF DeadSet
      <4> QED BY <2>6, <4>1, <4>2
    <3> QED BY <2>7, <3>1, StaysDead
  <2>8. Targets(status', reg, target, joining)
    BY <1>1, <2>1, <2>6 DEF Targets, Ended
  <2>9. Notes(status', target, joining, s)
    <3> SUFFICES ASSUME NEW w \in Tid, joining[w] # NoTid
                 PROVE  /\ status'[w] \notin {"WAITING", "FRESH"}
                        /\ status'[w] = "EXITED" \/ target[joining[w]] = w
                           \/ Dead(status', target, s, w)
      BY DEF Notes
    <3>1. /\ status[w] \notin {"WAITING", "FRESH"}
          /\ status[w] = "EXITED" \/ target[joining[w]] = w \/ Dead(status, target, c, w)
      BY <2>1 DEF Notes
    <3> QED BY <2>6, <2>7, <3>1
  <2>10. Returning(status', target, s)
    <3> SUFFICES ASSUME NEW u \in Tid, target[u] # NoTid, status'[u] # "BLOCKED"
                 PROVE  status'[target[u]] \in Ended \/ Dead(status', target, s, target[u])
      BY DEF Returning
    <3>1. u # c /\ target[u] \in Tid
      BY <1>1
    <3>2. status[target[u]] \in Ended \/ Dead(status, target, c, target[u])
      BY <2>1, <2>6, <3>1 DEF Returning
    <3> QED BY <2>6, <2>7, <3>1, <3>2 DEF Ended
  <2>11. JoinsRight(status', reg', target', joining', curr_TID')
    <3>1. JoinsRight(status', reg, target, joining, s)
      BY <2>1, <2>8, <2>9, <2>10 DEF JoinsRight
    <3>2. reg' = reg /\ target' = target /\ joining' = joining /\ curr_TID' = s
      BY <1>2
    <3> QED BY <3>1, <3>2
  <2>12. Fresh(status', reg', pos')
    BY <1>2, <2>0, <2>6 DEF Fresh
  <2>13. CpuRight'
    <3>1. JoinerNext'
      <4>1. curr_TID' = s /\ status'[s] = "BLOCKED" /\ target'[s] = c /\ status'[c] = "EXITED"
        BY <1>2, <2>4, <2>5, <2>6
      <4>2. c # NoTid
        BY <1>1 DEF NoTid, Tid
      <4> QED BY <4>1, <4>2 DEF JoinerNext
    <3> QED
      BY <1>3, <3>1 DEF CpuRight, UserMarked, NobodyReady, WaiterKnown, JoinerEntered, JoinerBack,
         LibraryLabels
  <2>14. StacksRight'
    <3>1. \A t \in Tid \ {c} : stack'[t] = stack[t]
      BY <1>1, <1>2
    <3>2. c # 0 /\ 0 \in Tid \ {c} /\ first_call' = first_call /\ joining' = joining
      BY <1>1, <1>2, <2>2
    <3> QED BY <1>1, <2>6, <3>1, <3>2 DEF StacksRight, FreedHasExited, CreatedTaken, MainStays
  <2>15. CountFits'
    <3>1. Live' = Live \ {c} /\ Taken' = Taken
      BY <1>1, <2>2, <2>6 DEF Live, Taken
    <3>2. c \in Live /\ Live \in SUBSET Tid
      BY <1>1, <2>2 DEF Live
    <3>3. Cardinality(Live) \in Nat /\ Cardinality(Live \ {c}) = Cardinality(Live) - 1
      BY <1>1, <3>2, TidFinite
    <3>4. Taken \in SUBSET Tid
      BY DEF Taken
    <3>5. Cardinality(Taken) \in Nat
      BY <1>1, <3>4, TidFinite
    <3>6. Cardinality(Live) + 0 <= total_threads /\ total_threads <= Cardinality(Taken)
      BY <1>1, <1>6 DEF CountFits
    <3>7. /\ Cardinality(Live) - 1 + 0 <= total_threads - 1
          /\ total_threads - 1 <= Cardinality(Taken)
      BY <1>1, <3>3, <3>5, <3>6
    <3> QED BY <1>2, <1>4, <3>1, <3>3, <3>7 DEF CountFits
  <2> QED BY <1>2, <1>6, <2>11, <2>12, <2>13, <2>14, <2>15 DEF JInv, NothingYet
<1> QED BY <1>5, <1>6

(* pthread_exit called before anybody joins: the thread waits.              *)
LEMMA ExitToWaitKeepsJInv ==
  ASSUME IInv, JInv, At("user"), ExitToWait, IInv'
  PROVE  LET st == [status EXCEPT ![curr_TID] = "WAITING"]
         IN  JInv' /\ (Running' => NotReplayed /\ (NoneReady(st) \/ SwitchPost(st, target, joining)))
<1> DEFINE c == curr_TID
           st == [status EXCEPT ![c] = "WAITING"]
           rg == [reg EXCEPT ![c] = Here("x1")]
<1> SUFFICES ASSUME Running'
             PROVE  JInv' /\ NotReplayed /\ (NoneReady(st) \/ SwitchPost(st, target, joining))
  BY DEF JInv
<1>1. /\ Running /\ cpu.at = "user" /\ cpu.flow = c /\ c \in Tid /\ 0 \in Tid
      /\ status \in [Tid -> Status] /\ reg \in [Tid -> Context]
      /\ target \in [Tid -> Tid \cup {NoTid}] /\ joining \in [Tid -> Tid \cup {NoTid}]
      /\ pos \in [Tid -> Nat] /\ stack \in [Tid -> {"none", "owned", "freed"}]
      /\ total_threads \in Int /\ target[c] = NoTid /\ (c # 0 => status[c] = "RUNNING")
      /\ \A t \in Tid : status[t] = "RUNNING" => t = c
      /\ Uncounting = 0 /\ CountFits /\ StacksRight
  BY Caller
<1>2. /\ joining[c] = NoTid
      /\ IF NoneReady(st)
         THEN /\ status' = st /\ reg' = rg /\ Goto("e0")
              /\ UNCHANGED <<curr_TID, pos, local, proc>>
         ELSE Scheduler(st, rg, Here("user"))
      /\ UNCHANGED <<joining, exitcode, stack, total_threads, first_call, target>>
  BY DEF ExitToWait
<1>3. ~first_call
  BY <1>1, <1>2 DEF IInv, BeforeFirstCall, NoTid
<1>4. /\ status[c] \notin {"FRESH", "EXITED", "BLOCKED"}
      /\ JoinsRight(status, reg, target, joining, c) /\ Fresh(status, reg, pos)
  BY <1>3, Caller
<1>5. Targets(status, reg, target, joining) /\ OneJoiner(target)
      /\ Notes(status, target, joining, c) /\ Returning(status, target, c)
  BY <1>4 DEF JoinsRight
<1>6. Here("x1") \in Context /\ Here("user") \in Context /\ Here("x1").at = "x1"
      /\ Here("x1").pos = pos[c] /\ Here("x1").flow = c
  BY <1>1 DEF Here, Context, BufferLabels, Labels, LibraryLabels
<1>7. /\ st \in [Tid -> Status] /\ rg \in [Tid -> Context]
      /\ st[c] = "WAITING" /\ rg[c] = Here("x1")
      /\ \A t \in Tid \ {c} : st[t] = status[t] /\ rg[t] = reg[t]
  BY <1>1, <1>6 DEF Status
<1> HIDE DEF c, st, rg
<1>8. \A u \in Tid : target[u] # c
  <2> SUFFICES ASSUME NEW u \in Tid, target[u] = c PROVE FALSE
    OBVIOUS
  <2>1. u < c /\ (status[c] \notin Ended => joining[c] = u)
    BY <1>1, <1>5 DEF Targets, NoTid, Tid
  <2>2. c # 0
    BY <2>1 DEF Tid
  <2> QED BY <1>1, <1>2, <2>1, <2>2 DEF Ended, NoTid, Tid
<1>9. ASSUME NEW w, Dead(status, target, c, w) PROVE Dead(st, target, c, w)
  <2>1. \A D \in SUBSET Tid : DeadSet(status, target, c, D) =>
          c \notin D /\ \A x \in D : st[x] = status[x] /\ target[x] = target[x]
    BY <1>7, DeadStatus
  <2> QED BY <1>9, <2>1, StaysDead
<1>10. Targets(st, rg, target, joining)
  BY <1>1, <1>5, <1>6, <1>7, <1>8 DEF Targets
<1>11. Notes(st, target, joining, c)
  <2> SUFFICES ASSUME NEW w \in Tid, joining[w] # NoTid
               PROVE  /\ st[w] \notin {"WAITING", "FRESH"}
                      /\ st[w] = "EXITED" \/ target[joining[w]] = w \/ Dead(st, target, c, w)
    BY DEF Notes
  <2>1. w # c
    BY <1>2 DEF c
  <2>2. /\ status[w] \notin {"WAITING", "FRESH"}
        /\ status[w] = "EXITED" \/ target[joining[w]] = w \/ Dead(status, target, c, w)
    BY <1>5 DEF Notes
  <2> QED BY <1>7, <1>9, <2>1, <2>2
<1>12. Returning(st, target, c)
  <2> SUFFICES ASSUME NEW u \in Tid, target[u] # NoTid, st[u] # "BLOCKED"
               PROVE  st[target[u]] \in Ended \/ Dead(st, target, c, target[u])
    BY DEF Returning
  <2>1. u # c /\ target[u] # c /\ target[u] \in Tid
    BY <1>1, <1>8
  <2>2. status[target[u]] \in Ended \/ Dead(status, target, c, target[u])
    BY <1>5, <1>7, <2>1 DEF Returning
  <2> QED BY <1>7, <1>9, <2>1, <2>2
<1>13. JoinsRight(st, rg, target, joining, c)
  BY <1>5, <1>10, <1>11, <1>12 DEF JoinsRight
<1>14. Fresh(st, rg, pos)
  BY <1>4, <1>6, <1>7 DEF Fresh
<1>15. \A t \in Tid : (st[t] = "FRESH" <=> status[t] = "FRESH")
                      /\ (st[t] = "EXITED" <=> status[t] = "EXITED")
  BY <1>4, <1>7
<1>16. CASE NoneReady(st)
  <2>1. /\ status' = st /\ reg' = rg /\ Goto("e0")
        /\ UNCHANGED <<curr_TID, pos, local, proc>>
        /\ UNCHANGED <<joining, exitcode, stack, total_threads, first_call, target>>
    BY <1>2, <1>16
  <2>2. cpu'.at = "e0"
    BY <2>1 DEF Goto, IInv, TypeOK
  <2>3. JoinsRight(status', reg', target', joining', curr_TID') /\ Fresh(status', reg', pos')
    BY <1>13, <1>14, <2>1 DEF c
  <2>4. CpuRight'
    <3>1. NobodyReady' /\ WaiterKnown'
      BY <1>7, <1>16, <2>1 DEF NobodyReady, WaiterKnown, NoneReady, c
    <3> QED
      BY <2>2, <3>1 DEF CpuRight, UserMarked, JoinerEntered, JoinerNext, JoinerBack, LibraryLabels
  <2>5. StacksRight'
    BY <1>1, <1>7, <1>15, <2>1 DEF StacksRight, FreedHasExited, CreatedTaken, MainStays
  <2>6. CountFits'
    <3>1. Live' = Live /\ Taken' = Taken
      BY <1>15, <2>1 DEF Live, Taken
    <3>2. Uncounting' = 0 /\ total_threads' = total_threads
      BY <2>1, <2>2 DEF Uncounting
    <3> QED BY <1>1, <1>3, <3>1, <3>2 DEF CountFits
  <2>7. NotReplayed
    BY <1>1, <2>1 DEF NotReplayed
  <2> QED BY <1>3, <1>16, <2>1, <2>3, <2>4, <2>5, <2>6, <2>7 DEF JInv, NothingYet
<1>17. CASE ~NoneReady(st)
  <2>1. Scheduler(st, rg, Here("user"))
    BY <1>2, <1>17
  <2>2. \A t \in Tid : rg[t].flow = t /\ rg[t].at \in SavedAt
    BY <1>1, <1>6, <1>7 DEF IInv, ContextOwner, BuffersSaved, SavedAt
  <2>3. \A t \in Tid : st[t] # "RUNNING"
    BY <1>1, <1>7
  <2>4. /\ TypeOK /\ curr_TID \in Tid
        /\ st[curr_TID] = "WAITING"
        /\ JoinsRight(st, rg, target, joining, curr_TID)
    BY <1>1, <1>7, <1>13 DEF IInv, c
  <2>5. SwitchPost(st, target, joining)
    BY <1>1, <1>6, <1>7, <1>14, <2>1, <2>2, <2>3, <2>4, SchedulerSwitches
  <2>6. joining'[0] = NoTid /\ SwitchPost(st, target', joining')
        /\ UNCHANGED <<stack, total_threads, first_call>>
    BY <1>1, <1>2, <1>3, <2>5 DEF StacksRight, MainStays
  <2> QED BY <1>1, <1>3, <1>7, <1>15, <2>5, <2>6, AfterSwitch
<1> QED BY <1>16, <1>17

-----------------------------------------------------------------------------
(* The steps of a hand-off *)

(* What every step inside the library starts from.                          *)
LEMMA Inside ==
  ASSUME IInv, JInv, Running, cpu.at \in LibraryLabels, cpu.at # "x6"
  PROVE  /\ ~first_call /\ curr_TID \in Tid /\ cpu.flow \in Tid /\ 0 \in Tid
         /\ status \in [Tid -> Status] /\ reg \in [Tid -> Context]
         /\ target \in [Tid -> Tid \cup {NoTid}] /\ stack \in [Tid -> {"none", "owned", "freed"}]
         /\ local \in [Tid -> Tid \cup {NoTid}] /\ total_threads \in Int
         /\ \A t \in Tid : target[t] # NoTid <=> target[t] \in Tid
         /\ Targets(status, reg, target, joining) /\ OneJoiner(target)
         /\ Notes(status, target, joining, curr_TID) /\ Returning(status, target, curr_TID)
         /\ Fresh(status, reg, pos) /\ CpuRight /\ StacksRight /\ CountFits
         /\ Live \in SUBSET Tid /\ Taken \in SUBSET Tid
<1>1. ~first_call
  BY DEF IInv, BeforeFirstCall, LibraryLabels
<1>2. 0 \in Tid
  BY MaxAssumption DEF Tid
<1>3. \A t \in Tid : target[t] # NoTid <=> target[t] \in Tid
  BY DEF IInv, TypeOK, NoTid, Tid
<1> QED BY <1>1, <1>2, <1>3 DEF IInv, TypeOK, JInv, JoinsRight, Live, Taken

(* The joiner that a waiting pthread_exit returns to is blocked for it.     *)
LEMMA Entered ==
  ASSUME IInv, JInv, Running, cpu.at \in {"k1", "x1", "x2", "x3", "x4", "x5"}
  PROVE  /\ local[cpu.flow] \in Tid /\ target[local[cpu.flow]] = curr_TID
         /\ status[local[cpu.flow]] = "BLOCKED" /\ local[cpu.flow] < curr_TID
         /\ curr_TID # 0 /\ target[curr_TID] = NoTid /\ reg[curr_TID].at = "x1"
         /\ status[curr_TID] = IF cpu.at \in {"k1", "x1"} THEN "WAITING" ELSE "EXITED"
<1>1. /\ Targets(status, reg, target, joining) /\ CpuRight /\ curr_TID \in Tid /\ cpu.flow \in Tid
      /\ local \in [Tid -> Tid \cup {NoTid}]
  BY Inside DEF LibraryLabels
<1>2. /\ target[local[cpu.flow]] = curr_TID /\ status[local[cpu.flow]] = "BLOCKED"
      /\ reg[curr_TID].at = "x1"
      /\ status[curr_TID] = IF cpu.at \in {"k1", "x1"} THEN "WAITING" ELSE "EXITED"
  BY <1>1 DEF CpuRight, JoinerEntered
<1>3. local[cpu.flow] \in Tid
  BY <1>1 DEF IInv, JoinerKnown
<1>4. local[cpu.flow] < curr_TID
  BY <1>1, <1>2, <1>3 DEF Targets, NoTid, Tid
<1>5. curr_TID # 0
  BY <1>3, <1>4 DEF Tid
<1>6. target[curr_TID] = NoTid
  BY <1>1, <1>2 DEF Targets
<1> QED BY <1>2, <1>3, <1>4, <1>5, <1>6

LEMMA ToMain0KeepsJInv == ASSUME IInv, JInv, ExitToMain0 PROVE JInv'
<1>1. /\ Running /\ cpu.at = "e0" /\ cpu'.at = "e1" /\ curr_TID' = 0
      /\ UNCHANGED <<status, joining, exitcode, stack, reg, total_threads, first_call, pos, target,
                     local, proc>>
  BY DEF ExitToMain0, At, Running, Goto, IInv, TypeOK, tcb
<1>2. /\ ~first_call
      /\ Targets(status, reg, target, joining) /\ OneJoiner(target)
      /\ Notes(status, target, joining, curr_TID) /\ Returning(status, target, curr_TID)
      /\ Fresh(status, reg, pos) /\ CpuRight /\ StacksRight /\ CountFits
  BY <1>1, Inside DEF LibraryLabels
<1>3. ASSUME NEW w, Dead(status, target, curr_TID, w) PROVE Dead(status, target, 0, w)
  BY <1>3, StaysDead, DeadStatus
<1>4. JoinsRight(status, reg, target, joining, 0)
  BY <1>2, <1>3 DEF JoinsRight, Notes, Returning
<1>5. JoinsRight(status', reg', target', joining', curr_TID') /\ Fresh(status', reg', pos')
  BY <1>1, <1>2, <1>4
<1>6. CpuRight'
  BY <1>1, <1>2 DEF CpuRight, UserMarked, NobodyReady, WaiterKnown, JoinerEntered, JoinerNext, JoinerBack,
     LibraryLabels
<1>7. StacksRight' /\ CountFits'
  BY <1>1, <1>2 DEF StacksRight, FreedHasExited, CreatedTaken, MainStays, CountFits, Live, Taken, Uncounting
<1> QED BY <1>1, <1>2, <1>5, <1>6, <1>7 DEF JInv, NothingYet

(* A longjmp leaves the table alone and goes on in the thread's own buffer. *)
LEMMA JumpKeepsJInv ==
  ASSUME IInv, JInv, Running, ~first_call, Running', NEW v, Resume(reg[curr_TID], v),
         cpu.at \in {"e1", "k1", "x6"}, CpuRight', UNCHANGED <<tcb, globals, target>>,
         \A t \in Tid \ {0} : pos'[t] = pos[t], cpu'.at \notin {"x2", "x3"}
  PROVE  JInv' /\ NotReplayed
<1>1. /\ JoinsRight(status, reg, target, joining, curr_TID) /\ Fresh(status, reg, pos)
      /\ StacksRight /\ CountFits
  BY DEF JInv
<1>2. UNCHANGED <<status, joining, exitcode, stack, reg, curr_TID, total_threads, first_call, target>>
  BY DEF tcb, globals
<1>3. JoinsRight(status', reg', target', joining', curr_TID') /\ Fresh(status', reg', pos')
  BY <1>1, <1>2 DEF Fresh
<1>4. StacksRight' /\ CountFits'
  BY <1>1, <1>2 DEF StacksRight, FreedHasExited, CreatedTaken, MainStays, CountFits, Live, Taken, Uncounting
<1>5. NotReplayed
  BY DEF NotReplayed, IInv, TypeOK
<1> QED BY <1>2, <1>3, <1>4, <1>5 DEF JInv, NothingYet

LEMMA ToMain1KeepsJInv == ASSUME IInv, JInv, ExitToMain1 PROVE JInv' /\ (Running' => NotReplayed)
<1> SUFFICES ASSUME Running' PROVE JInv' /\ NotReplayed
  BY DEF JInv
<1>1. /\ Running /\ cpu.at = "e1" /\ curr_TID = 0 /\ Resume(reg[0], NoTid)
      /\ UNCHANGED <<tcb, globals, target>>
  BY DEF ExitToMain1, At, Running, IInv, MainIsNext
<1>2. /\ ~first_call /\ 0 \in Tid
      /\ status \in [Tid -> Status] /\ reg \in [Tid -> Context] /\ target \in [Tid -> Tid \cup {NoTid}]
      /\ Targets(status, reg, target, joining) /\ CpuRight /\ StacksRight
      /\ \A t \in Tid : target[t] # NoTid <=> target[t] \in Tid
  BY <1>1, Inside DEF LibraryLabels
<1>3. /\ TypeOK /\ reg[0] \in Context /\ reg[0].at \in SavedAt /\ reg[0].flow = 0
  BY <1>2 DEF IInv, ContextOwner, BuffersSaved
<1>4. /\ \A t \in Tid \ {0} : pos'[t] = pos[t]
      /\ reg[0].at # "none" /\ reg[0].at # "x1"
      /\ cpu'.flow = 0 /\ cpu'.at = IF reg[0].at = "start" THEN "user" ELSE reg[0].at
  BY <1>1, <1>3, ResumeFresh
<1>5. /\ cpu'.at \in {"user", "j1"} \cup ClientLabels
      /\ cpu'.at = "j1" <=> reg[0].at = "j1"
      /\ cpu'.at \notin LibraryLabels \ {"j1"}
  BY <1>3, <1>4, ClientAssumption DEF SavedAt, LibraryLabels
<1>6. \A t \in Tid : /\ status[t] # "RUNNING"
                     /\ t # 0 => status[t] # "READY"
  BY <1>1, <1>2 DEF IInv, NoneRunsInHandOff, LibraryLabels, CpuRight, NobodyReady
<1>7. reg[0].at = "j1" <=> target[0] # NoTid
  <2>1. status[0] \notin {"FRESH", "EXITED", "RUNNING", "WAITING"}
    BY <1>2, <1>4, <1>6 DEF StacksRight, MainStays, Targets
  <2>2. status[0] \in {"READY", "BLOCKED"}
    BY <1>2, <2>1 DEF Status
  <2> QED BY <1>2, <2>2 DEF Targets
<1>8. ASSUME cpu'.at = "j1"
      PROVE  /\ target[0] # NoTid
             /\ status[target[0]] \in Ended \/ Dead(status, target, 0, target[0])
  <2>1. target[0] \in Tid /\ 0 < target[0] /\ status[target[0]] # "FRESH"
    BY <1>2, <1>5, <1>7, <1>8 DEF Targets
  <2>2. target[0] > 0
    BY <2>1 DEF Tid
  <2>3. \A x \in Tid : x > 0 => status[x] \notin {"READY", "RUNNING"}
    BY <1>6
  <2>4. status[target[0]] # "WAITING" => Dead(status, target, 0, target[0])
    BY <1>2, <2>1, <2>2, <2>3, NoneLeft
  <2> QED BY <1>5, <1>7, <1>8, <2>4 DEF Ended
<1>9. CpuRight'
  <2>1. UNCHANGED <<status, target, curr_TID, reg>>
    BY <1>1 DEF tcb, globals
  <2>2. UserMarked'
    BY <1>4, <1>5, <1>7, <2>1 DEF UserMarked, LibraryLabels
  <2>3. JoinerBack'
    BY <1>1, <1>8, <2>1 DEF JoinerBack
  <2>4. NobodyReady' /\ WaiterKnown' /\ JoinerEntered' /\ JoinerNext'
    BY <1>5 DEF NobodyReady, WaiterKnown, JoinerEntered, JoinerNext, LibraryLabels
  <2> QED BY <2>2, <2>3, <2>4 DEF CpuRight
<1>10. cpu'.at \notin {"x2", "x3"} /\ Resume(reg[curr_TID], NoTid)
  BY <1>1, <1>5 DEF LibraryLabels
<1> QED BY <1>1, <1>2, <1>4, <1>9, <1>10, JumpKeepsJInv

LEMMA Tail6KeepsJInv == ASSUME IInv, JInv, Tail6 PROVE JInv' /\ (Running' => NotReplayed)
<1> SUFFICES ASSUME Running' PROVE JInv' /\ NotReplayed
  BY DEF JInv
<1> DEFINE c == curr_TID
<1>1. /\ Running /\ cpu.at = "x6" /\ Resume(reg[c], NoTid) /\ UNCHANGED <<tcb, globals, target>>
  BY DEF Tail6, At, Running
<1>2. /\ TypeOK /\ c \in Tid /\ reg[c] \in Context /\ reg[c].at \in SavedAt /\ reg[c].flow = c
  BY DEF IInv, TypeOK, ContextOwner, BuffersSaved
<1>3. ~first_call
  <2>1. reg[c].at # "none"
    BY <1>1 DEF Resume, Running
  <2> QED BY <1>2, <2>1 DEF IInv, BeforeFirstCall
<1>4. /\ status[c] = "BLOCKED" /\ target[c] # NoTid /\ status[target[c]] = "EXITED"
      /\ Targets(status, reg, target, joining) /\ Fresh(status, reg, pos)
  BY <1>1, <1>3 DEF JInv, CpuRight, JoinerNext, JoinsRight
<1>5. reg[c].at = "j1" /\ (c # 0 => reg[c].pos = pos[c])
  BY <1>2, <1>4 DEF Targets, Fresh
<1>6. /\ \A t \in Tid \ {0} : pos'[t] = pos[t]
      /\ cpu'.flow = c /\ cpu'.at = "j1"
  BY <1>1, <1>2, <1>5, ResumeFresh
<1>7. CpuRight'
  <2>1. UNCHANGED <<status, target, curr_TID, reg>>
    BY <1>1 DEF tcb, globals
  <2>2. JoinerBack'
    BY <1>4, <2>1 DEF JoinerBack, Ended
  <2> QED
    BY <1>6, <2>2 DEF CpuRight, UserMarked, NobodyReady, WaiterKnown, JoinerEntered, JoinerNext,
       LibraryLabels
<1> QED BY <1>1, <1>3, <1>6, <1>7, JumpKeepsJInv

LEMMA JoinJumpsKeepsJInv == ASSUME IInv, JInv, JoinJumps PROVE JInv' /\ (Running' => NotReplayed)
<1> SUFFICES ASSUME Running' PROVE JInv' /\ NotReplayed
  BY DEF JInv
<1> DEFINE c == curr_TID
           s == local[cpu.flow]
<1>1. /\ Running /\ cpu.at = "k1" /\ Resume(reg[c], s) /\ UNCHANGED <<tcb, globals, target>>
  BY DEF JoinJumps, At, Running
<1>2. /\ TypeOK /\ c \in Tid /\ reg[c] \in Context /\ reg[c].at \in SavedAt /\ reg[c].flow = c
  BY DEF IInv, TypeOK, ContextOwner, BuffersSaved
<1>3. /\ ~first_call /\ Fresh(status, reg, pos)
  BY <1>1, Inside DEF LibraryLabels
<1>4. /\ target[s] = c /\ status[s] = "BLOCKED" /\ c # 0
      /\ reg[c].at = "x1" /\ status[c] = "WAITING"
  BY <1>1, Entered
<1>5. reg[c].pos = pos[c]
  BY <1>2, <1>3, <1>4 DEF Fresh
<1>6. /\ \A t \in Tid \ {0} : pos'[t] = pos[t]
      /\ cpu'.flow = c /\ cpu'.at = "x1" /\ local'[c] = s
  BY <1>1, <1>2, <1>4, <1>5, ResumeFresh
<1>7. CpuRight'
  <2>1. UNCHANGED <<status, target, curr_TID, reg>>
    BY <1>1 DEF tcb, globals
  <2>2. JoinerEntered'
    BY <1>4, <1>6, <2>1 DEF JoinerEntered
  <2> QED
    BY <1>6, <2>2 DEF CpuRight, UserMarked, NobodyReady, WaiterKnown, JoinerBack, JoinerNext,
       LibraryLabels
<1> QED BY <1>1, <1>3, <1>6, <1>7, JumpKeepsJInv

(* The tail of pthread_exit, store by store.                                *)
LEMMA Tail1KeepsJInv == ASSUME IInv, JInv, Tail1 PROVE JInv'
<1> DEFINE c == curr_TID
           s == local[cpu.flow]
<1>1. Running /\ cpu.at = "x1"
  BY DEF Tail1, At, Running
<1>2. /\ ~first_call /\ c \in Tid /\ status \in [Tid -> Status]
      /\ target \in [Tid -> Tid \cup {NoTid}] /\ total_threads \in Int
      /\ \A t \in Tid : target[t] # NoTid <=> target[t] \in Tid
      /\ Targets(status, reg, target, joining) /\ OneJoiner(target)
      /\ Notes(status, target, joining, c) /\ Returning(status, target, c)
      /\ Fresh(status, reg, pos) /\ StacksRight /\ CountFits
      /\ Live \in SUBSET Tid /\ Taken \in SUBSET Tid
  BY <1>1, Inside DEF LibraryLabels
<1>3. /\ s \in Tid /\ target[s] = c /\ status[s] = "BLOCKED" /\ s < c
      /\ c # 0 /\ target[c] = NoTid /\ reg[c].at = "x1" /\ status[c] = "WAITING"
  BY <1>1, Entered
<1>4. /\ status' = [status EXCEPT ![c] = "EXITED"] /\ Goto("x2")
      /\ UNCHANGED <<joining, exitcode, stack, reg, globals, pos, target, local, proc>>
  BY <1>3 DEF Tail1
<1>5. cpu'.at = "x2" /\ cpu'.flow = cpu.flow
  BY <1>4 DEF Goto, IInv, TypeOK
<1>6. status'[c] = "EXITED" /\ \A t \in Tid \ {c} : status'[t] = status[t]
  BY <1>2, <1>4
<1> HIDE DEF c, s
<1>7. ASSUME NEW w, Dead(status, target, c, w) PROVE Dead(status', target, c, w)
  <2>1. \A D \in SUBSET Tid : DeadSet(status, target, c, D) =>
          c \notin D /\ \A x \in D : status'[x] = status[x] /\ target[x] = target[x]
    BY <1>6, DeadStatus
  <2> QED BY <1>7, <2>1, StaysDead
<1>8. JoinsRight(status', reg, target, joining, c)
  <2>1. Targets(status', reg, target, joining)
    BY <1>2, <1>3, <1>6 DEF Targets, Ended
  <2>2. Notes(status', target, joining, c)
    BY <1>2, <1>6, <1>7 DEF Notes
  <2>3. Returning(status', target, c)
    <3> SUFFICES ASSUME NEW u \in Tid, target[u] # NoTid, status'[u] # "BLOCKED"
                 PROVE  status'[target[u]] \in Ended \/ Dead(status', target, c, target[u])
      BY DEF Returning
    <3>1. u # c /\ target[u] \in Tid
      BY <1>2, <1>3
    <3>2. status[target[u]] \in Ended \/ Dead(status, target, c, target[u])
      BY <1>2, <1>6, <3>1 DEF Returning
    <3> QED BY <1>6, <1>7, <3>1, <3>2 DEF Ended
  <2> QED BY <1>2, <2>1, <2>2, <2>3 DEF JoinsRight
<1>9. JoinsRight(status', reg', target', joining', curr_TID') /\ Fresh(status', reg', pos')
  <2>1. UNCHANGED <<reg, target, joining, curr_TID, pos>>
    BY <1>4 DEF globals
  <2>2. Fresh(status', reg, pos)
    BY <1>2, <1>6 DEF Fresh
  <2> QED BY <1>8, <2>1, <2>2 DEF c
<1>10. CpuRight'
  <2>1. UNCHANGED <<reg, target, local, curr_TID>> /\ s # c
    BY <1>3, <1>4 DEF globals, Tid
  <2>2. JoinerEntered'
    BY <1>3, <1>5, <1>6, <2>1 DEF JoinerEntered, s, c
  <2> QED
    BY <1>5, <2>2 DEF CpuRight, UserMarked, NobodyReady, WaiterKnown, JoinerBack, JoinerNext, LibraryLabels
<1>11. StacksRight'
  <2>1. UNCHANGED <<stack, joining, first_call>> /\ 0 \in Tid \ {c}
    BY <1>3, <1>4, MaxAssumption DEF globals, Tid
  <2> QED BY <1>2, <1>3, <1>6, <2>1 DEF StacksRight, FreedHasExited, CreatedTaken, MainStays
<1>12. CountFits'
  <2>1. Live' = Live \ {c} /\ Taken' = Taken /\ c \in Live
    BY <1>2, <1>3, <1>6 DEF Live, Taken
  <2>2. Cardinality(Live) \in Nat /\ Cardinality(Live \ {c}) = Cardinality(Live) - 1
    BY <1>2, <2>1, TidFinite
  <2>3. Uncounting = 0 /\ Uncounting' = 1 /\ total_threads' = total_threads
    BY <1>1, <1>4, <1>5 DEF Uncounting, globals
  <2>4. Cardinality(Live) + 0 <= total_threads /\ total_threads <= Cardinality(Taken)
    BY <1>2, <2>3 DEF CountFits
  <2>5. Cardinality(Live) - 1 + 1 <= total_threads
    BY <1>2, <2>2, <2>4
  <2> QED BY <2>1, <2>2, <2>3, <2>4, <2>5 DEF CountFits
<1> QED BY <1>2, <1>4, <1>9, <1>10, <1>11, <1>12 DEF JInv, NothingYet, globals

(* The stores between leave the statuses and the joiner alone.              *)
LEMMA MiddleKeepsJInv ==
  ASSUME IInv, JInv, Running, cpu.at \in {"x2", "x3", "x4"}, NEW l \in {"x3", "x4", "x5"}, Goto(l),
         \A t \in Tid : stack'[t] = "freed" => stack[t] = "freed" \/ t = curr_TID,
         \A t \in Tid : stack'[t] = "none" <=> stack[t] = "none",
         Cardinality(Live) + Uncounting' <= total_threads' /\ total_threads' <= Cardinality(Taken),
         UNCHANGED <<status, joining, reg, curr_TID, first_call, pos, target, local, proc>>
  PROVE  JInv'
<1> DEFINE c == curr_TID
           s == local[cpu.flow]
<1>1. /\ ~first_call /\ c \in Tid /\ 0 \in Tid
      /\ JoinsRight(status, reg, target, joining, c)
      /\ Fresh(status, reg, pos) /\ StacksRight
  BY Inside DEF LibraryLabels, JoinsRight
<1>2. /\ target[s] = c /\ status[s] = "BLOCKED" /\ c # 0
      /\ reg[c].at = "x1" /\ status[c] = "EXITED"
  BY Entered
<1>3. cpu'.at = l /\ cpu'.flow = cpu.flow
  BY DEF Goto, IInv, TypeOK
<1>4. CpuRight'
  <2>1. JoinerEntered'
    BY <1>2, <1>3 DEF JoinerEntered
  <2> QED
    BY <1>3, <2>1 DEF CpuRight, UserMarked, NobodyReady, WaiterKnown, JoinerBack, JoinerNext, LibraryLabels
<1>5. StacksRight'
  BY <1>1, <1>2 DEF StacksRight, FreedHasExited, CreatedTaken, MainStays
<1>6. CountFits'
  <2>1. Live' = Live /\ Taken' = Taken
    BY DEF Live, Taken
  <2> QED BY <2>1 DEF CountFits
<1>7. JoinsRight(status', reg', target', joining', curr_TID') /\ Fresh(status', reg', pos')
  BY <1>1
<1> QED BY <1>1, <1>4, <1>5, <1>6, <1>7 DEF JInv, NothingYet

LEMMA TailKeepsJInv == ASSUME IInv, JInv, Tail2 \/ Tail3 \/ Tail4 PROVE JInv'
<1>1. Running /\ cpu.at \in {"x2", "x3", "x4"}
  BY DEF Tail2, Tail3, Tail4, At, Running
<1>2. /\ ~first_call /\ CountFits /\ total_threads \in Int /\ curr_TID \in Tid
      /\ stack \in [Tid -> {"none", "owned", "freed"}]
      /\ Cardinality(Live) \in Nat /\ Cardinality(Taken) \in Nat
  BY <1>1, Inside, TidFinite DEF LibraryLabels
<1>3. \A l \in {"x3", "x4", "x5"} : Goto(l) => cpu'.at = l
  BY DEF Goto, IInv, TypeOK
<1>4. CASE Tail2
  <2>1. CASE Ends("crashed")
    BY <2>1 DEF Ends, JInv, Running
  <2>2. CASE ~Ends("crashed")
    <3>1. /\ cpu.at = "x2" /\ Goto("x3")
          /\ stack' = [stack EXCEPT ![curr_TID] = IF @ = "owned" THEN "freed" ELSE @]
          /\ UNCHANGED <<status, joining, exitcode, reg, globals, pos, target, local, proc>>
      BY <1>4, <2>2 DEF Tail2, At
    <3>2. Uncounting = 1 /\ Uncounting' = 1
      BY <1>3, <3>1 DEF Uncounting
    <3>3. /\ \A t \in Tid : stack'[t] = "freed" => stack[t] = "freed" \/ t = curr_TID
          /\ \A t \in Tid : stack'[t] = "none" <=> stack[t] = "none"
      BY <1>2, <3>1
    <3>4. Cardinality(Live) + Uncounting' <= total_threads' /\ total_threads' <= Cardinality(Taken)
      BY <1>2, <3>1, <3>2 DEF CountFits, globals
    <3>5. UNCHANGED <<status, joining, reg, curr_TID, first_call, pos, target, local, proc>>
      BY <3>1 DEF globals
    <3> QED BY <1>1, <3>1, <3>3, <3>4, <3>5, MiddleKeepsJInv
  <2> QED BY <2>1, <2>2
<1>5. CASE Tail3
  <2>1. /\ cpu.at = "x3" /\ Goto("x4") /\ total_threads' = total_threads - 1
        /\ UNCHANGED <<status, joining, stack, reg, curr_TID, first_call, pos, target, local, proc>>
    BY <1>5 DEF Tail3, At, tcb
  <2>2. Uncounting = 1 /\ Uncounting' = 0
    BY <1>3, <2>1 DEF Uncounting
  <2>3. Cardinality(Live) + 1 <= total_threads /\ total_threads <= Cardinality(Taken)
    BY <1>2, <2>2 DEF CountFits
  <2>4. Cardinality(Live) + 0 <= total_threads - 1 /\ total_threads - 1 <= Cardinality(Taken)
    BY <1>2, <2>3
  <2> QED BY <1>1, <2>1, <2>2, <2>4, MiddleKeepsJInv
<1>6. CASE Tail4
  <2>1. /\ cpu.at = "x4" /\ Goto("x5") /\ total_threads' = total_threads
        /\ UNCHANGED <<status, joining, stack, reg, curr_TID, first_call, pos, target, local, proc>>
    BY <1>6 DEF Tail4, At, globals
  <2>2. Uncounting = 0 /\ Uncounting' = 0
    BY <1>3, <2>1 DEF Uncounting
  <2>3. Cardinality(Live) + Uncounting' <= total_threads' /\ total_threads' <= Cardinality(Taken)
    BY <1>2, <2>1, <2>2 DEF CountFits
  <2> QED BY <1>1, <2>1, <2>3, MiddleKeepsJInv
<1> QED BY <1>4, <1>5, <1>6

LEMMA Tail5KeepsJInv == ASSUME IInv, JInv, Tail5 PROVE JInv'
<1> DEFINE c == curr_TID
           s == local[cpu.flow]
<1>1. /\ Running /\ cpu.at = "x5" /\ cpu'.at = "x6" /\ curr_TID' = s
      /\ UNCHANGED <<status, joining, stack, reg, total_threads, first_call, pos, target, proc>>
  BY DEF Tail5, At, Running, Goto, IInv, TypeOK, tcb
<1>2. /\ ~first_call /\ c \in Tid
      /\ Targets(status, reg, target, joining) /\ OneJoiner(target)
      /\ Notes(status, target, joining, c) /\ Returning(status, target, c)
      /\ Fresh(status, reg, pos) /\ StacksRight /\ CountFits
  BY <1>1, Inside DEF LibraryLabels
<1>3. /\ s \in Tid /\ target[s] = c /\ status[s] = "BLOCKED" /\ status[c] = "EXITED"
  BY <1>1, Entered
<1> HIDE DEF c, s
<1>4. ASSUME NEW w, Dead(status, target, c, w) PROVE Dead(status, target, s, w)
  <2>1. \A D \in SUBSET Tid : DeadSet(status, target, c, D) => s \notin D
    BY <1>3 DEF DeadSet
  <2> QED BY <1>4, <2>1, StaysDead
<1>5. JoinsRight(status, reg, target, joining, s)
  BY <1>2, <1>4 DEF JoinsRight, Notes, Returning
<1>6. JoinsRight(status', reg', target', joining', curr_TID') /\ Fresh(status', reg', pos')
  BY <1>1, <1>2, <1>5
<1>7. CpuRight'
  <2>1. JoinerNext'
    BY <1>1, <1>2, <1>3 DEF JoinerNext, NoTid, Tid
  <2> QED
    BY <1>1, <2>1 DEF CpuRight, UserMarked, NobodyReady, WaiterKnown, JoinerEntered, JoinerBack, LibraryLabels
<1>8. StacksRight' /\ CountFits'
  BY <1>1, <1>2 DEF StacksRight, FreedHasExited, CreatedTaken, MainStays, CountFits, Live, Taken, Uncounting
<1> QED BY <1>1, <1>2, <1>6, <1>7, <1>8 DEF JInv, NothingYet

LEMMA JoinReturnsKeepsJInv == ASSUME IInv, JInv, JoinReturns PROVE JInv'
<1> DEFINE c == curr_TID
           w == target[c]
<1>1. /\ Running /\ cpu.at = "j1" /\ cpu'.at = "user" /\ cpu'.flow = c /\ cpu.flow = c
      /\ status' = [status EXCEPT ![c] = "RUNNING"]
      /\ target' = [target EXCEPT ![c] = NoTid]
      /\ pos' = [pos EXCEPT ![c] = @ + 1]
      /\ UNCHANGED <<joining, stack, reg, curr_TID, total_threads, first_call, proc>>
  BY DEF JoinReturns, At, Running, Goto, IInv, TypeOK, FlowIsCurr, globals
<1>2. /\ ~first_call /\ c \in Tid /\ status \in [Tid -> Status] /\ 0 \in Tid
      /\ target \in [Tid -> Tid \cup {NoTid}] /\ pos \in [Tid -> Nat]
      /\ \A t \in Tid : target[t] # NoTid <=> target[t] \in Tid
      /\ Targets(status, reg, target, joining) /\ OneJoiner(target)
      /\ Notes(status, target, joining, c) /\ Returning(status, target, c)
      /\ Fresh(status, reg, pos) /\ CpuRight /\ StacksRight /\ CountFits
  BY <1>1, Inside DEF LibraryLabels, IInv, TypeOK
<1>3. /\ w \in Tid /\ status[c] \in {"BLOCKED", "READY", "RUNNING"}
      /\ status[w] \in Ended \/ Dead(status, target, c, w)
  BY <1>1, <1>2 DEF CpuRight, JoinerBack, Targets
<1>4. /\ status'[c] = "RUNNING" /\ \A t \in Tid \ {c} : status'[t] = status[t]
      /\ target'[c] = NoTid /\ \A t \in Tid \ {c} : target'[t] = target[t]
      /\ \A t \in Tid \ {c} : pos'[t] = pos[t]
  BY <1>1, <1>2
<1> HIDE DEF c, w
<1>5. ASSUME NEW x, Dead(status, target, c, x) PROVE Dead(status', target', c, x)
  <2>1. \A D \in SUBSET Tid : DeadSet(status, target, c, D) =>
          c \notin D /\ \A y \in D : status'[y] = status[y] /\ target'[y] = target[y]
    BY <1>4, DeadStatus
  <2> QED BY <1>5, <2>1, StaysDead
<1>6. Targets(status', reg, target', joining)
  BY <1>2, <1>3, <1>4 DEF Targets, Ended
<1>7. OneJoiner(target')
  BY <1>2, <1>4 DEF OneJoiner
<1>8. Notes(status', target', joining, c)
  <2> SUFFICES ASSUME NEW x \in Tid, joining[x] # NoTid
               PROVE  /\ status'[x] \notin {"WAITING", "FRESH"}
                      /\ status'[x] = "EXITED" \/ target'[joining[x]] = x \/ Dead(status', target', c, x)
    BY DEF Notes
  <2>1. /\ status[x] \notin {"WAITING", "FRESH"}
        /\ status[x] = "EXITED" \/ target[joining[x]] = x \/ Dead(status, target, c, x)
    BY <1>2 DEF Notes
  <2>2. status'[x] \notin {"WAITING", "FRESH"} /\ (status[x] = "EXITED" => status'[x] = "EXITED")
    BY <1>3, <1>4, <2>1
  <2>3. joining[x] \in Tid
    BY DEF IInv, TypeOK
  <2>4. CASE target[joining[x]] = x /\ joining[x] # c
    BY <1>4, <2>2, <2>3, <2>4
  <2>5. CASE target[joining[x]] = x /\ joining[x] = c
    BY <1>3, <1>5, <2>1, <2>2, <2>5 DEF w, Ended
  <2> QED BY <1>5, <2>1, <2>2, <2>4, <2>5
<1>9. Returning(status', target', c)
  <2> SUFFICES ASSUME NEW u \in Tid, target'[u] # NoTid, status'[u] # "BLOCKED"
               PROVE  status'[target'[u]] \in Ended \/ Dead(status', target', c, target'[u])
    BY DEF Returning
  <2>1. u # c /\ target'[u] = target[u] /\ target[u] \in Tid
    BY <1>2, <1>4
  <2>2. status[target[u]] \in Ended \/ Dead(status, target, c, target[u])
    BY <1>2, <1>4, <2>1 DEF Returning
  <2>3. CASE Dead(status, target, c, target[u])
    BY <1>5, <2>1, <2>3
  <2>4. CASE status[target[u]] \in Ended
    BY <1>3, <1>4, <2>1, <2>4 DEF Ended
  <2> QED BY <2>2, <2>3, <2>4
<1>10. JoinsRight(status', reg', target', joining', curr_TID')
  <2>1. JoinsRight(status', reg, target', joining, c)
    BY <1>6, <1>7, <1>8, <1>9 DEF JoinsRight
  <2>2. reg' = reg /\ joining' = joining /\ curr_TID' = c
    BY <1>1 DEF c
  <2> QED BY <2>1, <2>2
<1>11. Fresh(status', reg', pos')
  <2>1. Fresh(status', reg, pos')
    BY <1>2, <1>4 DEF Fresh
  <2> QED BY <1>1, <2>1
<1>12. CpuRight'
  BY <1>1, <1>4 DEF CpuRight, UserMarked, NobodyReady, WaiterKnown, JoinerEntered, JoinerBack, JoinerNext
<1>13. StacksRight'
  BY <1>1, <1>2, <1>3, <1>4 DEF StacksRight, FreedHasExited, CreatedTaken, MainStays
<1>14. CountFits'
  <2>1. Live' = Live /\ Taken' = Taken
    BY <1>3, <1>4 DEF Live, Taken
  <2> QED BY <1>1, <1>2, <2>1 DEF CountFits, Uncounting
<1> QED BY <1>1, <1>2, <1>10, <1>11, <1>12, <1>13, <1>14 DEF JInv, NothingYet

-----------------------------------------------------------------------------
(* pthread_join *)

(* The caller has blocked itself for t: the thread that runs next is d,     *)
(* and jn holds the notes.                                                  *)
LEMMA Blocks ==
  ASSUME IInv, JInv, NEW t \in Tid, Join(t), status[t] # "EXITED", NEW d, NEW jn,
         \/ status[t] = "WAITING" /\ d = t /\ jn = joining
         \/ status[t] # "WAITING" /\ d = curr_TID /\ jn = [joining EXCEPT ![t] = curr_TID]
  PROVE  LET st == [status EXCEPT ![curr_TID] = "BLOCKED"]
             rg == [reg EXCEPT ![curr_TID] = Here("j1")]
             tg == [target EXCEPT ![curr_TID] = t]
         IN  /\ JoinsRight(st, rg, tg, jn, d) /\ Fresh(st, rg, pos)
             /\ t # curr_TID /\ t # 0 /\ jn[0] = NoTid /\ ~first_call
             /\ \A u \in Tid : (st[u] = "FRESH" <=> status[u] = "FRESH")
                               /\ (st[u] = "EXITED" <=> status[u] = "EXITED")
<1> DEFINE c == curr_TID
           st == [status EXCEPT ![c] = "BLOCKED"]
           rg == [reg EXCEPT ![c] = Here("j1")]
           tg == [target EXCEPT ![c] = t]
<1>1. At("user") /\ ~first_call
  BY DEF Join, Joinable, Created, IInv, BeforeFirstCall
<1>2. /\ Running /\ cpu.at = "user" /\ cpu.flow = c /\ c \in Tid /\ 0 \in Tid
      /\ status \in [Tid -> Status] /\ reg \in [Tid -> Context]
      /\ target \in [Tid -> Tid \cup {NoTid}] /\ joining \in [Tid -> Tid \cup {NoTid}]
      /\ target[c] = NoTid /\ (c # 0 => status[c] = "RUNNING")
      /\ StacksRight
  BY <1>1, Caller
<1>3. /\ status[c] \notin {"FRESH", "EXITED", "BLOCKED"}
      /\ JoinsRight(status, reg, target, joining, c) /\ Fresh(status, reg, pos)
  BY <1>1, Caller
<1>4. Targets(status, reg, target, joining) /\ OneJoiner(target)
      /\ Notes(status, target, joining, c) /\ Returning(status, target, c)
  BY <1>3 DEF JoinsRight
<1>5. /\ c < t /\ stack[t] # "none" /\ \A u \in Tid : target[u] # t
      /\ joining[t] = NoTid
  BY <1>2 DEF Join, Joinable, Created
<1>6. t # c /\ t # 0 /\ status[t] # "FRESH"
  BY <1>1, <1>2, <1>5 DEF StacksRight, CreatedTaken, Tid
<1>7. /\ st[c] = "BLOCKED" /\ rg[c] = Here("j1") /\ tg[c] = t
      /\ \A u \in Tid \ {c} : st[u] = status[u] /\ rg[u] = reg[u] /\ tg[u] = target[u]
  BY <1>2
<1>8. Here("j1").at = "j1" /\ Here("j1").pos = pos[c]
  BY <1>2 DEF Here
<1>9. /\ \A u \in Tid \ {t} : jn[u] = joining[u]
      /\ status[t] \notin Ended => jn[t] = c
      /\ jn[t] # NoTid => jn[t] = c /\ status[t] # "WAITING"
  BY <1>2, <1>5 DEF Ended
<1>10. d = c \/ (d = t /\ status[t] = "WAITING")
  BY DEF Ended
<1> HIDE DEF c, st, rg, tg
<1>11. t # NoTid /\ c # NoTid /\ \A u \in Tid : target[u] # NoTid <=> target[u] \in Tid
  BY <1>2 DEF NoTid, Tid
(* who waits for the caller goes on waiting for it *)
<1>12. ASSUME NEW u \in Tid, target[u] = c
       PROVE  status[c] = "RUNNING" /\ joining[c] = u /\ status[u] = "BLOCKED"
  <2>1. u < c /\ (status[c] \notin Ended => joining[c] = u)
    BY <1>4, <1>11, <1>12 DEF Targets
  <2>2. status[c] = "RUNNING"
    BY <1>2, <2>1 DEF Tid
  <2>3. ~Dead(status, target, c, c)
    BY DEF Dead, DeadSet
  <2>4. status[u] = "BLOCKED"
    BY <1>4, <1>11, <1>12, <2>2, <2>3 DEF Returning, Ended
  <2> QED BY <2>1, <2>2, <2>4 DEF Ended
<1>13. ASSUME NEW w, Dead(status, target, c, w) PROVE Dead(st, tg, d, w)
  <2>1. \A D \in SUBSET Tid : DeadSet(status, target, c, D) =>
          d \notin D /\ \A x \in D : st[x] = status[x] /\ tg[x] = target[x]
    <3> SUFFICES ASSUME NEW D \in SUBSET Tid, DeadSet(status, target, c, D)
                 PROVE  d \notin D /\ \A x \in D : st[x] = status[x] /\ tg[x] = target[x]
      OBVIOUS
    <3>1. \A x \in D : x # c
      BY DeadStatus
    <3>2. status[t] = "WAITING" => t \notin D
      BY <1>5 DEF DeadSet
    <3>3. d \notin D
      BY <1>10, <3>1, <3>2
    <3> QED BY <1>7, <3>1, <3>3
  <2> QED BY <1>13, <2>1, StaysDead
<1>14. Targets(st, rg, tg, jn)
  <2> SUFFICES ASSUME NEW s \in Tid
               PROVE  /\ tg[s] # NoTid =>
                           /\ s < tg[s] /\ rg[s].at = "j1"
                           /\ st[s] \in {"BLOCKED", "READY", "RUNNING"}
                           /\ st[tg[s]] # "FRESH"
                           /\ st[tg[s]] \notin Ended => jn[tg[s]] = s
                      /\ st[s] = "BLOCKED" => tg[s] # NoTid
                      /\ st[s] = "READY" /\ rg[s].at = "j1" => tg[s] # NoTid
                      /\ st[s] = "WAITING" => rg[s].at = "x1"
    BY DEF Targets
  <2>1. CASE s = c
    BY <1>5, <1>6, <1>7, <1>8, <1>9, <1>11, <2>1
  <2>2. CASE s # c
    <3>1. /\ st[s] = status[s] /\ rg[s] = reg[s] /\ tg[s] = target[s]
      BY <1>7, <2>2
    <3>2. /\ target[s] # NoTid =>
               /\ s < target[s] /\ reg[s].at = "j1"
               /\ status[s] \in {"BLOCKED", "READY", "RUNNING"}
               /\ status[target[s]] # "FRESH"
               /\ status[target[s]] \notin Ended => joining[target[s]] = s
          /\ status[s] = "BLOCKED" => target[s] # NoTid
          /\ status[s] = "READY" /\ reg[s].at = "j1" => target[s] # NoTid
          /\ status[s] = "WAITING" => reg[s].at = "x1"
      BY <1>4 DEF Targets
    <3>3. ASSUME target[s] # NoTid
          PROVE  st[target[s]] # "FRESH" /\ (st[target[s]] \notin Ended => jn[target[s]] = s)
      <4>1. target[s] \in Tid \ {t}
        BY <1>5, <1>11, <3>3
      <4>2. CASE target[s] = c
        BY <1>7, <1>9, <1>12, <4>1, <4>2
      <4>3. CASE target[s] # c
        BY <1>7, <1>9, <3>2, <3>3, <4>1, <4>3
      <4> QED BY <4>2, <4>3
    <3> QED BY <3>1, <3>2, <3>3
  <2> QED BY <2>1, <2>2
<1>15. OneJoiner(tg)
  BY <1>4, <1>5, <1>7 DEF OneJoiner
<1>16. Notes(st, tg, jn, d)
  <2> SUFFICES ASSUME NEW w \in Tid, jn[w] # NoTid
               PROVE  /\ st[w] \notin {"WAITING", "FRESH"}
                      /\ st[w] = "EXITED" \/ tg[jn[w]] = w \/ Dead(st, tg, d, w)
    BY DEF Notes
  <2>1. CASE w = t
    BY <1>6, <1>7, <1>9, <2>1
  <2>2. CASE w # t
    <3>1. /\ status[w] \notin {"WAITING", "FRESH"}
          /\ status[w] = "EXITED" \/ target[joining[w]] = w \/ Dead(status, target, c, w)
          /\ jn[w] = joining[w] /\ joining[w] \in Tid
      BY <1>2, <1>4, <1>9, <2>2 DEF Notes
    <3>2. st[w] \notin {"WAITING", "FRESH"} /\ (status[w] = "EXITED" => st[w] = "EXITED")
      BY <1>3, <1>7, <3>1
    <3>3. ASSUME target[joining[w]] = w PROVE tg[jn[w]] = w
      <4>1. joining[w] # c
        BY <1>2, <1>11, <3>3 DEF NoTid, Tid
      <4> QED BY <1>7, <3>1, <3>3, <4>1
    <3> QED BY <1>13, <3>1, <3>2, <3>3
  <2> QED BY <2>1, <2>2
<1>17. Returning(st, tg, d)
  <2> SUFFICES ASSUME NEW u \in Tid, tg[u] # NoTid, st[u] # "BLOCKED"
               PROVE  st[tg[u]] \in Ended \/ Dead(st, tg, d, tg[u])
    BY DEF Returning
  <2>1. u # c /\ tg[u] = target[u] /\ status[u] # "BLOCKED" /\ target[u] \in Tid
    BY <1>7, <1>11
  <2>2. target[u] # c
    BY <1>12, <2>1
  <2>3. status[target[u]] \in Ended \/ Dead(status, target, c, target[u])
    BY <1>4, <2>1 DEF Returning
  <2> QED BY <1>7, <1>13, <2>1, <2>2, <2>3
<1>18. JoinsRight(st, rg, tg, jn, d)
  BY <1>14, <1>15, <1>16, <1>17 DEF JoinsRight
<1>19. Fresh(st, rg, pos)
  BY <1>3, <1>7, <1>8 DEF Fresh
<1>20. jn[0] = NoTid
  BY <1>1, <1>2, <1>6, <1>9 DEF StacksRight, MainStays
<1>21. \A u \in Tid : (st[u] = "FRESH" <=> status[u] = "FRESH")
                      /\ (st[u] = "EXITED" <=> status[u] = "EXITED")
  BY <1>3, <1>7
<1> QED BY <1>1, <1>6, <1>18, <1>19, <1>20, <1>21 DEF c, st, rg, tg

LEMMA JoinEntersKeepsJInv ==
  ASSUME IInv, JInv, NEW t \in Tid, Join(t), JoinEnters(t)
  PROVE  JInv'
<1> DEFINE c == curr_TID
           st == [status EXCEPT ![c] = "BLOCKED"]
           rg == [reg EXCEPT ![c] = Here("j1")]
           tg == [target EXCEPT ![c] = t]
<1>1. At("user") /\ status[t] = "WAITING"
  BY DEF Join, JoinEnters
<1>2. /\ Running /\ cpu.at = "user" /\ cpu.flow = c /\ c \in Tid /\ 0 \in Tid
      /\ status \in [Tid -> Status] /\ reg \in [Tid -> Context]
      /\ target \in [Tid -> Tid \cup {NoTid}]
      /\ stack \in [Tid -> {"none", "owned", "freed"}]
      /\ Uncounting = 0 /\ CountFits /\ StacksRight
  BY <1>1, Caller
<1>3. /\ JoinsRight(st, rg, tg, joining, t) /\ Fresh(st, rg, pos)
      /\ t # c /\ t # 0 /\ joining[0] = NoTid /\ ~first_call
      /\ \A u \in Tid : (st[u] = "FRESH" <=> status[u] = "FRESH")
                        /\ (st[u] = "EXITED" <=> status[u] = "EXITED")
  BY <1>1, Blocks
<1>4. /\ status' = st /\ reg' = rg /\ target' = tg /\ curr_TID' = t
      /\ local' = [local EXCEPT ![c] = c] /\ Goto("k1")
      /\ UNCHANGED <<joining, stack, total_threads, first_call, pos, proc>>
  BY <1>2 DEF JoinEnters
<1>5. cpu'.at = "k1" /\ cpu'.flow = c
  BY <1>2, <1>4 DEF Goto, IInv, TypeOK
<1>6. Targets(status, reg, target, joining)
  BY <1>3, <1>1, Caller DEF JoinsRight
<1>7. reg[t].at = "x1"
  BY <1>1, <1>6 DEF Targets
<1>8. /\ local'[c] = c /\ target'[c] = t /\ status'[c] = "BLOCKED"
      /\ status'[t] = "WAITING" /\ reg'[t].at = "x1"
  BY <1>1, <1>2, <1>3, <1>4, <1>7 DEF IInv, TypeOK
<1> HIDE DEF c, st, rg, tg
<1>9. CpuRight'
  <2>1. JoinerEntered'
    BY <1>4, <1>5, <1>8 DEF JoinerEntered
  <2> QED
    BY <1>5, <2>1 DEF CpuRight, UserMarked, NobodyReady, WaiterKnown, JoinerBack, JoinerNext, LibraryLabels
<1>10. StacksRight'
  BY <1>2, <1>3, <1>4 DEF StacksRight, FreedHasExited, CreatedTaken, MainStays
<1>11. CountFits'
  <2>1. Live' = Live /\ Taken' = Taken
    BY <1>3, <1>4 DEF Live, Taken
  <2> QED BY <1>2, <1>3, <1>4, <1>5, <2>1 DEF CountFits, Uncounting
<1>12. JoinsRight(status', reg', target', joining', curr_TID') /\ Fresh(status', reg', pos')
  BY <1>3, <1>4
<1> QED BY <1>3, <1>4, <1>9, <1>10, <1>11, <1>12 DEF JInv, NothingYet

LEMMA JoinBlocksKeepsJInv ==
  ASSUME IInv, JInv, NEW t \in Tid, Join(t), JoinBlocks(t), IInv'
  PROVE  /\ JInv'
         /\ Running' => /\ NotReplayed
                        /\ SwitchPost([status EXCEPT ![curr_TID] = "BLOCKED"], target', joining')
<1> DEFINE c == curr_TID
           st == [status EXCEPT ![c] = "BLOCKED"]
           rg == [reg EXCEPT ![c] = Here("j1")]
           tg == [target EXCEPT ![c] = t]
           jn == [joining EXCEPT ![t] = c]
<1> SUFFICES ASSUME Running' PROVE JInv' /\ NotReplayed /\ SwitchPost(st, target', joining')
  BY DEF JInv
<1>1. At("user") /\ status[t] \notin {"EXITED", "WAITING"}
  BY DEF Join, JoinBlocks
<1>2. /\ Running /\ cpu.at = "user" /\ cpu.flow = c /\ c \in Tid /\ TypeOK
      /\ status \in [Tid -> Status] /\ reg \in [Tid -> Context]
      /\ target \in [Tid -> Tid \cup {NoTid}] /\ joining \in [Tid -> Tid \cup {NoTid}]
      /\ \A u \in Tid : status[u] = "RUNNING" => u = c
  BY <1>1, Caller DEF IInv
<1>3. /\ JoinsRight(st, rg, tg, jn, c) /\ Fresh(st, rg, pos)
      /\ t # c /\ t # 0 /\ jn[0] = NoTid /\ ~first_call
      /\ \A u \in Tid : (st[u] = "FRESH" <=> status[u] = "FRESH")
                        /\ (st[u] = "EXITED" <=> status[u] = "EXITED")
  BY <1>1, Blocks
<1>4. /\ joining' = jn /\ target' = tg /\ UNCHANGED <<exitcode, stack, total_threads, first_call>>
      /\ Scheduler(st, rg, Here("user"))
  BY <1>2 DEF JoinBlocks, Noted
<1>5. Here("user") \in Context /\ Here("j1") \in Context /\ Here("j1").flow = c /\ Here("j1").at = "j1"
  BY <1>2 DEF Here, Context, BufferLabels, Labels, LibraryLabels, TypeOK
<1>6. /\ st \in [Tid -> Status] /\ rg \in [Tid -> Context]
      /\ tg \in [Tid -> Tid \cup {NoTid}] /\ jn \in [Tid -> Tid \cup {NoTid}]
      /\ st[c] = "BLOCKED" /\ \A u \in Tid : st[u] # "RUNNING"
  BY <1>2, <1>5 DEF Status
<1>7. \A u \in Tid : rg[u].flow = u /\ rg[u].at \in SavedAt
  BY <1>2, <1>5 DEF IInv, ContextOwner, BuffersSaved, SavedAt
<1> HIDE DEF c, st, rg, tg, jn
<1>8. curr_TID = c
  BY DEF c
<1>9. SwitchPost(st, tg, jn)
  BY <1>2, <1>3, <1>4, <1>5, <1>6, <1>7, <1>8, SchedulerSwitches
<1>10. SwitchPost(st, target', joining') /\ joining'[0] = NoTid
  BY <1>3, <1>4, <1>9
<1> QED BY <1>2, <1>3, <1>4, <1>6, <1>10, AfterSwitch

LEMMA JoinKeepsJInv == ASSUME IInv, JInv, NEW t \in Tid, Join(t), IInv' PROVE JInv'
<1>1. CASE JoinReturnsAtOnce(t)
  <2>1. At("user") /\ ~first_call
    BY DEF Join, Joinable, Created, IInv, BeforeFirstCall
  <2>2. /\ Running /\ cpu.at = "user" /\ cpu.flow = curr_TID /\ curr_TID \in Tid
        /\ pos \in [Tid -> Nat] /\ (curr_TID # 0 => status[curr_TID] = "RUNNING")
        /\ JoinsRight(status, reg, target, joining, curr_TID) /\ Fresh(status, reg, pos)
        /\ CountFits /\ StacksRight
    BY <2>1, Caller
  <2>3. /\ pos' = [pos EXCEPT ![curr_TID] = @ + 1]
        /\ UNCHANGED <<status, joining, exitcode, stack, reg, curr_TID, total_threads, first_call,
                       cpu, target, local, proc>>
    BY <1>1, <2>2 DEF JoinReturnsAtOnce, tcb, globals
  <2>4. \A u \in Tid \ {curr_TID} : pos'[u] = pos[u]
    BY <2>2, <2>3
  <2>5. Fresh(status', reg', pos')
    BY <2>2, <2>3, <2>4 DEF Fresh
  <2>6. JoinsRight(status', reg', target', joining', curr_TID') /\ CpuRight /\ CountFits /\ StacksRight
    BY <2>2, <2>3 DEF JInv
  <2>7. CpuRight'
    BY <2>2, <2>3, <2>6 DEF CpuRight, UserMarked, NobodyReady, WaiterKnown, JoinerEntered, JoinerBack, JoinerNext
  <2>8. StacksRight' /\ CountFits'
    BY <2>3, <2>6 DEF StacksRight, FreedHasExited, CreatedTaken, MainStays, CountFits, Live, Taken, Uncounting
  <2> QED BY <2>1, <2>3, <2>5, <2>6, <2>7, <2>8 DEF JInv, NothingYet
<1> QED BY <1>1, JoinEntersKeepsJInv, JoinBlocksKeepsJInv DEF Join

-----------------------------------------------------------------------------
(* Every step keeps the invariant. *)
LEMMA NextKeepsJInv == IInv /\ JInv /\ [Next]_vars => JInv'
<1> SUFFICES ASSUME IInv, JInv, [Next]_vars PROVE JInv'
  OBVIOUS
<1>0. IInv'
  BY NextKeepsIInv
<1>1. CASE Create
  BY <1>1, CreateKeepsJInv
<1>2. CASE Exit
  BY <1>0, <1>2, ExitToJoinerKeepsJInv, ExitToWaitKeepsJInv DEF Exit
<1>3. ASSUME NEW t \in Tid, Join(t) PROVE JInv'
  BY <1>0, <1>3, JoinKeepsJInv
<1>4. CASE MainReturns
  BY <1>4 DEF MainReturns, Ends, JInv, Running
<1>5. CASE ExitToMain0 \/ ExitToMain1
  BY <1>5, ToMain0KeepsJInv, ToMain1KeepsJInv
<1>6. CASE Tail1 \/ Tail2 \/ Tail3 \/ Tail4 \/ Tail5 \/ Tail6
  BY <1>6, Tail1KeepsJInv, TailKeepsJInv, Tail5KeepsJInv, Tail6KeepsJInv
<1>7. CASE JoinJumps \/ JoinReturns
  BY <1>7, JoinJumpsKeepsJInv, JoinReturnsKeepsJInv
<1>8. CASE Alarm
  BY <1>0, <1>8, AlarmKeepsJInv
<1>9. CASE UNCHANGED vars
  <2>1. UNCHANGED <<status, joining, stack, reg, curr_TID, total_threads, first_call, cpu, pos, target,
                    local, proc>>
    BY <1>9 DEF vars, tcb, globals, flows
  <2>2. CpuRight' = CpuRight /\ StacksRight' = StacksRight
    BY <2>1 DEF CpuRight, UserMarked, NobodyReady, WaiterKnown, JoinerEntered, JoinerBack, JoinerNext,
       StacksRight, FreedHasExited, CreatedTaken, MainStays
  <2>3. CountFits' = CountFits /\ NothingYet' = NothingYet /\ Running' = Running
    BY <2>1 DEF CountFits, Live, Taken, Uncounting, NothingYet, Running
  <2> QED BY <2>1, <2>2, <2>3 DEF JInv
<1> QED
  BY <1>1, <1>2, <1>3, <1>4, <1>5, <1>6, <1>7, <1>8, <1>9 DEF Next, Calls, Library, Terminated

THEOREM JoinInvariance == Spec => [](IInv /\ JInv)
<1>1. Init => IInv /\ JInv
  BY InitIInv, InitJInv
<1>2. IInv /\ JInv /\ [Next]_vars => IInv' /\ JInv'
  BY NextKeepsIInv, NextKeepsJInv
<1> QED BY <1>1, <1>2, PTL DEF Spec

(* Once pthread_exit has freed a thread's stack (217) the scheduler never   *)
(* takes the thread up again and its program never runs again.              *)
THEOREM FreedStaysDownAlways == Spec => []FreedStaysDown
<1>1. IInv /\ JInv => FreedStaysDown
  <2> SUFFICES ASSUME IInv, JInv, NEW t \in Tid, Running, stack[t] = "freed"
               PROVE  /\ status[t] \notin {"READY", "BLOCKED"}
                      /\ ~(cpu.flow = t /\ cpu.at = "user")
    BY DEF FreedStaysDown
  <2>1. StacksRight /\ CpuRight
    BY DEF JInv
  <2>2. status[t] = "EXITED" /\ t # 0
    BY <2>1 DEF StacksRight, FreedHasExited, MainStays
  <2>3. cpu.at = "user" /\ cpu.flow = t => status[t] = "RUNNING"
    BY <2>1, <2>2 DEF CpuRight, UserMarked, LibraryLabels
  <2> QED BY <2>2, <2>3
<1> QED BY <1>1, JoinInvariance, PTL

LEMMA CountFromJInv == IInv /\ JInv => CountBounded
<1> SUFFICES ASSUME IInv, JInv, Running, ~first_call
             PROVE  Cardinality(Live) <= total_threads /\ total_threads <= MAX_THREADS
  BY DEF CountBounded
<1>1. Cardinality(Live) + Uncounting <= total_threads /\ total_threads <= Cardinality(Taken)
  BY DEF JInv, CountFits
<1>2. IsFiniteSet(Tid) /\ Cardinality(Tid) = MAX_THREADS
  BY FS_Interval, MaxAssumption DEF Tid
<1>3. Live \in SUBSET Tid /\ Taken \in SUBSET Tid
  BY DEF Live, Taken
<1>4. /\ Cardinality(Live) \in Nat /\ Cardinality(Taken) \in Nat
      /\ Cardinality(Taken) <= MAX_THREADS
  BY <1>2, <1>3, FS_Subset, FS_CardinalityType
<1>5. Uncounting \in {0, 1} /\ total_threads \in Int /\ MAX_THREADS \in Nat
  BY MaxAssumption DEF Uncounting, IInv, TypeOK
<1> QED BY <1>1, <1>4, <1>5

(* The count that the limit of pthread_create is compared with (113) covers *)
(* every thread in use and never exceeds the table.                         *)
THEOREM CountBoundedAlways == Spec => []CountBounded
BY CountFromJInv, JoinInvariance, PTL

(* A process that crashes in a longjmp replays nothing.                     *)
LEMMA CrashKeepsPos ==
  ASSUME Running, ~Running', NEW st, NEW rg, NEW here, NEW c, NEW v,
         Scheduler(st, rg, here) \/ Resume(c, v)
  PROVE  pos' = pos
<1>1. ASSUME NEW b, NEW u, Resume(b, u) PROVE pos' = pos
  BY <1>1 DEF Resume, Running
<1>2. ASSUME Scheduler(st, rg, here) PROVE pos' = pos
  BY <1>1, <1>2 DEF Scheduler
<1> QED BY <1>1, <1>2

LEMMA StepNotReplayed == ASSUME IInv, JInv, [Next]_vars PROVE NotReplayed
<1>0. pos \in [Tid -> Nat] /\ cpu.flow \in Tid /\ IInv'
  BY NextKeepsIInv DEF IInv, TypeOK
<1>1. ASSUME pos' = pos \/ pos' = [pos EXCEPT ![cpu.flow] = @ + 1] PROVE NotReplayed
  BY <1>0, <1>1 DEF NotReplayed
<1>2. CASE Create
  BY <1>1, <1>2 DEF Create, CreateThread, Ends, flows
<1>3. CASE Exit
  <2>1. CASE ExitToJoiner
    BY <1>1, <2>1 DEF ExitToJoiner
  <2>2. CASE ExitToWait /\ Running'
    BY <1>0, <1>3, <2>2, ExitToWaitKeepsJInv DEF Exit
  <2>3. CASE ExitToWait /\ ~Running'
    BY <1>1, <1>3, <2>3, CrashKeepsPos DEF ExitToWait, Exit, At, Running
  <2> QED BY <1>3, <2>1, <2>2, <2>3 DEF Exit
<1>4. ASSUME NEW t \in Tid, Join(t) PROVE NotReplayed
  <2>1. CASE JoinReturnsAtOnce(t) \/ JoinEnters(t)
    BY <1>1, <2>1 DEF JoinReturnsAtOnce, JoinEnters
  <2>2. CASE JoinBlocks(t) /\ Running'
    BY <1>0, <1>4, <2>2, JoinBlocksKeepsJInv
  <2>3. CASE JoinBlocks(t) /\ ~Running'
    BY <1>1, <1>4, <2>3, CrashKeepsPos DEF JoinBlocks, Join, At, Running
  <2> QED BY <1>4, <2>1, <2>2, <2>3 DEF Join
<1>5. CASE MainReturns
  BY <1>1, <1>5 DEF MainReturns, Ends, flows
<1>6. CASE ExitToMain0 \/ Tail1 \/ Tail2 \/ Tail3 \/ Tail4 \/ Tail5 \/ JoinReturns
  BY <1>1, <1>6 DEF ExitToMain0, Tail1, Tail2, Tail3, Tail4, Tail5, JoinReturns, Ends, flows
<1>7. CASE ExitToMain1 \/ Tail6 \/ JoinJumps
  <2>1. CASE Running'
    BY <1>7, <2>1, ToMain1KeepsJInv, Tail6KeepsJInv, JoinJumpsKeepsJInv
  <2>2. CASE ~Running'
    BY <1>1, <1>7, <2>2, CrashKeepsPos DEF ExitToMain1, Tail6, JoinJumps, At, Running
  <2> QED BY <2>1, <2>2
<1>8. CASE Alarm
  <2>1. CASE Running'
    BY <1>0, <1>8, <2>1, AlarmKeepsJInv
  <2>2. CASE ~Running'
    BY <1>1, <1>8, <2>2, CrashKeepsPos DEF Alarm, Running
  <2> QED BY <2>1, <2>2
<1>9. CASE UNCHANGED vars
  BY <1>1, <1>9 DEF vars, flows
<1> QED
  BY <1>2, <1>3, <1>4, <1>5, <1>6, <1>7, <1>8, <1>9 DEF Next, Calls, Library, Terminated

(* No thread but main does again what it has done, wherever alarms arrive:  *)
(* the buffer a switch returns to is the thread's latest (47, 185, 272).    *)
THEOREM WorkersNotReplayedAlways == Spec => WorkersNotReplayed
<1>1. IInv /\ JInv /\ [Next]_vars => [\A t \in Tid \ {0} : pos'[t] >= pos[t]]_vars
  BY StepNotReplayed DEF NotReplayed
<1> QED BY <1>1, JoinInvariance, PTL DEF Spec, WorkersNotReplayed

=============================================================================
