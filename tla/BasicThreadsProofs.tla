------------------------- MODULE BasicThreadsProofs -------------------------
(***************************************************************************)
(* Proofs about BasicThreads, for a table of any size: what is left of the  *)
(* scheduler's order when pthread_exit is open to alarms at every store.    *)
(***************************************************************************)
EXTENDS BasicThreads, ThreadsHandOffProofs

(* Two threads inside pthread_create at once may take one slot (118-157);   *)
(* between its setjmp and the store of the stack pointer (124-154) the      *)
(* second of them has its own frame filed under that slot.  Main must not   *)
(* give its table entry up: the last exit goes to it.                       *)
SetUp == {"c2", "c3", "c4"}
Building == {"c1", "c2", "c3", "c4", "c5"}
Creating == Building \cup {"c6", "c7"}
SetUpUninterrupted == AlarmPoints \cap SetUp = {}
CreateUninterrupted == AlarmPoints \cap Creating = {}
MainNeverExits == 0 \notin Exiters

Leaving == {"b1", "b2", "b3", "b4"}

(* Who is saved under curr_TID.                                             *)
WhoIsSaved ==
  Running => cpu.flow = curr_TID \/ (cpu.flow = 0 /\ status[curr_TID] # "RUNNING")

(* A thread in pthread_exit is never saved, so never comes back there.      *)
NotSavedLeaving ==
  /\ Running /\ cpu.at \in Leaving => status[curr_TID] # "RUNNING"
  /\ \A t \in Tid : reg[t].at \notin Leaving

BeforeCreate ==
  Running /\ first_call =>
    /\ curr_TID = 0 /\ cpu.flow = 0 /\ cpu.at \notin Creating
    /\ \A t \in Tid : status[t] # "RUNNING" /\ reg[t].at = "none"

(* Every buffer is its thread's own, but for the one pthread_create is      *)
(* setting up.                                                              *)
BuffersOwned ==
  Running => \A t \in Tid :
    \/ reg[t].flow = t /\ reg[t].at \notin SetUp
    \/ cpu.at \in SetUp /\ t = slot[cpu.flow]
BeingMade ==
  Running =>
    /\ cpu.at = "c2" => made[slot[cpu.flow]] = {}
    /\ cpu.at \in {"c3", "c4"} => made[slot[cpu.flow]] = {"PC"}

LocalsTyped ==
  /\ slot \in [Tid -> Tid] /\ loaded \in [Tid -> Int]
  /\ made \in [Tid -> SUBSET {"PC", "RSP"}]

TInv ==
  /\ TypeOK /\ LocalsTyped
  /\ BuffersOwned /\ BeingMade /\ WhoIsSaved /\ NotSavedLeaving /\ BeforeCreate

(* Main enters the CPU through the last exit as well; curr_TID then names   *)
(* the thread that ended (184), and main is READY.                          *)
WhoRuns ==
  \/ /\ cpu.flow = curr_TID
     /\ status[curr_TID] = IF cpu.at \in Leaving THEN "EXITED" ELSE "RUNNING"
  \/ cpu.flow = 0 /\ status[curr_TID] = "EXITED" /\ cpu.at \notin Leaving
WhereItRuns ==
  /\ cpu.at \in {"user"} \cup Creating \cup Leaving
  /\ cpu.at \in Leaving => cpu.flow # 0
OneRuns ==
  /\ \A t \in Tid : status[t] \in {"READY", "RUNNING", "EXITED", "FRESH"}
  /\ \A t \in Tid : status[t] = "RUNNING" => t = curr_TID
  /\ status[0] \in {"READY", "RUNNING"}

(* A thread that can be chosen has a buffer in its program.                 *)
BuffersInProgram ==
  \A t \in Tid : status[t] \in {"READY", "RUNNING"} =>
    reg[t].flow = t /\ reg[t].at \in {"user", "start"}

(* The slot that pthread_create works on is nobody's yet.                   *)
SlotUnused ==
  cpu.at \in Building =>
    /\ status[slot[cpu.flow]] = "FRESH"
    /\ RoomLeft => slot[cpu.flow] # MAX_THREADS - 1
    /\ cpu.at \in {"c4", "c5"} => stack[slot[cpu.flow]] = "owned"
    /\ cpu.at = "c5" => reg[slot[cpu.flow]] = Started(slot[cpu.flow])

FreedExited == \A t \in Tid : stack[t] = "freed" => status[t] = "EXITED"

(* What the count lacks or has to spare at each point of the two calls.     *)
Uncounted ==
  CASE cpu.at \in {"c6", "c7"} -> -1
    [] cpu.at \in {"b1", "b2", "b3"} -> 1
    [] OTHER -> 0
CountKept ==
  /\ Cardinality(Live) + Uncounted <= total_threads
  /\ cpu.at \in {"c7", "b3"} => loaded[cpu.flow] = total_threads

AloneAtFirst ==
  /\ cpu = [flow |-> 0, at |-> "user"] /\ curr_TID = 0 /\ total_threads = 0
  /\ \A t \in Tid : stack[t] = "none" /\ reg[t].flow = t

Steady ==
  /\ WhoRuns /\ WhereItRuns /\ OneRuns /\ BuffersInProgram
  /\ SlotUnused /\ FreedExited /\ CountKept /\ SlotsTaken /\ LastUnused

CountsNatural == total_threads \in Nat /\ loaded \in [Tid -> Nat]

BInv ==
  /\ TInv /\ CountsNatural
  /\ Running => IF first_call THEN AloneAtFirst ELSE Steady
(* The four steps that write the buffer and the stack of the slot.          *)
SetsUp == CreateSaves \/ CreateAims \/ CreateAllocates \/ CreateStacks

-----------------------------------------------------------------------------
(* Identity: no hypothesis on main, on the table or on alarms elsewhere     *)

LEMMA ResumeTyped ==
  ASSUME TypeOK, NEW c \in Context, Resume(c, NoTid)
  PROVE  /\ cpu' \in [flow : Tid, at : Labels]
         /\ pos' \in [Tid -> Nat]
         /\ local' \in [Tid -> Tid \cup {NoTid}]
         /\ proc' \in {proc, "crashed"}
         /\ Running' => cpu' = [flow |-> c.flow, at |-> IF c.at = "start" THEN "user" ELSE c.at]
<1>1. CASE c.at = "none" \/ c.at = "x1"
  BY <1>1 DEF Resume, TypeOK, Running
<1>2. CASE ~(c.at = "none" \/ c.at = "x1")
  <2>1. CASE proc' = "crashed" /\ UNCHANGED <<cpu, pos, local>>
    BY <2>1 DEF TypeOK, Running
  <2>2. CASE /\ cpu' = [flow |-> c.flow, at |-> IF c.at = "start" THEN "user" ELSE c.at]
             /\ \E p \in {c.pos} \cup (IF Stale(c) THEN {pos[c.flow]} ELSE {}) :
                  pos' = [pos EXCEPT ![c.flow] = p]
             /\ local' = local
             /\ UNCHANGED proc
    <3>1. c.flow \in Tid /\ c.pos \in Nat /\ c.at \in BufferLabels
      BY DEF Context
    <3>2. pos' \in [Tid -> Nat]
      BY <2>2, <3>1 DEF TypeOK
    <3>3. cpu' \in [flow : Tid, at : Labels]
      BY <1>2, <2>2, <3>1 DEF BufferLabels, Labels
    <3> QED BY <2>2, <3>2, <3>3 DEF TypeOK
  <2> QED BY <1>2, <2>1, <2>2 DEF Resume
<1> QED BY <1>1, <1>2

(* A run of the scheduler, by the handler or by pthread_exit, outside the   *)
(* set-up of a thread: the CPU goes to the thread that curr_TID then names. *)
LEMMA SwitchTyped ==
  ASSUME TInv, Running, cpu.at \notin SetUp, Scheduler(status, reg, Here(cpu.at))
  PROVE  /\ status' \in [Tid -> Status]
         /\ reg' \in [Tid -> Context]
         /\ curr_TID' \in Tid
         /\ cpu' \in [flow : Tid, at : Labels]
         /\ pos' \in [Tid -> Nat]
         /\ local' \in [Tid -> Tid \cup {NoTid}]
         /\ proc' \in {proc, "crashed"}
         /\ BuffersOwned'
         /\ Running' => cpu'.flow = curr_TID' /\ cpu'.at \notin SetUp /\ ~first_call
         /\ NotSavedLeaving'
<1> DEFINE c == curr_TID
           here == Here(cpu.at)
           rg1 == Saved(status, reg, c, here)
<1>1. /\ TypeOK /\ c \in Tid /\ WhoIsSaved /\ NotSavedLeaving /\ BeforeCreate /\ Running
      /\ \A t \in Tid : reg[t].flow = t /\ reg[t].at \notin SetUp
  BY DEF TInv, TypeOK, BuffersOwned
<1>2. here \in Context /\ here.flow = cpu.flow /\ here.at = cpu.at
  BY <1>1 DEF Here, Context, TypeOK, BufferLabels
<1>3. /\ rg1 \in [Tid -> Context]
      /\ \A t \in Tid : rg1[t].flow = t /\ rg1[t].at \notin Leaving \cup SetUp
  <2> HIDE DEF here
  <2>1. status[c] = "RUNNING" => here.flow = c /\ here.at \notin Leaving \cup SetUp
    BY <1>1, <1>2 DEF WhoIsSaved, NotSavedLeaving
  <2> QED BY <1>1, <1>2, <2>1 DEF Saved, TypeOK, NotSavedLeaving
<1>4. CASE proc' = "crashed" /\ UNCHANGED <<status, reg, curr_TID, cpu, pos, local>>
  BY <1>1, <1>4 DEF TypeOK, BuffersOwned, NotSavedLeaving, Running
<1>5. ASSUME NEW n \in Tid, curr_TID' = n, reg' = rg1, Resume(rg1[n], NoTid),
             status' = [Demoted(status, c) EXCEPT ![n] = "RUNNING"]
      PROVE  /\ status' \in [Tid -> Status]
             /\ reg' \in [Tid -> Context]
             /\ cpu' \in [flow : Tid, at : Labels]
             /\ pos' \in [Tid -> Nat]
             /\ local' \in [Tid -> Tid \cup {NoTid}]
             /\ proc' \in {proc, "crashed"}
             /\ BuffersOwned'
             /\ Running' => cpu'.flow = n /\ cpu'.at \notin SetUp /\ ~first_call
             /\ NotSavedLeaving'
  <2> HIDE DEF rg1
  <2>1. rg1[n] \in Context /\ rg1[n].flow = n
    BY <1>3
  <2>2. status' \in [Tid -> Status]
    BY <1>1, <1>5 DEF Demoted, Status, TypeOK
  <2>3. first_call => rg1[n].at = "none"
    BY <1>1 DEF rg1, Saved, BeforeCreate
  <2>4. Running' => ~first_call
    BY <1>5, <2>3 DEF Resume, Running
  <2>5. Running' => cpu'.at \notin Leaving \cup SetUp
    BY <1>1, <1>3, <1>5, <2>1, ResumeTyped DEF Leaving, SetUp
  <2>6. NotSavedLeaving'
    BY <1>3, <1>5, <2>5 DEF NotSavedLeaving
  <2>7. BuffersOwned'
    BY <1>3, <1>5 DEF BuffersOwned
  <2> QED BY <1>1, <1>3, <1>5, <2>1, <2>2, <2>4, <2>5, <2>6, <2>7, ResumeTyped
<1> HIDE DEF c, here, rg1
<1> QED BY <1>4, <1>5 DEF Scheduler, c, here, rg1

LEMMA InitTInv == BasicInit => TInv
<1> SUFFICES ASSUME BasicInit PROVE TInv
  OBVIOUS
<1>1. 0 \in Tid /\ "user" \in Labels /\ "none" \in BufferLabels
  BY MaxAssumption DEF Tid, Labels, BufferLabels
<1>2. TypeOK
  BY <1>1 DEF BasicInit, Init, TypeOK, Status, Context
<1>3. LocalsTyped
  BY <1>1 DEF BasicInit, LocalsTyped
<1> QED
  BY <1>1, <1>2, <1>3
  DEF BasicInit, Init, TInv, BuffersOwned, BeingMade, WhoIsSaved, NotSavedLeaving, BeforeCreate,
      Creating, Building, SetUp, Leaving, Running

LEMMA EndsKeepsTInv ==
  ASSUME TInv, NEW how \in {"exited", "crashed", "overrun", "masked"}, Ends(how), UNCHANGED locals
  PROVE  TInv'
BY DEF Ends, TInv, TypeOK, LocalsTyped, tcb, globals, flows, locals, BuffersOwned, BeingMade,
       WhoIsSaved, NotSavedLeaving, BeforeCreate, Running

LEMMA BasicLabelsAre == BasicLabels \subseteq Labels /\ {"user"} \cup Leaving \cup Creating \subseteq Labels
BY BasicAssumption DEF Labels, BasicLabels, Leaving, Creating, Building

(* The parts of TInv that a step of pthread_create or pthread_exit other    *)
(* than the four of the set-up leaves alone.                                *)
LEMMA OutsideSetUp ==
  ASSUME TInv, Running, cpu.at \notin SetUp, cpu'.at \notin SetUp,
         \A t \in Tid : reg'[t].flow = reg[t].flow /\ (reg'[t].at = reg[t].at \/ reg'[t].at = "user")
  PROVE  BuffersOwned' /\ BeingMade' /\ \A t \in Tid : reg'[t].at \notin Leaving
BY DEF TInv, BuffersOwned, BeingMade, NotSavedLeaving, SetUp, Leaving

(* The four steps of the set-up write the buffer of the slot, and nothing   *)
(* that says who runs.                                                      *)
LEMMA SetUpKeepsTInv ==
  ASSUME TInv, SetsUp
  PROVE  TInv'
<1> DEFINE i == slot[cpu.flow]
<1>1. /\ TypeOK /\ LocalsTyped /\ Running /\ cpu.flow \in Tid /\ i \in Tid
      /\ cpu.at \in Building
  BY DEF SetsUp, TInv, LocalsTyped, TypeOK, CreateSaves, CreateAims, CreateAllocates, CreateStacks, At, Running,
         Building
<1>2. ~first_call
  BY <1>1 DEF TInv, BeforeCreate, Creating
<1>3. /\ UNCHANGED <<status, curr_TID, first_call, slot, loaded, proc, pos, joining, exitcode,
                    total_threads, target, local>>
      /\ cpu' \in [flow : Tid, at : Labels] /\ cpu'.flow = cpu.flow /\ cpu'.at \in Building
  BY <1>1, BasicLabelsAre
  DEF SetsUp, CreateSaves, CreateAims, CreateAllocates, CreateStacks, Goto, TypeOK, globals, locals,
      Building, Creating
<1>4. WhoIsSaved' /\ BeforeCreate' /\ (Running' /\ cpu'.at \in Leaving => FALSE)
  BY <1>1, <1>2, <1>3 DEF TInv, WhoIsSaved, BeforeCreate, Leaving, Building, Running
<1>6. \A t \in Tid : t # i => reg[t].flow = t /\ reg[t].at \notin SetUp
  BY <1>1 DEF TInv, BuffersOwned, SetUp
<1>7. reg[i] \in Context /\ \A t \in Tid : reg[t].at \notin Leaving
  BY <1>1 DEF TypeOK, TInv, NotSavedLeaving
<1>8. CASE CreateSaves
  <2>1. /\ cpu'.at = "c2" /\ reg' = [reg EXCEPT ![i] = Here("c2")]
        /\ made' = [made EXCEPT ![i] = {}] /\ UNCHANGED stack
    BY <1>1, <1>8 DEF CreateSaves, Goto, TypeOK
  <2>2. Here("c2") \in Context /\ Here("c2").at = "c2"
    BY <1>1, BasicLabelsAre DEF Here, Context, BufferLabels, TypeOK, Creating, Building
  <2> HIDE DEF i
  <2>3. TypeOK' /\ LocalsTyped'
    BY <1>1, <1>3, <2>1, <2>2 DEF TypeOK, LocalsTyped
  <2>4. BuffersOwned' /\ BeingMade'
    BY <1>1, <1>3, <1>6, <2>1 DEF BuffersOwned, BeingMade, SetUp, TypeOK, LocalsTyped, i
  <2>5. NotSavedLeaving'
    BY <1>1, <1>4, <1>7, <2>1, <2>2 DEF NotSavedLeaving, Leaving, TypeOK
  <2> QED BY <1>4, <2>3, <2>4, <2>5 DEF TInv
<1>9. CASE CreateAims
  <2> DEFINE new == Unstacked(reg[i])
  <2>1. made[i] = {}
    BY <1>1, <1>9 DEF CreateAims, At, TInv, BeingMade
  <2>2. /\ cpu'.at = "c3" /\ reg' = [reg EXCEPT ![i] = new]
        /\ made' = [made EXCEPT ![i] = {"PC"}] /\ UNCHANGED stack
    BY <1>1, <1>9, <2>1 DEF CreateAims, Goto, TypeOK
  <2>3. new \in Context /\ new.at = "user"
    BY <1>7 DEF Unstacked, Context, BufferLabels, Labels
  <2> HIDE DEF i, new
  <2>4. TypeOK' /\ LocalsTyped'
    BY <1>1, <1>3, <2>2, <2>3 DEF TypeOK, LocalsTyped
  <2>5. BuffersOwned' /\ BeingMade'
    BY <1>1, <1>3, <1>6, <2>2 DEF BuffersOwned, BeingMade, SetUp, TypeOK, LocalsTyped, i
  <2>6. NotSavedLeaving'
    BY <1>1, <1>4, <1>7, <2>2, <2>3 DEF NotSavedLeaving, Leaving, TypeOK
  <2> QED BY <1>4, <2>4, <2>5, <2>6 DEF TInv
<1>10. CASE CreateAllocates
  <2>1. /\ cpu.at = "c3" /\ cpu'.at = "c4" /\ UNCHANGED <<reg, made>>
        /\ stack' = [stack EXCEPT ![i] = "owned"]
    BY <1>1, <1>10 DEF CreateAllocates, At, Goto, TypeOK, locals
  <2> HIDE DEF i
  <2>2. TypeOK' /\ LocalsTyped'
    BY <1>1, <1>3, <2>1 DEF TypeOK, LocalsTyped
  <2>3. BuffersOwned' /\ BeingMade'
    BY <1>1, <1>3, <2>1 DEF TInv, BuffersOwned, BeingMade, SetUp
  <2>4. NotSavedLeaving'
    BY <1>1, <1>4, <1>7, <2>1 DEF NotSavedLeaving
  <2> QED BY <1>4, <2>2, <2>3, <2>4 DEF TInv
<1>11. CASE CreateStacks
  <2>1. made[i] = {"PC"}
    BY <1>1, <1>11 DEF CreateStacks, At, TInv, BeingMade
  <2>2. /\ cpu'.at = "c5" /\ reg' = [reg EXCEPT ![i] = Started(i)]
        /\ made' = [made EXCEPT ![i] = {"PC", "RSP"}] /\ UNCHANGED stack
    BY <1>1, <1>11, <2>1 DEF CreateStacks, Goto, TypeOK
  <2>3. Started(i) \in Context /\ Started(i).flow = i /\ Started(i).at = "start"
    BY <1>1 DEF Started, Context, BufferLabels
  <2> HIDE DEF i
  <2>4. TypeOK' /\ LocalsTyped'
    BY <1>1, <1>3, <2>2, <2>3 DEF TypeOK, LocalsTyped
  <2>5. BuffersOwned' /\ BeingMade'
    BY <1>1, <1>3, <1>6, <2>2, <2>3 DEF BuffersOwned, BeingMade, SetUp, TypeOK
  <2>6. NotSavedLeaving'
    BY <1>1, <1>4, <1>7, <2>2, <2>3 DEF NotSavedLeaving, Leaving, TypeOK
  <2> QED BY <1>4, <2>4, <2>5, <2>6 DEF TInv
<1> QED BY <1>8, <1>9, <1>10, <1>11 DEF SetsUp

LEMMA CreateKeepsTInv ==
  ASSUME TInv, CreateCalled \/ CreateReadies \/ CreateCounts
  PROVE  TInv'
<1>1. TypeOK /\ Running /\ 0 \in Tid /\ LocalsTyped /\ cpu.flow \in Tid
  BY MaxAssumption
  DEF TInv, TypeOK, CreateCalled, CreateReadies, CreateCounts, At, Running, Tid
<1>2. CASE CreateCalled
  <2>1. CASE CreateRefused
    BY <1>1, <2>1
    DEF CreateRefused, TInv, TypeOK, LocalsTyped, tcb, globals, locals, BuffersOwned, BeingMade,
        WhoIsSaved, NotSavedLeaving, BeforeCreate, Running
  <2>2. CASE Ends("overrun") /\ UNCHANGED locals
    BY <2>2, EndsKeepsTInv
  <2>3. ASSUME NEW i \in Tid, CreateFinds(i) PROVE TInv'
    <3>1. cpu.at = "user" /\ cpu'.at = "c1" /\ reg' = InitReg
      BY <1>1, <1>2, <2>3 DEF CreateCalled, At, CreateFinds, Goto, TypeOK
    <3>2. /\ InitStatus \in [Tid -> Status] /\ InitReg \in [Tid -> Context] /\ InitTotal \in Int
          /\ \A t \in Tid : InitReg[t].flow = reg[t].flow /\ InitReg[t].at \in {reg[t].at, "user"}
      <4>1. \A t \in Tid : reg[t].flow = t
        BY <1>1, <3>1 DEF TInv, BuffersOwned, SetUp
      <4> QED
        BY <1>1, <4>1
        DEF InitStatus, InitReg, InitTotal, TypeOK, Status, Context, BufferLabels, Labels
    <3>3. BuffersOwned' /\ BeingMade' /\ \A t \in Tid : reg'[t].at \notin Leaving
      BY <1>1, <3>1, <3>2, OutsideSetUp DEF SetUp
    <3>4. TypeOK' /\ LocalsTyped'
      BY <1>1, <2>3, <3>2, BasicLabelsAre DEF CreateFinds, TypeOK, LocalsTyped, Goto, Creating, Building
    <3>5. WhoIsSaved'
      BY <1>1, <2>3 DEF CreateFinds, InitStatus, TInv, WhoIsSaved, BeforeCreate, Goto, TypeOK, Running
    <3>6. NotSavedLeaving' /\ BeforeCreate'
      BY <2>3, <3>1, <3>3 DEF CreateFinds, NotSavedLeaving, BeforeCreate, Leaving
    <3> QED
      BY <3>3, <3>4, <3>5, <3>6 DEF TInv
  <2> QED BY <1>2, <2>1, <2>2, <2>3 DEF CreateCalled
<1>3. CASE CreateReadies \/ CreateCounts
  <2>1. /\ cpu.at \in Creating \ SetUp /\ cpu' \in [flow : Tid, at : Labels] /\ cpu'.flow = cpu.flow
        /\ cpu'.at \in {"user", "c6"}
        /\ UNCHANGED <<reg, curr_TID, first_call, stack, joining, exitcode, slot, loaded, made,
                       local, target, proc>>
    BY <1>1, <1>3, BasicLabelsAre
    DEF CreateReadies, CreateCounts, At, Goto, TypeOK, Creating, Building, SetUp, globals, tcb, locals
  <2>2. ~first_call /\ slot[cpu.flow] \in Tid /\ loaded[cpu.flow] \in Int
    BY <1>1, <2>1 DEF TInv, BeforeCreate, LocalsTyped
  <2>3. /\ status' \in [Tid -> Status]
        /\ status'[curr_TID] = "RUNNING" => status[curr_TID] = "RUNNING"
        /\ total_threads' \in Int /\ pos' \in [Tid -> Nat]
    BY <1>1, <1>3, <2>2 DEF CreateReadies, CreateCounts, TypeOK, tcb, globals, Status
  <2>4. TypeOK' /\ LocalsTyped'
    BY <1>1, <2>1, <2>3 DEF TypeOK, LocalsTyped
  <2>5. BuffersOwned' /\ BeingMade' /\ \A t \in Tid : reg'[t].at \notin Leaving
    BY <1>1, <2>1, OutsideSetUp DEF SetUp
  <2>6. WhoIsSaved' /\ NotSavedLeaving' /\ BeforeCreate'
    BY <1>1, <2>1, <2>2, <2>3, <2>5
    DEF TInv, WhoIsSaved, NotSavedLeaving, BeforeCreate, Leaving, Running
  <2> QED BY <2>4, <2>5, <2>6 DEF TInv
<1> QED BY <1>2, <1>3

LEMMA LoadsKeepTInv ==
  ASSUME TInv, Loads("c6", "c7") \/ Loads("b2", "b3")
  PROVE  TInv'
<1>1. /\ TypeOK /\ LocalsTyped /\ Running /\ cpu.at \notin SetUp /\ cpu'.at \notin SetUp
      /\ UNCHANGED reg
  BY DEF Loads, TInv, TypeOK, At, Goto, Running, SetUp, tcb
<1>2. TypeOK'
  BY <1>1, BasicLabelsAre DEF Loads, TypeOK, Goto, tcb, globals, Creating, Leaving
<1>3. LocalsTyped'
  BY <1>1 DEF Loads, LocalsTyped, TypeOK
<1>4. BuffersOwned' /\ BeingMade'
  BY <1>1, OutsideSetUp
<1> QED
  BY <1>1, <1>2, <1>3, <1>4
  DEF Loads, TInv, WhoIsSaved, NotSavedLeaving, BeforeCreate, Goto, At, Creating, Building, Leaving,
      tcb, globals, TypeOK, Running

LEMMA ExitKeepsTInv ==
  ASSUME TInv, ExitCalled \/ ExitFrees \/ ExitCounts
  PROVE  TInv'
<1>1. TypeOK /\ Running /\ LocalsTyped
  BY DEF TInv, ExitCalled, ExitFrees, ExitCounts, At, Running
<1>2. CASE ExitFrees /\ Ends("crashed")
  BY <1>2, EndsKeepsTInv DEF ExitFrees
<1>3. CASE ~(ExitFrees /\ Ends("crashed"))
  <2>1. /\ cpu.at \in {"user", "b1", "b3"} /\ cpu' \in [flow : Tid, at : Labels] /\ cpu'.flow = cpu.flow
        /\ cpu'.at \in Leaving
        /\ UNCHANGED <<reg, curr_TID, first_call, joining, exitcode, pos, slot, loaded, made, local,
                       target, proc>>
    BY <1>1, <1>3, BasicLabelsAre
    DEF ExitCalled, ExitFrees, ExitCounts, At, Goto, TypeOK, Leaving, globals, tcb, locals
  <2>2. /\ status' \in [Tid -> Status] /\ status'[curr_TID] # "RUNNING"
        /\ total_threads' \in Int /\ stack' \in [Tid -> {"none", "owned", "freed"}]
    <3>1. CASE ExitCalled
      BY <1>1, <3>1 DEF ExitCalled, TypeOK, globals, Status
    <3>2. CASE ExitFrees \/ ExitCounts
      <4>1. status' = status /\ status[curr_TID] # "RUNNING"
        BY <1>1, <1>3, <3>2
        DEF ExitFrees, ExitCounts, TInv, NotSavedLeaving, At, Leaving, tcb
      <4>2. total_threads' \in Int
        BY <1>1, <1>3, <3>2 DEF ExitFrees, ExitCounts, LocalsTyped, TypeOK, globals
      <4>3. stack' \in [Tid -> {"none", "owned", "freed"}]
        BY <1>1, <1>3, <3>2 DEF ExitFrees, ExitCounts, TypeOK, tcb
      <4> QED BY <1>1, <4>1, <4>2, <4>3 DEF TypeOK
    <3> QED BY <3>1, <3>2
  <2>3. TypeOK' /\ LocalsTyped'
    BY <1>1, <2>1, <2>2 DEF TypeOK, LocalsTyped
  <2>4. BuffersOwned' /\ BeingMade' /\ \A t \in Tid : reg'[t].at \notin Leaving
    BY <1>1, <2>1, OutsideSetUp DEF SetUp, Leaving
  <2>5. \A t \in Tid : status'[t] = "RUNNING" => status[t] = "RUNNING"
    BY <1>1, <1>3 DEF ExitCalled, ExitFrees, ExitCounts, TypeOK, tcb
  <2>6. BeforeCreate'
    BY <1>1, <2>1, <2>5 DEF TInv, BeforeCreate, Leaving, Creating, Building, Running
  <2> QED
    BY <1>1, <2>1, <2>2, <2>3, <2>4, <2>6 DEF TInv, WhoIsSaved, NotSavedLeaving, Running
<1> QED BY <1>2, <1>3

LEMMA SwitchKeepsTInv ==
  ASSUME TInv, Running, cpu.at \notin SetUp, Scheduler(status, reg, Here(cpu.at)), Refiled(status),
         UNCHANGED <<joining, exitcode, stack, total_threads, first_call, target, slot, loaded>>
  PROVE  TInv'
<1>1. TypeOK'
  BY SwitchTyped DEF TInv, TypeOK
<1>2. LocalsTyped'
  BY DEF TInv, LocalsTyped, Refiled, TypeOK
<1>3. BuffersOwned' /\ BeingMade' /\ WhoIsSaved' /\ NotSavedLeaving' /\ BeforeCreate'
  BY SwitchTyped DEF WhoIsSaved, BeforeCreate, BeingMade, SetUp
<1> QED BY <1>1, <1>2, <1>3 DEF TInv

LEMMA LeavesKeepsTInv == ASSUME TInv, ExitLeaves PROVE TInv'
<1>1. /\ TypeOK /\ LocalsTyped /\ Running /\ cpu.at = "b4" /\ 0 \in Tid /\ cpu.at \notin SetUp
      /\ BeforeCreate /\ NotSavedLeaving /\ BuffersOwned
  BY MaxAssumption DEF TInv, ExitLeaves, At, Running, Tid, SetUp
<1>2. CASE NoneReady(status)
  <2>1. reg[0] \in Context /\ reg[0].flow = 0 /\ reg[0].at \notin Leaving \cup SetUp
    BY <1>1 DEF TypeOK, BuffersOwned, NotSavedLeaving
  <2>2. /\ Resume(reg[0], NoTid)
        /\ UNCHANGED <<status, reg, curr_TID, joining, exitcode, stack, total_threads, first_call,
                      target, slot, loaded, made>>
    BY <1>2 DEF ExitLeaves
  <2>3. /\ cpu' \in [flow : Tid, at : Labels]
        /\ pos' \in [Tid -> Nat]
        /\ local' \in [Tid -> Tid \cup {NoTid}]
        /\ proc' \in {proc, "crashed"}
        /\ Running' => cpu'.flow = 0 /\ cpu'.at \notin Leaving \cup SetUp
    BY <1>1, <2>1, <2>2, ResumeTyped DEF Leaving, SetUp
  <2>4. TypeOK' /\ LocalsTyped'
    BY <1>1, <2>2, <2>3 DEF TypeOK, LocalsTyped
  <2>5. BuffersOwned' /\ BeingMade'
    BY <1>1, <2>2, <2>3 DEF BuffersOwned, BeingMade, SetUp
  <2>6. first_call => ~Running'
    BY <1>1, <2>2 DEF BeforeCreate, Resume, Running
  <2>7. WhoIsSaved' /\ NotSavedLeaving'
    <3>1. status[curr_TID] # "RUNNING"
      BY <1>1 DEF NotSavedLeaving, Leaving
    <3> QED BY <1>1, <2>2, <2>3, <3>1 DEF WhoIsSaved, NotSavedLeaving
  <2> QED
    BY <2>2, <2>4, <2>5, <2>6, <2>7 DEF TInv, BeforeCreate
<1>3. CASE ~NoneReady(status)
  BY <1>1, <1>3, SwitchKeepsTInv DEF ExitLeaves, Switch
<1> QED BY <1>2, <1>3

LEMMA NextKeepsTInv ==
  ASSUME SetUpUninterrupted, TInv, [BasicNext]_basicvars
  PROVE  TInv'
<1>1. ASSUME CreateCalled \/ CreateReadies \/ CreateCounts PROVE TInv'
  BY <1>1, CreateKeepsTInv
<1>2. ASSUME SetsUp PROVE TInv'
  BY <1>2, SetUpKeepsTInv
<1>3. ASSUME Loads("c6", "c7") \/ Loads("b2", "b3") PROVE TInv'
  BY <1>3, LoadsKeepTInv
<1>4. ASSUME ExitCalled \/ ExitFrees \/ ExitCounts PROVE TInv'
  BY <1>4, ExitKeepsTInv
<1>5. ASSUME ExitLeaves PROVE TInv'
  BY <1>5, LeavesKeepsTInv
<1>6. ASSUME MainReturns, UNCHANGED locals PROVE TInv'
  BY <1>6, EndsKeepsTInv DEF MainReturns
<1>7. ASSUME UNCHANGED <<vars, locals>> PROVE TInv'
  BY <1>7
  DEF vars, tcb, globals, flows, locals, TInv, TypeOK, LocalsTyped, BuffersOwned, BeingMade, WhoIsSaved,
      NotSavedLeaving, BeforeCreate, Running
<1>8. ASSUME Preempted PROVE TInv'
  BY <1>8, SwitchKeepsTInv DEF Preempted, Alarm, Running, SetUpUninterrupted
<1> QED
  BY <1>1, <1>2, <1>3, <1>4, <1>5, <1>6, <1>7, <1>8
  DEF BasicNext, InLibrary, SetsUp, Terminated, basicvars

(* The invariant about identity, with alarms anywhere but between the       *)
(* setjmp into a new thread's buffer and the store of its stack pointer.    *)
THEOREM IdentityInvariance ==
  ASSUME SetUpUninterrupted
  PROVE  BasicSpec => []TInv
<1>1. BasicInit => TInv
  BY InitTInv
<1>2. TInv /\ [BasicNext]_basicvars => TInv'
  BY NextKeepsTInv
<1> QED BY <1>1, <1>2, PTL DEF BasicSpec

(* A worker always runs under its own identity, with alarms between the     *)
(* stores of pthread_exit, and of pthread_create but for 124-154, even if   *)
(* two creators take one slot: a thread that ends is not saved, and a saved *)
(* thread is saved in its own entry (44-48).                                *)
THEOREM WorkersAreThemselvesAlways ==
  ASSUME SetUpUninterrupted
  PROVE  BasicSpec => []WorkersAreThemselves
<1>1. TInv => WorkersAreThemselves
  BY DEF TInv, WhoIsSaved, WorkersAreThemselves, At, Running
<1> QED BY <1>1, IdentityInvariance, PTL

-----------------------------------------------------------------------------
(* Order: with pthread_create uninterrupted, main alive, the last slot free *)

(* The thread the scheduler picks can be run, since main can be found.      *)
LEMMA PicksOneThatRuns ==
  ASSUME TInv, Steady, RoomLeft, cpu.at \notin Creating,
         NEW n \in Tid, IsNext(status, curr_TID, n)
  PROVE  \/ status[n] = "READY"
         \/ n = curr_TID /\ status[n] = "RUNNING"
<1>1. /\ curr_TID \in Tid /\ 0 \in Tid /\ MAX_THREADS \in Nat /\ MAX_THREADS >= 2
      /\ status \in [Tid -> Status]
  BY MaxAssumption DEF TInv, TypeOK, Tid
<1>2. status[n] = "READY" \/ (n = curr_TID /\ \A t \in Scanned(curr_TID) : status[t] # "READY")
  BY <1>1, NextIsReady
<1>3. curr_TID # MAX_THREADS - 1
  BY <1>1 DEF Steady, WhoRuns, LastUnused
<1>4. ASSUME status[curr_TID] # "RUNNING" PROVE status[0] = "READY" /\ 0 \in Scanned(curr_TID)
  BY <1>1, <1>3, <1>4 DEF Steady, OneRuns, WhoRuns, Scanned
<1> QED BY <1>2, <1>4

LEMMA SwitchKeepsSteady ==
  ASSUME TInv, TInv', Steady, RoomLeft, cpu.at \notin Creating, Running, Running', ~first_call,
         Scheduler(status, reg, Here(cpu.at)),
         UNCHANGED <<joining, exitcode, stack, total_threads, first_call, target, slot, loaded>>
  PROVE  Steady'
<1> DEFINE c == curr_TID
           here == Here(cpu.at)
           rg1 == Saved(status, reg, c, here)
<1>1. /\ c \in Tid /\ 0 \in Tid /\ status \in [Tid -> Status] /\ reg \in [Tid -> Context]
      /\ TypeOK
  <2>1. TypeOK
    BY DEF TInv
  <2>2. 0 \in Tid
    BY MaxAssumption DEF Tid
  <2> QED BY <2>1, <2>2 DEF TypeOK
<1>2. PICK n \in Tid : /\ IsNext(status, c, n)
                       /\ curr_TID' = n
                       /\ status' = [Demoted(status, c) EXCEPT ![n] = "RUNNING"]
                       /\ reg' = rg1
                       /\ Resume(rg1[n], NoTid)
  BY DEF Scheduler, Running
<1>3. status[n] = "READY" \/ (n = c /\ status[n] = "RUNNING")
  BY <1>2, PicksOneThatRuns
<1>4. \A t \in Tid : status'[t] = IF t = n THEN "RUNNING"
                                  ELSE IF status[t] = "RUNNING" THEN "READY" ELSE status[t]
  BY <1>1, <1>2 DEF Demoted, Steady, OneRuns
<1>5. /\ \A t \in Tid : reg'[t] = IF t = c /\ status[c] = "RUNNING" THEN here ELSE reg[t]
      /\ status[c] = "RUNNING" => here.flow = c /\ here.at = "user"
      /\ here \in Context
  <2>1. status[c] = "RUNNING" => cpu.at = "user" /\ cpu.flow = c
    BY <1>1 DEF Steady, WhoRuns, WhereItRuns
  <2>2. here \in Context
    BY <1>1 DEF Here, Context, TypeOK, BufferLabels
  <2> QED BY <1>1, <1>2, <2>1, <2>2 DEF Saved, Here
<1>6. BuffersInProgram'
  BY <1>3, <1>4, <1>5 DEF BuffersInProgram, Steady
<1>7. cpu' = [flow |-> n, at |-> "user"]
  <2>1. reg'[n].flow = n /\ reg'[n].at \in {"user", "start"} /\ reg'[n] \in Context
    BY <1>3, <1>4, <1>6 DEF BuffersInProgram, TInv, TypeOK
  <2>2. Resume(reg'[n], NoTid)
    BY <1>2
  <2> QED BY <1>1, <2>1, <2>2, ResumeTyped
<1>8. WhoRuns' /\ WhereItRuns' /\ OneRuns'
  BY <1>1, <1>2, <1>3, <1>4, <1>7 DEF WhoRuns, WhereItRuns, OneRuns, Leaving, Steady, Status
<1>9. FreedExited' /\ SlotUnused'
  BY <1>3, <1>4, <1>7 DEF FreedExited, SlotUnused, Steady, Building
<1>10. CountKept'
  <2>1. Live' = Live
    BY <1>3, <1>4 DEF Live
  <2>2. Cardinality(Live) \in Nat /\ total_threads \in Int
    BY <1>1, TidFinite DEF Live, TypeOK
  <2>3. Uncounted' = 0 /\ Uncounted \in {0, 1}
    BY <1>7 DEF Uncounted, Creating
  <2> QED BY <1>7, <2>1, <2>2, <2>3 DEF CountKept, Steady
<1>11. SlotsTaken'
  BY <1>3, <1>4 DEF SlotsTaken, Steady
<1>12. LastUnused'
  BY <1>3, <1>4, MaxAssumption DEF LastUnused, Steady, Tid
<1> QED BY <1>6, <1>8, <1>9, <1>10, <1>11, <1>12 DEF Steady

LEMMA CreateFindsSteady ==
  ASSUME BInv, TInv', RoomLeft, Running, cpu.at = "user", Cardinality(Created) < MaxCreated,
         NEW i \in Tid, CreateFinds(i)
  PROVE  Steady'
<1>1. /\ TypeOK /\ 0 \in Tid /\ MAX_THREADS - 1 \in Tid /\ cpu.flow \in Tid
      /\ MAX_THREADS \in Nat /\ MAX_THREADS >= 2 /\ slot \in [Tid -> Tid]
  <2>1. TypeOK /\ slot \in [Tid -> Tid]
    BY DEF BInv, TInv, LocalsTyped
  <2>2. 0 \in Tid /\ MAX_THREADS - 1 \in Tid /\ MAX_THREADS \in Nat /\ MAX_THREADS >= 2
    BY MaxAssumption DEF Tid
  <2> QED BY <2>1, <2>2 DEF TypeOK
<1>2. /\ cpu' = [cpu EXCEPT !.at = "c1"] /\ cpu'.at = "c1" /\ cpu'.flow = cpu.flow
      /\ slot'[cpu.flow] = i
      /\ status' = InitStatus /\ reg' = InitReg /\ total_threads' = InitTotal
      /\ UNCHANGED <<stack, curr_TID, loaded>>
      /\ InitStatus[i] = "FRESH" /\ \A t \in Tid : t < i => InitStatus[t] # "FRESH"
  BY <1>1 DEF CreateFinds, FirstFresh, Goto, TypeOK
<1>3. Uncounted' = 0
  BY <1>2 DEF Uncounted
<1>4. CASE first_call
  <2>1. /\ AloneAtFirst /\ InitTotal = 1
        /\ InitStatus = [t \in Tid |-> IF t = 0 THEN "RUNNING" ELSE "FRESH"]
        /\ InitReg = [reg EXCEPT ![0] = [flow |-> 0, at |-> "user", pos |-> pos[0] + 1]]
    BY <1>4 DEF BInv, InitStatus, InitReg, InitTotal, AloneAtFirst
  <2>2. i = 1
    <3>1. 1 \in Tid /\ i \in Nat
      BY <1>1 DEF Tid
    <3>2. InitStatus[0] = "RUNNING" /\ InitStatus[1] = "FRESH"
      BY <1>1, <2>1, <3>1
    <3> QED BY <1>2, <3>1, <3>2
  <2>3. WhoRuns' /\ WhereItRuns' /\ OneRuns'
    BY <1>1, <1>2, <2>1 DEF WhoRuns, WhereItRuns, OneRuns, AloneAtFirst, Leaving, Creating, Building
  <2>4. BuffersInProgram'
    BY <1>1, <1>2, <2>1 DEF BuffersInProgram, AloneAtFirst, TypeOK
  <2>5. RoomLeft => MAX_THREADS - 1 # 1
    <3>1. \A t \in Tid \ {0} : t < 1 => stack[t] # "none"
      BY DEF Tid
    <3> QED BY <1>1, <2>2, <3>1, SlotsNeeded
  <2>6. SlotUnused' /\ FreedExited' /\ SlotsTaken' /\ LastUnused'
    BY <1>1, <1>2, <2>1, <2>2, <2>5
    DEF SlotUnused, FreedExited, SlotsTaken, LastUnused, Building, AloneAtFirst
  <2>7. CountKept'
    <3>1. Live' = {0}
      BY <1>1, <1>2, <2>1 DEF Live
    <3>2. Cardinality({0}) = 1
      BY FS_Singleton
    <3> QED BY <1>2, <1>3, <2>1, <3>1, <3>2 DEF CountKept
  <2> QED BY <2>3, <2>4, <2>6, <2>7 DEF Steady
<1>5. CASE ~first_call
  <2>1. /\ Steady /\ status' = status /\ reg' = reg /\ total_threads' = total_threads
    BY <1>2, <1>5 DEF BInv, InitStatus, InitReg, InitTotal
  <2>2. WhoRuns' /\ WhereItRuns' /\ OneRuns' /\ BuffersInProgram'
    BY <1>1, <1>2, <2>1
    DEF Steady, WhoRuns, WhereItRuns, OneRuns, BuffersInProgram, Leaving, Creating, Building
  <2>3. RoomLeft => i # MAX_THREADS - 1
    <3>1. \A t \in Tid \ {0} : t < i => stack[t] # "none"
      BY <1>2, <2>1 DEF Steady, SlotsTaken
    <3> QED BY <1>1, <3>1, SlotsNeeded
  <2>4. SlotUnused' /\ FreedExited' /\ SlotsTaken' /\ LastUnused'
    BY <1>1, <1>2, <2>1, <2>3
    DEF Steady, SlotUnused, FreedExited, SlotsTaken, LastUnused, Building
  <2>5. CountKept'
    <3>1. Live' = Live
      BY <2>1 DEF Live
    <3>2. Uncounted = 0
      BY DEF Uncounted
    <3> QED BY <1>2, <1>3, <2>1, <3>1, <3>2 DEF Steady, CountKept
  <2> QED BY <2>1, <2>2, <2>4, <2>5 DEF Steady
<1> QED BY <1>4, <1>5

LEMMA CreateKeepsSteady ==
  ASSUME TInv, TInv', Steady, ~first_call, Running,
         SetsUp \/ CreateReadies \/ Loads("c6", "c7") \/ CreateCounts
  PROVE  Steady'
<1>1. /\ TypeOK /\ cpu.flow \in Tid /\ slot[cpu.flow] \in Tid /\ slot \in [Tid -> Tid]
      /\ loaded \in [Tid -> Int] /\ Live \in SUBSET Tid /\ total_threads \in Int
      /\ 0 \in Tid /\ MAX_THREADS - 1 \in Tid
  <2>1. TypeOK /\ slot \in [Tid -> Tid] /\ loaded \in [Tid -> Int] /\ Live \in SUBSET Tid
    BY DEF TInv, LocalsTyped, Live
  <2>2. 0 \in Tid /\ MAX_THREADS - 1 \in Tid
    BY MaxAssumption DEF Tid
  <2> QED BY <2>1, <2>2 DEF TypeOK
<1>2. Cardinality(Live) \in Nat
  BY <1>1, TidFinite
<1>3. CASE SetsUp
  <2> DEFINE i == slot[cpu.flow]
  <2>1. /\ cpu.at \in Building /\ cpu'.at \in Building \ {"c1"} /\ cpu'.flow = cpu.flow
        /\ status[i] = "FRESH" /\ UNCHANGED <<status, slot, loaded, curr_TID, total_threads>>
        /\ RoomLeft => i # MAX_THREADS - 1
        /\ cpu'.at \in {"c4", "c5"} => stack'[i] = "owned"
        /\ stack'[i] \in {stack[i], "owned"}
        /\ \A t \in Tid \ {i} : reg'[t] = reg[t] /\ stack'[t] = stack[t]
    BY <1>1, <1>3
    DEF SetsUp, CreateSaves, CreateAims, CreateAllocates, CreateStacks, At, Goto, Steady, SlotUnused,
        Building, TypeOK, globals, locals
  <2>2. cpu'.at = "c5" => reg'[i] = Started(i)
    BY <1>1, <1>3
    DEF SetsUp, CreateSaves, CreateAims, CreateAllocates, CreateStacks, At, Goto, TInv, BeingMade, TypeOK
  <2> HIDE DEF i
  <2>3. WhoRuns' /\ WhereItRuns' /\ OneRuns' /\ BuffersInProgram'
    <3>1. i \in Tid
      BY <1>1 DEF i
    <3>2. WhoRuns' /\ WhereItRuns' /\ OneRuns'
      BY <1>1, <2>1 DEF Steady, WhoRuns, WhereItRuns, OneRuns, Leaving, Creating, Building
    <3>3. BuffersInProgram'
      BY <2>1, <3>1 DEF Steady, BuffersInProgram
    <3> QED BY <3>2, <3>3
  <2>4. FreedExited' /\ SlotsTaken' /\ LastUnused'
    BY <1>1, <2>1 DEF Steady, FreedExited, SlotsTaken, LastUnused
  <2>5. SlotUnused'
    BY <1>1, <2>1, <2>2 DEF SlotUnused, i
  <2>6. CountKept'
    <3>1. Live' = Live
      BY <2>1 DEF Live
    <3>2. Uncounted = 0 /\ Uncounted' = 0
      BY <2>1 DEF Uncounted, Building
    <3> QED BY <2>1, <3>1, <3>2 DEF Steady, CountKept, Building
  <2> QED BY <2>3, <2>4, <2>5, <2>6 DEF Steady
<1>4. CASE CreateReadies
  <2> DEFINE i == slot[cpu.flow]
  <2>1. /\ cpu.at = "c5" /\ cpu'.at = "c6" /\ cpu'.flow = cpu.flow
        /\ status[i] = "FRESH" /\ reg[i] = Started(i) /\ stack[i] = "owned"
        /\ RoomLeft => i # MAX_THREADS - 1
        /\ status'[i] = "READY" /\ \A t \in Tid \ {i} : status'[t] = status[t]
        /\ UNCHANGED <<slot, loaded, curr_TID, total_threads, reg, stack>>
    BY <1>1, <1>4
    DEF CreateReadies, At, Goto, Steady, SlotUnused, Building, TypeOK, globals, locals
  <2>2. WhoRuns' /\ WhereItRuns' /\ OneRuns' /\ BuffersInProgram'
    <3> HIDE DEF i
    <3>1. i \in Tid /\ curr_TID \in Tid
      BY <1>1 DEF i, TypeOK
    <3>2. i # curr_TID /\ i # 0
      BY <2>1 DEF Steady, WhoRuns, OneRuns
    <3>3. status'[curr_TID] = status[curr_TID] /\ status'[0] = status[0]
      BY <1>1, <2>1, <3>1, <3>2
    <3>4. WhoRuns' /\ WhereItRuns'
      BY <2>1, <3>3 DEF Steady, WhoRuns, WhereItRuns, Leaving, Creating
    <3>5. OneRuns'
      BY <2>1, <3>1, <3>3 DEF Steady, OneRuns
    <3>6. BuffersInProgram'
      BY <2>1, <3>1 DEF Steady, BuffersInProgram, Started
    <3> QED BY <3>4, <3>5, <3>6
  <2>3. SlotUnused' /\ FreedExited' /\ SlotsTaken' /\ LastUnused'
    BY <1>1, <2>1 DEF Steady, SlotUnused, FreedExited, SlotsTaken, LastUnused, Building
  <2>4. CountKept'
    <3>1. Live' = Live \cup {i} /\ i \notin Live
      BY <1>1, <2>1 DEF Live
    <3>2. Uncounted = 0 /\ Uncounted' = -1
      BY <2>1 DEF Uncounted
    <3>3. Cardinality(Live \cup {i}) = Cardinality(Live) + 1
      BY <1>1, <3>1, TidFinite
    <3> QED BY <1>1, <1>2, <2>1, <3>1, <3>2, <3>3 DEF Steady, CountKept
  <2> QED BY <2>2, <2>3, <2>4 DEF Steady
<1>5. CASE Loads("c6", "c7") \/ CreateCounts
  <2>1. /\ cpu'.flow = cpu.flow
        /\ \/ cpu.at = "c6" /\ cpu'.at = "c7" /\ loaded'[cpu.flow] = total_threads
              /\ total_threads' = total_threads
           \/ cpu.at = "c7" /\ cpu'.at = "user" /\ total_threads' = loaded[cpu.flow] + 1
        /\ UNCHANGED <<status, reg, stack, curr_TID, slot>>
    BY <1>1, <1>5 DEF Loads, CreateCounts, At, Goto, TypeOK, tcb, globals, locals
  <2>2. WhoRuns' /\ WhereItRuns' /\ OneRuns' /\ BuffersInProgram'
    BY <1>1, <2>1
    DEF Steady, WhoRuns, WhereItRuns, OneRuns, BuffersInProgram, Leaving, Creating, Building
  <2>3. SlotUnused' /\ FreedExited' /\ SlotsTaken' /\ LastUnused'
    BY <1>1, <2>1 DEF Steady, SlotUnused, FreedExited, SlotsTaken, LastUnused, Building
  <2>4. CountKept'
    <3>1. Live' = Live
      BY <2>1 DEF Live
    <3>2. /\ Uncounted = -1
          /\ Uncounted' = IF cpu'.at = "c7" THEN -1 ELSE 0
      BY <2>1 DEF Uncounted
    <3> QED BY <1>1, <1>2, <2>1, <3>1, <3>2 DEF Steady, CountKept
  <2> QED BY <2>2, <2>3, <2>4 DEF Steady
<1> QED BY <1>3, <1>4, <1>5

LEMMA ExitKeepsSteady ==
  ASSUME TInv, TInv', Steady, MainNeverExits, ~first_call, Running, Running',
         ExitCalled \/ ExitFrees \/ Loads("b2", "b3") \/ ExitCounts
  PROVE  Steady'
<1> DEFINE c == curr_TID
<1>1. /\ TypeOK /\ c \in Tid /\ cpu.flow \in Tid /\ slot \in [Tid -> Tid]
      /\ loaded \in [Tid -> Int] /\ Live \in SUBSET Tid /\ total_threads \in Int
      /\ 0 \in Tid /\ MAX_THREADS - 1 \in Tid
  <2>1. TypeOK /\ slot \in [Tid -> Tid] /\ loaded \in [Tid -> Int] /\ Live \in SUBSET Tid
    BY DEF TInv, LocalsTyped, Live
  <2>2. 0 \in Tid /\ MAX_THREADS - 1 \in Tid
    BY MaxAssumption DEF Tid
  <2> QED BY <2>1, <2>2 DEF TypeOK
<1>2. Cardinality(Live) \in Nat
  BY <1>1, TidFinite
<1>3. CASE ExitCalled
  <2>1. /\ cpu.at = "user" /\ cpu'.at = "b1" /\ cpu'.flow = cpu.flow /\ cpu.flow # 0
        /\ UNCHANGED <<stack, reg, slot, loaded, curr_TID, total_threads>>
        /\ status' = [status EXCEPT ![c] = "EXITED"]
    BY <1>1, <1>3 DEF ExitCalled, At, Goto, TypeOK, globals, locals, MainNeverExits
  <2>2. cpu.flow = c /\ c # 0 /\ status[c] = "RUNNING"
    BY <2>1 DEF Steady, WhoRuns, Leaving
  <2>3. status'[c] = "EXITED" /\ \A t \in Tid \ {c} : status'[t] = status[t]
    BY <1>1, <2>1 DEF TypeOK
  <2> HIDE DEF c
  <2>4. WhoRuns' /\ WhereItRuns'
    BY <2>1, <2>2, <2>3 DEF WhoRuns, WhereItRuns, Leaving, c
  <2>5. OneRuns' /\ BuffersInProgram'
    BY <1>1, <2>1, <2>2, <2>3 DEF Steady, OneRuns, BuffersInProgram, c
  <2>6. FreedExited' /\ SlotUnused' /\ SlotsTaken'
    BY <1>1, <2>1, <2>2, <2>3 DEF Steady, FreedExited, SlotUnused, SlotsTaken, Building
  <2>7. LastUnused'
    BY <1>1, <2>2, <2>3 DEF Steady, LastUnused
  <2>8. CountKept'
    <3>1. Live' = Live \ {c} /\ c \in Live
      BY <1>1, <2>2, <2>3 DEF Live
    <3>2. Uncounted = 0 /\ Uncounted' = 1
      BY <2>1 DEF Uncounted
    <3>3. Cardinality(Live \ {c}) = Cardinality(Live) - 1
      BY <1>1, <3>1, TidFinite
    <3> QED BY <1>1, <1>2, <2>1, <3>1, <3>2, <3>3 DEF Steady, CountKept
  <2> QED BY <2>4, <2>5, <2>6, <2>7, <2>8 DEF Steady
<1>4. CASE ExitFrees \/ Loads("b2", "b3") \/ ExitCounts
  <2>1. /\ cpu'.flow = cpu.flow
        /\ \/ cpu.at = "b1" /\ cpu'.at = "b2" /\ total_threads' = total_threads
           \/ cpu.at = "b2" /\ cpu'.at = "b3" /\ total_threads' = total_threads
              /\ loaded'[cpu.flow] = total_threads
           \/ cpu.at = "b3" /\ cpu'.at = "b4" /\ total_threads' = loaded[cpu.flow] - 1
        /\ \/ stack' = stack
           \/ stack' = [stack EXCEPT ![c] = IF @ = "owned" THEN "freed" ELSE @]
        /\ UNCHANGED <<status, reg, curr_TID, slot>>
    BY <1>1, <1>4
    DEF ExitFrees, Loads, ExitCounts, Ends, Running, At, Goto, TypeOK, tcb, globals, locals
  <2>2. status[c] = "EXITED"
    BY <2>1 DEF Steady, WhoRuns, Leaving
  <2>3. \A t \in Tid : /\ stack'[t] = "freed" => stack[t] = "freed" \/ t = c
                       /\ stack'[t] = "none" => stack[t] = "none"
    BY <1>1, <2>1 DEF TypeOK
  <2>4. WhoRuns' /\ WhereItRuns' /\ OneRuns' /\ BuffersInProgram'
    BY <1>1, <2>1
    DEF Steady, WhoRuns, WhereItRuns, OneRuns, BuffersInProgram, Leaving, Creating, Building
  <2>5. SlotUnused' /\ FreedExited' /\ SlotsTaken' /\ LastUnused'
    BY <1>1, <2>1, <2>2, <2>3
    DEF Steady, SlotUnused, FreedExited, SlotsTaken, LastUnused, Building
  <2>6. CountKept'
    <3>1. Live' = Live
      BY <2>1 DEF Live
    <3>2. Uncounted = 1 /\ Uncounted' = IF cpu'.at = "b4" THEN 0 ELSE 1
      BY <2>1 DEF Uncounted
    <3> QED BY <1>1, <1>2, <2>1, <3>1, <3>2 DEF Steady, CountKept
  <2> QED BY <2>4, <2>5, <2>6 DEF Steady
<1> QED BY <1>3, <1>4

(* The last thread to end hands the CPU to main but leaves curr_TID.        *)
LEMMA LeavesKeepsSteady ==
  ASSUME TInv, TInv', Steady, RoomLeft, ~first_call, Running, Running', ExitLeaves
  PROVE  Steady'
<1>1. cpu.at = "b4" /\ cpu.at \notin Creating
  BY DEF ExitLeaves, At, Creating, Building
<1>2. CASE NoneReady(status)
  <2>1. /\ Resume(reg[0], NoTid)
        /\ UNCHANGED <<status, reg, curr_TID, stack, total_threads, slot, loaded>>
    BY <1>2 DEF ExitLeaves, locals
  <2>2. cpu' = [flow |-> 0, at |-> "user"]
    <3>1. TypeOK /\ 0 \in Tid
      BY MaxAssumption DEF TInv, Tid
    <3>2. reg[0] \in Context
      BY <3>1 DEF TypeOK
    <3>3. reg[0].flow = 0 /\ reg[0].at \in {"user", "start"}
      BY <3>1 DEF Steady, OneRuns, BuffersInProgram
    <3> QED BY <2>1, <3>1, <3>2, <3>3, ResumeTyped
  <2>3. status[curr_TID] = "EXITED"
    BY <1>1 DEF Steady, WhoRuns, Leaving
  <2>4. WhoRuns' /\ WhereItRuns' /\ OneRuns' /\ BuffersInProgram'
    BY <2>1, <2>2, <2>3 DEF Steady, WhoRuns, WhereItRuns, OneRuns, BuffersInProgram, Leaving
  <2>5. SlotUnused' /\ FreedExited' /\ SlotsTaken' /\ LastUnused'
    BY <2>1, <2>2 DEF Steady, SlotUnused, FreedExited, SlotsTaken, LastUnused, Building
  <2>6. CountKept'
    <3>1. Live' = Live
      BY <2>1 DEF Live
    <3>2. Uncounted = 0 /\ Uncounted' = 0
      BY <1>1, <2>2 DEF Uncounted
    <3> QED BY <2>1, <2>2, <3>1, <3>2 DEF Steady, CountKept
  <2> QED BY <2>4, <2>5, <2>6 DEF Steady
<1>3. CASE ~NoneReady(status)
  BY <1>1, <1>3, SwitchKeepsSteady DEF ExitLeaves, Switch
<1> QED BY <1>2, <1>3

LEMMA EndsKeepsBInv ==
  ASSUME BInv, NEW how \in {"exited", "crashed", "overrun", "masked"}, Ends(how), UNCHANGED locals
  PROVE  BInv'
<1>1. TInv'
  BY EndsKeepsTInv DEF BInv
<1>2. CountsNatural' /\ ~Running'
  BY DEF BInv, CountsNatural, Ends, globals, locals, Running
<1> QED BY <1>1, <1>2 DEF BInv

(* The count never falls below zero: what is taken off it was counted.      *)
LEMMA NextKeepsCounts ==
  ASSUME BInv, MainNeverExits, [BasicNext]_basicvars
  PROVE  CountsNatural'
<1>1. /\ TypeOK /\ cpu.flow \in Tid /\ CountsNatural /\ Live \in SUBSET Tid
      /\ loaded[cpu.flow] \in Nat
  BY DEF BInv, TInv, TypeOK, Live, CountsNatural
<1>2. Cardinality(Live) \in Nat
  BY <1>1, TidFinite
<1>3. ASSUME ExitCounts PROVE total_threads' \in Nat /\ loaded' = loaded
  <2>1. /\ cpu.at = "b3" /\ Running /\ total_threads' = loaded[cpu.flow] - 1 /\ loaded' = loaded
        /\ UNCHANGED first_call
    BY <1>3 DEF ExitCounts, At, Running, locals
  <2>2. Steady
    BY <2>1 DEF BInv, AloneAtFirst
  <2>3. Uncounted = 1
    BY <2>1 DEF Uncounted
  <2> QED BY <1>1, <1>2, <2>1, <2>2, <2>3 DEF Steady, CountKept, CountsNatural
<1>4. ASSUME Loads("c6", "c7") \/ Loads("b2", "b3") PROVE CountsNatural'
  BY <1>1, <1>4 DEF Loads, CountsNatural, globals
<1>5. ASSUME CreateCalled \/ CreateCounts PROVE CountsNatural'
  BY <1>1, <1>5
  DEF CreateCalled, CreateCounts, CreateRefused, CreateFinds, InitTotal, Ends, CountsNatural, globals,
      locals
<1>6. ASSUME UNCHANGED <<total_threads, loaded>> PROVE CountsNatural'
  BY <1>1, <1>6 DEF CountsNatural
<1>7. ASSUME \/ SetsUp \/ CreateReadies \/ ExitCalled \/ ExitFrees \/ ExitLeaves \/ Preempted
             \/ ((MainReturns \/ Terminated) /\ UNCHANGED locals) \/ UNCHANGED basicvars
      PROVE  UNCHANGED <<total_threads, loaded>>
  BY <1>7
  DEF SetsUp, CreateSaves, CreateAims, CreateAllocates, CreateStacks, CreateReadies, ExitCalled, ExitFrees, ExitLeaves, Preempted, Alarm, MainReturns,
      Terminated, Ends, basicvars, vars, globals, locals
<1> QED
  BY <1>1, <1>3, <1>4, <1>5, <1>6, <1>7 DEF BasicNext, InLibrary, SetsUp, CountsNatural

LEMMA NextKeepsBInv ==
  ASSUME CreateUninterrupted, MainNeverExits, RoomLeft, BInv, [BasicNext]_basicvars
  PROVE  BInv'
<1>1. TInv /\ TInv' /\ CountsNatural'
  <2>1. SetUpUninterrupted
    BY DEF CreateUninterrupted, SetUpUninterrupted, Creating, Building, SetUp
  <2> QED BY <2>1, NextKeepsTInv, NextKeepsCounts DEF BInv
<1> SUFFICES ASSUME Running' PROVE IF first_call' THEN AloneAtFirst' ELSE Steady'
  BY <1>1 DEF BInv
<1>2. CASE UNCHANGED basicvars
  BY <1>2
  DEF BInv, basicvars, vars, tcb, globals, flows, locals, Running, AloneAtFirst, Steady, WhoRuns,
      WhereItRuns, OneRuns, BuffersInProgram, SlotUnused, FreedExited, CountKept, Uncounted, Live,
      SlotsTaken, LastUnused
<1>3. CASE BasicNext
  <2>1. Running /\ ~((MainReturns \/ Terminated) /\ UNCHANGED locals)
    BY <1>3
    DEF BasicNext, InLibrary, CreateCalled, ExitCalled, SetsUp, CreateSaves, CreateAims, CreateAllocates, CreateStacks, CreateReadies, Loads, CreateCounts,
        ExitFrees, ExitCounts, ExitLeaves, Preempted, Alarm, At, Running, MainReturns, Terminated, Ends,
        vars
  <2>2. CASE first_call
    <3>1. AloneAtFirst /\ cpu.at = "user" /\ cpu.flow = 0
      BY <2>1, <2>2 DEF BInv, AloneAtFirst
    <3>2. CreateCalled
      BY <1>3, <2>1, <2>2, <3>1
      DEF BasicNext, InLibrary, ExitCalled, SetsUp, CreateSaves, CreateAims, CreateAllocates, CreateStacks, CreateReadies, Loads, CreateCounts,
          ExitFrees, ExitCounts, ExitLeaves, Preempted, Alarm, At, MainNeverExits
    <3>3. PICK i \in Tid : CreateFinds(i)
      <4>1. InitTotal = 1 /\ ~(InitTotal > MAX_THREADS)
        BY <2>2, <3>1, MaxAssumption DEF InitTotal, AloneAtFirst
      <4>2. ~Ends("overrun")
        BY DEF Ends, Running
      <4> QED BY <3>2, <4>1, <4>2 DEF CreateCalled
    <3>4. Steady'
      BY <1>1, <2>1, <3>1, <3>2, <3>3, CreateFindsSteady DEF CreateCalled
    <3> QED BY <3>3, <3>4 DEF CreateFinds
  <2>3. CASE ~first_call
    <3>1. Steady /\ ~first_call'
      <4>1. Steady
        BY <2>1, <2>3 DEF BInv
      <4>2. UNCHANGED first_call \/ ~first_call'
        BY <1>3
        DEF BasicNext, InLibrary, CreateCalled, CreateRefused, CreateFinds, Ends, ExitCalled, SetsUp, CreateSaves, CreateAims, CreateAllocates, CreateStacks,
            CreateReadies, Loads, CreateCounts, ExitFrees, ExitCounts, ExitLeaves, Preempted, Alarm,
            MainReturns, Terminated, vars, globals, tcb
      <4> QED BY <2>3, <4>1, <4>2
    <3>2. ASSUME CreateCalled PROVE Steady'
      <4>1. cpu.at = "user" /\ Cardinality(Created) < MaxCreated
        BY <3>2 DEF CreateCalled, At
      <4>2. CASE CreateRefused
        BY <3>1, <4>2
        DEF CreateRefused, tcb, globals, locals, Steady, WhoRuns, WhereItRuns, OneRuns,
            BuffersInProgram, SlotUnused, FreedExited, CountKept, Uncounted, Live, SlotsTaken, LastUnused
      <4>3. CASE Ends("overrun")
        BY <4>3 DEF Ends, Running
      <4>4. ASSUME NEW i \in Tid, CreateFinds(i) PROVE Steady'
        BY <1>1, <2>1, <4>1, <4>4, CreateFindsSteady
      <4> QED BY <3>2, <4>2, <4>3, <4>4 DEF CreateCalled
    <3>3. ASSUME SetsUp \/ CreateReadies \/ Loads("c6", "c7") \/ CreateCounts PROVE Steady'
      BY <1>1, <2>1, <2>3, <3>1, <3>3, CreateKeepsSteady
    <3>4. ASSUME ExitCalled \/ ExitFrees \/ Loads("b2", "b3") \/ ExitCounts PROVE Steady'
      BY <1>1, <2>1, <2>3, <3>1, <3>4, ExitKeepsSteady
    <3>5. ASSUME ExitLeaves PROVE Steady'
      BY <1>1, <2>1, <2>3, <3>1, <3>5, LeavesKeepsSteady
    <3>6. ASSUME Preempted PROVE Steady'
      <4>1. /\ cpu.at \notin Creating /\ Scheduler(status, reg, Here(cpu.at))
            /\ UNCHANGED <<joining, exitcode, stack, total_threads, first_call, target, slot, loaded>>
        BY <3>6 DEF Preempted, Alarm, CreateUninterrupted, Creating
      <4> QED BY <1>1, <2>1, <2>3, <3>1, <4>1, SwitchKeepsSteady
    <3> QED
      BY <1>3, <2>1, <3>1, <3>2, <3>3, <3>4, <3>5, <3>6 DEF BasicNext, InLibrary, SetsUp
  <2> QED BY <2>2, <2>3
<1> QED BY <1>2, <1>3

LEMMA InitBInv == BasicInit => BInv
<1> SUFFICES ASSUME BasicInit PROVE BInv
  OBVIOUS
<1>1. TInv
  BY InitTInv
<1>2. CountsNatural /\ first_call /\ AloneAtFirst
  BY DEF BasicInit, Init, CountsNatural, AloneAtFirst
<1> QED BY <1>1, <1>2 DEF BInv

-----------------------------------------------------------------------------
(* The three hypotheses hold in basic_exits.  With alarms in pthread_create *)
(* two threads take one slot; with main's entry given up, or with the last  *)
(* slot in use (37), the search may find nobody, and scheduler() marks the  *)
(* thread that ended RUNNING again (57).                                    *)
THEOREM OrderInvariance ==
  ASSUME CreateUninterrupted, MainNeverExits, RoomLeft
  PROVE  BasicSpec => []BInv
<1>1. BasicInit => BInv
  BY InitBInv
<1>2. BInv /\ [BasicNext]_basicvars => BInv'
  BY NextKeepsBInv
<1> QED BY <1>1, <1>2, PTL DEF BasicSpec

(* Types: total_threads, a load and a store at a time (173-175), never      *)
(* falls below zero.                                                        *)
THEOREM BasicTypeCorrect ==
  ASSUME CreateUninterrupted, MainNeverExits, RoomLeft
  PROVE  BasicSpec => []BasicTypeOK
<1>1. BInv => BasicTypeOK
  BY DEF BInv, TInv, LocalsTyped, CountsNatural, BasicTypeOK
<1> QED BY <1>1, OrderInvariance, PTL

(* pthread_exit frees the stack it runs on with SIGALRM unblocked (174):    *)
(* an alarm there takes the CPU away for good, and no thread is ever run    *)
(* again on a freed stack.                                                  *)
THEOREM BasicFreedStaysDown ==
  ASSUME CreateUninterrupted, MainNeverExits, RoomLeft
  PROVE  BasicSpec => []FreedStaysDown
<1>1. BInv => FreedStaysDown
  <2> SUFFICES ASSUME BInv, NEW t \in Tid, Running, stack[t] = "freed"
               PROVE  /\ status[t] \notin {"READY", "BLOCKED"}
                      /\ ~(cpu.flow = t /\ cpu.at = "user")
    BY DEF FreedStaysDown
  <2>1. Steady
    BY DEF BInv, AloneAtFirst
  <2>2. status[t] = "EXITED"
    BY <2>1 DEF Steady, FreedExited
  <2> QED BY <2>1, <2>2 DEF Steady, WhoRuns, OneRuns, Leaving
<1> QED BY <1>1, OrderInvariance, PTL

(* An exit cut short between its load and its store leaves the count too    *)
(* high, never too low: the limit check of pthread_create stays safe.       *)
THEOREM CountCoversAlways ==
  ASSUME CreateUninterrupted, MainNeverExits, RoomLeft
  PROVE  BasicSpec => []CountCovers
<1>1. BInv => CountCovers
  <2> SUFFICES ASSUME BInv, Running, ~first_call, cpu.at \notin {"c6", "c7"}
               PROVE  Cardinality(Live) <= total_threads
    BY DEF CountCovers
  <2>1. Steady /\ Live \in SUBSET Tid /\ total_threads \in Int
    BY DEF BInv, TInv, TypeOK, Live
  <2>2. Cardinality(Live) \in Nat
    BY <2>1, TidFinite, MaxAssumption DEF BInv, TInv, TypeOK
  <2>3. Uncounted \in {0, 1}
    BY DEF Uncounted
  <2> QED BY <2>1, <2>2, <2>3 DEF Steady, CountKept
<1> QED BY <1>1, OrderInvariance, PTL
=============================================================================
