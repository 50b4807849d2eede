----------------------- MODULE ThreadsHandOffProofs -----------------------
(***************************************************************************)
(* Proofs about Threads, for a table of any size, when no alarm arrives in  *)
(* the windows of pthread_join and pthread_exit that lines 281 and 298-311  *)
(* leave open: every hand-off comes through, joins return what they should, *)
(* the count is exact and the library implements ThreadLife.                *)
(***************************************************************************)
EXTENDS ThreadsProofs

WindowsClosed == AlarmPoints \cap {"k1", "x1", "x2", "x3", "x4", "x5", "x6", "j1"} = {}

(* A program that leaves the last slot of the table alone: with it in use,  *)
(* the search of lines 37-39 reads past the table.                          *)
RoomLeft == MaxCreated < MAX_THREADS - 1

(* The joiner that the hand-off in progress returns to.                     *)
Served(s) == \/ cpu.at \in {"k1", "x1", "x2", "x3", "x4", "x5"} /\ s = local[cpu.flow]
             \/ cpu.at \in {"x6", "j1"} /\ s = curr_TID

(* A thread in pthread_join is blocked until its target has handed over.    *)
JoinersBlocked == \A s \in Tid : target[s] # NoTid => status[s] = "BLOCKED"
TargetsUp ==
  \A s \in Tid : status[s] = "BLOCKED" =>
    status[target[s]] \in {"READY", "RUNNING", "BLOCKED"} \/ Served(s)
NobodyBlocked == cpu.at \in {"e0", "e1"} => \A t \in Tid : status[t] # "BLOCKED"
ValueStored ==
  /\ cpu.at = "x5" => exitcode[curr_TID] = curr_TID
  /\ cpu.at \in {"x6", "j1"} => exitcode[target[curr_TID]] = target[curr_TID]
  /\ cpu.at = "j1" => status[target[curr_TID]] = "EXITED"
CallerAwake == cpu.at \notin LibraryLabels => status[cpu.flow] # "WAITING"
Counted == total_threads = Cardinality(Live) + Uncounting

(* What keeps a longjmp from crashing the process.                          *)
Usable(st, b) == b.at # "none" /\ (b.at = "x1" => st \in Ended)
BuffersSet == \A t \in Tid : status[t] # "FRESH" => Usable(status[t], reg[t])
MainFresh == status[0] = "BLOCKED" => reg[0].pos = pos[0]
FreedOnce == cpu.at = "x2" => stack[curr_TID] # "freed"
SlotsTaken == \A t \in Tid \ {0} : status[t] # "FRESH" => stack[t] # "none"
LastUnused == RoomLeft => status[MAX_THREADS - 1] = "FRESH"

HInv ==
  Running /\ ~first_call =>
    /\ JoinersBlocked /\ TargetsUp /\ NobodyBlocked /\ ValueStored /\ CallerAwake /\ Counted
    /\ BuffersSet /\ MainFresh /\ FreedOnce /\ SlotsTaken /\ LastUnused

-----------------------------------------------------------------------------
(* The scheduler when no hand-off is in progress *)

(* What a run of the scheduler from the statuses st and the buffers rg      *)
(* changes, if the process goes on.                                         *)
SwitchMoves(st, rg) ==
  /\ st[curr_TID'] = "READY"
     \/ (curr_TID' = curr_TID /\ \A t \in Scanned(curr_TID) : st[t] # "READY")
  /\ status'[curr_TID'] = "RUNNING"
  /\ \A t \in Tid \ {curr_TID'} : /\ status'[t] = IF st[t] = "RUNNING" THEN "READY" ELSE st[t]
                                  /\ pos'[t] = pos[t]
  /\ \A t \in Tid : /\ st[t] # "RUNNING" => reg'[t] = rg[t]
                    /\ st[t] = "RUNNING" => reg'[t].at \notin {"none", "x1"}
  /\ reg'[curr_TID'].at # "x1"

LEMMA SchedulerMoves ==
  ASSUME TypeOK, NEW st \in [Tid -> Status], NEW rg \in [Tid -> Context], NEW here,
         here.at \notin {"none", "x1"}, \A t \in Tid : rg[t].flow = t,
         \A t \in Tid : st[t] = "RUNNING" => t = curr_TID,
         st[curr_TID] = "RUNNING" => here.flow = curr_TID,
         Scheduler(st, rg, here), Running'
  PROVE  SwitchMoves(st, rg)
<1> DEFINE c == curr_TID
           rg1 == Saved(st, rg, c, here)
<1>1. c \in Tid /\ pos \in [Tid -> Nat]
  BY DEF TypeOK
<1>2. PICK n \in Tid : /\ IsNext(st, c, n)
                       /\ curr_TID' = n
                       /\ status' = [Demoted(st, c) EXCEPT ![n] = "RUNNING"]
                       /\ reg' = rg1
                       /\ Resume(rg1[n], NoTid)
  BY DEF Scheduler, Running
<1>3. st[n] = "READY" \/ (n = c /\ \A t \in Scanned(c) : st[t] # "READY")
  BY <1>1, <1>2, NextIsReady
<1>4. /\ \A t \in Tid : st[t] # "RUNNING" => rg1[t] = rg[t]
      /\ \A t \in Tid : st[t] = "RUNNING" => rg1[t] = here
      /\ \A t \in Tid : rg1[t].flow = t
  BY <1>1 DEF Saved
<1>5. /\ \A t \in Tid \ {n} : status'[t] = IF st[t] = "RUNNING" THEN "READY" ELSE st[t]
      /\ status'[n] = "RUNNING"
  BY <1>1, <1>2 DEF Demoted, Status
<1>7. rg1[n].at # "x1"
  <2> HIDE DEF rg1
  <2> QED BY <1>2 DEF Resume, Running
<1>6. \A t \in Tid \ {n} : pos'[t] = pos[t]
  <2>1. rg1[n].flow = n
    BY <1>4
  <2> HIDE DEF rg1
  <2>2. \E p : pos' = [pos EXCEPT ![n] = p]
    BY <1>2, <2>1 DEF Resume, Running
  <2> QED BY <1>1, <2>2
<1> QED BY <1>2, <1>3, <1>4, <1>5, <1>6, <1>7 DEF SwitchMoves

(* Among finitely many threads one is the last.                             *)
LEMMA LastOf == ASSUME NEW S \in SUBSET Tid, S # {}
                PROVE  \E x \in S : \A y \in S : y <= x
<1> DEFINE from(x) == {y \in Tid : y >= x}
           above == {from(x) : x \in S}
           R == StrictSubsetOrdering(Tid)
<1>1. IsFiniteSet(Tid)
  BY FS_Interval, MaxAssumption DEF Tid
<1>2. above \subseteq FiniteSubsetsOf(Tid) /\ above # {}
  <2>1. \A x \in S : IsFiniteSet(from(x)) /\ from(x) \subseteq Tid
    BY <1>1, FS_Subset
  <2> QED BY <2>1 DEF FiniteSubsetsOf
<1>3. IsWellFoundedOn(R, FiniteSubsetsOf(Tid))
  BY FS_StrictSubsetOrderingWellFounded
<1>4. PICK A \in above : \A B \in above : <<B, A>> \notin R
  <2> HIDE DEF above, R
  <2> QED BY <1>2, <1>3, WFMin
<1>5. PICK x \in S : A = from(x)
  OBVIOUS
<1>6. ASSUME NEW y \in S, ~(y <= x) PROVE FALSE
  <2>1. x \in Tid /\ y \in Tid /\ Tid \subseteq Int
    BY MaxAssumption DEF Tid
  <2>2. x < y /\ \A z \in Tid : z >= y => z >= x
    BY <1>6, <2>1
  <2>3. x >= x /\ ~(x >= y)
    BY <2>1, <2>2
  <2>4. from(y) \subseteq from(x) /\ x \in from(x) /\ x \notin from(y)
    BY <2>1, <2>2, <2>3
  <2>5. <<from(y), A>> \in R
    BY <1>2, <1>5, <2>4 DEF StrictSubsetOrdering, FiniteSubsetsOf
  <2> QED BY <1>4, <2>5
<1> QED BY <1>6

(* The target of the last blocked thread is not blocked: it can run.        *)
LEMMA SomebodyCanRun ==
  ASSUME NEW st, NEW tg, NEW x \in Tid, st[x] = "BLOCKED",
         \A s \in Tid : st[s] = "BLOCKED" =>
           tg[s] \in Tid /\ s < tg[s] /\ st[tg[s]] \in {"READY", "RUNNING", "BLOCKED"}
  PROVE  \E s \in Tid : /\ st[s] = "BLOCKED" /\ tg[s] \in Tid /\ s < tg[s]
                        /\ st[tg[s]] \in {"READY", "RUNNING"}
<1> DEFINE S == {s \in Tid : st[s] = "BLOCKED"}
<1>1. S \in SUBSET Tid /\ S # {}
  OBVIOUS
<1>2. PICK s \in S : \A y \in S : y <= s
  <2> HIDE DEF S
  <2> QED BY <1>1, LastOf
<1>3. s \in Tid /\ tg[s] \in Tid /\ s < tg[s] /\ st[tg[s]] \in {"READY", "RUNNING", "BLOCKED"}
  OBVIOUS
<1>4. tg[s] \notin S
  BY <1>2, <1>3 DEF Tid
<1> QED BY <1>3, <1>4

(* A run of the scheduler outside a hand-off keeps the invariant.           *)
LEMMA AfterHandOver ==
  ASSUME IInv, Running, ~first_call, IInv', JInv', Running',
         NEW st \in [Tid -> Status], NEW rg \in [Tid -> Context],
         \A t \in Tid : (st[t] = "FRESH" <=> status[t] = "FRESH")
                        /\ (st[t] = "EXITED" <=> status[t] = "EXITED"),
         SwitchPost(st, target', joining'), SwitchMoves(st, rg),
         st[curr_TID] = "BLOCKED" => \E t \in Scanned(curr_TID) : st[t] = "READY",
         \A s \in Tid : target'[s] # NoTid => st[s] = "BLOCKED",
         \A s \in Tid : st[s] = "BLOCKED" => st[target'[s]] \in {"READY", "RUNNING", "BLOCKED"},
         \A t \in Tid : st[t] # "FRESH" => Usable(st[t], rg[t]),
         st[0] = "BLOCKED" => rg[0].pos = pos[0],
         total_threads = Cardinality(Live), SlotsTaken, LastUnused,
         UNCHANGED <<stack, total_threads, first_call>>
  PROVE  HInv'
<1> DEFINE n == curr_TID'
<1>1. /\ n \in Tid /\ 0 \in Tid
      /\ \A t \in Tid : target'[t] # NoTid <=> target'[t] \in Tid
  <2>1. n \in Tid /\ target' \in [Tid -> Tid \cup {NoTid}]
    BY DEF IInv, TypeOK
  <2>2. 0 \in Tid /\ NoTid \notin Tid
    BY MaxAssumption DEF NoTid, Tid
  <2> QED BY <2>1, <2>2
<1>2. /\ \A t \in Tid : (status'[t] = "FRESH" <=> st[t] = "FRESH")
                        /\ (status'[t] = "EXITED" <=> st[t] = "EXITED")
      /\ cpu'.flow = n /\ status'[n] = "RUNNING"
      /\ cpu'.at \in {"user", "j1"} \cup ClientLabels
      /\ cpu'.at = "j1" <=> target'[n] # NoTid
      /\ JoinsRight(status', reg', target', joining', n)
  BY DEF SwitchPost
<1>3. /\ \/ st[n] = "READY"
         \/ n = curr_TID /\ \A t \in Scanned(curr_TID) : st[t] # "READY"
      /\ \A t \in Tid \ {n} : /\ status'[t] = IF st[t] = "RUNNING" THEN "READY" ELSE st[t]
                              /\ pos'[t] = pos[t]
      /\ \A t \in Tid : /\ st[t] # "RUNNING" => reg'[t] = rg[t]
                        /\ st[t] = "RUNNING" => reg'[t].at \notin {"none", "x1"}
      /\ reg'[n].at # "x1"
  BY DEF SwitchMoves
<1> HIDE DEF n
<1>4. st[n] # "BLOCKED"
  BY <1>3
<1>5. cpu'.at \in {"user"} \cup ClientLabels
  BY <1>1, <1>2, <1>4
<1>6. cpu'.at \notin LibraryLabels
  BY <1>5, ClientAssumption DEF LibraryLabels
<1>7. \A t \in Tid : status'[t] = "BLOCKED" <=> st[t] = "BLOCKED"
  BY <1>2, <1>3, <1>4
<1>8. JoinersBlocked'
  BY <1>7 DEF JoinersBlocked
<1>9. TargetsUp'
  <2>1. \A s \in Tid : status'[s] = "BLOCKED" => target'[s] \in Tid
    BY <1>1, <1>2 DEF JoinsRight, Targets
  <2>2. \A t \in Tid : st[t] \in {"READY", "RUNNING", "BLOCKED"} =>
                       status'[t] \in {"READY", "RUNNING", "BLOCKED"}
    BY <1>2, <1>3
  <2> QED BY <1>7, <2>1, <2>2 DEF TargetsUp
<1>10. NobodyBlocked' /\ ValueStored' /\ FreedOnce'
  BY <1>6 DEF NobodyBlocked, ValueStored, FreedOnce, LibraryLabels
<1>11. CallerAwake'
  BY <1>2 DEF CallerAwake, n
<1>12. Counted'
  <2>1. Live' = Live
    BY <1>2 DEF Live
  <2>2. Uncounting' = 0 /\ Cardinality(Live) + 0 = Cardinality(Live)
    <3>1. Live \in SUBSET Tid
      BY DEF Live
    <3>2. Cardinality(Live) \in Nat
      BY <1>1, <3>1, TidFinite
    <3> QED BY <1>6, <3>2 DEF Uncounting, LibraryLabels
  <2> QED BY <2>1, <2>2 DEF Counted
<1>13. BuffersSet'
  BY <1>2, <1>3 DEF BuffersSet, Usable, Ended
<1>14. MainFresh'
  BY <1>1, <1>2, <1>3, <1>7 DEF MainFresh
<1>15. SlotsTaken'
  BY <1>2 DEF SlotsTaken
<1>16. LastUnused'
  <2>1. MAX_THREADS - 1 \in Tid
    BY MaxAssumption DEF Tid
  <2> QED BY <1>2, <2>1 DEF LastUnused, RoomLeft
<1> QED
  BY <1>8, <1>9, <1>10, <1>11, <1>12, <1>13, <1>14, <1>15, <1>16 DEF HInv

-----------------------------------------------------------------------------
(* The invariant, action by action: the calls and the alarm *)

LEMMA SlotsNeeded ==
  ASSUME NEW i \in Tid, MAX_THREADS - 1 = i, RoomLeft, Cardinality(Created) < MaxCreated,
         \A t \in Tid \ {0} : t < i => stack[t] # "none"
  PROVE  FALSE
<1>1. MAX_THREADS \in Nat /\ MAX_THREADS >= 2 /\ MaxCreated \in Nat
  BY MaxAssumption, BoundAssumption
<1>2. IsFiniteSet(Tid) /\ Created \subseteq Tid /\ 1 .. MAX_THREADS - 2 \subseteq Created
  BY <1>1, FS_Interval DEF Tid, Created
<1>3. /\ IsFiniteSet(Created) /\ Cardinality(Created) \in Nat
      /\ Cardinality(1 .. MAX_THREADS - 2) <= Cardinality(Created)
  BY <1>2, FS_Subset, FS_CardinalityType
<1>4. Cardinality(1 .. MAX_THREADS - 2) = MAX_THREADS - 2
  <2>1. CASE MAX_THREADS - 2 = 0
    <3>1. 1 .. MAX_THREADS - 2 = {}
      BY <2>1
    <3> QED BY <2>1, <3>1, FS_EmptySet
  <2>2. CASE MAX_THREADS - 2 # 0
    <3>1. /\ 1 <= MAX_THREADS - 2 /\ 1 \in Int /\ MAX_THREADS - 2 \in Int
          /\ (MAX_THREADS - 2) - 1 + 1 = MAX_THREADS - 2
      BY <1>1, <2>2
    <3>2. Cardinality(1 .. MAX_THREADS - 2) = (MAX_THREADS - 2) - 1 + 1
      BY <3>1, FS_Interval
    <3> QED BY <3>1, <3>2
  <2> QED BY <2>1, <2>2
<1> QED BY <1>1, <1>3, <1>4 DEF RoomLeft

LEMMA CreateKeepsHInv == ASSUME IInv, JInv, HInv, Create, IInv' PROVE HInv'
<1>1. CASE Ends("masked") \/ Ends("overrun")
  BY <1>1 DEF Ends, HInv, Running
<1>2. ASSUME NEW i \in Tid, CreateThread(i) PROVE HInv'
  <2> DEFINE c == curr_TID
  <2>0. At("user") /\ Cardinality(Created) < MaxCreated
    BY DEF Create
  <2>1. /\ Running /\ cpu.at = "user" /\ cpu.flow = c /\ c \in Tid /\ 0 \in Tid
        /\ status \in [Tid -> Status] /\ reg \in [Tid -> Context]
        /\ target \in [Tid -> Tid \cup {NoTid}]
        /\ pos \in [Tid -> Nat] /\ stack \in [Tid -> {"none", "owned", "freed"}]
        /\ total_threads \in Int /\ target[c] = NoTid /\ (c # 0 => status[c] = "RUNNING")
        /\ Uncounting = 0 /\ StacksRight
    BY <2>0, Caller
  <2>2. /\ cpu' = cpu /\ curr_TID' = c /\ target' = target /\ ~first_call'
        /\ stack' = [stack EXCEPT ![i] = "owned"]
        /\ \A t \in Tid \ {c} : pos'[t] = pos[t]
        /\ reg'[i].at = "start"
    BY <1>2, <2>1 DEF CreateThread, InitReg
  <2>3. ASSUME InitStatus[0] # "FRESH", \A t \in Tid \ {0} : InitStatus[t] # "FRESH" => stack[t] # "none"
        PROVE  LastUnused'
    <3>1. i = MAX_THREADS - 1 => ~RoomLeft
      <4> SUFFICES ASSUME i = MAX_THREADS - 1, RoomLeft PROVE FALSE
        OBVIOUS
      <4>1. \A t \in Tid \ {0} : t < i => stack[t] # "none"
        BY <1>2, <2>3 DEF CreateThread, FirstFresh
      <4> QED BY <2>0, <4>1, SlotsNeeded
    <3>2. ASSUME RoomLeft PROVE InitStatus[MAX_THREADS - 1] = "FRESH"
      <4>1. CASE first_call
        BY <4>1, MaxAssumption DEF InitStatus, Tid
      <4>2. CASE ~first_call
        BY <2>1, <4>2, <3>2 DEF InitStatus, HInv, LastUnused
      <4> QED BY <4>1, <4>2
    <3>3. \A t \in Tid : t # i => status'[t] = InitStatus[t]
      BY <1>2 DEF CreateThread, InitStatus
    <3>4. MAX_THREADS - 1 \in Tid
      BY MaxAssumption DEF Tid
    <3> QED BY <3>1, <3>2, <3>3, <3>4 DEF LastUnused, RoomLeft
  <2>4. CASE first_call
    <3>1. /\ \A t \in Tid : target[t] = NoTid /\ stack[t] = "none"
          /\ total_threads = 0
      BY <2>1, <2>4 DEF JInv, NothingYet, IInv, BeforeFirstCall
    <3>2. InitStatus = [t \in Tid |-> IF t = 0 THEN "RUNNING" ELSE "FRESH"] /\ InitTotal = 1 /\ c = 0
      BY <2>4, <3>1 DEF InitStatus, InitTotal, IInv, BeforeFirstCall
    <3>3. i # 0
      BY <1>2, <2>1, <3>2 DEF CreateThread, FirstFresh
    <3>4. /\ status' = [t \in Tid |-> IF t = 0 THEN "RUNNING" ELSE IF t = i THEN "READY" ELSE "FRESH"]
          /\ total_threads' = 2
      <4>1. status' = [InitStatus EXCEPT ![i] = "READY"] /\ total_threads' = InitTotal + 1
        BY <1>2 DEF CreateThread
      <4>2. status' = [t \in Tid |-> IF t = 0 THEN "RUNNING" ELSE IF t = i THEN "READY" ELSE "FRESH"]
        BY <3>2, <3>3, <4>1
      <4> QED BY <3>2, <4>1, <4>2
    <3>5. reg'[0].at = "user"
      BY <1>2, <2>1, <2>4, <3>3 DEF CreateThread, InitReg
    <3>6. JoinersBlocked' /\ TargetsUp' /\ NobodyBlocked' /\ ValueStored' /\ CallerAwake'
      BY <2>1, <2>2, <3>1, <3>2, <3>4
         DEF JoinersBlocked, TargetsUp, NobodyBlocked, ValueStored, CallerAwake
    <3>7. Counted'
      <4>1. Live' = {0, i}
        BY <2>1, <3>3, <3>4 DEF Live
      <4>2. Cardinality({0, i}) = 2
        <5>1. {0} \in SUBSET Tid /\ i \notin {0} /\ {0} \cup {i} = {0, i}
          BY <2>1, <3>3
        <5>2. Cardinality({0}) = 1
          BY FS_Singleton
        <5>3. Cardinality({0} \cup {i}) = Cardinality({0}) + 1
          BY <5>1, TidFinite
        <5> QED BY <5>1, <5>2, <5>3
      <4>3. Uncounting' = 0
        BY <2>1, <2>2 DEF Uncounting
      <4> QED BY <3>4, <4>1, <4>2, <4>3 DEF Counted
    <3>8. BuffersSet' /\ MainFresh' /\ FreedOnce' /\ SlotsTaken'
      BY <2>1, <2>2, <3>4, <3>5 DEF BuffersSet, Usable, MainFresh, FreedOnce, SlotsTaken
    <3>9. LastUnused'
      BY <2>1, <2>3, <3>2
    <3> QED BY <3>6, <3>7, <3>8, <3>9 DEF HInv
  <2>5. CASE ~first_call
    <3>1. /\ JoinersBlocked /\ TargetsUp /\ Counted /\ BuffersSet /\ MainFresh /\ SlotsTaken /\ CallerAwake
      BY <2>1, <2>5 DEF HInv
    <3>2. /\ status[i] = "FRESH" /\ status' = [status EXCEPT ![i] = "READY"]
          /\ reg' = [reg EXCEPT ![i] = [flow |-> i, at |-> "start", pos |-> 0]]
          /\ total_threads' = total_threads + 1
      BY <1>2, <2>1, <2>5 DEF CreateThread, FirstFresh, InitStatus, InitReg, InitTotal
    <3>3. /\ status'[i] = "READY" /\ \A t \in Tid \ {i} : status'[t] = status[t]
          /\ \A t \in Tid \ {i} : reg'[t] = reg[t]
      BY <2>1, <3>2 DEF Status
    <3>4. i # 0 /\ i # c /\ status[0] # "FRESH" /\ status[c] # "BLOCKED"
      BY <2>0, <2>1, <2>5, <3>2, Caller DEF StacksRight, MainStays
    <3>5. /\ \A s \in Tid : target[s] # NoTid => target[s] \in Tid /\ status[target[s]] # "FRESH"
          /\ \A s \in Tid : status[s] = "BLOCKED" => target[s] # NoTid
      BY <2>0, <2>1, <2>5, Caller DEF JoinsRight, Targets
    <3>6. JoinersBlocked'
      BY <2>1, <2>2, <3>1, <3>2, <3>3 DEF JoinersBlocked
    <3>7. TargetsUp'
      <4>1. \A s \in Tid : status[s] = "BLOCKED" =>
              status[target[s]] \in {"READY", "RUNNING", "BLOCKED"}
        BY <2>1, <3>1 DEF TargetsUp, Served
      <4> QED BY <2>2, <3>2, <3>3, <3>5, <4>1 DEF TargetsUp
    <3>8. NobodyBlocked' /\ ValueStored' /\ CallerAwake' /\ FreedOnce'
      BY <2>1, <2>2, <3>1, <3>3, <3>4 DEF NobodyBlocked, ValueStored, CallerAwake, FreedOnce, LibraryLabels
    <3>9. Counted'
      <4>1. Live' = Live \cup {i} /\ i \notin Live /\ Live \in SUBSET Tid
        BY <3>2, <3>3 DEF Live
      <4>2. Cardinality(Live) \in Nat /\ Cardinality(Live \cup {i}) = Cardinality(Live) + 1
        BY <4>1, TidFinite
      <4>3. Uncounting' = 0 /\ total_threads = Cardinality(Live) + 0
        BY <2>1, <2>2, <3>1 DEF Uncounting, Counted
      <4> QED BY <3>2, <4>1, <4>2, <4>3 DEF Counted
    <3>10. BuffersSet' /\ SlotsTaken'
      BY <2>1, <2>2, <3>1, <3>3 DEF BuffersSet, Usable, SlotsTaken
    <3>11. MainFresh'
      BY <2>1, <2>2, <3>1, <3>3, <3>4 DEF MainFresh
    <3>12. LastUnused'
      BY <2>3, <2>5, <3>1, <3>4 DEF InitStatus, SlotsTaken
    <3> QED
      BY <3>6, <3>7, <3>8, <3>9, <3>10, <3>11, <3>12 DEF HInv
  <2> QED BY <2>4, <2>5
<1> QED BY <1>1, <1>2 DEF Create

LEMMA ExitToJoinerKeepsHInv ==
  ASSUME IInv, JInv, HInv, At("user"), ExitToJoiner, JInv'
  PROVE  HInv'
<1> SUFFICES ASSUME ~first_call PROVE HInv'
  BY DEF ExitToJoiner, HInv
<1> DEFINE c == curr_TID
           s == joining[c]
<1>1. /\ Running /\ cpu.at = "user" /\ cpu.flow = c /\ c \in Tid /\ 0 \in Tid
      /\ status \in [Tid -> Status]
      /\ target \in [Tid -> Tid \cup {NoTid}] /\ joining \in [Tid -> Tid \cup {NoTid}]
      /\ stack \in [Tid -> {"none", "owned", "freed"}]
      /\ total_threads \in Int /\ target[c] = NoTid /\ (c # 0 => status[c] = "RUNNING")
      /\ Uncounting = 0 /\ StacksRight
  BY Caller
<1>2. /\ s \in Tid /\ status' = [status EXCEPT ![c] = "EXITED"]
      /\ stack' = [stack EXCEPT ![c] = IF @ = "owned" THEN "freed" ELSE @]
      /\ total_threads' = total_threads - 1 /\ curr_TID' = s
      /\ exitcode' = [exitcode EXCEPT ![c] = c]
      /\ UNCHANGED <<joining, reg, first_call, pos, target, local, proc>>
  BY <1>1 DEF ExitToJoiner
<1>3. cpu'.at = "x6" /\ cpu'.flow = c
  BY <1>1 DEF ExitToJoiner, Goto, IInv, TypeOK
<1>4. /\ JoinersBlocked /\ TargetsUp /\ Counted /\ BuffersSet /\ MainFresh /\ SlotsTaken /\ LastUnused
      /\ OneJoiner(target) /\ Targets(status, reg, target, joining)
      /\ Notes(status, target, joining, c)
  BY <1>1, Caller DEF HInv, JoinsRight
<1>5. exitcode'[c] = c
  BY <1>1, <1>2 DEF IInv, TypeOK
<1> HIDE DEF c, s
<1>6. c # 0 /\ status[c] = "RUNNING"
  <2>1. joining[0] = NoTid
    BY <1>1 DEF StacksRight, MainStays
  <2> QED BY <1>1, <1>2, <2>1 DEF s, NoTid, Tid
<1>7. status'[c] = "EXITED" /\ \A t \in Tid \ {c} : status'[t] = status[t]
  BY <1>1, <1>2
<1>8. target[s] = c /\ s # c
  <2>1. ~Dead(status, target, c, c)
    BY DEF Dead, DeadSet
  <2>2. joining[c] # NoTid
    BY <1>1, <1>2 DEF s, NoTid, Tid
  <2>3. target[s] = c
    BY <1>1, <1>4, <1>6, <2>1, <2>2 DEF Notes, s
  <2> QED BY <1>1, <2>3 DEF NoTid, Tid
<1>9. JoinersBlocked'
  BY <1>1, <1>2, <1>4, <1>7 DEF JoinersBlocked
<1>10. TargetsUp'
  <2> SUFFICES ASSUME NEW u \in Tid, status'[u] = "BLOCKED"
               PROVE  status'[target[u]] \in {"READY", "RUNNING", "BLOCKED"} \/ u = s
    BY <1>2, <1>3 DEF TargetsUp, Served
  <2>1. u # c /\ status[u] = "BLOCKED" /\ target[u] # NoTid
    BY <1>4, <1>7 DEF Targets
  <2>2. status[target[u]] \in {"READY", "RUNNING", "BLOCKED"} /\ target[u] \in Tid
    BY <1>1, <1>4, <2>1 DEF TargetsUp, Served
  <2>3. target[u] = c => u = s
    BY <1>2, <1>4, <1>8, <2>1 DEF OneJoiner
  <2> QED BY <1>7, <2>2, <2>3
<1>11. NobodyBlocked' /\ CallerAwake' /\ FreedOnce'
  BY <1>3 DEF NobodyBlocked, CallerAwake, FreedOnce, LibraryLabels
<1>12. ValueStored'
  BY <1>2, <1>3, <1>5, <1>8 DEF ValueStored
<1>13. Counted'
  <2>1. Live' = Live \ {c} /\ c \in Live /\ Live \in SUBSET Tid
    BY <1>1, <1>6, <1>7 DEF Live
  <2>2. Cardinality(Live) \in Nat /\ Cardinality(Live \ {c}) = Cardinality(Live) - 1
    BY <1>1, <2>1, TidFinite
  <2>3. Uncounting' = 0 /\ total_threads = Cardinality(Live) + 0
    BY <1>1, <1>3, <1>4 DEF Uncounting, Counted
  <2> QED BY <1>2, <2>1, <2>2, <2>3 DEF Counted
<1>14. BuffersSet' /\ MainFresh' /\ SlotsTaken'
  BY <1>1, <1>2, <1>4, <1>6, <1>7 DEF BuffersSet, Usable, Ended, MainFresh, SlotsTaken
<1>15. LastUnused'
  <2>1. RoomLeft => c # MAX_THREADS - 1
    BY <1>4, <1>6 DEF LastUnused
  <2>2. MAX_THREADS - 1 \in Tid
    BY MaxAssumption DEF Tid
  <2> QED BY <1>4, <1>7, <2>1, <2>2 DEF LastUnused, RoomLeft
<1> QED
  BY <1>9, <1>10, <1>11, <1>12, <1>13, <1>14, <1>15 DEF HInv

LEMMA ExitToWaitKeepsHInv ==
  ASSUME IInv, JInv, HInv, At("user"), ExitToWait, IInv', JInv'
  PROVE  HInv'
<1> SUFFICES ASSUME Running' PROVE HInv'
  BY DEF HInv
<1> DEFINE c == curr_TID
           st == [status EXCEPT ![c] = "WAITING"]
           rg == [reg EXCEPT ![c] = Here("x1")]
<1>1. /\ Running /\ cpu.at = "user" /\ cpu.flow = c /\ c \in Tid /\ 0 \in Tid
      /\ status \in [Tid -> Status] /\ reg \in [Tid -> Context]
      /\ target \in [Tid -> Tid \cup {NoTid}]
      /\ target[c] = NoTid /\ (c # 0 => status[c] = "RUNNING")
      /\ \A t \in Tid : status[t] = "RUNNING" => t = c
      /\ Uncounting = 0 /\ StacksRight
  BY Caller
<1>2. /\ joining[c] = NoTid
      /\ IF NoneReady(st)
         THEN /\ status' = st /\ reg' = rg /\ Goto("e0")
              /\ UNCHANGED <<curr_TID, pos, local, proc>>
         ELSE Scheduler(st, rg, Here("user"))
      /\ UNCHANGED <<joining, exitcode, stack, total_threads, first_call, target>>
  BY DEF ExitToWait
<1>3. ~first_call
  BY <1>1, <1>2 DEF IInv, BeforeFirstCall, NoTid
<1>4. /\ status[c] \notin {"FRESH", "EXITED", "BLOCKED"}
      /\ JoinsRight(status, reg, target, joining, c) /\ Fresh(status, reg, pos)
      /\ Targets(status, reg, target, joining)
  BY <1>3, Caller DEF JoinsRight
<1>5. /\ JoinersBlocked /\ TargetsUp /\ Counted /\ BuffersSet /\ MainFresh /\ SlotsTaken /\ LastUnused
  BY <1>1, <1>3 DEF HInv
<1>6. Here("x1") \in Context /\ Here("user") \in Context /\ Here("x1").at = "x1"
      /\ Here("user").at = "user" /\ Here("x1").flow = c
  BY <1>1 DEF Here, Context, BufferLabels, Labels, LibraryLabels, IInv, TypeOK
<1>7. /\ st \in [Tid -> Status] /\ rg \in [Tid -> Context]
      /\ st[c] = "WAITING" /\ rg[c] = Here("x1")
      /\ \A t \in Tid \ {c} : st[t] = status[t] /\ rg[t] = reg[t]
  BY <1>1, <1>6 DEF Status
<1> HIDE DEF c, st, rg
<1>8. \A u \in Tid : target[u] # c
  <2> SUFFICES ASSUME NEW u \in Tid, target[u] = c PROVE FALSE
    OBVIOUS
  <2>1. u < c /\ (status[c] \notin Ended => joining[c] = u)
    BY <1>1, <1>4 DEF Targets, NoTid, Tid
  <2>2. c # 0
    BY <2>1 DEF Tid
  <2> QED BY <1>1, <1>2, <2>1, <2>2 DEF Ended, NoTid, Tid
<1>9. \A s \in Tid : status[s] = "BLOCKED" =>
        /\ target[s] \in Tid /\ s < target[s] /\ target[s] # c
        /\ status[target[s]] \in {"READY", "RUNNING", "BLOCKED"}
  BY <1>1, <1>4, <1>5, <1>8 DEF Targets, TargetsUp, Served
<1>10. \A t \in Tid : (st[t] = "FRESH" <=> status[t] = "FRESH")
                      /\ (st[t] = "EXITED" <=> status[t] = "EXITED")
                      /\ (st[t] = "BLOCKED" <=> status[t] = "BLOCKED")
  BY <1>4, <1>7
<1>11. total_threads = Cardinality(Live) /\ Live \in SUBSET Tid /\ Cardinality(Live) \in Nat
  <2>1. Live \in SUBSET Tid
    BY DEF Live
  <2>2. Cardinality(Live) \in Nat
    BY <1>1, <2>1, TidFinite
  <2> QED BY <1>1, <1>5, <2>1, <2>2 DEF Counted
<1>12. \A t \in Tid : st[t] # "FRESH" => Usable(st[t], rg[t])
  BY <1>5, <1>6, <1>7 DEF BuffersSet, Usable, Ended
<1>13. CASE NoneReady(st)
  <2>1. /\ status' = st /\ reg' = rg /\ Goto("e0")
        /\ UNCHANGED <<curr_TID, pos, local, proc>>
        /\ UNCHANGED <<joining, exitcode, stack, total_threads, first_call, target>>
    BY <1>2, <1>13
  <2>2. cpu'.at = "e0"
    BY <2>1 DEF Goto, IInv, TypeOK
  <2>3. \A t \in Tid : status[t] # "BLOCKED"
    <3> SUFFICES ASSUME NEW x \in Tid, status[x] = "BLOCKED" PROVE FALSE
      OBVIOUS
    <3>1. PICK s \in Tid : /\ status[s] = "BLOCKED" /\ target[s] \in Tid /\ s < target[s]
                           /\ status[target[s]] \in {"READY", "RUNNING"}
      BY <1>9, SomebodyCanRun
    <3>2. target[s] # c /\ target[s] # 0 /\ status[target[s]] = "READY"
      BY <1>1, <1>9, <3>1 DEF Tid
    <3> QED BY <1>7, <1>13, <3>1, <3>2 DEF NoneReady
  <2>4. JoinersBlocked' /\ TargetsUp' /\ NobodyBlocked'
    BY <1>5, <1>10, <2>1, <2>3 DEF JoinersBlocked, TargetsUp, NobodyBlocked
  <2>5. ValueStored' /\ CallerAwake' /\ FreedOnce'
    BY <2>2 DEF ValueStored, CallerAwake, FreedOnce, LibraryLabels
  <2>6. Counted'
    <3>1. Live' = Live
      BY <1>10, <2>1 DEF Live
    <3>2. Uncounting' = 0
      BY <2>2 DEF Uncounting
    <3> QED BY <1>11, <2>1, <3>1, <3>2 DEF Counted
  <2>7. BuffersSet' /\ MainFresh' /\ SlotsTaken'
    BY <1>1, <1>5, <1>10, <1>12, <2>1, <2>3 DEF BuffersSet, MainFresh, SlotsTaken
  <2>8. LastUnused'
    <3>1. MAX_THREADS - 1 \in Tid
      BY MaxAssumption DEF Tid
    <3> QED BY <1>5, <1>10, <2>1, <3>1 DEF LastUnused, RoomLeft
  <2> QED BY <2>4, <2>5, <2>6, <2>7, <2>8 DEF HInv
<1>14. CASE ~NoneReady(st)
  <2>1. Scheduler(st, rg, Here("user"))
    BY <1>2, <1>14
  <2>2. \A t \in Tid : rg[t].flow = t /\ rg[t].at \in SavedAt
    BY <1>1, <1>6, <1>7 DEF IInv, ContextOwner, BuffersSaved, SavedAt
  <2>3. \A t \in Tid : st[t] # "RUNNING"
    BY <1>1, <1>7
  <2>4. /\ TypeOK /\ curr_TID \in Tid
        /\ st[curr_TID] = "WAITING"
    BY <1>1, <1>7 DEF IInv, c
  <2>5. SwitchPost(st, target, joining)
    BY <1>14, ExitToWaitKeepsJInv DEF st, c
  <2>6. SwitchMoves(st, rg)
    BY <1>6, <1>7, <2>1, <2>2, <2>3, <2>4, SchedulerMoves
  <2>7. SwitchPost(st, target', joining') /\ UNCHANGED <<stack, total_threads, first_call>>
    BY <1>2, <2>5
  <2>8. \A s \in Tid : st[s] = "BLOCKED" => st[target'[s]] \in {"READY", "RUNNING", "BLOCKED"}
    BY <1>2, <1>7, <1>9, <1>10
  <2>9. \A s \in Tid : target'[s] # NoTid => st[s] = "BLOCKED"
    BY <1>2, <1>5, <1>10 DEF JoinersBlocked
  <2>10. st[0] = "BLOCKED" => rg[0].pos = pos[0]
    BY <1>1, <1>5, <1>7, <1>10 DEF MainFresh
  <2> QED
    BY <1>1, <1>3, <1>5, <1>7, <1>10, <1>11, <1>12, <2>4, <2>6, <2>7, <2>8, <2>9, <2>10, AfterHandOver
<1> QED BY <1>13, <1>14

LEMMA AlarmKeepsHInv ==
  ASSUME WindowsClosed, IInv, JInv, HInv, Alarm, IInv', JInv'
  PROVE  HInv'
<1> SUFFICES ASSUME Running' PROVE HInv'
  BY DEF HInv
<1> DEFINE c == curr_TID
<1>1. /\ Running /\ ~first_call /\ Scheduler(status, reg, Here(cpu.at)) /\ cpu.at \in AlarmPoints
      /\ UNCHANGED <<joining, exitcode, stack, total_threads, first_call, target>>
  BY DEF Alarm, Running
<1>2. /\ TypeOK /\ c \in Tid /\ status \in [Tid -> Status] /\ reg \in [Tid -> Context] /\ 0 \in Tid
      /\ cpu.at \in Labels /\ target \in [Tid -> Tid \cup {NoTid}]
  BY MaxAssumption DEF IInv, TypeOK, Tid
<1>3. /\ JoinersBlocked /\ TargetsUp /\ NobodyBlocked /\ Counted /\ BuffersSet /\ MainFresh
      /\ SlotsTaken /\ LastUnused
  BY <1>1 DEF HInv
<1>4. cpu.at \notin {"k1", "x1", "x2", "x3", "x4", "x5", "x6", "j1"}
  BY <1>1 DEF WindowsClosed
<1>5. status[c] # "BLOCKED"
  <2>1. CASE cpu.at \in {"e0", "e1"}
    BY <1>2, <1>3, <2>1 DEF NobodyBlocked
  <2>2. CASE cpu.at \notin {"e0", "e1"}
    <3>1. cpu.at \notin LibraryLabels /\ cpu.flow = c
      BY <1>1, <1>4, <2>2 DEF LibraryLabels, IInv, FlowIsCurr
    <3>2. target[c] = NoTid /\ Targets(status, reg, target, joining)
      BY <1>1, <3>1 DEF JInv, CpuRight, UserMarked, JoinsRight
    <3> QED BY <1>2, <3>2 DEF Targets
  <2> QED BY <2>1, <2>2
<1>6. \A t \in Tid : reg[t].flow = t
  BY DEF IInv, ContextOwner
<1>7. \A t \in Tid : status[t] = "RUNNING" => t = curr_TID
  BY <1>1 DEF IInv, OnlyCurrRuns
<1>8. status[curr_TID] = "RUNNING" => Here(cpu.at).flow = curr_TID
  <2>1. status[curr_TID] = "RUNNING" => cpu.at \notin {"e0", "e1"}
    BY <1>1, <1>2 DEF IInv, NoneRunsInHandOff, LibraryLabels
  <2> QED BY <1>1, <1>4, <2>1 DEF Here, IInv, FlowIsCurr
<1>9. Here(cpu.at).at \notin {"none", "x1"}
  BY <1>2, <1>4, ClientAssumption DEF Here, Labels, LibraryLabels
<1>10. SwitchMoves(status, reg)
  BY <1>1, <1>2, <1>6, <1>7, <1>8, <1>9, SchedulerMoves
<1>11. SwitchPost(status, target', joining')
  <2>1. SwitchPost(status, target, joining)
    BY AlarmKeepsJInv
  <2> QED BY <1>1, <2>1
<1>12. Uncounting = 0 /\ total_threads = Cardinality(Live)
  <2>1. Live \in SUBSET Tid
    BY DEF Live
  <2>2. Cardinality(Live) \in Nat
    BY <1>2, <2>1, TidFinite
  <2>3. Uncounting = 0
    BY <1>4 DEF Uncounting
  <2> QED BY <1>3, <2>2, <2>3 DEF Counted
<1>13. \A s \in Tid : status[s] = "BLOCKED" => status[target'[s]] \in {"READY", "RUNNING", "BLOCKED"}
  BY <1>1, <1>3, <1>4 DEF TargetsUp, Served
<1>14. \A s \in Tid : target'[s] # NoTid => status[s] = "BLOCKED"
  BY <1>1, <1>3 DEF JoinersBlocked
<1>15. /\ \A t \in Tid : status[t] # "FRESH" => Usable(status[t], reg[t])
       /\ status[0] = "BLOCKED" => reg[0].pos = pos[0]
  BY <1>3 DEF BuffersSet, MainFresh
<1> HIDE DEF c
<1> QED
  BY <1>1, <1>2, <1>3, <1>5, <1>10, <1>11, <1>12, <1>13, <1>14, <1>15, AfterHandOver DEF c

(* pthread_join blocks the caller until t hands over.                       *)
LEMMA JoinEntersKeepsHInv ==
  ASSUME IInv, JInv, HInv, NEW t \in Tid, Join(t), JoinEnters(t)
  PROVE  HInv'
<1> DEFINE c == curr_TID
<1>0. At("user") /\ ~first_call /\ status[t] = "WAITING" /\ cpu.flow < t
      /\ \A u \in Tid : target[u] # t
  BY DEF Join, Joinable, JoinEnters, Created, IInv, BeforeFirstCall
<1>1. /\ Running /\ cpu.at = "user" /\ cpu.flow = c /\ c \in Tid /\ 0 \in Tid
      /\ status \in [Tid -> Status] /\ reg \in [Tid -> Context]
      /\ target \in [Tid -> Tid \cup {NoTid}]
      /\ pos \in [Tid -> Nat]
      /\ target[c] = NoTid /\ Uncounting = 0
      /\ status[c] \notin {"FRESH", "EXITED", "BLOCKED"}
      /\ Targets(status, reg, target, joining)
  BY <1>0, Caller DEF JoinsRight
<1>2. /\ JoinersBlocked /\ TargetsUp /\ Counted /\ BuffersSet /\ MainFresh
      /\ SlotsTaken /\ LastUnused
  BY <1>0, <1>1 DEF HInv
<1>3. /\ status' = [status EXCEPT ![c] = "BLOCKED"] /\ reg' = [reg EXCEPT ![c] = Here("j1")]
      /\ target' = [target EXCEPT ![c] = t] /\ curr_TID' = t
      /\ local' = [local EXCEPT ![c] = c] /\ Goto("k1")
      /\ UNCHANGED <<joining, exitcode, stack, total_threads, first_call, pos, proc>>
  BY <1>1 DEF JoinEnters
<1>4. cpu'.at = "k1" /\ cpu'.flow = c /\ local'[c] = c
  BY <1>1, <1>3 DEF Goto, IInv, TypeOK
<1>5. Here("j1").at = "j1" /\ Here("j1").pos = pos[c]
  BY <1>1 DEF Here
<1>6. /\ status'[c] = "BLOCKED" /\ reg'[c] = Here("j1") /\ target'[c] = t
      /\ \A u \in Tid \ {c} : status'[u] = status[u] /\ reg'[u] = reg[u] /\ target'[u] = target[u]
  BY <1>1, <1>3
<1> HIDE DEF c
<1>7. JoinersBlocked'
  BY <1>2, <1>6 DEF JoinersBlocked
<1>8. TargetsUp'
  <2> SUFFICES ASSUME NEW u \in Tid, status'[u] = "BLOCKED", u # c
               PROVE  status'[target'[u]] \in {"READY", "RUNNING", "BLOCKED"}
    BY <1>4 DEF TargetsUp, Served
  <2>1. status[u] = "BLOCKED" /\ target'[u] = target[u]
    BY <1>6
  <2>2. target[u] # NoTid /\ status[target[u]] \in {"READY", "RUNNING", "BLOCKED"}
    BY <1>1, <1>2, <2>1 DEF TargetsUp, Served, Targets
  <2> QED BY <1>1, <1>6, <2>1, <2>2
<1>9. NobodyBlocked' /\ ValueStored' /\ CallerAwake' /\ FreedOnce'
  BY <1>4 DEF NobodyBlocked, ValueStored, CallerAwake, FreedOnce, LibraryLabels
<1>10. Counted'
  <2>1. Live' = Live
    BY <1>1, <1>6 DEF Live
  <2>2. Uncounting' = 0
    BY <1>4 DEF Uncounting
  <2> QED BY <1>1, <1>2, <1>3, <2>1, <2>2 DEF Counted
<1>11. BuffersSet' /\ SlotsTaken'
  BY <1>1, <1>2, <1>3, <1>5, <1>6 DEF BuffersSet, Usable, SlotsTaken
<1>12. MainFresh'
  BY <1>1, <1>2, <1>3, <1>5, <1>6 DEF MainFresh
<1>13. LastUnused'
  <2>1. MAX_THREADS - 1 \in Tid
    BY MaxAssumption DEF Tid
  <2> QED BY <1>1, <1>2, <1>6, <2>1 DEF LastUnused, RoomLeft
<1> QED BY <1>7, <1>8, <1>9, <1>10, <1>11, <1>12, <1>13 DEF HInv

(* A joiner that blocks leaves a thread that the scheduler can take.        *)
LEMMA BlockedHasRunner ==
  ASSUME IInv, JInv, HInv, NEW t \in Tid, Join(t), JoinBlocks(t)
  PROVE  LET st == [status EXCEPT ![curr_TID] = "BLOCKED"]
         IN  /\ \A s \in Tid : st[s] = "BLOCKED" => st[target'[s]] \in {"READY", "RUNNING", "BLOCKED"}
             /\ \E u \in Scanned(curr_TID) : st[u] = "READY"
             /\ curr_TID # MAX_THREADS - 1
<1> DEFINE c == curr_TID
           st == [status EXCEPT ![c] = "BLOCKED"]
<1>0. At("user") /\ ~first_call /\ status[t] \notin {"WAITING", "EXITED"} /\ cpu.flow < t
      /\ stack[t] # "none"
  BY DEF Join, Joinable, JoinBlocks, Created, IInv, BeforeFirstCall
<1>1. /\ Running /\ cpu.at = "user" /\ cpu.flow = c /\ c \in Tid /\ 0 \in Tid
      /\ status \in [Tid -> Status] /\ target \in [Tid -> Tid \cup {NoTid}]
      /\ StacksRight /\ Targets(status, reg, target, joining)
      /\ \A u \in Tid : status[u] = "RUNNING" => u = c
  BY <1>0, Caller DEF JoinsRight
<1>2. TargetsUp
  BY <1>0, <1>1 DEF HInv
<1>3. target' = [target EXCEPT ![c] = t]
  BY <1>1 DEF JoinBlocks
<1>4. /\ st \in [Tid -> Status] /\ st[c] = "BLOCKED" /\ target'[c] = t
      /\ \A u \in Tid \ {c} : st[u] = status[u] /\ target'[u] = target[u]
  BY <1>1, <1>3 DEF Status
<1>5. status[t] \in {"READY", "RUNNING", "BLOCKED"} /\ c < t /\ t # c
  BY <1>0, <1>1 DEF StacksRight, CreatedTaken, Status, Tid
<1> HIDE DEF c, st
<1>6. \A u \in Tid : st[u] # "RUNNING"
  BY <1>1, <1>4
<1>7. \A s \in Tid : st[s] = "BLOCKED" =>
         /\ target'[s] \in Tid /\ s < target'[s]
         /\ st[target'[s]] \in {"READY", "RUNNING", "BLOCKED"}
  <2> SUFFICES ASSUME NEW s \in Tid, st[s] = "BLOCKED"
               PROVE  /\ target'[s] \in Tid /\ s < target'[s]
                      /\ st[target'[s]] \in {"READY", "RUNNING", "BLOCKED"}
    OBVIOUS
  <2>1. CASE s = c
    BY <1>4, <1>5, <2>1
  <2>2. CASE s # c
    <3>1. status[s] = "BLOCKED" /\ target'[s] = target[s]
      BY <1>4, <2>2
    <3>2. /\ target[s] \in Tid /\ s < target[s]
          /\ status[target[s]] \in {"READY", "RUNNING", "BLOCKED"}
      BY <1>1, <1>2, <3>1 DEF TargetsUp, Served, Targets
    <3> QED BY <1>4, <3>1, <3>2
  <2> QED BY <2>1, <2>2
<1>8. \E u \in Scanned(c) : st[u] = "READY"
  <2>1. PICK s \in Tid : /\ st[s] = "BLOCKED" /\ target'[s] \in Tid /\ s < target'[s]
                         /\ st[target'[s]] \in {"READY", "RUNNING"}
    BY <1>1, <1>4, <1>7, SomebodyCanRun
  <2>2. st[target'[s]] = "READY" /\ target'[s] # c
    BY <1>4, <1>6, <2>1
  <2>3. c # MAX_THREADS - 1
    BY <1>1, <1>5, MaxAssumption DEF Tid
  <2> QED BY <2>1, <2>2, <2>3 DEF Scanned
<1>9. c # MAX_THREADS - 1
  BY <1>1, <1>5, MaxAssumption DEF Tid
<1> QED BY <1>7, <1>8, <1>9 DEF c, st

LEMMA JoinBlocksKeepsHInv ==
  ASSUME IInv, JInv, HInv, NEW t \in Tid, Join(t), JoinBlocks(t), IInv', JInv'
  PROVE  HInv'
<1> SUFFICES ASSUME Running' PROVE HInv'
  BY DEF HInv
<1> DEFINE c == curr_TID
           st == [status EXCEPT ![c] = "BLOCKED"]
           rg == [reg EXCEPT ![c] = Here("j1")]
<1>0. At("user") /\ ~first_call /\ status[t] \notin {"WAITING", "EXITED"} /\ cpu.flow < t
      /\ stack[t] # "none"
  BY DEF Join, Joinable, JoinBlocks, Created, IInv, BeforeFirstCall
<1>1. /\ Running /\ cpu.at = "user" /\ cpu.flow = c /\ c \in Tid /\ 0 \in Tid
      /\ status \in [Tid -> Status] /\ reg \in [Tid -> Context]
      /\ target \in [Tid -> Tid \cup {NoTid}]
      /\ pos \in [Tid -> Nat]
      /\ target[c] = NoTid /\ Uncounting = 0 /\ StacksRight
      /\ status[c] \notin {"FRESH", "EXITED", "BLOCKED"}
      /\ \A u \in Tid : status[u] = "RUNNING" => u = c
      /\ Targets(status, reg, target, joining)
  BY <1>0, Caller DEF JoinsRight
<1>2. /\ JoinersBlocked /\ TargetsUp /\ Counted /\ BuffersSet /\ MainFresh
      /\ SlotsTaken /\ LastUnused
  BY <1>0, <1>1 DEF HInv
<1>3. /\ target' = [target EXCEPT ![c] = t]
      /\ UNCHANGED <<exitcode, stack, total_threads, first_call>>
      /\ Scheduler(st, rg, Here("user"))
  BY <1>1 DEF JoinBlocks
<1>4. /\ Here("j1").at = "j1" /\ Here("j1").pos = pos[c] /\ Here("j1").flow = c
      /\ Here("user").at = "user" /\ Here("j1") \in Context
  BY <1>1 DEF Here, Context, BufferLabels, Labels, LibraryLabels
<1>5. /\ st \in [Tid -> Status] /\ rg \in [Tid -> Context]
      /\ st[c] = "BLOCKED" /\ rg[c] = Here("j1") /\ target'[c] = t
      /\ \A u \in Tid \ {c} : st[u] = status[u] /\ rg[u] = reg[u] /\ target'[u] = target[u]
  BY <1>1, <1>3, <1>4 DEF Status
<1>6. status[t] \in {"READY", "RUNNING", "BLOCKED"} /\ c < t /\ t # c
  BY <1>0, <1>1 DEF StacksRight, CreatedTaken, Status, Tid
<1>7. SwitchPost(st, target', joining')
  BY JoinBlocksKeepsJInv
<1> HIDE DEF c, st, rg
<1>8. \A u \in Tid : rg[u].flow = u
  BY <1>4, <1>5 DEF IInv, ContextOwner
<1>9. \A u \in Tid : st[u] # "RUNNING"
  BY <1>1, <1>5
<1>10. TypeOK /\ curr_TID = c
  BY DEF IInv, c
<1>11. SwitchMoves(st, rg)
  BY <1>3, <1>4, <1>5, <1>8, <1>9, <1>10, SchedulerMoves
<1>14. \A u \in Tid : (st[u] = "FRESH" <=> status[u] = "FRESH")
                      /\ (st[u] = "EXITED" <=> status[u] = "EXITED")
  BY <1>1, <1>5
<1>15. \A s \in Tid : target'[s] # NoTid => st[s] = "BLOCKED"
  BY <1>2, <1>5 DEF JoinersBlocked
<1>16. /\ \A u \in Tid : st[u] # "FRESH" => Usable(st[u], rg[u])
       /\ st[0] = "BLOCKED" => rg[0].pos = pos[0]
  BY <1>1, <1>2, <1>4, <1>5 DEF BuffersSet, MainFresh, Usable
<1>17. total_threads = Cardinality(Live)
  <2>1. Live \in SUBSET Tid
    BY DEF Live
  <2>2. Cardinality(Live) \in Nat
    BY <1>1, <2>1, TidFinite
  <2> QED BY <1>1, <1>2, <2>2 DEF Counted
<1>18. /\ st[curr_TID] = "BLOCKED" => \E u \in Scanned(curr_TID) : st[u] = "READY"
       /\ \A s \in Tid : st[s] = "BLOCKED" => st[target'[s]] \in {"READY", "RUNNING", "BLOCKED"}
  BY BlockedHasRunner DEF st, c
<1>19. /\ Running /\ ~first_call /\ SlotsTaken /\ LastUnused
       /\ UNCHANGED <<stack, total_threads, first_call>>
       /\ st \in [Tid -> Status] /\ rg \in [Tid -> Context]
  BY <1>0, <1>1, <1>2, <1>3, <1>5
<1> QED
  BY <1>7, <1>11, <1>14, <1>15, <1>16, <1>17, <1>18, <1>19, AfterHandOver

LEMMA JoinKeepsHInv ==
  ASSUME IInv, JInv, HInv, NEW t \in Tid, Join(t), IInv', JInv' PROVE HInv'
<1>1. CASE JoinReturnsAtOnce(t)
  <2>1. At("user") /\ ~first_call
    BY DEF Join, Joinable, Created, IInv, BeforeFirstCall
  <2>2. /\ Running /\ cpu.at = "user" /\ cpu.flow = curr_TID /\ curr_TID \in Tid /\ 0 \in Tid
        /\ pos \in [Tid -> Nat] /\ status[curr_TID] # "BLOCKED"
    BY <2>1, Caller
  <2>3. /\ pos' = [pos EXCEPT ![curr_TID] = @ + 1]
        /\ UNCHANGED <<status, joining, exitcode, stack, reg, curr_TID, total_threads, first_call,
                       cpu, target, local, proc>>
    BY <1>1, <2>2 DEF JoinReturnsAtOnce, tcb, globals
  <2>4. MainFresh'
    BY <2>1, <2>2, <2>3 DEF MainFresh, HInv
  <2>5. /\ JoinersBlocked' = JoinersBlocked /\ TargetsUp' = TargetsUp /\ NobodyBlocked' = NobodyBlocked
        /\ ValueStored' = ValueStored /\ CallerAwake' = CallerAwake /\ Counted' = Counted
        /\ BuffersSet' = BuffersSet /\ FreedOnce' = FreedOnce /\ SlotsTaken' = SlotsTaken
        /\ LastUnused' = LastUnused
    BY <2>3 DEF JoinersBlocked, TargetsUp, Served, NobodyBlocked, ValueStored, CallerAwake, Counted, Live,
       Uncounting, BuffersSet, FreedOnce, SlotsTaken, LastUnused, RoomLeft
  <2> QED BY <2>1, <2>2, <2>4, <2>5 DEF HInv
<1> QED BY <1>1, JoinEntersKeepsHInv, JoinBlocksKeepsHInv DEF Join

-----------------------------------------------------------------------------
(* The invariant, action by action: the hand-offs *)

(* longjmp to an up-to-date buffer leaves every flow where it was.          *)
LEMMA ResumeExact ==
  ASSUME TypeOK, NEW b \in Context, NEW v, b.at \in SavedAt, b.pos = pos[b.flow],
         Resume(b, v), Running'
  PROVE  /\ pos' = pos /\ cpu'.flow = b.flow
         /\ cpu'.at = IF b.at = "start" THEN "user" ELSE b.at
         /\ b.at = "x1" => local'[b.flow] = v
<1>1. /\ cpu'.flow = b.flow /\ cpu'.at = IF b.at = "start" THEN "user" ELSE b.at
      /\ b.at = "x1" => local'[b.flow] = v
  BY ResumeFresh
<1>2. \E p \in {b.pos} \cup (IF Stale(b) THEN {pos[b.flow]} ELSE {}) :
        pos' = [pos EXCEPT ![b.flow] = p]
  BY DEF Resume, Running
<1>3. pos' = [pos EXCEPT ![b.flow] = pos[b.flow]]
  BY <1>2
<1>4. pos' = pos
  BY <1>3 DEF TypeOK
<1> QED BY <1>1, <1>4

(* No thread joins while pthread_exit returns to main: there main never     *)
(* resumes in pthread_join, nor in the tail of pthread_exit.                *)
LEMMA ToMainKeepsHInv ==
  ASSUME IInv, JInv, HInv, ExitToMain0 \/ ExitToMain1, IInv', JInv'
  PROVE  HInv'
<1> SUFFICES ASSUME Running' PROVE HInv'
  BY DEF HInv
<1>1. Running /\ cpu.at \in {"e0", "e1"}
  BY DEF ExitToMain0, ExitToMain1, At, Running
<1>2. /\ ~first_call /\ 0 \in Tid /\ reg \in [Tid -> Context] /\ total_threads \in Int
      /\ Targets(status, reg, target, joining)
      /\ \A t \in Tid : status[t] # "BLOCKED" /\ target[t] = NoTid
      /\ Counted /\ BuffersSet /\ SlotsTaken /\ LastUnused
  <2>1. /\ ~first_call /\ 0 \in Tid /\ reg \in [Tid -> Context] /\ total_threads \in Int
        /\ Targets(status, reg, target, joining)
    BY <1>1, Inside DEF LibraryLabels
  <2>2. /\ JoinersBlocked /\ NobodyBlocked /\ Counted /\ BuffersSet /\ SlotsTaken /\ LastUnused
    BY <1>1, <2>1 DEF HInv
  <2>3. \A t \in Tid : status[t] # "BLOCKED"
    BY <1>1, <2>2 DEF NobodyBlocked
  <2> QED BY <2>1, <2>2, <2>3 DEF JoinersBlocked
<1>3. UNCHANGED <<status, joining, exitcode, stack, reg, target, total_threads, first_call>>
  BY DEF ExitToMain0, ExitToMain1, tcb, globals
<1>4. cpu'.at \in {"e1", "user"} \cup ClientLabels /\ (cpu'.at # "e1" => status[cpu'.flow] # "WAITING")
  <2>1. CASE ExitToMain0
    BY <2>1 DEF ExitToMain0, Goto, IInv, TypeOK
  <2>2. CASE ExitToMain1
    <3>1. /\ cpu.at = "e1" /\ Resume(reg[0], NoTid) /\ curr_TID' = curr_TID /\ curr_TID = 0
      BY <1>1, <2>2 DEF ExitToMain1, At, globals, IInv, MainIsNext
    <3>2. TypeOK /\ reg[0] \in Context /\ reg[0].at \in SavedAt /\ reg[0].flow = 0
      BY <1>2 DEF IInv, BuffersSaved, ContextOwner
    <3>3. /\ reg[0].at # "none" /\ reg[0].at # "x1" /\ cpu'.flow = 0
          /\ cpu'.at = IF reg[0].at = "start" THEN "user" ELSE reg[0].at
      BY <3>1, <3>2, ResumeFresh
    <3>4. status[0] # "WAITING"
      BY <1>2, <3>3 DEF Targets
    <3>5. cpu'.at # "j1"
      <4>1. cpu'.at = "j1" => target'[0] # NoTid
        BY <3>1 DEF JInv, CpuRight, JoinerBack
      <4> QED BY <1>2, <1>3, <4>1
    <3> QED BY <3>2, <3>3, <3>4, <3>5 DEF SavedAt
  <2> QED BY <2>1, <2>2
<1>5. cpu'.at \notin LibraryLabels \ {"e1"}
  BY <1>4, ClientAssumption DEF LibraryLabels
<1>6. JoinersBlocked' /\ TargetsUp' /\ NobodyBlocked' /\ MainFresh'
  BY <1>2, <1>3 DEF JoinersBlocked, TargetsUp, NobodyBlocked, MainFresh
<1>7. ValueStored' /\ FreedOnce'
  BY <1>5 DEF ValueStored, FreedOnce, LibraryLabels
<1>8. CallerAwake'
  BY <1>3, <1>4 DEF CallerAwake, LibraryLabels
<1>9. Counted'
  <2>1. Uncounting = 0 /\ Uncounting' = 0
    BY <1>1, <1>5 DEF Uncounting, LibraryLabels
  <2> QED BY <1>2, <1>3, <2>1 DEF Counted, Live
<1>10. BuffersSet' /\ SlotsTaken' /\ LastUnused'
  BY <1>2, <1>3 DEF BuffersSet, SlotsTaken, LastUnused, RoomLeft
<1> QED BY <1>6, <1>7, <1>8, <1>9, <1>10 DEF HInv

LEMMA Tail1KeepsHInv == ASSUME IInv, JInv, HInv, Tail1 PROVE HInv'
<1> DEFINE c == curr_TID
           s == local[cpu.flow]
<1>1. Running /\ cpu.at = "x1"
  BY DEF Tail1, At, Running
<1>2. /\ ~first_call /\ c \in Tid /\ 0 \in Tid /\ status \in [Tid -> Status]
      /\ total_threads \in Int /\ Live \in SUBSET Tid /\ StacksRight
  BY <1>1, Inside DEF LibraryLabels
<1>3. /\ s \in Tid /\ status[s] = "BLOCKED" /\ c # 0 /\ target[c] = NoTid /\ status[c] = "WAITING"
  BY <1>1, Entered
<1>4. /\ JoinersBlocked /\ TargetsUp /\ Counted /\ BuffersSet /\ MainFresh /\ SlotsTaken /\ LastUnused
  BY <1>1, <1>2 DEF HInv
<1>5. /\ status' = [status EXCEPT ![c] = "EXITED"] /\ Goto("x2")
      /\ UNCHANGED <<joining, exitcode, stack, reg, curr_TID, total_threads, first_call, pos, target,
                     local, proc>>
  BY <1>3 DEF Tail1, globals
<1>6. cpu'.at = "x2" /\ cpu'.flow = cpu.flow
  BY <1>5 DEF Goto, IInv, TypeOK
<1>7. status'[c] = "EXITED" /\ \A t \in Tid \ {c} : status'[t] = status[t]
  BY <1>2, <1>5
<1> HIDE DEF c, s
<1>8. JoinersBlocked'
  BY <1>3, <1>4, <1>5, <1>7 DEF JoinersBlocked
<1>9. TargetsUp'
  <2> SUFFICES ASSUME NEW u \in Tid, status'[u] = "BLOCKED"
               PROVE  status'[target[u]] \in {"READY", "RUNNING", "BLOCKED"} \/ u = s
    BY <1>5, <1>6 DEF TargetsUp, Served, s
  <2>1. status[u] = "BLOCKED"
    BY <1>7
  <2>2. status[target[u]] \in {"READY", "RUNNING", "BLOCKED"} \/ u = s
    BY <1>1, <1>4, <2>1 DEF TargetsUp, Served, s
  <2>3. target[u] \in Tid
    <3>1. Targets(status, reg, target, joining) /\ \A t \in Tid : target[t] # NoTid <=> target[t] \in Tid
      BY <1>1, Inside DEF LibraryLabels
    <3> QED BY <2>1, <3>1 DEF Targets
  <2> QED BY <1>3, <1>7, <2>2, <2>3
<1>10. NobodyBlocked' /\ ValueStored' /\ CallerAwake'
  BY <1>6 DEF NobodyBlocked, ValueStored, CallerAwake, LibraryLabels
<1>11. FreedOnce'
  <2>1. stack[c] # "freed"
    BY <1>2, <1>3 DEF StacksRight, FreedHasExited
  <2> QED BY <1>5, <2>1 DEF FreedOnce, c
<1>12. Counted'
  <2>1. Live' = Live \ {c} /\ c \in Live
    BY <1>2, <1>3, <1>7 DEF Live
  <2>2. Cardinality(Live) \in Nat /\ Cardinality(Live \ {c}) = Cardinality(Live) - 1
    BY <1>2, <2>1, TidFinite
  <2>3. Uncounting = 0 /\ Uncounting' = 1 /\ total_threads' = total_threads
    BY <1>1, <1>5, <1>6 DEF Uncounting
  <2>4. total_threads = Cardinality(Live) + 0
    BY <1>4, <2>3 DEF Counted
  <2>5. total_threads = (Cardinality(Live) - 1) + 1
    BY <2>2, <2>4
  <2> QED BY <2>1, <2>2, <2>3, <2>5 DEF Counted
<1>13. BuffersSet' /\ MainFresh' /\ SlotsTaken'
  BY <1>2, <1>3, <1>4, <1>5, <1>7 DEF BuffersSet, Usable, Ended, MainFresh, SlotsTaken
<1>14. LastUnused'
  <2>1. MAX_THREADS - 1 \in Tid
    BY MaxAssumption DEF Tid
  <2> QED BY <1>3, <1>4, <1>7, <2>1 DEF LastUnused, RoomLeft
<1> QED BY <1>8, <1>9, <1>10, <1>11, <1>12, <1>13, <1>14 DEF HInv

(* The stores between leave the statuses and the joiner alone.              *)
LEMMA MiddleKeepsHInv ==
  ASSUME IInv, JInv, HInv, Running, cpu.at \in {"x2", "x3", "x4"}, NEW l \in {"x3", "x4", "x5"}, Goto(l),
         \A t \in Tid : stack'[t] = "none" <=> stack[t] = "none",
         total_threads' - Uncounting' = total_threads - Uncounting, total_threads' \in Int,
         l = "x5" => exitcode'[curr_TID] = curr_TID,
         UNCHANGED <<status, joining, reg, curr_TID, first_call, pos, target, local, proc>>
  PROVE  HInv'
<1>1. ~first_call /\ Live \in SUBSET Tid /\ total_threads \in Int /\ 0 \in Tid
  BY Inside DEF LibraryLabels
<1>2. /\ JoinersBlocked /\ TargetsUp /\ Counted /\ BuffersSet /\ MainFresh /\ SlotsTaken /\ LastUnused
  BY <1>1 DEF HInv
<1>3. cpu'.at = l /\ cpu'.flow = cpu.flow
  BY DEF Goto, IInv, TypeOK
<1>4. JoinersBlocked' /\ BuffersSet' /\ MainFresh' /\ SlotsTaken' /\ LastUnused'
  BY <1>2 DEF JoinersBlocked, BuffersSet, MainFresh, SlotsTaken, LastUnused, RoomLeft
<1>5. TargetsUp'
  BY <1>2, <1>3 DEF TargetsUp, Served
<1>6. NobodyBlocked' /\ ValueStored' /\ CallerAwake' /\ FreedOnce'
  BY <1>3 DEF NobodyBlocked, ValueStored, CallerAwake, FreedOnce, LibraryLabels
<1>7. Counted'
  <2>1. Live' = Live
    BY DEF Live
  <2>2. Cardinality(Live) \in Nat
    BY <1>1, TidFinite
  <2>3. Uncounting \in {0, 1} /\ Uncounting' \in {0, 1}
    BY DEF Uncounting
  <2> HIDE DEF Uncounting
  <2> QED BY <1>1, <1>2, <2>1, <2>2, <2>3 DEF Counted
<1> QED BY <1>4, <1>5, <1>6, <1>7 DEF HInv

LEMMA TailKeepsHInv == ASSUME IInv, JInv, HInv, Tail2 \/ Tail3 \/ Tail4 PROVE HInv'
<1>1. Running /\ cpu.at \in {"x2", "x3", "x4"}
  BY DEF Tail2, Tail3, Tail4, At, Running
<1>2. /\ total_threads \in Int /\ curr_TID \in Tid /\ cpu.flow = curr_TID
      /\ stack \in [Tid -> {"none", "owned", "freed"}] /\ exitcode \in [Tid -> Tid \cup {NoTid}]
  BY <1>1 DEF IInv, TypeOK, FlowIsCurr
<1>3. \A l \in {"x3", "x4", "x5"} : Goto(l) => cpu'.at = l
  BY DEF Goto, IInv, TypeOK
<1>4. CASE Tail2
  <2>1. CASE Ends("crashed")
    BY <2>1 DEF Ends, HInv, Running
  <2>2. CASE ~Ends("crashed")
    <3>1. /\ cpu.at = "x2" /\ Goto("x3") /\ total_threads' = total_threads
          /\ stack' = [stack EXCEPT ![curr_TID] = IF @ = "owned" THEN "freed" ELSE @]
          /\ UNCHANGED <<status, joining, reg, curr_TID, first_call, pos, target, local, proc>>
      BY <1>4, <2>2 DEF Tail2, At, globals
    <3>2. Uncounting = 1 /\ Uncounting' = 1
      BY <1>3, <3>1 DEF Uncounting
    <3>3. \A t \in Tid : stack'[t] = "none" <=> stack[t] = "none"
      BY <1>2, <3>1
    <3>4. total_threads' - Uncounting' = total_threads - Uncounting /\ total_threads' \in Int
      BY <1>2, <3>1, <3>2
    <3> QED BY <1>1, <3>1, <3>3, <3>4, MiddleKeepsHInv
  <2> QED BY <2>1, <2>2
<1>5. CASE Tail3
  <2>1. /\ cpu.at = "x3" /\ Goto("x4") /\ total_threads' = total_threads - 1
        /\ UNCHANGED <<status, joining, stack, reg, curr_TID, first_call, pos, target, local, proc>>
    BY <1>5 DEF Tail3, At, tcb
  <2>2. Uncounting = 1 /\ Uncounting' = 0
    BY <1>3, <2>1 DEF Uncounting
  <2>3. total_threads' - Uncounting' = total_threads - Uncounting /\ total_threads' \in Int
    BY <1>2, <2>1, <2>2
  <2> QED BY <1>1, <2>1, <2>3, MiddleKeepsHInv
<1>6. CASE Tail4
  <2>1. /\ cpu.at = "x4" /\ Goto("x5") /\ total_threads' = total_threads
        /\ exitcode' = [exitcode EXCEPT ![curr_TID] = curr_TID]
        /\ UNCHANGED <<status, joining, stack, reg, curr_TID, first_call, pos, target, local, proc>>
    BY <1>2, <1>6 DEF Tail4, At, globals
  <2>2. Uncounting = 0 /\ Uncounting' = 0
    BY <1>3, <2>1 DEF Uncounting
  <2>3. total_threads' - Uncounting' = total_threads - Uncounting /\ total_threads' \in Int
    BY <1>2, <2>1, <2>2
  <2>4. exitcode'[curr_TID] = curr_TID
    BY <1>2, <2>1
  <2> QED BY <1>1, <2>1, <2>3, <2>4, MiddleKeepsHInv
<1> QED BY <1>4, <1>5, <1>6

LEMMA Tail5KeepsHInv == ASSUME IInv, JInv, HInv, Tail5 PROVE HInv'
<1> DEFINE c == curr_TID
           s == local[cpu.flow]
<1>1. /\ Running /\ cpu.at = "x5" /\ cpu'.at = "x6" /\ curr_TID' = s
      /\ UNCHANGED <<status, joining, exitcode, stack, reg, total_threads, first_call, pos, target, proc>>
  BY DEF Tail5, At, Running, Goto, IInv, TypeOK, tcb
<1>2. ~first_call
  BY <1>1, Inside DEF LibraryLabels
<1>3. s \in Tid /\ target[s] = c
  BY <1>1, Entered
<1>4. /\ JoinersBlocked /\ TargetsUp /\ Counted /\ BuffersSet /\ MainFresh /\ SlotsTaken /\ LastUnused
      /\ exitcode[c] = c
  BY <1>1, <1>2 DEF HInv, ValueStored
<1> HIDE DEF c, s
<1>5. JoinersBlocked' /\ BuffersSet' /\ MainFresh' /\ SlotsTaken' /\ LastUnused'
  BY <1>1, <1>4 DEF JoinersBlocked, BuffersSet, MainFresh, SlotsTaken, LastUnused, RoomLeft
<1>6. TargetsUp'
  BY <1>1, <1>4 DEF TargetsUp, Served, s
<1>7. ValueStored' /\ NobodyBlocked' /\ CallerAwake' /\ FreedOnce'
  BY <1>1, <1>3, <1>4 DEF NobodyBlocked, ValueStored, CallerAwake, FreedOnce, LibraryLabels
<1>8. Counted'
  BY <1>1, <1>4 DEF Counted, Live, Uncounting
<1> QED BY <1>5, <1>6, <1>7, <1>8 DEF HInv

(* The longjmps between the joiner and its target.                          *)
LEMMA JumpKeepsHInv ==
  ASSUME IInv, JInv, HInv, Tail6 \/ JoinJumps, Running'
  PROVE  HInv'
<1> DEFINE c == curr_TID
<1>1. /\ Running /\ cpu.at \in {"x6", "k1"} /\ c \in Tid /\ reg[c] \in Context
      /\ reg[c].at \in SavedAt /\ reg[c].flow = c /\ TypeOK
      /\ UNCHANGED <<status, joining, exitcode, stack, reg, curr_TID, total_threads, first_call, target>>
  BY DEF Tail6, JoinJumps, At, Running, IInv, TypeOK, BuffersSaved, ContextOwner, tcb, globals
<1>2. ~first_call
  <2>1. CASE cpu.at = "k1"
    BY <1>1, <2>1, Inside DEF LibraryLabels
  <2>2. CASE cpu.at = "x6"
    <3>1. Resume(reg[c], NoTid)
      BY <2>2 DEF Tail6, JoinJumps, At
    <3>2. reg[c].at # "none"
      BY <3>1 DEF Resume, Running
    <3> QED BY <1>1, <3>2 DEF IInv, BeforeFirstCall
  <2> QED BY <1>1, <2>1, <2>2
<1>3. /\ JoinersBlocked /\ TargetsUp /\ ValueStored /\ Counted
      /\ BuffersSet /\ MainFresh /\ SlotsTaken /\ LastUnused
  BY <1>1, <1>2 DEF HInv
<1>4. /\ Targets(status, reg, target, joining) /\ Fresh(status, reg, pos) /\ CpuRight
  BY <1>1, <1>2 DEF JInv, JoinsRight
<1>5. /\ pos' = pos /\ cpu'.flow = c /\ cpu'.at \in {"x1", "j1"}
      /\ cpu'.at = "j1" => cpu.at = "x6"
      /\ cpu'.at = "x1" => cpu.at = "k1" /\ local'[c] = local[cpu.flow]
  <2>1. CASE cpu.at = "k1"
    <3>1. Resume(reg[c], local[cpu.flow]) /\ reg[c].at = "x1"
      BY <1>1, <2>1, Entered DEF Tail6, JoinJumps, At
    <3>2. c # 0 /\ status[c] = "WAITING"
      BY <1>1, <2>1, Entered
    <3>3. reg[c].pos = pos[reg[c].flow]
      BY <1>1, <1>4, <3>2 DEF Fresh
    <3>4. /\ pos' = pos /\ cpu'.flow = c
          /\ cpu'.at = IF reg[c].at = "start" THEN "user" ELSE reg[c].at
          /\ reg[c].at = "x1" => local'[reg[c].flow] = local[cpu.flow]
      BY <1>1, <3>1, <3>3, ResumeExact
    <3> QED BY <1>1, <2>1, <3>1, <3>4
  <2>2. CASE cpu.at = "x6"
    <3>1. Resume(reg[c], NoTid)
      BY <2>2 DEF Tail6, JoinJumps, At
    <3>2. status[c] = "BLOCKED" /\ target[c] # NoTid
      BY <1>2, <1>4, <2>2 DEF CpuRight, JoinerNext
    <3>3. reg[c].at = "j1"
      BY <1>1, <1>4, <3>2 DEF Targets
    <3>4. reg[c].pos = pos[reg[c].flow]
      BY <1>1, <1>3, <1>4, <3>2 DEF Fresh, MainFresh
    <3>5. /\ pos' = pos /\ cpu'.flow = c
          /\ cpu'.at = IF reg[c].at = "start" THEN "user" ELSE reg[c].at
      BY <1>1, <3>1, <3>4, ResumeExact
    <3> QED BY <2>2, <3>3, <3>5
  <2> QED BY <1>1, <2>1, <2>2
<1>6. JoinersBlocked' /\ BuffersSet' /\ MainFresh' /\ SlotsTaken' /\ LastUnused'
  BY <1>1, <1>3, <1>5 DEF JoinersBlocked, BuffersSet, MainFresh, SlotsTaken, LastUnused, RoomLeft
<1>7. TargetsUp'
  <2>1. \A u : Served(u) => Served(u)'
    <3> TAKE u
    <3>1. CASE cpu'.at = "x1"
      BY <1>5, <3>1 DEF Served
    <3>2. CASE cpu'.at = "j1"
      BY <1>1, <1>5, <3>2 DEF Served
    <3> QED BY <1>5, <3>1, <3>2
  <2> QED BY <1>1, <1>3, <2>1 DEF TargetsUp
<1>8. ValueStored'
  <2>1. CASE cpu'.at = "x1"
    BY <2>1 DEF ValueStored
  <2>2. CASE cpu'.at = "j1"
    <3>1. exitcode[target[c]] = target[c] /\ status[target[c]] = "EXITED"
      BY <1>2, <1>3, <1>4, <1>5, <2>2 DEF ValueStored, CpuRight, JoinerNext
    <3> QED BY <1>1, <2>2, <3>1 DEF ValueStored
  <2> QED BY <1>5, <2>1, <2>2
<1>9. NobodyBlocked' /\ CallerAwake' /\ FreedOnce'
  BY <1>5 DEF NobodyBlocked, CallerAwake, FreedOnce, LibraryLabels
<1>10. Counted'
  BY <1>1, <1>3, <1>5 DEF Counted, Live, Uncounting
<1> QED BY <1>6, <1>7, <1>8, <1>9, <1>10 DEF HInv

LEMMA JoinReturnsKeepsHInv == ASSUME IInv, JInv, HInv, JoinReturns PROVE HInv'
<1> DEFINE c == curr_TID
<1>1. /\ Running /\ cpu.at = "j1" /\ cpu.flow = c /\ cpu'.at = "user" /\ cpu'.flow = c
      /\ status' = [status EXCEPT ![c] = "RUNNING"]
      /\ target' = [target EXCEPT ![c] = NoTid]
      /\ pos' = [pos EXCEPT ![c] = @ + 1]
      /\ UNCHANGED <<joining, exitcode, stack, reg, curr_TID, total_threads, first_call, local, proc>>
  BY DEF JoinReturns, At, Running, Goto, IInv, TypeOK, FlowIsCurr, globals
<1>2. /\ ~first_call /\ c \in Tid /\ 0 \in Tid /\ status \in [Tid -> Status]
      /\ target \in [Tid -> Tid \cup {NoTid}]
      /\ \A t \in Tid : target[t] # NoTid <=> target[t] \in Tid
      /\ Targets(status, reg, target, joining) /\ target[c] # NoTid
  BY <1>1, Inside DEF LibraryLabels, CpuRight, JoinerBack
<1>3. /\ JoinersBlocked /\ TargetsUp /\ Counted /\ BuffersSet /\ MainFresh /\ SlotsTaken /\ LastUnused
      /\ pos \in [Tid -> Nat]
  BY <1>1, <1>2 DEF HInv, IInv, TypeOK
<1>4. status[c] = "BLOCKED"
  BY <1>2, <1>3 DEF JoinersBlocked
<1>5. /\ status'[c] = "RUNNING" /\ target'[c] = NoTid
      /\ \A u \in Tid \ {c} : status'[u] = status[u] /\ target'[u] = target[u] /\ pos'[u] = pos[u]
  BY <1>1, <1>2, <1>3
<1> HIDE DEF c
<1>6. JoinersBlocked'
  BY <1>3, <1>5 DEF JoinersBlocked
<1>7. TargetsUp'
  <2> SUFFICES ASSUME NEW u \in Tid, status'[u] = "BLOCKED"
               PROVE  status'[target'[u]] \in {"READY", "RUNNING", "BLOCKED"}
    BY DEF TargetsUp
  <2>1. u # c /\ status[u] = "BLOCKED" /\ target'[u] = target[u]
    BY <1>5
  <2>2. target[u] \in Tid
    BY <1>2, <2>1 DEF Targets
  <2>3. status[target[u]] \in {"READY", "RUNNING", "BLOCKED"}
    BY <1>1, <1>3, <2>1 DEF TargetsUp, Served, c
  <2> QED BY <1>5, <2>1, <2>2, <2>3
<1>8. NobodyBlocked' /\ ValueStored' /\ FreedOnce' /\ CallerAwake'
  BY <1>1, <1>5 DEF NobodyBlocked, ValueStored, FreedOnce, CallerAwake
<1>9. Counted'
  <2>1. Live' = Live
    BY <1>2, <1>4, <1>5 DEF Live
  <2> QED BY <1>1, <1>3, <2>1 DEF Counted, Uncounting
<1>10. BuffersSet' /\ SlotsTaken' /\ MainFresh'
  BY <1>1, <1>2, <1>3, <1>4, <1>5 DEF BuffersSet, Usable, Ended, SlotsTaken, MainFresh
<1>11. LastUnused'
  <2>1. MAX_THREADS - 1 \in Tid
    BY MaxAssumption DEF Tid
  <2> QED BY <1>3, <1>4, <1>5, <2>1 DEF LastUnused, RoomLeft
<1> QED BY <1>6, <1>7, <1>8, <1>9, <1>10, <1>11 DEF HInv

LEMMA NextKeepsHInv == ASSUME WindowsClosed, IInv, JInv, HInv, [Next]_vars PROVE HInv'
<1>0. IInv' /\ JInv'
  BY NextKeepsIInv, NextKeepsJInv
<1>1. CASE Create
  BY <1>0, <1>1, CreateKeepsHInv
<1>2. CASE Exit
  BY <1>0, <1>2, ExitToJoinerKeepsHInv, ExitToWaitKeepsHInv DEF Exit
<1>3. ASSUME NEW t \in Tid, Join(t) PROVE HInv'
  BY <1>0, <1>3, JoinKeepsHInv
<1>4. CASE MainReturns
  BY <1>4 DEF MainReturns, Ends, HInv, Running
<1>5. CASE ExitToMain0 \/ ExitToMain1
  BY <1>0, <1>5, ToMainKeepsHInv
<1>6. CASE Tail1 \/ Tail2 \/ Tail3 \/ Tail4 \/ Tail5
  BY <1>6, Tail1KeepsHInv, TailKeepsHInv, Tail5KeepsHInv
<1>7. CASE Tail6 \/ JoinJumps
  BY <1>7, JumpKeepsHInv DEF HInv
<1>8. CASE JoinReturns
  BY <1>8, JoinReturnsKeepsHInv
<1>9. CASE Alarm
  BY <1>0, <1>9, AlarmKeepsHInv
<1>10. CASE UNCHANGED vars
  <2>1. UNCHANGED <<status, joining, exitcode, stack, reg, curr_TID, total_threads, first_call, cpu, pos,
                    target, local, proc>>
    BY <1>10 DEF vars, tcb, globals, flows
  <2>2. /\ JoinersBlocked' = JoinersBlocked /\ TargetsUp' = TargetsUp /\ NobodyBlocked' = NobodyBlocked
        /\ ValueStored' = ValueStored /\ CallerAwake' = CallerAwake /\ Counted' = Counted
        /\ BuffersSet' = BuffersSet /\ FreedOnce' = FreedOnce /\ SlotsTaken' = SlotsTaken
        /\ LastUnused' = LastUnused /\ MainFresh' = MainFresh
    BY <2>1 DEF JoinersBlocked, TargetsUp, Served, NobodyBlocked, ValueStored, CallerAwake, Counted, Live,
       Uncounting, BuffersSet, FreedOnce, SlotsTaken, LastUnused, RoomLeft, MainFresh
  <2> QED BY <2>1, <2>2 DEF HInv, Running
<1> QED
  BY <1>1, <1>2, <1>3, <1>4, <1>5, <1>6, <1>7, <1>8, <1>9, <1>10 DEF Next, Calls, Library, Terminated

(* While no alarm splits a hand-off, every hand-off comes through.          *)
THEOREM HandOffInvariance == ASSUME WindowsClosed PROVE Spec => [](IInv /\ JInv /\ HInv)
<1>1. Init => HInv
  BY DEF Init, HInv
<1>2. Init => IInv /\ JInv /\ HInv
  BY <1>1, InitIInv, InitJInv
<1>3. IInv /\ JInv /\ HInv /\ [Next]_vars => IInv' /\ JInv' /\ HInv'
  BY NextKeepsIInv, NextKeepsJInv, NextKeepsHInv
<1> QED BY <1>2, <1>3, PTL DEF Spec

(* The count of threads in use is exact but for the two stores of           *)
(* pthread_exit's tail that change both (214, 218).                         *)
THEOREM CountExactAlways == ASSUME WindowsClosed PROVE Spec => []CountExact
<1>1. IInv /\ JInv /\ HInv => CountExact
  <2> SUFFICES ASSUME HInv, Running, ~first_call, cpu.at \notin {"x2", "x3"}
               PROVE  total_threads = Cardinality(Live)
    BY DEF CountExact
  <2>1. Counted /\ Uncounting = 0
    BY DEF HInv, Uncounting
  <2>2. Cardinality(Live) \in Nat
    <3>1. Live \in SUBSET Tid
      BY DEF Live
    <3>2. 0 \in Tid
      BY MaxAssumption DEF Tid
    <3> QED BY <3>1, <3>2, TidFinite
  <2> QED BY <2>1, <2>2 DEF Counted
<1> QED BY <1>1, HandOffInvariance, PTL

(* A pthread_join about to return finds its target ended and, in the        *)
(* target's slot, the value the target itself passed (302).                 *)
THEOREM JoinGetsValueAlways == ASSUME WindowsClosed PROVE Spec => []JoinGetsValue
<1>1. IInv /\ JInv /\ HInv => JoinGetsValue
  <2> SUFFICES ASSUME IInv, JInv, HInv, At("j1")
               PROVE  status[target[cpu.flow]] = "EXITED" /\ exitcode[target[cpu.flow]] = target[cpu.flow]
    BY DEF JoinGetsValue
  <2>1. Running /\ cpu.at = "j1" /\ cpu.flow = curr_TID
    BY DEF At, Running, IInv, FlowIsCurr
  <2>2. ~first_call
    BY <2>1, Inside DEF LibraryLabels
  <2>3. ValueStored
    BY <2>1, <2>2 DEF HInv
  <2> QED BY <2>1, <2>3 DEF ValueStored
<1> QED BY <1>1, HandOffInvariance, PTL

-----------------------------------------------------------------------------
(* ThreadLife is implemented *)

LEMMA FreeThreads ==
  ASSUME IInv, JInv, HInv, Running, ~first_call, NEW t \in Tid
  PROVE  /\ Promise!Free(t) <=> status[t] \in {"READY", "RUNNING"}
         /\ Life[t] = IF status[t] = "FRESH" THEN "new"
                      ELSE IF status[t] \in {"WAITING", "EXITED"} THEN "ended" ELSE "live"
<1>1. Life[t] = IF status[t] = "FRESH" THEN "new"
                ELSE IF status[t] \in {"WAITING", "EXITED"} THEN "ended" ELSE "live"
  BY DEF Life
<1>2. target[t] # NoTid <=> status[t] = "BLOCKED"
  BY DEF HInv, JInv, JoinersBlocked, JoinsRight, Targets
<1>3. status[t] \in Status
  BY DEF IInv, TypeOK
<1>4. Promise!Free(t) <=> Life[t] = "live" /\ target[t] = NoTid
  BY DEF Promise!Free
<1> QED BY <1>1, <1>2, <1>3, <1>4 DEF Status

(* Before the first call main is alone and free.                            *)
LEMMA FreeAtFirst ==
  ASSUME IInv, JInv, Running, first_call
  PROVE  Promise!Free(0) /\ Life = [t \in Tid |-> IF t = 0 THEN "live" ELSE "new"]
<1>1. 0 \in Tid /\ target[0] = NoTid
  BY MaxAssumption DEF Tid, JInv, NothingYet
<1>2. Life = [t \in Tid |-> IF t = 0 THEN "live" ELSE "new"]
  BY DEF Life
<1> QED BY <1>1, <1>2 DEF Promise!Free

(* The statuses that ThreadLife tells apart.                                *)
LEMMA SameLife ==
  ASSUME ~first_call, ~first_call',
         \A t \in Tid : /\ status'[t] = "FRESH" <=> status[t] = "FRESH"
                        /\ status'[t] \in {"WAITING", "EXITED"} <=> status[t] \in {"WAITING", "EXITED"}
  PROVE  Life' = Life
BY DEF Life

(* How the process may stop: main could have let it, or nothing can run.    *)
MayStop(st) == \/ st[0] \in {"READY", "RUNNING"}
               \/ \A t \in Tid : st[t] \notin {"READY", "RUNNING"}

LEMMA SchedulerStops ==
  ASSUME TypeOK, NEW st \in [Tid -> Status], NEW rg \in [Tid -> Context], NEW here,
         curr_TID # MAX_THREADS - 1, st[curr_TID] # "FRESH",
         \A t \in Tid : rg[t].flow = t,
         \A t \in Tid : st[t] # "FRESH" => Usable(st[t], rg[t]),
         \A t \in Tid : st[t] = "RUNNING" => t = curr_TID,
         st[curr_TID] = "RUNNING" =>
           here.flow = curr_TID /\ here.at \notin {"none", "x1"} /\ here.pos = pos[curr_TID],
         Fresh(st, rg, pos), Running, Scheduler(st, rg, here), ~Running'
  PROVE  MayStop(st)
<1> DEFINE c == curr_TID
           rg1 == Saved(st, rg, c, here)
<1> SUFFICES ASSUME st[0] \notin {"READY", "RUNNING"}, NEW x \in Tid, st[x] \in {"READY", "RUNNING"}
             PROVE  FALSE
  BY DEF MayStop
<1>1. c \in Tid
  BY DEF TypeOK
<1>2. PICK n \in Tid : IsNext(st, c, n) /\ Resume(rg1[n], NoTid)
  BY DEF Scheduler
<1>3. st[n] = "READY" \/ (n = c /\ \A t \in Scanned(c) : st[t] # "READY")
  BY <1>1, <1>2, NextIsReady
<1>4. \A t \in Tid : st[t] # "RUNNING" => rg1[t] = rg[t]
  BY <1>1 DEF Saved
<1>5. st[c] = "RUNNING" => rg1[c] = here
  BY <1>1 DEF Saved
<1>6. rg1[n].at = "none" \/ rg1[n].at = "x1" \/ rg1[n].pos # pos[rg1[n].flow]
  <2> HIDE DEF rg1
  <2> QED BY <1>2 DEF Resume, Stale, Running
<1>7. CASE st[n] = "READY"
  <2>1. rg1[n] = rg[n] /\ n # 0
    BY <1>4, <1>7
  <2>2. Usable("READY", rg1[n]) /\ rg1[n].flow = n /\ rg1[n].pos = pos[n]
    BY <1>7, <2>1 DEF Fresh
  <2> QED BY <1>6, <2>2 DEF Usable, Ended
<1>8. CASE st[n] = "RUNNING"
  BY <1>3, <1>5, <1>6, <1>8
<1>9. CASE st[n] \notin {"READY", "RUNNING"}
  <2>1. n = c /\ x \in Scanned(c) /\ st[x] = "READY"
    BY <1>1, <1>3, <1>9 DEF Scanned
  <2> QED BY <1>3, <1>9, <2>1
<1> QED BY <1>7, <1>8, <1>9

LEMMA CreateStops ==
  ASSUME RoomLeft, IInv, JInv, HInv, ~first_call, Create, ~Running'
  PROVE  MayStop(status)
<1>1. Running /\ ~(total_threads > MAX_THREADS)
  <2>1. Running /\ total_threads \in Int
    BY DEF Create, At, Running, IInv, TypeOK
  <2>2. CountBounded
    BY CountFromJInv
  <2> QED BY <2>1, <2>2, MaxAssumption DEF CountBounded
<1>2. MAX_THREADS - 1 \in Tid /\ status[MAX_THREADS - 1] = "FRESH"
  BY <1>1, MaxAssumption DEF Tid, HInv, LastUnused
<1>3. \E i \in Tid : CreateThread(i)
  BY <1>1, <1>2 DEF Create, InitTotal, InitStatus
<1> QED BY <1>1, <1>3 DEF CreateThread, Running

LEMMA ExitStops ==
  ASSUME RoomLeft, IInv, JInv, HInv, ~first_call, At("user"), ExitToWait, ~Running'
  PROVE  MayStop(status)
<1> DEFINE c == curr_TID
           st == [status EXCEPT ![c] = "WAITING"]
           rg == [reg EXCEPT ![c] = Here("x1")]
<1>1. /\ Running /\ cpu.at = "user" /\ cpu.flow = c /\ c \in Tid /\ 0 \in Tid /\ TypeOK
      /\ status \in [Tid -> Status] /\ reg \in [Tid -> Context] /\ pos \in [Tid -> Nat]
      /\ (c # 0 => status[c] = "RUNNING") /\ status[c] \notin {"FRESH", "EXITED", "BLOCKED", "WAITING"}
      /\ \A t \in Tid : status[t] = "RUNNING" => t = c
      /\ Fresh(status, reg, pos) /\ BuffersSet /\ LastUnused
  BY Caller DEF IInv, HInv, CallerAwake, LibraryLabels
<1>2. CASE c = 0
  BY <1>1, <1>2 DEF MayStop, Status
<1>3. CASE c # 0
  <2>1. ~NoneReady(st) /\ Scheduler(st, rg, Here("user"))
    BY <1>1 DEF ExitToWait, Running
  <2>2. Here("x1") \in Context /\ Here("x1").at = "x1" /\ Here("x1").flow = c /\ Here("x1").pos = pos[c]
    BY <1>1 DEF Here, Context, BufferLabels, Labels, LibraryLabels
  <2>3. /\ st \in [Tid -> Status] /\ rg \in [Tid -> Context]
        /\ st[c] = "WAITING" /\ rg[c] = Here("x1")
        /\ \A t \in Tid \ {c} : st[t] = status[t] /\ rg[t] = reg[t]
    BY <1>1, <2>2 DEF Status
  <2> HIDE DEF c, st, rg
  <2>4. \A t \in Tid : rg[t].flow = t
    BY <2>2, <2>3 DEF IInv, ContextOwner
  <2>5. \A t \in Tid : st[t] # "FRESH" => Usable(st[t], rg[t])
    BY <1>1, <2>2, <2>3 DEF BuffersSet, Usable, Ended
  <2>6. Fresh(st, rg, pos)
    BY <1>1, <2>2, <2>3 DEF Fresh
  <2>7. c # MAX_THREADS - 1
    BY <1>1 DEF LastUnused
  <2>8. curr_TID = c /\ \A t \in Tid : st[t] # "RUNNING"
    BY <1>1, <2>3 DEF c
  <2>9. MayStop(st)
    BY <1>1, <2>1, <2>3, <2>4, <2>5, <2>6, <2>7, <2>8, SchedulerStops
  <2>10. st[0] \in {"READY", "RUNNING"}
    BY <2>1, <2>9 DEF MayStop, NoneReady
  <2> QED BY <1>1, <1>3, <2>3, <2>10 DEF MayStop
<1> QED BY <1>2, <1>3

LEMMA JoinStops ==
  ASSUME IInv, JInv, HInv, NEW t \in Tid, Join(t), JoinBlocks(t), ~Running'
  PROVE  MayStop(status)
<1> DEFINE c == curr_TID
           st == [status EXCEPT ![c] = "BLOCKED"]
           rg == [reg EXCEPT ![c] = Here("j1")]
<1>0. At("user") /\ ~first_call
  BY DEF Join, Joinable, Created, IInv, BeforeFirstCall
<1>1. /\ Running /\ cpu.at = "user" /\ cpu.flow = c /\ c \in Tid /\ 0 \in Tid /\ TypeOK
      /\ status \in [Tid -> Status] /\ reg \in [Tid -> Context] /\ pos \in [Tid -> Nat]
      /\ status[c] \notin {"FRESH", "EXITED", "BLOCKED", "WAITING"}
      /\ \A u \in Tid : status[u] = "RUNNING" => u = c
      /\ Fresh(status, reg, pos) /\ BuffersSet
  BY <1>0, Caller DEF IInv, HInv, CallerAwake, LibraryLabels
<1>2. CASE c = 0
  BY <1>1, <1>2 DEF MayStop, Status
<1>3. CASE c # 0
  <2>1. Scheduler(st, rg, Here("user"))
    BY <1>1 DEF JoinBlocks
  <2>2. Here("j1") \in Context /\ Here("j1").at = "j1" /\ Here("j1").flow = c /\ Here("j1").pos = pos[c]
    BY <1>1 DEF Here, Context, BufferLabels, Labels, LibraryLabels
  <2>3. /\ st \in [Tid -> Status] /\ rg \in [Tid -> Context]
        /\ st[c] = "BLOCKED" /\ rg[c] = Here("j1")
        /\ \A u \in Tid \ {c} : st[u] = status[u] /\ rg[u] = reg[u]
    BY <1>1, <2>2 DEF Status
  <2>4. (\E u \in Scanned(c) : st[u] = "READY") /\ c # MAX_THREADS - 1
    BY BlockedHasRunner
  <2> HIDE DEF c, st, rg
  <2>5. \A u \in Tid : rg[u].flow = u
    BY <2>2, <2>3 DEF IInv, ContextOwner
  <2>6. \A u \in Tid : st[u] # "FRESH" => Usable(st[u], rg[u])
    BY <1>1, <2>2, <2>3 DEF BuffersSet, Usable
  <2>7. Fresh(st, rg, pos)
    BY <1>1, <2>2, <2>3 DEF Fresh
  <2>8. curr_TID = c /\ \A u \in Tid : st[u] # "RUNNING"
    BY <1>1, <2>3 DEF c
  <2>9. MayStop(st)
    BY <1>1, <2>1, <2>3, <2>4, <2>5, <2>6, <2>7, <2>8, SchedulerStops
  <2>10. st[0] \in {"READY", "RUNNING"}
    BY <1>1, <2>4, <2>9 DEF MayStop, Scanned
  <2> QED BY <1>1, <1>3, <2>3, <2>10 DEF MayStop
<1> QED BY <1>2, <1>3

LEMMA AlarmStops ==
  ASSUME WindowsClosed, RoomLeft, IInv, JInv, HInv, Alarm, ~Running'
  PROVE  MayStop(status)
<1> DEFINE c == curr_TID
<1>1. /\ Running /\ ~first_call /\ Scheduler(status, reg, Here(cpu.at)) /\ cpu.at \in AlarmPoints
  BY DEF Alarm, Running
<1>2. /\ TypeOK /\ c \in Tid /\ status \in [Tid -> Status] /\ reg \in [Tid -> Context] /\ 0 \in Tid
      /\ cpu.at \in Labels /\ \A t \in Tid : reg[t].flow = t
  BY MaxAssumption DEF IInv, TypeOK, Tid, ContextOwner
<1>3. BuffersSet /\ LastUnused /\ Fresh(status, reg, pos) /\ CpuRight /\ StacksRight
  BY <1>1 DEF HInv, JInv
<1>4. cpu.at \notin {"k1", "x1", "x2", "x3", "x4", "x5", "x6", "j1"}
  BY <1>1 DEF WindowsClosed
<1>5. \A t \in Tid : status[t] = "RUNNING" => t = c /\ cpu.at \notin {"e0", "e1"}
  BY <1>1 DEF IInv, OnlyCurrRuns, NoneRunsInHandOff, LibraryLabels
<1>6. status[c] = "RUNNING" => /\ Here(cpu.at).flow = c /\ Here(cpu.at).pos = pos[c]
                               /\ Here(cpu.at).at \notin {"none", "x1"}
  <2>1. cpu.at \notin {"e0", "e1"} => cpu.flow = c
    BY <1>1, <1>4 DEF IInv, FlowIsCurr
  <2>2. cpu.at # "none"
    BY <1>2, ClientAssumption DEF Labels, LibraryLabels
  <2> QED BY <1>2, <1>4, <1>5, <2>1, <2>2 DEF Here
<1>7. status[c] # "FRESH"
  <2>1. CASE cpu.at = "e0"
    BY <1>3, <2>1 DEF CpuRight, WaiterKnown
  <2>2. CASE cpu.at # "e0" /\ c # 0
    <3>1. cpu.at # "e1" /\ cpu.at \notin LibraryLabels
      BY <1>1, <1>4, <2>2 DEF IInv, MainIsNext, LibraryLabels
    <3> QED BY <1>1, <1>3, <2>2, <3>1 DEF IInv, FlowIsCurr, CpuRight, UserMarked, LibraryLabels
  <2>3. CASE c = 0
    BY <1>1, <1>3, <2>3 DEF StacksRight, MainStays
  <2> QED BY <2>1, <2>2, <2>3
<1>8. c # MAX_THREADS - 1
  BY <1>3, <1>7 DEF LastUnused
<1>9. \A t \in Tid : status[t] # "FRESH" => Usable(status[t], reg[t])
  BY <1>3 DEF BuffersSet
<1> QED
  BY <1>1, <1>2, <1>3, <1>5, <1>6, <1>7, <1>8, <1>9, SchedulerStops

LEMMA JumpStops ==
  ASSUME IInv, JInv, HInv, ~first_call, ExitToMain1 \/ Tail2 \/ Tail6 \/ JoinJumps, ~Running'
  PROVE  MayStop(status)
<1> DEFINE c == curr_TID
<1>1. /\ Running /\ c \in Tid /\ 0 \in Tid /\ TypeOK /\ status \in [Tid -> Status]
      /\ \A t \in Tid : reg[t].flow = t
  BY MaxAssumption DEF ExitToMain1, Tail2, Tail6, JoinJumps, At, Running, IInv, TypeOK, ContextOwner, Tid
<1>2. /\ BuffersSet /\ MainFresh /\ FreedOnce /\ NobodyBlocked
      /\ Targets(status, reg, target, joining) /\ Fresh(status, reg, pos) /\ CpuRight /\ StacksRight
  BY <1>1 DEF HInv, JInv, JoinsRight
<1>3. CASE ExitToMain1
  <2>1. cpu.at = "e1"
    BY <1>3 DEF ExitToMain1, At
  <2>2. \A t \in Tid : /\ status[t] \notin {"RUNNING", "BLOCKED"}
                       /\ t # 0 => status[t] # "READY"
    BY <1>1, <1>2, <2>1 DEF NobodyBlocked, CpuRight, NobodyReady, IInv, NoneRunsInHandOff, LibraryLabels
  <2> QED BY <2>2 DEF MayStop
<1>4. CASE Tail2
  BY <1>1, <1>2, <1>4 DEF Tail2, At, FreedOnce, Running
<1>5. CASE Tail6
  <2>1. cpu.at = "x6" /\ Resume(reg[c], NoTid) /\ proc' # "running" /\ proc = "running"
    BY <1>1, <1>5 DEF Tail6, At, Running
  <2>2. status[c] = "BLOCKED" /\ target[c] # NoTid
    BY <1>2, <2>1 DEF CpuRight, JoinerNext
  <2>3. reg[c].at = "j1" /\ reg[c].pos = pos[c] /\ reg[c].flow = c
    BY <1>1, <1>2, <2>2 DEF Targets, Fresh, MainFresh
  <2> QED BY <2>1, <2>3 DEF Resume, Stale
<1>6. CASE JoinJumps
  <2>1. cpu.at = "k1" /\ Resume(reg[c], local[cpu.flow]) /\ proc' # "running" /\ proc = "running"
    BY <1>1, <1>6 DEF JoinJumps, At, Running
  <2>2. status[c] = "WAITING" /\ reg[c].at = "x1" /\ c # 0 /\ local[cpu.flow] # NoTid
    BY <1>1, <2>1, Entered DEF NoTid, Tid
  <2>3. reg[c].pos = pos[c] /\ reg[c].flow = c
    BY <1>1, <1>2, <2>2 DEF Fresh
  <2> QED BY <2>1, <2>2, <2>3 DEF Resume, Stale
<1> QED BY <1>3, <1>4, <1>5, <1>6

(* A process that ends does what ThreadLife's Stop allows.                  *)
LEMMA EndImplements ==
  ASSUME IInv, JInv, HInv, IInv', Running, ~Running', first_call \/ MayStop(status)
  PROVE  Promise!LifeNext
<1>1. Promise!Free(0) \/ \A t \in Tid : ~Promise!Free(t)
  <2>1. CASE first_call
    BY <2>1, FreeAtFirst
  <2>2. CASE ~first_call
    <3>1. \A t \in Tid : Promise!Free(t) <=> status[t] \in {"READY", "RUNNING"}
      BY <2>2, FreeThreads
    <3>2. 0 \in Tid
      BY MaxAssumption DEF Tid
    <3> QED BY <2>2, <3>1, <3>2 DEF MayStop
  <2> QED BY <2>1, <2>2
<1>2. Life' \in [Tid -> {"new", "live", "ended"}]
  BY DEF Life
<1>3. target' \in [Tid -> Tid \cup {NoTid}]
  BY DEF IInv, TypeOK
<1>4. Running' = FALSE
  BY DEF Running
<1>5. Promise!Stop
  BY <1>1, <1>2, <1>3, <1>4 DEF Promise!Stop
<1> QED BY <1>5 DEF Promise!LifeNext

(* A thread that makes a call is free in ThreadLife.                        *)
LEMMA CallerFree ==
  ASSUME IInv, JInv, HInv, At("user")
  PROVE  /\ curr_TID \in Tid /\ Promise!Free(curr_TID)
         /\ ~first_call => status[curr_TID] \in {"READY", "RUNNING"}
<1>1. /\ Running /\ cpu.at = "user" /\ cpu.flow = curr_TID /\ curr_TID \in Tid
      /\ status \in [Tid -> Status]
  BY Caller
<1>2. CASE first_call
  BY <1>1, <1>2, FreeAtFirst DEF IInv, BeforeFirstCall
<1>3. CASE ~first_call
  <2>1. status[curr_TID] \notin {"FRESH", "EXITED", "BLOCKED", "WAITING"}
    BY <1>1, <1>3, Caller DEF HInv, CallerAwake, LibraryLabels
  <2>2. status[curr_TID] \in {"READY", "RUNNING"}
    BY <1>1, <2>1 DEF Status
  <2> QED BY <1>1, <1>3, <2>2, FreeThreads
<1> QED BY <1>2, <1>3

LEMMA CreateImplements ==
  ASSUME IInv, JInv, HInv, NEW i \in Tid, At("user"), CreateThread(i)
  PROVE  Promise!LifeNext
<1>1. curr_TID \in Tid /\ Promise!Free(curr_TID) /\ Running /\ 0 \in Tid /\ status \in [Tid -> Status]
  BY CallerFree, Caller
<1>2. /\ InitStatus[i] = "FRESH" /\ status' = [InitStatus EXCEPT ![i] = "READY"]
      /\ ~first_call' /\ UNCHANGED <<target, proc>>
  BY DEF CreateThread, FirstFresh
<1>3. Life[i] = "new" /\ Life' = [Life EXCEPT ![i] = "live"]
  <2>1. InitStatus \in [Tid -> Status] /\ status'[i] = "READY"
    BY <1>1, <1>2 DEF InitStatus, Status
  <2>2. \A t \in Tid \ {i} : status'[t] = InitStatus[t]
    BY <1>2, <2>1
  <2>3. Life' = [t \in Tid |-> IF status'[t] = "FRESH" THEN "new"
                               ELSE IF status'[t] \in {"WAITING", "EXITED"} THEN "ended" ELSE "live"]
    BY <1>2 DEF Life
  <2>4. Life = [t \in Tid |-> IF InitStatus[t] = "FRESH" THEN "new"
                              ELSE IF InitStatus[t] \in {"WAITING", "EXITED"} THEN "ended" ELSE "live"]
    <3>1. CASE first_call
      BY <1>1, <3>1 DEF Life, InitStatus
    <3>2. CASE ~first_call
      BY <3>2 DEF Life, InitStatus
    <3> QED BY <3>1, <3>2
  <2> QED BY <1>2, <2>1, <2>2, <2>3, <2>4
<1>4. Promise!Begin(curr_TID, i)
  BY <1>1, <1>2, <1>3 DEF Promise!Begin, Running
<1> QED BY <1>1, <1>4 DEF Promise!LifeNext

(* pthread_exit ends the caller, whether or not it has been joined.         *)
LEMMA ExitImplements ==
  ASSUME IInv, JInv, HInv, IInv', Exit, Running'
  PROVE  Promise!LifeNext \/ UNCHANGED Promise!lifeVars
<1> DEFINE c == curr_TID
<1>1. At("user") /\ c \in Tid /\ Promise!Free(c) /\ Running /\ 0 \in Tid /\ status \in [Tid -> Status]
  BY CallerFree, Caller DEF Exit
<1>2. UNCHANGED <<target, first_call>> /\ Running' = Running
  BY <1>1 DEF Exit, ExitToJoiner, ExitToWait, Running
<1>3. CASE first_call
  <2>1. Life = [t \in Tid |-> IF t = 0 THEN "live" ELSE "new"]
    BY <1>1, <1>3, FreeAtFirst
  <2>2. first_call'
    BY <1>2, <1>3
  <2>3. Life' = [t \in Tid |-> IF t = 0 THEN "live" ELSE "new"]
    BY <2>2 DEF Life
  <2> QED BY <1>2, <2>1, <2>3 DEF Promise!lifeVars
<1>4. CASE ~first_call
  <2>1. /\ status'[c] \in {"WAITING", "EXITED"}
        /\ \A t \in Tid \ {c} :
             /\ status'[t] = "FRESH" <=> status[t] = "FRESH"
             /\ status'[t] \in {"WAITING", "EXITED"} <=> status[t] \in {"WAITING", "EXITED"}
    <3>1. CASE ExitToJoiner
      BY <1>1, <3>1 DEF ExitToJoiner
    <3>2. CASE ExitToWait
      <4> DEFINE st == [status EXCEPT ![c] = "WAITING"]
      <4>1. \A t \in Tid : /\ status'[t] = "FRESH" <=> st[t] = "FRESH"
                           /\ status'[t] \in {"WAITING", "EXITED"} <=> st[t] \in {"WAITING", "EXITED"}
        <5>1. CASE NoneReady(st)
          BY <3>2, <5>1 DEF ExitToWait
        <5>2. CASE ~NoneReady(st)
          <6>1. SwitchPost(st, target, joining)
            BY <1>1, <3>2, <5>2, ExitToWaitKeepsJInv
          <6> HIDE DEF st
          <6> QED BY <6>1 DEF SwitchPost
        <5> QED BY <5>1, <5>2
      <4> QED BY <1>1, <4>1
    <3> QED BY <1>1, <3>1, <3>2 DEF Exit
  <2>2. Life' = [Life EXCEPT ![c] = "ended"]
    BY <1>1, <1>2, <1>4, <2>1 DEF Life
  <2>3. Promise!End(c)
    BY <1>1, <1>2, <2>2 DEF Promise!End
  <2> QED BY <1>1, <2>3 DEF Promise!LifeNext
<1> QED BY <1>3, <1>4

LEMMA JoinImplements ==
  ASSUME IInv, JInv, HInv, IInv', NEW t \in Tid, Join(t), Running'
  PROVE  Promise!LifeNext \/ UNCHANGED Promise!lifeVars
<1> DEFINE c == curr_TID
<1>1. /\ At("user") /\ c \in Tid /\ Promise!Free(c) /\ Running /\ Running' = Running
      /\ status \in [Tid -> Status] /\ target \in [Tid -> Tid \cup {NoTid}]
      /\ cpu.flow = c /\ c < t /\ stack[t] # "none" /\ ~first_call
  BY CallerFree, Caller DEF Join, Joinable, Created, Running, IInv, BeforeFirstCall
<1>2. CASE JoinReturnsAtOnce(t)
  <2>1. UNCHANGED <<status, first_call, target>>
    BY <1>2 DEF JoinReturnsAtOnce, tcb, globals
  <2>2. Life' = Life
    BY <2>1 DEF Life
  <2> QED BY <1>1, <2>1, <2>2 DEF Promise!lifeVars
<1>3. CASE JoinEnters(t) \/ JoinBlocks(t)
  <2> DEFINE st == [status EXCEPT ![c] = "BLOCKED"]
  <2>1. target' = [target EXCEPT ![c] = t] /\ first_call' = first_call
    BY <1>1, <1>3 DEF JoinEnters, JoinBlocks
  <2>2. \A u \in Tid : /\ status'[u] = "FRESH" <=> st[u] = "FRESH"
                       /\ status'[u] \in {"WAITING", "EXITED"} <=> st[u] \in {"WAITING", "EXITED"}
    <3>1. CASE JoinEnters(t)
      BY <3>1 DEF JoinEnters
    <3>2. CASE JoinBlocks(t)
      <4>1. SwitchPost(st, target', joining')
        BY <3>2, JoinBlocksKeepsJInv
      <4> HIDE DEF st
      <4> QED BY <4>1 DEF SwitchPost
    <3> QED BY <1>3, <3>1, <3>2
  <2>3. status[c] \in {"READY", "RUNNING"} /\ status[t] # "FRESH"
    BY <1>1, CallerFree DEF JInv, StacksRight, CreatedTaken
  <2>4. \A u \in Tid : /\ status'[u] = "FRESH" <=> status[u] = "FRESH"
                       /\ status'[u] \in {"WAITING", "EXITED"} <=> status[u] \in {"WAITING", "EXITED"}
    BY <1>1, <2>2, <2>3
  <2> HIDE DEF st
  <2>5. Life' = Life
    BY <1>1, <2>1, <2>4, SameLife
  <2>6. Life[t] # "new" /\ c # t
    BY <1>1, <2>3, FreeThreads DEF Tid
  <2>7. Promise!Await(c, t)
    BY <1>1, <2>1, <2>5, <2>6 DEF Promise!Await
  <2> QED BY <1>1, <2>7 DEF Promise!LifeNext
<1> QED BY <1>2, <1>3 DEF Join

LEMMA JoinReturnsImplements ==
  ASSUME IInv, JInv, HInv, JoinReturns
  PROVE  Promise!LifeNext
<1> DEFINE c == curr_TID
           w == target[c]
<1>1. /\ Running /\ cpu.at = "j1" /\ cpu.flow = c
      /\ status' = [status EXCEPT ![c] = "RUNNING"]
      /\ target' = [target EXCEPT ![c] = NoTid]
      /\ first_call' = first_call /\ Running' = Running
  BY DEF JoinReturns, At, Running, IInv, FlowIsCurr, globals
<1>2. /\ ~first_call /\ c \in Tid /\ status \in [Tid -> Status] /\ target \in [Tid -> Tid \cup {NoTid}]
      /\ w \in Tid
  BY <1>1, Inside DEF LibraryLabels, CpuRight, JoinerBack
<1>3. status[c] = "BLOCKED" /\ status[w] = "EXITED"
  BY <1>1, <1>2 DEF HInv, JoinersBlocked, ValueStored, NoTid, Tid
<1>4. \A u \in Tid : /\ status'[u] = "FRESH" <=> status[u] = "FRESH"
                     /\ status'[u] \in {"WAITING", "EXITED"} <=> status[u] \in {"WAITING", "EXITED"}
  BY <1>1, <1>2, <1>3
<1>5. Life' = Life
  BY <1>1, <1>2, <1>4, SameLife
<1>6. Life[w] = "ended"
  BY <1>1, <1>2, <1>3, FreeThreads
<1>7. Promise!Joined(c, w)
  BY <1>1, <1>5, <1>6 DEF Promise!Joined
<1> QED BY <1>1, <1>2, <1>7 DEF Promise!LifeNext

(* The other steps are invisible in ThreadLife, or end the process.         *)
LEMMA OthersImplement ==
  ASSUME IInv, JInv, HInv, IInv', Running', Library \/ Alarm, ~JoinReturns
  PROVE  UNCHANGED Promise!lifeVars
<1>1. UNCHANGED <<target, first_call>> /\ Running /\ Running' = Running
  BY DEF Library, ExitToMain0, ExitToMain1, Tail1, Tail2, Tail3, Tail4, Tail5, Tail6, JoinJumps, Alarm,
     At, Running, globals, Ends, flows
<1>2. Life' = Life
  <2>1. CASE Alarm
    <3>1. SwitchPost(status, target, joining) /\ ~first_call
      BY <2>1, AlarmKeepsJInv DEF Alarm
    <3> QED BY <1>1, <3>1, SameLife DEF SwitchPost
  <2>2. CASE Tail1
    <3>1. cpu.at = "x1" /\ curr_TID \in Tid /\ status \in [Tid -> Status] /\ ~first_call
      BY <1>1, <2>2, Inside DEF Tail1, At, LibraryLabels
    <3>2. status[curr_TID] = "WAITING" /\ status' = [status EXCEPT ![curr_TID] = "EXITED"]
      BY <1>1, <2>2, <3>1, Entered DEF Tail1
    <3>3. \A u \in Tid : /\ status'[u] = "FRESH" <=> status[u] = "FRESH"
                         /\ status'[u] \in {"WAITING", "EXITED"} <=> status[u] \in {"WAITING", "EXITED"}
      BY <3>1, <3>2
    <3> QED BY <1>1, <3>1, <3>3, SameLife
  <2>3. CASE Library /\ ~Tail1
    <3>1. status' = status
      BY <2>3 DEF Library, ExitToMain0, ExitToMain1, Tail2, Tail3, Tail4, Tail5, Tail6, JoinJumps,
         Ends, tcb
    <3> QED BY <1>1, <3>1 DEF Life
  <2> QED BY <2>1, <2>2, <2>3
<1> QED BY <1>1, <1>2 DEF Promise!lifeVars

LEMMA StepImplements ==
  ASSUME WindowsClosed, RoomLeft, IInv, JInv, HInv, [Next]_vars
  PROVE  Promise!LifeNext \/ UNCHANGED Promise!lifeVars
<1>0. IInv'
  BY NextKeepsIInv
<1>1. CASE UNCHANGED vars
  <2>1. UNCHANGED <<status, first_call, target, proc>>
    BY <1>1 DEF vars, tcb, globals, flows
  <2>2. Life' = Life /\ Running' = Running
    BY <2>1 DEF Life, Running
  <2> QED BY <2>1, <2>2 DEF Promise!lifeVars
<1>2. CASE Next /\ ~Terminated /\ ~Running'
  <2>1. Running /\ (Calls \/ Library \/ Alarm)
    BY <1>2 DEF Next, Calls, Create, Exit, Join, MainReturns, Library, ExitToMain0, ExitToMain1, Tail1, Tail2,
       Tail3, Tail4, Tail5, Tail6, JoinJumps, JoinReturns, Alarm, At, Running
  <2>2. ASSUME ~first_call PROVE MayStop(status)
    <3>1. CASE Create
      BY <1>2, <2>2, <3>1, CreateStops
    <3>2. CASE Exit
      <4>1. At("user") /\ ~ExitToJoiner
        BY <1>2, <2>1, <3>2 DEF Exit, ExitToJoiner, Running
      <4> QED BY <1>2, <2>2, <3>2, <4>1, ExitStops DEF Exit
    <3>3. ASSUME NEW t \in Tid, Join(t) PROVE MayStop(status)
      <4>1. JoinBlocks(t)
        BY <1>2, <2>1, <3>3 DEF Join, JoinReturnsAtOnce, JoinEnters, Running
      <4> QED BY <1>2, <3>3, <4>1, JoinStops
    <3>4. CASE MainReturns
      <4>1. At("user") /\ curr_TID = 0
        BY <3>4, Caller DEF MainReturns
      <4> QED BY <2>2, <4>1, CallerFree DEF MayStop
    <3>5. CASE Library
      <4>1. ExitToMain1 \/ Tail2 \/ Tail6 \/ JoinJumps
        BY <1>2, <2>1, <3>5 DEF Library, ExitToMain0, Tail1, Tail3, Tail4, Tail5, JoinReturns, Running
      <4> QED BY <1>2, <2>2, <4>1, JumpStops
    <3>6. CASE Alarm
      BY <1>2, <3>6, AlarmStops
    <3> QED BY <2>1, <3>1, <3>2, <3>3, <3>4, <3>5, <3>6 DEF Calls
  <2> QED BY <1>0, <1>2, <2>1, <2>2, EndImplements
<1>3. CASE Next /\ ~Terminated /\ Running'
  <2>1. CASE Create
    <3>1. At("user") /\ \E i \in Tid : CreateThread(i)
      BY <1>3, <2>1 DEF Create, Ends, Running
    <3> QED BY <3>1, CreateImplements
  <2>2. CASE Exit
    BY <1>0, <1>3, <2>2, ExitImplements
  <2>3. ASSUME NEW t \in Tid, Join(t) PROVE Promise!LifeNext \/ UNCHANGED Promise!lifeVars
    BY <1>0, <1>3, <2>3, JoinImplements
  <2>4. CASE MainReturns
    BY <1>3, <2>4 DEF MainReturns, Ends, Running
  <2>5. CASE JoinReturns
    BY <2>5, JoinReturnsImplements
  <2>6. CASE (Library \/ Alarm) /\ ~JoinReturns
    BY <1>0, <1>3, <2>6, OthersImplement
  <2> QED BY <1>3, <2>1, <2>2, <2>3, <2>4, <2>5, <2>6 DEF Next, Calls
<1> QED BY <1>1, <1>2, <1>3 DEF Next, Terminated

LEMMA InitImplements == Init => Promise!LifeInit
<1> SUFFICES ASSUME Init PROVE Promise!LifeInit
  OBVIOUS
<1>1. Life = [t \in Tid |-> IF t = 0 THEN "live" ELSE "new"]
  BY DEF Init, Life
<1>2. Running = TRUE
  BY DEF Init, Running
<1> QED BY <1>1, <1>2 DEF Init, Promise!LifeInit

(* The library keeps the promise of ThreadLife: a join returns only once    *)
(* its target has ended, what ended stays ended, and the process stops only *)
(* if main lets it or no thread can go on.                                  *)
THEOREM KeepsPromiseAlways == ASSUME WindowsClosed, RoomLeft PROVE Spec => KeepsPromise
<1>1. IInv /\ JInv /\ HInv /\ [Next]_vars => [Promise!LifeNext]_(Promise!lifeVars)
  BY StepImplements
<1> QED
  BY <1>1, InitImplements, HandOffInvariance, PTL DEF Spec, KeepsPromise, Promise!LifeSpec

=============================================================================
