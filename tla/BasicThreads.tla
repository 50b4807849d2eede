---------------------------- MODULE BasicThreads ----------------------------
(***************************************************************************)
(* The first version of the thread library, src/Project 2/threads.c: the    *)
(* table and the scheduler of module Threads, and a pthread_create and a    *)
(* pthread_exit that neither block SIGALRM nor know of joins.  An alarm may *)
(* arrive between any two of their accesses to the table:                   *)
(*   c1..c4  pthread_create about to setjmp into the slot it found, to put  *)
(*           start_thunk into that buffer, to allocate the stack, to put    *)
(*           the stack into the buffer                                      *)
(*   c5..c7  about to mark the thread READY, to load and to store           *)
(*           total_threads                                                  *)
(*   b1..b4  pthread_exit about to free the stack, to load and to store     *)
(*           total_threads, to leave                                        *)
(* The timer that init_system arms does not fire for 50 ms, so the first    *)
(* pthread_create reaches the search for a slot in one step.  scheduler()   *)
(* is one step too: no alarm is taken inside it.                            *)
(***************************************************************************)
EXTENDS Threads

BasicLabels == {"c1", "c2", "c3", "c4", "c5", "c6", "c7", "b1", "b2", "b3", "b4"}

CONSTANTS
  Creators,    \* the threads that call pthread_create
  Exiters      \* the threads that may end by pthread_exit or by returning to it

ASSUME BasicAssumption ==
  ClientLabels = BasicLabels /\ Creators \subseteq Tid /\ Exiters \subseteq Tid

VARIABLES
  slot,      \* "i" in flow t's pthread_create
  loaded,    \* total_threads as flow t last loaded it
  made       \* what pthread_create has stored into TCB[t].reg since the last
             \* setjmp there: "PC" (with R12 and R13) and "RSP"

locals == <<slot, loaded, made>>
basicvars == <<vars, locals>>

BasicInit ==
  /\ Init
  /\ slot = [t \in Tid |-> 0]
  /\ loaded = [t \in Tid |-> 0]
  /\ made = [t \in Tid |-> {}]

(* scheduler() saves a RUNNING thread by a setjmp of its own (47).          *)
Refiled(st) ==
  made' = [made EXCEPT ![curr_TID] = IF st[curr_TID] = "RUNNING" THEN {} ELSE @]

SwitchKeepsTid(st, rg, here) ==                                           \* mutant
  \E n \in Tid :
    /\ IsNext(st, curr_TID, n)
    /\ status' = [Demoted(st, curr_TID) EXCEPT ![n] = "RUNNING"]
    /\ reg' = Saved(st, rg, curr_TID, here)
    /\ Resume(reg'[n], NoTid)
    /\ UNCHANGED curr_TID
    /\ Refiled(st)

Switch(st, rg, here) == Scheduler(st, rg, here) /\ Refiled(st)

(* SA_NODEFER (83) is what leaves SIGALRM unblocked in a thread that the     *)
(* handler starts: without it only main, which no handler starts, sees one.  *)
PreemptedInMain ==                                                        \* mutant
  cpu.flow = 0 /\ Alarm /\ Refiled(status) /\ UNCHANGED <<slot, loaded>>
Preempted == Alarm /\ Refiled(status) /\ UNCHANGED <<slot, loaded>>

-----------------------------------------------------------------------------
(* pthread_create *)

CreateRefused ==
  /\ pos' = [pos EXCEPT ![cpu.flow] = @ + 1]
  /\ UNCHANGED <<tcb, globals, cpu, target, local, proc, locals>>

CreateFinds(i) ==
  /\ FirstFresh(i)
  /\ slot' = [slot EXCEPT ![cpu.flow] = i]
  /\ status' = InitStatus
  /\ reg' = InitReg
  /\ total_threads' = InitTotal
  /\ first_call' = FALSE
  /\ Goto("c1")
  /\ UNCHANGED <<joining, exitcode, stack, curr_TID, pos, target, local, proc, loaded, made>>

CreateCalled ==
  /\ At("user")
  /\ cpu.flow \in Creators
  /\ pos[cpu.flow] < MaxCalls
  /\ Cardinality(Created) < MaxCreated
  /\ IF InitTotal > MAX_THREADS
     THEN CreateRefused
     ELSE IF \A t \in Tid : InitStatus[t] # "FRESH"
          THEN Ends("overrun") /\ UNCHANGED locals
          ELSE \E i \in Tid : CreateFinds(i)

(* setjmp(TCB[i].reg): until the two stores below, a thread i that another  *)
(* creator has made READY already resumes here, in its creator's frame.     *)
CreateSaves ==
  LET i == slot[cpu.flow]
  IN  /\ At("c1")
      /\ reg' = [reg EXCEPT ![i] = Here("c2")]
      /\ made' = [made EXCEPT ![i] = {}]
      /\ Goto("c2")
      /\ UNCHANGED <<status, joining, exitcode, stack, globals, pos, target, local, proc, slot, loaded>>

Started(i) == [flow |-> i, at |-> "start", pos |-> 0]

(* start_thunk without a stack of its own runs the start routine over the   *)
(* frames of the flow whose stack pointer the buffer holds: what that flow  *)
(* comes back to is undefined, as after a jump to a frame that returned.    *)
Unstacked(c) == [flow |-> c.flow, at |-> "user", pos |-> c.pos + 1]

CreateAims ==
  LET i == slot[cpu.flow]
  IN  /\ At("c2")
      /\ reg' = [reg EXCEPT ![i] = IF "RSP" \in made[i] THEN Started(i)
                                   ELSE Unstacked(@)]
      /\ made' = [made EXCEPT ![i] = @ \cup {"PC"}]
      /\ Goto("c3")
      /\ UNCHANGED <<status, joining, exitcode, stack, globals, pos, target, local, proc, slot, loaded>>

CreateAllocates ==
  /\ At("c3")
  /\ stack' = [stack EXCEPT ![slot[cpu.flow]] = "owned"]
  /\ Goto("c4")
  /\ UNCHANGED <<status, joining, exitcode, reg, globals, pos, target, local, proc, locals>>

(* A buffer with the program counter of a setjmp goes on in the frame that  *)
(* RBP still addresses, whatever its stack pointer.                         *)
CreateStacks ==
  LET i == slot[cpu.flow]
  IN  /\ At("c4")
      /\ reg' = [reg EXCEPT ![i] = IF "PC" \in made[i] THEN Started(i) ELSE @]
      /\ made' = [made EXCEPT ![i] = @ \cup {"RSP"}]
      /\ Goto("c5")
      /\ UNCHANGED <<status, joining, exitcode, stack, globals, pos, target, local, proc, slot, loaded>>

CreateReadies ==
  /\ At("c5")
  /\ status' = [status EXCEPT ![slot[cpu.flow]] = "READY"]
  /\ Goto("c6")
  /\ UNCHANGED <<joining, exitcode, stack, reg, globals, pos, target, local, proc, locals>>

Loads(from, to) ==
  /\ At(from)
  /\ loaded' = [loaded EXCEPT ![cpu.flow] = total_threads]
  /\ UNCHANGED <<slot, made>>
  /\ Goto(to)
  /\ UNCHANGED <<tcb, globals, pos, target, local, proc>>

CreateUncounted ==                                                        \* mutant
  /\ At("c7")
  /\ pos' = [pos EXCEPT ![cpu.flow] = @ + 1]
  /\ Goto("user")
  /\ UNCHANGED <<tcb, globals, target, local, proc, locals>>

CreateCounts ==
  /\ At("c7")
  /\ total_threads' = loaded[cpu.flow] + 1
  /\ pos' = [pos EXCEPT ![cpu.flow] = @ + 1]
  /\ Goto("user")
  /\ UNCHANGED <<tcb, curr_TID, first_call, target, local, proc, locals>>

-----------------------------------------------------------------------------
(* pthread_exit, or the start routine returning to it *)

ExitUnmarked ==                                                           \* mutant
  /\ At("user")
  /\ cpu.flow \in Exiters
  /\ Goto("b1")
  /\ UNCHANGED <<tcb, globals, pos, target, local, proc, locals>>

ExitCalled ==
  /\ At("user")
  /\ cpu.flow \in Exiters
  /\ status' = [status EXCEPT ![curr_TID] = "EXITED"]
  /\ Goto("b1")
  /\ UNCHANGED <<joining, exitcode, stack, reg, globals, pos, target, local, proc, locals>>

ExitFrees ==
  /\ At("b1")
  /\ IF stack[curr_TID] = "freed"
     THEN Ends("crashed")
     ELSE /\ stack' = [stack EXCEPT ![curr_TID] = IF @ = "owned" THEN "freed" ELSE @]
          /\ Goto("b2")
          /\ UNCHANGED <<status, joining, exitcode, reg, globals, pos, target, local, proc>>
  /\ UNCHANGED locals

ExitCounts ==
  /\ At("b3")
  /\ total_threads' = loaded[cpu.flow] - 1
  /\ Goto("b4")
  /\ UNCHANGED <<tcb, curr_TID, first_call, pos, target, local, proc, locals>>

(* With no other thread READY it jumps to main, and curr_TID still names    *)
(* the thread that ended.                                                   *)
ExitLeaves ==
  /\ At("b4")
  /\ IF NoneReady(status)
     THEN Resume(reg[0], NoTid) /\ UNCHANGED <<status, reg, curr_TID, made>>
     ELSE Switch(status, reg, Here("b4"))
  /\ UNCHANGED <<joining, exitcode, stack, total_threads, first_call, target, slot, loaded>>

-----------------------------------------------------------------------------
InLibrary ==
  \/ CreateSaves \/ CreateAims \/ CreateAllocates \/ CreateStacks
  \/ CreateReadies \/ Loads("c6", "c7") \/ CreateCounts
  \/ ExitFrees \/ Loads("b2", "b3") \/ ExitCounts \/ ExitLeaves

BasicNext ==
  \/ CreateCalled \/ ExitCalled \/ InLibrary
  \/ (MainReturns \/ Terminated) /\ UNCHANGED locals
  \/ Preempted

BasicSpec == BasicInit /\ [][BasicNext]_basicvars

(* As in Threads: a flow inside the library goes on, the timer never stops. *)
BasicFairSpec ==
  /\ BasicSpec
  /\ WF_basicvars(InLibrary)
  /\ SF_basicvars(Preempted)

-----------------------------------------------------------------------------
BasicTypeOK ==
  /\ TypeOK
  /\ slot \in [Tid -> Tid]
  /\ total_threads \in Nat
  /\ loaded \in [Tid -> Nat]
  /\ made \in [Tid -> SUBSET {"PC", "RSP"}]

(* Outside pthread_create total_threads is at least the number of threads   *)
(* in use: an exit interrupted between its stores (173-175) leaves it too   *)
(* high, never so low that pthread_create would exceed the table.           *)
CountCovers ==
  Running /\ ~first_call /\ cpu.at \notin {"c6", "c7"} =>
    Cardinality(Live) <= total_threads

(* A worker always runs under its own identity (pthread_self, 193), though  *)
(* main, entered by the last exit (184), runs under that of the thread that *)
(* ended.                                                                   *)
WorkersAreThemselves == At("user") /\ cpu.flow # 0 => cpu.flow = curr_TID
=============================================================================
