------------------------------- MODULE Shell -------------------------------
(***************************************************************************)
(* The shell of src/Project 1/main.c: the processes of one terminal.  A     *)
(* process is a copy of the shell until it execs a command; a background    *)
(* job is a copy that runs its line and then goes back to the prompt, so    *)
(* that several shells may read the same terminal.                          *)
(*                                                                         *)
(* The handler of SIGCHLD is installed with SA_NOCLDWAIT and without        *)
(* SA_RESTART (43-46): no child leaves a status behind; a wait sleeps until *)
(* a child ends, whichever it is, and the end of a child also interrupts    *)
(* fgets, which returns NULL.                                               *)
(*                                                                         *)
(* What a command reads and writes is left out: it ends by itself once its  *)
(* input is at its end, and it may give up before.  A command that cannot   *)
(* be run, or whose file cannot be opened, is one that ends.                *)
(***************************************************************************)
EXTENDS Integers, FiniteSets, Sequences

CONSTANTS
  Process,      \* process identifiers: fork fails when all are taken
  First,        \* the shell the user started
  Lines,        \* what may be typed, [num_cmd, bkgd, redir]; num_cmd is 0 for
                \* a blank line, redir says what is redirected too often:
                \* the input ("<") or the output (">")
  MaxLines,     \* bound: lines typed
  MaxEofs,      \* bound: Ctrl-D typed
  Pipe,         \* bound: pipes with an open end at one time
  OPEN_MAX      \* descriptors a process may have for pipes

ASSUME ShellAssumption ==
  /\ Process \subseteq Nat \ {0} /\ First \in Process
  /\ Lines \subseteq [num_cmd : Nat, bkgd : BOOLEAN, redir : SUBSET {"<", ">"}]
  /\ {MaxLines, MaxEofs, OPEN_MAX} \subseteq Nat /\ Pipe \subseteq Nat
  /\ IsFiniteSet(Process) /\ IsFiniteSet(Pipe)

VARIABLES
  proc,     \* proc[p]: [kind, parent, at, line, i, waited, pid, pipefds,
            \*           held, spare, in]
  typed,    \* lines typed
  eofs,     \* Ctrl-D typed
  dead      \* history: a shell has ended

vars == <<proc, typed, eofs, dead>>

NoProcess == 0
AnyChild == -1
Tty == <<0, "tty">>
End == Pipe \X {"r", "w"}
NoLine == [num_cmd |-> 0, bkgd |-> FALSE, redir |-> {}]

(* held: the ends of the line's pipes that are open; spare: how many other  *)
(* descriptors of pipes are.                                                *)
Free ==
  [kind |-> "none", parent |-> NoProcess, at |-> "top", line |-> NoLine, i |-> 0,
   waited |-> 0, pid |-> NoProcess, pipefds |-> <<>>, held |-> {}, spare |-> 0, in |-> Tty]

Init ==
  /\ proc = [p \in Process |-> IF p = First THEN [Free EXCEPT !.kind = "shell"] ELSE Free]
  /\ typed = 0
  /\ eofs = 0
  /\ dead = FALSE

-----------------------------------------------------------------------------
(* Processes *)

Children(p) == {c \in Process : proc[c].kind # "none" /\ proc[c].parent = p}
Unused == {p \in Process : proc[p].kind = "none"}

(* SIGCHLD reaches a process: a blocked call of it returns.                 *)
Notified(r) ==
  CASE r.at = "fgets" -> [r EXCEPT !.at = "null"]
    [] r.at = "waiting" -> [r EXCEPT !.at = "wait", !.waited = @ + 1]
    [] r.at = "waitpid_waiting" -> [r EXCEPT !.at = "top"]
    [] OTHER -> r

Exit(p) ==
  proc' = [q \in Process |->
    IF q = p THEN Free
    ELSE IF q = proc[p].parent THEN Notified(proc[q])
    ELSE IF proc[q].parent = p THEN [proc[q] EXCEPT !.parent = NoProcess]
    ELSE proc[q]]

In(p, label) == proc[p].kind = "shell" /\ proc[p].at = label
Becomes(p, r) == proc' = [proc EXCEPT ![p] = r]
At(p, label) == [proc[p] EXCEPT !.at = label]

(* fork(): p continues as parent, copy is what the new process is.  No       *)
(* process left: p continues as failed.                                     *)
NewProcess == CHOOSE q \in Unused : \A r \in Unused : q <= r
Fork(p, parent, copy, failed) ==
  IF Unused = {} THEN Becomes(p, failed)
  ELSE proc' = [proc EXCEPT ![p] = parent, ![NewProcess] = [copy EXCEPT !.parent = p]]

Idle == UNCHANGED <<typed, eofs, dead>>

-----------------------------------------------------------------------------
(* The prompt *)

Prompts(p) == In(p, "top") /\ Becomes(p, At(p, "fgets")) /\ Idle

TypeLine(p, line) ==
  /\ In(p, "fgets")
  /\ typed < MaxLines
  /\ typed' = typed + 1
  /\ Becomes(p, [proc[p] EXCEPT !.line = line,
       !.at = IF line.num_cmd = 0 THEN "top" ELSE IF line.bkgd THEN "background" ELSE "run"])
  /\ UNCHANGED <<eofs, dead>>

TypeEof(p) ==
  /\ In(p, "fgets")
  /\ eofs < MaxEofs
  /\ eofs' = eofs + 1
  /\ Becomes(p, At(p, "null"))
  /\ UNCHANGED <<typed, dead>>

(* line[i] with line = NULL (76).                                           *)
Crash(p) ==
  /\ In(p, "null")
  /\ Exit(p)
  /\ dead' = TRUE
  /\ UNCHANGED <<typed, eofs>>

Background(p) ==
  In(p, "background") /\ Fork(p, At(p, "top"), At(p, "run"), At(p, "run")) /\ Idle

-----------------------------------------------------------------------------
(* One command *)

RunsOne(p) ==
  LET waiter(c) == [proc[p] EXCEPT !.at = "waitpid", !.pid = c]
  IN  /\ In(p, "run") /\ proc[p].line.num_cmd = 1
      /\ IF proc[p].line.redir # {}
         THEN Becomes(p, At(p, "top"))
         ELSE Fork(p, waiter(NewProcess), [proc[p] EXCEPT !.kind = "command"], waiter(AnyChild))
      /\ Idle

Waitpid(p) ==
  /\ In(p, "waitpid")
  /\ IF proc[p].pid \in Children(p) \/ (proc[p].pid = AnyChild /\ Children(p) # {})
     THEN Becomes(p, At(p, "waitpid_waiting"))
     ELSE Becomes(p, At(p, "top"))
  /\ Idle

-----------------------------------------------------------------------------
(* A pipeline *)

EndsOf(S) == S \X {"r", "w"}
ArrayOf(p) == {proc[p].pipefds[k] : k \in DOMAIN proc[p].pipefds}
FreePipes == {k \in Pipe : \A p \in Process : EndsOf({k}) \cap proc[p].held = {}}
NextPipes(n) ==
  [k \in 1 .. n |-> CHOOSE x \in FreePipes : Cardinality({y \in FreePipes : y < x}) = k - 1]

(* The loop opens a pipe for each of the 2 * (num_cmd - 1) ints, twice as   *)
(* many as the line needs; when one fails it tries again for ever (259).    *)
OpenPipes(p) ==
  LET n == proc[p].line.num_cmd - 1
      s == NextPipes(n)
  IN  /\ In(p, "run") /\ n > 0
      /\ Cardinality(FreePipes) >= n
      /\ IF Cardinality(proc[p].held) + proc[p].spare + 4 * n > OPEN_MAX
         THEN Becomes(p, At(p, "spins"))
         ELSE Becomes(p, [proc[p] EXCEPT !.at = "fork", !.i = 0, !.waited = 0, !.pipefds = s,
                !.held = @ \cup EndsOf({s[k] : k \in 1 .. n}), !.spare = @ + 2 * n])
      /\ Idle

ForkOneMore(p) ==                                                         \* mutant
  LET parent == [proc[p] EXCEPT !.i = @ + 1]
  IN  /\ In(p, "fork") /\ proc[p].i <= proc[p].line.num_cmd
      /\ Fork(p, parent, [proc[p] EXCEPT !.kind = "child"], parent)
      /\ Idle

ForkNext(p) ==
  LET parent == [proc[p] EXCEPT !.i = @ + 1]
  IN  /\ In(p, "fork") /\ proc[p].i < proc[p].line.num_cmd
      /\ Fork(p, parent, [proc[p] EXCEPT !.kind = "child"], parent)
      /\ Idle

ClosedButLast(p) ==                                                       \* mutant
  (proc[p].held \ EndsOf(ArrayOf(p))) \cup {<<proc[p].pipefds[Len(proc[p].pipefds)], "w">>}
ClosedAll(p) == proc[p].held \ EndsOf(ArrayOf(p))

ForkedAll(p) ==
  /\ In(p, "fork") /\ proc[p].i >= proc[p].line.num_cmd
  /\ Becomes(p, [proc[p] EXCEPT !.at = "wait", !.held = ClosedAll(p)])
  /\ Idle

(* The child of stage i reads from pipe i - 1 and writes to pipe i.         *)
Stdin(c) == IF proc[c].i = 0 THEN Tty ELSE <<proc[c].pipefds[proc[c].i], "r">>
Stdout(c) ==
  IF proc[c].i = proc[c].line.num_cmd - 1 THEN Tty ELSE <<proc[c].pipefds[proc[c].i + 1], "w">>

KeptWriteEnd(c) ==                                                         \* mutant
  ({Stdin(c), Stdout(c)} \ {Tty}) \cup {<<proc[c].pipefds[1], "w">>}
Kept(c) == ClosedAll(c) \cup ({Stdin(c), Stdout(c)} \ {Tty})

(* The first stage redirects its input, the last one its output.  With too  *)
(* many redirections the child goes on with the loop over the commands, at  *)
(* the same i, as a shell of its own (303, 373).                            *)
Misdirected(c) ==
  LET redir == proc[c].line.redir
  IN  \/ proc[c].i = 0 /\ "<" \in redir
      \/ proc[c].i = proc[c].line.num_cmd - 1 /\ ">" \in redir

ChildExecs(c) ==
  /\ proc[c].kind = "child"
  /\ IF Misdirected(c)
     THEN Becomes(c, [proc[c] EXCEPT !.kind = "shell"])
     ELSE Becomes(c, [proc[c] EXCEPT !.kind = "command", !.in = Stdin(c), !.held = Kept(c)])
  /\ Idle

WaitedForAllButOne(p) == proc[p].waited >= proc[p].line.num_cmd - 1       \* mutant
WaitedForAll(p) == proc[p].waited >= proc[p].line.num_cmd

Wait(p) ==
  /\ In(p, "wait")
  /\ Becomes(p, IF WaitedForAll(p) THEN [At(p, "top") EXCEPT !.pipefds = <<>>]
                ELSE IF Children(p) = {} THEN [proc[p] EXCEPT !.waited = @ + 1]
                ELSE At(p, "waiting"))
  /\ Idle

-----------------------------------------------------------------------------
(* Commands *)

AtEof(c) ==
  proc[c].in = Tty \/ \A p \in Process : <<proc[c].in[1], "w">> \notin proc[p].held

Finishes(c) == proc[c].kind = "command" /\ AtEof(c) /\ Exit(c) /\ Idle
GivesUp(c) == proc[c].kind = "command" /\ ~AtEof(c) /\ Exit(c) /\ Idle

-----------------------------------------------------------------------------
Runs(p) ==
  \/ Prompts(p) \/ Crash(p) \/ Background(p) \/ RunsOne(p) \/ Waitpid(p)
  \/ OpenPipes(p) \/ ForkNext(p) \/ ForkedAll(p) \/ ChildExecs(p) \/ Wait(p)
  \/ Finishes(p)

Next ==
  \E p \in Process :
    \/ Runs(p) \/ GivesUp(p)
    \/ \E line \in Lines : TypeLine(p, line)
    \/ TypeEof(p)

Spec == Init /\ [][Next]_vars

(* Processes run, and a command at the end of its input ends; nobody need    *)
(* type anything.                                                            *)
FairSpec == Spec /\ \A p \in Process : WF_vars(Runs(p))

-----------------------------------------------------------------------------
ShellTypeOK ==
  \A p \in Process :
    LET r == proc[p]
    IN  /\ r.kind \in {"none", "shell", "child", "command"}
        /\ r.parent \in Process \cup {NoProcess}
        /\ r.at \in {"top", "fgets", "null", "background", "run", "waitpid", "waitpid_waiting",
                     "spins", "fork", "wait", "waiting"}
        /\ r.line \in Lines \cup {NoLine}
        /\ r.i \in Nat /\ (r.at = "fork" => r.i <= r.line.num_cmd)
        /\ r.waited \in Nat
        /\ r.pid \in Process \cup {NoProcess, AnyChild}
        /\ r.pipefds \in Seq(Pipe) /\ r.held \subseteq End /\ r.in \in End \cup {Tty}
        /\ r.spare \in 0 .. OPEN_MAX

AtPrompt(p) == proc[p].kind = "shell" /\ proc[p].at \in {"top", "fgets"}
HasBackground(p) == \E c \in Children(p) : proc[c].kind = "shell"

(* A shell at its prompt has no command running: the num_cmd calls of wait, *)
(* each of which any end of a child may interrupt, are enough (425-429).    *)
(* Once a shell has died its end may use up one of them.                    *)
ForegroundWaited ==
  ~dead => \A p \in Process : AtPrompt(p) => \A c \in Children(p) : proc[c].kind = "shell"

(* A shell done with the line holds no end of its pipes, no two commands    *)
(* hold one end, and none the write end of what it reads (396, 419).         *)
EndsInPlace ==
  \A p \in Process :
    /\ AtPrompt(p) => proc[p].held = {}
    /\ proc[p].kind = "command" =>
         /\ proc[p].in # Tty => <<proc[p].in[1], "w">> \notin proc[p].held
         /\ \A q \in Process \ {p} :
              proc[q].kind = "command" => proc[p].held \cap proc[q].held = {}

Busy(p) == proc[p].kind = "shell" /\ proc[p].at \notin {"top", "fgets", "null"}

(* A shell without background jobs comes back to its prompt after every      *)
(* line: each stage of a pipeline sees the end of its input, and wait is not *)
(* called once too often (README of Project 1: "Only then, a new prompt is   *)
(* displayed").                                                              *)
LineEnds == \A p \in Process : Busy(p) ~> ~Busy(p) \/ HasBackground(p)

(* The same for every shell.  A command that ends before the shell calls     *)
(* wait (427) leaves no status, and that wait sleeps until the background    *)
(* job ends, which goes on as a shell.                                       *)
PromptReturns == \A p \in Process : Busy(p) ~> ~Busy(p)
=============================================================================
