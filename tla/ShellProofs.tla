----------------------------- MODULE ShellProofs -----------------------------
(***************************************************************************)
(* Proofs about Shell, for any number of processes and pipes and any lines: *)
(* what a shell waits for, and who holds which end of a pipe.               *)
(***************************************************************************)
EXTENDS Shell, FiniteSetTheorems, TLAPS

(* A process redirects the input or the output of a pipeline at most once.  *)
(* Else a child goes on as a shell with the pipes of its parent (303, 373). *)
OneRedirection == \A line \in Lines : line.redir # {} => line.num_cmd <= 1

Labels ==
  {"top", "fgets", "null", "background", "run", "waitpid", "waitpid_waiting", "spins", "fork",
   "wait", "waiting"}
Records ==
  [kind : {"none", "shell", "child", "command"}, parent : Process \cup {NoProcess}, at : Labels,
   line : Lines \cup {NoLine}, i : Nat, waited : Nat,
   pid : Process \cup {NoProcess, AnyChild}, pipefds : Seq(Pipe), held : SUBSET End,
   spare : 0 .. OPEN_MAX, in : End \cup {Tty}]
Typed == proc \in [Process -> Records]

(* Only shells have children.                                               *)
ParentOf(p) ==
  /\ proc[p].kind = "none" => proc[p].parent = NoProcess
  /\ proc[p].parent # NoProcess =>
       proc[proc[p].parent].kind = "shell" /\ proc[proc[p].parent].parent # p
FamiliesOK == \A p \in Process : ParentOf(p)

(* A pipeline under way: its pipes are different ones.                      *)
PipesOf(r) == {r.pipefds[k] : k \in DOMAIN r.pipefds}
Piped(r) ==
  /\ Len(r.pipefds) = r.line.num_cmd - 1 /\ r.line.num_cmd >= 2
  /\ \A k, l \in DOMAIN r.pipefds : r.pipefds[k] = r.pipefds[l] => k = l
Opened(r) ==
  /\ r.at = "fork" /\ r.in = Tty /\ r.waited = 0
  /\ Piped(r) /\ r.held = EndsOf(PipesOf(r))

(* What a stage of a pipeline reads and writes (Stdin, Stdout).             *)
FromPipe(r) == IF r.i = 0 THEN Tty ELSE <<r.pipefds[r.i], "r">>
ToPipe(r) == IF r.i = r.line.num_cmd - 1 THEN Tty ELSE <<r.pipefds[r.i + 1], "w">>
StageOf(r) ==
  /\ r.at = "fork" /\ Piped(r) /\ r.i < r.line.num_cmd
  /\ r.in = FromPipe(r) /\ r.held = {FromPipe(r), ToPipe(r)} \ {Tty}

(* The ends a process holds.                                                *)
LineFor(r) ==
  /\ r.kind = "none" => r.at = "top" /\ r.held = {}
  /\ r.kind = "shell" =>
       \/ r.at # "fork" /\ r.held = {} /\ r.in = Tty
       \/ Opened(r) /\ r.i <= r.line.num_cmd
  /\ r.kind = "child" => Opened(r) /\ r.i < r.line.num_cmd
  /\ r.kind = "command" => (r.at = "run" /\ r.held = {} /\ r.in = Tty) \/ StageOf(r)
LinesOK == \A p \in Process : LineFor(proc[p])

(* The children the shell has to wait for, and how many of its calls of     *)
(* wait are still to come.                                                  *)
Stages(p) == {c \in Children(p) : proc[c].kind # "shell"}
Waits == {"waitpid", "waitpid_waiting", "fork", "wait", "waiting"}
WaitFor(r, S) ==
  /\ r.at \notin Waits => S = {}
  /\ r.at \in {"waitpid", "waitpid_waiting"} => S \subseteq {r.pid}
  /\ r.at = "fork" => Cardinality(S) <= r.i
  /\ r.at \in {"wait", "waiting"} => Cardinality(S) + r.waited <= r.line.num_cmd
WaitsOK == ~dead => \A p \in Process : proc[p].kind = "shell" => WaitFor(proc[p], Stages(p))

IInv == Typed /\ FamiliesOK /\ LinesOK /\ WaitsOK

(* Processes that hold one end belong to one pipeline: the shell, and       *)
(* stages of it that are different.                                         *)
OnePipeline(r, s) ==
  /\ r.pipefds = s.pipefds
  /\ r.kind # "shell" \/ s.kind # "shell"
  /\ IF r.kind = "shell" THEN s.i < r.i
     ELSE IF s.kind = "shell" THEN r.i < s.i
     ELSE r.i # s.i
Apart(r, s) == r.held \cap s.held = {} \/ OnePipeline(r, s)
EndsApart == \A p, q \in Process : p # q => Apart(proc[p], proc[q])

-----------------------------------------------------------------------------
(* Numbers *)

(* What the assumptions on the constants say.                               *)
LEMMA Numbers ==
  /\ IsFiniteSet(Process) /\ IsFiniteSet(Pipe)
  /\ Process \subseteq Nat \ {0} /\ Pipe \subseteq Nat
  /\ NoProcess \notin Process /\ AnyChild \notin Process /\ First \in Process
  /\ OPEN_MAX \in Nat
BY ShellAssumption DEF NoProcess, AnyChild

(* A set of naturals has a least element, since the initial segments 0 .. x *)
(* are well-founded under inclusion.                                        *)
LEMMA LeastNat == ASSUME NEW S, S \subseteq Nat, S # {}
                  PROVE  \E x \in S : \A y \in S : x <= y
<1> DEFINE below == {0 .. x : x \in S}
<1>1. below \subseteq FiniteSubsetsOf(Nat) /\ below # {}
  <2>1. ASSUME NEW x \in S PROVE IsFiniteSet(0 .. x) /\ 0 .. x \subseteq Nat
    BY <2>1, FS_Interval
  <2> QED BY <2>1 DEF FiniteSubsetsOf
<1> DEFINE R == StrictSubsetOrdering(Nat)
<1>2. IsWellFoundedOn(R, FiniteSubsetsOf(Nat))
  BY FS_StrictSubsetOrderingWellFounded
<1>3. PICK A \in below : \A B \in below : <<B, A>> \notin R
  <2> HIDE DEF below, R
  <2> QED BY <1>1, <1>2, WFMin
<1>4. PICK x \in S : A = 0 .. x
  OBVIOUS
<1>5. ASSUME NEW y \in S, y < x PROVE FALSE
  <2>1. 0 .. y \subseteq 0 .. x /\ x \in 0 .. x /\ x \notin 0 .. y
    BY <1>5
  <2>2. <<0 .. y, A>> \in R
    BY <1>4, <2>1, <1>1 DEF StrictSubsetOrdering, FiniteSubsetsOf
  <2> QED BY <1>3, <2>2
<1> QED BY <1>5

(* Induction on sets of numbers.                                            *)
LEMMA AllNats ==
  ASSUME NEW m \in Nat, NEW S, 0 \in S, \A n \in 0 .. m - 1 : n \in S => n + 1 \in S
  PROVE  0 .. m \subseteq S
<1> DEFINE Missing == 0 .. m \ S
<1>1. CASE Missing = {}
  BY <1>1
<1>2. CASE Missing # {}
  <2>0. Missing \subseteq Nat
    OBVIOUS
  <2>1. PICK x \in Missing : \A y \in Missing : x <= y
    <3> HIDE DEF Missing
    <3> QED BY <1>2, <2>0, LeastNat
  <2>2. x # 0 /\ x \in 1 .. m
    BY <2>1
  <2>3. x - 1 \in 0 .. m - 1 /\ x - 1 \in S
    BY <2>1, <2>2
  <2>4. (x - 1) + 1 \in S
    BY <2>3
  <2>5. x \in S
    BY <2>2, <2>4
  <2> QED BY <2>1, <2>5
<1> QED BY <1>1, <1>2

(* Every set of pipes with n members has n that are below the others.        *)
LEMMA LowestExists ==
  ASSUME NEW S, S \subseteq Pipe, NEW n \in Nat, n <= Cardinality(S)
  PROVE  \E T \in SUBSET S : Cardinality(T) = n /\ \A x \in T, y \in S \ T : x < y
<1> DEFINE Fine(k) == \E T \in SUBSET S : Cardinality(T) = k /\ \A x \in T, y \in S \ T : x < y
           Good == {k \in Nat : Fine(k)}
<1>1. IsFiniteSet(S) /\ S \subseteq Nat /\ Cardinality(S) \in Nat
  BY Numbers, FS_Subset, FS_CardinalityType
<1>2. 0 \in Good
  <2>1. Cardinality({}) = 0
    BY FS_EmptySet
  <2> QED BY <2>1
<1>3. ASSUME NEW k \in 0 .. n - 1, k \in Good PROVE k + 1 \in Good
  <2>1. PICK T \in SUBSET S : Cardinality(T) = k /\ \A x \in T, y \in S \ T : x < y
    BY <1>3
  <2>2. S \ T # {}
    <3>1. k < Cardinality(S)
      BY <1>1
    <3> QED BY <2>1, <3>1
  <2>3. PICK z \in S \ T : \A y \in S \ T : z <= y
    BY <1>1, <2>2, LeastNat
  <2>4. IsFiniteSet(T)
    BY <1>1, FS_Subset
  <2>5. Cardinality(T \cup {z}) = k + 1
    BY <2>1, <2>3, <2>4, FS_AddElement
  <2>6. ASSUME NEW x \in T \cup {z}, NEW y \in S \ (T \cup {z}) PROVE x < y
    BY <1>1, <2>1, <2>3
  <2>7. T \cup {z} \in SUBSET S
    OBVIOUS
  <2>8. Fine(k + 1)
    BY <2>5, <2>6, <2>7
  <2> QED BY <2>8
<1>4. 0 .. n \subseteq Good
  <2> HIDE DEF Good
  <2> QED BY <1>2, <1>3, AllNats
<1> QED BY <1>4

(* An array of n members is a sequence of length n.                         *)
LEMMA ArrayIsSeq ==
  ASSUME NEW S, NEW n \in Nat, NEW f \in [1 .. n -> S]
  PROVE  f \in Seq(S) /\ Len(f) = n
OBVIOUS

(* The pipes opened for a line are n different ones that nobody holds.      *)
LEMMA FreshPipes ==
  ASSUME NEW n \in Nat, n <= Cardinality(FreePipes)
  PROVE  /\ NextPipes(n) \in [1 .. n -> FreePipes] /\ FreePipes \subseteq Pipe
         /\ NextPipes(n) \in Seq(Pipe) /\ Len(NextPipes(n)) = n
         /\ \A k, l \in 1 .. n : NextPipes(n)[k] = NextPipes(n)[l] => k = l
<1> DEFINE F == FreePipes
           Below(x) == {y \in F : y < x}
<1>1. F \subseteq Pipe /\ F \subseteq Nat /\ IsFiniteSet(F) /\ Cardinality(F) \in Nat
  <2>1. F \in SUBSET Pipe
    BY DEF FreePipes
  <2> QED BY <2>1, Numbers, FS_Subset, FS_CardinalityType
<1>2. /\ n <= Cardinality(F)
      /\ NextPipes(n) = [k \in 1 .. n |->
         CHOOSE x \in F : Cardinality(Below(x)) = k - 1]
  BY DEF NextPipes
<1> HIDE DEF F
<1>3. ASSUME NEW k \in 1 .. n PROVE \E x \in F : Cardinality(Below(x)) = k - 1
  <2>1. k - 1 \in Nat /\ k - 1 <= Cardinality(F) /\ k - 1 < Cardinality(F)
    BY <1>1, <1>2
  <2>2. PICK T \in SUBSET F : Cardinality(T) = k - 1 /\ \A x \in T, y \in F \ T : x < y
    BY <1>1, <2>1, LowestExists
  <2>3. F \ T # {}
    <3>1. T # F
      BY <1>1, <2>1, <2>2
    <3> QED BY <3>1
  <2>4. PICK z \in F \ T : \A y \in F \ T : z <= y
    BY <1>1, <2>3, LeastNat
  <2>5. Below(z) = T
    <3>1. ASSUME NEW y \in F PROVE y < z <=> y \in T
      BY <1>1, <2>2, <2>4
    <3> QED BY <3>1
  <2> QED BY <2>2, <2>4, <2>5
<1>4. ASSUME NEW k \in 1 .. n
      PROVE  NextPipes(n)[k] \in F /\ Cardinality(Below(NextPipes(n)[k])) = k - 1
  <2> HIDE DEF Below
  <2>1. NextPipes(n)[k] = CHOOSE x \in F : Cardinality(Below(x)) = k - 1
    BY <1>2
  <2> QED BY <1>3, <2>1
<1>5. NextPipes(n) \in [1 .. n -> F]
  BY <1>2, <1>4
<1>6. ASSUME NEW k \in 1 .. n, NEW l \in 1 .. n, NextPipes(n)[k] = NextPipes(n)[l] PROVE k = l
  <2>1. k - 1 = l - 1
    BY <1>4, <1>6
  <2> QED BY <2>1
<1>7. NextPipes(n) \in Seq(Pipe) /\ Len(NextPipes(n)) = n
  <2>1. NextPipes(n) \in [1 .. n -> Pipe]
    BY <1>1, <1>5
  <2> QED BY <2>1, ArrayIsSeq
<1> QED BY <1>1, <1>5, <1>6, <1>7 DEF F

-----------------------------------------------------------------------------
(* Processes *)

(* What the types say of one process.                                       *)
LEMMA RecordFacts ==
  ASSUME NEW r \in Records
  PROVE  /\ r.kind \in {"none", "shell", "child", "command"}
         /\ r.parent \in Process \cup {NoProcess} /\ r.at \in Labels
         /\ r.line \in Lines \cup {NoLine} /\ r.line.num_cmd \in Nat
         /\ r.i \in Nat /\ r.waited \in Nat
         /\ r.pipefds \in Seq(Pipe) /\ r.held \subseteq End
         /\ r.in \in End \cup {Tty} /\ r.spare \in 0 .. OPEN_MAX
<1>1. r.line \in Lines \cup {NoLine}
  BY DEF Records
<1>2. r.line.num_cmd \in Nat
  BY <1>1, ShellAssumption DEF NoLine
<1> QED BY <1>1, <1>2 DEF Records

(* What Typed says of one process.                                         *)
LEMMA TypedFacts ==
  ASSUME Typed, NEW p \in Process
  PROVE  /\ proc[p] \in Records /\ proc[p].parent \in Process \cup {NoProcess}
         /\ proc[p].kind \in {"none", "shell", "child", "command"}
BY RecordFacts DEF Typed

(* The new process is one that was unused.                                  *)
LEMMA NewProcessFacts ==
  ASSUME Unused # {}
  PROVE  NewProcess \in Process /\ proc[NewProcess].kind = "none"
<1>1. Unused \subseteq Nat
  BY Numbers DEF Unused
<1>2. \E q \in Unused : \A r \in Unused : q <= r
  BY <1>1, LeastNat
<1>3. NewProcess \in Unused
  BY <1>2 DEF NewProcess
<1> QED BY <1>3 DEF Unused

(* The stages of a pipeline are processes, finitely many.                   *)
LEMMA StagesFinite ==
  ASSUME NEW p
  PROVE  Stages(p) \subseteq Process /\ IsFiniteSet(Stages(p)) /\ Cardinality(Stages(p)) \in Nat
<1>1. Stages(p) \in SUBSET Process
  BY DEF Stages, Children
<1> QED BY <1>1, Numbers, FS_Subset, FS_CardinalityType

(* A shell with fewer stages to wait for waits for them too.                *)
LEMMA WaitShrinks ==
  ASSUME NEW r, r.i \in Nat, r.waited \in Nat, r.line.num_cmd \in Nat,
         NEW S, IsFiniteSet(S), NEW T \in SUBSET S, WaitFor(r, S)
  PROVE  WaitFor(r, T)
<1>1. Cardinality(T) <= Cardinality(S) /\ Cardinality(S) \in Nat /\ Cardinality(T) \in Nat
  BY FS_Subset, FS_CardinalityType
<1> QED BY <1>1 DEF WaitFor

-----------------------------------------------------------------------------
(* The three shapes of a step *)

(* A process that is in use goes on by itself.                              *)
LEMMA BecomesStep ==
  ASSUME IInv, NEW p \in Process, NEW r \in Records, Becomes(p, r), dead' = dead,
         proc[p].kind # "none", r.kind # "none", r.parent = proc[p].parent,
         proc[p].kind = "shell" => r.kind = "shell", LineFor(r),
         proc[p].kind = "shell" /\ ~dead => WaitFor(r, Stages(p)),
         proc[p].kind # "shell" /\ r.kind = "shell" => WaitFor(r, {})
  PROVE  IInv'
<1>1. proc' = [proc EXCEPT ![p] = r] /\ Typed
  BY DEF Becomes, IInv
<1>2. Typed'
  BY <1>1 DEF Typed
<1>3. proc'[p] = r /\ \A q \in Process \ {p} : proc'[q] = proc[q]
  BY <1>1 DEF Typed
<1> HIDE DEF Becomes
<1>4. FamiliesOK'
  <2> SUFFICES ASSUME NEW q \in Process PROVE ParentOf(q)'
    BY DEF FamiliesOK
  <2>1. ParentOf(q) /\ proc'[q].parent = proc[q].parent
        /\ (proc'[q].kind = "none" <=> proc[q].kind = "none")
    BY <1>3 DEF IInv, FamiliesOK
  <2>2. ASSUME proc[q].parent # NoProcess
        PROVE  proc'[proc[q].parent].kind = "shell" /\ proc'[proc[q].parent].parent # q
    <3>1. proc[q].parent \in Process
      BY <1>1, <2>2, TypedFacts
    <3> QED BY <1>3, <2>1, <2>2, <3>1 DEF ParentOf
  <2> QED BY <2>1, <2>2 DEF ParentOf
<1>5. LinesOK'
  BY <1>3 DEF IInv, LinesOK
<1>6. ASSUME NEW q \in Process PROVE Stages(q)' \subseteq Stages(q)
  BY <1>3 DEF Stages, Children
<1>7. ASSUME ~dead, NEW q \in Process, proc'[q].kind = "shell"
      PROVE  WaitFor(proc'[q], Stages(q)')
  <2>1. proc'[q] \in Records /\ proc'[q].i \in Nat /\ proc'[q].waited \in Nat
        /\ proc'[q].line.num_cmd \in Nat
    <3>1. proc'[q] \in Records
      BY <1>2 DEF Typed
    <3> QED BY <3>1, RecordFacts
  <2>2. CASE proc[q].kind = "shell"
    <3>1. WaitFor(proc'[q], Stages(q))
      BY <1>3, <1>7, <2>2 DEF IInv, WaitsOK
    <3> QED BY <1>6, <2>1, <3>1, StagesFinite, WaitShrinks
  <2>3. CASE proc[q].kind # "shell"
    <3>1. q = p /\ WaitFor(r, {})
      BY <1>3, <1>7, <2>3
    <3>2. Stages(q)' = {}
      <4>1. \A c \in Process : proc[c].parent # q
        BY <2>3, Numbers DEF IInv, FamiliesOK, ParentOf
      <4>2. \A c \in Process : proc'[c].parent # q
        BY <1>3, <4>1
      <4> QED BY <4>2 DEF Stages, Children
    <3> QED BY <1>3, <3>1, <3>2
  <2> QED BY <2>2, <2>3
<1>8. WaitsOK'
  BY <1>7 DEF WaitsOK
<1> QED BY <1>2, <1>4, <1>5, <1>8 DEF IInv

(* A shell makes a new process.                                             *)
LEMMA ForkStep ==
  ASSUME IInv, NEW p \in Process, proc[p].kind = "shell", Unused # {}, dead' = dead,
         NEW r \in Records, NEW s \in Records,
         proc' = [proc EXCEPT ![p] = r, ![NewProcess] = s],
         r.kind = "shell", r.parent = proc[p].parent,
         s.kind \in {"shell", "child", "command"}, s.parent = p,
         LineFor(r), LineFor(s),
         ~dead => WaitFor(r, IF s.kind = "shell" THEN Stages(p) ELSE Stages(p) \cup {NewProcess}),
         ~dead /\ s.kind = "shell" => WaitFor(s, {})
  PROVE  IInv'
<1> DEFINE n == NewProcess
<1>1. n \in Process /\ proc[n].kind = "none" /\ n # p /\ Typed
  BY NewProcessFacts DEF IInv
<1>2. Typed'
  BY DEF IInv, Typed
<1>3. proc'[p] = r /\ proc'[n] = s /\ \A q \in Process \ {p, n} : proc'[q] = proc[q]
  BY <1>1 DEF Typed
<1> HIDE DEF n
<1>4. \A c \in Process : proc[c].parent # n /\ (c = n => proc[c].parent = NoProcess)
  BY <1>1, Numbers DEF IInv, FamiliesOK, ParentOf
<1>5. FamiliesOK'
  <2> SUFFICES ASSUME NEW q \in Process PROVE ParentOf(q)'
    BY DEF FamiliesOK
  <2>1. CASE q = n
    <3>1. r.parent # n
      BY <1>4
    <3> QED BY <1>1, <1>3, <2>1, <3>1 DEF ParentOf
  <2>2. CASE q # n
    <3>1. ParentOf(q) /\ proc'[q].parent = proc[q].parent
          /\ (proc'[q].kind = "none" <=> proc[q].kind = "none")
      BY <1>3, <2>2 DEF IInv, FamiliesOK
    <3>2. ASSUME proc[q].parent # NoProcess
          PROVE  proc'[proc[q].parent].kind = "shell" /\ proc'[proc[q].parent].parent # q
      <4>1. proc[q].parent \in Process /\ proc[q].parent # n
        BY <1>1, <1>4, <3>2, TypedFacts
      <4> QED BY <1>3, <3>1, <3>2, <4>1 DEF ParentOf
    <3> QED BY <3>1, <3>2 DEF ParentOf
  <2> QED BY <2>1, <2>2
<1>6. LinesOK'
  BY <1>3 DEF IInv, LinesOK
<1>7. ASSUME ~dead, NEW q \in Process, proc'[q].kind = "shell"
      PROVE  WaitFor(proc'[q], Stages(q)')
  <2>1. CASE q = n
    <3>1. Stages(q)' = {}
      <4>1. \A c \in Process : proc'[c].parent # n
        BY <1>1, <1>3, <1>4
      <4> QED BY <2>1, <4>1 DEF Stages, Children
    <3> QED BY <1>3, <1>7, <2>1, <3>1
  <2>2. CASE q = p
    <3>1. \A c \in Process \ {n} : c \in Stages(p)' <=> c \in Stages(p)
      BY <1>3 DEF Stages, Children
    <3>2. n \in Stages(p)' <=> s.kind # "shell"
      BY <1>1, <1>3 DEF Stages, Children
    <3>3. n \notin Stages(p) /\ Stages(p) \subseteq Process /\ Stages(p)' \subseteq Process
      BY <1>1 DEF Stages, Children
    <3>4. Stages(p)' = IF s.kind = "shell" THEN Stages(p) ELSE Stages(p) \cup {n}
      BY <1>1, <3>1, <3>2, <3>3
    <3> QED BY <1>3, <1>7, <2>2, <3>4 DEF n
  <2>3. CASE q \notin {n, p}
    <3>1. Stages(q)' = Stages(q)
      <4>1. proc'[n].parent # q /\ proc[n].parent # q
        BY <1>1, <1>3, <1>4, <2>3, Numbers
      <4> QED BY <1>3, <4>1 DEF Stages, Children
    <3>2. proc'[q] = proc[q]
      BY <1>3, <2>3
    <3> QED BY <1>7, <3>1, <3>2 DEF IInv, WaitsOK
  <2> QED BY <2>1, <2>2, <2>3
<1>8. WaitsOK'
  BY <1>7 DEF WaitsOK
<1> QED BY <1>2, <1>5, <1>6, <1>8 DEF IInv

(* What SIGCHLD changes of a process (43-46).                               *)
LEMMA NotifiedFacts ==
  ASSUME NEW r \in Records
  PROVE  /\ Notified(r) \in Records
         /\ Notified(r).kind = r.kind /\ Notified(r).parent = r.parent
         /\ Notified(r).line = r.line /\ Notified(r).i = r.i
         /\ Notified(r).pipefds = r.pipefds /\ Notified(r).held = r.held
         /\ Notified(r).in = r.in
         /\ r.at \notin {"fgets", "waiting", "waitpid_waiting"} => Notified(r) = r
         /\ r.at = "fgets" => Notified(r).at = "null"
         /\ r.at = "waiting" => Notified(r).at = "wait" /\ Notified(r).waited = r.waited + 1
         /\ r.at = "waitpid_waiting" => Notified(r).at = "top"
<1>1. CASE r.at = "fgets"
  BY <1>1 DEF Notified, Records, Labels
<1>2. CASE r.at = "waiting"
  <2>1. Notified(r) = [r EXCEPT !.at = "wait", !.waited = r.waited + 1]
    BY <1>2 DEF Notified
  <2>2. r.waited + 1 \in Nat
    BY DEF Records
  <2> QED BY <1>2, <2>1, <2>2 DEF Records, Labels
<1>3. CASE r.at = "waitpid_waiting"
  <2>1. Notified(r) = [r EXCEPT !.at = "top"]
    BY <1>3 DEF Notified
  <2> QED BY <1>3, <2>1 DEF Records, Labels
<1>4. CASE r.at \notin {"fgets", "waiting", "waitpid_waiting"}
  BY <1>4 DEF Notified
<1> QED BY <1>1, <1>2, <1>3, <1>4

(* A notification is worth a stage that has ended, since the shell holds no  *)
(* pipes when it sleeps and counts the end only if it sleeps (424-425).      *)
LEMMA NotifiedKeeps ==
  ASSUME NEW r \in Records, r.kind = "shell"
  PROVE  /\ LineFor(r) => LineFor(Notified(r))
         /\ \A S, c : IsFiniteSet(S) /\ c \in S /\ WaitFor(r, S)
                        => WaitFor(Notified(r), S \ {c})
<1>1. LineFor(r) => LineFor(Notified(r))
  <2>1. CASE r.at \in {"fgets", "waiting", "waitpid_waiting"}
    <3>1. Notified(r).at # "fork"
      BY <2>1, NotifiedFacts
    <3> QED BY <2>1, <3>1, NotifiedFacts DEF LineFor, Opened
  <2>2. CASE r.at \notin {"fgets", "waiting", "waitpid_waiting"}
    BY <2>2, NotifiedFacts
  <2> QED BY <2>1, <2>2
<1>2. ASSUME NEW S, NEW c, IsFiniteSet(S), c \in S, WaitFor(r, S)
      PROVE  WaitFor(Notified(r), S \ {c})
  <2>1. Cardinality(S) \in Nat /\ Cardinality(S \ {c}) = Cardinality(S) - 1
    BY <1>2, FS_RemoveElement, FS_CardinalityType
  <2>2. CASE r.at \in Waits \ {"waiting", "waitpid_waiting"}
    <3>1. S \ {c} \in SUBSET S /\ r.i \in Nat /\ r.waited \in Nat /\ r.line.num_cmd \in Nat
      BY RecordFacts
    <3>2. WaitFor(r, S \ {c})
      BY <1>2, <3>1, WaitShrinks
    <3> QED BY <2>2, <3>2, NotifiedFacts DEF Waits
  <2>3. CASE r.at = "waiting"
    <3>1. Cardinality(S) + r.waited <= r.line.num_cmd
      BY <1>2, <2>3 DEF WaitFor
    <3>2. Notified(r).at = "wait" /\ Notified(r).waited = r.waited + 1 /\ Notified(r).line = r.line
      BY <2>3, NotifiedFacts
    <3>3. r.waited \in Nat /\ r.line.num_cmd \in Nat
      BY RecordFacts
    <3>4. Cardinality(S \ {c}) + Notified(r).waited <= Notified(r).line.num_cmd
      BY <2>1, <3>1, <3>2, <3>3
    <3> QED BY <3>2, <3>4 DEF WaitFor, Waits
  <2>4. CASE r.at = "waitpid_waiting"
    <3>1. S \subseteq {r.pid}
      BY <1>2, <2>4 DEF WaitFor
    <3>2. S \ {c} = {}
      BY <1>2, <3>1
    <3>3. Notified(r).at = "top"
      BY <2>4, NotifiedFacts
    <3> QED BY <3>2, <3>3 DEF WaitFor, Waits
  <2>5. CASE r.at \notin Waits
    BY <1>2, <2>5 DEF WaitFor
  <2> QED BY <2>2, <2>3, <2>4, <2>5 DEF Waits
<1> QED BY <1>1, <1>2

(* The process a process leaves behind.                                     *)
LEMMA ExitFacts ==
  ASSUME IInv, NEW p \in Process, Exit(p)
  PROVE  /\ Typed' /\ proc'[p] = Free
         /\ \A q \in Process \ {p} :
              /\ proc'[q].kind = proc[q].kind
              /\ q = proc[p].parent => proc'[q] = Notified(proc[q])
              /\ q # proc[p].parent =>
                   proc'[q] = [proc[q] EXCEPT !.parent = proc'[q].parent]
              /\ proc'[q].parent = IF proc[q].parent = p THEN NoProcess ELSE proc[q].parent
<1>1. Typed
  BY DEF IInv
<1>2. Free \in Records /\ proc'[p] = Free
  <2>1. NoLine \in Lines \cup {NoLine} /\ <<>> \in Seq(Pipe) /\ 0 \in 0 .. OPEN_MAX
    BY Numbers
  <2> QED BY <2>1 DEF Free, Records, Labels, Exit
<1>3. ASSUME NEW q \in Process \ {p}
      PROVE  /\ proc'[q] \in Records /\ proc'[q].kind = proc[q].kind
             /\ q = proc[p].parent => proc'[q] = Notified(proc[q])
             /\ q # proc[p].parent =>
                  proc'[q] = [proc[q] EXCEPT !.parent = proc'[q].parent]
             /\ proc'[q].parent = IF proc[q].parent = p THEN NoProcess ELSE proc[q].parent
  <2>1. proc[q] \in Records
    BY <1>1, TypedFacts
  <2>2. CASE q = proc[p].parent
    <3>1. proc[q].parent # p
      BY <2>2, Numbers DEF IInv, FamiliesOK, ParentOf
    <3>2. proc'[q] = Notified(proc[q])
      BY <2>2 DEF Exit
    <3> QED BY <2>1, <2>2, <3>1, <3>2, NotifiedFacts
  <2>3. CASE q # proc[p].parent
    <3>1. CASE proc[q].parent = p
      <4>1. proc'[q] = [proc[q] EXCEPT !.parent = NoProcess] /\ proc'[q].parent = NoProcess
        BY <2>1, <2>3, <3>1 DEF Exit, Records
      <4> QED BY <2>1, <2>3, <3>1, <4>1 DEF Records
    <3>2. CASE proc[q].parent # p
      <4>1. proc'[q] = proc[q] /\ proc[q] = [proc[q] EXCEPT !.parent = proc[q].parent]
        BY <2>1, <2>3, <3>2 DEF Exit, Records
      <4> QED BY <2>1, <2>3, <3>2, <4>1
    <3> QED BY <3>1, <3>2
  <2> QED BY <2>2, <2>3
<1>4. Typed'
  <2>1. \A q \in Process : proc'[q] \in Records
    BY <1>2, <1>3
  <2>2. DOMAIN proc' = Process /\ proc' = [q \in Process |-> proc'[q]]
    BY DEF Exit
  <2> QED BY <2>1, <2>2 DEF Typed
<1> QED BY <1>2, <1>3, <1>4

(* A command ends, or a shell does.                                         *)
LEMMA ExitStep ==
  ASSUME IInv, NEW p \in Process, Exit(p), proc[p].kind \in {"shell", "command"},
         dead' = TRUE \/ (proc[p].kind = "command" /\ dead' = dead)
  PROVE  IInv'
<1>1. Typed /\ Typed' /\ proc'[p] = Free /\ Free.kind = "none" /\ Free.parent = NoProcess
      /\ Free.at = "top" /\ Free.held = {}
  BY ExitFacts DEF IInv, Free
<1>2. ASSUME NEW q \in Process \ {p}
      PROVE  /\ proc'[q].kind = proc[q].kind
             /\ proc'[q].parent = IF proc[q].parent = p THEN NoProcess ELSE proc[q].parent
             /\ proc[q] \in Records
  BY <1>1, ExitFacts, TypedFacts
<1>3. FamiliesOK'
  <2> SUFFICES ASSUME NEW q \in Process PROVE ParentOf(q)'
    BY DEF FamiliesOK
  <2>1. CASE q = p
    BY <1>1, <2>1 DEF ParentOf
  <2>2. CASE q # p
    <3>1. ParentOf(q)
      BY DEF IInv, FamiliesOK
    <3>2. ASSUME proc'[q].parent # NoProcess
          PROVE  proc'[proc'[q].parent].kind = "shell" /\ proc'[proc'[q].parent].parent # q
      <4>1. /\ proc'[q].parent = proc[q].parent /\ proc[q].parent # p
            /\ proc[q].parent \in Process
        BY <1>1, <1>2, <2>2, <3>2, TypedFacts
      <4>2. proc[proc[q].parent].kind = "shell" /\ proc[proc[q].parent].parent # q
        BY <3>1, <3>2, <4>1 DEF ParentOf
      <4> QED BY <1>2, <4>1, <4>2, Numbers
    <3> QED BY <1>2, <2>2, <3>1, <3>2 DEF ParentOf
  <2> QED BY <2>1, <2>2
<1>4. LinesOK'
  <2> SUFFICES ASSUME NEW q \in Process PROVE LineFor(proc'[q])
    BY DEF LinesOK
  <2>1. LineFor(proc[q])
    BY DEF IInv, LinesOK
  <2>2. CASE q = p
    BY <1>1, <2>2 DEF LineFor
  <2>3. CASE q # p /\ q = proc[p].parent
    <3>1. proc[q].kind = "shell" /\ proc'[q] = Notified(proc[q])
      BY <2>3, ExitFacts, Numbers DEF IInv, FamiliesOK, ParentOf
    <3> QED BY <1>2, <2>1, <2>3, <3>1, NotifiedKeeps
  <2>4. CASE q # p /\ q # proc[p].parent
    <3> DEFINE r == proc[q]
               s == proc'[q]
    <3>1. /\ s.kind = r.kind /\ s.at = r.at /\ s.line = r.line /\ s.i = r.i
          /\ s.waited = r.waited /\ s.pipefds = r.pipefds /\ s.held = r.held /\ s.in = r.in
      <4>1. s = [r EXCEPT !.parent = s.parent] /\ r \in Records
        BY <1>2, <2>4, ExitFacts
      <4> HIDE DEF r, s
      <4> QED BY <4>1 DEF Records
    <3> HIDE DEF r, s
    <3>2. LineFor(r) => LineFor(s)
      BY <3>1 DEF LineFor, Opened, StageOf, Piped, PipesOf, FromPipe, ToPipe
    <3> QED BY <2>1, <3>2 DEF r, s
  <2> QED BY <2>2, <2>3, <2>4
<1>5. WaitsOK'
  <2> SUFFICES ASSUME ~dead', NEW q \in Process, proc'[q].kind = "shell"
               PROVE  WaitFor(proc'[q], Stages(q)')
    BY DEF WaitsOK
  <2>1. ~dead /\ proc[p].kind = "command" /\ q # p /\ proc[q].kind = "shell"
    BY <1>1, <1>2
  <2>2. WaitFor(proc[q], Stages(q))
    BY <2>1 DEF IInv, WaitsOK
  <2>3. \A c \in Process : proc[c].parent # p
    BY <2>1, Numbers DEF IInv, FamiliesOK, ParentOf
  <2>4. \A c \in Process \ {p} : c \in Stages(q)' <=> c \in Stages(q)
    BY <1>2, <2>3 DEF Stages, Children
  <2>5. p \notin Stages(q)' /\ Stages(q) \subseteq Process /\ Stages(q)' \subseteq Process
    BY <1>1 DEF Stages, Children
  <2>6. Stages(q)' = Stages(q) \ {p}
    BY <2>4, <2>5
  <2>7. CASE q = proc[p].parent
    <3>1. p \in Stages(q)
      BY <2>1, <2>7 DEF Stages, Children
    <3>2. proc'[q] = Notified(proc[q])
      BY <2>1, <2>7, ExitFacts
    <3>3. IsFiniteSet(Stages(q)) /\ proc[q] \in Records
      BY <1>2, <2>1, StagesFinite
    <3> QED BY <2>1, <2>2, <2>6, <3>1, <3>2, <3>3, NotifiedKeeps
  <2>8. CASE q # proc[p].parent
    <3>1. Stages(q)' = Stages(q)
      BY <2>6, <2>8 DEF Stages, Children
    <3>2. proc'[q] = proc[q]
      BY <2>1, <2>3, <2>8 DEF Exit
    <3> QED BY <2>2, <3>1, <3>2
  <2> QED BY <2>7, <2>8
<1> QED BY <1>1, <1>3, <1>4, <1>5 DEF IInv

-----------------------------------------------------------------------------
(* The steps, one lemma for each action *)

(* What the invariant says of a shell.                                      *)
LEMMA ShellFacts ==
  ASSUME IInv, NEW p \in Process
  PROVE  /\ proc[p] \in Records /\ LineFor(proc[p])
         /\ proc[p].kind = "shell" /\ ~dead => WaitFor(proc[p], Stages(p))
         /\ IsFiniteSet(Stages(p)) /\ Cardinality(Stages(p)) \in Nat
BY TypedFacts, StagesFinite DEF IInv, LinesOK, WaitsOK

(* A shell outside the loop over the commands goes on to another label.     *)
LEMMA LabelStep ==
  ASSUME IInv, NEW p \in Process, proc[p].kind = "shell", proc[p].at # "fork",
         NEW l \in Labels \ {"fork"}, Becomes(p, At(p, l)), dead' = dead,
         ~dead => WaitFor(At(p, l), Stages(p))
  PROVE  IInv'
<1> DEFINE r == At(p, l)
<1>1. proc[p] \in Records /\ LineFor(proc[p])
  BY ShellFacts
<1>2. r = [proc[p] EXCEPT !.at = l]
  BY DEF At
<1>3. r \in Records /\ r.kind = "shell" /\ r.parent = proc[p].parent /\ r.at = l
      /\ r.held = proc[p].held /\ r.in = proc[p].in
  BY <1>1, <1>2 DEF Records
<1>4. LineFor(r)
  BY <1>1, <1>3 DEF LineFor, Opened
<1> HIDE DEF r
<1>5. Becomes(p, r) /\ (~dead => WaitFor(r, Stages(p)))
  BY DEF r
<1> QED BY <1>3, <1>4, <1>5, BecomesStep

(* A shell with nothing to wait for stays one.                              *)
LEMMA NothingToWaitFor ==
  ASSUME IInv, NEW p \in Process, proc[p].kind = "shell", proc[p].at \notin Waits
  PROVE  /\ ~dead => Stages(p) = {}
         /\ proc[p].held = {} /\ proc[p].in = Tty
         /\ \A r : ~dead /\ r.at \notin Waits => WaitFor(r, Stages(p))
<1>1. ~dead => Stages(p) = {}
  BY ShellFacts DEF WaitFor
<1>2. proc[p].held = {} /\ proc[p].in = Tty
  BY ShellFacts DEF LineFor, Opened, Waits
<1> QED BY <1>1, <1>2 DEF WaitFor, Waits

(* The prompt is printed (62-70).                                              *)
LEMMA PromptsStep ==
  ASSUME IInv, NEW p \in Process, Prompts(p)
  PROVE  IInv'
<1>1. /\ proc[p].kind = "shell" /\ proc[p].at = "top" /\ Becomes(p, At(p, "fgets"))
      /\ dead' = dead
  BY DEF Prompts, In, Idle
<1>2. At(p, "fgets").at = "fgets"
  BY <1>1, ShellFacts DEF At, Records
<1>3. ~dead => WaitFor(At(p, "fgets"), Stages(p))
  BY <1>1, <1>2, NothingToWaitFor DEF Waits
<1> QED BY <1>1, <1>3, LabelStep DEF Labels

(* fgets returns NULL at the end of the input (71).                         *)
LEMMA TypeEofStep ==
  ASSUME IInv, NEW p \in Process, TypeEof(p)
  PROVE  IInv'
<1>1. /\ proc[p].kind = "shell" /\ proc[p].at = "fgets" /\ Becomes(p, At(p, "null"))
      /\ dead' = dead
  BY DEF TypeEof, In
<1>2. At(p, "null").at = "null"
  BY <1>1, ShellFacts DEF At, Records
<1>3. ~dead => WaitFor(At(p, "null"), Stages(p))
  BY <1>1, <1>2, NothingToWaitFor DEF Waits
<1> QED BY <1>1, <1>3, LabelStep DEF Labels

(* A line is read and parsed (71-97).                                      *)
LEMMA TypeLineStep ==
  ASSUME IInv, NEW p \in Process, NEW line \in Lines, TypeLine(p, line)
  PROVE  IInv'
<1> DEFINE l == IF line.num_cmd = 0 THEN "top" ELSE IF line.bkgd THEN "background" ELSE "run"
           r == [proc[p] EXCEPT !.line = line, !.at = l]
<1>1. proc[p].kind = "shell" /\ proc[p].at = "fgets" /\ Becomes(p, r) /\ dead' = dead
  BY DEF TypeLine, In
<1>2. proc[p] \in Records /\ l \in {"top", "background", "run"}
  BY ShellFacts
<1> HIDE DEF l
<1>3. r \in Records /\ r.kind = "shell" /\ r.parent = proc[p].parent /\ r.at = l
      /\ r.held = proc[p].held /\ r.in = proc[p].in
  BY <1>1, <1>2 DEF Records, Labels
<1> HIDE DEF r
<1>4. LineFor(r)
  BY <1>1, <1>2, <1>3, NothingToWaitFor DEF LineFor, Waits
<1>5. ~dead => WaitFor(r, Stages(p))
  BY <1>1, <1>2, <1>3, NothingToWaitFor DEF Waits
<1> QED BY <1>1, <1>3, <1>4, <1>5, BecomesStep

(* A shell reads through NULL (73-78).                                         *)
LEMMA CrashStep ==
  ASSUME IInv, NEW p \in Process, Crash(p)
  PROVE  IInv'
BY ExitStep DEF Crash, In

(* A command ends, by itself or before.                  *)
LEMMA EndsStep ==
  ASSUME IInv, NEW p \in Process, Finishes(p) \/ GivesUp(p)
  PROVE  IInv'
<1>1. proc[p].kind = "command" /\ Exit(p) /\ dead' = dead
  BY DEF Finishes, GivesUp, Idle
<1> QED BY <1>1, ExitStep

(* A copy of a process with another parent.                                 *)
LEMMA CopyFacts ==
  ASSUME NEW r \in Records, NEW p \in Process
  PROVE  LET s == [r EXCEPT !.parent = p]
         IN  /\ s \in Records /\ s.kind = r.kind /\ s.parent = p /\ s.at = r.at
             /\ LineFor(r) => LineFor(s)
             /\ \A S : WaitFor(r, S) => WaitFor(s, S)
<1> DEFINE s == [r EXCEPT !.parent = p]
<1>1. /\ s \in Records /\ s.parent = p
      /\ s.kind = r.kind /\ s.at = r.at /\ s.line = r.line /\ s.i = r.i /\ s.pid = r.pid
      /\ s.waited = r.waited /\ s.pipefds = r.pipefds /\ s.held = r.held /\ s.in = r.in
  BY DEF Records
<1> HIDE DEF s
<1>2. LineFor(r) => LineFor(s)
  BY <1>1 DEF LineFor, Opened, StageOf, Piped, PipesOf, FromPipe, ToPipe
<1>3. \A S : WaitFor(r, S) => WaitFor(s, S)
  BY <1>1 DEF WaitFor
<1> QED BY <1>1, <1>2, <1>3 DEF s

(* fork() by a shell: with a process left the copy goes on as said, without  *)
(* one the shell alone.                                                     *)
LEMMA ForksStep ==
  ASSUME IInv, NEW p \in Process, proc[p].kind = "shell", dead' = dead,
         NEW r \in Records, NEW s \in Records, NEW f \in Records, Fork(p, r, s, f),
         r.kind = "shell", r.parent = proc[p].parent, LineFor(r),
         f.kind = "shell", f.parent = proc[p].parent, LineFor(f),
         s.kind \in {"shell", "child", "command"}, LineFor(s),
         ~dead => WaitFor(r, IF s.kind = "shell" THEN Stages(p) ELSE Stages(p) \cup {NewProcess}),
         ~dead /\ s.kind = "shell" => WaitFor(s, {}),
         ~dead => WaitFor(f, Stages(p))
  PROVE  IInv'
<1>1. CASE Unused = {}
  BY <1>1, BecomesStep DEF Fork
<1>2. CASE Unused # {}
  <2> DEFINE c == [s EXCEPT !.parent = p]
  <2>1. proc' = [proc EXCEPT ![p] = r, ![NewProcess] = c]
    BY <1>2 DEF Fork
  <2>2. /\ c \in Records /\ c.kind = s.kind /\ c.parent = p /\ LineFor(c)
        /\ ~dead /\ s.kind = "shell" => WaitFor(c, {})
    BY CopyFacts
  <2> HIDE DEF c
  <2> QED BY <1>2, <2>1, <2>2, ForkStep
<1> QED BY <1>1, <1>2

(* A line in the background (99-113).                                      *)
LEMMA BackgroundStep ==
  ASSUME IInv, NEW p \in Process, Background(p)
  PROVE  IInv'
<1> DEFINE r == At(p, "top")
           s == At(p, "run")
<1>1. proc[p].kind = "shell" /\ proc[p].at = "background" /\ Fork(p, r, s, s) /\ dead' = dead
  BY DEF Background, In, Idle
<1>2. proc[p] \in Records
  BY ShellFacts
<1>3. /\ r \in Records /\ r.kind = "shell" /\ r.parent = proc[p].parent /\ r.at = "top"
      /\ r.held = proc[p].held /\ r.in = proc[p].in
  BY <1>1, <1>2 DEF Records, Labels, At
<1>4. /\ s \in Records /\ s.kind = "shell" /\ s.parent = proc[p].parent /\ s.at = "run"
      /\ s.held = proc[p].held /\ s.in = proc[p].in
  BY <1>1, <1>2 DEF Records, Labels, At
<1> HIDE DEF r, s
<1>5. LineFor(r) /\ LineFor(s)
  BY <1>1, <1>3, <1>4, NothingToWaitFor DEF LineFor, Waits
<1>6. ~dead => WaitFor(r, Stages(p)) /\ WaitFor(s, Stages(p)) /\ WaitFor(s, {})
  BY <1>1, <1>3, <1>4, NothingToWaitFor DEF WaitFor, Waits
<1> QED BY <1>1, <1>3, <1>4, <1>5, <1>6, ForksStep

(* One command without a pipeline (115-232).                                *)
LEMMA RunsOneStep ==
  ASSUME IInv, NEW p \in Process, RunsOne(p)
  PROVE  IInv'
<1> DEFINE r == [proc[p] EXCEPT !.at = "waitpid", !.pid = NewProcess]
           f == [proc[p] EXCEPT !.at = "waitpid", !.pid = AnyChild]
           s == [proc[p] EXCEPT !.kind = "command"]
<1>1. proc[p].kind = "shell" /\ proc[p].at = "run" /\ dead' = dead /\ proc[p] \in Records
  BY ShellFacts DEF RunsOne, In, Idle
<1>2. CASE proc[p].line.redir # {}
  <2>1. Becomes(p, At(p, "top"))
    BY <1>2 DEF RunsOne
  <2>2. At(p, "top").at = "top"
    BY <1>1 DEF At, Records
  <2>3. ~dead => WaitFor(At(p, "top"), Stages(p))
    BY <1>1, <2>2, NothingToWaitFor DEF Waits
  <2> QED BY <1>1, <2>1, <2>3, LabelStep DEF Labels
<1>3. CASE proc[p].line.redir = {}
  <2>1. Fork(p, r, s, f)
    BY <1>3 DEF RunsOne
  <2>2. /\ f \in Records /\ f.kind = "shell" /\ f.parent = proc[p].parent /\ f.at = "waitpid"
        /\ f.held = proc[p].held /\ f.in = proc[p].in
    BY <1>1 DEF Records, Labels
  <2>3. /\ s \in Records /\ s.kind = "command" /\ s.at = "run"
        /\ s.held = proc[p].held /\ s.in = proc[p].in
    BY <1>1 DEF Records
  <2>4. LineFor(f) /\ LineFor(s)
    <3> HIDE DEF f, s
    <3> QED BY <1>1, <2>2, <2>3, NothingToWaitFor DEF LineFor, Waits
  <2>5. ~dead => WaitFor(f, Stages(p))
    <3> HIDE DEF f
    <3> QED BY <1>1, <2>2, NothingToWaitFor, FS_EmptySet DEF WaitFor, Waits
  <2>6. CASE Unused = {}
    <3> HIDE DEF f, r, s
    <3> QED BY <1>1, <2>1, <2>2, <2>4, <2>5, <2>6, BecomesStep DEF Fork
  <2>7. CASE Unused # {}
    <3>1. NewProcess \in Process
      BY <2>7, NewProcessFacts
    <3>2. /\ r \in Records /\ r.kind = "shell" /\ r.parent = proc[p].parent /\ r.at = "waitpid"
          /\ r.held = proc[p].held /\ r.in = proc[p].in /\ r.pid = NewProcess
      BY <1>1, <3>1 DEF Records, Labels
    <3> HIDE DEF f, r, s
    <3>3. LineFor(r)
      BY <1>1, <3>2, NothingToWaitFor DEF LineFor, Waits
    <3>4. ~dead => WaitFor(r, Stages(p) \cup {NewProcess})
      BY <1>1, <3>2, NothingToWaitFor DEF WaitFor, Waits
    <3> QED BY <1>1, <2>1, <2>2, <2>3, <2>4, <2>5, <3>2, <3>3, <3>4, ForksStep
  <2> QED BY <2>6, <2>7
<1> QED BY <1>2, <1>3

(* The shell waits for its command, if that has not ended (234-244).        *)
LEMMA WaitpidStep ==
  ASSUME IInv, NEW p \in Process, Waitpid(p)
  PROVE  IInv'
<1>1. /\ proc[p].kind = "shell" /\ proc[p].at = "waitpid" /\ dead' = dead
      /\ proc[p] \in Records
  BY ShellFacts DEF Waitpid, In, Idle
<1>2. ~dead => Stages(p) \subseteq {proc[p].pid}
  BY <1>1, ShellFacts DEF WaitFor
<1>3. CASE proc[p].pid \in Children(p) \/ (proc[p].pid = AnyChild /\ Children(p) # {})
  <2>1. Becomes(p, At(p, "waitpid_waiting"))
    BY <1>3 DEF Waitpid
  <2>2. At(p, "waitpid_waiting").at = "waitpid_waiting"
        /\ At(p, "waitpid_waiting").pid = proc[p].pid
    BY <1>1 DEF At, Records
  <2>3. ~dead => WaitFor(At(p, "waitpid_waiting"), Stages(p))
    BY <1>2, <2>2 DEF WaitFor, Waits
  <2> QED BY <1>1, <2>1, <2>3, LabelStep DEF Labels
<1>4. CASE ~(proc[p].pid \in Children(p) \/ (proc[p].pid = AnyChild /\ Children(p) # {}))
  <2>1. Becomes(p, At(p, "top"))
    BY <1>4 DEF Waitpid
  <2>2. At(p, "top").at = "top"
    BY <1>1 DEF At, Records
  <2>3. ~dead => Stages(p) = {}
    <3>1. Stages(p) \subseteq Children(p)
      BY DEF Stages
    <3> QED BY <1>2, <1>4, <3>1
  <2>4. ~dead => WaitFor(At(p, "top"), Stages(p))
    BY <2>2, <2>3 DEF WaitFor, Waits
  <2> QED BY <1>1, <2>1, <2>4, LabelStep DEF Labels
<1> QED BY <1>3, <1>4

(* The pipes of a line are opened, or the shell tries for ever (247-264).   *)
LEMMA OpenPipesStep ==
  ASSUME IInv, NEW p \in Process, OpenPipes(p)
  PROVE  IInv'
<1> DEFINE n == proc[p].line.num_cmd - 1
           s == NextPipes(n)
           r == [proc[p] EXCEPT !.at = "fork", !.i = 0, !.waited = 0, !.pipefds = s,
                  !.held = proc[p].held \cup EndsOf({s[k] : k \in 1 .. n}),
                  !.spare = proc[p].spare + 2 * n]
           full == Cardinality(proc[p].held) + proc[p].spare + 4 * n > OPEN_MAX
<1>1. /\ proc[p].kind = "shell" /\ proc[p].at = "run" /\ dead' = dead /\ proc[p] \in Records
      /\ n > 0 /\ n \in Nat /\ Cardinality(FreePipes) >= n
      /\ proc[p].spare \in 0 .. OPEN_MAX
      /\ proc[p].held = {} /\ proc[p].in = Tty
      /\ (~dead => Stages(p) = {})
  <2>1. proc[p].kind = "shell" /\ proc[p].at = "run" /\ dead' = dead /\ proc[p] \in Records
    BY ShellFacts DEF OpenPipes, In, Idle
  <2>2. n > 0 /\ Cardinality(FreePipes) >= n /\ proc[p].line.num_cmd \in Nat
    BY <2>1, RecordFacts DEF OpenPipes
  <2> QED BY <2>1, <2>2, RecordFacts, NothingToWaitFor DEF Waits
<1>2. Cardinality(FreePipes) \in Nat
  <2>1. FreePipes \in SUBSET Pipe
    BY DEF FreePipes
  <2> QED BY <2>1, Numbers, FS_Subset, FS_CardinalityType
<1>3. CASE full
  <2>1. Becomes(p, At(p, "spins"))
    BY <1>3 DEF OpenPipes
  <2>2. At(p, "spins").at = "spins"
    BY <1>1 DEF At, Records
  <2>3. ~dead => WaitFor(At(p, "spins"), Stages(p))
    BY <1>1, <2>2, NothingToWaitFor DEF Waits
  <2> QED BY <1>1, <2>1, <2>3, LabelStep DEF Labels
<1>4. CASE ~full
  <2>1. Becomes(p, r)
    BY <1>4 DEF OpenPipes
  <2>2. /\ s \in [1 .. n -> FreePipes] /\ FreePipes \subseteq Pipe /\ s \in Seq(Pipe) /\ Len(s) = n
        /\ \A k, l \in 1 .. n : s[k] = s[l] => k = l
    <3> HIDE DEF n
    <3> QED BY <1>1, <1>2, FreshPipes
  <2>3. proc[p].spare + 2 * n \in 0 .. OPEN_MAX
    <3>1. Cardinality(proc[p].held) = 0
      BY <1>1, FS_EmptySet
    <3> HIDE DEF n
    <3> QED BY <1>1, <1>4, <3>1, Numbers
  <2> HIDE DEF s
  <2>4. EndsOf({s[k] : k \in 1 .. n}) \subseteq End
    <3> HIDE DEF n
    <3>1. \A k \in 1 .. n : s[k] \in Pipe
      BY <2>2
    <3>2. {s[k] : k \in 1 .. n} \subseteq Pipe
      BY <3>1
    <3> QED BY <3>2 DEF EndsOf, End
  <2>5. /\ r \in Records /\ r.kind = "shell" /\ r.parent = proc[p].parent /\ r.at = "fork"
        /\ r.i = 0 /\ r.waited = 0 /\ r.pipefds = s /\ r.line = proc[p].line /\ r.in = Tty
        /\ r.held = EndsOf({s[k] : k \in 1 .. n})
    <3> DEFINE h == proc[p].held \cup EndsOf({s[k] : k \in 1 .. n})
               m == proc[p].spare + 2 * n
    <3>1. h \subseteq End /\ m \in 0 .. OPEN_MAX /\ h = EndsOf({s[k] : k \in 1 .. n})
      BY <1>1, <2>3, <2>4
    <3> HIDE DEF h, m, n
    <3>2. r = [proc[p] EXCEPT !.at = "fork", !.i = 0, !.waited = 0, !.pipefds = s,
                 !.held = h, !.spare = m]
      BY DEF h, m
    <3> HIDE DEF r
    <3> QED BY <1>1, <2>2, <3>1, <3>2 DEF Records, Labels
  <2> HIDE DEF r
  <2>6. DOMAIN s = 1 .. n
    BY <2>2
  <2>7. LineFor(r)
    <3>1. Piped(r) /\ r.held = EndsOf(PipesOf(r)) /\ r.i <= r.line.num_cmd
      <4>1. PipesOf(r) = {s[k] : k \in 1 .. n}
        BY <2>5, <2>6 DEF PipesOf
      <4>2. r.line.num_cmd \in Nat
        BY <2>5, RecordFacts
      <4>3. Len(r.pipefds) = r.line.num_cmd - 1 /\ r.line.num_cmd >= 2
        BY <1>1, <2>2, <2>5, <4>2
      <4>4. Piped(r)
        BY <2>2, <2>5, <2>6, <4>3 DEF Piped
      <4> QED BY <2>5, <4>1, <4>2, <4>4
    <3> QED BY <2>5, <3>1 DEF LineFor, Opened
  <2>8. ~dead => WaitFor(r, Stages(p))
    BY <1>1, <2>5, FS_EmptySet DEF WaitFor, Waits
  <2> QED BY <1>1, <2>1, <2>5, <2>7, <2>8, BecomesStep
<1> QED BY <1>3, <1>4

(* The next stage of a pipeline is forked (265-413).                        *)
LEMMA ForkNextStep ==
  ASSUME IInv, NEW p \in Process, ForkNext(p)
  PROVE  IInv'
<1> DEFINE r == [proc[p] EXCEPT !.i = proc[p].i + 1]
           s == [proc[p] EXCEPT !.kind = "child"]
<1>1. /\ proc[p].kind = "shell" /\ proc[p].at = "fork" /\ dead' = dead /\ proc[p] \in Records
      /\ proc[p].i < proc[p].line.num_cmd /\ Fork(p, r, s, r)
      /\ proc[p].i \in Nat /\ proc[p].line.num_cmd \in Nat
  BY ShellFacts, RecordFacts DEF ForkNext, In, Idle
<1>2. Opened(proc[p]) /\ proc[p].i <= proc[p].line.num_cmd
  BY <1>1, ShellFacts DEF LineFor
<1>3. /\ r \in Records /\ r.kind = "shell" /\ r.parent = proc[p].parent /\ r.at = "fork"
      /\ r.i = proc[p].i + 1 /\ r.waited = proc[p].waited /\ r.pipefds = proc[p].pipefds
      /\ r.line = proc[p].line /\ r.in = proc[p].in /\ r.held = proc[p].held
  <2> DEFINE m == proc[p].i + 1
  <2>1. m \in Nat
    BY <1>1
  <2> HIDE DEF m
  <2>2. r = [proc[p] EXCEPT !.i = m]
    BY DEF m
  <2> HIDE DEF r
  <2>3. r \in Records /\ r.i = m /\ r.kind = "shell" /\ r.parent = proc[p].parent
        /\ r.at = "fork" /\ r.waited = proc[p].waited /\ r.pipefds = proc[p].pipefds
        /\ r.line = proc[p].line /\ r.in = proc[p].in /\ r.held = proc[p].held
    BY <1>1, <2>1, <2>2 DEF Records
  <2> QED BY <2>3 DEF m
<1>4. /\ s \in Records /\ s.kind = "child" /\ s.at = "fork"
      /\ s.i = proc[p].i /\ s.waited = proc[p].waited /\ s.pipefds = proc[p].pipefds
      /\ s.line = proc[p].line /\ s.in = proc[p].in /\ s.held = proc[p].held
  BY <1>1 DEF Records
<1> HIDE DEF r, s
<1>5. LineFor(r) /\ LineFor(s)
  <2>1. Piped(r) /\ Piped(s) /\ PipesOf(r) = PipesOf(proc[p]) /\ PipesOf(s) = PipesOf(proc[p])
    BY <1>2, <1>3, <1>4 DEF Opened, Piped, PipesOf
  <2>2. Opened(r) /\ Opened(s)
    BY <1>2, <1>3, <1>4, <2>1 DEF Opened
  <2>3. r.i <= r.line.num_cmd /\ s.i < s.line.num_cmd
    BY <1>1, <1>3, <1>4
  <2> QED BY <1>3, <1>4, <2>2, <2>3 DEF LineFor
<1>6. ~dead => WaitFor(r, Stages(p)) /\ WaitFor(r, Stages(p) \cup {NewProcess})
  <2> SUFFICES ASSUME ~dead
               PROVE  WaitFor(r, Stages(p)) /\ WaitFor(r, Stages(p) \cup {NewProcess})
    OBVIOUS
  <2>1. IsFiniteSet(Stages(p)) /\ Cardinality(Stages(p)) \in Nat
        /\ Cardinality(Stages(p)) <= proc[p].i
    BY <1>1, ShellFacts DEF WaitFor
  <2>2. Cardinality(Stages(p) \cup {NewProcess}) <= Cardinality(Stages(p)) + 1
        /\ Cardinality(Stages(p) \cup {NewProcess}) \in Nat
    <3>1. Cardinality(Stages(p) \cup {NewProcess})
            = IF NewProcess \in Stages(p) THEN Cardinality(Stages(p))
              ELSE Cardinality(Stages(p)) + 1
      BY <2>1, FS_AddElement
    <3> QED BY <2>1, <3>1
  <2>3. \A S : Cardinality(S) <= r.i => WaitFor(r, S)
    BY <1>3 DEF WaitFor, Waits
  <2>4. Cardinality(Stages(p)) <= r.i /\ Cardinality(Stages(p) \cup {NewProcess}) <= r.i
    BY <1>1, <1>3, <2>1, <2>2
  <2> QED BY <2>3, <2>4
<1> QED BY <1>1, <1>3, <1>4, <1>5, <1>6, ForksStep

(* The parent of a pipeline closes its ends (415-421).                      *)
LEMMA ForkedAllStep ==
  ASSUME IInv, NEW p \in Process, ForkedAll(p)
  PROVE  IInv'
<1> DEFINE r == [proc[p] EXCEPT !.at = "wait", !.held = ClosedAll(p)]
<1>1. /\ proc[p].kind = "shell" /\ proc[p].at = "fork" /\ dead' = dead /\ proc[p] \in Records
      /\ proc[p].i >= proc[p].line.num_cmd /\ Becomes(p, r)
      /\ proc[p].i \in Nat /\ proc[p].line.num_cmd \in Nat
  BY ShellFacts, RecordFacts DEF ForkedAll, In, Idle
<1>2. Opened(proc[p]) /\ proc[p].i <= proc[p].line.num_cmd
  BY <1>1, ShellFacts DEF LineFor
<1>3. ClosedAll(p) = {}
  BY <1>2 DEF ClosedAll, Opened, PipesOf, ArrayOf
<1>4. /\ r \in Records /\ r.kind = "shell" /\ r.parent = proc[p].parent /\ r.at = "wait"
      /\ r.waited = 0 /\ r.line = proc[p].line /\ r.in = Tty /\ r.held = {}
  <2> HIDE DEF ClosedAll
  <2>1. r = [proc[p] EXCEPT !.at = "wait", !.held = {}]
    BY <1>3
  <2>2. proc[p].waited = 0 /\ proc[p].in = Tty
    BY <1>2 DEF Opened
  <2> HIDE DEF r
  <2> QED BY <1>1, <2>1, <2>2 DEF Records, Labels
<1> HIDE DEF r
<1>5. LineFor(r)
  BY <1>4 DEF LineFor
<1>6. ~dead => WaitFor(r, Stages(p))
  <2>1. ~dead => Cardinality(Stages(p)) <= proc[p].i /\ Cardinality(Stages(p)) \in Nat
    BY <1>1, ShellFacts DEF WaitFor
  <2> QED BY <1>1, <1>2, <1>4, <2>1 DEF WaitFor, Waits
<1> QED BY <1>1, <1>4, <1>5, <1>6, BecomesStep

(* What a stage holds is its own input and output.                          *)
LEMMA KeptFacts ==
  ASSUME IInv, NEW c \in Process, proc[c].kind = "child"
  PROVE  /\ Stdin(c) = FromPipe(proc[c]) /\ Stdout(c) = ToPipe(proc[c])
         /\ Kept(c) = {FromPipe(proc[c]), ToPipe(proc[c])} \ {Tty}
         /\ Stdin(c) \in End \cup {Tty} /\ Kept(c) \subseteq EndsOf(PipesOf(proc[c]))
         /\ EndsOf(PipesOf(proc[c])) \subseteq End
<1>1. /\ Opened(proc[c]) /\ proc[c].i < proc[c].line.num_cmd /\ proc[c] \in Records
      /\ proc[c].i \in Nat /\ proc[c].line.num_cmd \in Nat /\ proc[c].pipefds \in Seq(Pipe)
  BY ShellFacts, RecordFacts DEF LineFor
<1>2. Stdin(c) = FromPipe(proc[c]) /\ Stdout(c) = ToPipe(proc[c])
  BY DEF Stdin, Stdout, FromPipe, ToPipe
<1>3. ClosedAll(c) = {}
  BY <1>1 DEF ClosedAll, Opened, PipesOf, ArrayOf
<1>4. Kept(c) = {FromPipe(proc[c]), ToPipe(proc[c])} \ {Tty}
  BY <1>2, <1>3 DEF Kept
<1> DEFINE f == proc[c].pipefds
           P == PipesOf(proc[c])
<1>5. f \in Seq(Pipe) /\ DOMAIN f = 1 .. Len(f) /\ Len(f) = proc[c].line.num_cmd - 1
  BY <1>1 DEF Opened, Piped
<1>6. \A k \in 1 .. Len(f) : f[k] \in P
  BY <1>5 DEF PipesOf
<1>7. P \subseteq Pipe
  <2>1. \A k \in DOMAIN f : f[k] \in Pipe
    BY <1>5
  <2> QED BY <2>1 DEF PipesOf
<1>8. EndsOf(P) \subseteq End
  <2> HIDE DEF P
  <2> QED BY <1>7 DEF EndsOf, End
<1>9. FromPipe(proc[c]) \in EndsOf(P) \cup {Tty}
  <2>1. CASE proc[c].i = 0
    BY <2>1 DEF FromPipe
  <2>2. CASE proc[c].i # 0
    <3>1. proc[c].i \in 1 .. Len(f)
      BY <1>1, <1>5, <2>2
    <3>2. f[proc[c].i] \in P
      BY <1>6, <3>1
    <3>3. FromPipe(proc[c]) = <<f[proc[c].i], "r">>
      BY <2>2 DEF FromPipe
    <3> HIDE DEF P, f
    <3> QED BY <3>2, <3>3 DEF EndsOf
  <2> QED BY <2>1, <2>2
<1>10. ToPipe(proc[c]) \in EndsOf(P) \cup {Tty}
  <2>1. CASE proc[c].i = proc[c].line.num_cmd - 1
    BY <2>1 DEF ToPipe
  <2>2. CASE proc[c].i # proc[c].line.num_cmd - 1
    <3>1. proc[c].i + 1 \in 1 .. Len(f)
      BY <1>1, <1>5, <2>2
    <3>2. f[proc[c].i + 1] \in P
      BY <1>6, <3>1
    <3>3. ToPipe(proc[c]) = <<f[proc[c].i + 1], "w">>
      BY <2>2 DEF ToPipe
    <3> HIDE DEF P, f
    <3> QED BY <3>2, <3>3 DEF EndsOf
  <2> QED BY <2>1, <2>2
<1> HIDE DEF P
<1>11. Kept(c) \subseteq EndsOf(P) /\ Stdin(c) \in End \cup {Tty}
  BY <1>2, <1>4, <1>8, <1>9, <1>10
<1> QED BY <1>2, <1>4, <1>8, <1>11 DEF P

(* A stage becomes its command, or goes on as a shell (272-406).            *)
LEMMA ChildExecsStep ==
  ASSUME IInv, NEW c \in Process, ChildExecs(c)
  PROVE  IInv'
<1>1. /\ proc[c].kind = "child" /\ dead' = dead /\ proc[c] \in Records
      /\ proc[c].i \in Nat /\ proc[c].line.num_cmd \in Nat
  BY ShellFacts, RecordFacts DEF ChildExecs, Idle
<1>2. Opened(proc[c]) /\ proc[c].i < proc[c].line.num_cmd
  BY <1>1, ShellFacts DEF LineFor
<1>3. CASE Misdirected(c)
  <2> DEFINE r == [proc[c] EXCEPT !.kind = "shell"]
  <2>1. Becomes(c, r)
    BY <1>3 DEF ChildExecs
  <2>2. /\ r \in Records /\ r.kind = "shell" /\ r.parent = proc[c].parent /\ r.at = "fork"
        /\ r.i = proc[c].i /\ r.waited = proc[c].waited /\ r.pipefds = proc[c].pipefds
        /\ r.line = proc[c].line /\ r.in = proc[c].in /\ r.held = proc[c].held
    BY <1>1, <1>2 DEF Records, Opened
  <2> HIDE DEF r
  <2>3. LineFor(r)
    <3>1. Opened(r)
      BY <1>2, <2>2 DEF Opened, Piped, PipesOf
    <3> QED BY <1>1, <1>2, <2>2, <3>1 DEF LineFor
  <2>4. WaitFor(r, {})
    BY <1>1, <2>2, FS_EmptySet DEF WaitFor, Waits
  <2> QED BY <1>1, <2>1, <2>2, <2>3, <2>4, BecomesStep
<1>4. CASE ~Misdirected(c)
  <2> DEFINE r == [proc[c] EXCEPT !.kind = "command", !.in = Stdin(c), !.held = Kept(c)]
  <2>1. Becomes(c, r)
    BY <1>4 DEF ChildExecs
  <2>2. /\ Stdin(c) = FromPipe(proc[c]) /\ Stdout(c) = ToPipe(proc[c])
        /\ Kept(c) = {FromPipe(proc[c]), ToPipe(proc[c])} \ {Tty}
        /\ Stdin(c) \in End \cup {Tty} /\ Kept(c) \subseteq End
    BY <1>1, KeptFacts
  <2>3. /\ r \in Records /\ r.kind = "command" /\ r.parent = proc[c].parent /\ r.at = "fork"
        /\ r.i = proc[c].i /\ r.pipefds = proc[c].pipefds /\ r.line = proc[c].line
        /\ r.in = Stdin(c) /\ r.held = Kept(c)
    <3> DEFINE x == Stdin(c)
               h == Kept(c)
    <3>1. x \in End \cup {Tty} /\ h \subseteq End
      BY <2>2
    <3> HIDE DEF x, h
    <3>2. r = [proc[c] EXCEPT !.kind = "command", !.in = x, !.held = h]
      BY DEF x, h
    <3> HIDE DEF r
    <3>3. /\ r \in Records /\ r.kind = "command" /\ r.parent = proc[c].parent /\ r.at = "fork"
          /\ r.i = proc[c].i /\ r.pipefds = proc[c].pipefds /\ r.line = proc[c].line
          /\ r.in = x /\ r.held = h
      BY <1>1, <1>2, <3>1, <3>2 DEF Records, Opened
    <3> QED BY <3>3 DEF x, h
  <2> HIDE DEF r
  <2>4. FromPipe(r) = FromPipe(proc[c]) /\ ToPipe(r) = ToPipe(proc[c])
    BY <2>3 DEF FromPipe, ToPipe
  <2>5. Piped(r)
    BY <1>2, <2>3 DEF Opened, Piped
  <2>6. LineFor(r)
    <3>1. StageOf(r)
      BY <1>2, <2>2, <2>3, <2>4, <2>5 DEF StageOf
    <3> QED BY <2>3, <3>1 DEF LineFor
  <2> QED BY <1>1, <2>1, <2>3, <2>6, BecomesStep
<1> QED BY <1>3, <1>4

(* The shell calls wait, or has done so often enough (423-433).             *)
LEMMA WaitStep ==
  ASSUME IInv, NEW p \in Process, Wait(p)
  PROVE  IInv'
<1>1. /\ proc[p].kind = "shell" /\ proc[p].at = "wait" /\ dead' = dead /\ proc[p] \in Records
      /\ proc[p].waited \in Nat /\ proc[p].line.num_cmd \in Nat
      /\ proc[p].held = {} /\ proc[p].in = Tty
      /\ IsFiniteSet(Stages(p)) /\ Cardinality(Stages(p)) \in Nat
  <2>1. proc[p].kind = "shell" /\ proc[p].at = "wait" /\ dead' = dead /\ proc[p] \in Records
        /\ LineFor(proc[p]) /\ IsFiniteSet(Stages(p)) /\ Cardinality(Stages(p)) \in Nat
    BY ShellFacts DEF Wait, In, Idle
  <2>2. proc[p].held = {} /\ proc[p].in = Tty
    BY <2>1 DEF LineFor, Opened
  <2> QED BY <2>1, <2>2, RecordFacts
<1>2. ~dead => Cardinality(Stages(p)) + proc[p].waited <= proc[p].line.num_cmd
  BY <1>1, ShellFacts DEF WaitFor
<1>3. CASE WaitedForAll(p)
  <2> DEFINE r == [At(p, "top") EXCEPT !.pipefds = <<>>]
  <2>1. Becomes(p, r)
    BY <1>3 DEF Wait
  <2>2. /\ r \in Records /\ r.kind = "shell" /\ r.parent = proc[p].parent /\ r.at = "top"
        /\ r.held = {} /\ r.in = Tty
    <3>1. At(p, "top") = [proc[p] EXCEPT !.at = "top"]
      BY DEF At
    <3>2. r = [proc[p] EXCEPT !.at = "top", !.pipefds = <<>>]
      BY <3>1
    <3>3. <<>> \in Seq(Pipe)
      OBVIOUS
    <3> HIDE DEF r
    <3> QED BY <1>1, <3>2, <3>3 DEF Records, Labels
  <2> HIDE DEF r
  <2>3. LineFor(r)
    BY <2>2 DEF LineFor
  <2>4. ~dead => Stages(p) = {}
    <3>1. ~dead => Cardinality(Stages(p)) = 0
      BY <1>1, <1>2, <1>3 DEF WaitedForAll
    <3> QED BY <1>1, <3>1, FS_EmptySet
  <2>5. ~dead => WaitFor(r, Stages(p))
    BY <2>2, <2>4 DEF WaitFor, Waits
  <2> QED BY <1>1, <2>1, <2>2, <2>3, <2>5, BecomesStep
<1>4. CASE ~WaitedForAll(p) /\ Children(p) = {}
  <2> DEFINE m == proc[p].waited + 1
             r == [proc[p] EXCEPT !.waited = m]
  <2>1. Becomes(p, r)
    BY <1>4 DEF Wait
  <2>2. m \in Nat /\ m <= proc[p].line.num_cmd
    BY <1>1, <1>4 DEF WaitedForAll
  <2> HIDE DEF m
  <2>3. /\ r \in Records /\ r.kind = "shell" /\ r.parent = proc[p].parent /\ r.at = "wait"
        /\ r.held = {} /\ r.in = Tty /\ r.waited = m /\ r.line = proc[p].line
    BY <1>1, <2>2 DEF Records
  <2> HIDE DEF r
  <2>4. LineFor(r)
    BY <2>3 DEF LineFor
  <2>5. Cardinality(Stages(p)) = 0
    <3>1. Stages(p) = {}
      BY <1>4 DEF Stages
    <3> QED BY <3>1, FS_EmptySet
  <2>6. WaitFor(r, Stages(p))
    BY <1>1, <2>2, <2>3, <2>5 DEF WaitFor, Waits
  <2> QED BY <1>1, <2>1, <2>3, <2>4, <2>6, BecomesStep
<1>5. CASE ~WaitedForAll(p) /\ Children(p) # {}
  <2>1. Becomes(p, At(p, "waiting"))
    BY <1>5 DEF Wait
  <2>2. At(p, "waiting").at = "waiting" /\ At(p, "waiting").waited = proc[p].waited
        /\ At(p, "waiting").line = proc[p].line
    BY <1>1 DEF At, Records
  <2>3. ~dead => WaitFor(At(p, "waiting"), Stages(p))
    BY <1>2, <2>2 DEF WaitFor, Waits
  <2> QED BY <1>1, <2>1, <2>3, LabelStep DEF Labels
<1> QED BY <1>3, <1>4, <1>5

-----------------------------------------------------------------------------
(* The theorems *)

(* The invariant holds of the terminal's first shell.                       *)
LEMMA Initially ==
  ASSUME Init
  PROVE  IInv
<1> DEFINE first == [Free EXCEPT !.kind = "shell"]
<1>1. Free \in Records
  <2>1. NoLine \in Lines \cup {NoLine} /\ <<>> \in Seq(Pipe) /\ 0 \in 0 .. OPEN_MAX
    BY Numbers
  <2> QED BY <2>1 DEF Free, Records, Labels
<1>2. /\ Free.kind = "none" /\ Free.at = "top" /\ Free.held = {} /\ Free.in = Tty
      /\ Free.parent = NoProcess
  BY DEF Free
<1>3. /\ first \in Records /\ first.kind = "shell" /\ first.at = "top" /\ first.held = {}
      /\ first.in = Tty /\ first.parent = NoProcess
  BY <1>1, <1>2 DEF Records
<1> HIDE DEF first
<1>4. \A p \in Process : proc[p] = IF p = First THEN first ELSE Free
  BY DEF Init, first
<1>5. Typed
  <2>1. proc = [p \in Process |-> IF p = First THEN first ELSE Free]
    BY DEF Init, first
  <2> QED BY <1>1, <1>3, <2>1 DEF Typed
<1>6. FamiliesOK
  BY <1>2, <1>3, <1>4 DEF FamiliesOK, ParentOf
<1>7. LinesOK
  BY <1>2, <1>3, <1>4 DEF LinesOK, LineFor
<1>8. WaitsOK
  <2>1. \A p \in Process : Stages(p) = {}
    BY <1>2, <1>3, <1>4, Numbers DEF Stages, Children
  <2>2. \A p \in Process : proc[p].at = "top"
    BY <1>2, <1>3, <1>4
  <2> QED BY <2>1, <2>2 DEF WaitsOK, WaitFor, Waits
<1> QED BY <1>5, <1>6, <1>7, <1>8 DEF IInv

(* Every step keeps it: one lemma for each action.                          *)
LEMMA Inductive ==
  ASSUME IInv, [Next]_vars
  PROVE  IInv'
<1>1. ASSUME UNCHANGED vars PROVE IInv'
  BY <1>1 DEF vars, IInv, Typed, FamiliesOK, ParentOf, LinesOK, WaitsOK, Stages, Children
<1>2. ASSUME NEW p \in Process, Runs(p) PROVE IInv'
  BY <1>2, PromptsStep, CrashStep, BackgroundStep, RunsOneStep, WaitpidStep, OpenPipesStep,
     ForkNextStep, ForkedAllStep, ChildExecsStep, WaitStep, EndsStep DEF Runs
<1>3. ASSUME NEW p \in Process, GivesUp(p) PROVE IInv'
  BY <1>3, EndsStep
<1>4. ASSUME NEW p \in Process, NEW line \in Lines, TypeLine(p, line) PROVE IInv'
  BY <1>4, TypeLineStep
<1>5. ASSUME NEW p \in Process, TypeEof(p) PROVE IInv'
  BY <1>5, TypeEofStep
<1> QED BY <1>1, <1>2, <1>3, <1>4, <1>5 DEF Next

(* In every reachable state only shells have children, each process holds   *)
(* the ends that its place in its line calls for, and a shell still makes   *)
(* at least as many calls of wait as it has stages left, until a shell dies *)
(* (43-46, 234-244, 265-433).                                               *)
THEOREM Invariance == Spec => []IInv
<1>1. Init => IInv
  BY Initially
<1>2. IInv /\ [Next]_vars => IInv'
  BY Inductive
<1> QED BY <1>1, <1>2, PTL DEF Spec

(* Every process keeps its type: no stage is forked beyond the last, and no *)
(* more pipes are open than descriptors (247-264, 265-413).                 *)
THEOREM TypeCorrect == Spec => []ShellTypeOK
<1>1. ASSUME IInv PROVE ShellTypeOK
  <2> SUFFICES ASSUME NEW p \in Process
               PROVE  LET r == proc[p]
                      IN  /\ r \in Records
                          /\ r.at = "fork" => r.i <= r.line.num_cmd
    BY DEF ShellTypeOK, Records, Labels
  <2>1. proc[p] \in Records /\ LineFor(proc[p]) /\ proc[p].i \in Nat
        /\ proc[p].line.num_cmd \in Nat /\ proc[p].kind \in {"none", "shell", "child", "command"}
    BY <1>1, ShellFacts, RecordFacts
  <2>2. proc[p].at = "fork" => proc[p].i <= proc[p].line.num_cmd
    BY <2>1 DEF LineFor, StageOf
  <2> QED BY <2>1, <2>2
<1> QED BY <1>1, Invariance, PTL

(* A shell comes back to its prompt only when no stage of its line is left: *)
(* whichever of its children end first, and whether they end before wait or *)
(* during it (234-244, 423-433).                                            *)
THEOREM ForegroundWaitedAlways == Spec => []ForegroundWaited
<1>1. ASSUME IInv PROVE ForegroundWaited
  <2> SUFFICES ASSUME ~dead, NEW p \in Process, AtPrompt(p), NEW c \in Children(p)
               PROVE  proc[c].kind = "shell"
    BY DEF ForegroundWaited
  <2>1. Stages(p) = {}
    BY <1>1, NothingToWaitFor DEF AtPrompt, Waits
  <2> QED BY <2>1 DEF Stages, Children
<1> QED BY <1>1, Invariance, PTL

-----------------------------------------------------------------------------
(* The ends of pipes *)

(* Which of the two is named first does not matter.                         *)
LEMMA ApartSymmetric ==
  ASSUME NEW r, NEW s
  PROVE  Apart(r, s) <=> Apart(s, r)
<1>1. r.held \cap s.held = s.held \cap r.held
  OBVIOUS
<1>2. OnePipeline(r, s) <=> OnePipeline(s, r)
  BY DEF OnePipeline
<1> QED BY <1>1, <1>2 DEF Apart

(* Outside the loop over the commands a process holds no end of a pipe, but *)
(* for the commands of a pipeline.                                          *)
LEMMA HoldsNone ==
  ASSUME NEW r, LineFor(r), r.kind \in {"none", "shell", "child", "command"}, r.at # "fork"
  PROVE  r.held = {}
BY DEF LineFor, Opened, StageOf

SameEnds(r, s) == s.held = r.held /\ s.pipefds = r.pipefds /\ s.i = r.i /\ s.kind = r.kind

(* A step after which each process is out of the loop, or holds what it held. *)
LEMMA QuietEnds ==
  ASSUME IInv', EndsApart,
         \A q \in Process : proc'[q].at # "fork" \/ SameEnds(proc[q], proc'[q])
  PROVE  EndsApart'
<1> SUFFICES ASSUME NEW p \in Process, NEW q \in Process, p # q
             PROVE  Apart(proc'[p], proc'[q])
  BY DEF EndsApart
<1>1. ASSUME NEW x \in Process, proc'[x].at # "fork" PROVE proc'[x].held = {}
  <2>1. proc'[x] \in Records /\ LineFor(proc'[x])
    BY DEF IInv, Typed, LinesOK
  <2> QED BY <1>1, <2>1, RecordFacts, HoldsNone
<1>2. CASE proc'[p].at # "fork" \/ proc'[q].at # "fork"
  BY <1>1, <1>2 DEF Apart
<1>3. CASE SameEnds(proc[p], proc'[p]) /\ SameEnds(proc[q], proc'[q])
  <2>1. Apart(proc[p], proc[q])
    BY DEF EndsApart
  <2> QED BY <1>3, <2>1 DEF Apart, OnePipeline, SameEnds
<1> QED BY <1>2, <1>3

(* One process goes on, out of the loop.                                    *)
LEMMA QuietBecomes ==
  ASSUME IInv, IInv', EndsApart, NEW p \in Process, NEW r, Becomes(p, r), r.at # "fork"
  PROVE  EndsApart'
<1>1. \A q \in Process : proc'[q].at # "fork" \/ SameEnds(proc[q], proc'[q])
  BY DEF IInv, Typed, Becomes, SameEnds
<1> QED BY <1>1, QuietEnds

(* A process forks, and neither is in the loop.                             *)
LEMMA QuietFork ==
  ASSUME IInv, IInv', EndsApart, NEW p \in Process, NEW r, NEW s \in Records, NEW f,
         Fork(p, r, s, f), r.at # "fork", s.at # "fork", f.at # "fork"
  PROVE  EndsApart'
<1>1. CASE Unused = {}
  BY <1>1, QuietBecomes DEF Fork
<1>2. CASE Unused # {}
  <2> DEFINE c == [s EXCEPT !.parent = p]
  <2>1. proc' = [proc EXCEPT ![p] = r, ![NewProcess] = c] /\ c.at = s.at
    BY <1>2 DEF Fork, Records
  <2> HIDE DEF c
  <2>2. \A q \in Process : proc'[q] = proc[q] \/ proc'[q] = r \/ proc'[q] = c
    BY <2>1 DEF IInv, Typed
  <2>3. \A q \in Process : proc'[q].at # "fork" \/ SameEnds(proc[q], proc'[q])
    BY <2>1, <2>2 DEF SameEnds
  <2> QED BY <2>3, QuietEnds
<1> QED BY <1>1, <1>2

(* A process ends.                                                          *)
LEMMA QuietExit ==
  ASSUME IInv, IInv', EndsApart, NEW p \in Process, Exit(p)
  PROVE  EndsApart'
<1> SUFFICES ASSUME NEW q \in Process
             PROVE  proc'[q].at # "fork" \/ SameEnds(proc[q], proc'[q])
  BY QuietEnds
<1>1. CASE q = p
  BY <1>1, ExitFacts DEF Free
<1>2. CASE q # p /\ q = proc[p].parent
  <2>1. proc'[q] = Notified(proc[q]) /\ proc[q] \in Records
    BY <1>2, ExitFacts, TypedFacts DEF IInv
  <2> QED BY <2>1, NotifiedFacts DEF SameEnds
<1>3. CASE q # p /\ q # proc[p].parent
  <2> DEFINE r == proc[q]
             s == proc'[q]
  <2>1. s = [r EXCEPT !.parent = s.parent] /\ r \in Records
    BY <1>3, ExitFacts, TypedFacts DEF IInv
  <2> HIDE DEF r, s
  <2>2. SameEnds(r, s)
    BY <2>1 DEF SameEnds, Records
  <2> QED BY <2>2 DEF r, s
<1> QED BY <1>1, <1>2, <1>3

(* The pipes a shell opens are held by nobody (247-264).                    *)
LEMMA OpenPipesApart ==
  ASSUME IInv, IInv', EndsApart, NEW p \in Process, OpenPipes(p)
  PROVE  EndsApart'
<1> DEFINE n == proc[p].line.num_cmd - 1
           s == NextPipes(n)
           S == {s[k] : k \in 1 .. n}
<1>1. /\ proc[p] \in Records /\ n \in Nat /\ n <= Cardinality(FreePipes)
      /\ proc[p].held = {}
  <2>1. proc[p].kind = "shell" /\ proc[p].at = "run" /\ proc[p] \in Records
    BY ShellFacts DEF OpenPipes, In
  <2>2. n > 0 /\ Cardinality(FreePipes) >= n /\ proc[p].line.num_cmd \in Nat
    BY <2>1, RecordFacts DEF OpenPipes
  <2>3. Cardinality(FreePipes) \in Nat
    <3>1. FreePipes \in SUBSET Pipe
      BY DEF FreePipes
    <3> QED BY <3>1, Numbers, FS_Subset, FS_CardinalityType
  <2> QED BY <2>1, <2>2, <2>3, NothingToWaitFor DEF Waits
<1>2. PICK r : /\ Becomes(p, r) /\ proc'[p] = r
               /\ r.at # "fork" \/ r.held = EndsOf(S)
  <2>1. CASE Becomes(p, At(p, "spins"))
    <3>1. At(p, "spins").at = "spins"
      BY <1>1 DEF At, Records
    <3> QED BY <2>1, <3>1 DEF Becomes, IInv, Typed
  <2>2. CASE Becomes(p, [proc[p] EXCEPT !.at = "fork", !.i = 0, !.waited = 0, !.pipefds = s,
                          !.held = proc[p].held \cup EndsOf(S), !.spare = proc[p].spare + 2 * n])
    <3> DEFINE h == proc[p].held \cup EndsOf(S)
               m == proc[p].spare + 2 * n
               r == [proc[p] EXCEPT !.at = "fork", !.i = 0, !.waited = 0, !.pipefds = s,
                       !.held = h, !.spare = m]
    <3>1. h = EndsOf(S)
      BY <1>1
    <3>2. Becomes(p, r)
      BY <2>2
    <3> HIDE DEF h, m, n, s, S
    <3>3. r.held = h
      BY <1>1 DEF Records
    <3> HIDE DEF r
    <3> QED BY <3>1, <3>2, <3>3 DEF Becomes, IInv, Typed
  <2> QED BY <2>1, <2>2 DEF OpenPipes
<1>3. CASE r.at # "fork"
  BY <1>2, <1>3, QuietBecomes
<1>4. CASE r.held = EndsOf(S)
  <2>1. S \subseteq FreePipes
    <3>1. \A k \in 1 .. n : s[k] \in FreePipes
      <4> HIDE DEF n
      <4> QED BY <1>1, FreshPipes
    <3> QED BY <3>1
  <2> HIDE DEF S
  <2>2. ASSUME NEW q \in Process PROVE EndsOf(S) \cap proc[q].held = {}
    <3> SUFFICES ASSUME NEW e \in EndsOf(S), e \in proc[q].held PROVE FALSE
      OBVIOUS
    <3>1. PICK k \in S, d \in {"r", "w"} : e = <<k, d>>
      BY DEF EndsOf
    <3>2. EndsOf({k}) \cap proc[q].held = {}
      BY <2>1, <3>1 DEF FreePipes
    <3>3. e \in EndsOf({k})
      BY <3>1 DEF EndsOf
    <3> QED BY <3>2, <3>3
  <2>3. \A q \in Process \ {p} : proc'[q] = proc[q]
    BY <1>2 DEF Becomes, IInv, Typed
  <2>4. ASSUME NEW q \in Process \ {p} PROVE Apart(proc'[p], proc'[q])
    <3>1. proc'[p].held \cap proc'[q].held = {}
      BY <1>2, <1>4, <2>2, <2>3
    <3> QED BY <3>1 DEF Apart
  <2>5. ASSUME NEW x \in Process \ {p}, NEW y \in Process \ {p}, x # y
        PROVE  Apart(proc'[x], proc'[y])
    BY <2>3, <2>5 DEF EndsApart
  <2> QED BY <2>4, <2>5, ApartSymmetric DEF EndsApart
<1> QED BY <1>2, <1>3, <1>4

(* A stage gets the pipes of its shell and the next number (265-413).       *)
LEMMA ForkNextApart ==
  ASSUME IInv, IInv', EndsApart, NEW p \in Process, ForkNext(p)
  PROVE  EndsApart'
<1> DEFINE m == proc[p].i + 1
           r == [proc[p] EXCEPT !.i = m]
           s == [proc[p] EXCEPT !.kind = "child"]
           c == [s EXCEPT !.parent = p]
           n == NewProcess
<1>1. proc[p].kind = "shell" /\ proc[p] \in Records /\ proc[p].i \in Nat /\ Fork(p, r, s, r)
  BY ShellFacts, RecordFacts DEF ForkNext, In
<1>2. m > proc[p].i /\ m \in Nat
  BY <1>1
<1> HIDE DEF m
<1>3. /\ r.held = proc[p].held /\ r.pipefds = proc[p].pipefds /\ r.i = m /\ r.kind = "shell"
      /\ c.held = proc[p].held /\ c.pipefds = proc[p].pipefds /\ c.i = proc[p].i
      /\ c.kind = "child"
  BY <1>1, <1>2 DEF Records
<1>4. CASE Unused = {}
  <2>1. proc'[p] = r /\ \A q \in Process \ {p} : proc'[q] = proc[q]
    BY <1>1, <1>4 DEF Fork, Becomes, IInv, Typed
  <2> HIDE DEF r, s, c
  <2>2. ASSUME NEW q \in Process \ {p} PROVE Apart(r, proc[q])
    <3>1. Apart(proc[p], proc[q]) /\ proc[q].i \in Nat
      BY TypedFacts, RecordFacts DEF EndsApart, IInv
    <3> QED BY <1>1, <1>2, <1>3, <3>1 DEF Apart, OnePipeline
  <2>3. ASSUME NEW x \in Process \ {p}, NEW y \in Process \ {p}, x # y
        PROVE  Apart(proc'[x], proc'[y])
    BY <2>1, <2>3 DEF EndsApart
  <2> QED BY <2>1, <2>2, <2>3, ApartSymmetric DEF EndsApart
<1>5. CASE Unused # {}
  <2>1. n \in Process /\ proc[n].kind = "none" /\ n # p
    BY <1>1, <1>5, NewProcessFacts
  <2>2. proc' = [proc EXCEPT ![p] = r, ![n] = c]
    BY <1>1, <1>5 DEF Fork
  <2> HIDE DEF r, s, c, n
  <2>3. proc'[p] = r /\ proc'[n] = c /\ \A q \in Process \ {p, n} : proc'[q] = proc[q]
    BY <2>1, <2>2 DEF IInv, Typed
  <2>4. ASSUME NEW q \in Process \ {p, n} PROVE Apart(r, proc[q]) /\ Apart(c, proc[q])
    <3>1. Apart(proc[p], proc[q]) /\ proc[q].i \in Nat
      BY TypedFacts, RecordFacts DEF EndsApart, IInv
    <3>2. CASE proc[p].held \cap proc[q].held = {}
      BY <1>3, <3>2 DEF Apart
    <3>3. CASE OnePipeline(proc[p], proc[q])
      <4>1. proc[q].pipefds = proc[p].pipefds /\ proc[q].kind # "shell" /\ proc[q].i < proc[p].i
        BY <1>1, <3>3 DEF OnePipeline
      <4>2. OnePipeline(r, proc[q])
        BY <1>1, <1>2, <1>3, <3>1, <4>1 DEF OnePipeline
      <4>3. OnePipeline(c, proc[q])
        BY <1>1, <1>3, <3>1, <4>1 DEF OnePipeline
      <4> QED BY <4>2, <4>3 DEF Apart
    <3> QED BY <3>1, <3>2, <3>3 DEF Apart
  <2>5. Apart(r, c)
    BY <1>2, <1>3 DEF Apart, OnePipeline
  <2>6. ASSUME NEW x \in Process \ {p, n}, NEW y \in Process \ {p, n}, x # y
        PROVE  Apart(proc'[x], proc'[y])
    BY <2>3, <2>6 DEF EndsApart
  <2>7. \A q \in Process \ {p, n} : Apart(proc'[p], proc'[q]) /\ Apart(proc'[n], proc'[q])
    BY <2>3, <2>4
  <2>8. Apart(proc'[p], proc'[n])
    BY <2>3, <2>5
  <2>9. ASSUME NEW x \in Process, NEW y \in Process, x # y PROVE Apart(proc'[x], proc'[y])
    BY <2>6, <2>7, <2>8, <2>9, ApartSymmetric
  <2> QED BY <2>9 DEF EndsApart
<1> QED BY <1>4, <1>5

(* A command keeps two ends of those its stage had (272-406).               *)
LEMMA ChildExecsApart ==
  ASSUME OneRedirection, IInv, IInv', EndsApart, NEW c \in Process, ChildExecs(c)
  PROVE  EndsApart'
<1>1. /\ proc[c].kind = "child" /\ proc[c] \in Records /\ Opened(proc[c])
      /\ proc[c].line \in Lines \cup {NoLine} /\ proc[c].line.num_cmd \in Nat
  <2>1. proc[c].kind = "child" /\ proc[c] \in Records /\ LineFor(proc[c])
    BY ShellFacts DEF ChildExecs
  <2> QED BY <2>1, RecordFacts DEF LineFor
<1>2. proc[c].line.redir = {}
  BY <1>1 DEF OneRedirection, Opened, Piped, NoLine
<1> DEFINE r == [proc[c] EXCEPT !.kind = "command", !.in = Stdin(c), !.held = Kept(c)]
<1>3. Becomes(c, r)
  BY <1>2 DEF ChildExecs, Misdirected
<1>4. Kept(c) \subseteq proc[c].held
  BY <1>1, KeptFacts DEF Opened
<1>5. r.held = Kept(c) /\ r.pipefds = proc[c].pipefds /\ r.i = proc[c].i /\ r.kind = "command"
  BY <1>1 DEF Records
<1> HIDE DEF r
<1>6. proc'[c] = r /\ \A q \in Process \ {c} : proc'[q] = proc[q]
  BY <1>3 DEF Becomes, IInv, Typed
<1>7. ASSUME NEW q \in Process \ {c} PROVE Apart(r, proc[q])
  <2>1. Apart(proc[c], proc[q])
    BY DEF EndsApart
  <2>2. CASE proc[c].held \cap proc[q].held = {}
    BY <1>4, <1>5, <2>2 DEF Apart
  <2>3. CASE OnePipeline(proc[c], proc[q])
    <3>1. OnePipeline(r, proc[q])
      BY <1>1, <1>5, <2>3 DEF OnePipeline
    <3> QED BY <3>1 DEF Apart
  <2> QED BY <2>1, <2>2, <2>3 DEF Apart
<1>8. ASSUME NEW x \in Process \ {c}, NEW y \in Process \ {c}, x # y
      PROVE  Apart(proc'[x], proc'[y])
  BY <1>6, <1>8 DEF EndsApart
<1> QED BY <1>6, <1>7, <1>8, ApartSymmetric DEF EndsApart

(* Every step keeps the processes apart.                                    *)
LEMMA ApartInductive ==
  ASSUME OneRedirection, IInv, IInv', EndsApart, [Next]_vars
  PROVE  EndsApart'
<1>1. ASSUME UNCHANGED vars PROVE EndsApart'
  BY <1>1 DEF vars, EndsApart
<1>2. ASSUME NEW p \in Process, NEW l \in Labels \ {"fork"}, Becomes(p, At(p, l)) PROVE EndsApart'
  <2>1. At(p, l).at = l
    BY ShellFacts DEF At, Records
  <2> QED BY <1>2, <2>1, QuietBecomes
<1>3. ASSUME NEW p \in Process, Prompts(p) \/ TypeEof(p) PROVE EndsApart'
  <2>1. Becomes(p, At(p, "fgets")) \/ Becomes(p, At(p, "null"))
    BY <1>3 DEF Prompts, TypeEof
  <2> QED BY <1>2, <2>1 DEF Labels
<1>4. ASSUME NEW p \in Process, NEW line \in Lines, TypeLine(p, line) PROVE EndsApart'
  <2> DEFINE l == IF line.num_cmd = 0 THEN "top" ELSE IF line.bkgd THEN "background" ELSE "run"
             r == [proc[p] EXCEPT !.line = line, !.at = l]
  <2>1. Becomes(p, r)
    BY <1>4 DEF TypeLine
  <2>2. l # "fork"
    OBVIOUS
  <2> HIDE DEF l
  <2>3. r.at = l
    BY ShellFacts DEF Records
  <2> HIDE DEF r
  <2> QED BY <2>1, <2>2, <2>3, QuietBecomes
<1>5. ASSUME NEW p \in Process, Crash(p) \/ Finishes(p) \/ GivesUp(p) PROVE EndsApart'
  BY <1>5, QuietExit DEF Crash, Finishes, GivesUp
<1>6. ASSUME NEW p \in Process, Background(p) PROVE EndsApart'
  <2>1. Fork(p, At(p, "top"), At(p, "run"), At(p, "run"))
    BY <1>6 DEF Background
  <2>2. At(p, "top").at = "top" /\ At(p, "run").at = "run" /\ At(p, "run") \in Records
    BY ShellFacts DEF At, Records, Labels
  <2> QED BY <2>1, <2>2, QuietFork
<1>7. ASSUME NEW p \in Process, RunsOne(p) PROVE EndsApart'
  <2> DEFINE r == [proc[p] EXCEPT !.at = "waitpid", !.pid = NewProcess]
             f == [proc[p] EXCEPT !.at = "waitpid", !.pid = AnyChild]
             s == [proc[p] EXCEPT !.kind = "command"]
  <2>1. proc[p] \in Records /\ proc[p].at = "run"
    BY <1>7, ShellFacts DEF RunsOne, In
  <2>2. Becomes(p, At(p, "top")) \/ Fork(p, r, s, f)
    BY <1>7 DEF RunsOne
  <2>3. r.at = "waitpid" /\ f.at = "waitpid" /\ s.at = "run" /\ s \in Records
    BY <2>1 DEF Records
  <2> HIDE DEF r, s, f
  <2> QED BY <1>2, <2>2, <2>3, QuietFork DEF Labels
<1>8. ASSUME NEW p \in Process, Waitpid(p) PROVE EndsApart'
  <2>1. Becomes(p, At(p, "waitpid_waiting")) \/ Becomes(p, At(p, "top"))
    BY <1>8 DEF Waitpid
  <2> QED BY <1>2, <2>1 DEF Labels
<1>9. ASSUME NEW p \in Process, ForkedAll(p) PROVE EndsApart'
  <2> DEFINE r == [proc[p] EXCEPT !.at = "wait", !.held = ClosedAll(p)]
  <2>1. Becomes(p, r) /\ r.at = "wait"
    BY <1>9, ShellFacts DEF ForkedAll, Records
  <2> HIDE DEF r
  <2> QED BY <2>1, QuietBecomes
<1>10. ASSUME NEW p \in Process, Wait(p) PROVE EndsApart'
  <2> DEFINE r == [At(p, "top") EXCEPT !.pipefds = <<>>]
             s == [proc[p] EXCEPT !.waited = proc[p].waited + 1]
  <2>1. Becomes(p, r) \/ Becomes(p, s) \/ Becomes(p, At(p, "waiting"))
    BY <1>10 DEF Wait
  <2>2. r.at = "top" /\ s.at = "wait"
    BY <1>10, ShellFacts DEF At, Records, Wait, In
  <2> HIDE DEF r, s
  <2> QED BY <1>2, <2>1, <2>2, QuietBecomes DEF Labels
<1>11. ASSUME NEW p \in Process, Runs(p) PROVE EndsApart'
  BY <1>3, <1>5, <1>6, <1>7, <1>8, <1>9, <1>10, <1>11, OpenPipesApart, ForkNextApart,
     ChildExecsApart DEF Runs
<1> QED BY <1>1, <1>3, <1>4, <1>5, <1>11 DEF Next

(* Two stages of one pipeline hold different ends, and a stage does not     *)
(* write to what it reads.                                                  *)
LEMMA StagesApart ==
  ASSUME NEW r \in Records, StageOf(r)
  PROVE  /\ r.in # Tty => <<r.in[1], "w">> \notin r.held
         /\ \A s \in Records : StageOf(s) /\ s.pipefds = r.pipefds /\ s.i # r.i
              => r.held \cap s.held = {}
<1> DEFINE f == r.pipefds
           n == r.line.num_cmd
<1>1. n \in Nat /\ f \in Seq(Pipe) /\ DOMAIN f = 1 .. n - 1 /\ r.i \in Nat /\ r.i < n
      /\ \A k, l \in DOMAIN f : f[k] = f[l] => k = l
  BY RecordFacts DEF StageOf, Piped
<1>2. \A e \in r.held : \/ r.i \in DOMAIN f /\ e = <<f[r.i], "r">>
                        \/ r.i + 1 \in DOMAIN f /\ e = <<f[r.i + 1], "w">>
  <2>1. \A e \in r.held : e # Tty /\ (e = FromPipe(r) \/ e = ToPipe(r))
    BY DEF StageOf
  <2>2. FromPipe(r) # Tty => r.i \in DOMAIN f /\ FromPipe(r) = <<f[r.i], "r">>
    BY <1>1 DEF FromPipe
  <2>3. ToPipe(r) # Tty => r.i + 1 \in DOMAIN f /\ ToPipe(r) = <<f[r.i + 1], "w">>
    BY <1>1 DEF ToPipe
  <2> QED BY <2>1, <2>2, <2>3
<1>3. ASSUME r.in # Tty PROVE <<r.in[1], "w">> \notin r.held
  <2>1. r.i \in DOMAIN f /\ r.in = <<f[r.i], "r">>
    BY <1>1, <1>3 DEF StageOf, FromPipe
  <2>2. r.in[1] = f[r.i]
    BY <2>1
  <2>3. ASSUME <<f[r.i], "w">> \in r.held PROVE FALSE
    <3>1. r.i + 1 \in DOMAIN f /\ f[r.i] = f[r.i + 1]
      BY <1>2, <2>3
    <3>2. r.i = r.i + 1
      BY <1>1, <2>1, <3>1
    <3> QED BY <1>1, <3>2
  <2> QED BY <2>2, <2>3
<1>4. ASSUME NEW s \in Records, StageOf(s), s.pipefds = f, s.i # r.i PROVE r.held \cap s.held = {}
  <2>1. /\ s.i \in Nat /\ s.line.num_cmd \in Nat /\ s.i < s.line.num_cmd
        /\ DOMAIN s.pipefds = 1 .. s.line.num_cmd - 1
    BY <1>4, RecordFacts DEF StageOf, Piped
  <2>2. \A e \in s.held : \/ s.i \in DOMAIN f /\ e = <<f[s.i], "r">>
                          \/ s.i + 1 \in DOMAIN f /\ e = <<f[s.i + 1], "w">>
    <3>1. \A e \in s.held : e # Tty /\ (e = FromPipe(s) \/ e = ToPipe(s))
      BY <1>4 DEF StageOf
    <3>2. FromPipe(s) # Tty => s.i \in DOMAIN f /\ FromPipe(s) = <<f[s.i], "r">>
      BY <1>4, <2>1 DEF FromPipe
    <3>3. ToPipe(s) # Tty => s.i + 1 \in DOMAIN f /\ ToPipe(s) = <<f[s.i + 1], "w">>
      BY <1>4, <2>1 DEF ToPipe
    <3> QED BY <3>1, <3>2, <3>3
  <2> SUFFICES ASSUME NEW e, e \in r.held, e \in s.held PROVE FALSE
    OBVIOUS
  <2>3. CASE r.i \in DOMAIN f /\ e = <<f[r.i], "r">>
    <3>1. s.i \in DOMAIN f /\ f[s.i] = f[r.i]
      BY <2>2, <2>3
    <3> QED BY <1>1, <1>4, <2>3, <3>1
  <2>4. CASE r.i + 1 \in DOMAIN f /\ e = <<f[r.i + 1], "w">>
    <3>1. s.i + 1 \in DOMAIN f /\ f[s.i + 1] = f[r.i + 1]
      BY <2>2, <2>4
    <3>2. s.i + 1 = r.i + 1
      BY <1>1, <2>4, <3>1
    <3> QED BY <1>1, <1>4, <2>1, <3>2
  <2> QED BY <1>2, <2>3, <2>4
<1> QED BY <1>3, <1>4

(* Processes that hold one end of a pipe are the shell of one pipeline and  *)
(* different stages of it (265-421).                                        *)
THEOREM EndsInvariance == OneRedirection /\ Spec => []EndsApart
<1>1. Init => EndsApart
  <2> SUFFICES ASSUME Init PROVE EndsApart
    OBVIOUS
  <2>1. IInv
    BY Initially
  <2>2. \A p \in Process : proc[p].held = {}
    BY DEF Init, Free
  <2> QED BY <2>2 DEF EndsApart, Apart
<1>2. OneRedirection /\ IInv /\ IInv' /\ EndsApart /\ [Next]_vars => EndsApart'
  BY ApartInductive
<1>3. OneRedirection => OneRedirection'
  BY DEF OneRedirection
<1> QED BY <1>1, <1>2, <1>3, Invariance, PTL DEF Spec

(* If no pipeline has too many redirections, a shell at its prompt holds no *)
(* end of a pipe, no two commands hold one, and no command holds the write  *)
(* end of what it reads, however the stages of several lines overlap        *)
(* (319-421).                                                               *)
THEOREM EndsInPlaceAlways == OneRedirection /\ Spec => []EndsInPlace
<1>1. ASSUME IInv, EndsApart PROVE EndsInPlace
  <2> SUFFICES ASSUME NEW p \in Process
               PROVE  /\ AtPrompt(p) => proc[p].held = {}
                      /\ proc[p].kind = "command" =>
                           /\ proc[p].in # Tty => <<proc[p].in[1], "w">> \notin proc[p].held
                           /\ \A q \in Process \ {p} :
                                proc[q].kind = "command" => proc[p].held \cap proc[q].held = {}
    BY DEF EndsInPlace
  <2>1. AtPrompt(p) => proc[p].held = {}
    BY <1>1, NothingToWaitFor DEF AtPrompt, Waits
  <2>2. ASSUME proc[p].kind = "command"
        PROVE  proc[p].in # Tty => <<proc[p].in[1], "w">> \notin proc[p].held
    <3>1. proc[p] \in Records /\ (proc[p].in = Tty \/ StageOf(proc[p]))
      BY <1>1, <2>2, ShellFacts DEF LineFor
    <3> QED BY <3>1, StagesApart
  <2>3. ASSUME proc[p].kind = "command", NEW q \in Process \ {p}, proc[q].kind = "command"
        PROVE  proc[p].held \cap proc[q].held = {}
    <3>1. /\ proc[p] \in Records /\ (proc[p].held = {} \/ StageOf(proc[p]))
          /\ proc[q] \in Records /\ (proc[q].held = {} \/ StageOf(proc[q]))
      BY <1>1, <2>3, ShellFacts DEF LineFor
    <3>2. Apart(proc[p], proc[q])
      BY <1>1 DEF EndsApart
    <3>3. CASE proc[p].held \cap proc[q].held = {}
      BY <3>3
    <3>4. CASE OnePipeline(proc[p], proc[q]) /\ StageOf(proc[p]) /\ StageOf(proc[q])
      <4>1. proc[p].pipefds = proc[q].pipefds /\ proc[p].i # proc[q].i
        BY <2>3, <3>4 DEF OnePipeline
      <4> QED BY <3>1, <3>4, <4>1, StagesApart
    <3> QED BY <3>1, <3>2, <3>3, <3>4 DEF Apart
  <2> QED BY <2>1, <2>2, <2>3
<1> QED BY <1>1, Invariance, EndsInvariance, PTL
=============================================================================
