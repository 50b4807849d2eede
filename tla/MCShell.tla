------------------------------ MODULE MCShell ------------------------------
(* Instances of Shell for TLC. *)
EXTENDS Shell

Line(n) == [num_cmd |-> n, bkgd |-> FALSE, redir |-> {}]
InBackground(n) == [Line(n) EXCEPT !.bkgd = TRUE]
TooOften(n, S) == [Line(n) EXCEPT !.redir = S]

AllKinds == {Line(0), Line(1), Line(2), Line(3), InBackground(1), InBackground(2), TooOften(1, {"<"})}
JobThenPipe == {Line(2), InBackground(1)}
=============================================================================
