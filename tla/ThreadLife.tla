----------------------------- MODULE ThreadLife -----------------------------
(***************************************************************************)
(* What threads.h and the README promise of creating, ending and joining    *)
(* threads, with no scheduler: a join returns only once its target has      *)
(* ended and, when it has, eventually does; threads that ended stay ended;  *)
(* the process stops only if main lets it or nothing is left to run.        *)
(***************************************************************************)
CONSTANTS Thread, Main, None

VARIABLES
  life,    \* life[t]: "new", "live" or "ended"
  waits,   \* the thread t is joining, or None
  up       \* the process has not ended

lifeVars == <<life, waits, up>>

LifeInit ==
  /\ life = [t \in Thread |-> IF t = Main THEN "live" ELSE "new"]
  /\ waits = [t \in Thread |-> None]
  /\ up = TRUE

Free(t) == life[t] = "live" /\ waits[t] = None

Begin(s, t) ==
  /\ Free(s) /\ life[t] = "new"
  /\ life' = [life EXCEPT ![t] = "live"]
  /\ UNCHANGED <<waits, up>>

End(t) ==
  /\ Free(t)
  /\ life' = [life EXCEPT ![t] = "ended"]
  /\ UNCHANGED <<waits, up>>

Await(s, t) ==
  /\ Free(s) /\ life[t] # "new" /\ s # t
  /\ waits' = [waits EXCEPT ![s] = t]
  /\ UNCHANGED <<life, up>>

Joined(s, t) ==
  /\ waits[s] = t /\ life[t] = "ended"
  /\ waits' = [waits EXCEPT ![s] = None]
  /\ UNCHANGED <<life, up>>

Stop ==
  /\ Free(Main) \/ \A t \in Thread : ~Free(t)
  /\ up' = FALSE                \* and what is left behind does not matter
  /\ life' \in [Thread -> {"new", "live", "ended"}]
  /\ waits' \in [Thread -> Thread \cup {None}]

LifeNext ==
  /\ up
  /\ \/ \E s, t \in Thread : Begin(s, t) \/ Await(s, t) \/ Joined(s, t)
     \/ \E t \in Thread : End(t)
     \/ Stop

LifeSpec == LifeInit /\ [][LifeNext]_lifeVars
=============================================================================
