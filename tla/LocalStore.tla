----------------------------- MODULE LocalStore -----------------------------
(***************************************************************************)
(* What the thread-local storage of Project 4 promises (its README):  each  *)
(* thread has at most one store, a store starts as zeros or as a copy of    *)
(* another thread's, and from then on nobody but its owner changes it or    *)
(* takes it away; a byte read is the byte the store holds.                  *)
(***************************************************************************)
EXTENDS Naturals

CONSTANTS Thread, Bytes, Zero

VARIABLES
  store,    \* store[t]: a function on 0 .. size - 1, or NoStore
  heard     \* heard[t]: the byte t has just read, or Zero

NoStore == <<>>

LocalInit ==
  /\ store = [t \in Thread |-> NoStore]
  /\ heard = [t \in Thread |-> Zero]

OnlyChanges(t) == \A u \in Thread \ {t} : store'[u] = store[u]

Create(t) ==
  /\ store[t] = NoStore
  /\ store'[t] # NoStore
  /\ \A i \in DOMAIN store'[t] : store'[t][i] = Zero
  /\ OnlyChanges(t)
  /\ UNCHANGED heard

Clone(t) ==
  /\ store[t] = NoStore
  /\ \E u \in Thread : store[u] # NoStore /\ store'[t] = store[u]
  /\ OnlyChanges(t)
  /\ UNCHANGED heard

(* Writing, or reading again, the same byte is a stutter. *)
Put(t) ==
  /\ store'[t] # store[t]
  /\ \E i \in DOMAIN store[t], b \in Bytes : store' = [store EXCEPT ![t][i] = b]
  /\ UNCHANGED heard

Get(t) ==
  /\ heard'[t] # heard[t]
  /\ \E i \in DOMAIN store[t] : heard' = [heard EXCEPT ![t] = store[t][i]]
  /\ UNCHANGED store

Forget(t) ==
  /\ heard' = [heard EXCEPT ![t] = Zero]
  /\ UNCHANGED store

Destroy(t) ==
  /\ store' = [store EXCEPT ![t] = NoStore]
  /\ UNCHANGED heard

LocalNext ==
  \E t \in Thread : Forget(t) \/ Create(t) \/ Clone(t) \/ Put(t) \/ Get(t) \/ Destroy(t)

LocalSpec == LocalInit /\ [][LocalNext]_<<store, heard>>
=============================================================================
