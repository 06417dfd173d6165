-------------------------- MODULE PodReservations --------------------------
(***************************************************************************)
(* What the reservation of pods promises, whatever its handlers do step by *)
(* step: a pod is held by at most one session; taking it and paying for it *)
(* is one indivisible step of a user who can afford it; a session that let *)
(* go of its pod never holds it again, and its id never comes back.        *)
(***************************************************************************)
EXTENDS Integers

CONSTANTS
  Pods, Users, Sessions,
  Rates,           \* the slabs: [minute, credit]
  InitialCredit,   \* what every balance starts with
  TopUps           \* amounts a balance may be credited with

VARIABLES
  holders,   \* the sessions that hold each pod
  balance,   \* credit minutes of each user
  charged    \* the sessions paid for so far

vars == <<holders, balance, charged>>

Init ==
  /\ holders = [p \in Pods |-> {}]
  /\ balance = [u \in Users |-> InitialCredit]
  /\ charged = {}

\* A reservation so late that its time is already over holds nothing.
Reserve(p, s, u, rate) ==
  /\ holders[p] = {}
  /\ s \notin charged
  /\ balance[u] >= rate.credit
  /\ \E H \in {{}, {s}} : holders' = [holders EXCEPT ![p] = H]
  /\ balance' = [balance EXCEPT ![u] = @ - rate.credit]
  /\ charged' = charged \cup {s}

\* Sessions end, are unlocked or are deleted.
LetGo ==
  /\ holders' \in [Pods -> SUBSET Sessions]
  /\ \A p \in Pods : holders'[p] \subseteq holders[p]
  /\ UNCHANGED <<balance, charged>>

Credit(u, n) ==
  /\ balance' = [balance EXCEPT ![u] = @ + n]
  /\ UNCHANGED <<holders, charged>>

Next ==
  \/ \E p \in Pods, s \in Sessions, u \in Users, rate \in Rates :
       Reserve(p, s, u, rate)
  \/ LetGo
  \/ \E u \in Users, n \in TopUps : Credit(u, n)

Spec == Init /\ [][Next]_vars
=============================================================================
