--------------------------- MODULE PodSessionsMC ---------------------------
(***************************************************************************)
(* Small instances of PodSessions for TLC.                                 *)
(***************************************************************************)
EXTENDS PodSessions, TLC

\* One slab that costs the whole initial balance, and a short one.
OneRate  == {[minute |-> 1, credit |-> 1]}
\* Pods, users, session ids and requests are interchangeable.
Symmetry == Permutations(Pods) \cup Permutations(Users)
            \cup Permutations(Sessions) \cup Permutations(Requests)
============================================================================
