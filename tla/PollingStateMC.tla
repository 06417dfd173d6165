--------------------------- MODULE PollingStateMC ---------------------------
(***************************************************************************)
(* Small instances of PollingState for TLC.                                *)
(***************************************************************************)
EXTENDS PollingState, TLC

\* Requests are interchangeable.
Symmetry == Permutations(Tasks)
=============================================================================
