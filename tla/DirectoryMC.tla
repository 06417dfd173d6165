---------------------------- MODULE DirectoryMC ----------------------------
(***************************************************************************)
(* A small instance of Directory for TLC.                                  *)
(***************************************************************************)
EXTENDS Directory, TLC

CONSTANTS u1, u2, u3, u4, e1, e2, e3, e4, s1, s2

Symmetry == Permutations(Requests)

\* What three requests leave behind: two companies with their owners, and a user of the
\* app, of the first company; one owner got the mail. One id and one e-mail are free.
Populated ==
  /\ company = [c \in Companies |-> [slug |-> IF c = 1 THEN s1 ELSE s2, deleted |-> FALSE]]
  /\ user = [u \in Users |->
       CASE u = u1 -> [panel |-> "company", email |-> e1, company |-> None, deleted |-> FALSE]
         [] u = u2 -> [panel |-> "company", email |-> e2, company |-> None, deleted |-> FALSE]
         [] u = u3 -> [panel |-> "app", email |-> e3, company |-> 1, deleted |-> FALSE]
         [] OTHER -> None]
  /\ member = [u \in Users |->
       CASE u = u1 -> [company |-> 1, owner |-> TRUE, deleted |-> FALSE]
         [] u = u2 -> [company |-> 2, owner |-> TRUE, deleted |-> FALSE]
         [] OTHER -> None]
  /\ password = [u \in Users |-> "issued"]
  /\ request = [r \in Requests |-> Ready]
  /\ told = [u \in Users |-> IF u = u1 THEN {"issued"} ELSE {}]
  /\ used = {u1, u2, u3}
  /\ home = [u \in Users |-> CASE u = u1 -> 1 [] u = u2 -> 2 [] u = u3 -> 1 [] OTHER -> None]
  /\ contested = {} /\ crossed = {}

\* The run's specification.
FromPopulated == Populated /\ [][Next]_vars
=============================================================================
