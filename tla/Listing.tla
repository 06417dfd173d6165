------------------------------- MODULE Listing -------------------------------
(***************************************************************************)
(* The lists of the administration (utils/src/functions/list-query.ts), as *)
(* the list of companies uses them: a page is read by one statement and    *)
(* the total by another, and a client walks through the pages while        *)
(* companies are created, changed, removed and restored.  A company is     *)
(* joined with each of its owners.                                         *)
(***************************************************************************)
EXTENDS Integers, FiniteSets, Sequences, SequencesExt

CONSTANTS
  Companies,   \* ids: the numbers in the order of creation
  Limits,      \* page sizes
  MaxEdits     \* bound: changes of companies

\* Assumed of the constants; the run of ServicesMC evaluates it.
ListingAssumption ==
  /\ IsFiniteSet(Companies) /\ Companies = 1..Cardinality(Companies)
  /\ Limits \subseteq Nat \ {0} /\ MaxEdits \in Nat

VARIABLES
  rows,     \* organization with its owner members, by id
  walk,     \* the client's walk through the pages
  shown,    \* what the pages of the walk held, in order
  stayed,   \* history: companies in the list ever since the walk began
  excused,  \* history: what happened to the list during the walk
  edits

vars == <<rows, walk, shown, stayed, excused, edits>>

Absent == [made |-> 0, gone |-> FALSE, active |-> FALSE, owners |-> 0]
Row == [made: Companies \cup {0}, gone: BOOLEAN, active: BOOLEAN, owners: 0..2]
Query == [deleted: BOOLEAN, active: {{TRUE}, BOOLEAN}, newest: BOOLEAN, limit: Limits,
          by: {"page", "offset"}]
Idle == [pc |-> "idle"]
Excuses == {"changed", "shrunk", "tied"}

TypeOK ==
  /\ rows \in [Companies -> Row] /\ edits \in 0..MaxEdits
  /\ walk \in {Idle} \cup [pc: {"rows", "done"}, query: Query, step: Nat]
                     \cup [pc: {"count"}, query: Query, step: Nat]
  /\ shown \in Seq(Companies) /\ stayed \subseteq Companies /\ excused \subseteq Excuses

----------------------------------------------------------------------------
(* The query *)

\* Mutant: pages are counted from one when rows are skipped.
OffsetFromOne(q, step) == IF q.by = "offset" THEN step * q.limit ELSE (step + 1) * q.limit

\* resolvePagination: a page is given by its number, which is one more than its step, or by
\* its offset.
Offset(q, step) == IF q.by = "offset" THEN step * q.limit ELSE ((step + 1) - 1) * q.limit

\* where and filterColumns: what the list is asked for.
Listed(rs, q) ==
  {c \in Companies : rs[c].made # 0 /\ rs[c].gone = q.deleted /\ rs[c].active \in q.active}

\* companyListJoins: a row for each owner, one if there is none.
Joined(rs, q) == {j \in Listed(rs, q) \X (1..2) : j[2] = 1 \/ j[2] <= rs[j[1]].owners}

\* resolveOrderBy: by createdAt alone; rows with one stamp come in any order.
Ordered(rs, q) ==
  {s \in SetToSeqs(Joined(rs, q)) :
     \A i, j \in DOMAIN s :
       i < j => IF q.newest THEN rs[s[i][1]].made >= rs[s[j][1]].made
                            ELSE rs[s[i][1]].made <= rs[s[j][1]].made}

----------------------------------------------------------------------------
(* The walk *)

Ties(rs, q) ==
  \/ Cardinality({rs[c].made : c \in Listed(rs, q)}) < Cardinality(Listed(rs, q))
  \/ \E c \in Listed(rs, q) : rs[c].owners = 2

Begin(q) ==
  /\ walk = Idle
  /\ walk' = [pc |-> "rows", query |-> q, step |-> 0]
  /\ stayed' = Listed(rows, q)
  /\ excused' = IF Ties(rows, q) THEN {"tied"} ELSE {}
  /\ UNCHANGED <<rows, shown, edits>>

\* executeListQuery, its first statement
ReadRows ==
  /\ walk.pc = "rows"
  /\ \E s \in Ordered(rows, walk.query) :
       LET offset == Offset(walk.query, walk.step)
           items == SubSeq(s, offset + 1, Min({offset + walk.query.limit, Len(s)}))
       IN  shown' = shown \o [i \in DOMAIN items |-> items[i][1]]
  /\ walk' = [walk EXCEPT !.pc = "count"]
  /\ UNCHANGED <<rows, stayed, excused, edits>>

\* executeListQuery, its second statement: distinct companies are counted.  The client asks
\* for the next page while there are rows after this one.
ReadTotal ==
  /\ walk.pc = "count"
  /\ LET total == Cardinality(Listed(rows, walk.query))
     IN  walk' = IF (walk.step + 1) * walk.query.limit >= total THEN [walk EXCEPT !.pc = "done"]
                 ELSE [walk EXCEPT !.pc = "rows", !.step = @ + 1]
  /\ UNCHANGED <<rows, shown, stayed, excused, edits>>

----------------------------------------------------------------------------
(* The companies; company/main/handler.ts and members/handler.ts *)

Edit(c, row) ==
  /\ walk.pc \in {"rows", "count"} /\ edits < MaxEdits
  /\ edits' = edits + 1
  /\ rows' = [rows EXCEPT ![c] = row]
  /\ LET q == walk.query
         was == Listed(rows, q)
         is == Listed(rows', q)
     IN  /\ stayed' = stayed \cap is
         /\ excused' = excused \cup {"changed"}
                         \cup (IF was \subseteq is THEN {} ELSE {"shrunk"})
                         \cup (IF Ties(rows', q) THEN {"tied"} ELSE {})
  /\ UNCHANGED <<walk, shown>>

\* A company is stamped as its transaction begins, and seen when it commits: another may have
\* been stamped, and seen, in between, or have the same stamp.
Create(c) ==
  /\ rows[c].made = 0 /\ \A d \in 1..c - 1 : rows[d].made # 0
  /\ \E stamp \in {s \in Companies : s \in {c - 1, c}}, active \in BOOLEAN :
       Edit(c, [made |-> stamp, gone |-> FALSE, active |-> active, owners |-> 1])

Switch(c) ==
  rows[c].made # 0 /\ ~rows[c].gone /\ Edit(c, [rows[c] EXCEPT !.active = ~@])

RemoveCompany(c) ==
  /\ rows[c].made # 0 /\ ~rows[c].gone
  /\ Edit(c, [rows[c] EXCEPT !.gone = TRUE, !.owners = 0])

Restore(c) == rows[c].gone /\ Edit(c, [rows[c] EXCEPT !.gone = FALSE, !.owners = 1])

RemoveForGood(c) == rows[c].gone /\ Edit(c, Absent)

\* A member's role is free text: nothing keeps a company from a second owner.
ChangeOwners(c) ==
  /\ rows[c].made # 0 /\ ~rows[c].gone
  /\ \E n \in {rows[c].owners - 1, rows[c].owners + 1} \cap 0..2 :
       Edit(c, [rows[c] EXCEPT !.owners = n])

----------------------------------------------------------------------------
\* Active companies that were made one after the other, all but the last.
Init ==
  /\ \E gone \in SUBSET Companies :
       rows = [c \in Companies |->
                 IF c = Cardinality(Companies) THEN Absent
                 ELSE [made |-> c, gone |-> c \in gone, active |-> TRUE,
                       owners |-> IF c \in gone THEN 0 ELSE 1]]
  /\ walk = Idle /\ shown = <<>> /\ stayed = {} /\ excused = {} /\ edits = 0

Next ==
  \/ \E q \in Query : Begin(q)
  \/ ReadRows \/ ReadTotal
  \/ \E c \in Companies :
       \/ Create(c) \/ Switch(c) \/ RemoveCompany(c) \/ Restore(c) \/ RemoveForGood(c)
       \/ ChangeOwners(c)

Spec == Init /\ [][Next]_vars

----------------------------------------------------------------------------
(* Properties *)

\* However the list grows while a client walks through it, the walk misses no company that
\* was in it all the time, unless one left it or two rows had one stamp; and a list that
\* stands still is shown once and in order.
WalkMissesNothing ==
  walk.pc = "done" =>
    /\ excused \cap {"shrunk", "tied"} = {} => stayed \subseteq {shown[i] : i \in DOMAIN shown}
    /\ excused = {} =>
         /\ Len(shown) = Cardinality(stayed)
         /\ \A i, j \in DOMAIN shown :
              i < j => IF walk.query.newest THEN rows[shown[i]].made > rows[shown[j]].made
                                            ELSE rows[shown[i]].made < rows[shown[j]].made
=============================================================================
