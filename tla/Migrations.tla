----------------------------- MODULE Migrations -----------------------------
(***************************************************************************)
(* The migration runner (packages/database/src/migration.ts).  Every       *)
(* deployment runs it; it may be killed at any point and run again, and    *)
(* nothing keeps two from running at once.                                 *)
(*                                                                         *)
(* A migration is a list of statements, run in one transaction that also   *)
(* records it.  Each statement has a savepoint: one that fails because     *)
(* something exists already, or does not exist, is passed over.  Which     *)
(* migrations are due is decided from what was recorded when the run       *)
(* began.                                                                  *)
(*                                                                         *)
(* A statement creates an object (a table, a column, an index), drops one, *)
(* or changes its data; an object counts the changes of its data.  A       *)
(* transaction holds the objects it touched until it ends.                 *)
(***************************************************************************)
EXTENDS Integers, Sequences

CONSTANTS
  Runners,
  Objects,
  Journal,     \* the migration files in the order of the journal: [stamp, body]
  Legacy,      \* databases the first run may find, with no journal in them
  MaxCrashes   \* bound: runs killed

Steps == 1..Len(Journal)
Absent == -1   \* no such object
Value == Nat \cup {Absent}
Ops == {"create", "drop", "data"}

\* Assumed of the constants; the run of ServicesMC evaluates it.
MigrationsAssumption ==
  /\ Journal \in Seq([stamp: Nat \ {0}, body: Seq([op: Ops, on: Objects])])
  /\ \A l \in Legacy : l \in [Objects -> Value]
  /\ MaxCrashes \in Nat

VARIABLES
  store,      \* what is committed: an object's count of data changes, or Absent
  recorded,   \* __drizzle_migrations: the migrations in it
  run,        \* where each runner is
  crashes,    \* bound
  origin,     \* history: the database the first run found
  baselined,  \* history: the first migration was recorded without being run
  overlapped  \* history: two runs were under way at once

vars == <<store, recorded, run, crashes, origin, baselined, overlapped>>

Idle == [pc |-> "idle"]
\* applied: what the run takes for recorded; last: the stamp it takes for the newest, or 0;
\* tx: what its transaction has made of the objects it touched.
Run ==
       [pc: {"idle", "done", "failed"}]
  \cup [pc: {"last"}, applied: SUBSET Steps]
  \cup [pc: {"tables", "baseline"}, applied: SUBSET Steps]
  \cup [pc: {"next"}, applied: SUBSET Steps, last: Nat, at: Nat \ {0}]
Transaction(touched) ==
  [pc: {"body"}, applied: SUBSET Steps, last: Nat, at: Steps, i: Nat \ {0},
   tx: [touched -> Value]]

TypeOK ==
  /\ store \in [Objects -> Value] /\ recorded \subseteq Steps
  /\ DOMAIN run = Runners
  /\ \A r \in Runners :
       run[r] \in Run \/ \E touched \in SUBSET Objects : run[r] \in Transaction(touched)
  /\ crashes \in 0..MaxCrashes
  /\ baselined \in BOOLEAN /\ overlapped \in BOOLEAN

----------------------------------------------------------------------------
(* What statements do *)

Statement(m, i) == Journal[m].body[i]

\* What a statement makes of its object; on one that is there already, or is not there, it
\* does nothing: isIgnorableDuplicateError.
Changed(value, op) ==
  CASE op = "create" -> IF value = Absent THEN 0 ELSE value
    [] op = "drop"   -> Absent
    [] op = "data"   -> IF value = Absent THEN value ELSE value + 1

Effect(db, s) == [db EXCEPT ![s.on] = Changed(@, s.op)]

\* A transaction sees its own changes and what is committed of all else; it holds what it
\* touched.
Sees(r) == [o \in Objects |-> IF o \in DOMAIN run[r].tx THEN run[r].tx[o] ELSE store[o]]
Holds(r) == IF run[r].pc = "body" THEN DOMAIN run[r].tx ELSE {}
Free(r, o) == \A q \in Runners \ {r} : o \notin Holds(q)

CreatedTables(m) == {Statement(m, i).on : i \in {j \in DOMAIN Journal[m].body :
                                                  Statement(m, j).op = "create"}}

Newest(S) ==
  IF S = {} THEN 0
  ELSE CHOOSE t \in {Journal[m].stamp : m \in S} : \A m \in S : Journal[m].stamp <= t

\* Reference: what the statements of a migration make of a database, one after the other.
After(db, m) ==
  LET made[i \in 0..Len(Journal[m].body)] ==
        IF i = 0 THEN db ELSE Effect(made[i - 1], Statement(m, i))
  IN  made[Len(Journal[m].body)]

\* Reference: the recorded migrations run once each, in the order of the journal.
Replay ==
  LET upTo[m \in 0..Len(Journal)] ==
        IF m = 0 THEN origin
        ELSE IF m \notin recorded \/ (m = 1 /\ baselined) THEN upTo[m - 1]
        ELSE After(upTo[m - 1], m)
  IN  upTo[Len(Journal)]

----------------------------------------------------------------------------
(* A run *)

Move(r, next) == run' = [run EXCEPT ![r] = next]
Keep == UNCHANGED <<store, recorded, crashes, origin, baselined>>

UnderWay(r) == run[r].pc \notin {"idle", "done", "failed"}

\* ensureMigrationsTable, getAppliedMigrationHashes; a finished run may be run again.
Begin(r) ==
  /\ ~UnderWay(r)
  /\ Move(r, [pc |-> "last", applied |-> recorded])
  /\ overlapped' = (overlapped \/ \E q \in Runners : UnderWay(q))
  /\ Keep

Loop(applied, last) == [pc |-> "next", applied |-> applied, last |-> last, at |-> 1]

\* getLastMigration: the newest recorded; with none, the first may be taken for applied.
ReadLast(r) ==
  /\ run[r].pc = "last"
  /\ LET a == run[r].applied
     IN  IF recorded # {} THEN
           \E m \in {n \in recorded : Journal[n].stamp = Newest(recorded)} :
             Move(r, Loop(a \cup {m}, Newest(recorded)))
         ELSE IF Journal = <<>> \/ 1 \in a \/ CreatedTables(1) = {} THEN Move(r, Loop(a, 0))
         ELSE Move(r, [run[r] EXCEPT !.pc = "tables"])
  /\ Keep /\ UNCHANGED overlapped

\* maybeBaselineFirstMigration: some table of the first migration exists.
ReadTables(r) ==
  /\ run[r].pc = "tables"
  /\ IF \A o \in CreatedTables(1) : store[o] = Absent
     THEN Move(r, Loop(run[r].applied, 0))
     ELSE Move(r, [run[r] EXCEPT !.pc = "baseline"])
  /\ Keep /\ UNCHANGED overlapped

\* recordMigration outside a transaction.
Baseline(r) ==
  /\ run[r].pc = "baseline"
  /\ baselined' = (baselined \/ 1 \notin recorded)
  /\ recorded' = recorded \cup {1}
  /\ Move(r, Loop(run[r].applied \cup {1}, Journal[1].stamp))
  /\ UNCHANGED <<store, crashes, origin, overlapped>>

\* A migration is run if it was not recorded and is newer than the newest that was.
Due(r) ==
  /\ run[r].at \notin run[r].applied
  /\ run[r].last = 0 \/ run[r].last < Journal[run[r].at].stamp

NextMigration(r) ==
  /\ run[r].pc = "next"
  /\ IF run[r].at > Len(Journal) THEN Move(r, [pc |-> "done"])
     ELSE IF Due(r)
     THEN Move(r, [pc |-> "body", applied |-> run[r].applied, last |-> run[r].last,
                   at |-> run[r].at, i |-> 1, tx |-> [o \in {} |-> Absent]])
     ELSE Move(r, [run[r] EXCEPT !.at = @ + 1])
  /\ Keep /\ UNCHANGED overlapped

\* Mutant: each statement is committed by itself.
RunAtOnce(r) ==
  /\ run[r].pc = "body" /\ run[r].i <= Len(Journal[run[r].at].body)
  /\ store' = Effect(store, Statement(run[r].at, run[r].i))
  /\ Move(r, [run[r] EXCEPT !.i = @ + 1])
  /\ UNCHANGED <<recorded, crashes, origin, baselined, overlapped>>

\* A statement waits for what another transaction holds.
RunStatement(r) ==
  /\ run[r].pc = "body" /\ run[r].i <= Len(Journal[run[r].at].body)
  /\ LET s == Statement(run[r].at, run[r].i)
     IN  /\ Free(r, s.on)
         /\ Move(r, [run[r] EXCEPT !.i = @ + 1,
                      !.tx = [o \in DOMAIN @ \cup {s.on} |-> Effect(Sees(r), s)[o]]])
  /\ Keep /\ UNCHANGED overlapped

\* An error that is not passed over: the data breaks a constraint, or two creations of the
\* same name met in the catalogue.  The transaction and the run are given up.
StatementFails(r) ==
  /\ run[r].pc = "body" /\ run[r].i <= Len(Journal[run[r].at].body)
  /\ LET s == Statement(run[r].at, run[r].i)
     IN  /\ Free(r, s.on)
         /\ \/ s.op = "data" /\ Sees(r)[s.on] # Absent
            \/ s.op = "create" /\ overlapped /\ store[s.on] # Absent
  /\ Move(r, [pc |-> "failed"])
  /\ Keep /\ UNCHANGED overlapped

\* recordMigration, unless it is there; COMMIT.
RecordMigration(r) ==
  /\ run[r].pc = "body" /\ run[r].i > Len(Journal[run[r].at].body)
  /\ store' = Sees(r)
  /\ recorded' = recorded \cup {run[r].at}
  /\ Move(r, [pc |-> "next", applied |-> run[r].applied \cup {run[r].at},
              last |-> Journal[run[r].at].stamp, at |-> run[r].at + 1])
  /\ UNCHANGED <<crashes, origin, baselined, overlapped>>

\* The process or its connection goes; its transaction with it.
Crash(r) ==
  /\ UnderWay(r) /\ crashes < MaxCrashes
  /\ crashes' = crashes + 1
  /\ Move(r, [pc |-> "failed"])
  /\ UNCHANGED <<store, recorded, origin, baselined, overlapped>>

----------------------------------------------------------------------------
Init ==
  /\ store \in Legacy \cup {[o \in Objects |-> Absent]} /\ origin = store
  /\ recorded = {} /\ crashes = 0
  /\ run = [r \in Runners |-> Idle]
  /\ baselined = FALSE /\ overlapped = FALSE

Next ==
  \E r \in Runners :
    \/ Begin(r) \/ ReadLast(r) \/ ReadTables(r) \/ Baseline(r) \/ NextMigration(r)
    \/ RunStatement(r) \/ StatementFails(r) \/ RecordMigration(r)
    \/ Crash(r)

Spec == Init /\ [][Next]_vars

----------------------------------------------------------------------------
(* Properties *)

\* The database is what its journal says: the recorded migrations run once each, in
\* order, on what was found, whatever run was killed or failed and however often it was
\* repeated; nothing is half done and no data is changed twice.  Runs that overlap are
\* another matter: each goes by what was recorded when it began.
DatabaseAsRecorded == overlapped \/ store = Replay

\* A run that ends well leaves out only migrations that are not newer than one that comes
\* before them in the journal; those no run ever takes.
NothingLeftBehind ==
  \A r \in Runners :
    run[r].pc = "done" /\ ~overlapped =>
      \A m \in Steps \ recorded :
        \E n \in recorded : n < m /\ Journal[m].stamp <= Journal[n].stamp
=============================================================================
