-------------------------------- MODULE Crons --------------------------------
(***************************************************************************)
(* The scheduled job of the auth service (services/auth/src/crons): the    *)
(* sessions that expired are deleted in batches, in one transaction, by    *)
(* whichever process gets an advisory lock that the transaction holds.     *)
(* Meanwhile users sign in and use their sessions, which moves their       *)
(* expiry.                                                                 *)
(***************************************************************************)
EXTENDS Integers, FiniteSets

CONSTANTS
  Processes,   \* of the auth service
  Sessions,
  Life,        \* ticks a session lasts
  Batch,       \* EXPIRED_SESSION_CLEANUP_BATCH_SIZE
  MaxBatches,  \* EXPIRED_SESSION_CLEANUP_MAX_BATCHES
  MaxClock,    \* bound
  MaxRuns      \* bound: runs of the job

\* Assumed of the constants; the run of ServicesMC evaluates it.
CronsAssumption ==
  /\ Life \in Nat \ {0} /\ Batch \in Nat \ {0} /\ MaxBatches \in Nat \ {0}
  /\ MaxClock \in Nat /\ MaxRuns \in Nat /\ IsFiniteSet(Sessions)

VARIABLES
  clock,
  expires,   \* expiry of each session, New or Gone
  using,     \* sessions being renewed: the new expiry is decided, not yet written
  running,   \* isRunning of each process
  job,       \* what each process's job is at
  lock,      \* holders of the advisory lock
  runs,      \* bound
  early      \* history: sessions deleted that had not expired, nor were being renewed at the cutoff

vars == <<clock, expires, using, running, job, lock, runs, early>>

Gone == -1
New == -3   \* not issued yet; ids are never reused
NoOne == -2
Idle == [pc |-> "idle"]
Job ==
       {Idle}
  \cup [pc: {"lock"}, cutoff: 0..MaxClock, late: SUBSET Sessions]
  \cup [pc: {"batch", "delete", "commit"}, cutoff: 0..MaxClock, late: SUBSET Sessions,
        done: 0..MaxBatches, held: SUBSET Sessions, chosen: SUBSET Sessions]

TypeOK ==
  /\ clock \in 0..MaxClock /\ expires \in [Sessions -> Int] /\ using \in [Sessions -> Int]
  /\ running \in [Processes -> BOOLEAN] /\ job \in [Processes -> Job]
  /\ lock \subseteq Processes /\ early \subseteq Sessions

----------------------------------------------------------------------------
Move(p, next) == job' = [job EXCEPT ![p] = next]
Users == <<clock, using>>

\* What the transactions under way have deleted is gone for those that wait for it.
Held == UNION {job[p].held : p \in {q \in Processes : "held" \in DOMAIN job[q]}}

Renewing == {s \in Sessions : using[s] # NoOne}

\* createCronExecutor: on start-up and at every interval, unless the last run goes on.
Execute(p) ==
  /\ ~running[p] /\ runs < MaxRuns
  /\ runs' = runs + 1
  /\ running' = [running EXCEPT ![p] = TRUE]
  /\ Move(p, [pc |-> "lock", cutoff |-> clock, late |-> Renewing])
  /\ UNCHANGED <<Users, expires, lock, early>>

End(p) == Move(p, Idle) /\ running' = [running EXCEPT ![p] = FALSE]

\* Mutant: the job goes on whether it gets the lock or not.
LockOrNot(p) ==
  /\ job[p].pc = "lock"
  /\ lock' = lock \cup {p}
  /\ Move(p, [pc |-> "batch", cutoff |-> job[p].cutoff, late |-> job[p].late,
              done |-> 0, held |-> {}, chosen |-> {}])
  /\ UNCHANGED <<Users, expires, running, runs, early>>

\* pg_try_advisory_xact_lock: it does not wait.
TryLock(p) ==
  /\ job[p].pc = "lock"
  /\ IF lock = {}
     THEN /\ lock' = {p}
          /\ Move(p, [pc |-> "batch", cutoff |-> job[p].cutoff, late |-> job[p].late,
                      done |-> 0, held |-> {}, chosen |-> {}])
          /\ UNCHANGED running
     ELSE End(p) /\ UNCHANGED lock
  /\ UNCHANGED <<Users, expires, runs, early>>

Expired(p) == {s \in Sessions \ job[p].held : expires[s] >= 0 /\ expires[s] < job[p].cutoff}

\* The statement's first part: the oldest of the expired ones.
Choose(p) ==
  /\ job[p].pc = "batch"
  /\ \E C \in SUBSET Expired(p) :
       /\ Cardinality(C) = (IF Cardinality(Expired(p)) < Batch THEN Cardinality(Expired(p)) ELSE Batch)
       /\ \A s \in C, t \in Expired(p) \ C : expires[s] <= expires[t]
       /\ Move(p, [job[p] EXCEPT !.pc = "delete", !.chosen = C])
  /\ UNCHANGED <<Users, expires, running, lock, runs, early>>

\* Its second part: the rows chosen, as they are by now; a short batch or the last is the end.
Delete(p) ==
  /\ job[p].pc = "delete"
  /\ LET gone == {s \in job[p].chosen : expires[s] # Gone}
         done == job[p].done + 1
     IN  /\ early' = early \cup {s \in gone \ job[p].late : expires[s] >= job[p].cutoff}
         /\ Move(p, [job[p] EXCEPT
              !.pc = IF Cardinality(gone) < Batch \/ done = MaxBatches THEN "commit" ELSE "batch",
              !.done = done, !.held = @ \cup gone])
  /\ UNCHANGED <<Users, expires, running, lock, runs>>

Commit(p) ==
  /\ job[p].pc = "commit"
  /\ expires' = [s \in Sessions |-> IF s \in job[p].held THEN Gone ELSE expires[s]]
  /\ lock' = lock \ {p}
  /\ End(p)
  /\ UNCHANGED <<Users, runs, early>>

\* The transaction fails, or the process is restarted; the lock goes with the transaction.
Fail(p) ==
  /\ job[p] # Idle
  /\ lock' = lock \ {p}
  /\ End(p)
  /\ UNCHANGED <<Users, expires, runs, early>>

----------------------------------------------------------------------------
(* External: the sessions as Better Auth keeps them *)

SignIn(s) ==
  /\ expires[s] = New
  /\ expires' = [expires EXCEPT ![s] = clock + Life]
  /\ UNCHANGED <<Users, running, job, lock, runs, early>>

\* A session that has not expired is used, and its expiry moved a moment later.
Use(s) ==
  /\ expires[s] >= clock /\ using[s] = NoOne
  /\ using' = [using EXCEPT ![s] = clock + Life]
  /\ UNCHANGED <<clock, expires, running, job, lock, runs, early>>

\* A row that a transaction has deleted is waited for.
Renew(s) ==
  /\ using[s] # NoOne /\ s \notin Held
  /\ expires' = [expires EXCEPT ![s] = IF @ = Gone THEN Gone ELSE using[s]]
  /\ using' = [using EXCEPT ![s] = NoOne]
  /\ UNCHANGED <<clock, running, job, lock, runs, early>>

\* Signing out deletes the session.
SignOut(s) ==
  /\ expires[s] >= 0 /\ s \notin Held
  /\ expires' = [expires EXCEPT ![s] = Gone]
  /\ UNCHANGED <<Users, running, job, lock, runs, early>>

Tick ==
  /\ clock < MaxClock
  /\ clock' = clock + 1
  /\ UNCHANGED <<expires, using, running, job, lock, runs, early>>

Init ==
  /\ clock = 0
  /\ expires = [s \in Sessions |-> New] /\ using = [s \in Sessions |-> NoOne]
  /\ running = [p \in Processes |-> FALSE] /\ job = [p \in Processes |-> Idle]
  /\ lock = {} /\ runs = 0 /\ early = {}

Next ==
  \/ \E p \in Processes :
       Execute(p) \/ TryLock(p) \/ Choose(p) \/ Delete(p) \/ Commit(p) \/ Fail(p)
  \/ \E s \in Sessions : SignIn(s) \/ SignOut(s) \/ Use(s) \/ Renew(s)
  \/ Tick

Spec == Init /\ [][Next]_vars

----------------------------------------------------------------------------
(* Properties *)

\* One transaction at a time deletes, across processes and runs, so that none waits for
\* another; one that is about to commit and found less than a batch the last time leaves no
\* session that expired by its cutoff; and none deletes a session that had not expired by
\* then, unless it was being renewed at that moment.
CleansAll ==
  /\ \A p, q \in Processes :
       "held" \in DOMAIN job[p] /\ "held" \in DOMAIN job[q] => p = q
  /\ \A p \in Processes :
       job[p].pc = "commit" /\ Cardinality(job[p].chosen) < Batch => Expired(p) = {}
  /\ early = {}
=============================================================================
