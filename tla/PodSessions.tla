---------------------------- MODULE PodSessions ----------------------------
(***************************************************************************)
(* The reservation of pods by the ommpods service: booking a session,      *)
(* ending it early by emergency unlock (by pod from the door or a tablet,  *)
(* by session from the app), and the administrative soft delete, permanent *)
(* delete and restore of a session.                                        *)
(*                                                                         *)
(* The handlers of routers/sessions, routers/control and routers/tablet    *)
(* run concurrently, in one process or several, over one PostgreSQL        *)
(* database at READ COMMITTED.  A handler is a request r with a program    *)
(* counter req[r].pc; each of its steps is one statement (or one group of  *)
(* statements whose intermediate states nobody else can see), and the      *)
(* effects of a transaction appear at its commit.  The pod's advisory lock *)
(* and the row lock of the user's wallet are explicit.  Time is discrete:  *)
(* Tick moves the clock every handler reads with Date.now().               *)
(***************************************************************************)
EXTENDS Integers, FiniteSetsExt

CONSTANTS
  Pods,              \* pod ids
  Users,             \* users who book
  Sessions,          \* the session ids generateRandomId can still return
  Requests,          \* handler executions that can be in flight at once
  Rates,             \* the rate slabs of the pods: [minute, credit]
  Delay,             \* SESSION_START_END_DELAY_SECONDS
  MinUnlockWindow,   \* the 5 of Math.max(getSessionStartEndDelaySeconds(), 5)
  Intro,             \* SESSION_START_INTRODUCTORY_VIDEO_DURATION
  InitialCredit,     \* credit minutes of every wallet at the start
  TopUps,            \* amounts a wallet may be credited with
  MaxCredit,         \* bound: credit ever granted to a wallet
  MaxClock,          \* bound: last value of the clock
  NoRow, NoRequest   \* "no such row" and "lock not held"

RateSlab == [minute: Nat \ {0}, credit: Nat \ {0}]

Statuses == {"CONFIRMED", "CANCELLED", "COMPLETED", "EMERGENCY_UNLOCKED"}

SessionRow == [pod: Pods, user: Users, status: Statuses,
               startAt: Int, endAt: Int, isDeleted: BOOLEAN]

ASSUME ConstantsAssumption ==
  /\ Rates \subseteq RateSlab
  /\ Delay \in Nat /\ MinUnlockWindow \in Nat /\ Intro \in Nat
  /\ InitialCredit \in Nat /\ TopUps \subseteq Nat
  /\ MaxCredit \in Nat /\ MaxClock \in Nat
  /\ NoRow \notin SessionRow
  /\ NoRequest \notin Requests

VARIABLES
  clock,         \* Date.now()
  podOpen,       \* the pod exists, is ACTIVE and offers the slab and the mood
  sessions,      \* table pod_sessions, by id
  wallet,        \* user_wallet.creditMinute, by user
  ledger,        \* wallet_transactions: the DEBIT rows of bookings
  lock,          \* holder of pg_advisory_xact_lock(hashtext(podId))
  walletLock,    \* holder of the row lock of the user's wallet
  req,           \* what each handler execution is doing
  unpublished,   \* pods whose sessions changed since they were last refreshed
  (* history variables, read by properties only *)
  lost,          \* pods whose refresh was lost with the process that owed it
  restored,      \* sessions a restore has brought back from soft deletion
  granted        \* credit each wallet ever received

database == <<podOpen, sessions, wallet, ledger>>
locks    == <<lock, walletLock>>
history  == <<lost, restored, granted>>
vars     == <<clock, database, locks, req, unpublished, history>>

----------------------------------------------------------------------------
(* Requests *)

Idle == [pc |-> "idle"]

BookingPCs == {"bookLock", "bookPod", "bookOverlap", "bookWallet", "bookInsert"}
PodUnlockPCs == {"unlockLock", "unlockFind"}
UpdatePCs == {"unlockUpdate", "sessionStamp", "sessionUpdate"}

Request ==
       [pc: {"idle"}]
  \cup [pc: BookingPCs, pod: Pods, user: Users, rate: Rates, now: Nat]
  \cup [pc: PodUnlockPCs, pod: Pods, now: Nat]
  \cup [pc: UpdatePCs, pod: Pods, session: Sessions, now: Nat]
  \cup [pc: {"refresh"}, pod: Pods, pulse: BOOLEAN]
  \cup [pc: {"pulse"}, pod: Pods]

\* The handler's tail: refreshPollingDataForPod, then publishDoorPulse if due.
Publishing(p, pulse) == [pc |-> "refresh", pod |-> p, pulse |-> pulse]

\* What a booking and the update of an unlock carry from statement to statement.
Booking(stage, p, u, rate, now) ==
  [pc |-> stage, pod |-> p, user |-> u, rate |-> rate, now |-> now]
Unlocking(stage, p, s, now) ==
  [pc |-> stage, pod |-> p, session |-> s, now |-> now]

\* The program counters at which a transaction holds the advisory lock.
LockedPCs == {"bookPod", "bookOverlap", "bookWallet", "bookInsert",
              "unlockFind", "unlockUpdate"}

Release(r) ==
  /\ lock' = [p \in Pods |-> IF lock[p] = r THEN NoRequest ELSE lock[p]]
  /\ walletLock' = [u \in Users |->
                      IF walletLock[u] = r THEN NoRequest ELSE walletLock[u]]

----------------------------------------------------------------------------
(* Rows *)

Existing == {s \in Sessions : sessions[s] # NoRow}

\* Sessions of p the queries of the code can see whose endAt is after t.
EndingAfter(p, t) ==
  {s \in Existing : /\ sessions[s].pod = p
                    /\ ~sessions[s].isDeleted
                    /\ sessions[s].status \in {"CONFIRMED", "CANCELLED",
                                               "EMERGENCY_UNLOCKED"}
                    /\ sessions[s].endAt > t}

\* What a session that nobody deleted and that is not over yet looks like.
Live(p) == EndingAfter(p, clock)

\* findActiveSessionForUser, without the user: an ongoing confirmed session.
Active(s) == /\ sessions[s] # NoRow
             /\ sessions[s].status = "CONFIRMED"
             /\ ~sessions[s].isDeleted
             /\ sessions[s].endAt > clock

Booked == {e.session : e \in ledger}

\* The moment the booking transaction stamped: startAt is now + intro.
BookedAt(s) == sessions[s].startAt - Intro

----------------------------------------------------------------------------
Init ==
  /\ clock = 0
  /\ podOpen = [p \in Pods |-> TRUE]
  /\ sessions = [s \in Sessions |-> NoRow]
  /\ wallet = [u \in Users |-> InitialCredit]
  /\ ledger = {}
  /\ lock = [p \in Pods |-> NoRequest]
  /\ walletLock = [u \in Users |-> NoRequest]
  /\ req = [r \in Requests |-> Idle]
  /\ unpublished = {}
  /\ lost = {} /\ restored = {}
  /\ granted = [u \in Users |-> InitialCredit]

----------------------------------------------------------------------------
(* Booking: createSessionRoute *)

InBooking == {r \in Requests : req[r].pc \in BookingPCs}

\* Bounded so that every booking under way can still get a fresh id.
StartBooking(r, u, p, rate) ==
  /\ req[r] = Idle
  /\ Cardinality(Booked) + Cardinality(InBooking) < Cardinality(Sessions)
  /\ req' = [req EXCEPT ![r] = Booking("bookLock", p, u, rate, 0)]
  /\ UNCHANGED <<clock, database, locks, unpublished, history>>

\* Mutant: the lock statement is dropped, a transaction never waits.
AcquireLockUnguarded(r) ==
  LET q == req[r] IN
  /\ q.pc \in {"bookLock", "unlockLock"}
  /\ lock' = [lock EXCEPT ![q.pod] = r]
  /\ req' = [req EXCEPT ![r] =
               IF q.pc = "bookLock"
               THEN Booking("bookPod", q.pod, q.user, q.rate, q.now)
               ELSE [pc |-> "unlockFind", pod |-> q.pod, now |-> q.now]]
  /\ UNCHANGED <<clock, database, walletLock, unpublished, history>>

\* select pg_advisory_xact_lock(hashtext(podId)): waits while another holds it.
AcquireLock(r) ==
  LET q == req[r] IN
  /\ q.pc \in {"bookLock", "unlockLock"}
  /\ lock[q.pod] = NoRequest
  /\ lock' = [lock EXCEPT ![q.pod] = r]
  /\ req' = [req EXCEPT ![r] =
               IF q.pc = "bookLock"
               THEN Booking("bookPod", q.pod, q.user, q.rate, q.now)
               ELSE [pc |-> "unlockFind", pod |-> q.pod, now |-> q.now]]
  /\ UNCHANGED <<clock, database, walletLock, unpublished, history>>

\* Mutant: a transaction that fails keeps its locks.
RollbackKeepingLocks(r) ==
  /\ req' = [req EXCEPT ![r] = Idle]
  /\ UNCHANGED <<clock, database, locks, unpublished, history>>

\* The transaction throws and is rolled back, or it ends having changed nothing:
\* the locks are released.
Rollback(r) ==
  /\ Release(r)
  /\ req' = [req EXCEPT ![r] = Idle]
  /\ UNCHANGED <<clock, database, unpublished, history>>

\* The pod, its status, the rate slab and the mood preset.
BookCheckPod(r) ==
  LET q == req[r] IN
  /\ q.pc = "bookPod"
  /\ \/ /\ podOpen[q.pod]
        /\ req' = [req EXCEPT ![r] =
                     Booking("bookOverlap", q.pod, q.user, q.rate, q.now)]
        /\ UNCHANGED <<clock, database, locks, unpublished, history>>
     \/ /\ ~podOpen[q.pod]
        /\ Rollback(r)

\* Mutant: only the sessions still running are looked for, not the end delay.
BookCheckRunning(r) ==
  LET q == req[r] IN
  /\ q.pc = "bookOverlap"
  /\ \/ /\ EndingAfter(q.pod, clock) = {}
        /\ req' = [req EXCEPT ![r] =
                     Booking("bookWallet", q.pod, q.user, q.rate, q.now)]
        /\ UNCHANGED <<clock, database, locks, unpublished, history>>
     \/ /\ EndingAfter(q.pod, clock) # {}
        /\ Rollback(r)

\* POD_SESSION_CONFLICT while a session reserves the pod or holds its end delay.
BookCheckOverlap(r) ==
  LET q == req[r] IN
  /\ q.pc = "bookOverlap"
  /\ \/ /\ EndingAfter(q.pod, clock - Delay) = {}
        /\ req' = [req EXCEPT ![r] =
                     Booking("bookWallet", q.pod, q.user, q.rate, q.now)]
        /\ UNCHANGED <<clock, database, locks, unpublished, history>>
     \/ /\ EndingAfter(q.pod, clock - Delay) # {}
        /\ Rollback(r)

\* Mutant: the UPDATE of the wallet has lost its gte(creditMinute, rate.credit).
BookDebitUnconditional(r) ==
  LET q == req[r] IN
  /\ q.pc = "bookWallet"
  /\ walletLock[q.user] = NoRequest
  /\ walletLock' = [walletLock EXCEPT ![q.user] = r]
  /\ req' = [req EXCEPT ![r] =
               Booking("bookInsert", q.pod, q.user, q.rate, clock)]
  /\ UNCHANGED <<clock, database, lock, unpublished, history>>

\* The conditional UPDATE of the wallet waits for its row lock and keeps it; the
\* debit itself shows at commit.  Then `now` is read.  An UPDATE whose condition
\* the committed balance fails matches no row and waits for nobody.
BookDebit(r) ==
  LET q == req[r] IN
  /\ q.pc = "bookWallet"
  /\ \/ /\ walletLock[q.user] = NoRequest
        /\ wallet[q.user] >= q.rate.credit
        /\ walletLock' = [walletLock EXCEPT ![q.user] = r]
        /\ req' = [req EXCEPT ![r] =
                     Booking("bookInsert", q.pod, q.user, q.rate, clock)]
        /\ UNCHANGED <<clock, database, lock, unpublished, history>>
     \/ /\ wallet[q.user] < q.rate.credit
        /\ Rollback(r)

\* Mutants: the commit without its ledger row, and without its debit.
BookCommitUnrecorded(r) ==
  LET q == req[r] IN
  /\ q.pc = "bookInsert"
  /\ \E s \in Sessions \ Booked :
       sessions' = [sessions EXCEPT ![s] =
            [pod |-> q.pod, user |-> q.user, status |-> "CONFIRMED",
             startAt |-> q.now + Intro,
             endAt |-> q.now + Intro + q.rate.minute, isDeleted |-> FALSE]]
  /\ wallet' = [wallet EXCEPT ![q.user] = @ - q.rate.credit]
  /\ Release(r)
  /\ unpublished' = unpublished \cup {q.pod}
  /\ req' = [req EXCEPT ![r] = Publishing(q.pod, TRUE)]
  /\ UNCHANGED <<clock, podOpen, ledger, history>>

\* The inserts of the ledger row, the session and its first two log rows, and
\* the commit.
BookCommit(r) ==
  LET q == req[r] IN
  /\ q.pc = "bookInsert"
  /\ \E s \in Sessions \ Booked :
       /\ sessions' = [sessions EXCEPT ![s] =
            [pod |-> q.pod, user |-> q.user, status |-> "CONFIRMED",
             startAt |-> q.now + Intro,
             endAt |-> q.now + Intro + q.rate.minute, isDeleted |-> FALSE]]
       /\ ledger' = ledger \cup
            {[session |-> s, user |-> q.user, credit |-> q.rate.credit]}
  /\ wallet' = [wallet EXCEPT ![q.user] = @ - q.rate.credit]
  /\ Release(r)
  /\ unpublished' = unpublished \cup {q.pod}
  /\ req' = [req EXCEPT ![r] = Publishing(q.pod, TRUE)]
  /\ UNCHANGED <<clock, podOpen, history>>

----------------------------------------------------------------------------
(* Emergency unlock by pod: emergencyUnlockSessionRoute and the tablet's.   *)
(* `now` is read before the transaction, that is before waiting for the     *)
(* lock.                                                                    *)

StartPodUnlock(r, p) ==
  /\ req[r] = Idle
  /\ req' = [req EXCEPT ![r] = [pc |-> "unlockLock", pod |-> p, now |-> clock]]
  /\ UNCHANGED <<clock, database, locks, unpublished, history>>

\* Mutant: the minimum is added to the delay instead of compared with it.
UnlockWindowSum == Delay + MinUnlockWindow

UnlockWindow == IF Delay >= MinUnlockWindow THEN Delay ELSE MinUnlockWindow

\* The session ending first among those the window shows.
FirstEnding(S) == {s \in S : \A t \in S : sessions[s].endAt <= sessions[t].endAt}

\* No session: 404.  A session that is over or not CONFIRMED is returned as it
\* is, and the door still opens.  Otherwise it will be updated.
UnlockFind(r) ==
  LET q == req[r]
      found == FirstEnding(EndingAfter(q.pod, q.now - UnlockWindow))
  IN
  /\ q.pc = "unlockFind"
  /\ \/ /\ found = {}
        /\ Rollback(r)
     \/ \E s \in found :
          \/ /\ \/ sessions[s].status # "CONFIRMED"
                \/ sessions[s].endAt <= q.now
             /\ Release(r)
             /\ req' = [req EXCEPT ![r] = Publishing(q.pod, TRUE)]
             /\ UNCHANGED <<clock, database, unpublished, history>>
          \/ /\ sessions[s].status = "CONFIRMED"
             /\ sessions[s].endAt > q.now
             /\ req' = [req EXCEPT ![r] =
                          Unlocking("unlockUpdate", q.pod, s, q.now)]
             /\ UNCHANGED <<clock, database, locks, unpublished, history>>

----------------------------------------------------------------------------
(* Emergency unlock by session: no transaction and no advisory lock; the    *)
(* session is looked up, `now` is read, and the row is updated by id.       *)

StartSessionUnlock(r, s) ==
  /\ req[r] = Idle
  /\ Active(s)
  /\ req' = [req EXCEPT ![r] =
               Unlocking("sessionStamp", sessions[s].pod, s, 0)]
  /\ UNCHANGED <<clock, database, locks, unpublished, history>>

SessionUnlockStamp(r) ==
  LET q == req[r] IN
  /\ q.pc = "sessionStamp"
  /\ req' = [req EXCEPT ![r] =
               Unlocking("sessionUpdate", q.pod, q.session, clock)]
  /\ UNCHANGED <<clock, database, locks, unpublished, history>>

Unlocked(row, now) ==
  [row EXCEPT !.status = "EMERGENCY_UNLOCKED", !.endAt = now]

\* UPDATE pod_sessions SET status, end_at WHERE id, shared by both unlocks: it
\* looks at nothing but the id, and finds no row if it was permanently deleted.
UnlockUpdate(r) ==
  LET q == req[r] IN
  /\ q.pc \in {"unlockUpdate", "sessionUpdate"}
  /\ IF q.session \in Existing
     THEN /\ sessions' = [sessions EXCEPT ![q.session] = Unlocked(@, q.now)]
          /\ unpublished' = unpublished \cup {q.pod}
     ELSE UNCHANGED <<sessions, unpublished>>
  /\ Release(r)
  /\ req' = [req EXCEPT ![r] = Publishing(q.pod, TRUE)]
  /\ UNCHANGED <<clock, podOpen, wallet, ledger, history>>

----------------------------------------------------------------------------
(* Administration of sessions: each is one UPDATE or DELETE by id, without  *)
(* the advisory lock, followed by a refresh.                                *)

\* Mutant: the refresh is forgotten.
DeleteSessionSilently(r, s) ==
  /\ req[r] = Idle
  /\ s \in Existing
  /\ sessions' = [sessions EXCEPT ![s] = [@ EXCEPT !.isDeleted = TRUE]]
  /\ unpublished' = unpublished \cup {sessions[s].pod}
  /\ UNCHANGED <<clock, podOpen, wallet, ledger, locks, req, history>>

DeleteSession(r, s) ==
  /\ req[r] = Idle
  /\ s \in Existing
  /\ sessions' = [sessions EXCEPT ![s] = [@ EXCEPT !.isDeleted = TRUE]]
  /\ unpublished' = unpublished \cup {sessions[s].pod}
  /\ req' = [req EXCEPT ![r] = Publishing(sessions[s].pod, FALSE)]
  /\ UNCHANGED <<clock, podOpen, wallet, ledger, locks, history>>

PermanentDeleteSession(r, s) ==
  /\ req[r] = Idle
  /\ s \in Existing
  /\ sessions' = [sessions EXCEPT ![s] = NoRow]
  /\ unpublished' = unpublished \cup {sessions[s].pod}
  /\ req' = [req EXCEPT ![r] = Publishing(sessions[s].pod, FALSE)]
  /\ UNCHANGED <<clock, podOpen, wallet, ledger, locks, history>>

RestoreSession(r, s) ==
  /\ req[r] = Idle
  /\ s \in Existing
  /\ sessions' = [sessions EXCEPT ![s] = [@ EXCEPT !.isDeleted = FALSE]]
  /\ restored' = IF sessions[s].isDeleted THEN restored \cup {s} ELSE restored
  /\ unpublished' = unpublished \cup {sessions[s].pod}
  /\ req' = [req EXCEPT ![r] = Publishing(sessions[s].pod, FALSE)]
  /\ UNCHANGED <<clock, podOpen, wallet, ledger, locks, lost, granted>>

----------------------------------------------------------------------------
(* The tail of the handlers, failures and the environment *)

\* refreshPollingDataForPod reads the pod's session after the commit (what it
\* does with it is modelled with the polling state).
RefreshPod(r) ==
  /\ req[r].pc = "refresh"
  /\ unpublished' = unpublished \ {req[r].pod}
  /\ lost' = lost \ {req[r].pod}
  /\ req' = [req EXCEPT ![r] = IF req[r].pulse
                               THEN [pc |-> "pulse", pod |-> req[r].pod]
                               ELSE Idle]
  /\ UNCHANGED <<clock, database, locks, restored, granted>>

\* publishDoorPulse (what it does to the door is modelled in DoorWindow).
PulseDoor(r) ==
  /\ req[r].pc = "pulse"
  /\ req' = [req EXCEPT ![r] = Idle]
  /\ UNCHANGED <<clock, database, locks, unpublished, history>>

\* The process dies, the connection drops or a statement times out: an open
\* transaction is rolled back, what followed the commit is not done.
Fail(r) ==
  /\ req[r] # Idle
  /\ lost' = IF req[r].pc = "refresh" THEN lost \cup {req[r].pod} ELSE lost
  /\ Release(r)
  /\ req' = [req EXCEPT ![r] = Idle]
  /\ UNCHANGED <<clock, database, unpublished, restored, granted>>

Tick ==
  /\ clock < MaxClock
  /\ clock' = clock + 1
  /\ UNCHANGED <<database, locks, req, unpublished, history>>

\* An administrator opens or closes the pod (routers/records/pods of kernel).
SwitchPod(p) ==
  /\ podOpen' = [podOpen EXCEPT ![p] = ~@]
  /\ UNCHANGED <<clock, sessions, wallet, ledger, locks, req, unpublished, history>>

\* A transfer credits the wallet; it waits for the row lock like any UPDATE.
TopUp(u, n) ==
  /\ walletLock[u] = NoRequest
  /\ granted[u] + n <= MaxCredit
  /\ wallet' = [wallet EXCEPT ![u] = @ + n]
  /\ granted' = [granted EXCEPT ![u] = @ + n]
  /\ UNCHANGED <<clock, podOpen, sessions, ledger, locks, req, unpublished,
                 lost, restored>>

Step(r) ==
  \/ AcquireLock(r)
  \/ BookCheckPod(r)
  \/ BookCheckOverlap(r)
  \/ BookDebit(r)
  \/ BookCommit(r)
  \/ UnlockFind(r)
  \/ SessionUnlockStamp(r)
  \/ UnlockUpdate(r)
  \/ RefreshPod(r)
  \/ PulseDoor(r)

Next ==
  \/ Tick
  \/ \E r \in Requests :
       \/ Step(r)
       \/ Fail(r)
       \/ \E u \in Users, p \in Pods, rate \in Rates : StartBooking(r, u, p, rate)
       \/ \E p \in Pods : StartPodUnlock(r, p)
       \/ \E s \in Sessions :
            \/ StartSessionUnlock(r, s)
            \/ DeleteSession(r, s)
            \/ PermanentDeleteSession(r, s)
            \/ RestoreSession(r, s)
  \/ \E p \in Pods : SwitchPod(p)
  \/ \E u \in Users, n \in TopUps : TopUp(u, n)

Spec == Init /\ [][Next]_vars

\* A handler that started goes on; PostgreSQL grants a contended lock in the
\* order it was asked for, so a waiter that keeps seeing it free gets it.
Fairness ==
  \A r \in Requests :
    /\ WF_vars(Step(r))
    /\ SF_vars(AcquireLock(r))
    /\ SF_vars(BookDebit(r))

FairSpec == Spec /\ Fairness /\ WF_vars(Tick)

----------------------------------------------------------------------------
(* Type invariant *)

\* The shape of every variable; a balance is never negative, which is what the
\* conditional debit of the booking is there for.
TypeOK ==
  /\ clock \in Nat
  /\ podOpen \in [Pods -> BOOLEAN]
  /\ sessions \in [Sessions -> SessionRow \cup {NoRow}]
  /\ wallet \in [Users -> Nat]
  /\ ledger \subseteq [session: Sessions, user: Users, credit: Nat \ {0}]
  /\ lock \in [Pods -> Requests \cup {NoRequest}]
  /\ walletLock \in [Users -> Requests \cup {NoRequest}]
  /\ req \in [Requests -> Request]
  /\ unpublished \subseteq Pods
  /\ lost \subseteq Pods
  /\ restored \subseteq Sessions
  /\ granted \in [Users -> Nat]

----------------------------------------------------------------------------
(* Safety *)

\* The reservation of p: its live sessions, those a restore brought back apart.
Holders(p) == Live(p) \ restored

\* A pod is never booked twice: of two different live sessions of one pod, one
\* was brought back by a restore, which checks nothing (createSessionRoute's
\* advisory lock and overlap check).
NoDoubleBooking ==
  \A p \in Pods : \A s, t \in Holders(p) : s = t

\* The same without the exception: "Advisory lock on podId (prevents double
\* booking)" (ARCHITECTURE.md, booking flow).
OneSessionPerPod ==
  \A p \in Pods : \A s, t \in Live(p) : s = t

\* A confirmed session keeps the pod to itself until its end delay is over:
\* whatever was booked later was booked after that (the overlap check of
\* createSessionRoute, "recently ended sessions hold the unlock delay").
HoldRespected ==
  \A s, t \in Existing \ restored :
    /\ sessions[s].pod = sessions[t].pod
    /\ ~sessions[s].isDeleted /\ ~sessions[t].isDeleted
    /\ sessions[s].status = "CONFIRMED"
    /\ BookedAt(s) < BookedAt(t)
    => sessions[s].endAt + Delay <= BookedAt(t)

\* An emergency-unlocked session is over, whatever the order in which the
\* unlocks of the door, the tablet and the app read their `now` and wrote it.
UnlockedIsOver ==
  \A s \in Existing :
    sessions[s].status = "EMERGENCY_UNLOCKED" => sessions[s].endAt <= clock

\* Every session has been paid for exactly once, by its user, and a debit names
\* a session that was booked: no interleaving of two bookings, and no failure
\* between debit and insert, charges twice or books for free.
PaidExactlyOnce ==
  \A s \in Existing :
    /\ \E e \in ledger : e.session = s /\ e.user = sessions[s].user
    /\ \A e, f \in ledger : e.session = s /\ f.session = s => e = f

\* A committed change of a pod's sessions is always followed by a refresh of the
\* pod: one is still due, or the process that owed it failed.
ChangesGetPublished ==
  \A p \in unpublished :
    \/ p \in lost
    \/ \E r \in Requests : req[r].pc = "refresh" /\ req[r].pod = p

----------------------------------------------------------------------------
(* Action properties *)

\* A session that is over stays over: no unlock, however late, brings it back.
OverStaysOver ==
  [][\A p \in Pods : \A s \in Existing :
       (s \in Live(p)' /\ sessions[s].pod = p)
         => s \in Live(p) \/ sessions[s].isDeleted]_vars

\* Only a booking takes credit from a wallet, and it takes what it records.
DebitsAreRecorded ==
  [][\A u \in Users :
       wallet'[u] < wallet[u] =>
         \E e \in ledger' : /\ e \notin ledger
                            /\ e.user = u
                            /\ e.credit = wallet[u] - wallet'[u]
                            /\ ledger' = ledger \cup {e}]_vars

\* Sessions an emergency unlock of p that read its clock at t must not overlook.
\* Those behind a row that an unlock by session moved to a later end are left
\* out: the lookup meets that row first.
Reachable(p, t) ==
  {s \in Holders(p) :
     /\ BookedAt(s) <= t
     /\ ~\E o \in Existing : /\ sessions[o].status = "EMERGENCY_UNLOCKED"
                             /\ sessions[o].endAt + Delay > BookedAt(s)
                             /\ sessions[o].pod = p}

\* When an emergency unlock by pod has answered, the session that was live when
\* the button was pressed is over ("Emergency unlock the active session for an
\* OMMPod", routers/sessions/schema.ts).
UnlockEndsActiveSession ==
  [][\A r \in Requests, p \in Pods, t \in 0..clock :
       /\ req[r].pc \in {"unlockFind", "unlockUpdate"}
       /\ req[r].pod = p /\ req[r].now = t
       /\ req'[r].pc = "refresh"
       /\ restored = {}
       => Reachable(p, t)' = {}]_vars

----------------------------------------------------------------------------
(* Liveness *)

\* Every request is answered: no order of locks leaves two waiting for each other,
\* and no path forgets to release one.
RequestsAnswered ==
  \A r \in Requests : req[r] # Idle ~> req[r] = Idle

----------------------------------------------------------------------------
(* Refinement *)

Reservations ==
  INSTANCE PodReservations WITH
    holders <- [p \in Pods |-> Holders(p)],
    balance <- wallet,
    charged <- Booked

\* The handlers, with their locks, failures and late writes, implement the
\* indivisible reservation: what they do to a pod, a balance and the set of paid
\* sessions is a step of PodReservations or nothing.
ImplementsReservations == Reservations!Spec
=============================================================================
