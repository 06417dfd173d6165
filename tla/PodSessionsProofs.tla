------------------------- MODULE PodSessionsProofs -------------------------
(***************************************************************************)
(* Proofs about PodSessions, for any sets of pods, users, session ids and  *)
(* requests, any rates, delays and bounds.                                 *)
(***************************************************************************)
EXTENDS PodSessions, TLAPS

----------------------------------------------------------------------------
(* The inductive invariant *)

\* A transaction past its lock statement holds the advisory lock of its pod, so
\* no two requests are in that section for one pod.
LockHeld ==
  \A r \in Requests : req[r].pc \in LockedPCs => lock[req[r].pod] = r

\* Between the debit and the commit the wallet row is locked and still covers
\* the debit.
DebitCovered ==
  \A r \in Requests :
    req[r].pc = "bookInsert" =>
      /\ walletLock[req[r].user] = r
      /\ wallet[req[r].user] >= req[r].rate.credit

\* The clock readings the handlers carry are not in the future.
NowIsPast ==
  \A r \in Requests :
    req[r].pc \in BookingPCs \cup PodUnlockPCs \cup UpdatePCs =>
      req[r].now <= clock

\* Past the overlap check nothing reserves the pod.
ClearAhead ==
  \A r \in Requests :
    req[r].pc \in {"bookWallet", "bookInsert"} => Holders(req[r].pod) = {}

IInv ==
  /\ TypeOK
  /\ LockHeld
  /\ DebitCovered
  /\ NowIsPast
  /\ ClearAhead
  /\ NoDoubleBooking
  /\ PaidExactlyOnce
  /\ UnlockedIsOver
  /\ ChangesGetPublished

USE ConstantsAssumption

\* The initial state has its type.
LEMMA InitType == Init => TypeOK
  BY DEF Init, TypeOK, Request, Idle

\* The fields of a request, by program counter.
LEMMA BookingFields ==
  ASSUME TypeOK, NEW r \in Requests, req[r].pc \in BookingPCs
  PROVE  /\ req[r].pod \in Pods /\ req[r].user \in Users
         /\ req[r].rate \in Rates /\ req[r].now \in Nat
  BY DEF TypeOK, Request, BookingPCs, PodUnlockPCs, UpdatePCs

\* The fields of an unlock by pod.
LEMMA UnlockFields ==
  ASSUME TypeOK, NEW r \in Requests, req[r].pc \in PodUnlockPCs
  PROVE  req[r].pod \in Pods /\ req[r].now \in Nat
  BY DEF TypeOK, Request, BookingPCs, PodUnlockPCs, UpdatePCs

\* The fields of an unlock about to update its session.
LEMMA UpdateFields ==
  ASSUME TypeOK, NEW r \in Requests, req[r].pc \in UpdatePCs
  PROVE  req[r].pod \in Pods /\ req[r].session \in Sessions /\ req[r].now \in Nat
  BY DEF TypeOK, Request, BookingPCs, PodUnlockPCs, UpdatePCs

\* A session keeps the shape of its row when its end is updated.
LEMMA UnlockedType ==
  ASSUME NEW row \in SessionRow, NEW now \in Int
  PROVE  Unlocked(row, now) \in SessionRow
  BY DEF Unlocked, SessionRow, Statuses

\* Every step keeps the types; the debit needs DebitCovered to stay in Nat.
LEMMA NextType ==
  ASSUME TypeOK, DebitCovered, [Next]_vars
  PROVE  TypeOK'
<1> USE DEF TypeOK, Request, BookingPCs, PodUnlockPCs, UpdatePCs, database, history,
            locks, Release, Publishing, Rollback, Idle, Booking, Unlocking
<1>1. ASSUME NEW r \in Requests, AcquireLock(r) PROVE TypeOK'
  BY <1>1 DEF AcquireLock
<1>2. ASSUME NEW r \in Requests, BookCheckPod(r) PROVE TypeOK'
  <2>. DEFINE q == req[r]
  <2>1. q.pod \in Pods /\ q.user \in Users /\ q.rate \in Rates /\ q.now \in Nat
    BY <1>2, BookingFields DEF BookCheckPod
  <2>2. CASE podOpen[q.pod]
    BY <1>2, <2>1, <2>2 DEF BookCheckPod
  <2>3. CASE ~podOpen[q.pod]
    BY <1>2, <2>3 DEF BookCheckPod
  <2>. QED BY <2>2, <2>3
<1>3. ASSUME NEW r \in Requests, BookCheckOverlap(r) PROVE TypeOK'
  BY <1>3 DEF BookCheckOverlap
<1>4. ASSUME NEW r \in Requests, BookDebit(r) PROVE TypeOK'
  <2>. DEFINE q == req[r]
  <2>1. q.pod \in Pods /\ q.user \in Users /\ q.rate \in Rates /\ q.now \in Nat
    BY <1>4, BookingFields DEF BookDebit
  <2>2. CASE q.rate.credit <= wallet[q.user] /\ walletLock[q.user] = NoRequest
    BY <1>4, <2>1, <2>2 DEF BookDebit
  <2>3. CASE req' = [req EXCEPT ![r] = Idle]
    BY <1>4, <2>3 DEF BookDebit
  <2>. QED BY <1>4, <2>2, <2>3 DEF BookDebit
<1>5. ASSUME NEW r \in Requests, BookCommit(r) PROVE TypeOK'
  BY <1>5 DEF BookCommit, DebitCovered, RateSlab, SessionRow, Statuses
<1>6. ASSUME NEW r \in Requests, UnlockFind(r) PROVE TypeOK'
  <2>. DEFINE q == req[r]
  <2>1. q.pod \in Pods /\ q.now \in Nat
    BY <1>6, UnlockFields DEF UnlockFind
  <2>2. CASE req' = [req EXCEPT ![r] = Idle]
    BY <1>6, <2>2 DEF UnlockFind
  <2>3. CASE req' = [req EXCEPT ![r] = Publishing(q.pod, TRUE)]
    BY <1>6, <2>1, <2>3 DEF UnlockFind
  <2>4. ASSUME NEW s \in Sessions,
               req' = [req EXCEPT ![r] = Unlocking("unlockUpdate", q.pod, s, q.now)],
               UNCHANGED <<clock, database, locks, unpublished, history>>
        PROVE  TypeOK'
    BY <2>1, <2>4
  <2>5. FirstEnding(EndingAfter(q.pod, q.now - UnlockWindow)) \subseteq Sessions
    BY DEF FirstEnding, EndingAfter, Existing
  <2>. QED BY <1>6, <2>2, <2>3, <2>4, <2>5 DEF UnlockFind
<1>7. ASSUME NEW r \in Requests, SessionUnlockStamp(r) PROVE TypeOK'
  BY <1>7 DEF SessionUnlockStamp
<1>8. ASSUME NEW r \in Requests, UnlockUpdate(r) PROVE TypeOK'
  <2>. DEFINE q == req[r]
  <2>1. q.pod \in Pods /\ q.session \in Sessions /\ q.now \in Nat
    BY <1>8, UpdateFields DEF UnlockUpdate
  <2>2. sessions' \in [Sessions -> SessionRow \cup {NoRow}]
    <3>1. CASE q.session \in Existing
      <4>1. Unlocked(sessions[q.session], q.now) \in SessionRow
        <5>1. sessions[q.session] \in SessionRow
          BY <2>1, <3>1 DEF Existing
        <5>. QED BY <2>1, <5>1, UnlockedType
      <4>2. sessions' = [sessions EXCEPT ![q.session] = Unlocked(sessions[q.session], q.now)]
        BY <1>8, <3>1 DEF UnlockUpdate
      <4>. QED BY <2>1, <4>1, <4>2
    <3>2. CASE q.session \notin Existing
      BY <1>8, <3>2 DEF UnlockUpdate
    <3>. QED BY <3>1, <3>2
  <2>3. unpublished' \subseteq Pods
    BY <1>8, <2>1 DEF UnlockUpdate
  <2>. QED BY <1>8, <2>1, <2>2, <2>3 DEF UnlockUpdate
<1>9. ASSUME NEW r \in Requests, RefreshPod(r) PROVE TypeOK'
  BY <1>9 DEF RefreshPod
<1>10. ASSUME NEW r \in Requests, PulseDoor(r) PROVE TypeOK'
  BY <1>10 DEF PulseDoor
<1>11. ASSUME NEW r \in Requests, Fail(r) PROVE TypeOK'
  BY <1>11 DEF Fail
<1>12. ASSUME NEW r \in Requests, NEW s \in Sessions, DeleteSession(r, s) PROVE TypeOK'
  BY <1>12 DEF DeleteSession, SessionRow, Existing
<1>13. ASSUME NEW r \in Requests, NEW s \in Sessions, PermanentDeleteSession(r, s)
      PROVE  TypeOK'
  BY <1>13 DEF PermanentDeleteSession, SessionRow, Existing
<1>14. ASSUME NEW r \in Requests, NEW s \in Sessions, RestoreSession(r, s) PROVE TypeOK'
  BY <1>14 DEF RestoreSession, SessionRow, Existing
<1>15. ASSUME NEW r \in Requests, NEW s \in Sessions, StartSessionUnlock(r, s) PROVE TypeOK'
  BY <1>15 DEF StartSessionUnlock, SessionRow, Active
<1>16. ASSUME NEW r \in Requests, NEW u \in Users, NEW p \in Pods, NEW rate \in
              Rates, StartBooking(r, u, p, rate)
      PROVE  TypeOK'
  BY <1>16 DEF StartBooking
<1>17. ASSUME NEW r \in Requests, NEW p \in Pods, StartPodUnlock(r, p) PROVE TypeOK'
  BY <1>17 DEF StartPodUnlock
<1>18. CASE Tick
  BY <1>18 DEF Tick
<1>21. ASSUME NEW p \in Pods, SwitchPod(p) PROVE TypeOK'
  BY <1>21 DEF SwitchPod
<1>19. ASSUME NEW u \in Users, NEW n \in TopUps, TopUp(u, n) PROVE TypeOK'
  BY <1>19 DEF TopUp
<1>20. CASE UNCHANGED vars
  BY <1>20 DEF vars
<1>. QED
  BY <1>1, <1>2, <1>3, <1>4, <1>5, <1>6, <1>7, <1>8, <1>9, <1>10, <1>11, <1>12, <1>13,
     <1>14, <1>15, <1>16, <1>17, <1>18, <1>19, <1>20, <1>21 DEF Next, Step

\* The advisory lock goes from one transaction to the next.
LEMMA NextLockHeld ==
  ASSUME TypeOK, LockHeld, [Next]_vars
  PROVE  LockHeld'
<1> USE DEF TypeOK, Request, BookingPCs, PodUnlockPCs, UpdatePCs, database, history,
            locks, Release, Publishing, Rollback, Idle, Booking, Unlocking, LockHeld, LockedPCs
<1>1. ASSUME NEW r \in Requests, AcquireLock(r) PROVE LockHeld'
  BY <1>1 DEF AcquireLock
<1>2. ASSUME NEW r \in Requests, BookCheckPod(r) PROVE LockHeld'
  BY <1>2 DEF BookCheckPod
<1>3. ASSUME NEW r \in Requests, BookCheckOverlap(r) PROVE LockHeld'
  BY <1>3 DEF BookCheckOverlap
<1>4. ASSUME NEW r \in Requests, BookDebit(r) PROVE LockHeld'
  BY <1>4 DEF BookDebit
<1>5. ASSUME NEW r \in Requests, BookCommit(r) PROVE LockHeld'
  BY <1>5 DEF BookCommit
<1>6. ASSUME NEW r \in Requests, UnlockFind(r) PROVE LockHeld'
  BY <1>6 DEF UnlockFind
<1>7. ASSUME NEW r \in Requests, SessionUnlockStamp(r) PROVE LockHeld'
  BY <1>7 DEF SessionUnlockStamp
<1>8. ASSUME NEW r \in Requests, UnlockUpdate(r) PROVE LockHeld'
  BY <1>8 DEF UnlockUpdate
<1>9. ASSUME NEW r \in Requests, RefreshPod(r) PROVE LockHeld'
  BY <1>9 DEF RefreshPod
<1>10. ASSUME NEW r \in Requests, PulseDoor(r) PROVE LockHeld'
  BY <1>10 DEF PulseDoor
<1>11. ASSUME NEW r \in Requests, Fail(r) PROVE LockHeld'
  BY <1>11 DEF Fail
<1>12. ASSUME NEW r \in Requests, NEW s \in Sessions, DeleteSession(r, s) PROVE LockHeld'
  BY <1>12 DEF DeleteSession
<1>13. ASSUME NEW r \in Requests, NEW s \in Sessions, PermanentDeleteSession(r, s)
      PROVE  LockHeld'
  BY <1>13 DEF PermanentDeleteSession
<1>14. ASSUME NEW r \in Requests, NEW s \in Sessions, RestoreSession(r, s) PROVE LockHeld'
  BY <1>14 DEF RestoreSession
<1>15. ASSUME NEW r \in Requests, NEW s \in Sessions, StartSessionUnlock(r, s)
      PROVE  LockHeld'
  BY <1>15 DEF StartSessionUnlock
<1>16. ASSUME NEW r \in Requests, NEW u \in Users, NEW p \in Pods, NEW rate \in
              Rates, StartBooking(r, u, p, rate)
      PROVE  LockHeld'
  BY <1>16 DEF StartBooking
<1>17. ASSUME NEW r \in Requests, NEW p \in Pods, StartPodUnlock(r, p) PROVE LockHeld'
  BY <1>17 DEF StartPodUnlock
<1>18. ASSUME Tick PROVE LockHeld'
  BY <1>18 DEF Tick
<1>19. ASSUME NEW p \in Pods, SwitchPod(p) PROVE LockHeld'
  BY <1>19 DEF SwitchPod
<1>20. ASSUME NEW u \in Users, NEW n \in TopUps, TopUp(u, n) PROVE LockHeld'
  BY <1>20 DEF TopUp
<1>21. CASE UNCHANGED vars
  BY <1>21 DEF vars
<1>. QED
  BY <1>1, <1>2, <1>3, <1>4, <1>5, <1>6, <1>7, <1>8, <1>9, <1>10, <1>11, <1>12, <1>13,
     <1>14, <1>15, <1>16, <1>17, <1>18, <1>19, <1>20, <1>21 DEF Next, Step

\* Nobody else changes a wallet whose row a booking has locked.
LEMMA NextDebitCovered ==
  ASSUME TypeOK, DebitCovered, [Next]_vars
  PROVE  DebitCovered'
<1> USE DEF TypeOK, Request, BookingPCs, PodUnlockPCs, UpdatePCs, database, history,
            locks, Release, Publishing, Rollback, Idle, Booking, Unlocking, DebitCovered, RateSlab
<1>1. ASSUME NEW r \in Requests, AcquireLock(r) PROVE DebitCovered'
  BY <1>1 DEF AcquireLock
<1>2. ASSUME NEW r \in Requests, BookCheckPod(r) PROVE DebitCovered'
  BY <1>2 DEF BookCheckPod
<1>3. ASSUME NEW r \in Requests, BookCheckOverlap(r) PROVE DebitCovered'
  BY <1>3 DEF BookCheckOverlap
<1>4. ASSUME NEW r \in Requests, BookDebit(r) PROVE DebitCovered'
  BY <1>4 DEF BookDebit
<1>5. ASSUME NEW r \in Requests, BookCommit(r) PROVE DebitCovered'
  BY <1>5 DEF BookCommit
<1>6. ASSUME NEW r \in Requests, UnlockFind(r) PROVE DebitCovered'
  BY <1>6 DEF UnlockFind
<1>7. ASSUME NEW r \in Requests, SessionUnlockStamp(r) PROVE DebitCovered'
  BY <1>7 DEF SessionUnlockStamp
<1>8. ASSUME NEW r \in Requests, UnlockUpdate(r) PROVE DebitCovered'
  BY <1>8 DEF UnlockUpdate
<1>9. ASSUME NEW r \in Requests, RefreshPod(r) PROVE DebitCovered'
  BY <1>9 DEF RefreshPod
<1>10. ASSUME NEW r \in Requests, PulseDoor(r) PROVE DebitCovered'
  BY <1>10 DEF PulseDoor
<1>11. ASSUME NEW r \in Requests, Fail(r) PROVE DebitCovered'
  BY <1>11 DEF Fail
<1>12. ASSUME NEW r \in Requests, NEW s \in Sessions, DeleteSession(r, s)
      PROVE  DebitCovered'
  BY <1>12 DEF DeleteSession
<1>13. ASSUME NEW r \in Requests, NEW s \in Sessions, PermanentDeleteSession(r, s)
      PROVE  DebitCovered'
  BY <1>13 DEF PermanentDeleteSession
<1>14. ASSUME NEW r \in Requests, NEW s \in Sessions, RestoreSession(r, s)
      PROVE  DebitCovered'
  BY <1>14 DEF RestoreSession
<1>15. ASSUME NEW r \in Requests, NEW s \in Sessions, StartSessionUnlock(r, s)
      PROVE  DebitCovered'
  BY <1>15 DEF StartSessionUnlock
<1>16. ASSUME NEW r \in Requests, NEW u \in Users, NEW p \in Pods, NEW rate \in
              Rates, StartBooking(r, u, p, rate)
      PROVE  DebitCovered'
  BY <1>16 DEF StartBooking
<1>17. ASSUME NEW r \in Requests, NEW p \in Pods, StartPodUnlock(r, p) PROVE DebitCovered'
  BY <1>17 DEF StartPodUnlock
<1>18. ASSUME Tick PROVE DebitCovered'
  BY <1>18 DEF Tick
<1>19. ASSUME NEW p \in Pods, SwitchPod(p) PROVE DebitCovered'
  BY <1>19 DEF SwitchPod
<1>20. ASSUME NEW u \in Users, NEW n \in TopUps, TopUp(u, n) PROVE DebitCovered'
  BY <1>20 DEF TopUp
<1>21. CASE UNCHANGED vars
  BY <1>21 DEF vars
<1>. QED
  BY <1>1, <1>2, <1>3, <1>4, <1>5, <1>6, <1>7, <1>8, <1>9, <1>10, <1>11, <1>12, <1>13,
     <1>14, <1>15, <1>16, <1>17, <1>18, <1>19, <1>20, <1>21 DEF Next, Step

\* A request reads the clock once, and the clock only moves forward.
LEMMA NextNowIsPast ==
  ASSUME TypeOK, NowIsPast, [Next]_vars
  PROVE  NowIsPast'
<1> USE DEF TypeOK, Request, BookingPCs, PodUnlockPCs, UpdatePCs, database, history,
            locks, Release, Publishing, Rollback, Idle, Booking, Unlocking, NowIsPast
<1>1. ASSUME NEW r \in Requests, AcquireLock(r) PROVE NowIsPast'
  BY <1>1 DEF AcquireLock
<1>2. ASSUME NEW r \in Requests, BookCheckPod(r) PROVE NowIsPast'
  BY <1>2 DEF BookCheckPod
<1>3. ASSUME NEW r \in Requests, BookCheckOverlap(r) PROVE NowIsPast'
  BY <1>3 DEF BookCheckOverlap
<1>4. ASSUME NEW r \in Requests, BookDebit(r) PROVE NowIsPast'
  BY <1>4 DEF BookDebit
<1>5. ASSUME NEW r \in Requests, BookCommit(r) PROVE NowIsPast'
  BY <1>5 DEF BookCommit
<1>6. ASSUME NEW r \in Requests, UnlockFind(r) PROVE NowIsPast'
  BY <1>6 DEF UnlockFind
<1>7. ASSUME NEW r \in Requests, SessionUnlockStamp(r) PROVE NowIsPast'
  BY <1>7 DEF SessionUnlockStamp
<1>8. ASSUME NEW r \in Requests, UnlockUpdate(r) PROVE NowIsPast'
  BY <1>8 DEF UnlockUpdate
<1>9. ASSUME NEW r \in Requests, RefreshPod(r) PROVE NowIsPast'
  BY <1>9 DEF RefreshPod
<1>10. ASSUME NEW r \in Requests, PulseDoor(r) PROVE NowIsPast'
  BY <1>10 DEF PulseDoor
<1>11. ASSUME NEW r \in Requests, Fail(r) PROVE NowIsPast'
  BY <1>11 DEF Fail
<1>12. ASSUME NEW r \in Requests, NEW s \in Sessions, DeleteSession(r, s) PROVE NowIsPast'
  BY <1>12 DEF DeleteSession
<1>13. ASSUME NEW r \in Requests, NEW s \in Sessions, PermanentDeleteSession(r, s)
      PROVE  NowIsPast'
  BY <1>13 DEF PermanentDeleteSession
<1>14. ASSUME NEW r \in Requests, NEW s \in Sessions, RestoreSession(r, s) PROVE NowIsPast'
  BY <1>14 DEF RestoreSession
<1>15. ASSUME NEW r \in Requests, NEW s \in Sessions, StartSessionUnlock(r, s)
      PROVE  NowIsPast'
  BY <1>15 DEF StartSessionUnlock
<1>16. ASSUME NEW r \in Requests, NEW u \in Users, NEW p \in Pods, NEW rate \in
              Rates, StartBooking(r, u, p, rate)
      PROVE  NowIsPast'
  BY <1>16 DEF StartBooking
<1>17. ASSUME NEW r \in Requests, NEW p \in Pods, StartPodUnlock(r, p) PROVE NowIsPast'
  BY <1>17 DEF StartPodUnlock
<1>18. ASSUME Tick PROVE NowIsPast'
  BY <1>18 DEF Tick
<1>19. ASSUME NEW p \in Pods, SwitchPod(p) PROVE NowIsPast'
  BY <1>19 DEF SwitchPod
<1>20. ASSUME NEW u \in Users, NEW n \in TopUps, TopUp(u, n) PROVE NowIsPast'
  BY <1>20 DEF TopUp
<1>21. CASE UNCHANGED vars
  BY <1>21 DEF vars
<1>. QED
  BY <1>1, <1>2, <1>3, <1>4, <1>5, <1>6, <1>7, <1>8, <1>9, <1>10, <1>11, <1>12, <1>13,
     <1>14, <1>15, <1>16, <1>17, <1>18, <1>19, <1>20, <1>21 DEF Next, Step

----------------------------------------------------------------------------
(* Who holds a pod *)

\* Nothing but a booking's commit gives a pod a holder: the end of a session only
\* moves to a time that is past, and a restored session is not counted.
LEMMA HoldersShrink ==
  ASSUME TypeOK, NowIsPast, [Next]_vars, NEW p \in Pods,
         \A r \in Requests : ~BookCommit(r)
  PROVE  Holders(p)' \subseteq Holders(p)
<1> USE DEF TypeOK, database, history, locks, Rollback, Holders, Live, EndingAfter, Existing
<1>1. ASSUME NEW r \in Requests, UnlockUpdate(r) PROVE Holders(p)' \subseteq Holders(p)
  <2>. DEFINE q == req[r]
  <2>1. q.session \in Sessions /\ q.now \in Nat /\ q.now <= clock
    BY <1>1, UpdateFields DEF UnlockUpdate, NowIsPast, UpdatePCs
  <2>2. CASE q.session \in Existing
    <3>1. sessions[q.session] \in SessionRow
      BY <2>1, <2>2
    <3>2. sessions' = [sessions EXCEPT ![q.session] = Unlocked(sessions[q.session], q.now)]
      BY <1>1, <2>2 DEF UnlockUpdate
    <3>3. sessions'[q.session].endAt = q.now
      BY <2>1, <3>1, <3>2 DEF Unlocked, SessionRow
    <3>4. clock' = clock /\ restored' = restored
      BY <1>1 DEF UnlockUpdate
    <3>5. q.session \notin Holders(p)'
      BY <2>1, <3>3, <3>4
    <3>6. \A s \in Sessions \ {q.session} : sessions'[s] = sessions[s]
      BY <3>2
    <3>. QED BY <3>4, <3>5, <3>6
  <2>3. CASE q.session \notin Existing
    BY <1>1, <2>3 DEF UnlockUpdate
  <2>. QED BY <2>2, <2>3
<1>2. ASSUME NEW r \in Requests, NEW s \in Sessions, DeleteSession(r, s)
      PROVE  Holders(p)' \subseteq Holders(p)
  BY <1>2 DEF DeleteSession, SessionRow
<1>3. ASSUME NEW r \in Requests, NEW s \in Sessions, PermanentDeleteSession(r, s)
      PROVE  Holders(p)' \subseteq Holders(p)
  BY <1>3 DEF PermanentDeleteSession
<1>4. ASSUME NEW r \in Requests, NEW s \in Sessions, RestoreSession(r, s)
      PROVE  Holders(p)' \subseteq Holders(p)
  BY <1>4 DEF RestoreSession, SessionRow
<1>5. CASE Tick
  BY <1>5 DEF Tick, SessionRow
<1>6. CASE UNCHANGED <<clock, sessions, restored>>
  BY <1>6
<1>. HIDE DEF TypeOK, Holders, Live, EndingAfter, Existing
<1>7. UNCHANGED <<clock, sessions, restored>> \/ Tick
      \/ \E r \in Requests : \/ UnlockUpdate(r)
                             \/ \E s \in Sessions : \/ DeleteSession(r, s)
                                                    \/ PermanentDeleteSession(r, s)
                                                    \/ RestoreSession(r, s)
  BY DEF Next, Step, vars, AcquireLock, BookCheckPod, BookCheckOverlap, BookDebit,
         UnlockFind, SessionUnlockStamp, RefreshPod, PulseDoor, Fail, StartBooking,
         StartPodUnlock, StartSessionUnlock, SwitchPod, TopUp
<1>. QED BY <1>1, <1>2, <1>3, <1>4, <1>5, <1>6, <1>7

\* A booking that commits holds its own pod at most, and no other pod changes.
LEMMA CommitHolders ==
  ASSUME TypeOK, PaidExactlyOnce, ClearAhead, NEW r \in Requests, BookCommit(r),
         NEW o \in Pods, o = req[r].pod
  PROVE  \E s \in Sessions \ Booked :
           /\ sessions[s] = NoRow
           /\ Booked' = Booked \cup {s}
           /\ Holders(o)' \in {{}, {s}}
           /\ \A p \in Pods \ {o} : Holders(p)' = Holders(p)
<1>. DEFINE q == req[r]
<1>1. q.pod \in Pods /\ q.user \in Users /\ q.rate \in Rates /\ q.now \in Nat
  BY BookingFields DEF BookCommit, BookingPCs
<1>. DEFINE row == [pod |-> q.pod, user |-> q.user, status |-> "CONFIRMED",
                    startAt |-> q.now + Intro,
                    endAt |-> q.now + Intro + q.rate.minute, isDeleted |-> FALSE]
            entry(s) == [session |-> s, user |-> q.user, credit |-> q.rate.credit]
<1>2. PICK s \in Sessions \ Booked :
        sessions' = [sessions EXCEPT ![s] = row] /\ ledger' = ledger \cup {entry(s)}
  BY DEF BookCommit
<1>3. sessions[s] = NoRow
  BY <1>2 DEF PaidExactlyOnce, Booked, Existing
<1>4. Booked' = Booked \cup {s}
  <2>1. entry(s).session = s
    OBVIOUS
  <2>2. Booked' = {e.session : e \in ledger \cup {entry(s)}}
    BY <1>2 DEF Booked
  <2>. HIDE DEF entry
  <2>. QED BY <2>1, <2>2 DEF Booked
<1>5. clock' = clock /\ restored' = restored
  BY DEF BookCommit, history
<1>6. sessions'[s] = row /\ \A t \in Sessions \ {s} : sessions'[t] = sessions[t]
  BY <1>2 DEF TypeOK
<1>7. \A p \in Pods : Holders(p)' \subseteq Holders(p) \cup {s}
  BY <1>5, <1>6 DEF Holders, Live, EndingAfter, Existing
<1>8. \A p \in Pods : Holders(p) \subseteq Holders(p)'
  BY <1>3, <1>5, <1>6 DEF Holders, Live, EndingAfter, Existing
<1>9. \A p \in Pods \ {o} : s \notin Holders(p)'
  BY <1>6 DEF Holders, Live, EndingAfter, Existing
<1>10. Holders(o) = {}
  BY DEF ClearAhead, BookCommit
<1>11. Holders(o)' \in {{}, {s}}
  BY <1>1, <1>7, <1>10
<1>12. \A p \in Pods \ {o} : Holders(p)' = Holders(p)
  <2>. TAKE p \in Pods \ {o}
  <2>1. Holders(p)' \subseteq Holders(p) \cup {s}
    BY <1>7
  <2>2. Holders(p) \subseteq Holders(p)'
    BY <1>8
  <2>3. s \notin Holders(p)'
    BY <1>9
  <2>. QED BY <2>1, <2>2, <2>3
<1>. QED BY <1>2, <1>3, <1>4, <1>11, <1>12

\* While a booking is past the overlap check nobody else books the pod.
LEMMA NextClearAhead ==
  ASSUME TypeOK, LockHeld, NowIsPast, PaidExactlyOnce, ClearAhead, [Next]_vars
  PROVE  ClearAhead'
<1> SUFFICES ASSUME NEW b \in Requests, req'[b].pc \in {"bookWallet", "bookInsert"},
                    NEW p, p = req'[b].pod
             PROVE  Holders(p)' = {}
  BY DEF ClearAhead
<1>1. CASE \E r \in Requests : BookCommit(r)
  <2>1. PICK r \in Requests : BookCommit(r)
    BY <1>1
  <2>2. req' = [req EXCEPT ![r] = Publishing(req[r].pod, TRUE)]
    BY <2>1 DEF BookCommit
  <2>3. b # r /\ req'[b] = req[b]
    BY <2>2 DEF TypeOK, Publishing
  <2>4. p \in Pods /\ req[r].pod \in Pods
    BY <2>1, <2>3, BookingFields DEF BookCommit, BookingPCs
  <2>5. lock[p] = b /\ lock[req[r].pod] = r
    BY <2>1, <2>3 DEF LockHeld, LockedPCs, BookCommit
  <2>6. Holders(p)' = Holders(p)
    BY <2>1, <2>3, <2>4, <2>5, CommitHolders
  <2>7. Holders(p) = {}
    BY <2>3 DEF ClearAhead
  <2>. QED BY <2>6, <2>7
<1>2. CASE \A r \in Requests : ~BookCommit(r)
  <2>1. \/ req[b].pc \in {"bookWallet", "bookInsert"} /\ req[b].pod = p
        \/ BookCheckOverlap(b) /\ req[b].pod = p
           /\ EndingAfter(p, clock - Delay) = {}
    BY <1>2 DEF Next, Step, vars, TypeOK, AcquireLock, BookCheckPod, BookCheckOverlap,
         BookDebit, UnlockFind, SessionUnlockStamp, UnlockUpdate, RefreshPod, PulseDoor,
         Fail, DeleteSession, PermanentDeleteSession, RestoreSession, StartBooking,
         StartPodUnlock, StartSessionUnlock, Tick, SwitchPod, TopUp, Rollback, Booking,
         Unlocking, Publishing, Idle
  <2>2. p \in Pods
    BY <2>1, BookingFields DEF BookCheckOverlap, BookingPCs
  <2>3. Holders(p)' \subseteq Holders(p)
    BY <1>2, <2>2, HoldersShrink
  <2>4. CASE req[b].pc \in {"bookWallet", "bookInsert"} /\ req[b].pod = p
    BY <2>3, <2>4 DEF ClearAhead
  <2>5. CASE EndingAfter(p, clock - Delay) = {}
    <3>1. Holders(p) \subseteq EndingAfter(p, clock - Delay)
      BY DEF Holders, Live, EndingAfter, Existing, TypeOK, SessionRow
    <3>. QED BY <2>3, <2>5, <3>1
  <2>. QED BY <2>1, <2>4, <2>5
<1>. QED BY <1>1, <1>2

\* A commit finds the pod free, by ClearAhead.
LEMMA NextNoDoubleBooking ==
  ASSUME TypeOK, NowIsPast, PaidExactlyOnce, ClearAhead, NoDoubleBooking, [Next]_vars
  PROVE  NoDoubleBooking'
<1> SUFFICES ASSUME NEW p \in Pods PROVE \A s, t \in Holders(p)' : s = t
  BY DEF NoDoubleBooking
<1>1. CASE \E r \in Requests : BookCommit(r)
  <2>1. PICK r \in Requests : BookCommit(r)
    BY <1>1
  <2>2. req[r].pod \in Pods
    BY <2>1, BookingFields DEF BookCommit, BookingPCs
  <2>3. CASE p = req[r].pod
    <3>1. PICK s \in Sessions : Holders(p)' \in {{}, {s}}
      BY <2>1, <2>3, CommitHolders
    <3>. QED BY <3>1
  <2>4. CASE p # req[r].pod
    <3>1. Holders(p)' = Holders(p)
      BY <2>1, <2>2, <2>4, CommitHolders
    <3>. QED BY <3>1 DEF NoDoubleBooking
  <2>. QED BY <2>3, <2>4
<1>2. CASE \A r \in Requests : ~BookCommit(r)
  <2>1. Holders(p)' \subseteq Holders(p)
    BY <1>2, HoldersShrink
  <2>. QED BY <2>1 DEF NoDoubleBooking
<1>. QED BY <1>1, <1>2

----------------------------------------------------------------------------
(* What happens to a row *)

\* A session keeps the shape of its row when its mark of deletion changes.
LEMMA DeletedType ==
  ASSUME NEW row \in SessionRow, NEW d \in BOOLEAN
  PROVE  [row EXCEPT !.isDeleted = d] \in SessionRow
  BY DEF SessionRow

\* Rows that differ in nothing a reservation is made of.
SameBooking(row, new) ==
  new.pod = row.pod /\ new.user = row.user /\ new.startAt = row.startAt

\* The late UPDATE of an unlock: one existing row at most, its status and its end.
LEMMA UnlockedRow ==
  ASSUME TypeOK, NEW r \in Requests, UnlockUpdate(r), NEW s \in Sessions
  PROVE  \/ sessions'[s] = sessions[s]
         \/ /\ s \in Existing /\ s \in Existing'
            /\ SameBooking(sessions[s], sessions'[s])
            /\ sessions'[s].status = "EMERGENCY_UNLOCKED"
            /\ sessions'[s].endAt = req[r].now
            /\ sessions'[s].isDeleted = sessions[s].isDeleted
<1>. DEFINE q == req[r]
<1>1. q.session \in Sessions /\ q.now \in Int
  BY UpdateFields DEF UnlockUpdate, UpdatePCs
<1>2. CASE q.session \in Existing
  <2>1. sessions' = [sessions EXCEPT ![q.session] = Unlocked(sessions[q.session], q.now)]
    BY <1>2 DEF UnlockUpdate
  <2>2. CASE s # q.session
    BY <1>1, <2>1, <2>2 DEF TypeOK
  <2>3. CASE s = q.session
    <3>1. sessions[s] \in SessionRow
      BY <1>1, <1>2, <2>3 DEF Existing, TypeOK
    <3>2. sessions'[s] = Unlocked(sessions[s], q.now)
      BY <1>1, <2>1, <2>3 DEF TypeOK
    <3>3. sessions'[s] \in SessionRow
      BY <1>1, <3>1, <3>2, UnlockedType
    <3>4. s \in Existing'
      BY <3>3 DEF Existing
    <3>. QED BY <1>2, <2>3, <3>1, <3>2, <3>4 DEF Unlocked, SessionRow, SameBooking
  <2>. QED BY <2>2, <2>3
<1>3. CASE q.session \notin Existing
  BY <1>3 DEF UnlockUpdate
<1>. QED BY <1>2, <1>3

\* Administration of o: a row comes, goes or changes its mark of deletion.
AdministerSession(r, o) ==
  DeleteSession(r, o) \/ PermanentDeleteSession(r, o) \/ RestoreSession(r, o)

\* Deleting and restoring change the mark of deletion only, and a row that is
\* brought back is known as restored.
LEMMA AdministeredRow ==
  ASSUME TypeOK, NEW r \in Requests, NEW o \in Sessions, AdministerSession(r, o),
         NEW s \in Existing'
  PROVE  \/ sessions'[s] = sessions[s]
         \/ /\ s \in Existing
            /\ SameBooking(sessions[s], sessions'[s])
            /\ sessions'[s].status = sessions[s].status
            /\ sessions'[s].endAt = sessions[s].endAt
            /\ sessions[s].isDeleted /\ ~sessions'[s].isDeleted => s \in restored'
<1>1. CASE s # o
  BY <1>1 DEF AdministerSession, DeleteSession, PermanentDeleteSession, RestoreSession,
              TypeOK, Existing
<1>2. CASE s = o
  <2>1. sessions'[s] # NoRow
    BY DEF Existing
  <2>2. PICK d \in BOOLEAN :
          /\ sessions' = [sessions EXCEPT ![o] = [sessions[o] EXCEPT !.isDeleted = d]]
          /\ ~d => RestoreSession(r, o)
    <3>1. CASE DeleteSession(r, o)
      BY <3>1 DEF DeleteSession
    <3>2. CASE RestoreSession(r, o)
      BY <3>2 DEF RestoreSession
    <3>3. CASE PermanentDeleteSession(r, o)
      BY <1>2, <2>1, <3>3 DEF PermanentDeleteSession, TypeOK
    <3>. QED BY <3>1, <3>2, <3>3 DEF AdministerSession
  <2>3. s \in Existing /\ sessions[s] \in SessionRow
    BY <1>2 DEF AdministerSession, DeleteSession, PermanentDeleteSession, RestoreSession,
                Existing, TypeOK
  <2>4. sessions'[s] = [sessions[s] EXCEPT !.isDeleted = d]
    BY <1>2, <2>2 DEF TypeOK
  <2>5. ~d /\ sessions[s].isDeleted => s \in restored'
    BY <1>2, <2>2 DEF RestoreSession
  <2>. QED BY <2>3, <2>4, <2>5 DEF SessionRow, SameBooking
<1>. QED BY <1>1, <1>2

\* Every other step leaves the table alone.
LEMMA RowSteps ==
  ASSUME [Next]_vars
  PROVE  \/ UNCHANGED <<sessions, ledger, restored>>
         \/ \E r \in Requests :
              \/ BookCommit(r)
              \/ UNCHANGED <<ledger, restored, clock>> /\ UnlockUpdate(r)
              \/ UNCHANGED <<ledger, clock>> /\ \E o \in Sessions : AdministerSession(r, o)
<1>1. ASSUME NEW r \in Requests, UnlockUpdate(r)
      PROVE  UNCHANGED <<ledger, restored, clock>>
  BY <1>1 DEF UnlockUpdate, history
<1>2. ASSUME NEW r \in Requests, NEW o \in Sessions, AdministerSession(r, o)
      PROVE  UNCHANGED <<ledger, clock>>
  BY <1>2 DEF AdministerSession, DeleteSession, PermanentDeleteSession, RestoreSession
<1>3. ASSUME NEW r \in Requests,
             \/ AcquireLock(r) \/ BookCheckPod(r) \/ BookCheckOverlap(r) \/ BookDebit(r)
             \/ UnlockFind(r) \/ SessionUnlockStamp(r) \/ RefreshPod(r) \/ PulseDoor(r)
             \/ Fail(r) \/ (\E s \in Sessions : StartSessionUnlock(r, s))
             \/ (\E p \in Pods : StartPodUnlock(r, p))
             \/ (\E u \in Users, p \in Pods, rate \in Rates : StartBooking(r, u, p, rate))
      PROVE  UNCHANGED <<sessions, ledger, restored>>
  BY <1>3 DEF database, history, AcquireLock, BookCheckPod, BookCheckOverlap, BookDebit,
              UnlockFind, SessionUnlockStamp, RefreshPod, PulseDoor, Fail, StartBooking,
              StartPodUnlock, StartSessionUnlock, Rollback
<1>4. CASE \/ Tick \/ UNCHANGED vars \/ (\E p \in Pods : SwitchPod(p))
           \/ (\E u \in Users, n \in TopUps : TopUp(u, n))
  BY <1>4 DEF Tick, SwitchPod, TopUp, vars, database, history
<1>. QED BY <1>1, <1>2, <1>3, <1>4 DEF Next, Step, AdministerSession

----------------------------------------------------------------------------
(* The invariant is preserved *)

\* Debit and session appear together, under an id that was never used.
LEMMA NextPaidExactlyOnce ==
  ASSUME TypeOK, PaidExactlyOnce, [Next]_vars
  PROVE  PaidExactlyOnce'
<1>1. ASSUME NEW r \in Requests, BookCommit(r) PROVE PaidExactlyOnce'
  <2>. DEFINE q == req[r]
              row == [pod |-> q.pod, user |-> q.user, status |-> "CONFIRMED",
                      startAt |-> q.now + Intro,
                      endAt |-> q.now + Intro + q.rate.minute, isDeleted |-> FALSE]
              entry(s) == [session |-> s, user |-> q.user, credit |-> q.rate.credit]
  <2>1. PICK s \in Sessions \ Booked :
          sessions' = [sessions EXCEPT ![s] = row] /\ ledger' = ledger \cup {entry(s)}
    BY <1>1 DEF BookCommit
  <2>2. \A e \in ledger : e.session # s
    BY <2>1 DEF Booked
  <2>3. entry(s).session = s /\ entry(s).user = q.user /\ row.user = q.user
    OBVIOUS
  <2>4. sessions'[s] = row /\ \A o \in Sessions \ {s} : sessions'[o] = sessions[o]
    BY <2>1 DEF TypeOK
  <2>. HIDE DEF row, entry
  <2>. QED BY <2>1, <2>2, <2>3, <2>4 DEF PaidExactlyOnce, Existing
<1>2. CASE /\ ledger' = ledger
           /\ \A s \in Existing' : s \in Existing /\ sessions'[s].user = sessions[s].user
  BY <1>2 DEF PaidExactlyOnce
<1>3. ASSUME NEW r \in Requests, UnlockUpdate(r)
      PROVE  \A s \in Existing' : s \in Existing /\ sessions'[s].user = sessions[s].user
  BY <1>3, UnlockedRow DEF Existing, SameBooking
<1>4. ASSUME NEW r \in Requests, NEW o \in Sessions, AdministerSession(r, o)
      PROVE  \A s \in Existing' : s \in Existing /\ sessions'[s].user = sessions[s].user
  BY <1>4, AdministeredRow DEF Existing, SameBooking
<1>6. CASE UNCHANGED <<sessions, ledger>>
  BY <1>6 DEF PaidExactlyOnce, Existing
<1>. QED BY <1>1, <1>2, <1>3, <1>4, <1>6, RowSteps

\* An unlock writes a time that is past.
LEMMA NextUnlockedIsOver ==
  ASSUME TypeOK, NowIsPast, UnlockedIsOver, [Next]_vars
  PROVE  UnlockedIsOver'
<1>1. ASSUME NEW r \in Requests, BookCommit(r) PROVE UnlockedIsOver'
  BY <1>1 DEF BookCommit, UnlockedIsOver, Existing, TypeOK
<1>2. ASSUME NEW r \in Requests, UnlockUpdate(r) PROVE UnlockedIsOver'
  <2>1. req[r].now <= clock /\ clock' = clock
    BY <1>2 DEF UnlockUpdate, NowIsPast, UpdatePCs
  <2>. QED BY <1>2, <2>1, UnlockedRow DEF UnlockedIsOver, Existing
<1>3. ASSUME NEW r \in Requests, NEW o \in Sessions, AdministerSession(r, o)
      PROVE  UnlockedIsOver'
  <2>1. clock' = clock
    BY <1>3 DEF AdministerSession, DeleteSession, PermanentDeleteSession, RestoreSession
  <2>. QED BY <1>3, <2>1, AdministeredRow DEF UnlockedIsOver, Existing
<1>4. CASE Tick
  BY <1>4 DEF Tick, database, UnlockedIsOver, Existing, TypeOK, SessionRow
<1>5. CASE UNCHANGED <<clock, sessions>>
  BY <1>5 DEF UnlockedIsOver, Existing
<1>6. \/ UNCHANGED <<clock, sessions>> \/ Tick
      \/ \E r \in Requests :
           \/ BookCommit(r) \/ UnlockUpdate(r)
           \/ \E o \in Sessions : AdministerSession(r, o)
  BY DEF Next, Step, vars, database, AcquireLock, BookCheckPod, BookCheckOverlap, BookDebit,
         UnlockFind, SessionUnlockStamp, RefreshPod, PulseDoor, Fail, StartBooking,
         StartPodUnlock, StartSessionUnlock, SwitchPod, TopUp, Rollback, AdministerSession
<1>. QED BY <1>1, <1>2, <1>3, <1>4, <1>5, <1>6

\* Who changes a session owes the refresh until it is done or lost.
LEMMA NextChangesGetPublished ==
  ASSUME TypeOK, ChangesGetPublished, [Next]_vars
  PROVE  ChangesGetPublished'
<1> USE DEF TypeOK, Request, BookingPCs, PodUnlockPCs, UpdatePCs, database, history,
            locks, Release, Publishing, Rollback, Idle, Booking, Unlocking, ChangesGetPublished
<1>1. ASSUME NEW r \in Requests, AcquireLock(r) PROVE ChangesGetPublished'
  BY <1>1 DEF AcquireLock
<1>2. ASSUME NEW r \in Requests, BookCheckPod(r) PROVE ChangesGetPublished'
  BY <1>2 DEF BookCheckPod
<1>3. ASSUME NEW r \in Requests, BookCheckOverlap(r) PROVE ChangesGetPublished'
  BY <1>3 DEF BookCheckOverlap
<1>4. ASSUME NEW r \in Requests, BookDebit(r) PROVE ChangesGetPublished'
  BY <1>4 DEF BookDebit
<1>5. ASSUME NEW r \in Requests, BookCommit(r) PROVE ChangesGetPublished'
  BY <1>5 DEF BookCommit
<1>6. ASSUME NEW r \in Requests, UnlockFind(r) PROVE ChangesGetPublished'
  BY <1>6 DEF UnlockFind
<1>7. ASSUME NEW r \in Requests, SessionUnlockStamp(r) PROVE ChangesGetPublished'
  BY <1>7 DEF SessionUnlockStamp
<1>8. ASSUME NEW r \in Requests, UnlockUpdate(r) PROVE ChangesGetPublished'
  BY <1>8 DEF UnlockUpdate
<1>9. ASSUME NEW r \in Requests, RefreshPod(r) PROVE ChangesGetPublished'
  BY <1>9 DEF RefreshPod
<1>10. ASSUME NEW r \in Requests, PulseDoor(r) PROVE ChangesGetPublished'
  BY <1>10 DEF PulseDoor
<1>11. ASSUME NEW r \in Requests, Fail(r) PROVE ChangesGetPublished'
  BY <1>11 DEF Fail
<1>12. ASSUME NEW r \in Requests, NEW s \in Sessions, DeleteSession(r, s)
      PROVE  ChangesGetPublished'
  BY <1>12 DEF DeleteSession
<1>13. ASSUME NEW r \in Requests, NEW s \in Sessions, PermanentDeleteSession(r, s)
      PROVE  ChangesGetPublished'
  BY <1>13 DEF PermanentDeleteSession
<1>14. ASSUME NEW r \in Requests, NEW s \in Sessions, RestoreSession(r, s)
      PROVE  ChangesGetPublished'
  BY <1>14 DEF RestoreSession
<1>15. ASSUME NEW r \in Requests, NEW s \in Sessions, StartSessionUnlock(r, s)
      PROVE  ChangesGetPublished'
  BY <1>15 DEF StartSessionUnlock
<1>16. ASSUME NEW r \in Requests, NEW u \in Users, NEW p \in Pods, NEW rate \in
              Rates, StartBooking(r, u, p, rate)
      PROVE  ChangesGetPublished'
  BY <1>16 DEF StartBooking
<1>17. ASSUME NEW r \in Requests, NEW p \in Pods, StartPodUnlock(r, p)
      PROVE  ChangesGetPublished'
  BY <1>17 DEF StartPodUnlock
<1>18. ASSUME Tick PROVE ChangesGetPublished'
  BY <1>18 DEF Tick
<1>19. ASSUME NEW p \in Pods, SwitchPod(p) PROVE ChangesGetPublished'
  BY <1>19 DEF SwitchPod
<1>20. ASSUME NEW u \in Users, NEW n \in TopUps, TopUp(u, n) PROVE ChangesGetPublished'
  BY <1>20 DEF TopUp
<1>21. CASE UNCHANGED vars
  BY <1>21 DEF vars
<1>. QED
  BY <1>1, <1>2, <1>3, <1>4, <1>5, <1>6, <1>7, <1>8, <1>9, <1>10, <1>11, <1>12, <1>13,
     <1>14, <1>15, <1>16, <1>17, <1>18, <1>19, <1>20, <1>21 DEF Next, Step

----------------------------------------------------------------------------
(* Theorems *)

\* The invariant holds at the start.
LEMMA InitIInv == Init => IInv
<1> SUFFICES ASSUME Init PROVE IInv
  OBVIOUS
<1>1. TypeOK
  BY InitType
<1>2. \A r \in Requests : req[r].pc = "idle"
  BY DEF Init, Idle
<1>3. Existing = {}
  BY DEF Init, Existing
<1>. QED
  BY <1>1, <1>2, <1>3 DEF Init, IInv, LockHeld, LockedPCs, DebitCovered, NowIsPast,
     BookingPCs, PodUnlockPCs, UpdatePCs,
     ClearAhead, NoDoubleBooking, Holders, Live, EndingAfter, PaidExactlyOnce, UnlockedIsOver,
     ChangesGetPublished

\* Every step preserves the invariant.
LEMMA NextIInv == IInv /\ [Next]_vars => IInv'
  BY NextType, NextLockHeld, NextDebitCovered, NextNowIsPast, NextClearAhead,
     NextNoDoubleBooking, NextPaidExactlyOnce, NextUnlockedIsOver,
     NextChangesGetPublished DEF IInv

\* The invariant every theorem below rests on.
THEOREM Invariant == Spec => []IInv
  BY InitIInv, NextIInv, PTL DEF Spec

\* Every variable keeps its shape and no wallet is ever overdrawn, however many
\* bookings debit it at once (the conditional UPDATE of createSessionRoute).
THEOREM TypeCorrect == Spec => []TypeOK
<1>1. IInv => TypeOK
  BY DEF IInv
<1>. QED BY <1>1, Invariant, PTL

\* The advisory lock and the overlap check of createSessionRoute keep two
\* bookings off one pod, whatever unlocks, deletions and failures happen.
THEOREM PodsNeverBookedTwice == Spec => []NoDoubleBooking
<1>1. IInv => NoDoubleBooking
  BY DEF IInv
<1>. QED BY <1>1, Invariant, PTL

\* Every session in the table has exactly one debit, of its own user.
THEOREM SessionsPaidOnce == Spec => []PaidExactlyOnce
<1>1. IInv => PaidExactlyOnce
  BY DEF IInv
<1>. QED BY <1>1, Invariant, PTL

\* No emergency unlock, however late it writes, leaves a session unlocked and
\* still running.
THEOREM UnlockedSessionsAreOver == Spec => []UnlockedIsOver
<1>1. IInv => UnlockedIsOver
  BY DEF IInv
<1>. QED BY <1>1, Invariant, PTL

\* A pod whose sessions changed has a refresh coming unless a process was lost.
THEOREM ChangesArePublished == Spec => []ChangesGetPublished
<1>1. IInv => ChangesGetPublished
  BY DEF IInv
<1>. QED BY <1>1, Invariant, PTL

----------------------------------------------------------------------------
(* Action properties *)

\* Only a booking's commit and a credit touch a wallet or the ledger.
LEMMA WalletSteps ==
  ASSUME [Next]_vars
  PROVE  \/ UNCHANGED <<wallet, ledger>>
         \/ \E r \in Requests : BookCommit(r)
         \/ \E u \in Users, n \in TopUps : TopUp(u, n)
<1>1. ASSUME NEW r \in Requests, NEW o \in Sessions, AdministerSession(r, o)
      PROVE  UNCHANGED <<wallet, ledger>>
  BY <1>1 DEF AdministerSession, DeleteSession, PermanentDeleteSession, RestoreSession
<1>2. ASSUME NEW r \in Requests,
             \/ AcquireLock(r) \/ BookCheckPod(r) \/ BookCheckOverlap(r) \/ BookDebit(r)
             \/ UnlockFind(r) \/ SessionUnlockStamp(r) \/ RefreshPod(r) \/ PulseDoor(r)
             \/ Fail(r) \/ (\E s \in Sessions : StartSessionUnlock(r, s))
             \/ (\E p \in Pods : StartPodUnlock(r, p))
             \/ (\E v \in Users, p \in Pods, rate \in Rates : StartBooking(r, v, p, rate))
             \/ UnlockUpdate(r)
      PROVE  UNCHANGED <<wallet, ledger>>
  BY <1>2 DEF database, AcquireLock, BookCheckPod, BookCheckOverlap, BookDebit,
              UnlockFind, SessionUnlockStamp, RefreshPod, PulseDoor, Fail, StartBooking,
              StartPodUnlock, StartSessionUnlock, Rollback, UnlockUpdate
<1>3. CASE Tick \/ UNCHANGED vars \/ \E p \in Pods : SwitchPod(p)
  BY <1>3 DEF Tick, SwitchPod, vars, database
<1>. QED BY <1>1, <1>2, <1>3 DEF Next, Step, AdministerSession

\* A wallet loses credit to a booking only, which records what it took.
THEOREM DebitsHaveEntries == Spec => DebitsAreRecorded
<1>. DEFINE Recorded ==
       \A u \in Users :
         wallet'[u] < wallet[u] =>
           \E e \in ledger' : /\ e \notin ledger
                              /\ e.user = u
                              /\ e.credit = wallet[u] - wallet'[u]
                              /\ ledger' = ledger \cup {e}
<1>1. IInv /\ [Next]_vars => [Recorded]_vars
  <2> SUFFICES ASSUME TypeOK, [Next]_vars, NEW u \in Users, wallet'[u] < wallet[u]
               PROVE  \E e \in ledger' : /\ e \notin ledger
                                         /\ e.user = u
                                         /\ e.credit = wallet[u] - wallet'[u]
                                         /\ ledger' = ledger \cup {e}
    BY DEF IInv
  <2>1. ASSUME NEW r \in Requests, BookCommit(r)
        PROVE  \E e \in ledger' : /\ e \notin ledger
                                  /\ e.user = u
                                  /\ e.credit = wallet[u] - wallet'[u]
                                  /\ ledger' = ledger \cup {e}
    <3>. DEFINE q == req[r]
    <3>1. PICK s \in Sessions \ Booked :
            ledger' = ledger \cup {[session |-> s, user |-> q.user, credit |-> q.rate.credit]}
      BY <2>1 DEF BookCommit
    <3>. DEFINE e == [session |-> s, user |-> q.user, credit |-> q.rate.credit]
    <3>2. e \notin ledger
      <4>1. e.session = s
        OBVIOUS
      <4>. HIDE DEF e
      <4>. QED BY <3>1, <4>1 DEF Booked
    <3>3. wallet' = [wallet EXCEPT ![q.user] = wallet[q.user] - q.rate.credit]
      BY <2>1 DEF BookCommit
    <3>4. q.user \in Users /\ q.rate.credit \in Nat
      BY <2>1, BookingFields DEF BookCommit, BookingPCs, RateSlab
    <3>5. u = q.user /\ wallet'[u] = wallet[u] - q.rate.credit /\ wallet[u] \in Nat
      BY <3>3, <3>4 DEF TypeOK
    <3>6. e.user = u /\ e.credit = wallet[u] - wallet'[u]
      BY <3>4, <3>5
    <3>. QED BY <3>1, <3>2, <3>6
  <2>2. ASSUME NEW v \in Users, NEW n \in TopUps, TopUp(v, n) PROVE FALSE
    BY <2>2 DEF TopUp, TypeOK
  <2>3. CASE wallet' = wallet
    BY <2>3 DEF TypeOK
  <2>. QED BY <2>1, <2>2, <2>3, WalletSteps
<1>. QED BY <1>1, Invariant, PTL DEF Spec, DebitsAreRecorded

----------------------------------------------------------------------------
(* Refinement *)

\* The abstract reservation starts where the handlers start.
LEMMA InitReservations == Init => Reservations!Init
  BY DEF Init, Reservations!Init, Holders, Live, EndingAfter, Existing, Booked

\* Every step of the handlers is a step of the abstract reservation, or none.
LEMMA StepReservations ==
  ASSUME IInv, [Next]_vars
  PROVE  [Reservations!Next]_(Reservations!vars)
<1>. DEFINE hold == [p \in Pods |-> Holders(p)]
<1>1. \A p \in Pods : Holders(p) \subseteq Sessions /\ Holders(p)' \subseteq Sessions
  BY DEF Holders, Live, EndingAfter, Existing
<1>2. ASSUME NEW r \in Requests, BookCommit(r)
      PROVE  Reservations!Next
  <2>. DEFINE q == req[r]
  <2>1. PICK o \in Pods : /\ o = q.pod /\ q.user \in Users
                         /\ q.rate \in Rates /\ q.rate.credit \in Nat
    BY <1>2, BookingFields DEF BookCommit, BookingPCs, IInv, RateSlab
  <2>2. PICK s \in Sessions \ Booked :
           /\ Booked' = Booked \cup {s}
           /\ Holders(o)' \in {{}, {s}}
           /\ \A p \in Pods \ {o} : Holders(p)' = Holders(p)
    BY <1>2, <2>1, CommitHolders DEF IInv
  <2>3. Holders(o) = {} /\ wallet[q.user] >= q.rate.credit
    BY <1>2, <2>1 DEF IInv, ClearAhead, DebitCovered, BookCommit
  <2>4. wallet' = [wallet EXCEPT ![q.user] = wallet[q.user] - q.rate.credit]
    BY <1>2 DEF BookCommit
  <2>5. PICK H \in {{}, {s}} : Holders(o)' = H
    BY <2>2
  <2>6. hold' = [hold EXCEPT ![o] = H]
    BY <2>1, <2>2, <2>5
  <2>7. Reservations!Reserve(o, s, q.user, q.rate)
    BY <2>1, <2>2, <2>3, <2>4, <2>6 DEF Reservations!Reserve
  <2>. QED BY <2>1, <2>7 DEF Reservations!Next
<1>3. ASSUME NEW u \in Users, NEW n \in TopUps, TopUp(u, n)
      PROVE  Reservations!Next
  <2>1. hold' = hold /\ Booked' = Booked
    BY <1>3 DEF TopUp, Holders, Live, EndingAfter, Existing, Booked
  <2>2. Reservations!Credit(u, n)
    BY <1>3, <2>1 DEF TopUp, Reservations!Credit
  <2>. QED BY <2>2 DEF Reservations!Next
<1>4. CASE UNCHANGED <<wallet, ledger>> /\ \A r \in Requests : ~BookCommit(r)
  <2>1. \A p \in Pods : Holders(p)' \subseteq Holders(p)
    BY <1>4, HoldersShrink DEF IInv
  <2>2. Booked' = Booked
    BY <1>4 DEF Booked
  <2>3. Reservations!LetGo
    BY <1>1, <1>4, <2>1, <2>2 DEF Reservations!LetGo
  <2>. QED BY <2>3 DEF Reservations!Next
<1>. QED BY <1>2, <1>3, <1>4, WalletSteps

\* The locks, the order of the statements and the roll back of createSessionRoute
\* make a booking as good as one indivisible step that takes the pod and the
\* credit together; nothing the other handlers do, late writes included, gives a
\* pod back to a session that let it go.
THEOREM ImplementsPodReservations == Spec => ImplementsReservations
  BY InitReservations, StepReservations, Invariant, PTL
     DEF Spec, ImplementsReservations, Reservations!Spec

----------------------------------------------------------------------------
(* The end delay of a session *)

\* Sessions of p nobody deleted, whatever their status.
Kept(p) == {s \in Existing \ restored : sessions[s].pod = p /\ ~sessions[s].isDeleted}

\* Past the overlap check every confirmed session of the pod has ended and its
\* end delay is over, at the time the booking will be stamped with; and no
\* session was stamped later than that.
HoldInv ==
  /\ \A p \in Pods : \A s \in Kept(p) : BookedAt(s) <= clock
  /\ \A r \in Requests, p \in Pods : \A s \in Kept(p) :
       req[r].pc \in {"bookWallet", "bookInsert"} /\ req[r].pod = p =>
         LET t == IF req[r].pc = "bookWallet" THEN clock ELSE req[r].now IN
         /\ BookedAt(s) <= t
         /\ sessions[s].status = "CONFIRMED" => sessions[s].endAt + Delay <= t

\* A step that books nothing adds no session to a pod and extends none.
LEMMA KeptStep ==
  ASSUME TypeOK, [Next]_vars, \A r \in Requests : ~BookCommit(r),
         NEW p \in Pods, NEW s \in Kept(p)'
  PROVE  /\ s \in Kept(p)
         /\ BookedAt(s)' = BookedAt(s)
         /\ sessions'[s].status = "CONFIRMED" =>
              sessions[s].status = "CONFIRMED" /\ sessions'[s].endAt = sessions[s].endAt
<1>1. s \in Sessions /\ s \in Existing' /\ s \notin restored'
      /\ sessions'[s].pod = p /\ ~sessions'[s].isDeleted
  BY DEF Kept, Existing
<1>2. CASE UNCHANGED <<sessions, restored>>
  BY <1>1, <1>2 DEF Kept, Existing, BookedAt
<1>3. ASSUME NEW r \in Requests, UnlockUpdate(r), restored' = restored
      PROVE  /\ s \in Kept(p)
             /\ BookedAt(s)' = BookedAt(s)
             /\ sessions'[s].status = "CONFIRMED" =>
                  sessions[s].status = "CONFIRMED" /\ sessions'[s].endAt = sessions[s].endAt
  BY <1>1, <1>3, UnlockedRow DEF Kept, Existing, BookedAt, SameBooking
<1>4. ASSUME NEW r \in Requests, NEW o \in Sessions, AdministerSession(r, o)
      PROVE  /\ s \in Kept(p)
             /\ BookedAt(s)' = BookedAt(s)
             /\ sessions'[s].status = "CONFIRMED" =>
                  sessions[s].status = "CONFIRMED" /\ sessions'[s].endAt = sessions[s].endAt
  <2>1. restored \subseteq restored'
  BY <1>4 DEF AdministerSession, DeleteSession, PermanentDeleteSession, RestoreSession,
     history
  <2>. QED BY <1>1, <1>4, <2>1, AdministeredRow DEF Kept, Existing, BookedAt, SameBooking
<1>. QED BY <1>2, <1>3, <1>4, RowSteps

\* A booking's commit adds one session, to its own pod, stamped when it debited.
LEMMA KeptCommit ==
  ASSUME TypeOK, PaidExactlyOnce, NEW r \in Requests, BookCommit(r), NEW o \in Pods,
         o = req[r].pod
  PROVE  \E s \in Sessions :
           /\ \A p \in Pods : Kept(p)' \subseteq Kept(p) \cup (IF p = o THEN {s} ELSE {})
           /\ BookedAt(s)' = req[r].now
           /\ \A t \in Existing : t # s /\ sessions'[t] = sessions[t]
<1>. DEFINE q == req[r]
<1>1. q.user \in Users /\ q.rate \in Rates /\ q.now \in Nat
  BY BookingFields DEF BookCommit, BookingPCs
<1>. DEFINE row == [pod |-> q.pod, user |-> q.user, status |-> "CONFIRMED",
                    startAt |-> q.now + Intro,
                    endAt |-> q.now + Intro + q.rate.minute, isDeleted |-> FALSE]
<1>2. PICK s \in Sessions \ Booked : sessions' = [sessions EXCEPT ![s] = row]
  BY DEF BookCommit
<1>3. sessions[s] = NoRow
  BY <1>2 DEF PaidExactlyOnce, Booked, Existing
<1>4. restored' = restored
  BY DEF BookCommit, history
<1>5. sessions'[s] = row /\ \A t \in Sessions \ {s} : sessions'[t] = sessions[t]
  BY <1>2 DEF TypeOK
<1>6. BookedAt(s)' = q.now
  BY <1>1, <1>5 DEF BookedAt
<1>7. \A t \in Existing : t # s /\ sessions'[t] = sessions[t]
  BY <1>3, <1>5 DEF Existing
<1>8. ASSUME NEW p \in Pods
      PROVE  Kept(p)' \subseteq Kept(p) \cup (IF p = o THEN {s} ELSE {})
  BY <1>4, <1>5 DEF Kept, Existing
<1>. QED BY <1>2, <1>6, <1>7, <1>8

\* How a booking reaches the statements past the overlap check.
LEMMA PastOverlap ==
  ASSUME TypeOK, [Next]_vars, NEW r \in Requests,
         req'[r].pc \in {"bookWallet", "bookInsert"}
  PROVE  /\ req'[r].pod \in Pods
         /\ \/ req'[r] = req[r]
            \/ /\ BookCheckOverlap(r) /\ clock' = clock /\ req'[r].pc = "bookWallet"
               /\ EndingAfter(req'[r].pod, clock - Delay) = {}
            \/ /\ req[r].pc = "bookWallet" /\ req[r].pod = req'[r].pod
               /\ req'[r].pc = "bookInsert" /\ req'[r].now = clock /\ clock' = clock
<1>1. \/ req'[r] = req[r]
      \/ /\ BookCheckOverlap(r) /\ clock' = clock /\ req'[r].pc = "bookWallet"
         /\ req'[r].pod = req[r].pod
         /\ EndingAfter(req'[r].pod, clock - Delay) = {}
      \/ /\ req[r].pc = "bookWallet" /\ req[r].pod = req'[r].pod
         /\ req'[r].pc = "bookInsert" /\ req'[r].now = clock /\ clock' = clock
  BY DEF Next, Step, vars, TypeOK, AcquireLock, BookCheckPod, BookCheckOverlap,
         BookDebit, BookCommit, UnlockFind, SessionUnlockStamp, UnlockUpdate, RefreshPod,
         PulseDoor, Fail, DeleteSession, PermanentDeleteSession, RestoreSession,
         StartBooking, StartPodUnlock, StartSessionUnlock, Tick, SwitchPod, TopUp,
         Rollback, Booking, Unlocking, Publishing, Idle
<1>. QED BY <1>1, BookingFields DEF BookingPCs, BookCheckOverlap

\* The clock never goes back.
LEMMA ClockForward ==
  ASSUME TypeOK, [Next]_vars
  PROVE  clock <= clock' /\ clock' \in Nat
<1>1. clock' = clock \/ Tick
  BY DEF Next, Step, vars, TypeOK, AcquireLock, BookCheckPod, BookCheckOverlap,
         BookDebit, BookCommit, UnlockFind, SessionUnlockStamp, UnlockUpdate, RefreshPod,
         PulseDoor, Fail, DeleteSession, PermanentDeleteSession, RestoreSession,
         StartBooking, StartPodUnlock, StartSessionUnlock, SwitchPod, TopUp, Rollback
<1>. QED BY <1>1 DEF Tick, TypeOK

\* The row of a kept session.
LEMMA KeptTyped ==
  ASSUME TypeOK, NEW p \in Pods, NEW s \in Kept(p)
  PROVE  s \in Existing /\ sessions[s] \in SessionRow /\ BookedAt(s) \in Int
         /\ sessions[s].endAt \in Int
  BY DEF Kept, Existing, TypeOK, SessionRow, BookedAt

\* Past the overlap check the pod's earlier sessions are settled.
LEMMA OverlapSettles ==
  ASSUME TypeOK, NEW p \in Pods, EndingAfter(p, clock - Delay) = {}, NEW s \in Kept(p),
         sessions[s].status = "CONFIRMED"
  PROVE  sessions[s].endAt + Delay <= clock
<1>1. s \in Sessions /\ s \in Existing /\ sessions[s].pod = p /\ ~sessions[s].isDeleted
  BY DEF Kept, Existing
<1>2. ~(sessions[s].endAt > clock - Delay)
  BY <1>1 DEF EndingAfter
<1>. QED BY <1>2, KeptTyped DEF TypeOK

\* Settled sessions stay settled until the booking has committed.
LEMMA NextHoldInv ==
  ASSUME TypeOK, LockHeld, NowIsPast, PaidExactlyOnce, HoldInv, [Next]_vars
  PROVE  HoldInv'
<1>1. clock <= clock' /\ clock \in Nat /\ clock' \in Nat
  BY ClockForward DEF TypeOK
<1>2. ASSUME NEW p \in Pods, NEW s \in Kept(p)'
      PROVE  BookedAt(s)' <= clock'
  <2>1. CASE \E r \in Requests : BookCommit(r)
    <3>1. PICK r \in Requests : BookCommit(r)
      BY <2>1
    <3>2. req[r].pod \in Pods /\ req[r].now \in Nat /\ req[r].now <= clock
      BY <3>1, BookingFields DEF BookCommit, BookingPCs, NowIsPast
    <3>3. PICK n \in Sessions :
            /\ Kept(p)' \subseteq Kept(p) \cup {n}
            /\ BookedAt(n)' = req[r].now
            /\ \A t \in Existing : t # n /\ sessions'[t] = sessions[t]
      BY <3>1, <3>2, KeptCommit
    <3>4. CASE s \in Kept(p)
      <4>1. BookedAt(s)' = BookedAt(s) /\ BookedAt(s) <= clock /\ BookedAt(s) \in Int
        BY <3>3, <3>4, KeptTyped DEF BookedAt, HoldInv
      <4>. QED BY <1>1, <4>1
    <3>5. CASE s = n
      BY <1>1, <3>2, <3>3, <3>5
    <3>. QED BY <3>3, <3>4, <3>5
  <2>2. CASE \A r \in Requests : ~BookCommit(r)
    <3>1. s \in Kept(p) /\ BookedAt(s)' = BookedAt(s)
      BY <2>2, KeptStep
    <3>2. BookedAt(s) <= clock /\ BookedAt(s) \in Int
      BY <3>1, KeptTyped DEF HoldInv
    <3>. QED BY <1>1, <3>1, <3>2
  <2>. QED BY <2>1, <2>2
<1>3. ASSUME NEW b \in Requests, NEW p \in Pods, NEW s \in Kept(p)',
             req'[b].pc \in {"bookWallet", "bookInsert"}, req'[b].pod = p
      PROVE  LET t == IF req'[b].pc = "bookWallet" THEN clock' ELSE req'[b].now IN
             /\ BookedAt(s)' <= t
             /\ sessions'[s].status = "CONFIRMED" => sessions'[s].endAt + Delay <= t
  <2>. DEFINE t0 == IF req[b].pc = "bookWallet" THEN clock ELSE req[b].now
              t1 == IF req'[b].pc = "bookWallet" THEN clock' ELSE req'[b].now
  <2>1. /\ s \in Kept(p) /\ BookedAt(s)' = BookedAt(s)
        /\ sessions'[s].status = "CONFIRMED" =>
             sessions[s].status = "CONFIRMED" /\ sessions'[s].endAt = sessions[s].endAt
    <3>1. CASE \E r \in Requests : BookCommit(r)
      <4>1. PICK r \in Requests : BookCommit(r)
        BY <3>1
      <4>2. req' = [req EXCEPT ![r] = Publishing(req[r].pod, TRUE)]
        BY <4>1 DEF BookCommit
      <4>3. b # r /\ req'[b] = req[b]
        BY <1>3, <4>2 DEF TypeOK, Publishing
      <4>4. lock[p] = b /\ lock[req[r].pod] = r /\ req[r].pod \in Pods
        BY <1>3, <4>1, <4>3, BookingFields DEF LockHeld, LockedPCs, BookCommit, BookingPCs
      <4>5. PICK n \in Sessions :
              /\ Kept(p)' \subseteq Kept(p) \cup {}
              /\ \A t \in Existing : t # n /\ sessions'[t] = sessions[t]
        BY <4>1, <4>3, <4>4, KeptCommit
      <4>6. s \in Kept(p)
        BY <4>5
      <4>. QED BY <4>5, <4>6, KeptTyped DEF BookedAt
    <3>2. CASE \A r \in Requests : ~BookCommit(r)
      BY <3>2, KeptStep
    <3>. QED BY <3>1, <3>2
  <2>2. BookedAt(s) \in Int /\ sessions[s].endAt \in Int /\ BookedAt(s) <= clock
    BY <2>1, KeptTyped DEF HoldInv
  <2>3. CASE req'[b] = req[b]
    <3>1. BookedAt(s) <= t0 /\ (sessions[s].status = "CONFIRMED" => sessions[s].endAt + Delay <= t0)
      BY <1>3, <2>1, <2>3 DEF HoldInv
    <3>2. t0 <= t1 /\ t0 \in Nat /\ t1 \in Nat
      BY <1>1, <1>3, <2>3, BookingFields DEF BookingPCs
    <3>. QED BY <2>1, <2>2, <3>1, <3>2
  <2>4. CASE /\ clock' = clock /\ req'[b].pc = "bookWallet"
             /\ EndingAfter(p, clock - Delay) = {}
    <3>1. sessions[s].status = "CONFIRMED" => sessions[s].endAt + Delay <= clock
      BY <2>1, <2>4, OverlapSettles
    <3>. QED BY <2>1, <2>2, <2>4, <3>1
  <2>5. CASE /\ req[b].pc = "bookWallet" /\ req[b].pod = p
             /\ req'[b].pc = "bookInsert" /\ req'[b].now = clock
    <3>1. sessions[s].status = "CONFIRMED" => sessions[s].endAt + Delay <= clock
      BY <2>1, <2>5 DEF HoldInv
    <3>. QED BY <2>1, <2>2, <2>5, <3>1
  <2>. QED BY <1>3, <2>3, <2>4, <2>5, PastOverlap
<1>. QED BY <1>2, <1>3 DEF HoldInv

\* HoldRespected, read off the sessions kept by one pod.
LEMMA KeptHold ==
  ASSUME HoldRespected, NEW p \in Pods, NEW s \in Kept(p), NEW t \in Kept(p),
         sessions[s].status = "CONFIRMED", BookedAt(s) < BookedAt(t)
  PROVE  sessions[s].endAt + Delay <= BookedAt(t)
  BY DEF HoldRespected, Kept

\* A commit is stamped after the end delays HoldInv speaks of.
LEMMA NextHoldRespected ==
  ASSUME TypeOK, TypeOK', PaidExactlyOnce, HoldInv, HoldRespected, [Next]_vars
  PROVE  HoldRespected'
<1> SUFFICES ASSUME NEW p \in Pods, NEW s \in Kept(p)', NEW t \in Kept(p)',
                    sessions'[s].status = "CONFIRMED", BookedAt(s)' < BookedAt(t)'
             PROVE  sessions'[s].endAt + Delay <= BookedAt(t)'
  BY DEF HoldRespected, Kept, Existing, TypeOK, SessionRow
<1>1. CASE \E r \in Requests : BookCommit(r)
  <2>1. PICK r \in Requests : BookCommit(r)
    BY <1>1
  <2>2. PICK o \in Pods : o = req[r].pod /\ req[r].now \in Nat
    BY <2>1, BookingFields DEF BookCommit, BookingPCs
  <2>3. PICK n \in Sessions :
          /\ Kept(p)' \subseteq Kept(p) \cup (IF p = o THEN {n} ELSE {})
          /\ BookedAt(n)' = req[r].now
          /\ \A x \in Existing : x # n /\ sessions'[x] = sessions[x]
    BY <2>1, <2>2, KeptCommit
  <2>4. ASSUME NEW x \in Kept(p)
        PROVE  /\ x # n /\ sessions'[x] = sessions[x] /\ BookedAt(x)' = BookedAt(x)
               /\ BookedAt(x) \in Int /\ sessions[x].endAt \in Int
    BY <2>3, KeptTyped DEF BookedAt
  <2>5. ASSUME p = o, NEW x \in Kept(p)
        PROVE  /\ BookedAt(x) <= req[r].now
               /\ sessions[x].status = "CONFIRMED" => sessions[x].endAt + Delay <= req[r].now
    BY <2>1, <2>2, <2>5 DEF HoldInv, BookCommit
  <2>6. CASE s \in Kept(p) /\ t \in Kept(p)
    BY <2>4, <2>6, KeptHold
  <2>7. CASE s \in Kept(p) /\ t \notin Kept(p)
    BY <2>3, <2>4, <2>5, <2>7
  <2>8. CASE s \notin Kept(p)
    <3>1. s = n /\ p = o
      BY <2>3, <2>8
    <3>2. CASE t = n
      BY <2>2, <2>3, <3>1, <3>2
    <3>3. CASE t \in Kept(p)
      BY <2>2, <2>3, <2>4, <2>5, <3>1, <3>3
    <3>. QED BY <2>3, <3>2, <3>3
  <2>. QED BY <2>6, <2>7, <2>8
<1>2. CASE \A r \in Requests : ~BookCommit(r)
  <2>1. /\ s \in Kept(p) /\ BookedAt(s)' = BookedAt(s)
        /\ sessions[s].status = "CONFIRMED" /\ sessions'[s].endAt = sessions[s].endAt
    BY <1>2, KeptStep
  <2>2. t \in Kept(p) /\ BookedAt(t)' = BookedAt(t)
    BY <1>2, KeptStep
  <2>. QED BY <2>1, <2>2, KeptHold
<1>. QED BY <1>1, <1>2

\* A confirmed session keeps its pod until its end delay is over: no later
\* booking of the pod was stamped before (the overlap check of
\* createSessionRoute, whose clock is read before the booking's own `now`).
THEOREM EndDelayRespected == Spec => []HoldRespected
<1>1. Init => HoldInv /\ HoldRespected
  BY DEF Init, HoldInv, HoldRespected, Kept, Existing, Idle
<1>2. ASSUME IInv, IInv', HoldInv, HoldRespected, [Next]_vars
      PROVE  HoldInv' /\ HoldRespected'
  BY <1>2, NextHoldInv, NextHoldRespected DEF IInv
<1>. QED BY <1>1, <1>2, Invariant, PTL DEF Spec

\* No step, however late the time an unlock writes, brings back a session that
\* is over, unless an administrator restores it.
THEOREM OverSessionsStayOver == Spec => OverStaysOver
<1>1. ASSUME IInv, [Next]_vars, NEW p \in Pods, NEW s \in Existing,
             s \in Live(p)', sessions[s].pod = p
      PROVE  s \in Live(p) \/ sessions[s].isDeleted
  <2>. USE DEF Live, EndingAfter, Existing
  <2>1. TypeOK /\ NowIsPast /\ PaidExactlyOnce
    BY <1>1 DEF IInv
  <2>2. clock <= clock' /\ clock \in Nat /\ clock' \in Nat /\ sessions[s] \in SessionRow
    BY <1>1, <2>1, ClockForward DEF TypeOK
  <2>3. CASE sessions'[s] = sessions[s]
    BY <1>1, <2>2, <2>3 DEF SessionRow
  <2>. HIDE DEF Live, EndingAfter, Existing
  <2>4. ASSUME NEW r \in Requests, BookCommit(r) PROVE sessions'[s] = sessions[s]
    <3>1. PICK o \in Pods : o = req[r].pod
      BY <2>1, <2>4, BookingFields DEF BookCommit, BookingPCs
    <3>. QED BY <1>1, <2>1, <2>4, <3>1, KeptCommit
  <2>5. ASSUME NEW r \in Requests, UnlockUpdate(r), clock' = clock
        PROVE  sessions'[s] = sessions[s]
    <3>1. sessions'[s] = sessions[s] \/ sessions'[s].endAt = req[r].now
      BY <1>1, <2>1, <2>5, UnlockedRow DEF Existing
    <3>2. req[r].now <= clock /\ req[r].now \in Nat
      BY <2>1, <2>5, UpdateFields DEF UnlockUpdate, NowIsPast, UpdatePCs
    <3>3. sessions'[s].endAt > clock
      BY <1>1, <2>5 DEF Live, EndingAfter
    <3>. QED BY <2>2, <3>1, <3>2, <3>3
  <2>6. ASSUME NEW r \in Requests, NEW o \in Sessions, AdministerSession(r, o), clock' = clock
        PROVE  s \in Live(p) \/ sessions[s].isDeleted
    BY <1>1, <2>1, <2>3, <2>6, AdministeredRow DEF Live, EndingAfter, Existing, SameBooking
  <2>. QED BY <1>1, <2>3, <2>4, <2>5, <2>6, RowSteps
<1>2. IInv /\ [Next]_vars =>
        [\A p \in Pods : \A s \in Existing :
           (s \in Live(p)' /\ sessions[s].pod = p) => s \in Live(p) \/ sessions[s].isDeleted]_vars
  BY <1>1
<1>. QED BY <1>2, Invariant, PTL DEF Spec, OverStaysOver
----------------------------------------------------------------------------
(* Whom an emergency unlock by pod ends *)

\* Nothing writes another status.
StatusKnown ==
  \A s \in Existing : sessions[s].status \in {"CONFIRMED", "EMERGENCY_UNLOCKED"}

\* Of two confirmed sessions one was booked when the other's end delay was over: a
\* booking was stamped after the end delays HoldInv speaks of.
InTurn ==
  \A p \in Pods : \A s, t \in Kept(p) :
    /\ s # t /\ sessions[s].status = "CONFIRMED" /\ sessions[t].status = "CONFIRMED"
    => \/ sessions[s].endAt + Delay <= BookedAt(t)
       \/ sessions[t].endAt + Delay <= BookedAt(s)

\* The session an unlock has found is the only one that was booked when it read its clock
\* and holds the pod still: nobody books the pod while it has the advisory lock.
Aimed ==
  restored = {} =>
    \A r \in Requests : req[r].pc = "unlockUpdate" =>
      \A s \in Holders(req[r].pod) : BookedAt(s) <= req[r].now => s = req[r].session

UnlockInv == HoldInv /\ StatusKnown /\ InTurn /\ Aimed

LEMMA NextStatusKnown ==
  ASSUME TypeOK, StatusKnown, PaidExactlyOnce, [Next]_vars
  PROVE  StatusKnown'
<1> SUFFICES ASSUME NEW s \in Existing'
             PROVE  sessions'[s].status \in {"CONFIRMED", "EMERGENCY_UNLOCKED"}
  BY DEF StatusKnown
<1>1. s \in Sessions /\ sessions'[s] # NoRow
  BY DEF Existing
<1>2. CASE sessions'[s] = sessions[s]
  BY <1>1, <1>2 DEF StatusKnown, Existing
<1>3. ASSUME NEW r \in Requests, BookCommit(r)
      PROVE  sessions'[s] = sessions[s] \/ sessions'[s].status = "CONFIRMED"
  BY <1>1, <1>3 DEF BookCommit, TypeOK
<1>4. ASSUME NEW r \in Requests, UnlockUpdate(r)
      PROVE  sessions'[s] = sessions[s] \/ sessions'[s].status = "EMERGENCY_UNLOCKED"
  BY <1>1, <1>4, UnlockedRow
<1>5. ASSUME NEW r \in Requests, NEW o \in Sessions, AdministerSession(r, o)
      PROVE  s \in Existing /\ sessions'[s].status = sessions[s].status
  BY <1>1, <1>5, AdministeredRow DEF Existing
<1>. QED BY <1>1, <1>2, <1>3, <1>4, <1>5, RowSteps DEF StatusKnown

LEMMA NextInTurn ==
  ASSUME TypeOK, TypeOK', PaidExactlyOnce, HoldInv, InTurn, [Next]_vars
  PROVE  InTurn'
<1> SUFFICES ASSUME NEW p \in Pods, NEW s \in Kept(p)', NEW t \in Kept(p)', s # t,
                    sessions'[s].status = "CONFIRMED", sessions'[t].status = "CONFIRMED"
             PROVE  \/ sessions'[s].endAt + Delay <= BookedAt(t)'
                    \/ sessions'[t].endAt + Delay <= BookedAt(s)'
  BY DEF InTurn
<1>1. CASE \E r \in Requests : BookCommit(r)
  <2>1. PICK r \in Requests : BookCommit(r)
    BY <1>1
  <2>2. PICK o \in Pods : o = req[r].pod /\ req[r].now \in Nat
    BY <2>1, BookingFields DEF BookCommit, BookingPCs
  <2>3. PICK n \in Sessions :
          /\ Kept(p)' \subseteq Kept(p) \cup (IF p = o THEN {n} ELSE {})
          /\ BookedAt(n)' = req[r].now
          /\ \A x \in Existing : x # n /\ sessions'[x] = sessions[x]
    BY <2>1, <2>2, KeptCommit
  <2>4. ASSUME NEW x \in Kept(p)
        PROVE  /\ x # n /\ sessions'[x] = sessions[x] /\ BookedAt(x)' = BookedAt(x)
    BY <2>3, KeptTyped DEF BookedAt
  <2>5. ASSUME p = o, NEW x \in Kept(p), sessions[x].status = "CONFIRMED"
        PROVE  sessions[x].endAt + Delay <= req[r].now
    BY <2>1, <2>2, <2>5 DEF HoldInv, BookCommit
  <2>6. CASE s \in Kept(p) /\ t \in Kept(p)
    BY <2>4, <2>6 DEF InTurn
  <2>7. CASE s \in Kept(p) /\ t \notin Kept(p)
    BY <2>3, <2>4, <2>5, <2>7
  <2>8. CASE s \notin Kept(p) /\ t \in Kept(p)
    BY <2>3, <2>4, <2>5, <2>8
  <2>. QED BY <2>3, <2>6, <2>7, <2>8
<1>2. CASE \A r \in Requests : ~BookCommit(r)
  <2>1. /\ s \in Kept(p) /\ BookedAt(s)' = BookedAt(s)
        /\ sessions[s].status = "CONFIRMED" /\ sessions'[s].endAt = sessions[s].endAt
    BY <1>2, KeptStep
  <2>2. /\ t \in Kept(p) /\ BookedAt(t)' = BookedAt(t)
        /\ sessions[t].status = "CONFIRMED" /\ sessions'[t].endAt = sessions[t].endAt
    BY <1>2, KeptStep
  <2>. QED BY <2>1, <2>2 DEF InTurn
<1>. QED BY <1>1, <1>2

\* A session that holds its pod is confirmed.
LEMMA HolderIs ==
  ASSUME TypeOK, StatusKnown, UnlockedIsOver, NEW p \in Pods, NEW s \in Holders(p)
  PROVE  /\ s \in Kept(p) /\ sessions[s].status = "CONFIRMED" /\ sessions[s].endAt > clock
         /\ BookedAt(s) \in Int /\ sessions[s].endAt \in Int
<1>1. s \in Kept(p) /\ s \in Existing /\ sessions[s].endAt > clock
  BY DEF Holders, Live, EndingAfter, Kept, Existing
<1>2. sessions[s].status # "EMERGENCY_UNLOCKED"
  BY <1>1, KeptTyped DEF UnlockedIsOver, TypeOK
<1>. QED BY <1>1, <1>2, KeptTyped DEF StatusKnown

\* Another confirmed session of the pod was over before the holder was booked.
LEMMA HolderCameLast ==
  ASSUME TypeOK, StatusKnown, UnlockedIsOver, HoldInv, InTurn, NEW p \in Pods,
         NEW s \in Holders(p), NEW o \in Kept(p), o # s, sessions[o].status = "CONFIRMED"
  PROVE  sessions[o].endAt + Delay <= BookedAt(s)
<1>1. /\ s \in Kept(p) /\ sessions[s].status = "CONFIRMED" /\ sessions[s].endAt > clock
      /\ sessions[s].endAt \in Int
  BY HolderIs
<1>2. BookedAt(o) <= clock /\ BookedAt(o) \in Int
  BY KeptTyped DEF HoldInv
<1>3. ~(sessions[s].endAt + Delay <= BookedAt(o))
  BY <1>1, <1>2 DEF TypeOK
<1>. QED BY <1>1, <1>3 DEF InTurn

\* What the lookup of an unlock may find.
LEMMA FoundIs ==
  ASSUME TypeOK, restored = {}, NEW p \in Pods, NEW t \in Nat,
         NEW o \in FirstEnding(EndingAfter(p, t - UnlockWindow))
  PROVE  o \in Kept(p) /\ o \in Sessions /\ sessions[o].endAt > t - UnlockWindow
  BY DEF FirstEnding, EndingAfter, Existing, Kept

\* How an unlock reaches its update.
LEMMA UnlockArrives ==
  ASSUME TypeOK, [Next]_vars, NEW r \in Requests, req'[r].pc = "unlockUpdate"
  PROVE  \/ req'[r] = req[r]
         \/ /\ UnlockFind(r) /\ req[r].pod \in Pods /\ req[r].now \in Nat
            /\ UNCHANGED <<clock, database, history>>
            /\ req'[r].pod = req[r].pod /\ req'[r].now = req[r].now
            /\ \E s \in FirstEnding(EndingAfter(req[r].pod, req[r].now - UnlockWindow)) :
                 /\ sessions[s].status = "CONFIRMED" /\ sessions[s].endAt > req[r].now
                 /\ req'[r].session = s
<1>1. req'[r] = req[r] \/ UnlockFind(r)
  BY DEF Next, Step, vars, TypeOK, AcquireLock, BookCheckPod, BookCheckOverlap,
         BookDebit, BookCommit, UnlockFind, SessionUnlockStamp, UnlockUpdate, RefreshPod,
         PulseDoor, Fail, DeleteSession, PermanentDeleteSession, RestoreSession,
         StartBooking, StartPodUnlock, StartSessionUnlock, Tick, SwitchPod, TopUp,
         Rollback, Booking, Unlocking, Publishing, Idle
<1>2. CASE UnlockFind(r)
  <2>1. req[r].pod \in Pods /\ req[r].now \in Nat
    BY <1>2, UnlockFields DEF UnlockFind, PodUnlockPCs
  <2>2. req' # [req EXCEPT ![r] = Idle] /\ req' # [req EXCEPT ![r] = Publishing(req[r].pod, TRUE)]
    BY DEF TypeOK, Idle, Publishing
  <2>3. PICK s \in FirstEnding(EndingAfter(req[r].pod, req[r].now - UnlockWindow)) :
          /\ sessions[s].status = "CONFIRMED" /\ sessions[s].endAt > req[r].now
          /\ req' = [req EXCEPT ![r] = Unlocking("unlockUpdate", req[r].pod, s, req[r].now)]
          /\ UNCHANGED <<clock, database, locks, unpublished, history>>
    BY <1>2, <2>2 DEF UnlockFind, Rollback
  <2>4. req'[r] = Unlocking("unlockUpdate", req[r].pod, s, req[r].now)
    BY <2>3 DEF TypeOK
  <2>5. req'[r].pod = req[r].pod /\ req'[r].now = req[r].now /\ req'[r].session = s
    BY <2>4 DEF Unlocking
  <2>. QED BY <1>2, <2>1, <2>3, <2>5
<1>. QED BY <1>1, <1>2

LEMMA RestoredGrows ==
  ASSUME [Next]_vars
  PROVE  restored \subseteq restored'
<1>1. ASSUME NEW r \in Requests, BookCommit(r) PROVE restored' = restored
  BY <1>1 DEF BookCommit, history
<1>2. ASSUME NEW r \in Requests, NEW o \in Sessions, AdministerSession(r, o)
      PROVE  restored \subseteq restored'
  BY <1>2 DEF AdministerSession, DeleteSession, PermanentDeleteSession, RestoreSession, history
<1>. QED BY <1>1, <1>2, RowSteps

\* A holder of the pod of an unlock held it before the step, or was booked after the
\* unlock's clock was read: the lock of the unlock keeps the bookings of its pod out.
LEMMA HolderStays ==
  ASSUME IInv, restored' = {}, [Next]_vars, NEW r \in Requests,
         req[r].pc = "unlockUpdate", req'[r] = req[r], NEW p \in Pods, p = req[r].pod,
         NEW s \in Holders(p)'
  PROVE  s \in Holders(p) /\ BookedAt(s)' = BookedAt(s)
<1>1. TypeOK /\ LockHeld /\ NowIsPast /\ PaidExactlyOnce /\ ClearAhead
  BY DEF IInv
<1>2. CASE \E b \in Requests : BookCommit(b)
  <2>1. PICK b \in Requests : BookCommit(b)
    BY <1>2
  <2>2. PICK o \in Pods : o = req[b].pod
    BY <1>1, <2>1, BookingFields DEF BookCommit, BookingPCs
  <2>3. lock[p] = r /\ lock[o] = b /\ b # r
    BY <1>1, <2>1, <2>2 DEF LockHeld, LockedPCs, BookCommit
  <2>4. Holders(p)' = Holders(p)
    BY <1>1, <2>1, <2>2, <2>3, CommitHolders
  <2>5. s \in Existing
    BY <2>4 DEF Holders, Live, EndingAfter
  <2>6. sessions'[s] = sessions[s]
    BY <1>1, <2>1, <2>2, <2>5, KeptCommit
  <2>. QED BY <2>4, <2>6 DEF BookedAt
<1>3. CASE \A b \in Requests : ~BookCommit(b)
  <2>1. s \in Kept(p)'
    BY DEF Holders, Live, EndingAfter, Kept, Existing
  <2>2. Holders(p)' \subseteq Holders(p)
    BY <1>1, <1>3, HoldersShrink
  <2>. QED BY <1>1, <1>3, <2>1, <2>2, KeptStep
<1>. QED BY <1>2, <1>3

\* An unlock finds the session that holds its pod, and keeps its aim until it writes.
LEMMA NextAimed ==
  ASSUME IInv, UnlockInv, [Next]_vars
  PROVE  Aimed'
<1> SUFFICES ASSUME restored' = {}, NEW r \in Requests, req'[r].pc = "unlockUpdate",
                    NEW p, p = req'[r].pod, NEW s \in Holders(p)', BookedAt(s)' <= req'[r].now
             PROVE  s = req'[r].session
  BY DEF Aimed, Holders, Live, EndingAfter, Existing
<1>1. TypeOK /\ UnlockedIsOver /\ NowIsPast
  BY DEF IInv
<1>2. StatusKnown /\ HoldInv /\ InTurn /\ Aimed
  BY DEF UnlockInv
<1>3. restored = {}
  BY RestoredGrows
<1>4. CASE req'[r] = req[r]
  <2>1. p \in Pods /\ p = req[r].pod
    BY <1>1, <1>4, UpdateFields DEF UpdatePCs
  <2>2. s \in Holders(p) /\ BookedAt(s)' = BookedAt(s)
    BY <1>4, <2>1, HolderStays
  <2>. QED BY <1>2, <1>3, <1>4, <2>1, <2>2 DEF Aimed
<1>5. CASE /\ UnlockFind(r) /\ req[r].pod \in Pods /\ req[r].now \in Nat
           /\ UNCHANGED <<clock, database, history>>
           /\ req'[r].pod = req[r].pod /\ req'[r].now = req[r].now
           /\ \E f \in FirstEnding(EndingAfter(req[r].pod, req[r].now - UnlockWindow)) :
                /\ sessions[f].status = "CONFIRMED" /\ sessions[f].endAt > req[r].now
                /\ req'[r].session = f
  <2>1. PICK t \in Nat : t = req[r].now /\ p \in Pods /\ p = req[r].pod
    BY <1>5
  <2>2. PICK f \in FirstEnding(EndingAfter(p, t - UnlockWindow)) :
          sessions[f].status = "CONFIRMED" /\ sessions[f].endAt > t /\ req'[r].session = f
    BY <1>5, <2>1
  <2>3. f \in Kept(p)
    BY <1>1, <1>3, <2>1, <2>2, FoundIs
  <2>4. s \in Holders(p) /\ BookedAt(s)' = BookedAt(s)
    <3>1. UNCHANGED <<clock, sessions, restored>>
      BY <1>5 DEF database, history
    <3>. QED BY <3>1 DEF Holders, Live, EndingAfter, Existing, BookedAt
  <2>5. ASSUME f # s PROVE FALSE
    <3>1. sessions[f].endAt + Delay <= BookedAt(s)
      BY <1>1, <1>2, <2>1, <2>2, <2>3, <2>4, <2>5, HolderCameLast
    <3>2. BookedAt(s) <= t
      BY <1>5, <2>1, <2>4
    <3>3. BookedAt(s) \in Int /\ sessions[f].endAt \in Int
      BY <1>1, <1>2, <2>1, <2>3, <2>4, HolderIs, KeptTyped
    <3>. QED BY <2>1, <2>2, <3>1, <3>2, <3>3
  <2>. QED BY <2>2, <2>5
<1>. QED BY <1>1, <1>4, <1>5, UnlockArrives

LEMMA NextUnlockInv ==
  ASSUME IInv, IInv', UnlockInv, [Next]_vars
  PROVE  UnlockInv'
<1>1. /\ TypeOK /\ TypeOK' /\ LockHeld /\ NowIsPast /\ PaidExactlyOnce
      /\ HoldInv /\ StatusKnown /\ InTurn
  BY DEF IInv, UnlockInv
<1>. QED BY <1>1, NextHoldInv, NextStatusKnown, NextInTurn, NextAimed DEF UnlockInv

\* An unlock by pod answers from its lookup or from its update.
LEMMA UnlockAnswers ==
  ASSUME TypeOK, [Next]_vars, NEW r \in Requests,
         req[r].pc \in {"unlockFind", "unlockUpdate"}, req'[r].pc = "refresh"
  PROVE  UnlockFind(r) \/ UnlockUpdate(r)
  BY DEF Next, Step, vars, TypeOK, AcquireLock, BookCheckPod, BookCheckOverlap,
         BookDebit, BookCommit, UnlockFind, SessionUnlockStamp, UnlockUpdate, RefreshPod,
         PulseDoor, Fail, DeleteSession, PermanentDeleteSession, RestoreSession,
         StartBooking, StartPodUnlock, StartSessionUnlock, Tick, SwitchPod, TopUp,
         Rollback, Booking, Unlocking, Publishing, Idle

\* The update leaves no holder that was booked when the unlock read its clock.
LEMMA UpdateEnds ==
  ASSUME IInv, UnlockInv, [Next]_vars, restored = {}, NEW r \in Requests, UnlockUpdate(r),
         req[r].pc = "unlockUpdate", NEW p \in Pods, p = req[r].pod,
         NEW s \in Holders(p)', BookedAt(s)' <= req[r].now
  PROVE  FALSE
<1>1. TypeOK /\ NowIsPast
  BY DEF IInv
<1>2. /\ req[r].session \in Sessions /\ req[r].now \in Nat /\ req[r].now <= clock
      /\ clock' = clock /\ restored' = restored
  BY <1>1, UpdateFields DEF UpdatePCs, NowIsPast, UnlockUpdate, history
<1>3. \A b \in Requests : ~BookCommit(b)
  <2> SUFFICES ASSUME NEW b \in Requests, BookCommit(b) PROVE FALSE
    OBVIOUS
  <2>1. req' = [req EXCEPT ![r] = Publishing(req[r].pod, TRUE)]
        /\ req' = [req EXCEPT ![b] = Publishing(req[b].pod, TRUE)]
    BY DEF BookCommit, UnlockUpdate
  <2>2. req[b].pc = "bookInsert" /\ b # r
    BY DEF BookCommit
  <2>. QED BY <1>1, <2>1, <2>2 DEF TypeOK, Publishing
<1>4. s \in Holders(p)
  BY <1>1, <1>3, HoldersShrink
<1>5. BookedAt(s)' = BookedAt(s)
  <2>1. s \in Kept(p)'
    BY DEF Holders, Live, EndingAfter, Kept, Existing
  <2>. QED BY <1>1, <1>3, <2>1, KeptStep
<1>6. s = req[r].session
  BY <1>4, <1>5 DEF UnlockInv, Aimed
<1>7. s \in Existing /\ sessions[s] \in SessionRow
  BY <1>1, <1>4 DEF Holders, Live, EndingAfter, Existing, TypeOK
<1>8. sessions' = [sessions EXCEPT ![s] = Unlocked(sessions[s], req[r].now)]
  BY <1>6, <1>7 DEF UnlockUpdate
<1>9. sessions'[s].endAt = req[r].now
  BY <1>1, <1>2, <1>6, <1>7, <1>8 DEF TypeOK, Unlocked, SessionRow
<1>10. sessions'[s].endAt > clock
  BY <1>2 DEF Holders, Live, EndingAfter
<1>. QED BY <1>1, <1>2, <1>9, <1>10 DEF TypeOK

\* An unlock that answers from its lookup has found a session that is over, and none
\* that is over hides one booked since, when the window is no longer than the end delay.
LEMMA LookupMissesNone ==
  ASSUME IInv, UnlockInv, restored = {}, Delay >= MinUnlockWindow, NEW r \in Requests,
         UnlockFind(r), req'[r].pc = "refresh", NEW p \in Pods, p = req[r].pod,
         NEW t \in Nat, t = req[r].now, NEW s \in Reachable(p, t)'
  PROVE  FALSE
<1>1. TypeOK /\ NowIsPast /\ UnlockedIsOver /\ StatusKnown /\ HoldInv /\ InTurn
  BY DEF IInv, UnlockInv
<1>2. PICK o \in FirstEnding(EndingAfter(p, t - UnlockWindow)) :
        /\ sessions[o].status # "CONFIRMED" \/ sessions[o].endAt <= t
        /\ UNCHANGED <<clock, database, history>>
  <2>1. req' # [req EXCEPT ![r] = Idle]
    BY <1>1 DEF TypeOK, Idle
  <2>2. \A o : req' # [req EXCEPT ![r] = Unlocking("unlockUpdate", p, o, t)]
    BY <1>1 DEF TypeOK, Unlocking
  <2>. QED BY <2>1, <2>2 DEF UnlockFind, Rollback
<1>3. s \in Reachable(p, t)
  <2>1. UNCHANGED <<clock, sessions, restored>>
    BY <1>2 DEF database, history
  <2>. QED BY <2>1 DEF Reachable, Holders, Live, EndingAfter, Existing, BookedAt
<1>4. s \in Holders(p) /\ BookedAt(s) <= t
  BY <1>3 DEF Reachable
<1>5. /\ sessions[s].status = "CONFIRMED" /\ sessions[s].endAt > clock
      /\ BookedAt(s) \in Int /\ sessions[s].endAt \in Int
  BY <1>1, <1>4, HolderIs
<1>6. o \in Kept(p) /\ o \in Sessions /\ sessions[o].endAt > t - Delay
  BY <1>1, <1>2, FoundIs DEF UnlockWindow
<1>7. o \in Existing /\ sessions[o].endAt \in Int /\ sessions[o].pod = p
  BY <1>1, <1>6, KeptTyped DEF Kept
<1>8. t <= clock
  BY <1>1 DEF NowIsPast, UnlockFind, PodUnlockPCs
<1>9. o # s
  BY <1>1, <1>2, <1>5, <1>8 DEF TypeOK
<1>10. sessions[o].endAt + Delay <= BookedAt(s)
  <2>1. CASE sessions[o].status = "CONFIRMED"
    BY <1>1, <1>4, <1>6, <1>9, <2>1, HolderCameLast
  <2>2. CASE sessions[o].status = "EMERGENCY_UNLOCKED"
    BY <1>3, <1>5, <1>7, <2>2 DEF Reachable
  <2>. QED BY <1>1, <1>7, <2>1, <2>2 DEF StatusKnown
<1>. QED BY <1>4, <1>5, <1>6, <1>7, <1>10

\* When an emergency unlock by pod answers, the session that was booked when the button
\* was pressed is over.  The hypothesis is that the unlock looks back no further than
\* the end delay (SESSION_START_END_DELAY_SECONDS is 20 by default, the unlock's minimum
\* is 5): with a shorter delay the session that ended last hides the one that is running.
THEOREM UnlocksEndActiveSession ==
  ASSUME Delay >= MinUnlockWindow
  PROVE  Spec => UnlockEndsActiveSession
<1>1. Init => UnlockInv
  BY DEF Init, UnlockInv, HoldInv, StatusKnown, InTurn, Aimed, Kept, Existing, Idle
<1>2. ASSUME IInv, UnlockInv, [Next]_vars, NEW r \in Requests, NEW p \in Pods,
             NEW t \in 0..clock, req[r].pc \in {"unlockFind", "unlockUpdate"},
             req[r].pod = p, req[r].now = t, req'[r].pc = "refresh", restored = {}
      PROVE  Reachable(p, t)' = {}
  <2>1. TypeOK /\ t \in Nat
    BY <1>2 DEF IInv, TypeOK
  <2>2. ASSUME UnlockFind(r), NEW s \in Reachable(p, t)' PROVE FALSE
    BY <1>2, <2>1, <2>2, LookupMissesNone
  <2>3. ASSUME UnlockUpdate(r), NEW s \in Reachable(p, t)' PROVE FALSE
    <3>1. req[r].pc = "unlockUpdate"
      BY <1>2, <2>3 DEF UnlockUpdate
    <3>2. s \in Holders(p)' /\ BookedAt(s)' <= t
      BY <2>3 DEF Reachable
    <3>. QED BY <1>2, <2>3, <3>1, <3>2, UpdateEnds
  <2>. QED BY <1>2, <2>1, <2>2, <2>3, UnlockAnswers
<1>3. IInv /\ UnlockInv /\ [Next]_vars =>
        [\A r \in Requests, p \in Pods, t \in 0..clock :
           /\ req[r].pc \in {"unlockFind", "unlockUpdate"}
           /\ req[r].pod = p /\ req[r].now = t
           /\ req'[r].pc = "refresh"
           /\ restored = {}
           => Reachable(p, t)' = {}]_vars
  BY <1>2
<1>4. IInv /\ IInv' /\ UnlockInv /\ [Next]_vars => UnlockInv'
  BY NextUnlockInv
<1>. QED BY <1>1, <1>3, <1>4, Invariant, PTL DEF Spec, UnlockEndsActiveSession
=============================================================================
