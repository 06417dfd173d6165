-------------------------- MODULE AuthContextProofs --------------------------
(***************************************************************************)
(* Whatever a service decides on is recent, and a late answer is nobody's, *)
(* for any numbers of processes, requests and handlers and for all         *)
(* periods.  Each copy of a fact is bounded by how old it is and how long  *)
(* it may still be copied: the invariant IInv says so of every place a     *)
(* copy is kept, and each step hands on less time than it was given.       *)
(***************************************************************************)
EXTENDS AuthContext, FiniteSetTheorems, TLAPS

USE AuthAssumption DEF AuthAssumption

Ages == [Facts -> [BOOLEAN -> 0..Never]]
Circuits == [failures : 0..(Threshold - 1), left : 0..OpenTime]
Fetches == [pc : {"idle", "ask", "asking", "organization"},
            attempt : 0..Attempts, left : 0..Max2(Timeout, Lag), context : Context]
Executions == [pc : {"idle", "session", "status", "user", "store", "role", "reply"},
               for : Processes \cup {Nobody}, left : 0..Lag, status : BOOLEAN,
               member : BOOLEAN, reply : Context]
Places == [pc : {"idle", "redis", "wait"}, at : Processes \cup {Nobody}]

\* TypeOK, with names for its parts.
Typed ==
  /\ fact \in [Facts -> BOOLEAN] /\ since \in Ages /\ changes \in 0..MaxChanges
  /\ statusCache \in Entry(BOOLEAN) /\ statusCache.left <= StatusTTL
  /\ roleCache \in Entry(BOOLEAN) /\ roleCache.left <= RoleTTL
  /\ shared \in Entry(Context) /\ shared.left <= RedisTTL
  /\ memory \in [Processes -> Entry(Context)]
  /\ \A p \in Processes : memory[p].left <= MemoryTTL
  /\ circuit \in [Processes -> Circuits] /\ fetch \in [Processes -> Fetches]
  /\ handler \in [Handlers -> Executions] /\ req \in [Requests -> Places]

LEMMA TypeIs == TypeOK <=> Typed
  BY DEF TypeOK, Typed, Ages, Circuits, Fetches, Executions, Places

\* The periods are numbers.
LEMMA Periods ==
  /\ Never \in Nat /\ AfterFetch \in Nat /\ AfterReply \in Nat
  /\ Max2(Timeout, Lag) \in Nat /\ Timeout <= Max2(Timeout, Lag) /\ Lag <= Max2(Timeout, Lag)
  /\ Lag \in 0..Lag /\ 0 \in 0..Lag /\ {0, 1} \subseteq 0..Attempts
  /\ {0, Timeout, Lag} \subseteq 0..Max2(Timeout, Lag)
  /\ \A f : Bound(f) \in Nat
  BY DEF Never, AfterFetch, AfterReply, Max2, Bound

LEMMA NothingKnown == Unauthenticated \in Context /\ Gone(Unauthenticated) \in Entry(Context)
                      /\ Gone(FALSE) \in Entry(BOOLEAN)
  BY DEF Unauthenticated, Context, Gone, Entry

\* An entry that ages stays an entry of no longer life.
LEMMA AgedIs ==
  ASSUME NEW S, NEW v \in S, NEW e \in Entry(S)
  PROVE  /\ Aged(e, v) \in Entry(S) /\ Aged(e, v).left <= e.left
         /\ Aged(e, v).left > 0 =>
              Aged(e, v).value = e.value /\ Aged(e, v).left = e.left - 1
  BY DEF Aged, Gone, Entry

\* Failures counted against a circuit leave it a circuit.
LEMMA FailedIs ==
  ASSUME NEW c \in Circuits, NEW n \in Nat
  PROVE  Failed(c, n) \in Circuits
  BY DEF Failed, Circuits

\* What the handlers and fetches turn into stays an execution and a fetch.
LEMMA Executed ==
  ASSUME NEW s \in Executions, NEW v \in BOOLEAN, NEW n \in 0..Lag, NEW c \in Context
  PROVE  /\ [s EXCEPT !.pc = "status"] \in Executions
         /\ [s EXCEPT !.member = v] \in Executions
         /\ [s EXCEPT !.pc = "user"] \in Executions
         /\ [s EXCEPT !.pc = "role"] \in Executions
         /\ [s EXCEPT !.pc = "store", !.status = v, !.left = n] \in Executions
         /\ [s EXCEPT !.pc = "role", !.status = FALSE, !.left = n] \in Executions
         /\ [Resting EXCEPT !.pc = "reply", !.for = s.for, !.reply = c] \in Executions
         /\ Resting \in Executions
  BY NothingKnown, Periods DEF Executions, Resting

LEMMA Fetched ==
  ASSUME NEW s \in Fetches, NEW n \in 0..Max2(Timeout, Lag), NEW c \in Context,
         NEW k \in 0..Attempts
  PROVE  /\ [s EXCEPT !.pc = "asking", !.left = n] \in Fetches
         /\ [s EXCEPT !.pc = "ask", !.attempt = k, !.left = n] \in Fetches
         /\ [s EXCEPT !.pc = "ask", !.attempt = k] \in Fetches
         /\ [pc |-> "organization", attempt |-> s.attempt, left |-> n, context |-> c] \in Fetches
         /\ [s EXCEPT !.left = Less(@)] \in Fetches
         /\ Idle \in Fetches
<1>0. [s EXCEPT !.left = n] \in Fetches /\ [s EXCEPT !.attempt = k] \in Fetches
  BY DEF Fetches
<1>1. \A t \in Fetches : /\ [t EXCEPT !.pc = "asking"] \in Fetches
                          /\ [t EXCEPT !.pc = "ask"] \in Fetches
  BY DEF Fetches
<1>2. \A t \in Fetches : [t EXCEPT !.attempt = k] \in Fetches /\ [t EXCEPT !.left = n] \in Fetches
  BY DEF Fetches
<1>3. [s EXCEPT !.pc = "asking", !.left = n] \in Fetches
  BY <1>1, <1>2
<1>4. [s EXCEPT !.pc = "ask", !.attempt = k] \in Fetches
  BY <1>1, <1>2
<1>5. [s EXCEPT !.pc = "ask", !.attempt = k, !.left = n] \in Fetches
  BY <1>1, <1>2
<1>6. [pc |-> "organization", attempt |-> s.attempt, left |-> n, context |-> c] \in Fetches
  BY DEF Fetches
<1>7. Less(s.left) \in 0..Max2(Timeout, Lag)
  BY Periods DEF Fetches, Less
<1>8. [s EXCEPT !.left = Less(@)] \in Fetches
  BY <1>7 DEF Fetches
<1>9. Idle \in Fetches
  BY NothingKnown, Periods DEF Fetches, Idle
<1> QED
  BY <1>3, <1>4, <1>5, <1>6, <1>8, <1>9

LEMMA WaitersFinite ==
  ASSUME NEW p \in Processes
  PROVE  Cardinality(Waiters(p)) \in Nat
<1>1. Waiters(p) \subseteq Requests /\ IsFiniteSet(Requests)
  BY DEF Waiters
<1> QED
  BY <1>1, FS_Subset, FS_CardinalityType

----------------------------------------------------------------------------
(* Types *)

LEMMA InitTyped == Init => Typed
<1> SUFFICES ASSUME Init PROVE Typed
  OBVIOUS
<1>1. fact \in [Facts -> BOOLEAN]
  BY DEF Init
<1>2. since \in Ages
  BY <1>1, Periods DEF Init, Ages
<1>3. /\ statusCache \in Entry(BOOLEAN) /\ roleCache \in Entry(BOOLEAN)
      /\ shared \in Entry(Context) /\ memory \in [Processes -> Entry(Context)]
      /\ statusCache.left = 0 /\ roleCache.left = 0 /\ shared.left = 0
      /\ \A p \in Processes : memory[p].left = 0
  BY NothingKnown DEF Init, Gone
<1>4. circuit \in [Processes -> Circuits]
  BY DEF Init, Circuits, Closed
<1>5. fetch \in [Processes -> Fetches]
  BY NothingKnown, Periods DEF Init, Fetches, Idle
<1>6. handler \in [Handlers -> Executions]
  BY NothingKnown DEF Init, Executions, Resting
<1>7. req \in [Requests -> Places]
  BY DEF Init, Places, Away
<1>8. changes \in 0..MaxChanges
  BY DEF Init
<1> QED
  BY <1>1, <1>2, <1>3, <1>4, <1>5, <1>6, <1>7, <1>8 DEF Typed

LEMMA ChangeTyped ==
  ASSUME Typed, NEW f \in Facts, NEW v \in BOOLEAN, Change(f, v)
  PROVE  /\ fact' \in [Facts -> BOOLEAN] /\ since' \in Ages /\ changes' \in 0..MaxChanges
  BY Periods DEF Typed, Change, Ages

LEMMA AbandonedTyped ==
  ASSUME handler \in [Handlers -> Executions], NEW p
  PROVE  Abandoned(p) \in [Handlers -> Executions]
  BY DEF Abandoned, Executions

LEMMA ReleasedTyped ==
  ASSUME req \in [Requests -> Places], NEW p
  PROVE  Released(p) \in [Requests -> Places]
  BY DEF Released, Places, Away

LEMMA AttemptFailedTyped ==
  ASSUME Typed, NEW p \in Processes, NEW b \in BOOLEAN, AttemptFailed(p, b)
  PROVE  fetch' \in [Processes -> Fetches] /\ circuit' \in [Processes -> Circuits]
         /\ req' \in [Requests -> Places]
<1>0. fetch \in [Processes -> Fetches] /\ circuit \in [Processes -> Circuits]
      /\ req \in [Requests -> Places]
  BY DEF Typed
<1>1. CASE b /\ fetch[p].attempt < Attempts
  <2>1. fetch' = [fetch EXCEPT ![p].pc = "ask", ![p].attempt = @ + 1, ![p].left = 0]
        /\ UNCHANGED <<circuit, req>>
    BY <1>1 DEF AttemptFailed
  <2>2. fetch[p] \in Fetches /\ fetch[p].attempt + 1 \in 0..Attempts
    BY <1>0, <1>1 DEF Fetches
  <2>3. [fetch[p] EXCEPT !.pc = "ask", !.attempt = fetch[p].attempt + 1, !.left = 0] \in Fetches
    BY <2>2, Fetched, Periods, NothingKnown
  <2> QED
    BY <1>0, <2>1, <2>3
<1>2. CASE ~(b /\ fetch[p].attempt < Attempts)
  <2>1. /\ fetch' = [fetch EXCEPT ![p] = Idle] /\ req' = Released(p)
        /\ circuit' = [circuit EXCEPT ![p] = Failed(@, Cardinality(Waiters(p)))]
    BY <1>2 DEF AttemptFailed
  <2>2. fetch' \in [Processes -> Fetches]
    BY <1>0, <2>1, NothingKnown, Periods DEF Fetches, Idle
  <2>3. circuit' \in [Processes -> Circuits]
    BY <1>0, <2>1, FailedIs, WaitersFinite
  <2> QED
    BY <1>0, <2>1, <2>2, <2>3, ReleasedTyped
<1> QED
  BY <1>1, <1>2

LEMMA SettleTyped ==
  ASSUME Typed, NEW p \in Processes, NEW c \in Context, Settle(p, c)
  PROVE  /\ fetch' \in [Processes -> Fetches] /\ circuit' \in [Processes -> Circuits]
         /\ req' \in [Requests -> Places]
         /\ memory' \in [Processes -> Entry(Context)]
         /\ \A q \in Processes : memory'[q].left <= MemoryTTL
         /\ shared' \in Entry(Context) /\ shared'.left <= RedisTTL
<1>1. fetch' \in [Processes -> Fetches]
  BY NothingKnown, Periods DEF Typed, Settle, Fetches, Idle
<1>2. circuit' \in [Processes -> Circuits]
  BY DEF Typed, Settle, Circuits, Closed
<1>3. req' \in [Requests -> Places]
  BY ReleasedTyped DEF Typed, Settle
<1>4. /\ memory' \in [Processes -> Entry(Context)]
      /\ \A q \in Processes : memory'[q].left <= MemoryTTL
  BY DEF Typed, Settle, Entry
<1>5. shared' \in Entry(Context) /\ shared'.left <= RedisTTL
  BY DEF Typed, Settle, Entry
<1> QED
  BY <1>1, <1>2, <1>3, <1>4, <1>5

LEMMA FactChangesTyped ==
  ASSUME Typed, FactChanges
  PROVE  Typed'
<1>1. /\ fact' \in [Facts -> BOOLEAN] /\ since' \in Ages /\ changes' \in 0..MaxChanges
  BY ChangeTyped DEF FactChanges, SignOut, Ban, UpdateUser, UpdatePermission, UpdateMember, Facts
<1>2. /\ statusCache' \in {statusCache, Gone(FALSE)}
      /\ UNCHANGED <<roleCache, caches, circuit, fetch, handler, req>>
  BY DEF FactChanges, SignOut, Ban, UpdateUser, UpdatePermission, UpdateMember, service
<1>3. statusCache' \in Entry(BOOLEAN) /\ statusCache'.left <= StatusTTL
  <2>1. Gone(FALSE) \in Entry(BOOLEAN) /\ Gone(FALSE).left <= StatusTTL
    BY NothingKnown DEF Gone
  <2> QED
    BY <1>2, <2>1 DEF Typed
<1> QED
  BY <1>1, <1>2, <1>3 DEF Typed, caches

LEMMA RequestTyped ==
  ASSUME Typed, NEW r \in Requests,
         RedisHit(r) \/ RedisMiss(r) \/ \E p \in Processes : Arrive(r, p)
  PROVE  Typed'
<1>1. CASE RedisHit(r)
  <2>1. [value |-> shared.value, left |-> MemoryTTL] \in Entry(Context)
    BY DEF Typed, Entry
  <2>2. memory' \in [Processes -> Entry(Context)] /\ \A p \in Processes : memory'[p].left <= MemoryTTL
    <3>1. memory' = [memory EXCEPT ![req[r].at] = [value |-> shared.value, left |-> MemoryTTL]]
      BY <1>1 DEF RedisHit
    <3>2. \A p \in Processes : memory'[p] \in {memory[p], [value |-> shared.value, left |-> MemoryTTL]}
      BY <3>1 DEF Typed
    <3>3. memory' \in [Processes -> Entry(Context)]
      BY <2>1, <3>1 DEF Typed
    <3>4. \A p \in Processes : memory[p].left <= MemoryTTL
      BY DEF Typed
    <3> QED
      BY <3>2, <3>3, <3>4
  <2>3. req' \in [Requests -> Places]
    BY <1>1 DEF Typed, RedisHit, Places, Away
  <2> QED
    BY <1>1, <2>2, <2>3 DEF Typed, RedisHit, facts, service
<1>2. CASE Refuse(r)
  BY <1>2 DEF Typed, Refuse, facts, service, caches, Places, Away
<1>3. CASE Join(r)
  <2>0. \A p \in Processes : [fetch[p] EXCEPT !.pc = "ask", !.attempt = 1] \in Fetches
    <3>1. 1 \in 0..Attempts
      OBVIOUS
    <3> QED
      BY <3>1, Fetched, Periods, NothingKnown DEF Typed
  <2>1. fetch' \in [Processes -> Fetches]
    BY <1>3, <2>0 DEF Typed, Join
  <2>2. req' \in [Requests -> Places]
    BY <1>3 DEF Typed, Join, Places
  <2> QED
    BY <1>3, <2>1, <2>2 DEF Typed, Join, facts, service, caches
<1>4. ASSUME NEW p \in Processes, Arrive(r, p) PROVE Typed'
  BY <1>4 DEF Typed, Arrive, facts, service, caches, Places
<1> QED
  BY <1>1, <1>2, <1>3, <1>4 DEF RedisMiss

LEMMA FetchTyped ==
  ASSUME Typed, NEW p \in Processes, FetchStep(p)
  PROVE  Typed'
<1>1. CASE Send(p)
  <2>0. [fetch[p] EXCEPT !.pc = "asking", !.left = Timeout] \in Fetches
    <3>1. /\ fetch[p] \in Fetches /\ Timeout \in 0..Max2(Timeout, Lag)
          /\ Unauthenticated \in Context /\ 0 \in 0..Attempts
      BY Periods, NothingKnown DEF Typed
    <3> QED
      BY <3>1, Fetched
  <2>1. fetch' \in [Processes -> Fetches]
    BY <1>1, <2>0 DEF Typed, Send
  <2>2. handler' \in [Handlers -> Executions]
    <3>1. PICK h \in Handlers : handler' = [handler EXCEPT ![h].pc = "session", ![h].for = p]
      BY <1>1 DEF Send
    <3>2. [handler[h] EXCEPT !.pc = "session", !.for = p] \in Executions
      BY DEF Typed, Executions
    <3> QED
      BY <3>1, <3>2 DEF Typed
  <2> QED
    BY <1>1, <2>1, <2>2 DEF Typed, Send, facts, service, caches
<1>2. CASE Expire(p) \/ \E b \in BOOLEAN : Break(p, b)
  <2>1. PICK b \in BOOLEAN : AttemptFailed(p, b)
    BY <1>2 DEF Expire, Break
  <2>2. handler' \in [Handlers -> Executions]
    BY <1>2, AbandonedTyped DEF Typed, Expire, Break
  <2> QED
    BY <1>2, <2>1, <2>2, AttemptFailedTyped DEF Typed, Expire, Break, facts, service, caches
<1>3. CASE FinishOrganization(p)
  <2>1. PICK m \in {fact["member"], FALSE} : Settle(p, [fetch[p].context EXCEPT !.member = m])
    BY <1>3 DEF FinishOrganization
  <2>2. [fetch[p].context EXCEPT !.member = m] \in Context
    <3>1. fetch[p].context \in Context /\ m \in BOOLEAN
      BY DEF Typed, Fetches, Facts
    <3> QED
      BY <3>1 DEF Context
  <2> QED
    BY <1>3, <2>1, <2>2, SettleTyped DEF Typed, FinishOrganization, facts, service
<1> QED
  BY <1>1, <1>2, <1>3 DEF FetchStep

LEMMA HandlerTyped ==
  ASSUME Typed, NEW h \in Handlers, HandlerStep(h) \/ HandlerFails(h)
  PROVE  Typed'
<1> USE DEF Typed
<1>0. handler[h] \in Executions
  OBVIOUS
<1>a. \A c \in Context : Replying(h, c) \in Executions
  BY <1>0, Executed, Periods DEF Replying
<1>b. \A e \in Executions : Goto(h, e) => handler' \in [Handlers -> Executions]
  BY DEF Goto
<1>1. CASE LookUpSession(h)
  <2>0. [handler[h] EXCEPT !.pc = "status"] \in Executions
    BY <1>0, Executed, Periods, NothingKnown
  <2>1. handler' \in [Handlers -> Executions]
    BY <1>1, <1>a, <1>b, <2>0, NothingKnown DEF LookUpSession
  <2> QED
    BY <1>1, <2>1 DEF LookUpSession, facts, service, caches
<1>2. CASE ReadStatus(h)
  <2>1. handler' \in [Handlers -> Executions]
    <3> DEFINE s == [handler[h] EXCEPT !.member = fact["member"]]
    <3>1. s \in Executions
      BY <1>0, Executed, Periods, NothingKnown DEF Facts
    <3>2. [s EXCEPT !.pc = "user"] \in Executions /\ [s EXCEPT !.pc = "role"] \in Executions
      BY <3>1, Executed, Periods, NothingKnown
    <3>3. \/ Goto(h, [s EXCEPT !.pc = "user"]) \/ Goto(h, [s EXCEPT !.pc = "role"])
          \/ Goto(h, Replying(h, Unauthenticated))
      BY <1>2 DEF ReadStatus
    <3> HIDE DEF s
    <3> QED
      BY <3>2, <3>3, <1>a, <1>b, NothingKnown
  <2> QED
    BY <1>2, <2>1 DEF ReadStatus, facts, service, caches
<1>3. CASE ReadUser(h)
  <2>1. handler' \in [Handlers -> Executions]
    <3>1. [handler[h] EXCEPT !.pc = "store", !.status = fact["status"], !.left = Lag] \in Executions
      BY <1>0, Executed, Periods, NothingKnown DEF Facts
    <3> QED
      BY <1>3, <1>b, <3>1 DEF ReadUser
  <2> QED
    BY <1>3, <2>1 DEF ReadUser, facts, service, caches
<1>4. CASE StoreUser(h)
  <2>1. handler' \in [Handlers -> Executions]
    <3>1. [handler[h] EXCEPT !.pc = "role", !.status = FALSE, !.left = 0] \in Executions
      BY <1>0, Executed, Periods, NothingKnown
    <3> QED
      BY <1>4, <1>a, <1>b, <3>1, NothingKnown DEF StoreUser
  <2>2. statusCache' \in Entry(BOOLEAN) /\ statusCache'.left <= StatusTTL
    BY <1>0, <1>4 DEF StoreUser, Entry, Executions
  <2> QED
    BY <1>4, <2>1, <2>2 DEF StoreUser, facts, caches
<1>5. CASE ResolveRole(h)
  <2>1. \A v \in BOOLEAN : Granted(h, v) \in Context
    BY <1>0 DEF Granted, Context, Executions
  <2>2. handler' \in [Handlers -> Executions]
    <3>1. roleCache.value \in BOOLEAN /\ fact["role"] \in BOOLEAN
      BY DEF Entry, Facts
    <3> QED
      BY <1>5, <1>a, <1>b, <2>1, <3>1 DEF ResolveRole
  <2>3. roleCache' \in Entry(BOOLEAN) /\ roleCache'.left <= RoleTTL
    BY <1>5 DEF ResolveRole, Entry, Facts
  <2> QED
    BY <1>5, <2>2, <2>3 DEF ResolveRole, facts, caches
<1>6. CASE Deliver(h)
  <2>1. handler' \in [Handlers -> Executions]
    BY <1>0, <1>6, <1>b, Executed, Periods, NothingKnown DEF Deliver
  <2>2. CASE handler[h].for = Nobody
    BY <1>6, <2>1, <2>2 DEF Deliver, facts, service, caches
  <2>3. CASE handler[h].for # Nobody /\ handler[h].reply.auth
    <3>1. fetch' \in [Processes -> Fetches]
      <4> DEFINE p == handler[h].for
                 e == [pc |-> "organization", attempt |-> fetch[p].attempt, left |-> Lag,
                       context |-> handler[h].reply]
      <4>1. p \in Processes /\ handler[h].reply \in Context
        BY <1>0, <2>3 DEF Executions
      <4>2. e \in Fetches
        <5>1. /\ fetch[p] \in Fetches /\ Lag \in 0..Max2(Timeout, Lag)
              /\ handler[h].reply \in Context /\ 0 \in 0..Attempts
          BY <4>1, Periods
        <5> HIDE DEF p
        <5> QED
          BY <5>1, Fetched
      <4>3. fetch' = [fetch EXCEPT ![p] = e]
        BY <1>6, <2>3 DEF Deliver
      <4> HIDE DEF e, p
      <4> QED
        BY <4>1, <4>2, <4>3
    <3> QED
      BY <1>6, <2>1, <2>3, <3>1 DEF Deliver, facts, service, caches
  <2>4. CASE handler[h].for # Nobody /\ ~handler[h].reply.auth
    <3>1. Settle(handler[h].for, handler[h].reply)
      BY <1>6, <2>4 DEF Deliver
    <3>2. handler[h].for \in Processes /\ handler[h].reply \in Context
      BY <1>0, <2>4 DEF Executions
    <3> QED
      BY <1>6, <2>1, <3>1, <3>2, SettleTyped DEF Deliver, facts, service
  <2> QED
    BY <2>2, <2>3, <2>4
<1>7. CASE HandlerFails(h)
  <2>1. handler' \in [Handlers -> Executions]
    BY <1>0, <1>7, <1>b, Executed, Periods, NothingKnown DEF HandlerFails
  <2> QED
    BY <1>7, <2>1 DEF HandlerFails, facts, service, caches
<1> QED
  BY <1>1, <1>2, <1>3, <1>4, <1>5, <1>6, <1>7 DEF HandlerStep

LEMMA FaultTyped ==
  ASSUME Typed,
         AuthRestart \/ FlushRedis
         \/ \E p \in Processes : OtherFails(p) \/ OtherSucceeds(p) \/ Restart(p) \/ Prune(p)
  PROVE  Typed'
<1> USE DEF Typed
<1>1. CASE AuthRestart
  <2>1. handler' \in [Handlers -> Executions]
    BY <1>1, NothingKnown DEF AuthRestart, Resting, Executions
  <2> QED
    BY <1>1, <2>1, NothingKnown DEF AuthRestart, Gone, facts, caches
<1>2. CASE FlushRedis
  BY <1>2, NothingKnown DEF FlushRedis, Gone, facts
<1>3. ASSUME NEW p \in Processes, OtherFails(p) PROVE Typed'
  <2>1. circuit' \in [Processes -> Circuits]
    BY <1>3, FailedIs DEF OtherFails
  <2> QED
    BY <1>3, <2>1 DEF OtherFails, facts, service, caches
<1>4. ASSUME NEW p \in Processes, OtherSucceeds(p) PROVE Typed'
  <2>1. circuit' \in [Processes -> Circuits]
    BY <1>4 DEF OtherSucceeds, Circuits, Closed
  <2> QED
    BY <1>4, <2>1 DEF OtherSucceeds, facts, service, caches
<1>5. ASSUME NEW p \in Processes, Restart(p) PROVE Typed'
  <2>1. circuit' \in [Processes -> Circuits]
    BY <1>5 DEF Restart, Circuits, Closed
  <2>2. fetch' \in [Processes -> Fetches]
    BY <1>5, NothingKnown, Periods DEF Restart, Fetches, Idle
  <2>3. req' \in [Requests -> Places]
    BY <1>5 DEF Restart, Places, Away
  <2>4. memory' \in [Processes -> Entry(Context)] /\ \A q \in Processes : memory'[q].left <= MemoryTTL
    BY <1>5, NothingKnown DEF Restart, Gone
  <2>5. handler' \in [Handlers -> Executions]
    BY <1>5, AbandonedTyped DEF Restart
  <2> QED
    BY <1>5, <2>1, <2>2, <2>3, <2>4, <2>5 DEF Restart, facts, service
<1>6. ASSUME NEW p \in Processes, Prune(p) PROVE Typed'
  BY <1>6, NothingKnown DEF Prune, Gone, facts, service
<1> QED
  BY <1>1, <1>2, <1>3, <1>4, <1>5, <1>6

LEMMA TickTyped ==
  ASSUME Typed, Tick
  PROVE  Typed'
<1> USE DEF Typed
<1>1. since' \in Ages
  BY Periods DEF Tick, Ages, Older
<1>2. /\ statusCache' \in Entry(BOOLEAN) /\ statusCache'.left <= StatusTTL
      /\ roleCache' \in Entry(BOOLEAN) /\ roleCache'.left <= RoleTTL
  <2>1. \A e \in Entry(BOOLEAN) : Aged(e, FALSE) \in Entry(BOOLEAN) /\ Aged(e, FALSE).left <= e.left
    BY AgedIs
  <2>2. statusCache' = Aged(statusCache, FALSE) /\ roleCache' = Aged(roleCache, FALSE)
    BY DEF Tick
  <2>3. /\ statusCache'.left \in Int /\ statusCache'.left <= statusCache.left
        /\ roleCache'.left \in Int /\ roleCache'.left <= roleCache.left
        /\ statusCache.left \in Int /\ roleCache.left \in Int
    <3>1. \A e \in Entry(BOOLEAN) : e.left \in Int
      BY DEF Entry
    <3> QED
      BY <2>1, <2>2, <3>1
  <2>4. statusCache' \in Entry(BOOLEAN) /\ roleCache' \in Entry(BOOLEAN)
    BY <2>1, <2>2
  <2>5. statusCache.left <= StatusTTL /\ roleCache.left <= RoleTTL
    OBVIOUS
  <2> QED
    BY ONLY <2>3, <2>4, <2>5, AuthAssumption DEF AuthAssumption
<1>3. \A e \in Entry(Context) : /\ Aged(e, Unauthenticated) \in Entry(Context)
                                /\ Aged(e, Unauthenticated).left <= e.left
  BY AgedIs, NothingKnown
<1>4. shared' \in Entry(Context) /\ shared'.left <= RedisTTL
  BY <1>3 DEF Tick, Entry
<1>5. memory' \in [Processes -> Entry(Context)] /\ \A q \in Processes : memory'[q].left <= MemoryTTL
  BY <1>3 DEF Tick, Entry
<1>6. circuit' \in [Processes -> Circuits]
  <2>1. \A c \in Circuits : [c EXCEPT !.left = Less(@)] \in Circuits
    BY DEF Circuits, Less
  <2> QED
    BY <2>1 DEF Tick
<1>7. fetch' \in [Processes -> Fetches]
  <2>1. ASSUME NEW p \in Processes PROVE [fetch[p] EXCEPT !.left = Less(@)] \in Fetches
    <3>1. /\ fetch[p] \in Fetches /\ 0 \in 0..Max2(Timeout, Lag)
          /\ Unauthenticated \in Context /\ 0 \in 0..Attempts
      BY Periods, NothingKnown
    <3> QED
      BY <3>1, Fetched
  <2> QED
    BY <2>1 DEF Tick
<1>8. handler' \in [Handlers -> Executions]
  <2>1. ASSUME NEW s \in Executions PROVE [s EXCEPT !.left = Less(@)] \in Executions
    <3>0. s.left \in 0..Lag
      BY DEF Executions
    <3>1. Less(s.left) \in 0..Lag
      BY <3>0 DEF Less
    <3> QED
      BY <3>1 DEF Executions
  <2> QED
    BY <2>1 DEF Tick
<1> QED
  BY <1>1, <1>2, <1>4, <1>5, <1>6, <1>7, <1>8 DEF Tick

LEMMA StepTyped ==
  ASSUME Typed, [Next]_vars
  PROVE  Typed'
<1>1. CASE UNCHANGED vars
  BY <1>1 DEF Typed, vars
<1>2. CASE Next
  BY <1>2, TickTyped, FactChangesTyped, RequestTyped, FetchTyped, HandlerTyped, FaultTyped DEF Next
<1> QED
  BY <1>1, <1>2

----------------------------------------------------------------------------
(* What the parts of the invariant say of one copy, as a function of the ages t
   of the facts. *)

SeenAt(t, f, v, left) == t[f][v] + left <= Bound(f)

ToldAt(t, c, left) ==
  /\ ~c.auth => SeenAt(t, "session", FALSE, left) \/ SeenAt(t, "status", FALSE, left)
  /\ c.auth => SeenAt(t, "session", TRUE, left) /\ SeenAt(t, "status", TRUE, left)
  /\ c.auth /\ c.granted => SeenAt(t, "member", TRUE, left) /\ SeenAt(t, "role", TRUE, left)
  /\ c.auth /\ ~c.granted => SeenAt(t, "member", FALSE, left) \/ SeenAt(t, "role", FALSE, left)

MemoryOk(t, e) == e.left > 0 => ToldAt(t, e.value, e.left)
SharedOk(t, e) == e.left > 0 => ToldAt(t, e.value, e.left + MemoryTTL)
StatusOk(t, e) == e.left > 0 => t["status"][e.value] + e.left <= Lag + StatusTTL
RoleOk(t, e) == e.left > 0 => t["role"][e.value] + e.left <= RoleTTL
FetchOk(t, g) ==
  /\ g.pc = "asking" => g.left <= Timeout
  /\ g.pc = "organization" => /\ g.context.auth /\ ~g.context.member
                              /\ ToldAt(t, g.context, g.left + AfterFetch)

\* What an execution s has read, if its answer is taken before `left' is over.
Carries(t, s, left) ==
  /\ s.pc \in {"status", "user", "store", "role"} => SeenAt(t, "session", TRUE, left)
  /\ s.pc \in {"user", "store", "role"} => SeenAt(t, "member", s.member, left)
  /\ s.pc = "store" => SeenAt(t, "status", s.status, left)
  /\ s.pc = "role" => SeenAt(t, "status", TRUE, left)
  /\ s.pc = "reply" => ToldAt(t, s.reply, left) /\ ~s.reply.member

\* g is the fetch that s answers, if any.
HandlerOk(t, g, s) ==
  /\ s.pc = "store" => t["status"][s.status] + s.left <= Lag
  /\ s.pc # "idle" /\ s.for # Nobody => g.pc = "asking" /\ Carries(t, s, g.left + AfterReply)
  /\ s.pc = "idle" => s.for = Nobody

Recent ==
  /\ \A f \in Facts : since[f][fact[f]] = 0
  /\ StatusOk(since, statusCache) /\ RoleOk(since, roleCache) /\ SharedOk(since, shared)
  /\ \A p \in Processes : MemoryOk(since, memory[p]) /\ FetchOk(since, fetch[p])
  /\ \A h \in Handlers : HandlerOk(since, fetch[handler[h].for], handler[h])
  /\ OneAnswer

LEMMA ToldIs ==
  ASSUME NEW c \in Context, NEW left
  PROVE  Told(c, left) <=> ToldAt(since, c, left)
<1>1. /\ Decide(c, FALSE) = "unauthorized" <=> ~c.auth
      /\ Decide(c, FALSE) = "next" <=> c.auth /\ c.granted
      /\ Decide(c, FALSE) = "forbidden" <=> c.auth /\ ~c.granted
      /\ Decide(c, TRUE) = "next" => c.auth /\ c.granted
  BY DEF Decide, Context
<1> QED
  BY <1>1 DEF Told, ToldAt, Seen, SeenAt

LEMMA InvIs == IInv <=> Typed /\ Recent
<1>1. TypeOK <=> Typed
  BY TypeIs
<1> SUFFICES ASSUME Typed
             PROVE  /\ MemoryRecent <=> \A p \in Processes : MemoryOk(since, memory[p])
                    /\ SharedRecent <=> SharedOk(since, shared)
                    /\ StatusCacheRecent <=> StatusOk(since, statusCache)
                    /\ RoleCacheRecent <=> RoleOk(since, roleCache)
                    /\ FetchRecent <=> \A p \in Processes : FetchOk(since, fetch[p])
                    /\ HandlerRecent <=>
                         \A h \in Handlers : HandlerOk(since, fetch[handler[h].for], handler[h])
  BY <1>1 DEF IInv, Recent, FactsAreNow
<1>2. MemoryRecent <=> \A p \in Processes : MemoryOk(since, memory[p])
  <2>1. \A p \in Processes : memory[p].value \in Context
    BY DEF Typed, Entry
  <2> QED
    BY <2>1, ToldIs DEF MemoryRecent, MemoryOk
<1>3. SharedRecent <=> SharedOk(since, shared)
  <2>1. shared.value \in Context
    BY DEF Typed, Entry
  <2> QED
    BY <2>1, ToldIs DEF SharedRecent, SharedOk
<1>4. (StatusCacheRecent <=> StatusOk(since, statusCache)) /\ (RoleCacheRecent <=> RoleOk(since, roleCache))
  BY DEF StatusCacheRecent, StatusOk, RoleCacheRecent, RoleOk
<1>5. FetchRecent <=> \A p \in Processes : FetchOk(since, fetch[p])
  <2>1. \A p \in Processes : fetch[p].context \in Context
    BY DEF Typed, Fetches
  <2> QED
    BY <2>1, ToldIs DEF FetchRecent, FetchOk
<1>6. HandlerRecent <=> \A h \in Handlers : HandlerOk(since, fetch[handler[h].for], handler[h])
  <2>1. \A h \in Handlers : handler[h].reply \in Context
    BY DEF Typed, Executions
  <2>2. ASSUME NEW h \in Handlers, NEW left
        PROVE  Told(handler[h].reply, left) <=> ToldAt(since, handler[h].reply, left)
    BY <2>1, ToldIs
  <2> QED
    BY <2>2 DEF HandlerRecent, HandlerOk, Carries, Seen, SeenAt
<1> QED
  BY <1>2, <1>3, <1>4, <1>5, <1>6

\* Facts that are d older have less time left, by d at least.
Shift(t, u, d) == \A f \in Facts, v \in BOOLEAN : u[f][v] <= t[f][v] + d

LEMMA AgesAre ==
  ASSUME NEW t \in Ages, NEW f \in Facts, NEW v \in BOOLEAN
  PROVE  t[f][v] \in Nat
  BY Periods DEF Ages

LEMMA SeenShift ==
  ASSUME NEW t \in Ages, NEW u \in Ages, NEW d \in Nat, Shift(t, u, d),
         NEW l \in Int, NEW m \in Int, m + d <= l,
         NEW f \in Facts, NEW v \in BOOLEAN, SeenAt(t, f, v, l)
  PROVE  SeenAt(u, f, v, m)
<1>1. t[f][v] \in Nat /\ u[f][v] \in Nat /\ Bound(f) \in Nat
  BY AgesAre, Periods
<1>2. u[f][v] <= t[f][v] + d
  BY DEF Shift
<1> QED
  BY <1>1, <1>2 DEF SeenAt

LEMMA ToldShift ==
  ASSUME NEW t \in Ages, NEW u \in Ages, NEW d \in Nat, Shift(t, u, d),
         NEW l \in Int, NEW m \in Int, m + d <= l,
         NEW c \in Context, ToldAt(t, c, l)
  PROVE  ToldAt(u, c, m)
<1>1. \A f \in Facts, v \in BOOLEAN : SeenAt(t, f, v, l) => SeenAt(u, f, v, m)
  BY SeenShift
<1>2. {"session", "status", "role", "member"} \subseteq Facts /\ TRUE \in BOOLEAN /\ FALSE \in BOOLEAN
  BY DEF Facts
<1>3. \A v \in BOOLEAN :
        /\ SeenAt(t, "session", v, l) => SeenAt(u, "session", v, m)
        /\ SeenAt(t, "status", v, l) => SeenAt(u, "status", v, m)
        /\ SeenAt(t, "role", v, l) => SeenAt(u, "role", v, m)
        /\ SeenAt(t, "member", v, l) => SeenAt(u, "member", v, m)
  BY <1>1, <1>2
<1> QED
  BY <1>3 DEF ToldAt

LEMMA CarriesShift ==
  ASSUME NEW t \in Ages, NEW u \in Ages, NEW d \in Nat, Shift(t, u, d),
         NEW l \in Int, NEW m \in Int, m + d <= l,
         NEW s \in Executions, NEW r, Carries(t, s, l),
         r.pc = s.pc, r.member = s.member, r.status = s.status, r.reply = s.reply
  PROVE  Carries(u, r, m)
<1>1. \A f \in Facts, v \in BOOLEAN : SeenAt(t, f, v, l) => SeenAt(u, f, v, m)
  BY SeenShift
<1>2. ToldAt(t, s.reply, l) => ToldAt(u, s.reply, m)
  BY ToldShift DEF Executions
<1>3. {"session", "status", "role", "member"} \subseteq Facts
      /\ s.member \in BOOLEAN /\ s.status \in BOOLEAN /\ TRUE \in BOOLEAN
  BY DEF Facts, Executions
<1>4. /\ SeenAt(t, "session", TRUE, l) => SeenAt(u, "session", TRUE, m)
      /\ SeenAt(t, "member", s.member, l) => SeenAt(u, "member", s.member, m)
      /\ SeenAt(t, "status", s.status, l) => SeenAt(u, "status", s.status, m)
      /\ SeenAt(t, "status", TRUE, l) => SeenAt(u, "status", TRUE, m)
  BY <1>1, <1>3
<1> QED
  BY <1>2, <1>4 DEF Carries

\* A value that is now is seen for as long as any fetch may last.
LEMMA NowIsSeen ==
  ASSUME NEW t \in Ages, NEW f \in Facts, NEW v \in BOOLEAN, t[f][v] = 0,
         NEW l \in Int, l <= Timeout + AfterReply
  PROVE  SeenAt(t, f, v, l)
  BY Periods DEF SeenAt, Bound, Facts, AfterReply

\* The cached status and the cached permissions are seen as long.
LEMMA CachedIsSeen ==
  ASSUME NEW t \in Ages, NEW v \in BOOLEAN, NEW n \in Nat, NEW l \in Int,
         l <= Timeout + AfterReply
  PROVE  /\ t["status"][v] + n <= Lag + StatusTTL => SeenAt(t, "status", v, l)
         /\ t["role"][v] + n <= RoleTTL => SeenAt(t, "role", v, l)
<1>1. t["status"][v] \in Nat /\ t["role"][v] \in Nat
  BY AgesAre DEF Facts
<1>2. /\ Bound("status") = AfterReply + Timeout + Lag + StatusTTL
      /\ Bound("role") = AfterReply + Timeout + RoleTTL
  BY Periods DEF Bound
<1> QED
  BY <1>1, <1>2, Periods DEF SeenAt

----------------------------------------------------------------------------
(* Steps that let time pass or change a fact *)

LEMMA ChangeShifts ==
  ASSUME Typed, Typed', NEW f \in Facts, NEW v \in BOOLEAN, Change(f, v),
         \A g \in Facts : since[g][fact[g]] = 0
  PROVE  Shift(since, since', 0) /\ \A g \in Facts : since'[g][fact'[g]] = 0
<1>1. /\ fact' = [fact EXCEPT ![f] = v] /\ fact \in [Facts -> BOOLEAN]
      /\ since' = [since EXCEPT ![f] = [since[f] EXCEPT ![v] = 0]] /\ since \in Ages
  BY DEF Typed, Change
<1>2. since'[f] = [since[f] EXCEPT ![v] = 0] /\ since[f] \in [BOOLEAN -> 0..Never]
      /\ \A g \in Facts : g # f => since'[g] = since[g]
  BY <1>1 DEF Ages
<1>3. ASSUME NEW g \in Facts, NEW w \in BOOLEAN
      PROVE  since'[g][w] <= since[g][w] + 0
  <2>1. since[g][w] \in Nat
    BY <1>1, AgesAre
  <2>2. CASE g = f
    BY <1>2, <2>1, <2>2
  <2>3. CASE g # f
    BY <1>2, <2>1, <2>3
  <2> QED
    BY <2>2, <2>3
<1>4. ASSUME NEW g \in Facts
      PROVE  since'[g][fact'[g]] = 0
  <2>1. CASE g = f
    <3>1. fact'[g] = v
      BY <1>1, <2>1
    <3> QED
      BY <1>2, <2>1, <3>1
  <2>2. CASE g # f
    <3>1. fact'[g] = fact[g] /\ since'[g] = since[g]
      BY <1>1, <1>2, <2>2
    <3> QED
      BY <3>1
  <2> QED
    BY <2>1, <2>2
<1> QED
  BY <1>3, <1>4 DEF Shift

LEMMA FactChangesRecent ==
  ASSUME Typed, Typed', Recent, FactChanges
  PROVE  Recent'
<1>1. PICK f \in Facts, v \in BOOLEAN : Change(f, v)
  BY DEF FactChanges, SignOut, Ban, UpdateUser, UpdatePermission, UpdateMember, Facts
<1>2. Shift(since, since', 0) /\ \A g \in Facts : since'[g][fact'[g]] = 0
  BY <1>1, ChangeShifts DEF Recent
<1>3. /\ statusCache' \in {statusCache, Gone(FALSE)}
      /\ UNCHANGED <<roleCache, shared, memory, fetch, handler>>
  BY DEF FactChanges, SignOut, Ban, UpdateUser, UpdatePermission, UpdateMember, service, caches
<1>4. since \in Ages /\ since' \in Ages
  BY DEF Typed
<1>5. ASSUME NEW c \in Context, NEW l \in Int, ToldAt(since, c, l) PROVE ToldAt(since', c, l)
  BY <1>2, <1>4, <1>5, ToldShift
<1>6. ASSUME NEW p \in Processes
      PROVE  MemoryOk(since', memory'[p]) /\ FetchOk(since', fetch'[p])
  <2>1. /\ memory[p].value \in Context /\ memory[p].left \in Int
        /\ fetch[p].context \in Context /\ fetch[p].left + AfterFetch \in Int
    BY Periods DEF Typed, Entry, Fetches
  <2> QED
    BY <1>3, <1>5, <2>1 DEF Recent, MemoryOk, FetchOk
<1>7. SharedOk(since', shared')
  <2>1. shared.value \in Context /\ shared.left + MemoryTTL \in Int
    BY DEF Typed, Entry
  <2> QED
    BY <1>3, <1>5, <2>1 DEF Recent, SharedOk
<1>8. StatusOk(since', statusCache') /\ RoleOk(since', roleCache')
  <2>1. \A w \in BOOLEAN : since'["status"][w] <= since["status"][w] /\ since'["role"][w] <= since["role"][w]
    <3>1. ASSUME NEW w \in BOOLEAN
          PROVE  /\ since["status"][w] \in Nat /\ since["role"][w] \in Nat
                 /\ since'["status"][w] \in Nat /\ since'["role"][w] \in Nat
      BY <1>4, AgesAre DEF Facts
    <3> QED
      BY <1>2, <3>1 DEF Shift, Facts
  <2>2. /\ statusCache.value \in BOOLEAN /\ statusCache.left \in Nat
        /\ roleCache.value \in BOOLEAN /\ roleCache.left \in Nat
    BY DEF Typed, Entry
  <2>3. /\ since["status"][statusCache.value] \in Nat /\ since'["status"][statusCache.value] \in Nat
        /\ since["role"][roleCache.value] \in Nat /\ since'["role"][roleCache.value] \in Nat
    BY <1>4, <2>2, AgesAre DEF Facts
  <2>4. RoleOk(since', roleCache')
    BY <1>3, <2>1, <2>2, <2>3 DEF Recent, RoleOk
  <2>5. StatusOk(since', statusCache)
    BY <2>1, <2>2, <2>3 DEF Recent, StatusOk
  <2> QED
    BY <1>3, <2>4, <2>5 DEF StatusOk, Gone
<1>9. ASSUME NEW h \in Handlers
      PROVE  HandlerOk(since', fetch'[handler'[h].for], handler'[h])
  <2>1. handler[h] \in Executions /\ handler[h].status \in BOOLEAN
    BY DEF Typed, Executions
  <2>2. handler[h].pc # "idle" /\ handler[h].for # Nobody =>
          fetch[handler[h].for].left + AfterReply \in Int
    BY <2>1, Periods DEF Typed, Fetches, Executions
  <2>3. handler[h].pc # "idle" /\ handler[h].for # Nobody =>
          Carries(since', handler[h], fetch[handler[h].for].left + AfterReply)
    BY <1>2, <1>4, <2>1, <2>2, CarriesShift DEF Recent, HandlerOk
  <2>4. /\ since["status"][handler[h].status] \in Nat /\ handler[h].left \in Nat
        /\ since'["status"][handler[h].status] \in Nat
        /\ since'["status"][handler[h].status] <= since["status"][handler[h].status] + 0
    <3>1. handler[h].left \in Nat
      BY <2>1 DEF Executions
    <3> QED
      BY <1>2, <1>4, <2>1, <3>1, AgesAre DEF Facts, Shift
  <2> QED
    BY <1>3, <2>3, <2>4 DEF Recent, HandlerOk
<1>10. OneAnswer'
  BY <1>3 DEF Recent, OneAnswer
<1> QED
  BY <1>2, <1>6, <1>7, <1>8, <1>9, <1>10 DEF Recent

LEMMA TickShifts ==
  ASSUME Typed, Typed', Tick, \A g \in Facts : since[g][fact[g]] = 0
  PROVE  Shift(since, since', 1) /\ \A g \in Facts : since'[g][fact'[g]] = 0
<1>1. /\ fact' = fact
      /\ since' = [f \in Facts |-> [v \in BOOLEAN |->
                     IF fact[f] = v THEN 0 ELSE Older(since[f][v])]]
  BY DEF Tick
<1>2. fact \in [Facts -> BOOLEAN] /\ since \in Ages
  BY DEF Typed
<1>3. ASSUME NEW g \in Facts, NEW w \in BOOLEAN
      PROVE  since'[g][w] <= since[g][w] + 1 /\ (fact[g] = w => since'[g][w] = 0)
  <2>1. since'[g][w] = IF fact[g] = w THEN 0 ELSE Older(since[g][w])
    BY <1>1
  <2>2. since[g][w] \in Nat
    BY <1>2, AgesAre
  <2> QED
    BY <2>1, <2>2 DEF Older
<1> QED
  BY <1>1, <1>2, <1>3 DEF Shift

LEMMA TickRecent ==
  ASSUME Typed, Typed', Recent, Tick
  PROVE  Recent'
<1>1. Shift(since, since', 1) /\ \A g \in Facts : since'[g][fact'[g]] = 0
  BY TickShifts DEF Recent
<1>2. since \in Ages /\ since' \in Ages
  BY DEF Typed
<1>3. ASSUME NEW c \in Context, NEW l \in Int, ToldAt(since, c, l) PROVE ToldAt(since', c, l - 1)
  BY <1>1, <1>2, <1>3, ToldShift
<1>4. /\ \A p \in Processes : memory'[p] = Aged(memory[p], Unauthenticated)
      /\ \A p \in Processes : fetch'[p] = [fetch[p] EXCEPT !.left = Less(@)]
      /\ \A h \in Handlers : handler'[h] = [handler[h] EXCEPT !.left = Less(@)]
      /\ shared' = Aged(shared, Unauthenticated)
      /\ statusCache' = Aged(statusCache, FALSE) /\ roleCache' = Aged(roleCache, FALSE)
      /\ ~Due
  BY DEF Tick
<1>5. ASSUME NEW p \in Processes
      PROVE  MemoryOk(since', memory'[p])
  <2>1. memory[p] \in Entry(Context) /\ memory[p].value \in Context /\ memory[p].left \in Nat
    BY DEF Typed, Entry
  <2>2. memory'[p].left > 0 => memory'[p].value = memory[p].value /\ memory'[p].left = memory[p].left - 1
    BY <1>4, <2>1, AgedIs, NothingKnown
  <2> QED
    BY <1>3, <2>1, <2>2 DEF Recent, MemoryOk
<1>6. SharedOk(since', shared')
  <2>1. shared \in Entry(Context) /\ shared.value \in Context /\ shared.left \in Nat
    BY DEF Typed, Entry
  <2>2. shared'.left > 0 => shared'.value = shared.value /\ shared'.left = shared.left - 1
    BY <1>4, <2>1, AgedIs, NothingKnown
  <2>3. shared.left > 0 => ToldAt(since', shared.value, shared.left + MemoryTTL - 1)
    BY <1>3, <2>1 DEF Recent, SharedOk
  <2>4. shared'.left > 0 => shared.left > 0 /\ shared'.left + MemoryTTL = shared.left + MemoryTTL - 1
    BY <2>1, <2>2
  <2> QED
    BY <2>2, <2>3, <2>4 DEF SharedOk
<1>7. StatusOk(since', statusCache') /\ RoleOk(since', roleCache')
  <2>1. /\ statusCache \in Entry(BOOLEAN) /\ statusCache.value \in BOOLEAN /\ statusCache.left \in Nat
        /\ roleCache \in Entry(BOOLEAN) /\ roleCache.value \in BOOLEAN /\ roleCache.left \in Nat
    BY DEF Typed, Entry
  <2>2. /\ statusCache'.left > 0 =>
             statusCache'.value = statusCache.value /\ statusCache'.left = statusCache.left - 1
        /\ roleCache'.left > 0 =>
             roleCache'.value = roleCache.value /\ roleCache'.left = roleCache.left - 1
    <3>1. ASSUME NEW e \in Entry(BOOLEAN)
          PROVE  Aged(e, FALSE).left > 0 =>
                   Aged(e, FALSE).value = e.value /\ Aged(e, FALSE).left = e.left - 1
      BY AgedIs
    <3> QED
      BY <1>4, <2>1, <3>1
  <2>3. /\ since["status"][statusCache.value] \in Nat /\ since'["status"][statusCache.value] \in Nat
        /\ since["role"][roleCache.value] \in Nat /\ since'["role"][roleCache.value] \in Nat
    BY <1>2, <2>1, AgesAre DEF Facts
  <2>4. /\ since'["status"][statusCache.value] <= since["status"][statusCache.value] + 1
        /\ since'["role"][roleCache.value] <= since["role"][roleCache.value] + 1
    BY <1>1, <2>1 DEF Shift, Facts
  <2>5. StatusOk(since', statusCache')
    BY <2>1, <2>2, <2>3, <2>4 DEF Recent, StatusOk
  <2>6. RoleOk(since', roleCache')
    BY <2>1, <2>2, <2>3, <2>4 DEF Recent, RoleOk
  <2> QED
    BY <2>5, <2>6
<1>8. ASSUME NEW p \in Processes
      PROVE  FetchOk(since', fetch'[p])
  <2>1. fetch[p].left \in Nat /\ fetch[p].context \in Context /\ fetch[p].left + AfterFetch \in Int
    BY Periods DEF Typed, Fetches
  <2>2. /\ fetch'[p].pc = fetch[p].pc /\ fetch'[p].context = fetch[p].context
        /\ fetch'[p].left = Less(fetch[p].left)
    BY <1>4 DEF Typed, Fetches
  <2>3. fetch[p].pc \in {"asking", "organization"} => fetch'[p].left = fetch[p].left - 1
    BY <1>4, <2>1, <2>2 DEF Due, Less
  <2>4. fetch[p].pc = "asking" => fetch'[p].left <= Timeout
    BY <2>1, <2>3 DEF Recent, FetchOk
  <2>5. fetch[p].pc = "organization" =>
          ToldAt(since', fetch[p].context, (fetch[p].left + AfterFetch) - 1)
    <3>1. fetch[p].pc = "organization" => ToldAt(since, fetch[p].context, fetch[p].left + AfterFetch)
      BY DEF Recent, FetchOk
    <3> QED
      BY <1>3, <2>1, <3>1
  <2>6. fetch[p].left - 1 + AfterFetch = (fetch[p].left + AfterFetch) - 1
    BY <2>1, Periods
  <2>7. fetch[p].pc = "organization" => ToldAt(since', fetch'[p].context, fetch'[p].left + AfterFetch)
    BY <2>2, <2>3, <2>5, <2>6
  <2> QED
    BY <2>2, <2>4, <2>7 DEF Recent, FetchOk
<1>9. ASSUME NEW h \in Handlers
      PROVE  HandlerOk(since', fetch'[handler'[h].for], handler'[h])
  <2> DEFINE s == handler[h]
             p == handler[h].for
             l == fetch[p].left + AfterReply
  <2>1. s \in Executions /\ s.left \in Nat /\ s.status \in BOOLEAN
    BY DEF Typed, Executions
  <2>2. /\ handler'[h].pc = s.pc /\ handler'[h].for = s.for /\ handler'[h].status = s.status
        /\ handler'[h].member = s.member /\ handler'[h].reply = s.reply
        /\ handler'[h].left = Less(s.left)
    BY <1>4 DEF Typed, Executions
  <2>3. ASSUME s.pc # "idle", p # Nobody
        PROVE  fetch'[p].pc = "asking" /\ Carries(since', handler'[h], fetch'[p].left + AfterReply)
    <3>1. p \in Processes /\ fetch[p].pc = "asking" /\ Carries(since, s, l)
      BY <2>1, <2>3 DEF Recent, HandlerOk, Executions
    <3>2. fetch[p].left \in Nat
      BY <3>1 DEF Typed, Fetches
    <3>3. fetch'[p].pc = "asking" /\ fetch'[p].left = Less(fetch[p].left) /\ fetch[p].left # 0
      BY <1>4, <3>1 DEF Typed, Fetches, Due
    <3>4. fetch'[p].left + AfterReply \in Int /\ l \in Int /\ fetch'[p].left + AfterReply + 1 <= l
      BY <3>2, <3>3, Periods DEF Less
    <3>5. Carries(since', handler'[h], fetch'[p].left + AfterReply)
      BY <1>1, <1>2, <2>1, <2>2, <3>1, <3>4, CarriesShift
    <3> QED
      BY <3>3, <3>5
  <2>4. s.pc = "store" => since'["status"][s.status] + handler'[h].left <= Lag
    <3>1. /\ since["status"][s.status] \in Nat /\ since'["status"][s.status] \in Nat
          /\ since'["status"][s.status] <= since["status"][s.status] + 1
      BY <1>1, <1>2, <2>1, AgesAre DEF Facts, Shift
    <3>2. s.pc = "store" => handler'[h].left = s.left - 1
      BY <1>4, <2>1, <2>2 DEF Due, Less
    <3>3. s.pc = "store" => since["status"][s.status] + s.left <= Lag
      BY DEF Recent, HandlerOk
    <3> QED
      BY <2>1, <3>1, <3>2, <3>3
  <2>5. s.pc = "idle" => s.for = Nobody
    BY DEF Recent, HandlerOk
  <2> QED
    BY <2>2, <2>3, <2>4, <2>5 DEF HandlerOk
<1>10. OneAnswer'
  <2>1. \A h \in Handlers : handler'[h].for = handler[h].for
    BY <1>4 DEF Typed, Executions
  <2> QED
    BY <2>1 DEF Recent, OneAnswer
<1> QED
  BY <1>1, <1>5, <1>6, <1>7, <1>8, <1>9, <1>10 DEF Recent

----------------------------------------------------------------------------
(* Steps at one moment: facts and ages stay as they are *)

\* With less time left a copy is as good.
LEMMA ToldLess ==
  ASSUME NEW t \in Ages, NEW c \in Context, NEW l \in Int, NEW m \in Int, m <= l,
         ToldAt(t, c, l)
  PROVE  ToldAt(t, c, m)
<1>1. \A f \in Facts, v \in BOOLEAN : t[f][v] <= t[f][v] + 0
  BY AgesAre
<1>2. Shift(t, t, 0) /\ m + 0 <= l /\ 0 \in Nat
  BY <1>1 DEF Shift
<1> QED
  BY <1>2, ToldShift

LEMMA RequestRecent ==
  ASSUME Typed, Typed', Recent, NEW r \in Requests,
         RedisHit(r) \/ RedisMiss(r) \/ \E p \in Processes : Arrive(r, p)
  PROVE  Recent'
<1>1. UNCHANGED <<fact, since, statusCache, roleCache, shared, handler>>
  BY DEF RedisHit, RedisMiss, Refuse, Join, Arrive, facts, service, caches
<1>2. CASE RedisHit(r)
  <2>1. ASSUME NEW p \in Processes
        PROVE  MemoryOk(since, memory'[p])
    <3>1. /\ since \in Ages /\ shared.value \in Context
          /\ shared.left + MemoryTTL \in Int /\ MemoryTTL <= shared.left + MemoryTTL
      BY DEF Typed, Entry
    <3>2. ToldAt(since, shared.value, MemoryTTL)
      BY <1>2, <3>1, ToldLess DEF Recent, SharedOk, RedisHit
    <3>3. memory'[p] = memory[p] \/ memory'[p] = [value |-> shared.value, left |-> MemoryTTL]
      BY <1>2 DEF Typed, RedisHit
    <3> QED
      BY <3>2, <3>3 DEF Recent, MemoryOk
  <2>2. fetch' = fetch
    BY <1>2 DEF RedisHit
  <2> QED
    BY <1>1, <2>1, <2>2 DEF Recent, OneAnswer
<1>3. CASE Join(r)
  <2>1. memory' = memory
    BY <1>3 DEF Join, caches
  <2>2. ASSUME NEW p \in Processes
        PROVE  /\ fetch[p].pc # "idle" => fetch'[p] = fetch[p]
               /\ fetch[p].pc = "idle" => fetch'[p] = fetch[p] \/ fetch'[p].pc = "ask"
    BY <1>3 DEF Join, Typed, Fetches
  <2>3. ASSUME NEW p \in Processes PROVE FetchOk(since, fetch'[p])
    BY <2>2 DEF Recent, FetchOk
  <2>4. ASSUME NEW h \in Handlers
        PROVE  HandlerOk(since, fetch'[handler[h].for], handler[h])
    <3>1. HandlerOk(since, fetch[handler[h].for], handler[h])
      BY DEF Recent
    <3>2. handler[h].for \in Processes \cup {Nobody}
      BY DEF Typed, Executions
    <3> QED
      BY <2>2, <3>1, <3>2 DEF HandlerOk
  <2> QED
    BY <1>1, <2>1, <2>3, <2>4 DEF Recent, OneAnswer
<1>4. CASE Refuse(r) \/ \E p \in Processes : Arrive(r, p)
  <2>1. UNCHANGED <<memory, fetch>>
    BY <1>4 DEF Refuse, Arrive, caches
  <2> QED
    BY <1>1, <2>1 DEF Recent, OneAnswer
<1> QED
  BY <1>2, <1>3, <1>4 DEF RedisMiss

\* Who answers a fetch answers one that is asking.
LEMMA AnswererAsks ==
  ASSUME Typed, Recent, NEW h \in Handlers, handler[h].for # Nobody
  PROVE  /\ handler[h].pc # "idle" /\ handler[h].for \in Processes
         /\ fetch[handler[h].for].pc = "asking"
  BY DEF Typed, Recent, HandlerOk, Executions

\* Once p's fetch no longer asks, its executions must be nobody's or over.
LEMMA RestRecent ==
  ASSUME Typed, Recent, since' = since, NEW p \in Processes,
         \A q \in Processes : q # p => fetch'[q] = fetch[q],
         \A h \in Handlers : \/ handler'[h] = handler[h] /\ handler[h].for # p
                             \/ handler'[h] = [handler[h] EXCEPT !.for = Nobody]
                             \/ handler'[h] = Resting
  PROVE  /\ \A h \in Handlers : HandlerOk(since', fetch'[handler'[h].for], handler'[h])
         /\ OneAnswer'
<1>1. ASSUME NEW h \in Handlers
      PROVE  /\ HandlerOk(since', fetch'[handler'[h].for], handler'[h])
             /\ handler'[h].for # Nobody => handler'[h].for = handler[h].for
  <2>1. HandlerOk(since, fetch[handler[h].for], handler[h])
    BY DEF Recent
  <2>2. handler[h] \in Executions /\ handler[h].for \in Processes \cup {Nobody}
    BY DEF Typed, Executions
  <2>3. CASE handler'[h] = handler[h] /\ handler[h].for # p
    BY <2>1, <2>2, <2>3 DEF HandlerOk
  <2>4. CASE handler'[h] = [handler[h] EXCEPT !.for = Nobody]
    <3>1. /\ handler'[h].for = Nobody /\ handler'[h].pc = handler[h].pc
          /\ handler'[h].status = handler[h].status /\ handler'[h].left = handler[h].left
      BY <2>2, <2>4 DEF Executions
    <3> QED
      BY <2>1, <3>1 DEF HandlerOk
  <2>5. CASE handler'[h] = Resting
    BY <2>5 DEF HandlerOk, Resting
  <2> QED
    BY <2>3, <2>4, <2>5
<1>2. OneAnswer'
  BY <1>1 DEF Recent, OneAnswer
<1> QED
  BY <1>1, <1>2

\* A fetch that ends, or is about to be tried again, leaves everything recent.
LEMMA AttemptFailedRecent ==
  ASSUME Typed, Typed', Recent, NEW p \in Processes, NEW b \in BOOLEAN,
         AttemptFailed(p, b), handler' = Abandoned(p), UNCHANGED <<facts, service, caches>>
  PROVE  Recent'
<1>1. UNCHANGED <<fact, since, statusCache, roleCache, shared, memory>>
  BY DEF facts, service, caches
<1>2. /\ \A q \in Processes : q # p => fetch'[q] = fetch[q]
      /\ fetch'[p].pc \in {"ask", "idle"}
  BY DEF Typed, Fetches, AttemptFailed, Idle
<1>3. ASSUME NEW h \in Handlers
      PROVE  \/ handler'[h] = handler[h] /\ handler[h].for # p
             \/ handler'[h] = [handler[h] EXCEPT !.for = Nobody]
  BY DEF Abandoned
<1>4. /\ \A h \in Handlers : HandlerOk(since', fetch'[handler'[h].for], handler'[h])
      /\ OneAnswer'
  BY <1>1, <1>2, <1>3, RestRecent
<1>5. \A q \in Processes : FetchOk(since', fetch'[q])
  BY <1>1, <1>2 DEF Recent, FetchOk
<1> QED
  BY <1>1, <1>4, <1>5 DEF Recent

\* The waiters take a context that may still be copied for AfterFetch.
LEMMA SettleRecent ==
  ASSUME Typed, Typed', Recent, NEW p \in Processes, NEW c \in Context, Settle(p, c),
         ToldAt(since, c, AfterFetch), UNCHANGED <<facts, service>>,
         \A h \in Handlers : \/ handler'[h] = handler[h] /\ handler[h].for # p
                             \/ handler'[h] = Resting
  PROVE  Recent'
<1>1. UNCHANGED <<fact, since, statusCache, roleCache>>
  BY DEF facts, service
<1>2. \A q \in Processes : q # p => fetch'[q] = fetch[q]
  BY DEF Typed, Settle
<1>3. fetch'[p].pc = "idle"
  BY DEF Typed, Settle, Idle
<1>4. since \in Ages /\ MemoryTTL \in Int /\ AfterFetch \in Int /\ MemoryTTL <= AfterFetch
      /\ RedisTTL + MemoryTTL = AfterFetch
  BY Periods DEF Typed, AfterFetch
<1>5. ToldAt(since, c, MemoryTTL)
  BY <1>4, ToldLess
<1>6. \A q \in Processes : MemoryOk(since', memory'[q])
  <2>1. \A q \in Processes : \/ memory'[q] = memory[q]
                             \/ memory'[q] = [value |-> c, left |-> MemoryTTL]
    BY DEF Typed, Settle
  <2> QED
    BY <1>1, <1>5, <2>1 DEF Recent, MemoryOk
<1>7. SharedOk(since', shared')
  <2>1. shared' = shared \/ shared' = [value |-> c, left |-> RedisTTL]
    BY DEF Settle
  <2> QED
    BY <1>1, <1>4, <2>1 DEF Recent, SharedOk
<1>8. /\ \A h \in Handlers : HandlerOk(since', fetch'[handler'[h].for], handler'[h])
      /\ OneAnswer'
  BY <1>1, <1>2, RestRecent
<1>9. \A q \in Processes : FetchOk(since', fetch'[q])
  BY <1>1, <1>2, <1>3 DEF Recent, FetchOk
<1> QED
  BY <1>1, <1>6, <1>7, <1>8, <1>9 DEF Recent

LEMMA FetchRecentStep ==
  ASSUME Typed, Typed', Recent, NEW p \in Processes, FetchStep(p)
  PROVE  Recent'
<1>1. CASE Send(p)
  <2>1. UNCHANGED <<fact, since, statusCache, roleCache, shared, memory>> /\ fetch[p].pc = "ask"
    BY <1>1 DEF Send, facts, service, caches
  <2>2. fetch' = [fetch EXCEPT ![p].pc = "asking", ![p].left = Timeout]
    BY <1>1 DEF Send
  <2>3. PICK i \in Handlers : /\ handler[i].pc = "idle"
                              /\ handler' = [handler EXCEPT ![i].pc = "session", ![i].for = p]
    BY <1>1 DEF Send
  <2>4. fetch'[p].pc = "asking" /\ fetch'[p].left = Timeout
        /\ \A q \in Processes : q # p => fetch'[q] = fetch[q]
    BY <2>2 DEF Typed, Fetches
  <2>5. handler'[i].pc = "session" /\ handler'[i].for = p
        /\ \A h \in Handlers : h # i => handler'[h] = handler[h]
    BY <2>3 DEF Typed, Executions
  <2>6. \A h \in Handlers : handler[h].for # p
    BY <2>1, AnswererAsks
  <2>7. ASSUME NEW h \in Handlers
        PROVE  HandlerOk(since', fetch'[handler'[h].for], handler'[h])
    <3>1. CASE h = i
      BY <2>4, <2>5, <3>1 DEF HandlerOk, Carries
    <3>2. CASE h # i
      <4>1. handler[h].for \in Processes \cup {Nobody}
        BY DEF Typed, Executions
      <4> QED
        BY <2>1, <2>4, <2>5, <2>6, <3>2, <4>1 DEF Recent, HandlerOk
    <3> QED
      BY <3>1, <3>2
  <2>8. OneAnswer'
    BY <2>5, <2>6 DEF Recent, OneAnswer
  <2>9. \A q \in Processes : FetchOk(since', fetch'[q])
    BY <2>1, <2>4 DEF Recent, FetchOk
  <2> QED
    BY <2>1, <2>7, <2>8, <2>9 DEF Recent
<1>2. CASE Expire(p) \/ \E b \in BOOLEAN : Break(p, b)
  BY <1>2, AttemptFailedRecent DEF Expire, Break
<1>3. CASE FinishOrganization(p)
  <2> DEFINE c == fetch[p].context
  <2>1. PICK m \in {fact["member"], FALSE} : Settle(p, [c EXCEPT !.member = m])
    BY <1>3 DEF FinishOrganization
  <2>2. /\ fetch[p].pc = "organization" /\ UNCHANGED <<facts, service, handler>>
        /\ c \in Context /\ m \in BOOLEAN /\ fetch[p].left \in Nat
    <3>1. fetch[p].pc = "organization" /\ UNCHANGED <<facts, service, handler>>
      BY <1>3 DEF FinishOrganization
    <3>2. c \in Context /\ fetch[p].left \in Nat
      BY DEF Typed, Fetches
    <3>3. m \in BOOLEAN
      BY DEF Typed, Facts
    <3> QED
      BY <3>1, <3>2, <3>3
  <2>3. ToldAt(since, c, AfterFetch)
    <3>1. ToldAt(since, c, fetch[p].left + AfterFetch)
      BY <2>2 DEF Recent, FetchOk
    <3>2. /\ fetch[p].left + AfterFetch \in Int /\ AfterFetch \in Int
          /\ AfterFetch <= fetch[p].left + AfterFetch
      BY <2>2, Periods
    <3> QED
      BY <2>2, <3>1, <3>2, ToldLess DEF Typed
  <2>4. [c EXCEPT !.member = m] \in Context /\ ToldAt(since, [c EXCEPT !.member = m], AfterFetch)
    BY <2>2, <2>3 DEF Context, ToldAt
  <2>5. \A h \in Handlers : handler'[h] = handler[h] /\ handler[h].for # p
    BY <2>2, AnswererAsks
  <2> QED
    BY <2>1, <2>2, <2>4, <2>5, SettleRecent
<1> QED
  BY <1>1, <1>2, <1>3 DEF FetchStep

----------------------------------------------------------------------------
(* Steps of get-session *)

\* An execution that goes on to s, and what it caches on its way.
LEMMA MoveRecent ==
  ASSUME Typed, Recent, NEW h \in Handlers, NEW s, Goto(h, s),
         s.for = handler[h].for \/ s.for = Nobody,
         HandlerOk(since, fetch[s.for], s),
         UNCHANGED <<facts, caches, fetch>>,
         StatusOk(since, statusCache'), RoleOk(since, roleCache')
  PROVE  Recent'
<1>1. UNCHANGED <<fact, since, shared, memory, fetch>>
  BY DEF facts, caches
<1>2. handler'[h] = s /\ \A i \in Handlers : i # h => handler'[i] = handler[i]
  BY DEF Goto, Typed
<1>3. \A i \in Handlers : HandlerOk(since', fetch'[handler'[i].for], handler'[i])
  BY <1>1, <1>2 DEF Recent
<1>4. OneAnswer'
  BY <1>2 DEF Recent, OneAnswer
<1> QED
  BY <1>1, <1>3, <1>4 DEF Recent

\* What an execution answers as long as its client waits: all it knows now.
LEMMA Answering ==
  ASSUME Typed, Recent, NEW h \in Handlers, handler[h].for # Nobody,
         NEW l \in Int, l = fetch[handler[h].for].left + AfterReply
  PROVE  /\ l <= Timeout + AfterReply /\ Carries(since, handler[h], l)
         /\ \A f \in Facts : SeenAt(since, f, fact[f], l)
<1>1. handler[h].for \in Processes /\ fetch[handler[h].for].pc = "asking" /\ handler[h].pc # "idle"
  BY AnswererAsks
<1>2. Carries(since, handler[h], l) /\ fetch[handler[h].for].left <= Timeout
  BY <1>1 DEF Recent, HandlerOk, FetchOk
<1>3. fetch[handler[h].for].left \in Nat
  BY <1>1 DEF Typed, Fetches
<1>4. l <= Timeout + AfterReply
  BY <1>2, <1>3, Periods
<1>5. ASSUME NEW f \in Facts PROVE SeenAt(since, f, fact[f], l)
  <2>1. since \in Ages /\ fact[f] \in BOOLEAN /\ since[f][fact[f]] = 0
    BY DEF Typed, Recent
  <2> QED
    BY <1>4, <2>1, NowIsSeen
<1> QED
  BY <1>2, <1>4, <1>5

\* The way to a handler's invariant: what it has read is seen for any time l its
\* client may still use it, and a status to be stored is no older than Lag.
LEMMA HandlerIs ==
  ASSUME Typed, Recent, NEW h \in Handlers, NEW s, s.for = handler[h].for, s.pc # "idle",
         s.pc = "store" => since["status"][s.status] + s.left <= Lag,
         \A l \in Int : /\ handler[h].for # Nobody
                        /\ l = fetch[handler[h].for].left + AfterReply
                        => Carries(since, s, l)
  PROVE  HandlerOk(since, fetch[s.for], s)
<1>1. ASSUME s.for # Nobody PROVE fetch[s.for].pc = "asking" /\ fetch[s.for].left + AfterReply \in Int
  BY <1>1, AnswererAsks, Periods DEF Typed, Fetches
<1> QED
  BY <1>1 DEF HandlerOk

\* An answer that is null or an error: nobody is signed in, or not in good standing.
LEMMA Refused ==
  ASSUME NEW t, NEW s, NEW l, s.pc = "reply", s.reply = Unauthenticated,
         SeenAt(t, "session", FALSE, l) \/ SeenAt(t, "status", FALSE, l)
  PROVE  Carries(t, s, l)
<1>1. s.reply.auth = FALSE /\ s.reply.member = FALSE
  BY DEF Unauthenticated
<1>2. ToldAt(t, s.reply, l)
  BY <1>1 DEF ToldAt
<1> QED
  BY <1>1, <1>2 DEF Carries

LEMMA LookUpRecent ==
  ASSUME Typed, Recent, NEW h \in Handlers, LookUpSession(h)
  PROVE  Recent'
<1> DEFINE s == IF fact["session"] THEN [handler[h] EXCEPT !.pc = "status"]
                ELSE Replying(h, Unauthenticated)
<1>1. Goto(h, s) /\ UNCHANGED <<facts, service, caches, fetch>>
  BY DEF LookUpSession
<1>2. handler[h] \in Executions /\ fact["session"] \in BOOLEAN /\ "session" \in Facts
  BY DEF Typed, Facts
<1>3. /\ s.for = handler[h].for /\ s.pc \in {"status", "reply"}
      /\ s.pc = "status" => fact["session"] = TRUE
      /\ s.pc = "reply" => fact["session"] = FALSE /\ s.reply = Unauthenticated
  BY <1>2 DEF Replying, Resting, Executions
<1>4. ASSUME NEW l \in Int, handler[h].for # Nobody, l = fetch[handler[h].for].left + AfterReply
      PROVE  Carries(since, s, l)
  <2>1. SeenAt(since, "session", fact["session"], l)
    BY <1>2, <1>4, Answering
  <2>2. CASE s.pc = "status"
    BY <1>3, <2>1, <2>2 DEF Carries
  <2>3. CASE s.pc = "reply"
    BY <1>3, <2>1, <2>3, Refused
  <2> QED
    BY <1>3, <2>2, <2>3
<1>5. HandlerOk(since, fetch[s.for], s)
  BY <1>3, <1>4, HandlerIs
<1> QED
  BY <1>1, <1>3, <1>5, MoveRecent DEF Recent, service

LEMMA ReadStatusRecent ==
  ASSUME Typed, Recent, NEW h \in Handlers, ReadStatus(h)
  PROVE  Recent'
<1> DEFINE s == [handler[h] EXCEPT !.member = fact["member"]]
<1>1. UNCHANGED <<facts, service, caches, fetch>> /\ handler[h].pc = "status"
  BY DEF ReadStatus
<1>2. handler[h] \in Executions /\ fact["member"] \in BOOLEAN /\ {"member", "status"} \subseteq Facts
      /\ statusCache.left \in Nat /\ statusCache.value \in BOOLEAN
  BY DEF Typed, Facts, Entry
<1>3. PICK e : /\ Goto(h, e)
               /\ \/ e = [s EXCEPT !.pc = "user"]
                  \/ statusCache.left > 0 /\ statusCache.value /\ e = [s EXCEPT !.pc = "role"]
                  \/ statusCache.left > 0 /\ ~statusCache.value /\ e = Replying(h, Unauthenticated)
  BY DEF ReadStatus
<1>4. e.for = handler[h].for /\ e.pc \in {"user", "role", "reply"}
  <2>1. /\ [s EXCEPT !.pc = "user"].for = handler[h].for /\ [s EXCEPT !.pc = "user"].pc = "user"
        /\ [s EXCEPT !.pc = "role"].for = handler[h].for /\ [s EXCEPT !.pc = "role"].pc = "role"
    BY <1>2 DEF Executions
  <2>2. Replying(h, Unauthenticated).for = handler[h].for
        /\ Replying(h, Unauthenticated).pc = "reply"
    BY DEF Replying, Resting
  <2> QED
    BY <1>3, <2>1, <2>2
<1>5. ASSUME NEW l \in Int, handler[h].for # Nobody, l = fetch[handler[h].for].left + AfterReply
      PROVE  Carries(since, e, l)
  <2>1. SeenAt(since, "session", TRUE, l) /\ SeenAt(since, "member", fact["member"], l)
    BY <1>1, <1>2, <1>5, Answering DEF Carries
  <2>2. statusCache.left > 0 => SeenAt(since, "status", statusCache.value, l)
    <3>1. statusCache.left > 0 =>
            since["status"][statusCache.value] + statusCache.left <= Lag + StatusTTL
      BY DEF Recent, StatusOk
    <3>2. l <= Timeout + AfterReply /\ since \in Ages
      BY <1>5, Answering DEF Typed
    <3> QED
      BY <1>2, <3>1, <3>2, CachedIsSeen
  <2>3. CASE e = [s EXCEPT !.pc = "user"]
    <3>1. e.pc = "user" /\ e.member = fact["member"]
      BY <1>2, <2>3 DEF Executions
    <3> QED
      BY <2>1, <3>1 DEF Carries
  <2>4. CASE statusCache.left > 0 /\ statusCache.value /\ e = [s EXCEPT !.pc = "role"]
    <3>1. e.pc = "role" /\ e.member = fact["member"] /\ statusCache.value = TRUE
      BY <1>2, <2>4 DEF Executions
    <3> QED
      BY <2>1, <2>2, <2>4, <3>1 DEF Carries
  <2>5. CASE statusCache.left > 0 /\ ~statusCache.value /\ e = Replying(h, Unauthenticated)
    <3>1. e.pc = "reply" /\ e.reply = Unauthenticated /\ statusCache.value = FALSE
      BY <1>2, <2>5 DEF Replying, Resting
    <3> QED
      BY <2>2, <2>5, <3>1, Refused
  <2> QED
    BY <1>3, <2>3, <2>4, <2>5
<1>6. HandlerOk(since, fetch[e.for], e)
  BY <1>4, <1>5, HandlerIs
<1> QED
  BY <1>1, <1>3, <1>4, <1>6, MoveRecent DEF Recent, service

LEMMA ReadUserRecent ==
  ASSUME Typed, Recent, NEW h \in Handlers, ReadUser(h)
  PROVE  Recent'
<1> DEFINE s == [handler[h] EXCEPT !.pc = "store", !.status = fact["status"], !.left = Lag]
<1>1. Goto(h, s) /\ UNCHANGED <<facts, service, caches, fetch>> /\ handler[h].pc = "user"
  BY DEF ReadUser
<1>2. /\ handler[h] \in Executions /\ "status" \in Facts /\ fact["status"] \in BOOLEAN
      /\ since["status"][fact["status"]] = 0
  BY DEF Typed, Facts, Recent
<1>3. /\ s.for = handler[h].for /\ s.pc = "store" /\ s.status = fact["status"] /\ s.left = Lag
      /\ s.member = handler[h].member
  BY <1>2 DEF Executions
<1>4. ASSUME NEW l \in Int, handler[h].for # Nobody, l = fetch[handler[h].for].left + AfterReply
      PROVE  Carries(since, s, l)
  <2>1. Carries(since, handler[h], l) /\ SeenAt(since, "status", fact["status"], l)
    BY <1>2, <1>4, Answering
  <2> QED
    BY <1>1, <1>3, <2>1 DEF Carries
<1>5. HandlerOk(since, fetch[s.for], s)
  <2>1. since["status"][s.status] + s.left <= Lag
    BY <1>2, <1>3
  <2> QED
    BY <1>3, <1>4, <2>1, HandlerIs
<1> QED
  BY <1>1, <1>3, <1>5, MoveRecent DEF Recent, service

LEMMA StoreUserRecent ==
  ASSUME Typed, Recent, NEW h \in Handlers, StoreUser(h)
  PROVE  Recent'
<1> DEFINE s == IF handler[h].status
                THEN [handler[h] EXCEPT !.pc = "role", !.status = FALSE, !.left = 0]
                ELSE Replying(h, Unauthenticated)
<1>1. /\ Goto(h, s) /\ UNCHANGED <<facts, roleCache, caches, fetch>> /\ handler[h].pc = "store"
      /\ statusCache' = [value |-> handler[h].status, left |-> StatusTTL]
  BY DEF StoreUser
<1>2. handler[h] \in Executions /\ handler[h].status \in BOOLEAN /\ handler[h].left \in Nat
      /\ since["status"][handler[h].status] \in Nat
  BY AgesAre DEF Typed, Executions, Facts
<1>3. /\ s.for = handler[h].for
      /\ handler[h].status = TRUE => s.pc = "role" /\ s.member = handler[h].member
      /\ handler[h].status = FALSE => s.pc = "reply" /\ s.reply = Unauthenticated
  BY <1>2 DEF Executions, Replying, Resting
<1>4. ASSUME NEW l \in Int, handler[h].for # Nobody, l = fetch[handler[h].for].left + AfterReply
      PROVE  Carries(since, s, l)
  <2>1. Carries(since, handler[h], l)
    BY <1>4, Answering
  <2>2. /\ SeenAt(since, "session", TRUE, l) /\ SeenAt(since, "member", handler[h].member, l)
        /\ SeenAt(since, "status", handler[h].status, l)
    BY <1>1, <2>1 DEF Carries
  <2>3. CASE handler[h].status = TRUE
    BY <1>3, <2>2, <2>3 DEF Carries
  <2>4. CASE handler[h].status = FALSE
    BY <1>3, <2>2, <2>4, Refused
  <2> QED
    BY <1>2, <2>3, <2>4
<1>5. HandlerOk(since, fetch[s.for], s)
  BY <1>2, <1>3, <1>4, HandlerIs
<1>6. StatusOk(since, statusCache')
  <2>1. since["status"][handler[h].status] + handler[h].left <= Lag
    BY <1>1 DEF Recent, HandlerOk
  <2>2. since["status"][handler[h].status] + StatusTTL <= Lag + StatusTTL
    BY <1>2, <2>1
  <2> QED
    BY <1>1, <2>2 DEF StatusOk
<1> QED
  BY <1>1, <1>3, <1>5, <1>6, MoveRecent DEF Recent

LEMMA ResolveRoleRecent ==
  ASSUME Typed, Recent, NEW h \in Handlers, ResolveRole(h)
  PROVE  Recent'
<1>1. UNCHANGED <<facts, statusCache, caches, fetch>> /\ handler[h].pc = "role"
  BY DEF ResolveRole
<1>2. /\ handler[h].member \in BOOLEAN /\ fact["role"] \in BOOLEAN /\ "role" \in Facts
      /\ roleCache.left \in Nat /\ roleCache.value \in BOOLEAN /\ since \in Ages
      /\ since["role"][fact["role"]] = 0
  BY DEF Typed, Executions, Facts, Entry, Recent
<1>3. PICK v \in BOOLEAN :
        /\ Goto(h, Replying(h, Granted(h, v)))
        /\ \/ /\ UNCHANGED roleCache
              /\ ~handler[h].member \/ (roleCache.left > 0 /\ v = roleCache.value)
           \/ roleCache' = [value |-> fact["role"], left |-> RoleTTL] /\ v = fact["role"]
  BY <1>2 DEF ResolveRole
<1> DEFINE s == Replying(h, Granted(h, v))
           c == Granted(h, v)
<1>4. /\ s.for = handler[h].for /\ s.pc = "reply" /\ s.reply = c
      /\ c.auth = TRUE /\ c.member = FALSE /\ c.granted = (handler[h].member /\ v)
  BY DEF Replying, Resting, Granted
<1>5. ASSUME NEW l \in Int, handler[h].for # Nobody, l = fetch[handler[h].for].left + AfterReply
      PROVE  Carries(since, s, l)
  <2>1. Carries(since, handler[h], l) /\ SeenAt(since, "role", fact["role"], l)
        /\ l <= Timeout + AfterReply
    BY <1>2, <1>5, Answering
  <2>2. SeenAt(since, "session", TRUE, l) /\ SeenAt(since, "status", TRUE, l)
        /\ SeenAt(since, "member", handler[h].member, l)
    BY <1>1, <2>1 DEF Carries
  <2>3. roleCache.left > 0 => SeenAt(since, "role", roleCache.value, l)
    <3>1. roleCache.left > 0 => since["role"][roleCache.value] + roleCache.left <= RoleTTL
      BY DEF Recent, RoleOk
    <3> QED
      BY <1>2, <2>1, <3>1, CachedIsSeen
  <2>4. handler[h].member => SeenAt(since, "role", v, l)
    BY <1>3, <2>1, <2>3
  <2>5. ToldAt(since, c, l)
    <3>1. CASE handler[h].member = FALSE
      BY <1>4, <2>2, <3>1 DEF ToldAt
    <3>2. CASE handler[h].member = TRUE /\ v = FALSE
      BY <1>4, <2>2, <2>4, <3>2 DEF ToldAt
    <3>3. CASE handler[h].member = TRUE /\ v = TRUE
      BY <1>4, <2>2, <2>4, <3>3 DEF ToldAt
    <3> QED
      BY <1>2, <3>1, <3>2, <3>3
  <2> QED
    BY <1>4, <2>5 DEF Carries
<1>6. HandlerOk(since, fetch[s.for], s)
  BY <1>4, <1>5, HandlerIs
<1>7. RoleOk(since, roleCache')
  BY <1>2, <1>3 DEF Recent, RoleOk
<1>8. StatusOk(since, statusCache')
  BY <1>1 DEF Recent
<1> QED
  BY <1>1, <1>3, <1>4, <1>6, <1>7, <1>8, MoveRecent

LEMMA DeliverRecent ==
  ASSUME Typed, Typed', Recent, NEW h \in Handlers, Deliver(h)
  PROVE  Recent'
<1> DEFINE p == handler[h].for
           c == handler[h].reply
<1>1. Goto(h, Resting) /\ UNCHANGED <<facts, service>> /\ handler[h].pc = "reply"
  BY DEF Deliver
<1>2. /\ UNCHANGED <<fact, since, statusCache, roleCache>> /\ c \in Context
      /\ handler'[h] = Resting /\ \A i \in Handlers : i # h => handler'[i] = handler[i]
  BY <1>1 DEF facts, service, Goto, Typed, Executions
<1>3. CASE p = Nobody
  <2>1. UNCHANGED <<shared, memory, fetch>>
    BY <1>3 DEF Deliver, caches
  <2>2. HandlerOk(since, fetch[Resting.for], Resting) /\ Resting.for = Nobody
    BY DEF HandlerOk, Resting
  <2> QED
    BY <1>1, <1>2, <2>1, <2>2, MoveRecent DEF Recent, caches
<1>4. CASE p # Nobody
  <2>1. /\ p \in Processes /\ fetch[p].left \in Nat
        /\ Carries(since, handler[h], fetch[p].left + AfterReply)
    <3>1. p \in Processes /\ fetch[p].pc = "asking" /\ handler[h].pc # "idle"
      BY <1>4, AnswererAsks
    <3> QED
      BY <1>4, <3>1 DEF Recent, HandlerOk, Typed, Fetches
  <2>2. ToldAt(since, c, AfterReply) /\ ~c.member
    <3>1. ToldAt(since, c, fetch[p].left + AfterReply) /\ ~c.member
      BY <1>1, <2>1 DEF Carries
    <3>2. fetch[p].left + AfterReply \in Int /\ AfterReply \in Int
          /\ AfterReply <= fetch[p].left + AfterReply
      BY <2>1, Periods
    <3> QED
      BY <1>2, <3>1, <3>2, ToldLess DEF Typed
  <2>3. \A i \in Handlers : \/ handler'[i] = handler[i] /\ handler[i].for # p
                            \/ handler'[i] = Resting
    BY <1>2, <1>4 DEF Recent, OneAnswer
  <2>4. CASE c.auth
    <3>1. /\ UNCHANGED <<shared, memory>>
          /\ fetch' = [fetch EXCEPT ![p] = [pc |-> "organization", attempt |-> @.attempt,
                                            left |-> Lag, context |-> c]]
      BY <1>4, <2>4 DEF Deliver, caches
    <3>2. /\ \A q \in Processes : q # p => fetch'[q] = fetch[q]
          /\ fetch'[p].pc = "organization" /\ fetch'[p].left = Lag /\ fetch'[p].context = c
      BY <2>1, <3>1 DEF Typed
    <3>3. ToldAt(since, c, Lag + AfterFetch)
      BY <2>2 DEF AfterReply
    <3>4. \A q \in Processes : FetchOk(since', fetch'[q])
      BY <1>2, <2>2, <2>4, <3>2, <3>3 DEF Recent, FetchOk
    <3>5. /\ \A i \in Handlers : HandlerOk(since', fetch'[handler'[i].for], handler'[i])
          /\ OneAnswer'
      BY <1>2, <2>1, <2>3, <3>2, RestRecent
    <3> QED
      BY <1>2, <3>1, <3>4, <3>5 DEF Recent
  <2>5. CASE ~c.auth
    <3>1. Settle(p, c)
      BY <1>4, <2>5 DEF Deliver
    <3>2. ToldAt(since, c, AfterFetch)
      <4>1. AfterFetch \in Int /\ AfterReply \in Int /\ AfterFetch <= AfterReply
        BY Periods DEF AfterReply
      <4> QED
        BY <1>2, <2>2, <4>1, ToldLess DEF Typed
    <3> QED
      BY <1>1, <1>2, <2>1, <2>3, <3>1, <3>2, SettleRecent
  <2> QED
    BY <2>4, <2>5
<1> QED
  BY <1>3, <1>4

LEMMA HandlerRecentStep ==
  ASSUME Typed, Typed', Recent, NEW h \in Handlers, HandlerStep(h) \/ HandlerFails(h)
  PROVE  Recent'
<1>1. CASE HandlerFails(h)
  <2>1. Goto(h, Resting) /\ UNCHANGED <<facts, service, caches, fetch>>
    BY <1>1 DEF HandlerFails
  <2>2. HandlerOk(since, fetch[Resting.for], Resting) /\ Resting.for = Nobody
    BY DEF HandlerOk, Resting
  <2> QED
    BY <2>1, <2>2, MoveRecent DEF Recent, service
<1> QED
  BY <1>1, LookUpRecent, ReadStatusRecent, ReadUserRecent, StoreUserRecent, ResolveRoleRecent,
     DeliverRecent DEF HandlerStep

----------------------------------------------------------------------------
(* Faults, and the whole *)

LEMMA FaultRecent ==
  ASSUME Typed, Typed', Recent,
         AuthRestart \/ FlushRedis
         \/ \E p \in Processes : OtherFails(p) \/ OtherSucceeds(p) \/ Restart(p) \/ Prune(p)
  PROVE  Recent'
<1>1. CASE AuthRestart
  <2>1. UNCHANGED <<fact, since, statusCache, shared, memory, fetch>>
        /\ \A h \in Handlers : handler'[h] = Resting /\ roleCache'.left = 0
    BY <1>1 DEF AuthRestart, facts, caches, Gone
  <2>2. RoleOk(since', roleCache')
    BY <1>1 DEF AuthRestart, Gone, RoleOk
  <2>3. \A h \in Handlers : HandlerOk(since', fetch'[handler'[h].for], handler'[h])
    BY <2>1 DEF HandlerOk, Resting
  <2>4. OneAnswer'
    BY <2>1 DEF OneAnswer, Resting
  <2> QED
    BY <2>1, <2>2, <2>3, <2>4 DEF Recent
<1>2. CASE FlushRedis
  <2>1. UNCHANGED <<fact, since, roleCache, memory, fetch, handler>>
    BY <1>2 DEF FlushRedis, facts
  <2>2. SharedOk(since', shared') /\ StatusOk(since', statusCache')
    BY <1>2 DEF FlushRedis, Gone, SharedOk, StatusOk
  <2> QED
    BY <2>1, <2>2 DEF Recent, OneAnswer
<1>3. ASSUME NEW p \in Processes, OtherFails(p) \/ OtherSucceeds(p) PROVE Recent'
  BY <1>3 DEF OtherFails, OtherSucceeds, facts, service, caches, Recent, OneAnswer
<1>4. ASSUME NEW p \in Processes, Restart(p) PROVE Recent'
  <2>1. UNCHANGED <<fact, since, statusCache, roleCache, shared>>
        /\ handler' = Abandoned(p) /\ fetch' = [fetch EXCEPT ![p] = Idle]
        /\ memory' = [memory EXCEPT ![p] = Gone(Unauthenticated)]
    BY <1>4 DEF Restart, facts, service
  <2>2. \A q \in Processes : q # p => fetch'[q] = fetch[q] /\ memory'[q] = memory[q]
    BY <2>1 DEF Typed
  <2>3. fetch'[p].pc = "idle" /\ memory'[p].left = 0
    BY <2>1 DEF Typed, Idle, Gone
  <2>4. ASSUME NEW h \in Handlers
        PROVE  \/ handler'[h] = handler[h] /\ handler[h].for # p
               \/ handler'[h] = [handler[h] EXCEPT !.for = Nobody]
    BY <2>1 DEF Abandoned
  <2>5. /\ \A h \in Handlers : HandlerOk(since', fetch'[handler'[h].for], handler'[h])
        /\ OneAnswer'
    BY <2>1, <2>2, <2>4, RestRecent
  <2>6. \A q \in Processes : MemoryOk(since', memory'[q]) /\ FetchOk(since', fetch'[q])
    BY <2>1, <2>2, <2>3 DEF Recent, MemoryOk, FetchOk
  <2> QED
    BY <2>1, <2>5, <2>6 DEF Recent
<1>5. ASSUME NEW p \in Processes, Prune(p) PROVE Recent'
  <2>1. UNCHANGED <<fact, since, statusCache, roleCache, shared, fetch, handler>>
        /\ memory' = [memory EXCEPT ![p] = Gone(Unauthenticated)]
    BY <1>5 DEF Prune, facts, service
  <2>2. \A q \in Processes : memory'[q] = memory[q] \/ memory'[q].left = 0
    BY <2>1 DEF Typed, Gone
  <2>3. \A q \in Processes : MemoryOk(since', memory'[q])
    BY <2>1, <2>2 DEF Recent, MemoryOk
  <2> QED
    BY <2>1, <2>3 DEF Recent, OneAnswer
<1> QED
  BY <1>1, <1>2, <1>3, <1>4, <1>5

LEMMA InitRecent == Init => Recent
<1> SUFFICES ASSUME Init PROVE Recent
  OBVIOUS
<1>1. \A f \in Facts : since[f][fact[f]] = 0
  <2>1. \A f \in Facts : fact[f] \in BOOLEAN
    BY DEF Init
  <2> QED
    BY <2>1 DEF Init
<1>2. StatusOk(since, statusCache) /\ RoleOk(since, roleCache) /\ SharedOk(since, shared)
  BY DEF Init, Gone, StatusOk, RoleOk, SharedOk
<1>3. \A p \in Processes : MemoryOk(since, memory[p]) /\ FetchOk(since, fetch[p])
  BY DEF Init, Gone, Idle, MemoryOk, FetchOk
<1>4. \A h \in Handlers : HandlerOk(since, fetch[handler[h].for], handler[h])
  BY DEF Init, Resting, HandlerOk
<1>5. OneAnswer
  BY DEF Init, Resting, OneAnswer
<1> QED
  BY <1>1, <1>2, <1>3, <1>4, <1>5 DEF Recent

LEMMA StepRecent ==
  ASSUME Typed, Typed', Recent, [Next]_vars
  PROVE  Recent'
<1>1. CASE UNCHANGED vars
  BY <1>1 DEF vars, Recent, OneAnswer
<1>2. CASE Next
  BY <1>2, TickRecent, FactChangesRecent, RequestRecent, FetchRecentStep, HandlerRecentStep,
     FaultRecent DEF Next
<1> QED
  BY <1>1, <1>2

\* Caches, circuits, fetches and executions keep their shape, counters and
\* periods stay in their ranges: after a failed attempt the circuit counts below
\* its threshold or is open (middleware/auth.ts:800-850).
THEOREM AuthTypeCorrect == Spec => []TypeOK
<1>1. Init => Typed
  BY InitTyped
<1>2. Typed /\ [Next]_vars => Typed'
  BY StepTyped
<1>3. Typed => TypeOK
  BY TypeIs
<1> QED
  BY <1>1, <1>2, <1>3, PTL DEF Spec

\* The inductive invariant: in every place a context or a fact is copied to, what
\* is left of its life there and of the copies that may still be made of it ends
\* before the bound of each fact it goes by (middleware/auth.ts:1189-1328).
THEOREM AuthInvariant == Spec => []IInv
<1>1. Init => Typed /\ Recent
  BY InitTyped, InitRecent
<1>2. Typed /\ Recent /\ [Next]_vars => (Typed /\ Recent)'
  BY StepTyped, StepRecent
<1>3. Typed /\ Recent => IInv
  BY InvIs
<1> QED
  BY <1>1, <1>2, <1>3, PTL DEF Spec

\* Whoever a service decides on, it decides on facts of the last Bound: a ban or a
\* revoked permission is honoured by every process after that time, whatever was
\* cached, retried, flushed or restarted (middleware/auth.ts:1189-1328).
THEOREM ContextsAreRecent == Spec => []ContextIsRecent
<1>1. IInv => ContextIsRecent
  <2> SUFFICES ASSUME IInv, NEW p \in Processes, memory[p].left > 0
               PROVE  Told(memory[p].value, 0)
    BY DEF ContextIsRecent
  <2>1. Typed /\ Recent
    BY InvIs
  <2>2. memory[p].value \in Context /\ memory[p].left \in Nat /\ since \in Ages
    BY <2>1 DEF Typed, Entry
  <2>3. ToldAt(since, memory[p].value, memory[p].left)
    BY <2>1 DEF Recent, MemoryOk
  <2>4. ToldAt(since, memory[p].value, 0)
    BY <2>2, <2>3, ToldLess
  <2> QED
    BY <2>2, <2>4, ToldIs
<1> QED
  BY <1>1, AuthInvariant, PTL

\* The late answer of an attempt that was given up is never taken for the answer
\* of the next one (middleware/auth.ts:690-766).
THEOREM OneAnswerPerFetch == Spec => []OneAnswer
<1>1. IInv => OneAnswer
  BY DEF IInv
<1> QED
  BY <1>1, AuthInvariant, PTL
=============================================================================
