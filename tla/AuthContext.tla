---------------------------- MODULE AuthContext ----------------------------
\* What a service believes of the bearer of one session cookie: the middleware
\* of packages/utils/src/middleware/auth.ts, its caches in memory and in Redis,
\* the shared request to the auth service with its retry and circuit breaker,
\* and the handler of GET /api/auth/get-session (customSession) with the caches
\* of user status and role permissions it reads.
\*
\* Four facts of the database decide an answer: the session exists, its user is
\* in good standing, the user's role has a certain permission, and the user is
\* a member of the active organization. Time is discrete and is kept as time
\* left (of entries, timers) and time passed (since a fact had a value).
EXTENDS Integers, FiniteSets

CONSTANTS
  Processes,   \* service processes, each with its own memory
  Requests,    \* requests that carry the session cookie
  Handlers,    \* executions of get-session at the auth service
  Nobody,      \* the client of a handler that gave up
  Attempts,    \* retryAttempts + 1
  Threshold,   \* unavailableFailureThreshold
  Timeout,     \* timeoutMs of an attempt
  OpenTime,    \* unavailableFailCacheTtlMs
  StatusTTL,   \* AUTH_USER_STATUS_REDIS_TTL_SECONDS
  RoleTTL,     \* 60 s of rolePermissionsCache
  RedisTTL,    \* redisCacheTtlSeconds
  MemoryTTL,   \* cacheTtlMs
  Lag,         \* assumption: a query or command that succeeds does so in this time
  MaxChanges   \* bound: changes of facts in a behaviour

ASSUME AuthAssumption ==
  /\ IsFiniteSet(Requests) /\ Nobody \notin Processes
  /\ Attempts \in Nat \ {0} /\ Threshold \in Nat \ {0}
  /\ Timeout \in Nat \ {0} /\ OpenTime \in Nat \ {0}
  /\ StatusTTL \in Nat \ {0} /\ RoleTTL \in Nat \ {0}
  /\ RedisTTL \in Nat \ {0} /\ MemoryTTL \in Nat \ {0}
  /\ Lag \in Nat /\ MaxChanges \in Nat

VARIABLES
  fact,         \* the facts as the database and the session storage hold them
  since,        \* since[f][v]: time since fact f last had the value v, up to Never
  changes,      \* facts changed so far
  statusCache,  \* auth:user-status of the user, in Redis
  roleCache,    \* the role's entry of rolePermissionsCache, in the auth process
  shared,       \* the context in Redis, under the cache key of the session
  memory,       \* authSessionCache of each process, its entry for the session
  circuit,      \* authUpstreamCircuitByEndpoint of each process
  fetch,        \* authContextResolutionInFlight of each process, its promise
  handler,      \* executions of get-session
  req           \* where each request stands

vars == <<fact, since, changes, statusCache, roleCache, shared, memory, circuit,
          fetch, handler, req>>
facts == <<fact, since, changes>>
service == <<statusCache, roleCache>>
caches == <<shared, memory>>

Facts == {"session", "status", "role", "member"}

\* A context: is the bearer authenticated, does authorization.permissions hold
\* the permission, does member name a membership of the active organization.
Context == [auth : BOOLEAN, granted : BOOLEAN, member : BOOLEAN]
Unauthenticated == [auth |-> FALSE, granted |-> FALSE, member |-> FALSE]

\* What createRbacMiddleware answers on a context: 401, 403 or the route's handler.
Decide(c, requireOrganization) ==
  IF ~c.auth THEN "unauthorized"
  ELSE IF (requireOrganization /\ ~c.member) \/ ~c.granted THEN "forbidden"
  ELSE "next"

Max2(a, b) == IF a > b THEN a ELSE b

\* What is left of the lives of the copies a context passes through.
AfterFetch == RedisTTL + MemoryTTL
AfterReply == Lag + AfterFetch

\* How long ago, at most, a fact had the value a usable context goes by.
Bound(f) ==
  AfterReply + Timeout +
    CASE f = "status" -> Lag + StatusTTL
      [] f = "role"   -> RoleTTL
      [] OTHER        -> 0

Never == Timeout + Lag + AfterReply + StatusTTL + RoleTTL + 1

\* An entry of a cache; nothing is cached when no time is left of it.
Entry(S) == [value : S, left : Nat]
Gone(v) == [value |-> v, left |-> 0]
Aged(e, v) == IF e.left <= 1 THEN Gone(v) ELSE [e EXCEPT !.left = @ - 1]
Less(n) == IF n = 0 THEN 0 ELSE n - 1

Idle == [pc |-> "idle", attempt |-> 0, left |-> 0, context |-> Unauthenticated]
Resting == [pc |-> "idle", for |-> Nobody, left |-> 0, status |-> FALSE,
            member |-> FALSE, reply |-> Unauthenticated]
Away == [pc |-> "idle", at |-> Nobody]
Closed == [failures |-> 0, left |-> 0]

TypeOK ==
  /\ fact \in [Facts -> BOOLEAN]
  /\ since \in [Facts -> [BOOLEAN -> 0..Never]]
  /\ changes \in 0..MaxChanges
  /\ statusCache \in Entry(BOOLEAN) /\ statusCache.left <= StatusTTL
  /\ roleCache \in Entry(BOOLEAN) /\ roleCache.left <= RoleTTL
  /\ shared \in Entry(Context) /\ shared.left <= RedisTTL
  /\ memory \in [Processes -> Entry(Context)]
  /\ \A p \in Processes : memory[p].left <= MemoryTTL
  /\ circuit \in [Processes -> [failures : 0..(Threshold - 1), left : 0..OpenTime]]
  /\ fetch \in [Processes -> [pc : {"idle", "ask", "asking", "organization"},
                              attempt : 0..Attempts, left : 0..Max2(Timeout, Lag),
                              context : Context]]
  /\ handler \in [Handlers ->
       [pc : {"idle", "session", "status", "user", "store", "role", "reply"},
        for : Processes \cup {Nobody}, left : 0..Lag, status : BOOLEAN,
        member : BOOLEAN, reply : Context]]
  /\ req \in [Requests -> [pc : {"idle", "redis", "wait"}, at : Processes \cup {Nobody}]]

Init ==
  /\ fact \in [Facts -> BOOLEAN] /\ \A f \in Facts \ {"role"} : fact[f]
  /\ since = [f \in Facts |-> [v \in BOOLEAN |-> IF v = fact[f] THEN 0 ELSE Never]]
  /\ changes = 0
  /\ statusCache = Gone(FALSE) /\ roleCache = Gone(FALSE)
  /\ shared = Gone(Unauthenticated)
  /\ memory = [p \in Processes |-> Gone(Unauthenticated)]
  /\ circuit = [p \in Processes |-> Closed]
  /\ fetch = [p \in Processes |-> Idle]
  /\ handler = [h \in Handlers |-> Resting]
  /\ req = [r \in Requests |-> Away]

-----------------------------------------------------------------------------
\* The facts change under the caches.

Change(f, v) ==
  /\ changes < MaxChanges
  /\ fact[f] # v
  /\ fact' = [fact EXCEPT ![f] = v]
  /\ since' = [since EXCEPT ![f] = [@ EXCEPT ![v] = 0]]
  /\ changes' = changes + 1

\* Better Auth removes the session from its storage; a sign-in makes a new token.
SignOut ==
  /\ Change("session", FALSE)
  /\ UNCHANGED <<service, caches, circuit, fetch, handler, req>>

\* The administration bans or reinstates the user; no cache is told.
Ban(v) ==
  /\ Change("status", v)
  /\ UNCHANGED <<service, caches, circuit, fetch, handler, req>>

\* Better Auth updates the user; its hook drops the cached status.
UpdateUser(v) ==
  /\ Change("status", v)
  /\ statusCache' = Gone(FALSE)
  /\ UNCHANGED <<roleCache, caches, circuit, fetch, handler, req>>

\* The administration gives the role the permission or takes it away.
UpdatePermission(v) ==
  /\ Change("role", v)
  /\ UNCHANGED <<service, caches, circuit, fetch, handler, req>>

\* The user is removed from the organization, or made a member again.
UpdateMember(v) ==
  /\ Change("member", v)
  /\ UNCHANGED <<service, caches, circuit, fetch, handler, req>>

-----------------------------------------------------------------------------
\* The middleware, for requests that carry the cookie.

\* A usable context in memory decides at once; otherwise Redis is asked.
Arrive(r, p) ==
  /\ req[r].pc = "idle"
  /\ memory[p].left = 0
  /\ req' = [req EXCEPT ![r] = [pc |-> "redis", at |-> p]]
  /\ UNCHANGED <<facts, service, caches, circuit, fetch, handler>>

\* Mutant: the hit also renews the life of the entry in Redis.
RedisHitRefreshing(r) ==
  LET p == req[r].at IN
  /\ req[r].pc = "redis"
  /\ shared.left > 0
  /\ memory' = [memory EXCEPT ![p] = [value |-> shared.value, left |-> MemoryTTL]]
  /\ shared' = [shared EXCEPT !.left = RedisTTL]
  /\ req' = [req EXCEPT ![r] = Away]
  /\ UNCHANGED <<facts, service, circuit, fetch, handler>>

\* A context found in Redis decides, and is kept in memory for a full period.
RedisHit(r) ==
  LET p == req[r].at IN
  /\ req[r].pc = "redis"
  /\ shared.left > 0
  /\ memory' = [memory EXCEPT ![p] = [value |-> shared.value, left |-> MemoryTTL]]
  /\ req' = [req EXCEPT ![r] = Away]
  /\ UNCHANGED <<facts, service, shared, circuit, fetch, handler>>

\* Mutant: requests are refused while any failure is counted.
RefuseCounting(r) ==
  /\ req[r].pc = "redis"
  /\ circuit[req[r].at].left > 0 \/ circuit[req[r].at].failures > 0
  /\ req' = [req EXCEPT ![r] = Away]
  /\ UNCHANGED <<facts, service, caches, circuit, fetch, handler>>

\* Redis has nothing, fails or is not ready: while the circuit is open the
\* request is refused (503), otherwise it joins the fetch in flight or starts one.
Refuse(r) ==
  /\ req[r].pc = "redis"
  /\ circuit[req[r].at].left > 0
  /\ req' = [req EXCEPT ![r] = Away]
  /\ UNCHANGED <<facts, service, caches, circuit, fetch, handler>>

Join(r) ==
  LET p == req[r].at IN
  /\ req[r].pc = "redis"
  /\ circuit[p].left = 0
  /\ req' = [req EXCEPT ![r].pc = "wait"]
  /\ fetch' = IF fetch[p].pc # "idle" THEN fetch
              ELSE [fetch EXCEPT ![p].pc = "ask", ![p].attempt = 1]
  /\ UNCHANGED <<facts, service, caches, circuit, handler>>

RedisMiss(r) == Refuse(r) \/ Join(r)

\* isAuthUpstreamCircuitOpen and markAuthUpstreamUnavailable, called n times.
Failed(c, n) ==
  IF c.left > 0 THEN c
  ELSE IF c.failures + n < Threshold THEN [c EXCEPT !.failures = @ + n]
  ELSE [failures |-> 0, left |-> OpenTime]

Waiters(p) == {r \in Requests : req[r].pc = "wait" /\ req[r].at = p}

\* Mutant: the fetch resumes one of those that wait for it.
ReleasedOne(p) ==
  [r \in Requests |-> IF Waiters(p) # {} /\ r = CHOOSE w \in Waiters(p) : TRUE THEN Away
                      ELSE req[r]]

Released(p) == [r \in Requests |-> IF r \in Waiters(p) THEN Away ELSE req[r]]

\* An attempt fails: the next one is made, or the fetch is unavailable and
\* every request that waited for it counts the failure and answers 503.
AttemptFailed(p, retryable) ==
  IF retryable /\ fetch[p].attempt < Attempts
  THEN /\ fetch' = [fetch EXCEPT ![p].pc = "ask", ![p].attempt = @ + 1, ![p].left = 0]
       /\ UNCHANGED <<circuit, req>>
  ELSE /\ fetch' = [fetch EXCEPT ![p] = Idle]
       /\ circuit' = [circuit EXCEPT ![p] = Failed(@, Cardinality(Waiters(p)))]
       /\ req' = Released(p)

\* Mutant: an attempt given up may still answer.
AbandonedNever(p) == handler

Abandoned(p) ==
  [h \in Handlers |-> IF handler[h].for = p THEN [handler[h] EXCEPT !.for = Nobody]
                      ELSE handler[h]]

\* The attempt is sent, after a pause if it is not the first.
Send(p) ==
  /\ fetch[p].pc = "ask"
  /\ \E h \in Handlers :
       /\ handler[h].pc = "idle"
       /\ handler' = [handler EXCEPT ![h].pc = "session", ![h].for = p]
  /\ fetch' = [fetch EXCEPT ![p].pc = "asking", ![p].left = Timeout]
  /\ UNCHANGED <<facts, service, caches, circuit, req>>

\* The connection is refused or breaks, or the answer is an error.
Break(p, retryable) ==
  /\ fetch[p].pc \in {"ask", "asking"}
  /\ AttemptFailed(p, retryable)
  /\ handler' = Abandoned(p)
  /\ UNCHANGED <<facts, service, caches>>

\* AbortSignal.timeout: the client gives up, the handler goes on.
Expire(p) ==
  /\ fetch[p].pc = "asking" /\ fetch[p].left = 0
  /\ AttemptFailed(p, TRUE)
  /\ handler' = Abandoned(p)
  /\ UNCHANGED <<facts, service, caches>>

\* Every waiter takes the context: it resets the circuit, fills memory and
\* writes Redis without waiting; the write may be lost.
Settle(p, c) ==
  /\ fetch' = [fetch EXCEPT ![p] = Idle]
  /\ circuit' = [circuit EXCEPT ![p] = Closed]
  /\ req' = Released(p)
  /\ memory' = [memory EXCEPT ![p] = [value |-> c, left |-> MemoryTTL]]
  /\ shared' \in {shared, [value |-> c, left |-> RedisTTL]}

\* resolveOrganizationContext: the membership is looked up for the context. A
\* query that fails counts as no membership.
FinishOrganization(p) ==
  /\ fetch[p].pc = "organization"
  /\ \E m \in {fact["member"], FALSE} : Settle(p, [fetch[p].context EXCEPT !.member = m])
  /\ UNCHANGED <<facts, service, handler>>

-----------------------------------------------------------------------------
\* get-session at the auth service: customSession, step by step.

Goto(h, s) == handler' = [handler EXCEPT ![h] = s]
Replying(h, c) == [Resting EXCEPT !.pc = "reply", !.for = handler[h].for, !.reply = c]

\* Better Auth looks the session up; without one the answer is null.
LookUpSession(h) ==
  /\ handler[h].pc = "session"
  /\ Goto(h, IF fact["session"] THEN [handler[h] EXCEPT !.pc = "status"]
             ELSE Replying(h, Unauthenticated))
  /\ UNCHANGED <<facts, service, caches, circuit, fetch, req>>

\* The cached status is read, and the membership beside it; a banned user gets 403.
ReadStatus(h) ==
  /\ handler[h].pc = "status"
  /\ LET s == [handler[h] EXCEPT !.member = fact["member"]] IN
     \/ /\ statusCache.left = 0
        /\ Goto(h, [s EXCEPT !.pc = "user"])
     \/ /\ statusCache.left > 0 /\ statusCache.value
        /\ Goto(h, [s EXCEPT !.pc = "role"])
     \/ /\ statusCache.left > 0 /\ ~statusCache.value
        /\ Goto(h, Replying(h, Unauthenticated))
  /\ UNCHANGED <<facts, service, caches, circuit, fetch, req>>

ReadUser(h) ==
  /\ handler[h].pc = "user"
  /\ Goto(h, [handler[h] EXCEPT !.pc = "store", !.status = fact["status"], !.left = Lag])
  /\ UNCHANGED <<facts, service, caches, circuit, fetch, req>>

\* userStatusCache.set, then the ban.
StoreUser(h) ==
  /\ handler[h].pc = "store"
  /\ statusCache' = [value |-> handler[h].status, left |-> StatusTTL]
  /\ Goto(h, IF handler[h].status
             THEN [handler[h] EXCEPT !.pc = "role", !.status = FALSE, !.left = 0]
             ELSE Replying(h, Unauthenticated))
  /\ UNCHANGED <<facts, roleCache, caches, circuit, fetch, req>>

Granted(h, v) == [auth |-> TRUE, granted |-> handler[h].member /\ v, member |-> FALSE]

\* The role's permissions come from rolePermissionsCache, or from the database
\* and are cached. Who is no member has the permissions of another role.
ResolveRole(h) ==
  /\ handler[h].pc = "role"
  /\ \/ /\ ~handler[h].member \/ roleCache.left > 0
        /\ Goto(h, Replying(h, Granted(h, roleCache.value)))
        /\ UNCHANGED roleCache
     \/ /\ handler[h].member /\ roleCache.left = 0
        /\ roleCache' = [value |-> fact["role"], left |-> RoleTTL]
        /\ Goto(h, Replying(h, Granted(h, fact["role"])))
  /\ UNCHANGED <<facts, statusCache, caches, circuit, fetch, req>>

\* The answer reaches the client, if it is still waiting.
Deliver(h) ==
  LET p == handler[h].for
      c == handler[h].reply IN
  /\ handler[h].pc = "reply"
  /\ Goto(h, Resting)
  /\ IF p = Nobody THEN UNCHANGED <<caches, circuit, fetch, req>>
     ELSE IF c.auth
     THEN /\ fetch' = [fetch EXCEPT ![p] = [pc |-> "organization", attempt |-> @.attempt,
                                            left |-> Lag, context |-> c]]
          /\ UNCHANGED <<caches, circuit, req>>
     ELSE Settle(p, c)
  /\ UNCHANGED <<facts, service>>

\* A query or Redis command of the handler fails: its client gets no context.
HandlerFails(h) ==
  /\ handler[h].pc # "idle"
  /\ Goto(h, Resting)
  /\ UNCHANGED <<facts, service, caches, circuit, fetch, req>>

HandlerStep(h) ==
  \/ LookUpSession(h) \/ ReadStatus(h) \/ ReadUser(h) \/ StoreUser(h)
  \/ ResolveRole(h) \/ Deliver(h)

\* The auth service restarts: its handlers and its cache of roles are gone.
AuthRestart ==
  /\ handler' = [h \in Handlers |-> Resting]
  /\ roleCache' = Gone(FALSE)
  /\ UNCHANGED <<facts, statusCache, caches, circuit, fetch, req>>

-----------------------------------------------------------------------------
\* The environment.

\* The requests of another session of the same process share its circuit.
OtherFails(p) ==
  /\ circuit' = [circuit EXCEPT ![p] = Failed(@, 1)]
  /\ circuit' # circuit
  /\ UNCHANGED <<facts, service, caches, fetch, handler, req>>

OtherSucceeds(p) ==
  /\ circuit[p] # Closed
  /\ circuit' = [circuit EXCEPT ![p] = Closed]
  /\ UNCHANGED <<facts, service, caches, fetch, handler, req>>

\* Redis loses its keys.
FlushRedis ==
  /\ shared.left > 0 \/ statusCache.left > 0
  /\ shared' = Gone(Unauthenticated) /\ statusCache' = Gone(FALSE)
  /\ UNCHANGED <<facts, roleCache, memory, circuit, fetch, handler, req>>

\* A process restarts: its memory, its requests and its fetch are gone. Its entry
\* may also be pruned from memory (pruneMemoryCache).
Restart(p) ==
  /\ memory' = [memory EXCEPT ![p] = Gone(Unauthenticated)]
  /\ circuit' = [circuit EXCEPT ![p] = Closed]
  /\ fetch' = [fetch EXCEPT ![p] = Idle]
  /\ handler' = Abandoned(p)
  /\ req' = [r \in Requests |-> IF req[r].at = p THEN Away ELSE req[r]]
  /\ UNCHANGED <<facts, service, shared>>

Prune(p) ==
  /\ memory[p].left > 0
  /\ memory' = [memory EXCEPT ![p] = Gone(Unauthenticated)]
  /\ UNCHANGED <<facts, service, shared, circuit, fetch, handler, req>>

\* Nothing that is due outlasts its time.
Due ==
  \/ \E p \in Processes : fetch[p].pc \in {"asking", "organization"} /\ fetch[p].left = 0
  \/ \E h \in Handlers : handler[h].pc = "store" /\ handler[h].left = 0

Older(n) == IF n < Never THEN n + 1 ELSE n

Tick ==
  /\ ~Due
  /\ since' = [f \in Facts |-> [v \in BOOLEAN |->
                 IF fact[f] = v THEN 0 ELSE Older(since[f][v])]]
  /\ statusCache' = Aged(statusCache, FALSE)
  /\ roleCache' = Aged(roleCache, FALSE)
  /\ shared' = Aged(shared, Unauthenticated)
  /\ memory' = [p \in Processes |-> Aged(memory[p], Unauthenticated)]
  /\ circuit' = [p \in Processes |-> [circuit[p] EXCEPT !.left = Less(@)]]
  /\ fetch' = [p \in Processes |-> [fetch[p] EXCEPT !.left = Less(@)]]
  /\ handler' = [h \in Handlers |-> [handler[h] EXCEPT !.left = Less(@)]]
  /\ UNCHANGED <<fact, changes, req>>

FactChanges ==
  \/ SignOut
  \/ \E v \in BOOLEAN : Ban(v) \/ UpdateUser(v) \/ UpdatePermission(v) \/ UpdateMember(v)

FetchStep(p) ==
  \/ Send(p) \/ Expire(p) \/ FinishOrganization(p)
  \/ \E b \in BOOLEAN : Break(p, b)

Next ==
  \/ Tick
  \/ FactChanges
  \/ \E r \in Requests : RedisHit(r) \/ RedisMiss(r)
  \/ \E r \in Requests, p \in Processes : Arrive(r, p)
  \/ \E p \in Processes : FetchStep(p)
  \/ \E h \in Handlers : HandlerStep(h) \/ HandlerFails(h)
  \/ AuthRestart
  \/ \E p \in Processes : OtherFails(p) \/ OtherSucceeds(p) \/ Restart(p) \/ Prune(p)
  \/ FlushRedis

Spec == Init /\ [][Next]_vars

\* Time passes, Redis answers or fails, a request to the auth service is sent or
\* refused and is aborted when its time is over, a query ends by its statement
\* timeout. The auth service need not answer.
FairSpec ==
  /\ Spec
  /\ WF_vars(Tick)
  /\ \A r \in Requests : WF_vars(RedisHit(r) \/ RedisMiss(r))
  /\ \A p \in Processes :
       /\ WF_vars(fetch[p].pc = "ask" /\ FetchStep(p))
       /\ WF_vars(Expire(p)) /\ WF_vars(FinishOrganization(p))
  /\ \A h \in Handlers : WF_vars(handler[h].pc = "store" /\ (StoreUser(h) \/ HandlerFails(h)))

-----------------------------------------------------------------------------
\* A fact had the value at most Bound ago, counting what is left of the lives of
\* the copies still to be made.
Seen(f, v, left) == since[f][v] + left <= Bound(f)

Told(c, left) ==
  /\ Decide(c, FALSE) = "unauthorized" =>
       Seen("session", FALSE, left) \/ Seen("status", FALSE, left)
  /\ Decide(c, FALSE) # "unauthorized" =>
       Seen("session", TRUE, left) /\ Seen("status", TRUE, left)
  /\ Decide(c, FALSE) = "next" => Seen("member", TRUE, left) /\ Seen("role", TRUE, left)
  /\ Decide(c, FALSE) = "forbidden" => Seen("member", FALSE, left) \/ Seen("role", FALSE, left)
  /\ Decide(c, TRUE) = "next" => Seen("member", TRUE, left)

\* Whatever was cached where and copied from where: a request that is let in, let
\* do something or turned away on a cached context is so on facts that held at
\* most Bound ago. A ban, a revoked permission, a removed member and a restored
\* one are honoured by every process after that time, through two Redis entries,
\* a retry, restarts and late handlers (middleware/auth.ts:1189-1328, auth/index.ts:232-398).
ContextIsRecent ==
  \A p \in Processes : memory[p].left > 0 => Told(memory[p].value, 0)

\* Its parts: the same of each place a context or a fact is copied to.
MemoryRecent ==
  \A p \in Processes : memory[p].left > 0 => Told(memory[p].value, memory[p].left)
SharedRecent == shared.left > 0 => Told(shared.value, shared.left + MemoryTTL)
FactsAreNow == \A f \in Facts : since[f][fact[f]] = 0
StatusCacheRecent ==
  statusCache.left > 0 =>
    since["status"][statusCache.value] + statusCache.left <= Lag + StatusTTL
RoleCacheRecent ==
  roleCache.left > 0 => since["role"][roleCache.value] + roleCache.left <= RoleTTL
FetchRecent ==
  \A p \in Processes :
    /\ fetch[p].pc = "asking" => fetch[p].left <= Timeout
    /\ fetch[p].pc = "organization" =>
         /\ fetch[p].context.auth /\ ~fetch[p].context.member
         /\ Told(fetch[p].context, fetch[p].left + AfterFetch)
HandlerRecent ==
  \A h \in Handlers :
    LET s == handler[h]
        left == fetch[s.for].left + AfterReply IN
    /\ s.pc = "store" => since["status"][s.status] + s.left <= Lag
    /\ s.pc \notin {"idle"} /\ s.for # Nobody =>
         /\ fetch[s.for].pc = "asking"
         /\ s.pc \in {"status", "user", "store", "role"} => Seen("session", TRUE, left)
         /\ s.pc \in {"user", "store", "role"} => Seen("member", s.member, left)
         /\ s.pc = "store" => Seen("status", s.status, left)
         /\ s.pc = "role" => Seen("status", TRUE, left)
         /\ s.pc = "reply" => Told(s.reply, left) /\ ~s.reply.member
    /\ s.pc = "idle" => s.for = Nobody

\* At most one execution answers a fetch: an attempt the client gave up on is
\* never taken for the answer of the next.
OneAnswer ==
  \A h, i \in Handlers : handler[h].for # Nobody /\ handler[h].for = handler[i].for => h = i

IInv ==
  /\ TypeOK /\ FactsAreNow /\ MemoryRecent /\ SharedRecent /\ StatusCacheRecent /\ RoleCacheRecent
  /\ FetchRecent /\ HandlerRecent /\ OneAnswer

\* Every request is answered, with a context or with 503, although the auth
\* service may hang, answer late or be restarted at any step: the waiters of a
\* shared fetch are never left behind (middleware/auth.ts:768-783, 1279-1299).
RequestsAnswered == \A r \in Requests : req[r].pc # "idle" ~> req[r].pc = "idle"

\* Once no attempt fails any more, of this session or of another, requests are
\* not refused for ever: the circuit closes by itself (middleware/auth.ts:800-813).
AttemptFails ==
  \E p \in Processes :
    Expire(p) \/ (\E b \in BOOLEAN : Break(p, b)) \/ OtherFails(p)
RecoversFromFailures ==
  <>[][~AttemptFails]_vars => <>[][\A r \in Requests : ~Refuse(r)]_vars

=============================================================================
