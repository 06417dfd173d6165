---------------------------- MODULE PollingState ----------------------------
(***************************************************************************)
(* The polling state of one pod (services/ommpods/src/routers/polling):    *)
(* what refreshPollingDataForPod reads from the database, stores in Redis  *)
(* and hands to the listeners, how a poll or a socket tick answers from    *)
(* the memory of the process, from Redis or by a shared fetch, and how it  *)
(* writes back to Redis what it read there.                                *)
(*                                                                         *)
(* A pod has one session that can be seen at a time (PodSessions); the     *)
(* control events of that session (mood, aroma, music) are abstracted to   *)
(* the number of the last one, which stands for the whole derived state.   *)
(* An execution takes one step from await to await.  A poll and the fetch  *)
(* it may start go on independently, so every task has two executions.     *)
(***************************************************************************)
EXTENDS Integers, FiniteSets

CONSTANTS
  Tasks,         \* requests and ticks the process can be serving at once
  Lengths,       \* lengths of sessions, in clock ticks
  Second,        \* clock ticks in a second
  Intro, Delay,  \* the introduction and the end delay, in seconds
  MinTTL,        \* NO_SESSION_ and EXPIRED_SESSION_REDIS_TTL_SECONDS
  Grace,         \* SESSION_REDIS_GRACE_SECONDS
  MemoryAge,     \* POLLING_MEMORY_CACHE_MAX_AGE_MS, in ticks
  MaxChanges,    \* bound: changes of the session and its control events
  MaxClock,      \* bound: last value of the clock
  NoSession, Nothing

Own == Tasks \X {"own"}
Executions == Tasks \X {"own", "fetch"}
FetchOf(x) == <<x[1], "fetch">>

Session == [id: Nat, startAt: Int, endAt: Int]
Content == [session: Session \cup {NoSession}, control: Nat]

\* PollingResponse: what an answer shows.
View == [session: Nat, remaining: Nat, starting: Nat, ending: Nat, control: Nat, rgb: Nat]

ASSUME PollingAssumption ==
  /\ Lengths \subseteq Nat /\ Second \in Nat \ {0}
  /\ Intro \in Nat /\ Delay \in Nat /\ MinTTL \in Nat \ {0} /\ Grace \in Nat
  /\ MemoryAge \in Nat /\ MaxChanges \in Nat /\ MaxClock \in Nat
  /\ NoSession \notin Session
  /\ Nothing \notin View /\ Nothing \notin Executions
  /\ Nothing \notin [content: Content, expires: Int]

VARIABLES
  clock,      \* Date.now()
  db,         \* the pod's session and its last control event, as committed
  changes,    \* how many changes were committed; the next one's number
  redis,      \* the value of the pod's key and when it expires, or Nothing
  memory,     \* the pod's entry of pollingCache
  task,       \* what each execution is doing
  (* history variables, read by properties only *)
  overlapped, \* a change and the update of a copy of the state have overlapped
  missed,     \* the refresh of a change, or its write to Redis, has failed
  evicted     \* the pod's entry of pollingCache has been evicted

vars == <<clock, db, changes, redis, memory, task, overlapped, missed, evicted>>

----------------------------------------------------------------------------
(* Countdowns *)

Least(a, b) == IF a <= b THEN a ELSE b
Greatest(a, b) == IF a >= b THEN a ELSE b

\* secondsUntil and secondsBetween: whole seconds, rounded up, never negative.
SecondsUntil(target, now) == Greatest(0, (target - now + Second - 1) \div Second)

\* 0 is null: a countdown that is over is not shown.
EndingDelay(endAt, now) ==
  IF now < endAt THEN 0 ELSE Least(Delay, SecondsUntil(endAt + Delay * Second, now))

\* An answer without a session; 0 stands for off and for null.
IdleView == [session |-> 0, remaining |-> 0, starting |-> 0, ending |-> 0,
             control |-> 0, rgb |-> 0]

\* A refresh at `now`: buildSessionResponse, the delays, the lights out in the end.
FreshView(s, control, now) ==
  LET startsIn == SecondsUntil(s.startAt, now)
      ending   == EndingDelay(s.endAt, now)
  IN  [session   |-> s.id,
       remaining |-> IF startsIn > 0 THEN SecondsUntil(s.endAt, s.startAt)
                                     ELSE SecondsUntil(s.endAt, now),
       starting  |-> IF ending > 0 THEN 0 ELSE Least(Intro, startsIn),
       ending    |-> ending,
       control   |-> control,
       rgb       |-> IF ending > 0 THEN 0 ELSE control]

\* Mutant: the session is taken for over at its end, without the end delay.
MaterializeUntilEnd(c, now) ==
  IF c.session = NoSession THEN IdleView
  ELSE IF now >= c.session.endAt THEN IdleView
  ELSE FreshView(c.session, c.control, now)

\* materializePollingState: the stored state with the countdowns of `now`.
Materialize(c, now) ==
  IF c.session = NoSession THEN IdleView
  ELSE IF now >= c.session.endAt + Delay * Second THEN IdleView
  ELSE
    LET startsIn == SecondsUntil(c.session.startAt, now)
        ending   == EndingDelay(c.session.endAt, now)
    IN  [session   |-> c.session.id,
         remaining |-> IF startsIn > 0
                       THEN SecondsUntil(c.session.endAt, c.session.startAt)
                       ELSE SecondsUntil(c.session.endAt, now),
         starting  |-> IF startsIn > 0 /\ ending = 0 THEN Least(Intro, startsIn) ELSE 0,
         ending    |-> ending,
         control   |-> c.control,
         rgb       |-> IF ending > 0 THEN 0 ELSE c.control]

\* The session the query of a refresh finds with the clock it read.
VisibleAt(s, now) == s # NoSession /\ s.endAt > now - Delay * Second

NoContent == [session |-> NoSession, control |-> 0]

\* getPollingStateTtlSeconds, and the key as SET ... EX leaves it.
TTL(c, now) ==
  IF c.session = NoSession THEN MinTTL
  ELSE Greatest(MinTTL, SecondsUntil(c.session.endAt + (Delay + Grace) * Second, now))

Stored(c) == [content |-> c, expires |-> clock + TTL(c, clock) * Second]

----------------------------------------------------------------------------
Idle == [pc |-> "idle"]

\* Who reads the key, and for whom a refresh is made.
Readers == {"poll", "tick"}
Callers == {"change", "tick", "other"}

Task ==
       [pc: {"idle"}]
  \cup [pc: {"read"}, by: Callers]
  \cup [pc: {"session"}, by: Callers, now: Nat]
  \cup [pc: {"control"}, by: Callers, now: Nat, session: Session]
  \cup [pc: {"persist"}, by: Callers, content: Content, data: View]
  \cup [pc: {"get"}, kind: Readers, busy: BOOLEAN]
  \cup [pc: {"put"}, kind: Readers, busy: BOOLEAN, content: Content, data: View]
  \cup [pc: {"wait"}, on: Executions]

EmptyMemory == [data |-> Nothing, updatedAt |-> 0, inFlight |-> Nothing]

Init ==
  /\ clock = 0
  /\ db = NoContent
  /\ changes = 0
  /\ redis = Nothing
  /\ memory = EmptyMemory
  /\ task = [x \in Executions |-> Idle]
  /\ overlapped = FALSE /\ missed = FALSE /\ evicted = FALSE

\* A task starts again when it and the fetch it may have started are over.
Free(x) == x[2] = "own" /\ task[x] = Idle /\ task[FetchOf(x)] = Idle

\* The execution f is over, and those that wait for it are answered.
Finished(f) ==
  [x \in Executions |->
     IF x = f THEN Idle
     ELSE IF task[x].pc = "wait" THEN (IF task[x].on = f THEN Idle ELSE task[x])
     ELSE task[x]]

Changing ==
  {x \in Executions : /\ task[x].pc \in {"read", "session", "control", "persist"}
                      /\ task[x].by = "change"}

\* Executions that carry a copy of the state they are going to store.
Carrying == {x \in Executions : task[x].pc \in {"control", "persist", "put"}}

Overlap == \E x \in Changing : (Carrying \cup Changing) \ {x} # {}

\* Conjoined to every action: the history of overlaps.
Observe == overlapped' = (overlapped \/ Overlap')

----------------------------------------------------------------------------
(* Changes: the handlers commit, then refresh *)

Change(x, session, control) ==
  /\ Free(x)
  /\ changes < MaxChanges
  /\ changes' = changes + 1
  /\ db' = [session |-> session, control |-> control]
  /\ task' = [task EXCEPT ![x] = [pc |-> "read", by |-> "change"]]
  /\ UNCHANGED <<clock, redis, memory, missed, evicted>>
  /\ Observe

\* A booking, when the last session no longer holds the pod.
Book(x) ==
  /\ ~VisibleAt(db.session, clock)
  /\ \E n \in Lengths :
       Change(x, [id |-> changes + 1, startAt |-> clock + Intro * Second,
                  endAt |-> clock + Intro * Second + n], changes + 1)

\* An emergency unlock ends the session now.
Unlock(x) ==
  /\ db.session # NoSession
  /\ db.session.endAt > clock
  /\ Change(x, [db.session EXCEPT !.endAt = clock], db.control)

Delete(x) ==
  /\ db.session # NoSession
  /\ Change(x, NoSession, 0)

\* Mutant: the event is appended and the answer sent without a refresh.
AppendControlQuietly(x) ==
  /\ db.session # NoSession
  /\ Free(x)
  /\ changes < MaxChanges
  /\ changes' = changes + 1
  /\ db' = [db EXCEPT !.control = changes + 1]
  /\ UNCHANGED <<clock, redis, memory, task, missed, evicted>>
  /\ Observe

\* A mood, aroma or music event; the session may have ended since it was found.
AppendControl(x) ==
  /\ db.session # NoSession
  /\ Change(x, db.session, changes + 1)

----------------------------------------------------------------------------
(* refreshPollingDataForPod *)

\* A tablet or a socket that asks for its first state forces a refresh.
ViewState(x) ==
  /\ Free(x)
  /\ task' = [task EXCEPT ![x] = [pc |-> "read", by |-> "other"]]
  /\ UNCHANGED <<clock, db, changes, redis, memory, missed, evicted>>
  /\ Observe

\* The pod has been found; `now` is read.
RefreshStamp(x) ==
  /\ task[x].pc = "read"
  /\ task' = [task EXCEPT ![x] = [pc |-> "session", by |-> @.by, now |-> clock]]
  /\ UNCHANGED <<clock, db, changes, redis, memory, missed, evicted>>
  /\ Observe

\* The query of the session, with the window of that `now`.
RefreshSession(x) ==
  /\ task[x].pc = "session"
  /\ task' = [task EXCEPT ![x] =
       IF VisibleAt(db.session, @.now)
       THEN [pc |-> "control", by |-> @.by, now |-> @.now, session |-> db.session]
       ELSE [pc |-> "persist", by |-> @.by, content |-> NoContent, data |-> IdleView]]
  /\ UNCHANGED <<clock, db, changes, redis, memory, missed, evicted>>
  /\ Observe

\* resolveSessionControlState: the last events of the session that was found,
\* which by now may not be the pod's session any more.  What is answered has the
\* countdowns of the clock that was read first.
RefreshControl(x) ==
  LET q == task[x] IN
  /\ q.pc = "control"
  /\ \E n \in 0..changes :
       /\ (db.session # NoSession /\ db.session.id = q.session.id) => n = db.control
       /\ task' = [task EXCEPT ![x] =
            [pc |-> "persist", by |-> q.by,
             content |-> [session |-> q.session, control |-> n],
             data |-> FreshView(q.session, n, q.now)]]
  /\ UNCHANGED <<clock, db, changes, redis, memory, missed, evicted>>
  /\ Observe

\* Mutant: the entry is made anew, and the fetch under way is forgotten.
CachedAnew(data) == [data |-> data, updatedAt |-> clock, inFlight |-> Nothing]

\* setPollingCacheData: the answer as it was made, countdowns and all; the rest of
\* the entry is kept.
Cached(data) == [memory EXCEPT !.data = data, !.updatedAt = clock]

\* finally: the entry forgets the fetch, if it still is this one.
Settled(entry, x) ==
  IF entry.inFlight = x THEN [entry EXCEPT !.inFlight = Nothing] ELSE entry

\* The state is stored, whether Redis takes it or not; the listeners get it; a
\* fetch caches it again, settles and answers those who wait for it.
RefreshPersist(x) ==
  LET q == task[x] IN
  /\ q.pc = "persist"
  /\ \/ redis' = Stored(q.content) /\ UNCHANGED missed
     \/ missed' = (missed \/ q.by = "change") /\ UNCHANGED redis
  /\ memory' = Settled(Cached(q.data), x)
  /\ task' = Finished(x)
  /\ UNCHANGED <<clock, db, changes, evicted>>
  /\ Observe

\* The process is gone, with its cache and everything it was doing.
ProcessEnds ==
  /\ memory' = EmptyMemory
  /\ task' = [x \in Executions |-> Idle]
  /\ missed' = (missed \/ Changing # {})

\* A query fails.  A fetch settles with the fallback, a request with an error; the
\* rejection of a tick is handled by nobody, and ends the process.
RefreshFail(x) ==
  LET q == task[x] IN
  /\ q.pc \in {"read", "session", "control"}
  /\ \/ /\ q.by # "tick"
        /\ missed' = (missed \/ q.by = "change")
        /\ memory' = Settled(memory, x)
        /\ task' = Finished(x)
     \/ /\ q.by = "tick"
        /\ ProcessEnds
  /\ UNCHANGED <<clock, db, changes, redis, evicted>>
  /\ Observe

----------------------------------------------------------------------------
(* readPollingData, and the tick of a socket *)

\* The memory answers if it is fresh; otherwise Redis is asked, and what the entry
\* looked like is remembered.
PollStart(x) ==
  /\ Free(x)
  /\ memory.data = Nothing \/ clock - memory.updatedAt > MemoryAge
  /\ task' = [task EXCEPT ![x] =
       [pc |-> "get", kind |-> "poll",
        busy |-> memory.inFlight # Nothing /\ memory.data # Nothing]]
  /\ UNCHANGED <<clock, db, changes, redis, memory, missed, evicted>>
  /\ Observe

TickStart(x) ==
  /\ Free(x)
  /\ task' = [task EXCEPT ![x] = [pc |-> "get", kind |-> "tick", busy |-> FALSE]]
  /\ UNCHANGED <<clock, db, changes, redis, memory, missed, evicted>>
  /\ Observe

\* Redis has nothing.  A tick refreshes itself; a poll answers with the fallback if
\* a fetch was under way, or joins the fetch under way, or starts one.
Miss(x, kind, busy) ==
  \/ /\ kind = "tick"
     /\ task' = [task EXCEPT ![x] = [pc |-> "read", by |-> "tick"]]
     /\ UNCHANGED memory
  \/ /\ kind = "poll" /\ busy
     /\ task' = [task EXCEPT ![x] = Idle]
     /\ UNCHANGED memory
  \/ /\ kind = "poll" /\ ~busy /\ memory.inFlight # Nothing
     /\ task' = [task EXCEPT ![x] = [pc |-> "wait", on |-> memory.inFlight]]
     /\ UNCHANGED memory
  \/ /\ kind = "poll" /\ ~busy /\ memory.inFlight = Nothing
     /\ task' = [task EXCEPT ![x] = [pc |-> "wait", on |-> FetchOf(x)],
                             ![FetchOf(x)] = [pc |-> "read", by |-> "other"]]
     /\ memory' = [memory EXCEPT !.inFlight = FetchOf(x)]

\* The answer to GET: the key, or nothing when it expired, is missing or fails.  What
\* will be answered is made now, before the state is written back.
ReadRedis(x) ==
  LET q == task[x] IN
  /\ q.pc = "get"
  /\ \/ /\ redis # Nothing
        /\ redis.expires > clock
        /\ task' = [task EXCEPT ![x] = [pc |-> "put", kind |-> q.kind,
                                        busy |-> q.busy, content |-> redis.content,
                                        data |-> Materialize(redis.content, clock)]]
        /\ UNCHANGED memory
     \/ Miss(x, q.kind, q.busy)
  /\ UNCHANGED <<clock, db, changes, redis, missed, evicted>>
  /\ Observe

\* The answer to SET: what was read is written back.  If that fails, what was read
\* is thrown away.
WriteBack(x) ==
  LET q == task[x] IN
  /\ q.pc = "put"
  /\ \/ /\ redis' = Stored(q.content)
        /\ memory' = IF q.kind = "poll" THEN Cached(q.data) ELSE memory
        /\ task' = [task EXCEPT ![x] = Idle]
     \/ /\ Miss(x, q.kind, q.busy)
        /\ UNCHANGED redis
  /\ UNCHANGED <<clock, db, changes, missed, evicted>>
  /\ Observe

\* Mutant: the fetch is awaited without a time limit.
TimeoutNever(x) == FALSE /\ UNCHANGED vars

\* withTimeout: the poll answers with the fallback, the fetch goes on.
Timeout(x) ==
  /\ task[x].pc = "wait"
  /\ task' = [task EXCEPT ![x] = Idle]
  /\ UNCHANGED <<clock, db, changes, redis, memory, missed, evicted>>
  /\ Observe

----------------------------------------------------------------------------
(* The environment *)

Tick ==
  /\ clock < MaxClock
  /\ clock' = clock + 1
  /\ UNCHANGED <<db, changes, redis, memory, task, missed, evicted>>
  /\ Observe

\* The cache is full, and the entry of another pod takes the place of this one.
Evict ==
  /\ memory # EmptyMemory
  /\ memory' = EmptyMemory
  /\ evicted' = TRUE
  /\ UNCHANGED <<clock, db, changes, redis, task, missed>>
  /\ Observe

\* The process restarts; the control events that a tick reads after Redis answered
\* it (buildPodSocketState) may have failed, too.
Restart ==
  /\ ProcessEnds
  /\ UNCHANGED <<clock, db, changes, redis, evicted>>
  /\ Observe

Step(x) ==
  \/ Book(x) \/ Unlock(x) \/ Delete(x) \/ AppendControl(x)
  \/ ViewState(x) \/ RefreshStamp(x) \/ RefreshSession(x) \/ RefreshControl(x)
  \/ RefreshPersist(x) \/ RefreshFail(x)
  \/ PollStart(x) \/ TickStart(x) \/ ReadRedis(x) \/ WriteBack(x) \/ Timeout(x)

Next == Tick \/ Evict \/ Restart \/ \E x \in Executions : Step(x)

Spec == Init /\ [][Next]_vars

\* Timers fire and Redis answers; the database need not.
Fairness ==
  \A x \in Own :
    WF_vars(Timeout(x)) /\ WF_vars(ReadRedis(x)) /\ WF_vars(WriteBack(x))

FairSpec == Spec /\ Fairness

----------------------------------------------------------------------------
\* The shape of every variable; and no SET is sent with an expiry of zero, which
\* Redis refuses, however late it comes.
TypeOK ==
  /\ clock \in Nat
  /\ db \in Content
  /\ changes \in Nat
  /\ redis \in [content: Content, expires: Nat] \cup {Nothing}
  /\ memory \in [data: View \cup {Nothing}, updatedAt: Nat,
                 inFlight: Executions \cup {Nothing}]
  /\ task \in [Executions -> Task]
  /\ \A x \in Executions :
       task[x].pc \in {"persist", "put"} => TTL(task[x].content, clock) > 0
  /\ overlapped \in BOOLEAN /\ missed \in BOOLEAN /\ evicted \in BOOLEAN

\* What a refresh that reads the clock at `now` answers of the database as it is.
ShownAt(now) == IF VisibleAt(db.session, now)
                THEN FreshView(db.session, db.control, now) ELSE IdleView

Current == ShownAt(clock)

Alive == redis # Nothing /\ redis.expires > clock

\* No change is on its way to the copies of the state, and none was lost.
Quiet == Changing = {} /\ ~missed

\* What Redis answers is what the database says: a change reaches Redis, and the
\* countdowns of an old entry are those a refresh would compute; unless a change
\* overlapped the update of a copy.
RedisFollowsChanges ==
  Quiet /\ ~overlapped /\ Alive => Materialize(redis.content, clock) = Current

\* The same with no exception once everybody is done: "Polling derives current
\* state from latest logs" (ARCHITECTURE.md, session lifecycle).
LatestServed ==
  Quiet /\ Carrying = {} /\ Alive => Materialize(redis.content, clock) = Current

\* An answer kept since `updatedAt` shows the database as it is, with the countdowns
\* of a moment that was past by then.
Follows(data, updatedAt) == \E now \in 0..updatedAt : data = ShownAt(now)

\* The memory of the process that served a change never answers with the state
\* before it, fresh or stale: what pollingCache returns as it was stored is what a
\* refresh of the present session would have answered before it was cached.  Only its
\* countdowns are old; with a change they are those of the new session.
MemoryFollowsChanges ==
  Quiet /\ ~overlapped /\ memory.data # Nothing => Follows(memory.data, memory.updatedAt)

Fetching == {x \in Executions : x[2] = "fetch" /\ task[x] # Idle}

\* However many polls miss, one fetch of the pod is under way at a time, as long as
\* the pod keeps its entry in the cache.
SingleFlight == ~evicted => Cardinality(Fetching) <= 1

\* Nobody joins or waits for a fetch that is over: the entry forgets a fetch when it
\* settles, in whatever order fetches, timeouts and evictions come.
FetchesSettle ==
  /\ memory.inFlight # Nothing => memory.inFlight \in Fetching
  /\ \A x \in Executions : task[x].pc = "wait" => task[x].on \in Fetching

----------------------------------------------------------------------------
Polling(x) ==
  \/ task[x].pc = "wait"
  \/ task[x].pc \in {"get", "put"} /\ task[x].kind = "poll"

\* Every poll is answered or dies with its process, even if the database never
\* answers the fetch (POLLING_RESPONSE_TIMEOUT_MS).
PollsAnswered == \A x \in Own : Polling(x) ~> ~Polling(x)

=============================================================================
