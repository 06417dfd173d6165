------------------------- MODULE PollingStateProofs -------------------------
(***************************************************************************)
(* Proofs about PollingState, for any tasks, session lengths, delays, ages *)
(* and bounds.                                                             *)
(***************************************************************************)
EXTENDS PollingState, FiniteSetTheorems, TLAPS

USE PollingAssumption

----------------------------------------------------------------------------
(* Countdowns *)

\* A duration in seconds is one in ticks.
LEMMA InTicks == ASSUME NEW n \in Nat PROVE n * Second \in Nat
  OBVIOUS

\* Countdowns are natural numbers.
LEMMA SecondsUntilType ==
  ASSUME NEW target \in Int, NEW now \in Nat
  PROVE  SecondsUntil(target, now) \in Nat
<1>1. (target - now + Second - 1) \div Second \in Int
  OBVIOUS
<1>. QED BY <1>1 DEF SecondsUntil, Greatest

\* The time to live is never zero, however late the state is stored.
LEMMA TTLPositive ==
  ASSUME NEW c \in Content, NEW now \in Nat
  PROVE  TTL(c, now) \in Nat /\ TTL(c, now) > 0
<1>1. CASE c.session = NoSession
  BY <1>1 DEF TTL
<1>2. CASE c.session # NoSession
  <2>1. c.session.endAt \in Int
    BY <1>2 DEF Content, Session
  <2>2. (Delay + Grace) * Second \in Nat
    BY InTicks
  <2>3. c.session.endAt + (Delay + Grace) * Second \in Int
    BY <2>1, <2>2
  <2>4. SecondsUntil(c.session.endAt + (Delay + Grace) * Second, now) \in Nat
    BY <2>3, SecondsUntilType
  <2>. QED BY <1>2, <2>4 DEF TTL, Greatest
<1>. QED BY <1>1, <1>2

\* What a write leaves in Redis.
LEMMA StoredType ==
  ASSUME NEW c \in Content, clock \in Nat
  PROVE  Stored(c) \in [content: Content, expires: Nat] /\ Stored(c).content = c
<1>1. TTL(c, clock) * Second \in Nat
  BY TTLPositive, InTicks
<1>. QED BY <1>1 DEF Stored

\* What a refresh answers is an answer.
LEMMA FreshViewType ==
  ASSUME NEW s \in Session, NEW n \in Nat, NEW now \in Nat
  PROVE  FreshView(s, n, now) \in View
<1>1. s.id \in Nat /\ s.startAt \in Int /\ s.endAt \in Int
  BY DEF Session
<1>2. Delay * Second \in Nat
  BY InTicks
<1>3. SecondsUntil(s.startAt, now) \in Nat /\ SecondsUntil(s.endAt, now) \in Nat
  BY <1>1, SecondsUntilType
<1>4. SecondsUntil(s.endAt + Delay * Second, now) \in Nat
  <2>1. s.endAt + Delay * Second \in Int
    BY <1>1, <1>2
  <2>. QED BY <2>1, SecondsUntilType
<1>5. SecondsUntil(s.endAt, s.startAt) \in Nat
  <2>1. (s.endAt - s.startAt + Second - 1) \div Second \in Int
    BY <1>1
  <2>. QED BY <2>1 DEF SecondsUntil, Greatest
<1>6. EndingDelay(s.endAt, now) \in Nat
  BY <1>4 DEF EndingDelay, Least
<1>7. Least(Intro, SecondsUntil(s.startAt, now)) \in Nat
  BY <1>3 DEF Least
<1>. HIDE DEF SecondsUntil, EndingDelay, Least
<1>. QED BY <1>1, <1>3, <1>5, <1>6, <1>7 DEF FreshView, View

\* So is what is answered without a session.
LEMMA IdleViewType == IdleView \in View
  BY DEF IdleView, View

\* The state a refresh stored is shown, as long as a refresh would show its
\* session, with what that refresh would show (materializePollingState against
\* the tail of refreshPollingDataForPod).
LEMMA MaterializeIsFresh ==
  ASSUME NEW s \in Session, NEW n \in Nat, NEW now \in Nat, VisibleAt(s, now)
  PROVE  Materialize([session |-> s, control |-> n], now) = FreshView(s, n, now)
<1>1. s # NoSession /\ s.startAt \in Int /\ s.endAt \in Int
  BY DEF Session
<1>2. Delay * Second \in Nat
  BY InTicks
<1>3. ~(now >= s.endAt + Delay * Second)
  BY <1>1, <1>2 DEF VisibleAt
<1>4. SecondsUntil(s.startAt, now) \in Nat
  BY <1>1, SecondsUntilType
<1>5. SecondsUntil(s.startAt, now) = 0 => Least(Intro, SecondsUntil(s.startAt, now)) = 0
  BY DEF Least
<1>6. s.endAt + Delay * Second \in Int
  BY <1>1, <1>2
<1>7. EndingDelay(s.endAt, now) \in Nat
  BY <1>1, <1>6, SecondsUntilType DEF EndingDelay, Least
<1>. HIDE DEF SecondsUntil, EndingDelay, Least
<1>. QED BY <1>1, <1>3, <1>4, <1>5, <1>7 DEF Materialize, FreshView

\* A state whose session is over is shown as idle.
LEMMA MaterializeIsIdle ==
  ASSUME NEW c \in Content, NEW now \in Nat, ~VisibleAt(c.session, now)
  PROVE  Materialize(c, now) = IdleView
<1>1. CASE c.session = NoSession
  BY <1>1 DEF Materialize
<1>2. CASE c.session # NoSession
  <2>1. c.session.endAt \in Int
    BY <1>2 DEF Content, Session
  <2>2. Delay * Second \in Nat
    BY InTicks
  <2>3. now >= c.session.endAt + Delay * Second
    BY <1>2, <2>1, <2>2 DEF VisibleAt
  <2>. QED BY <1>2, <2>3 DEF Materialize
<1>. QED BY <1>1, <1>2

\* What a state that was read is shown as is an answer.
LEMMA MaterializeType ==
  ASSUME NEW c \in Content, NEW now \in Nat
  PROVE  Materialize(c, now) \in View
<1>1. CASE ~VisibleAt(c.session, now)
  BY <1>1, MaterializeIsIdle, IdleViewType
<1>2. CASE VisibleAt(c.session, now)
  <2>1. c.session \in Session /\ c.control \in Nat
        /\ c = [session |-> c.session, control |-> c.control]
    BY <1>2 DEF VisibleAt, Content
  <2>2. PICK s \in Session : s = c.session
    BY <2>1
  <2>3. PICK n \in Nat : n = c.control
    BY <2>1
  <2>4. c = [session |-> s, control |-> n] /\ VisibleAt(s, now)
    BY <1>2, <2>1, <2>2, <2>3
  <2>. QED BY <2>4, MaterializeIsFresh, FreshViewType
<1>. QED BY <1>1, <1>2

----------------------------------------------------------------------------
(* Types *)

\* What an execution can be doing.
LEMMA TaskRecords ==
  ASSUME NEW k \in Callers, NEW kind \in Readers, NEW b \in BOOLEAN, NEW now \in Nat,
         NEW s \in Session, NEW c \in Content, NEW d \in View, NEW x \in Executions
  PROVE  /\ Idle \in Task
         /\ [pc |-> "read", by |-> k] \in Task
         /\ [pc |-> "session", by |-> k, now |-> now] \in Task
         /\ [pc |-> "control", by |-> k, now |-> now, session |-> s] \in Task
         /\ [pc |-> "persist", by |-> k, content |-> c, data |-> d] \in Task
         /\ [pc |-> "get", kind |-> kind, busy |-> b] \in Task
         /\ [pc |-> "put", kind |-> kind, busy |-> b, content |-> c, data |-> d] \in Task
         /\ [pc |-> "wait", on |-> x] \in Task
  BY DEF Task, Idle

\* What it carries at each await.
LEMMA TaskFields ==
  ASSUME task \in [Executions -> Task], NEW x \in Executions
  PROVE  /\ task[x].pc \in {"read", "session", "control", "persist"} => task[x].by \in Callers
         /\ task[x].pc \in {"session", "control"} => task[x].now \in Nat
         /\ task[x].pc = "control" => task[x].session \in Session
         /\ task[x].pc \in {"persist", "put"} =>
              task[x].content \in Content /\ task[x].data \in View
         /\ task[x].pc \in {"get", "put"} =>
              task[x].kind \in Readers /\ task[x].busy \in BOOLEAN
         /\ task[x].pc = "wait" => task[x].on \in Executions
         /\ task[x].pc = "idle" => task[x] = Idle
  BY DEF Task, Idle

\* A fetch and the task that starts it.
LEMMA FetchOfType == ASSUME NEW x \in Executions PROVE FetchOf(x) \in Executions
  BY DEF Executions, FetchOf

\* An execution that ends leaves the others as they were, or answered.
LEMMA FinishedType ==
  ASSUME task \in [Executions -> Task], NEW x \in Executions
  PROVE  /\ Finished(x) \in [Executions -> Task]
         /\ \A y \in Executions : Finished(x)[y] \in {Idle, task[y]}
         /\ Finished(x)[x] = Idle
  BY DEF Finished, Idle, Task

Memory == [data: View \cup {Nothing}, updatedAt: Nat, inFlight: Executions \cup {Nothing}]

\* What the updates of the entry of the cache leave.
LEMMA MemoryType ==
  ASSUME NEW entry \in Memory, memory \in Memory, clock \in Nat,
         NEW d \in View, NEW x \in Executions
  PROVE  /\ Cached(d) \in Memory
         /\ Settled(entry, x) \in Memory
         /\ EmptyMemory \in Memory
         /\ [memory EXCEPT !.inFlight = x] \in Memory
  BY DEF Memory, Cached, Settled, EmptyMemory

\* Without what StoredType says and what history says.
Types ==
  /\ clock \in Nat
  /\ db \in Content
  /\ changes \in Nat
  /\ redis \in [content: Content, expires: Nat] \cup {Nothing}
  /\ memory \in Memory
  /\ task \in [Executions -> Task]

\* A commit of a booking or a delete, or of a control event, keeps the types.
LEMMA ChangeType ==
  ASSUME Types, NEW x \in Executions, NEW s \in Session \cup {NoSession}, NEW n \in Nat,
         Change(x, s, n)
  PROVE  Types'
<1>1. [pc |-> "read", by |-> "change"] \in Task
  BY DEF Task, Callers
<1>2. [session |-> s, control |-> n] \in Content
  BY DEF Content
<1>. QED BY <1>1, <1>2 DEF Types, Change

\* A read that found neither copy keeps the types: it joins the fetch, starts one
\* (startPollingFetch) or refreshes by itself.
LEMMA MissType ==
  ASSUME Types, NEW x \in Executions, NEW kind \in Readers, NEW b \in BOOLEAN,
         Miss(x, kind, b)
  PROVE  memory' \in Memory /\ task' \in [Executions -> Task]
<1>. USE DEF Types
<1>1. /\ Idle \in Task
      /\ \A k \in Callers : [pc |-> "read", by |-> k] \in Task
      /\ \A y \in Executions : [pc |-> "wait", on |-> y] \in Task
  BY DEF Task, Idle
<1>2. "tick" \in Callers /\ "other" \in Callers
  BY DEF Callers
<1>3. FetchOf(x) \in Executions
  BY FetchOfType
<1>4. memory.inFlight \in Executions \cup {Nothing}
  BY DEF Memory
<1>5. [memory EXCEPT !.inFlight = FetchOf(x)] \in Memory
  BY <1>3 DEF Memory
<1>. QED BY <1>1, <1>2, <1>3, <1>4, <1>5 DEF Miss

\* Every step keeps the types.
LEMMA NextTypes ==
  ASSUME Types, [Next]_vars
  PROVE  Types'
<1>. USE DEF Types
<1>1. ASSUME NEW x \in Executions, Book(x) PROVE Types'
  <2>1. PICK n \in Lengths :
          Change(x, [id |-> changes + 1, startAt |-> clock + Intro * Second,
                     endAt |-> clock + Intro * Second + n], changes + 1)
    BY <1>1 DEF Book
  <2>2. Intro * Second \in Nat /\ n \in Nat
    BY InTicks
  <2>3. [id |-> changes + 1, startAt |-> clock + Intro * Second,
         endAt |-> clock + Intro * Second + n] \in Session
    BY <2>2 DEF Session
  <2>. QED BY <2>1, <2>3, ChangeType
<1>2. ASSUME NEW x \in Executions, Unlock(x) PROVE Types'
  <2>1. db.session \in Session /\ db.control \in Nat
    BY <1>2 DEF Unlock, Content
  <2>2. [db.session EXCEPT !.endAt = clock] \in Session
    BY <2>1 DEF Session
  <2>. QED BY <1>2, <2>1, <2>2, ChangeType DEF Unlock
<1>3. ASSUME NEW x \in Executions, Delete(x) PROVE Types'
  BY <1>3, ChangeType DEF Delete
<1>4. ASSUME NEW x \in Executions, AppendControl(x) PROVE Types'
  <2>1. db.session \in Session
    BY <1>4 DEF AppendControl, Content
  <2>. QED BY <1>4, <2>1, ChangeType DEF AppendControl
<1>5. ASSUME NEW x \in Executions, ViewState(x) PROVE Types'
  <2>1. [pc |-> "read", by |-> "other"] \in Task
    BY DEF Task, Callers
  <2>. QED BY <1>5, <2>1 DEF ViewState
<1>6. ASSUME NEW x \in Executions, RefreshStamp(x) PROVE Types'
  <2>1. [pc |-> "session", by |-> task[x].by, now |-> clock] \in Task
    BY <1>6, TaskFields DEF RefreshStamp, Task
  <2>. QED BY <1>6, <2>1 DEF RefreshStamp
<1>7. ASSUME NEW x \in Executions, RefreshSession(x) PROVE Types'
  <2>1. task[x].by \in Callers
    BY <1>7, TaskFields DEF RefreshSession
  <2>2. [pc |-> "persist", by |-> task[x].by, content |-> NoContent, data |-> IdleView]
          \in Task
    BY <2>1, IdleViewType DEF Task, NoContent, Content
  <2>3. VisibleAt(db.session, task[x].now) => db.session \in Session
    BY DEF VisibleAt, Content
  <2>4. VisibleAt(db.session, task[x].now) =>
          [pc |-> "control", by |-> task[x].by, now |-> task[x].now,
           session |-> db.session] \in Task
    BY <1>7, <2>1, <2>3, TaskFields DEF Task, RefreshSession
  <2>. QED BY <1>7, <2>2, <2>4 DEF RefreshSession
<1>8. ASSUME NEW x \in Executions, RefreshControl(x) PROVE Types'
  <2>1. /\ task[x].by \in Callers /\ task[x].session \in Session
        /\ task[x].now \in Nat
    BY <1>8, TaskFields DEF RefreshControl
  <2>2. \A n \in 0..changes :
          [pc |-> "persist", by |-> task[x].by,
           content |-> [session |-> task[x].session, control |-> n],
           data |-> FreshView(task[x].session, n, task[x].now)] \in Task
    BY <2>1, FreshViewType DEF Task, Content
  <2>. QED BY <1>8, <2>2 DEF RefreshControl
<1>9. ASSUME NEW x \in Executions, RefreshPersist(x) PROVE Types'
  <2>1. task[x].content \in Content /\ task[x].data \in View
    BY <1>9, TaskFields DEF RefreshPersist
  <2>2. Cached(task[x].data) \in Memory
    BY <2>1, MemoryType
  <2>3. Settled(Cached(task[x].data), x) \in Memory
    BY <2>1, <2>2, MemoryType
  <2>. QED BY <1>9, <2>1, <2>3, StoredType, FinishedType DEF RefreshPersist
<1>10. ASSUME NEW x \in Executions, RefreshFail(x) PROVE Types'
  <2>1. EmptyMemory \in Memory /\ Idle \in Task
    BY DEF EmptyMemory, Memory, Idle, Task
  <2>2. Settled(memory, x) \in Memory
    BY DEF Settled, Memory
  <2>. QED BY <1>10, <2>1, <2>2, FinishedType DEF RefreshFail, ProcessEnds
<1>11. ASSUME NEW x \in Executions, PollStart(x) PROVE Types'
  <2>1. \A b \in BOOLEAN : [pc |-> "get", kind |-> "poll", busy |-> b] \in Task
    BY DEF Task, Readers
  <2>. QED BY <1>11, <2>1 DEF PollStart
<1>12. ASSUME NEW x \in Executions, TickStart(x) PROVE Types'
  <2>1. [pc |-> "get", kind |-> "tick", busy |-> FALSE] \in Task
    BY DEF Task, Readers
  <2>. QED BY <1>12, <2>1 DEF TickStart
<1>13. ASSUME NEW x \in Executions, ReadRedis(x) PROVE Types'
  <2>1. task[x].kind \in Readers /\ task[x].busy \in BOOLEAN
    BY <1>13, TaskFields DEF ReadRedis
  <2>2. redis # Nothing =>
          [pc |-> "put", kind |-> task[x].kind, busy |-> task[x].busy,
           content |-> redis.content, data |-> Materialize(redis.content, clock)] \in Task
    BY <2>1, MaterializeType DEF Task
  <2>. QED BY <1>13, <2>1, <2>2, MissType DEF ReadRedis
<1>14. ASSUME NEW x \in Executions, WriteBack(x) PROVE Types'
  <2>1. /\ task[x].kind \in Readers /\ task[x].busy \in BOOLEAN
        /\ task[x].content \in Content /\ task[x].data \in View
    BY <1>14, TaskFields DEF WriteBack
  <2>2. Cached(task[x].data) \in Memory /\ Idle \in Task
    BY <2>1, MemoryType DEF Task, Idle
  <2>. QED BY <1>14, <2>1, <2>2, StoredType, MissType DEF WriteBack
<1>15. ASSUME NEW x \in Executions, Timeout(x) PROVE Types'
  <2>1. Idle \in Task
    BY DEF Task, Idle
  <2>. QED BY <1>15, <2>1 DEF Timeout
<1>16. CASE Tick
  BY <1>16 DEF Tick
<1>17. CASE Evict \/ Restart
  <2>1. EmptyMemory \in Memory /\ Idle \in Task
    BY DEF EmptyMemory, Memory, Idle, Task
  <2>. QED BY <1>17, <2>1 DEF Evict, Restart, ProcessEnds
<1>18. CASE UNCHANGED vars
  BY <1>18 DEF vars
<1>. QED BY <1>1, <1>2, <1>3, <1>4, <1>5, <1>6, <1>7, <1>8, <1>9, <1>10, <1>11, <1>12,
            <1>13, <1>14, <1>15, <1>16, <1>17, <1>18 DEF Next, Step

\* History has its type, and remembers.
History ==
  /\ overlapped \in BOOLEAN /\ missed \in BOOLEAN /\ evicted \in BOOLEAN
  /\ Overlap => overlapped

\* Every step keeps History, and forgets nothing.
LEMMA NextHistory ==
  ASSUME History, [Next]_vars
  PROVE  /\ History'
         /\ overlapped => overlapped'
         /\ missed => missed'
         /\ evicted => evicted'
<1>1. CASE UNCHANGED vars
  <2>1. Overlap' = Overlap
    BY <1>1 DEF vars, Overlap, Changing, Carrying
  <2>. QED BY <1>1, <2>1 DEF vars, History
<1>2. CASE Next
  <2>. USE DEF Change, Book, Unlock, Delete, AppendControl, ViewState,
               RefreshStamp, RefreshSession, RefreshControl, RefreshPersist, RefreshFail,
               PollStart, TickStart, ReadRedis, WriteBack, Timeout, Tick, Evict, Restart,
               ProcessEnds, History
  <2>1. Observe
    BY <1>2 DEF Next, Step
  <2>2. (missed => missed') /\ missed' \in BOOLEAN
    BY <1>2 DEF Next, Step
  <2>3. (evicted => evicted') /\ evicted' \in BOOLEAN
    BY <1>2 DEF Next, Step
  <2>. QED BY <2>1, <2>2, <2>3 DEF Observe, History
<1>. QED BY <1>1, <1>2

\* The invariant that the others rest on: every variable keeps its type, and an
\* overlap of refreshes (state.ts) is never forgotten.
THEOREM PollingTypes == Spec => [](Types /\ History)
<1>1. Init => Types /\ History
  <2>1. Idle \in Task
    BY DEF Task, Idle
  <2>2. Init => ~Overlap
    BY DEF Init, Overlap, Changing, Idle
  <2>3. NoContent \in Content /\ EmptyMemory \in Memory
    BY DEF NoContent, Content, EmptyMemory, Memory
  <2>4. Init => Types
    BY <2>1, <2>3 DEF Init, Types
  <2>5. Init => History
    BY <2>2 DEF Init, History
  <2>. QED BY <2>4, <2>5
<1>2. Types /\ History /\ [Next]_vars => (Types /\ History)'
  BY NextTypes, NextHistory
<1>. QED BY <1>1, <1>2, PTL DEF Spec

\* Every variable keeps its type, and no write is ever sent to Redis with an expiry
\* of zero, however late it comes (getPollingStateTtlSeconds).
THEOREM PollingTypeCorrect == Spec => []TypeOK
<1>1. Types /\ History => TypeOK
  <2>1. ASSUME Types, NEW x \in Executions, task[x].pc \in {"persist", "put"}
        PROVE  TTL(task[x].content, clock) > 0
    BY <2>1, TaskFields, TTLPositive DEF Types
  <2>. QED BY <2>1 DEF Types, History, TypeOK, Memory
<1>. QED BY <1>1, PollingTypes, PTL

----------------------------------------------------------------------------
(* Fetches *)

Refreshing == {"read", "session", "control", "persist"}

\* FetchesSettle, and why: a fetch only refreshes; a poll that is still reading has
\* started none; the entry knows the fetch that runs unless it was evicted.
FetchInv ==
  /\ FetchesSettle
  /\ \A x \in Fetching : task[x].pc \in Refreshing
  /\ \A x \in Executions : task[x].pc \in {"get", "put"} => task[FetchOf(x)] = Idle
  /\ ~evicted => \A x \in Fetching : memory.inFlight = x

\* An execution that goes on, without starting or ending a fetch, keeps FetchInv.
LEMMA FetchesUntouched ==
  ASSUME Types, FetchInv, NEW x \in Executions, NEW t \in Task,
         task' = [task EXCEPT ![x] = t],
         memory'.inFlight = memory.inFlight, evicted' = evicted,
         x[2] = "fetch" => x \in Fetching /\ t.pc \in Refreshing,
         t.pc = "wait" => t.on \in Fetching,
         t.pc \in {"get", "put"} => task[FetchOf(x)] = Idle
  PROVE  FetchInv'
<1>1. \A y \in Executions : task'[y] = IF y = x THEN t ELSE task[y]
  BY DEF Types
<1>2. t.pc \in Refreshing => t # Idle
  BY DEF Idle, Refreshing
<1>3. Fetching' = Fetching
  BY <1>1, <1>2 DEF Fetching
<1>4. FetchesSettle'
  BY <1>1, <1>3 DEF FetchInv, FetchesSettle
<1>5. \A y \in Fetching : task'[y].pc \in Refreshing
  BY <1>1 DEF FetchInv, Fetching
<1>6. ASSUME NEW y \in Executions, task'[y].pc \in {"get", "put"}
      PROVE  task'[FetchOf(y)] = Idle
  <2>1. task[FetchOf(y)] = Idle
    BY <1>1, <1>6 DEF FetchInv
  <2>2. FetchOf(y) \in Executions /\ FetchOf(y)[2] = "fetch"
    BY DEF FetchOf, Executions
  <2>3. FetchOf(y) # x
    BY <2>1, <2>2 DEF Fetching
  <2>. QED BY <1>1, <2>1, <2>2, <2>3
<1>. QED BY <1>3, <1>4, <1>5, <1>6 DEF FetchInv

\* A refresh that ends, of a fetch or not, leaves nobody waiting for it.
LEMMA FetchEnds ==
  ASSUME Types, FetchInv, NEW x \in Executions, NEW entry \in Memory,
         entry.inFlight = memory.inFlight,
         task' = Finished(x), memory' = Settled(entry, x), evicted' = evicted
  PROVE  FetchInv'
<1>1. \A y \in Executions :
        /\ task'[y] \in {Idle, task[y]}
        /\ task'[y] = Idle \/ y # x
        /\ task'[y].pc = "wait" => task'[y] = task[y] /\ task[y].on # x
        /\ task[y].pc \in Refreshing /\ y # x => task'[y] = task[y]
  BY DEF Finished, Idle, Refreshing
<1>2. Fetching' = Fetching \ {x}
  BY <1>1 DEF Fetching, FetchInv
<1>3. memory'.inFlight = IF memory.inFlight = x THEN Nothing ELSE memory.inFlight
  BY DEF Settled, Memory
<1>4. FetchesSettle'
  BY <1>1, <1>2, <1>3 DEF FetchInv, FetchesSettle
<1>5. \A y \in Fetching' : task'[y].pc \in Refreshing
  <2>1. ASSUME NEW y \in Fetching' PROVE task'[y] = task[y] /\ y \in Fetching
    BY <1>1, <1>2, <2>1 DEF Fetching
  <2>. QED BY <2>1 DEF FetchInv
<1>6. ASSUME NEW y \in Executions, task'[y].pc \in {"get", "put"}
      PROVE  task'[FetchOf(y)] = Idle
  <2>1. task'[y] = task[y]
    BY <1>1, <1>6 DEF Idle
  <2>. QED BY <1>1, <1>6, <2>1, FetchOfType DEF FetchInv
<1>7. ~evicted => \A y \in Fetching' : memory'.inFlight = y
  BY <1>2, <1>3 DEF FetchInv
<1>. QED BY <1>4, <1>5, <1>6, <1>7 DEF FetchInv

\* The process ends with all its fetches.
LEMMA FetchesDie ==
  ASSUME FetchInv, ProcessEnds
  PROVE  FetchInv'
<1>1. \A x \in Executions : task'[x] = Idle
  BY DEF ProcessEnds
<1>2. Fetching' = {} /\ memory'.inFlight = Nothing
  BY <1>1 DEF Fetching, ProcessEnds, EmptyMemory
<1>3. \A x \in Executions : task'[x].pc = "idle"
  BY <1>1 DEF Idle
<1>. QED BY <1>2, <1>3 DEF FetchInv, FetchesSettle

\* A poll that misses joins the fetch under way, or starts the only one.
LEMMA FetchMiss ==
  ASSUME Types, FetchInv, NEW x \in Executions, NEW kind \in Readers, NEW b \in BOOLEAN,
         task[x].pc \in {"get", "put"}, Miss(x, kind, b), evicted' = evicted
  PROVE  FetchInv'
<1>1. x[2] # "fetch"
  BY DEF FetchInv, Fetching, Refreshing, Idle
<1>2. memory.inFlight \in Fetching \cup {Nothing}
  BY DEF FetchInv, FetchesSettle
<1>3. memory.inFlight \in Executions \cup {Nothing}
  BY DEF Types, Memory
<1>4. CASE kind = "tick"
  <2>1. [pc |-> "read", by |-> "tick"] \in Task
    BY DEF Task, Callers
  <2>. QED BY <1>1, <1>4, <2>1, FetchesUntouched DEF Miss
<1>5. CASE kind = "poll" /\ b
  <2>1. Idle \in Task
    BY DEF Task, Idle
  <2>. QED BY <1>1, <1>5, <2>1, FetchesUntouched DEF Miss, Idle
<1>6. CASE kind = "poll" /\ ~b /\ memory.inFlight # Nothing
  <2>1. [pc |-> "wait", on |-> memory.inFlight] \in Task
    BY <1>3, <1>6 DEF Task
  <2>. QED BY <1>1, <1>2, <1>6, <2>1, FetchesUntouched DEF Miss
<1>7. CASE kind = "poll" /\ ~b /\ memory.inFlight = Nothing
  <2>. DEFINE f == FetchOf(x)
  <2>1. f \in Executions /\ f # x /\ f[2] = "fetch" /\ task[f] = Idle
    BY <1>1, FetchOfType DEF FetchOf, FetchInv
  <2>2. \A y \in Executions :
          task'[y] = IF y = f THEN [pc |-> "read", by |-> "other"]
                     ELSE IF y = x THEN [pc |-> "wait", on |-> f] ELSE task[y]
    BY <1>7, <2>1 DEF Miss, Types
  <2>3. memory'.inFlight = f
    BY <1>7 DEF Miss, Types, Memory
  <2>4. Fetching' = Fetching \cup {f}
    BY <1>1, <2>1, <2>2 DEF Fetching, Idle
  <2>5. FetchesSettle'
    BY <2>1, <2>2, <2>3, <2>4 DEF FetchesSettle, FetchInv
  <2>6. \A y \in Fetching' : task'[y].pc \in Refreshing
    BY <1>1, <2>2, <2>4 DEF FetchInv, Refreshing, Fetching
  <2>7. ASSUME NEW y \in Executions, task'[y].pc \in {"get", "put"}
        PROVE  task'[FetchOf(y)] = Idle
    <3>1. y # x /\ y # f /\ task'[y] = task[y]
      BY <2>2, <2>7
    <3>2. y[2] = "own"
      BY <2>7, <3>1 DEF FetchInv, Fetching, Refreshing, Idle, Executions
    <3>3. FetchOf(y) # f /\ FetchOf(y) # x
      BY <1>1, <3>1, <3>2 DEF FetchOf, Executions
    <3>. QED BY <2>2, <2>7, <3>1, <3>3, FetchOfType DEF FetchInv
  <2>8. ~evicted => Fetching = {}
    BY <1>7 DEF FetchInv, Fetching
  <2>. QED BY <2>3, <2>4, <2>5, <2>6, <2>7, <2>8 DEF FetchInv
<1>. QED BY <1>4, <1>5, <1>6, <1>7 DEF Readers

\* Every step keeps FetchInv.
LEMMA NextFetchInv ==
  ASSUME Types, FetchInv, [Next]_vars
  PROVE  FetchInv'
<1>1. ASSUME NEW x \in Executions,
             ViewState(x) \/ \E s, n : Change(x, s, n)
      PROVE  FetchInv'
  <2>1. x[2] = "own"
    BY <1>1 DEF ViewState, Change, Free
  <2>2. \A k \in Callers : [pc |-> "read", by |-> k] \in Task
    BY DEF Task
  <2>. QED BY <1>1, <2>1, <2>2, FetchesUntouched DEF ViewState, Change, Callers
<1>2. ASSUME NEW x \in Executions,
             Book(x) \/ Unlock(x) \/ Delete(x) \/ AppendControl(x)
      PROVE  FetchInv'
  BY <1>1, <1>2 DEF Book, Unlock, Delete, AppendControl
<1>3. ASSUME NEW x \in Executions,
             RefreshStamp(x) \/ RefreshSession(x) \/ RefreshControl(x)
      PROVE  FetchInv'
  <2>1. task' \in [Executions -> Task]
    BY <1>3, NextTypes DEF Types, Next, Step
  <2>2. /\ task' = [task EXCEPT ![x] = task'[x]] /\ task'[x] \in Task
        /\ task[x].pc \in Refreshing /\ task'[x].pc \in Refreshing
        /\ memory' = memory /\ evicted' = evicted
    BY <1>3, <2>1 DEF Types, RefreshStamp, RefreshSession, RefreshControl, Refreshing
  <2>3. task[x] # Idle
    BY <2>2 DEF Idle, Refreshing
  <2>. QED BY <2>2, <2>3, FetchesUntouched DEF Refreshing, Fetching
<1>4. ASSUME NEW x \in Executions, RefreshPersist(x)
      PROVE  FetchInv'
  <2>1. task[x].data \in View
    BY <1>4, TaskFields DEF RefreshPersist, Types
  <2>2. Cached(task[x].data) \in Memory
    BY <2>1, MemoryType DEF Types
  <2>3. Cached(task[x].data).inFlight = memory.inFlight
    BY DEF Cached, Types, Memory
  <2>. QED BY <1>4, <2>2, <2>3, FetchEnds DEF RefreshPersist
<1>5. ASSUME NEW x \in Executions, RefreshFail(x)
      PROVE  FetchInv'
  BY <1>5, FetchEnds, FetchesDie DEF RefreshFail, Types
<1>6. ASSUME NEW x \in Executions, PollStart(x) \/ TickStart(x)
      PROVE  FetchInv'
  <2>1. \A kind \in Readers, b \in BOOLEAN : [pc |-> "get", kind |-> kind, busy |-> b] \in Task
    BY DEF Task
  <2>2. x[2] = "own" /\ task[FetchOf(x)] = Idle
    BY <1>6 DEF PollStart, TickStart, Free
  <2>. QED BY <1>6, <2>1, <2>2, FetchesUntouched DEF PollStart, TickStart, Readers
<1>7. ASSUME NEW x \in Executions, ReadRedis(x) \/ WriteBack(x)
      PROVE  FetchInv'
  <2>1. /\ task[x].pc \in {"get", "put"} /\ evicted' = evicted
        /\ task[x].kind \in Readers /\ task[x].busy \in BOOLEAN
    BY <1>7, TaskFields DEF ReadRedis, WriteBack, Types
  <2>2. x[2] # "fetch" /\ task[FetchOf(x)] = Idle
    BY <2>1 DEF FetchInv, Fetching, Refreshing, Idle
  <2>3. CASE Miss(x, task[x].kind, task[x].busy)
    BY <2>1, <2>3, FetchMiss
  <2>4. CASE ~Miss(x, task[x].kind, task[x].busy)
    <3>1. task' \in [Executions -> Task]
      BY <1>7, NextTypes DEF Types, Next, Step
    <3>2. /\ task' = [task EXCEPT ![x] = task'[x]] /\ task'[x] \in Task
          /\ task'[x].pc \in {"put", "idle"}
          /\ memory'.inFlight = memory.inFlight
      <4>1. CASE ReadRedis(x)
        BY <2>4, <3>1, <4>1 DEF Types, ReadRedis
      <4>2. CASE WriteBack(x)
        <5>1. Cached(task[x].data).inFlight = memory.inFlight
          BY DEF Cached, Types, Memory
        <5>2. task' = [task EXCEPT ![x] = Idle] /\ memory'.inFlight = memory.inFlight
          BY <2>4, <4>2, <5>1 DEF WriteBack
        <5>. QED BY <3>1, <5>2 DEF Types, Idle
      <4>. QED BY <1>7, <4>1, <4>2
    <3>. QED BY <2>1, <2>2, <3>2, FetchesUntouched
  <2>. QED BY <2>3, <2>4
<1>8. ASSUME NEW x \in Executions, Timeout(x)
      PROVE  FetchInv'
  <2>1. Idle \in Task
    BY DEF Task, Idle
  <2>2. x[2] # "fetch"
    BY <1>8 DEF Timeout, FetchInv, Fetching, Refreshing, Idle
  <2>. QED BY <1>8, <2>1, <2>2, FetchesUntouched DEF Timeout, Idle
<1>9. CASE Restart
  BY <1>9, FetchesDie DEF Restart
<1>10. CASE Evict
  <2>1. memory'.inFlight = Nothing /\ task' = task /\ evicted'
    BY <1>10 DEF Evict, EmptyMemory
  <2>2. Fetching' = Fetching
    BY <2>1 DEF Fetching
  <2>. QED BY <2>1, <2>2 DEF FetchInv, FetchesSettle
<1>11. CASE Tick \/ UNCHANGED vars
  <2>1. memory' = memory /\ task' = task /\ evicted' = evicted
    BY <1>11 DEF Tick, vars
  <2>2. Fetching' = Fetching
    BY <2>1 DEF Fetching
  <2>. QED BY <2>1, <2>2 DEF FetchInv, FetchesSettle
<1>. QED BY <1>2, <1>1, <1>3, <1>4, <1>5, <1>6, <1>7, <1>8, <1>9, <1>10, <1>11 DEF Next, Step

\* A fetch (startPollingFetch) only ever refreshes, a poll that is still reading has
\* none under way, and the entry of the cache knows it unless it was evicted.
THEOREM FetchInvariant == Spec => [](Types /\ FetchInv)
<1>1. Init => FetchInv
  <2>1. Init => Fetching = {} /\ memory.inFlight = Nothing
    BY DEF Init, Fetching, EmptyMemory
  <2>2. Init => \A x \in Executions : task[x].pc = "idle"
    BY DEF Init, Idle
  <2>. QED BY <2>1, <2>2 DEF FetchInv, FetchesSettle
<1>2. Types /\ FetchInv /\ [Next]_vars => FetchInv'
  BY NextFetchInv
<1>. QED BY <1>1, <1>2, PollingTypes, PTL DEF Spec

\* Nobody waits for, or would join, a fetch that is over (the finally of
\* startPollingFetch).
THEOREM FetchesAlwaysSettle == Spec => []FetchesSettle
<1>1. FetchInv => FetchesSettle
  BY DEF FetchInv
<1>. QED BY <1>1, FetchInvariant, PTL

\* One fetch of the pod at a time, for any number of requests, as long as the pod
\* keeps its entry in the cache (the inFlight of pollingCache).
THEOREM OneFetchAtATime == Spec => []SingleFlight
<1>1. FetchInv => SingleFlight
  <2>1. ASSUME FetchInv, ~evicted PROVE Cardinality(Fetching) <= 1
    <3>1. CASE Fetching = {}
      BY <3>1, FS_EmptySet
    <3>2. CASE Fetching # {}
      <4>1. Fetching = {memory.inFlight}
        BY <2>1, <3>2 DEF FetchInv
      <4>2. Cardinality({memory.inFlight}) = 1
        BY FS_Singleton
      <4>. QED BY <4>1, <4>2
    <3>. QED BY <3>1, <3>2
  <2>. QED BY <2>1 DEF SingleFlight
<1>. QED BY <1>1, FetchInvariant, PTL

----------------------------------------------------------------------------
(* Copies of the state *)

\* c is what the database says, or says that nothing is visible when that is so.
UpToDate(c) == c = db \/ (c = NoContent /\ ~VisibleAt(db.session, clock))

\* What x carries, as far as it has it, and what it will answer.
CarriesCurrent(x) ==
  IF task[x].pc = "control"
  THEN task[x].session = db.session /\ VisibleAt(db.session, task[x].now)
  ELSE UpToDate(task[x].content) /\ Follows(task[x].data, clock)

\* As long as nothing overlapped and nothing was lost, executions carry what the
\* database says, and so do Redis and the memory once no change is on its way.
CopyInv ==
  ~overlapped /\ ~missed =>
    /\ \A x \in Carrying : CarriesCurrent(x)
    /\ Changing = {} =>
         /\ redis # Nothing => UpToDate(redis.content)
         /\ memory.data # Nothing => Follows(memory.data, memory.updatedAt)

\* Refreshes have read clocks of the past.
PastNow == \A x \in Executions :
             task[x].pc \in {"session", "control"} => task[x].now <= clock

\* Every step keeps PastNow, and time does not go back.
LEMMA NextPastNow ==
  ASSUME Types, PastNow, [Next]_vars
  PROVE  PastNow' /\ clock <= clock'
<1>1. clock <= clock' /\ clock' \in Nat
  BY NextTypes DEF Types, Next, Step, vars, Change, Book, Unlock, Delete, AppendControl,
     ViewState, RefreshStamp, RefreshSession, RefreshControl, RefreshPersist, RefreshFail,
     PollStart, TickStart, ReadRedis, WriteBack, Timeout, Tick, Evict, Restart
<1>2. ASSUME NEW y \in Executions, task'[y].pc \in {"session", "control"}
      PROVE  \/ task'[y] = task[y]
             \/ task'[y].now = clock
             \/ task[y].pc = "session" /\ task'[y].now = task[y].now
  <2>. USE DEF Types, Idle
  <2>1. ASSUME NEW x \in Executions, ViewState(x) \/ \E s, n : Change(x, s, n)
        PROVE  task'[y] = task[y]
    BY <1>2, <2>1 DEF ViewState, Change
  <2>2. ASSUME NEW x \in Executions, Book(x) \/ Unlock(x) \/ Delete(x) \/ AppendControl(x)
        PROVE  task'[y] = task[y]
    BY <2>1, <2>2 DEF Book, Unlock, Delete, AppendControl
  <2>3. ASSUME NEW x \in Executions, RefreshStamp(x)
        PROVE  task'[y] = task[y] \/ task'[y].now = clock
    BY <1>2, <2>3 DEF RefreshStamp
  <2>4. ASSUME NEW x \in Executions, RefreshSession(x) \/ RefreshControl(x)
        PROVE  \/ task'[y] = task[y]
               \/ task[y].pc = "session" /\ task'[y].now = task[y].now
    BY <1>2, <2>4 DEF RefreshSession, RefreshControl
  <2>5. ASSUME NEW x \in Executions, RefreshPersist(x) \/ RefreshFail(x)
        PROVE  task'[y] = task[y]
    BY <1>2, <2>5 DEF RefreshPersist, RefreshFail, Finished, ProcessEnds
  <2>6. ASSUME NEW x \in Executions, PollStart(x) \/ TickStart(x) \/ Timeout(x)
        PROVE  task'[y] = task[y]
    BY <1>2, <2>6 DEF PollStart, TickStart, Timeout
  <2>7. ASSUME NEW x \in Executions, ReadRedis(x) \/ WriteBack(x)
        PROVE  task'[y] = task[y]
    BY <1>2, <2>7, FetchOfType DEF ReadRedis, WriteBack, Miss
  <2>8. CASE Tick \/ Evict \/ UNCHANGED vars
    BY <2>8 DEF Tick, Evict, vars
  <2>9. CASE Restart
    BY <1>2, <2>9 DEF Restart, ProcessEnds
  <2>. QED BY <2>2, <2>1, <2>3, <2>4, <2>5, <2>6, <2>7, <2>8, <2>9 DEF Next, Step
<1>3. ASSUME NEW y \in Executions, task'[y].pc \in {"session", "control"}
      PROVE  task'[y].now <= clock'
  BY <1>1, <1>2, <1>3, TaskFields DEF PastNow, Types
<1>. QED BY <1>1, <1>3 DEF PastNow

\* A session that is not visible does not become visible by waiting.
LEMMA InvisibleStays ==
  ASSUME db \in Content, NEW t \in Nat, NEW u \in Nat, t <= u, ~VisibleAt(db.session, t)
  PROVE  ~VisibleAt(db.session, u)
<1>1. CASE db.session = NoSession
  BY <1>1 DEF VisibleAt
<1>2. CASE db.session # NoSession
  <2>1. db.session.endAt \in Int /\ Delay * Second \in Nat
    BY <1>2, InTicks DEF Content, Session
  <2>. QED BY <1>2, <2>1 DEF VisibleAt
<1>. QED BY <1>1, <1>2

\* What is up to date stays so while the database does not change.
LEMMA StaysUpToDate ==
  ASSUME Types, Types', db' = db, clock <= clock', NEW c, UpToDate(c)
  PROVE  UpToDate(c)'
<1>1. ~VisibleAt(db.session, clock) => ~VisibleAt(db.session, clock')
  BY InvisibleStays DEF Types
<1>. QED BY <1>1 DEF UpToDate

\* An up-to-date copy is shown as a refresh would show the pod now.
LEMMA UpToDateIsCurrent ==
  ASSUME Types, NEW c \in Content, UpToDate(c)
  PROVE  Materialize(c, clock) = Current
<1>1. CASE VisibleAt(db.session, clock)
  <2>1. c = db /\ db.session \in Session /\ db.control \in Nat /\ clock \in Nat
    BY <1>1 DEF UpToDate, VisibleAt, Types, Content
  <2>2. db = [session |-> db.session, control |-> db.control]
    BY DEF Types, Content
  <2>3. Materialize([session |-> db.session, control |-> db.control], clock)
          = FreshView(db.session, db.control, clock)
    BY <1>1, <2>1, MaterializeIsFresh
  <2>. QED BY <1>1, <2>1, <2>2, <2>3 DEF Current, ShownAt
<1>2. CASE ~VisibleAt(db.session, clock)
  <2>1. ~VisibleAt(c.session, clock) /\ clock \in Nat
    BY <1>2 DEF UpToDate, VisibleAt, NoContent, Types
  <2>. QED BY <1>2, <2>1, MaterializeIsIdle DEF Current, ShownAt
<1>. QED BY <1>1, <1>2

\* What is shown at a moment stays the same while the database does.
LEMMA StillShown ==
  ASSUME db' = db
  PROVE  \A now : ShownAt(now)' = ShownAt(now)
  BY DEF ShownAt, VisibleAt, FreshView

\* A step that does not change the database keeps CopyInv if what is new in Redis,
\* in the memory and in the hands of an execution was up to date before it.
LEMMA CopiesKept ==
  ASSUME Types, Types', CopyInv, db' = db, clock <= clock',
         overlapped => overlapped', missed => missed',
         ~overlapped' /\ ~missed' =>
           /\ \A x \in Carrying' :
                \/ x \in Carrying /\ task'[x] = task[x]
                \/ /\ task'[x].pc = "control" /\ task'[x].session = db.session
                   /\ VisibleAt(db.session, task'[x].now)
                \/ /\ task'[x].pc # "control" /\ UpToDate(task'[x].content)
                   /\ Follows(task'[x].data, clock)
           /\ Changing' = {} =>
                /\ redis' # Nothing =>
                     UpToDate(redis'.content) \/ (redis' = redis /\ Changing = {})
                /\ memory'.data # Nothing =>
                     \/ Follows(memory'.data, memory'.updatedAt)
                     \/ (memory' = memory /\ Changing = {})
  PROVE  CopyInv'
<1>. SUFFICES ASSUME ~overlapped', ~missed' PROVE CopyInv'
  BY DEF CopyInv
<1>1. /\ \A x \in Carrying : CarriesCurrent(x)
      /\ Changing = {} =>
           /\ redis # Nothing => UpToDate(redis.content)
           /\ memory.data # Nothing => Follows(memory.data, memory.updatedAt)
  BY DEF CopyInv
<1>2. \A c : UpToDate(c) => UpToDate(c)'
  BY StaysUpToDate
<1>3. \A t : ShownAt(t)' = ShownAt(t) /\ (VisibleAt(db.session, t) => VisibleAt(db.session, t)')
  BY StillShown DEF VisibleAt
<1>4. \A x \in Carrying' : CarriesCurrent(x)'
  <2>1. \A d : Follows(d, clock) => \E now \in 0..clock' : d = ShownAt(now)'
    BY <1>3 DEF Follows, Types
  <2>2. ASSUME NEW x \in Carrying', x \in Carrying, task'[x] = task[x] PROVE CarriesCurrent(x)'
    BY <1>1, <1>2, <1>3, <2>1, <2>2 DEF CarriesCurrent, Follows
  <2>3. ASSUME NEW x \in Carrying', task'[x].pc = "control",
               task'[x].session = db.session, VisibleAt(db.session, task'[x].now)
        PROVE  CarriesCurrent(x)'
    BY <1>3, <2>3 DEF CarriesCurrent
  <2>4. ASSUME NEW x \in Carrying', task'[x].pc # "control", UpToDate(task'[x].content),
               Follows(task'[x].data, clock)
        PROVE  CarriesCurrent(x)'
    BY <1>2, <2>1, <2>4 DEF CarriesCurrent, Follows
  <2>. QED BY <2>2, <2>3, <2>4
<1>5. Changing' = {} /\ redis' # Nothing => UpToDate(redis.content)'
  BY <1>1, <1>2
<1>6. Changing' = {} /\ memory'.data # Nothing => Follows(memory.data, memory.updatedAt)'
  <2>1. Changing' = {} /\ memory'.data # Nothing => Follows(memory'.data, memory'.updatedAt)
    BY <1>1
  <2>. QED BY <1>3, <2>1 DEF Follows
<1>. QED BY <1>4, <1>5, <1>6 DEF CopyInv

\* After a change, copies do not matter until its refresh has ended.
LEMMA CopiesOfChange ==
  ASSUME Types, NEW x \in Executions, NEW s, NEW n, Change(x, s, n)
  PROVE  CopyInv'
<1>1. task'[x] = [pc |-> "read", by |-> "change"]
  BY DEF Change, Types
<1>2. x \in Changing' /\ x \notin Carrying'
  BY <1>1 DEF Changing, Carrying
<1>3. ~overlapped' => ~Overlap'
  BY DEF Change, Observe
<1>4. ~overlapped' => Carrying' = {}
  BY <1>2, <1>3 DEF Overlap
<1>. QED BY <1>2, <1>4 DEF CopyInv

\* What one execution does to the sets of those that change and carry.
LEMMA OneMoves ==
  ASSUME Types, NEW x \in Executions, NEW t, task' = [task EXCEPT ![x] = t]
  PROVE  /\ \A y \in Executions : task'[y] = IF y = x THEN t ELSE task[y]
         /\ \A y \in Carrying' : (y \in Carrying /\ task'[y] = task[y]) \/ y = x
         /\ Changing' \subseteq Changing \cup {x}
         /\ Changing \subseteq Changing' \cup {x}
<1>1. \A y \in Executions : task'[y] = IF y = x THEN t ELSE task[y]
  BY DEF Types
<1>. QED BY <1>1 DEF Carrying, Changing

\* What the end of an execution does to them.
LEMMA OneEnds ==
  ASSUME Types, NEW x \in Executions, task' = Finished(x)
  PROVE  /\ \A y \in Carrying' : y \in Carrying /\ task'[y] = task[y]
         /\ Changing' = Changing \ {x}
<1>1. \A y \in Executions :
        /\ task'[y] \in {Idle, task[y]}
        /\ y # x => task'[y] = task[y] \/ (task[y].pc = "wait" /\ task'[y] = Idle)
        /\ y = x => task'[y] = Idle
  BY DEF Finished
<1>. QED BY <1>1 DEF Carrying, Changing, Idle

\* A poll or a tick that misses gets no copy of the state.
LEMMA MissCarries ==
  ASSUME Types, FetchInv, NEW x \in Executions, NEW kind \in Readers, NEW b \in BOOLEAN,
         task[x].pc \in {"get", "put"}, Miss(x, kind, b)
  PROVE  /\ \A y \in Carrying' : y \in Carrying /\ task'[y] = task[y]
         /\ Changing' = Changing
         /\ memory'.data = memory.data /\ memory'.updatedAt = memory.updatedAt
<1>1. FetchOf(x) \in Executions /\ task[FetchOf(x)] = Idle
  BY FetchOfType DEF FetchInv
<1>2. memory'.data = memory.data /\ memory'.updatedAt = memory.updatedAt
  BY DEF Miss, Types, Memory
<1>3. \A y \in Executions :
        \/ task'[y] = task[y] /\ y # x
        \/ /\ task[y] = Idle \/ y = x
           /\ task'[y].pc \in {"idle", "wait"}
              \/ (task'[y].pc = "read" /\ task'[y].by # "change")
  BY <1>1 DEF Miss, Types, Idle
<1>4. \A y \in Executions :
        task[y] = Idle \/ y = x => y \notin Changing
  BY DEF Changing, Idle
<1>5. Changing' = Changing
  BY <1>3, <1>4 DEF Changing
<1>. QED BY <1>2, <1>3, <1>5 DEF Carrying

\* Every step keeps CopyInv.
LEMMA NextCopyInv ==
  ASSUME Types, Types', History, FetchInv, PastNow, CopyInv, [Next]_vars
  PROVE  CopyInv'
<1>. USE DEF Types
<1>1. /\ clock <= clock' /\ (overlapped => overlapped') /\ (missed => missed')
      /\ (Overlap' => overlapped') /\ (Overlap => overlapped)
  BY NextPastNow, NextHistory DEF History
<1>2. ASSUME NEW x \in Executions, Book(x) \/ Unlock(x) \/ Delete(x) \/ AppendControl(x)
      PROVE  CopyInv'
  BY <1>2, CopiesOfChange DEF Book, Unlock, Delete, AppendControl
<1>3. ASSUME NEW x \in Executions,
             ViewState(x) \/ RefreshStamp(x) \/ PollStart(x) \/ TickStart(x) \/ Timeout(x)
      PROVE  CopyInv'
  <2>1. /\ db' = db /\ redis' = redis /\ memory' = memory
        /\ task' = [task EXCEPT ![x] = task'[x]]
        /\ task'[x].pc \notin {"control", "persist", "put"}
    BY <1>3 DEF ViewState, RefreshStamp, PollStart, TickStart, Timeout, Idle
  <2>2. x \in Changing => x \in Changing'
    BY <1>3 DEF ViewState, RefreshStamp, PollStart, TickStart, Timeout, Changing, Free, Idle
  <2>3. \A y \in Carrying' : y \in Carrying /\ task'[y] = task[y]
    BY <2>1, OneMoves DEF Carrying
  <2>4. Changing' = {} => Changing = {}
    BY <2>1, <2>2, OneMoves
  <2>. QED BY <1>1, <2>1, <2>3, <2>4, CopiesKept
<1>4. ASSUME NEW x \in Executions, RefreshSession(x)
      PROVE  CopyInv'
  <2>1. /\ db' = db /\ redis' = redis /\ memory' = memory
        /\ task' = [task EXCEPT ![x] = task'[x]]
    BY <1>4 DEF RefreshSession
  <2>2. x \in Changing => x \in Changing'
    BY <1>4 DEF RefreshSession, Changing
  <2>3. \/ /\ task'[x].pc = "control" /\ task'[x].session = db.session
           /\ VisibleAt(db.session, task'[x].now)
        \/ /\ task'[x].pc = "persist" /\ UpToDate(task'[x].content)
           /\ Follows(task'[x].data, clock)
    <3>1. CASE VisibleAt(db.session, task[x].now)
      BY <1>4, <3>1 DEF RefreshSession
    <3>2. CASE ~VisibleAt(db.session, task[x].now)
      <4>1. task[x].now \in Nat /\ task[x].now <= clock
        BY <1>4, TaskFields DEF RefreshSession, PastNow
      <4>2. ~VisibleAt(db.session, clock)
        BY <3>2, <4>1, InvisibleStays
      <4>3. task'[x].pc = "persist" /\ task'[x].content = NoContent
        BY <1>4, <3>2 DEF RefreshSession
      <4>4. task'[x].data = IdleView
        BY <1>4, <3>2 DEF RefreshSession
      <4>5. ShownAt(task[x].now) = IdleView
        BY <3>2 DEF ShownAt
      <4>6. Follows(task'[x].data, clock)
        BY <4>1, <4>4, <4>5 DEF Follows
      <4>. QED BY <4>2, <4>3, <4>6 DEF UpToDate
    <3>. QED BY <3>1, <3>2
  <2>4. \A y \in Carrying' : (y \in Carrying /\ task'[y] = task[y]) \/ y = x
    BY <2>1, OneMoves
  <2>5. Changing' = {} => Changing = {}
    BY <2>1, <2>2, OneMoves
  <2>. QED BY <1>1, <2>1, <2>3, <2>4, <2>5, CopiesKept
<1>5. ASSUME NEW x \in Executions, RefreshControl(x)
      PROVE  CopyInv'
  <2>1. /\ db' = db /\ redis' = redis /\ memory' = memory
        /\ task' = [task EXCEPT ![x] = task'[x]]
    BY <1>5 DEF RefreshControl
  <2>2. x \in Changing => x \in Changing'
    BY <1>5 DEF RefreshControl, Changing
  <2>3. ~overlapped /\ ~missed =>
          /\ task'[x].pc = "persist" /\ UpToDate(task'[x].content)
          /\ Follows(task'[x].data, clock)
    <3>1. SUFFICES ASSUME ~overlapped, ~missed
                   PROVE  /\ task'[x].pc = "persist" /\ UpToDate(task'[x].content)
                          /\ Follows(task'[x].data, clock)
      OBVIOUS
    <3>2. /\ x \in Carrying /\ task[x].session \in Session
          /\ task[x].now \in Nat /\ task[x].now <= clock
      BY <1>5, TaskFields DEF RefreshControl, Carrying, PastNow
    <3>3. /\ task[x].session = db.session /\ db.session # NoSession
          /\ VisibleAt(db.session, task[x].now)
      BY <1>5, <3>1, <3>2 DEF CopyInv, CarriesCurrent, RefreshControl, Session
    <3>4. task'[x] = [pc |-> "persist", by |-> task[x].by,
                      content |-> [session |-> db.session, control |-> db.control],
                      data |-> FreshView(db.session, db.control, task[x].now)]
      BY <1>5, <3>3 DEF RefreshControl
    <3>5. db = [session |-> db.session, control |-> db.control]
      BY DEF Content
    <3>6. task'[x].data = ShownAt(task[x].now)
      BY <3>3, <3>4 DEF ShownAt
    <3>7. Follows(task'[x].data, clock)
      BY <3>2, <3>6 DEF Follows
    <3>. QED BY <3>4, <3>5, <3>7 DEF UpToDate
  <2>4. \A y \in Carrying' : (y \in Carrying /\ task'[y] = task[y]) \/ y = x
    BY <2>1, OneMoves
  <2>5. Changing' = {} => Changing = {}
    BY <2>1, <2>2, OneMoves
  <2>. QED BY <1>1, <2>1, <2>3, <2>4, <2>5, CopiesKept
<1>6. ASSUME NEW x \in Executions, RefreshPersist(x)
      PROVE  CopyInv'
  <2>. DEFINE c == task[x].content
              d == task[x].data
  <2>1. x \in Carrying /\ c \in Content /\ db' = db /\ task' = Finished(x)
    BY <1>6, TaskFields DEF RefreshPersist, Carrying
  <2>2. ~overlapped /\ ~missed => UpToDate(c) /\ Follows(d, clock)
    BY <1>6, <2>1 DEF CopyInv, CarriesCurrent, RefreshPersist
  <2>3. memory'.data = d /\ memory'.updatedAt = clock /\ Stored(c).content = c
    BY <1>6 DEF RefreshPersist, Settled, Cached, Memory, Stored
  <2>4. /\ \A y \in Carrying' : y \in Carrying /\ task'[y] = task[y]
        /\ Changing' = Changing \ {x}
    BY <2>1, OneEnds
  <2>5. redis' = Stored(c) \/ (redis' = redis /\ (~missed' => x \notin Changing))
    BY <1>6 DEF RefreshPersist, Changing
  <2>. QED BY <1>1, <2>1, <2>2, <2>3, <2>4, <2>5, CopiesKept
<1>7. CASE ProcessEnds /\ db' = db /\ redis' = redis
  <2>1. Carrying' = {} /\ memory'.data = Nothing
    BY <1>7 DEF ProcessEnds, Carrying, EmptyMemory, Idle
  <2>2. ~missed' => Changing = {}
    BY <1>7 DEF ProcessEnds
  <2>. QED BY <1>1, <1>7, <2>1, <2>2, CopiesKept
<1>8. ASSUME NEW x \in Executions, RefreshFail(x)
      PROVE  CopyInv'
  <2>1. CASE task[x].by = "tick"
    BY <1>7, <1>8, <2>1 DEF RefreshFail
  <2>2. CASE task[x].by # "tick"
    <3>1. /\ db' = db /\ redis' = redis
          /\ memory'.data = memory.data /\ memory'.updatedAt = memory.updatedAt
          /\ task' = Finished(x)
      BY <1>8, <2>2 DEF RefreshFail, Settled, Memory
    <3>2. /\ \A y \in Carrying' : y \in Carrying /\ task'[y] = task[y]
          /\ Changing' = Changing \ {x}
      BY <3>1, OneEnds
    <3>3. ~missed' /\ Changing' = {} => Changing = {}
      BY <1>8, <2>2, <3>2 DEF RefreshFail, Changing
    <3>4. ~overlapped' /\ ~missed' /\ Changing' = {} /\ memory'.data # Nothing =>
            Follows(memory'.data, memory'.updatedAt)
      BY <1>1, <3>1, <3>3 DEF CopyInv
    <3>. QED BY <1>1, <3>1, <3>2, <3>3, <3>4, CopiesKept
  <2>. QED BY <2>1, <2>2
<1>9. ASSUME NEW x \in Executions, ReadRedis(x) \/ WriteBack(x),
             Miss(x, task[x].kind, task[x].busy), redis' = redis
      PROVE  CopyInv'
  <2>1. /\ task[x].pc \in {"get", "put"} /\ db' = db
        /\ task[x].kind \in Readers /\ task[x].busy \in BOOLEAN
    BY <1>9, TaskFields DEF ReadRedis, WriteBack
  <2>2. /\ \A y \in Carrying' : y \in Carrying /\ task'[y] = task[y]
        /\ Changing' = Changing
        /\ memory'.data = memory.data /\ memory'.updatedAt = memory.updatedAt
    BY <1>9, <2>1, MissCarries
  <2>3. ~overlapped' /\ ~missed' /\ Changing' = {} /\ memory'.data # Nothing =>
          Follows(memory'.data, memory'.updatedAt)
    BY <1>1, <2>2 DEF CopyInv
  <2>. QED BY <1>1, <1>9, <2>1, <2>2, <2>3, CopiesKept
<1>10. ASSUME NEW x \in Executions, ReadRedis(x), ~Miss(x, task[x].kind, task[x].busy)
       PROVE  CopyInv'
  <2>1. /\ db' = db /\ redis' = redis /\ memory' = memory /\ redis # Nothing
        /\ task' = [task EXCEPT ![x] = task'[x]]
        /\ task'[x].pc = "put" /\ task'[x].content = redis.content
        /\ task'[x].data = Materialize(redis.content, clock)
    BY <1>10 DEF ReadRedis
  <2>2. x \in Carrying' /\ x \notin Changing' /\ x \notin Changing
    BY <1>10, <2>1 DEF Carrying, Changing, ReadRedis
  <2>3. Changing' = Changing
    BY <2>1, <2>2, OneMoves
  <2>4. ~overlapped' => Changing' = {}
    BY <1>1, <2>2 DEF Overlap, Changing
  <2>5. ~overlapped' /\ ~missed' =>
          UpToDate(task'[x].content) /\ Follows(task'[x].data, clock)
    <3>1. ~overlapped' /\ ~missed' => UpToDate(task'[x].content)
      BY <1>1, <2>1, <2>3, <2>4 DEF CopyInv
    <3>2. redis.content \in Content
      BY <2>1
    <3>3. UpToDate(redis.content) => Materialize(redis.content, clock) = Current
      BY <3>2, UpToDateIsCurrent
    <3>4. Follows(Current, clock)
      BY DEF Follows, Current
    <3>. QED BY <2>1, <3>1, <3>3, <3>4
  <2>6. \A y \in Carrying' : (y \in Carrying /\ task'[y] = task[y]) \/ y = x
    BY <2>1, OneMoves
  <2>. QED BY <1>1, <2>1, <2>3, <2>5, <2>6, CopiesKept
<1>11. ASSUME NEW x \in Executions, task[x].pc = "put", db' = db,
              redis' = Stored(task[x].content), task' = [task EXCEPT ![x] = Idle],
              memory' = memory \/ memory' = Cached(task[x].data)
       PROVE  CopyInv'
  <2>. DEFINE c == task[x].content
              d == task[x].data
  <2>1. x \in Carrying
    BY <1>11 DEF Carrying
  <2>2. ~overlapped /\ ~missed => UpToDate(c) /\ Follows(d, clock)
    BY <1>11, <2>1 DEF CopyInv, CarriesCurrent
  <2>3. /\ Stored(c).content = c
        /\ Cached(d).data = d /\ Cached(d).updatedAt = clock
    BY DEF Stored, Cached, Memory
  <2>4. \A y \in Carrying' : y \in Carrying /\ task'[y] = task[y]
    BY <1>11, OneMoves DEF Carrying, Idle
  <2>5. x \notin Changing /\ (Changing' = {} => Changing = {})
    BY <1>11, OneMoves DEF Changing
  <2>. QED BY <1>1, <1>11, <2>1, <2>2, <2>3, <2>4, <2>5, CopiesKept
<1>12. ASSUME NEW x \in Executions, ReadRedis(x) \/ WriteBack(x)
       PROVE  CopyInv'
  <2>1. CASE ReadRedis(x)
    <3>1. redis' = redis
      BY <2>1 DEF ReadRedis
    <3>. QED BY <1>9, <1>10, <2>1, <3>1
  <2>2. CASE WriteBack(x)
    <3>1. task[x].pc = "put" /\ db' = db
      BY <2>2 DEF WriteBack
    <3>2. \/ /\ redis' = Stored(task[x].content) /\ task' = [task EXCEPT ![x] = Idle]
             /\ memory' = memory \/ memory' = Cached(task[x].data)
          \/ Miss(x, task[x].kind, task[x].busy) /\ redis' = redis
      BY <2>2 DEF WriteBack
    <3>. QED BY <1>9, <1>11, <2>2, <3>1, <3>2
  <2>. QED BY <1>12, <2>1, <2>2
<1>13. CASE Restart
  BY <1>7, <1>13 DEF Restart
<1>14. CASE Evict \/ Tick \/ UNCHANGED vars
  <2>1. /\ db' = db /\ redis' = redis /\ task' = task
        /\ memory' = memory \/ memory'.data = Nothing
    BY <1>14 DEF Evict, Tick, vars, EmptyMemory
  <2>2. Carrying' = Carrying /\ Changing' = Changing
    BY <2>1 DEF Carrying, Changing
  <2>. QED BY <1>1, <2>1, <2>2, CopiesKept
<1>. QED BY <1>2, <1>3, <1>4, <1>5, <1>6, <1>8, <1>12, <1>13, <1>14 DEF Next, Step

\* While no two updates of a copy overlapped and no refresh was lost, what executions
\* carry between awaits (refreshPollingDataForPod, readPollingData), what Redis holds
\* and what the memory holds are what the database says.
THEOREM CopyInvariant == Spec => [](Types /\ CopyInv)
<1>1. Init => PastNow /\ CopyInv
  BY DEF Init, PastNow, CopyInv, Carrying, Changing, Idle, EmptyMemory
<1>2. Types /\ History /\ FetchInv /\ PastNow /\ CopyInv /\ Types' /\ [Next]_vars
        => (PastNow /\ CopyInv)'
  BY NextPastNow, NextCopyInv
<1>. QED BY <1>1, <1>2, PollingTypes, FetchInvariant, PTL DEF Spec

\* Redis answers what the database says once a change's refresh has ended, unless a
\* change overlapped the update of a copy or its refresh was lost.
THEOREM RedisFollows == Spec => []RedisFollowsChanges
<1>1. Types /\ History /\ CopyInv => RedisFollowsChanges
  BY UpToDateIsCurrent DEF RedisFollowsChanges, Quiet, Alive, CopyInv, Types, History
<1>. QED BY <1>1, CopyInvariant, PollingTypes, PTL

\* The memory of the process (pollingCache), which polls are answered from as it is,
\* then answers what a refresh of the present session would have, at a moment no later
\* than when it was cached: never a session or a control event of before the change.
THEOREM MemoryFollows == Spec => []MemoryFollowsChanges
<1>1. CopyInv => MemoryFollowsChanges
  BY DEF MemoryFollowsChanges, Quiet, CopyInv
<1>. QED BY <1>1, CopyInvariant, PTL
=============================================================================
