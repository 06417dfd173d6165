--------------------------- MODULE SessionControls ---------------------------
(***************************************************************************)
(* The controls of a session (mood, aroma, music) and the readers of a     *)
(* pod (services/ommpods/src/routers: control, tablet, app, shared).       *)
(* A command of the app or of the tablet is a row appended to the log of   *)
(* its session after checks made in earlier statements; nothing is         *)
(* updated.  What is in force is derived by every reader anew, from the    *)
(* last row of each kind, read by statements of their own, and from the    *)
(* mood preset and the diffuser as they are then.  The app's list of pods  *)
(* likewise reads pods and sessions one after the other.                   *)
(*                                                                         *)
(* One pod, with one session in sight at a time (PodSessions); booking,    *)
(* unlock and administration are single steps here.  A handler goes from   *)
(* statement to statement.                                                 *)
(***************************************************************************)
EXTENDS Integers, FiniteSets, Sequences, SequencesExt

CONSTANTS
  Tasks,         \* requests served at once
  Moods, Tunes,
  Containers,    \* what the pod's diffuser can spray
  Own,           \* the container of each mood
  Off, None,     \* no aroma; no mood or no music chosen
  Length, Intro, Delay,
  MaxClock,      \* bound: last value of the clock
  Bounds         \* bound: how many steps of each kind below are taken

Aromas == Containers \cup {Off}
OwnAroma == "own"   \* the aroma is left to the mood

\* Assumed of the constants; the run of ServicesMC evaluates it.
ControlsAssumption ==
  /\ Own \in [Moods -> Containers] /\ Off \notin Containers /\ OwnAroma \notin Aromas
  /\ None \notin Moods \cup Tunes \cup Aromas /\ Moods # {}
  /\ Length \in Nat \ {0} /\ Intro \in Nat /\ Delay \in Nat
  /\ MaxClock \in Nat /\ Bounds \in [{"commands", "bookings", "changes", "reads"} -> Nat]

Commands ==
       [kind: {"mood"}, value: Moods]
  \cup [kind: {"aroma"}, value: Aromas]
  \cup [kind: {"music"}, value: Tunes]
Kinds == {"mood", "aroma", "music"}

Statuses == {"CONFIRMED", "EMERGENCY_UNLOCKED", "DELETED"}
SessionRow == [id: Nat, startAt: Nat, endAt: Nat, status: Statuses]
LogRow == [session: Nat, kind: Kinds, value: Moods \cup Aromas \cup Tunes, at: Nat]

VARIABLES
  clock,   \* the clock of the services and of PostgreSQL
  db,      \* the pod, its diffuser, its last session, the moods and the logs
  task,    \* what each request is doing
  count,   \* bounds: how many of each bounded step were taken
  seen     \* history: what was true of the pod while each request read it

vars == <<clock, db, task, count, seen>>

Database == [open: BOOLEAN, fitted: BOOLEAN, moods: SUBSET Moods,
             session: SUBSET SessionRow, logs: Seq(LogRow)]

----------------------------------------------------------------------------
(* Predicates of the queries, over the session rows (at most one of them) *)

\* findActiveSessionForUser, findTabletControlSession, app GET /sessions/active.
Controllable(D, now) ==
  {s \in D.session : s.status = "CONFIRMED" /\ s.endAt > now}

\* The session a refresh shows, the end delay included.
Visible(D, now) ==
  {s \in D.session : s.status # "DELETED" /\ s.endAt > now - Delay}

\* Mutant: a session counts as running from its start on, whether it is over or not.
RunningOnceStarted(D, now) ==
  {s \in D.session : s.status = "CONFIRMED" /\ s.startAt <= now}

\* The sessions the app's list of pods takes for running.
Running(D, now) ==
  {s \in D.session : s.status = "CONFIRMED" /\ s.startAt <= now /\ s.endAt > now}

\* What the booking asks of the pod.
Bookable(D, now) == D.open /\ Visible(D, now) = {}

----------------------------------------------------------------------------
(* The state in force, and how a reader derives it *)

NoControls == [session |-> 0, mood |-> None, aroma |-> Off, mac |-> FALSE, music |-> None]

NoRow == [value |-> None, at |-> 0]

\* The rows of one kind, and the ones that may come first in ORDER BY occurred_at DESC.
Rows(logs, id, kind) == {i \in 1..Len(logs) : logs[i].session = id /\ logs[i].kind = kind}
Latest(logs, id, kind) ==
  LET R == Rows(logs, id, kind)
      Top == {i \in R : \A j \in R : logs[j].at <= logs[i].at}
  IN  IF R = {} THEN {NoRow}
      ELSE {[value |-> logs[i].value, at |-> logs[i].at] : i \in Top}

\* hasAromaOverrideAfterMood
Override(aroma, mood) == aroma.value # None /\ aroma.at >= mood.at

\* resolveSessionControlState: the state from the rows read, the preset and the diffuser.
Resolved(id, got, preset, fitted) ==
  LET aroma == IF Override(got["aroma"], got["mood"]) THEN got["aroma"].value
               ELSE IF preset # None /\ fitted THEN Own[preset]
               ELSE Off
  IN  [session |-> id, mood |-> preset, aroma |-> aroma,
       mac |-> fitted /\ aroma # Off, music |-> got["music"].value]

\* Reference: the commands obeyed one by one, a mood taking the aroma back to its own.
Fresh == [mood |-> None, aroma |-> OwnAroma, music |-> None]
Obey(state, r) ==
  CASE r.kind = "mood"  -> [mood |-> r.value, aroma |-> OwnAroma, music |-> state.music]
    [] r.kind = "aroma" -> [state EXCEPT !.aroma = r.value]
    [] r.kind = "music" -> [state EXCEPT !.music = r.value]
Obeyed(logs, o) ==
  LET after[i \in 0..Len(o)] == IF i = 0 THEN Fresh ELSE Obey(after[i - 1], logs[o[i]])
  IN  after[Len(o)]

\* The logs of a session in the order of their times; equal times in any order.
Orders(logs, id) ==
  {o \in SetToSeqs({i \in 1..Len(logs) : logs[i].session = id}) :
     \A i, j \in DOMAIN o : i < j => logs[o[i]].at <= logs[o[j]].at}

ShownAs(fitted, moods, id, state) ==
  LET mood  == IF state.mood \in moods THEN state.mood ELSE None
      aroma == IF state.aroma # OwnAroma THEN state.aroma
               ELSE IF mood # None /\ fitted THEN Own[mood] ELSE Off
  IN  [session |-> id, mood |-> mood, aroma |-> aroma,
       mac |-> fitted /\ aroma # Off, music |-> state.music]

\* What may be shown of a session, and of the pod at a moment.
Shows(fitted, moods, logs, id) ==
  {ShownAs(fitted, moods, id, Obeyed(logs, o)) : o \in Orders(logs, id)}
InForce(D, now) ==
  IF Visible(D, now) = {} THEN {NoControls}
  ELSE UNION {Shows(D.fitted, D.moods, D.logs, s.id) : s \in Visible(D, now)}

\* The list's notion of an available pod: it is open and nobody's session, of any status,
\* is between its start and its end.  The booking refuses more: its next occupant may be
\* being introduced, and the last one may be leaving (Bookable).
Unoccupied(D, now) ==
  D.open /\ \A s \in Visible(D, now) : s.startAt > now \/ s.endAt <= now

----------------------------------------------------------------------------
Idle == [pc |-> "idle"]
Reading == {"session", "logs", "preset", "list", "sessions"}

Views == [session: Nat, mood: Moods \cup {None}, aroma: Aromas, mac: BOOLEAN,
          music: Tunes \cup {None}]
Chosen == [value: Moods \cup Aromas \cup Tunes \cup {None}, at: Nat]
Task ==
       [pc: {"idle", "pod"}]
  \cup [pc: {"check"}, command: Commands, session: Nat]
  \cup [pc: {"append"}, command: Commands, session: Nat]
  \cup [pc: {"session"}, now: Nat, fitted: BOOLEAN]
  \cup [pc: {"logs", "preset"}, session: Nat, fitted: BOOLEAN, due: SUBSET Kinds,
        got: [Kinds -> Chosen]]
  \cup [pc: {"shown"}, view: Views]
  \cup [pc: {"list"}, now: Nat]
  \cup [pc: {"sessions"}, now: Nat, open: BOOLEAN]
  \cup [pc: {"listed"}, free: BOOLEAN]

TypeOK ==
  /\ clock \in Nat /\ db \in Database /\ task \in [Tasks -> Task]
  /\ Cardinality(db.session) <= 1
  /\ seen \in [Tasks -> [views: SUBSET Views, free: SUBSET BOOLEAN, changes: Nat]]

Unseen == [views |-> {}, free |-> {}, changes |-> 0]

Spoilt == [views |-> {}, free |-> {}, changes |-> 2]

\* Every step adds what is true after it to what a reader could have seen; of a reader
\* that two changes overlapped nothing is claimed, and nothing is kept.
Observe ==
  LET changed == \/ db' # db
                 \/ Visible(db', clock') # Visible(db, clock)
                 \/ Running(db', clock') # Running(db, clock)
      Changes(t) == seen[t].changes + IF changed /\ task[t].pc \in Reading THEN 1 ELSE 0
      Lists(t)   == task'[t].pc \in {"list", "sessions"}
  IN  seen' = [t \in Tasks |->
        CASE task'[t].pc \in {"shown", "listed"} -> seen[t]
          [] task'[t].pc \notin Reading \cup {"shown", "listed"} -> Unseen
          [] task'[t].pc \in Reading /\ Changes(t) > 1 -> Spoilt
          [] task'[t].pc \in Reading /\ Changes(t) <= 1 ->
               [changes |-> Changes(t),
                views |-> seen[t].views \cup IF Lists(t) THEN {} ELSE InForce(db', clock'),
                free  |-> seen[t].free \cup IF Lists(t) THEN {Unoccupied(db', clock')} ELSE {}]]

\* Bound: one request reads at a time, for reads change nothing and cannot meet.
Alone(t) == \A u \in Tasks \ {t} : task[u].pc \notin Reading

\* A step of one of the bounded kinds.
Spend(k) == count[k] < Bounds[k] /\ count' = [count EXCEPT ![k] = @ + 1]

\* A statement of a request that changes nothing but the request; a request's first one.
Goto(t, next) ==
  /\ UNCHANGED <<clock, db>>
  /\ task' = [task EXCEPT ![t] = next]
  /\ Observe
Step(t, next) == Goto(t, next) /\ UNCHANGED count
Start(t, k, next) == task[t].pc = "idle" /\ Spend(k) /\ Goto(t, next)

Init ==
  /\ clock = 0
  /\ db = [open |-> TRUE, fitted |-> TRUE, moods |-> Moods, session |-> {},
           logs |-> <<>>]
  /\ count = [k \in DOMAIN Bounds |-> 0]
  /\ task = [t \in Tasks |-> Idle]
  /\ seen = [t \in Tasks |-> Unseen]

----------------------------------------------------------------------------
(* Commands *)

\* The app names a session of its user, the tablet the pod: the live one is found.
FindSession(t) ==
  \E c \in Commands, s \in Controllable(db, clock) :
    Start(t, "commands", [pc |-> "check", command |-> c, session |-> s.id])

\* The mood is there, the container is one of the pod's diffuser.
Accepts(c) ==
  /\ c.kind = "mood" => c.value \in db.moods
  /\ c.kind = "aroma" => c.value = Off \/ db.fitted

Check(t) ==
  /\ task[t].pc = "check"
  /\ IF Accepts(task[t].command) THEN Step(t, [task[t] EXCEPT !.pc = "append"])
     ELSE Step(t, Idle)

\* appendSessionControlLog: the session is not looked at again; then the refresh.
AppendLog(t) ==
  /\ task[t].pc = "append"
  /\ LET c == task[t].command
         row == [session |-> task[t].session, kind |-> c.kind, value |-> c.value, at |-> clock]
     IN  db' = [db EXCEPT !.logs = Append(@, row)]
  /\ task' = [task EXCEPT ![t] = [pc |-> "pod"]]
  /\ UNCHANGED <<clock, count>>
  /\ Observe

----------------------------------------------------------------------------
(* Readers of the state: refreshPollingDataForPod, for a command or the tablet *)

TabletState(t) == Start(t, "reads", [pc |-> "pod"])

\* The pod's row, the diffusers it names, and then the clock.  A pod goes on naming its
\* diffuser here, so what may change is read by the second query alone.
ReadPod(t) ==
  /\ task[t].pc = "pod" /\ Alone(t)
  /\ Step(t, [pc |-> "session", now |-> clock, fitted |-> db.fitted])

ReadSession(t) ==
  /\ task[t].pc = "session"
  /\ LET found == Visible(db, task[t].now)
     IN  \/ found = {} /\ Step(t, [pc |-> "shown", view |-> NoControls])
         \/ \E s \in found :
              Step(t, [pc |-> "logs", session |-> s.id, fitted |-> task[t].fitted,
                       due |-> Kinds, got |-> [k \in Kinds |-> NoRow]])

\* Promise.all over three queries: each sees the log when it comes to it.
ReadLog(t) ==
  /\ task[t].pc = "logs"
  /\ \E kind \in task[t].due :
       \E row \in Latest(db.logs, task[t].session, kind) :
         Step(t, [pc |-> IF task[t].due = {kind} THEN "preset" ELSE "logs",
                  session |-> task[t].session, fitted |-> task[t].fitted,
                  due |-> task[t].due \ {kind}, got |-> [task[t].got EXCEPT ![kind] = row]])

ReadPreset(t) ==
  /\ task[t].pc = "preset"
  /\ LET chosen == task[t].got["mood"].value
         preset == IF chosen \in db.moods THEN chosen ELSE None
     IN  Step(t, [pc |-> "shown",
                  view |-> Resolved(task[t].session, task[t].got, preset, task[t].fitted)])

----------------------------------------------------------------------------
(* The app's list of pods *)

AskForPods(t) == Alone(t) /\ Start(t, "reads", [pc |-> "list", now |-> clock])

ReadPods(t) ==
  /\ task[t].pc = "list"
  /\ Step(t, [pc |-> "sessions", now |-> task[t].now, open |-> db.open])

ReadSessions(t) ==
  /\ task[t].pc = "sessions"
  /\ Step(t, [pc |-> "listed", free |-> task[t].open /\ Running(db, task[t].now) = {}])

Finish(t) ==
  /\ task[t].pc \in {"shown", "listed"}
  /\ Step(t, Idle)

----------------------------------------------------------------------------
(* What happens to the pod meanwhile *)

Change(k, next) == Spend(k) /\ db' = next /\ UNCHANGED <<clock, task>> /\ Observe

\* createSessionRoute: the session and its first mood, in one transaction.
Book ==
  /\ Bookable(db, clock)
  /\ \E m \in db.moods :
       LET id  == count.bookings + 1
           s   == [id |-> id, startAt |-> clock + Intro,
                   endAt |-> clock + Intro + Length, status |-> "CONFIRMED"]
           row == [session |-> id, kind |-> "mood", value |-> m, at |-> clock]
       IN  Change("bookings", [[db EXCEPT !.session = {s}] EXCEPT !.logs = Append(@, row)])

\* Either emergency unlock ends the session at once.
Unlock ==
  \E s \in Controllable(db, clock) :
    Change("changes",
           [db EXCEPT !.session = {[id |-> s.id, startAt |-> s.startAt, endAt |-> clock,
                                    status |-> "EMERGENCY_UNLOCKED"]}])

DeleteSession ==
  \E s \in db.session :
    /\ s.status # "DELETED"
    /\ Change("changes", [db EXCEPT !.session = {[s EXCEPT !.status = "DELETED"]}])

SwitchPod == Change("changes", [db EXCEPT !.open = ~@])

\* The diffuser's row is deleted or restored.
SwitchDiffuser == Change("changes", [db EXCEPT !.fitted = ~@])
SwitchMood ==
  \E m \in Moods :
    Change("changes", [db EXCEPT !.moods = IF m \in @ THEN @ \ {m} ELSE @ \cup {m}])

Tick == clock < MaxClock /\ clock' = clock + 1 /\ UNCHANGED <<db, task, count>> /\ Observe

Next ==
  \/ \E t \in Tasks :
       \/ FindSession(t) \/ Check(t) \/ AppendLog(t)
       \/ TabletState(t) \/ ReadPod(t) \/ ReadSession(t) \/ ReadLog(t) \/ ReadPreset(t)
       \/ AskForPods(t) \/ ReadPods(t) \/ ReadSessions(t)
       \/ Finish(t)
  \/ Book \/ Unlock \/ DeleteSession \/ SwitchPod \/ SwitchDiffuser \/ SwitchMood
  \/ Tick

Spec == Init /\ [][Next]_vars

----------------------------------------------------------------------------
(* Properties *)

\* What a command or the tablet is answered was in force at some moment of its reads:
\* the last command of each kind by its time, a mood taking the aroma back, as long as
\* no more than one change overlapped the reads, which go over five statements.
ShownWasInForce ==
  \A t \in Tasks :
    task[t].pc = "shown" /\ seen[t].changes <= 1 => task[t].view \in seen[t].views

\* The list of pods answers what was so at some moment of its two reads: a pod it calls
\* free was open and had nobody in it, which does not say that it could be booked; one it
\* does not call free was closed or in use, and could not be booked then.
ListedIsTrue ==
  \A t \in Tasks :
    task[t].pc = "listed" /\ seen[t].changes <= 1 => task[t].free \in seen[t].free
=============================================================================
