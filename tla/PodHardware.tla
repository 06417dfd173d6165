----------------------------- MODULE PodHardware -----------------------------
(***************************************************************************)
(* The publisher that keeps a pod's lamp, diffusers and timer in step with *)
(* its session (services/ommpods/src/mqtt): every refresh of a polling     *)
(* state is handed to handlePollingStateUpdate, which publishes what       *)
(* differs from the last state it published, one awaited command after     *)
(* the other.  Handlers publish by themselves too.  DoorWindow tells what  *)
(* a pulse of the door does.                                               *)
(***************************************************************************)
EXTENDS MqttClient, Integers, Sequences, FiniteSets, SequencesExt

CONSTANTS
  Updates,      \* changes and their refresh, each run at most once
  Sessions, Colors, Diffusers,
  Dark,         \* r = g = b = 0
  Off,          \* no diffuser; no data; nothing published
  Full          \* bound: what remains of a new session, in steps of 2 s or more

\* What a polling state shows of a session.
Looks == [id: Sessions, left: 0..Full, rgb: Colors \cup {Dark}, aroma: Diffusers \cup {Off}]

ASSUME HardwareAssumption ==
  /\ Dark \notin Colors /\ Off \notin Diffusers \cup Sessions /\ Full \in Nat \ {0}
  /\ Off \notin Looks /\ IsFiniteSet(Diffusers)

VARIABLES
  session,   \* what the database says: the pod's session and its controls, or Off
  booked,    \* sessions booked so far
  update,    \* what each execution is doing
  lastPublishedState,
  hardware,  \* what a pod's lamp, diffusers and timer were told
  (* history variables, read by properties only *)
  crossed,   \* pods of which two updates were under way at once
  unsent,    \* pods of which a command was skipped, or lost with the process
  late,      \* pods told what a handler chose for a session that was over by then
  unnoticed  \* pods whose session ran out, and no refresh has seen it

vars == <<connected, session, booked, update, lastPublishedState, hardware,
          crossed, unsent, late, unnoticed>>

\* Commands; of the timer's, for which session it is.
Lamp(rgb) == [part |-> "rgb", value |-> rgb]
Shut(id) == [part |-> "timer", value |-> id]
Diffuser(m) == [part |-> "on", value |-> m]
DiffuserOff(m) == [part |-> "off", value |-> m]
PulseDoor == [part |-> "door", value |-> Off]
Messages ==
  {PulseDoor} \cup {Lamp(rgb) : rgb \in Colors \cup {Dark}} \cup {Shut(s) : s \in Sessions \cup {Off}}
  \cup {Diffuser(m) : m \in Diffusers} \cup {DiffuserOff(m) : m \in Diffusers}

If(condition, command) == IF condition THEN <<command>> ELSE <<>>

\* Mutant: the diffuser of before is left on when another is chosen.
CommandsLeavingOn(old, new) ==
  If(old = Off \/ old.left # new.left, Shut(new.id))
  \o If(old = Off \/ old.rgb # new.rgb, Lamp(new.rgb))
  \o (IF new.aroma # Off
      THEN If(old = Off \/ old.aroma # new.aroma, Diffuser(new.aroma))
      ELSE IF old # Off /\ old.aroma # Off THEN <<DiffuserOff(old.aroma)>> ELSE <<>>)

\* What handlePollingStateUpdate publishes while there is a session.
Commands(old, new) ==
  If(old = Off \/ old.left # new.left, Shut(new.id))
  \o If(old = Off \/ old.rgb # new.rgb, Lamp(new.rgb))
  \o (IF old # Off /\ old.aroma \notin {Off, new.aroma}
      THEN <<DiffuserOff(old.aroma)>> ELSE <<>>)
  \o If(new.aroma # Off /\ (old = Off \/ old.aroma # new.aroma), Diffuser(new.aroma))

\* Mutant: the timer is not reset.
EndCommandsUntimed(old) ==
  <<PulseDoor, Lamp(Dark)>> \o If(old.aroma # Off, DiffuserOff(old.aroma))

\* And when there is none any more: the door is pulsed for the occupant to leave.
EndCommands(old) ==
  <<PulseDoor, Shut(Off), Lamp(Dark)>> \o If(old.aroma # Off, DiffuserOff(old.aroma))

Ready(p) == [pod |-> p, stage |-> "ready", data |-> Off,
             todo |-> <<>>, direct |-> <<>>]

Init ==
  /\ connected = FALSE
  /\ session = [p \in Pods |-> Off]
  /\ booked = {}
  /\ update \in [Updates -> {Ready(p) : p \in Pods}]
  /\ lastPublishedState = [p \in Pods |-> Off]
  /\ hardware = [p \in Pods |-> [rgb |-> Dark, on |-> {}, timed |-> Off]]
  /\ crossed = {} /\ unsent = {} /\ late = {} /\ unnoticed = {}

Busy(u) == update[u].stage \notin {"ready", "done"} \/ update[u].direct # <<>>
BusyWith(p) == {u \in Updates : Busy(u) /\ update[u].pod = p}

-----------------------------------------------------------------------------
\* What changes a session; each is followed by a refresh of the pod, and by what
\* its handler publishes by itself: a list of commands.

Refresh(u, direct) ==
  LET p == update[u].pod IN
  /\ update[u].stage = "ready"
  /\ update' = [update EXCEPT ![u].stage = "reading", ![u].direct = direct]
  /\ crossed' = IF BusyWith(p) # {} THEN crossed \cup {p} ELSE crossed
  /\ UNCHANGED <<connected, lastPublishedState, hardware, unsent, late, unnoticed>>

Book(u) ==
  LET p == update[u].pod IN
  /\ session[p] = Off
  /\ \E s \in Sessions \ booked, rgb \in Colors :
       /\ session' = [session EXCEPT ![p] = [id |-> s, left |-> Full, rgb |-> rgb, aroma |-> Off]]
       /\ booked' = booked \cup {s}
  /\ Refresh(u, <<PulseDoor>>)

\* A mood chosen on the tablet is only refreshed, one chosen in the app is also
\* published by the handler.
ChangeMood(u) ==
  LET p == update[u].pod IN
  /\ session[p] # Off /\ session[p].left > 0
  /\ \E rgb \in Colors :
       /\ session' = [session EXCEPT ![p].rgb = rgb]
       /\ \E direct \in {<<>>, <<Lamp(rgb)>>} : Refresh(u, direct)
  /\ UNCHANGED booked

\* Likewise an aroma; none means that every diffuser of the pod is told to stop.
ChangeAroma(u) ==
  LET p == update[u].pod
      AllOff == {DiffuserOff(m) : m \in Diffusers} IN
  /\ session[p] # Off /\ session[p].left > 0
  /\ \E m \in Diffusers \cup {Off} :
       /\ session' = [session EXCEPT ![p].aroma = m]
       /\ \E direct \in {<<>>, IF m = Off THEN SetToSeq(AllOff) ELSE <<Diffuser(m)>>} :
            Refresh(u, direct)
  /\ UNCHANGED booked

\* An unlock ends the session now, it stays in sight for the ending delay, if any,
\* and the door is pulsed; the administration deletes it.
EndSession(u) ==
  LET p == update[u].pod IN
  /\ session[p] # Off
  /\ session' \in {[session EXCEPT ![p].left = 0], [session EXCEPT ![p] = Off]}
  /\ \E direct \in {<<>>, <<PulseDoor>>} : Refresh(u, direct)
  /\ UNCHANGED booked

\* A poll finds nothing in Redis.
PollMiss(u) == Refresh(u, <<>>) /\ UNCHANGED <<session, booked>>

\* Time: the session runs, and goes out of sight after its end. Nothing refreshes.
Elapse(p) ==
  /\ session[p] # Off
  /\ IF session[p].left > 0
     THEN /\ session' = [session EXCEPT ![p].left = @ - 1]
          /\ UNCHANGED unnoticed
     ELSE /\ session' = [session EXCEPT ![p] = Off]
          /\ unnoticed' = unnoticed \cup {p}
  /\ UNCHANGED <<connected, booked, update, lastPublishedState, hardware, crossed, unsent, late>>

-----------------------------------------------------------------------------
\* An update.

\* refreshPollingDataForPod: the lamp is dark in the ending delay.
ReadSession(u) ==
  LET s == session[update[u].pod] IN
  /\ update[u].stage = "reading"
  /\ update' = [update EXCEPT ![u].stage = "read", ![u].data =
                  IF s # Off /\ s.left = 0 THEN [s EXCEPT !.rgb = Dark] ELSE s]
  /\ UNCHANGED <<connected, session, booked, lastPublishedState, hardware, crossed, unsent,
                 late, unnoticed>>

\* notifyPollingStateUpdated: handlePollingStateUpdate compares; its first command goes
\* out at once there and at any later time here.
Notify(u) ==
  LET old == lastPublishedState[update[u].pod]
      new == update[u].data IN
  /\ update[u].stage = "read"
  /\ update' = [update EXCEPT
       ![u].stage = IF old = Off /\ new = Off THEN "done" ELSE "publishing",
       ![u].todo = IF new # Off THEN Commands(old, new)
                   ELSE IF old # Off THEN EndCommands(old) ELSE <<>>]
  /\ UNCHANGED <<connected, session, booked, lastPublishedState, hardware, crossed, unsent,
                 late, unnoticed>>

\* What a pod does when it is told.
Told(h, c) ==
  CASE c.part = "rgb"   -> [h EXCEPT !.rgb = c.value]
    [] c.part = "timer" -> [h EXCEPT !.timed = c.value]
    [] c.part = "on"    -> [h EXCEPT !.on = @ \cup {c.value}]
    [] c.part = "off"   -> [h EXCEPT !.on = @ \ {c.value}]
    [] c.part = "door"  -> h

\* publishMqtt: skipped, and resolved at once, while the client is not connected.
\* Commands arrive in the order they were handed to the client, so that each takes
\* effect here when it is sent; its caller goes on at any later time.
Send(p, c) ==
  /\ hardware' = IF connected THEN [hardware EXCEPT ![p] = Told(@, c)] ELSE hardware
  /\ unsent' = IF connected THEN unsent ELSE unsent \cup {p}
  /\ UNCHANGED <<connected, session, booked, lastPublishedState, crossed, unnoticed>>

PublishNext(u) ==
  /\ update[u].stage = "publishing" /\ update[u].todo # <<>>
  /\ Send(update[u].pod, Head(update[u].todo))
  /\ update' = [update EXCEPT ![u].todo = Tail(@)]
  /\ UNCHANGED late

\* The caller of the refresh goes on when the listeners were called. A session that
\* was over for its refresh is late.
PublishDirect(u) ==
  /\ update[u].stage \in {"publishing", "done"} /\ update[u].direct # <<>>
  /\ Send(update[u].pod, Head(update[u].direct))
  /\ update' = [update EXCEPT ![u].direct = Tail(@)]
  /\ late' = IF /\ update[u].data = Off \/ update[u].data.left = 0
                /\ Head(update[u].direct) # PulseDoor
             THEN late \cup {update[u].pod} ELSE late

\* The end of handlePollingStateUpdate: what was published is remembered.
Remember(u) ==
  LET p == update[u].pod IN
  /\ update[u].stage = "publishing" /\ update[u].todo = <<>>
  /\ lastPublishedState' = [lastPublishedState EXCEPT ![p] = update[u].data]
  /\ unnoticed' = IF update[u].data = Off THEN unnoticed \ {p} ELSE unnoticed
  /\ update' = [update EXCEPT ![u].stage = "done"]
  /\ UNCHANGED <<connected, session, booked, hardware, crossed, unsent, late>>

\* The connection, and the process: what it remembers and what it is doing are gone
\* when it restarts, the pods go on.
SwitchConnection ==
  /\ connected' = ~connected
  /\ UNCHANGED <<session, booked, update, lastPublishedState, hardware, crossed, unsent,
                 late, unnoticed>>

Restart ==
  /\ connected' = FALSE
  /\ unsent' = unsent \cup {p \in Pods : lastPublishedState[p] # Off \/ BusyWith(p) # {}}
  /\ update' = [u \in Updates |-> IF update[u].stage = "ready" THEN update[u]
                                  ELSE [Ready(update[u].pod) EXCEPT !.stage = "done"]]
  /\ lastPublishedState' = [p \in Pods |-> Off]
  /\ UNCHANGED <<session, booked, hardware, crossed, late, unnoticed>>

Next ==
  \/ \E u \in Updates :
       \/ Book(u) \/ ChangeMood(u) \/ ChangeAroma(u) \/ EndSession(u) \/ PollMiss(u)
       \/ ReadSession(u) \/ Notify(u) \/ PublishNext(u) \/ PublishDirect(u) \/ Remember(u)
  \/ \E p \in Pods : Elapse(p)
  \/ SwitchConnection \/ Restart

Spec == Init /\ [][Next]_vars

-----------------------------------------------------------------------------
\* The shape of every variable.
TypeOK ==
  /\ connected \in BOOLEAN
  /\ session \in [Pods -> Looks \cup {Off}]
  /\ booked \subseteq Sessions
  /\ update \in [Updates -> [pod : Pods,
       stage : {"ready", "reading", "read", "publishing", "done"},
       data : Looks \cup {Off}, todo : Seq(Messages), direct : Seq(Messages)]]
  /\ lastPublishedState \in [Pods -> Looks \cup {Off}]
  /\ hardware \in [Pods -> [rgb : Colors \cup {Dark}, on : SUBSET Diffusers,
                            timed : Sessions \cup {Off}]]
  /\ crossed \subseteq Pods /\ unsent \subseteq Pods
  /\ late \subseteq Pods /\ unnoticed \subseteq Pods

\* A pod of which all was published, in order: updates of it overlapped
\* (mqtt/index.ts:134), a command was skipped for want of a connection or lost with
\* the process (mqtt/index.ts:28), or a handler published what it was asked for
\* although the session had ended (control/handler.ts:73): of others nothing is said.
Undisturbed(p) == p \notin crossed \cup unsent \cup late
Quiet(p) == BusyWith(p) = {}

\* When nothing is under way for a pod, its lamp and its diffusers show the last
\* published state, and that state is the session's, unless the session ended by
\* its timer: whatever was published before, nothing of it stays on.
HardwareFollows ==
  \A p \in Pods : Undisturbed(p) /\ Quiet(p) =>
    LET last == lastPublishedState[p] IN
    IF last = Off
    THEN session[p] = Off /\ hardware[p].rgb = Dark /\ hardware[p].on = {}
    ELSE /\ hardware[p].rgb = last.rgb
         /\ hardware[p].on = {last.aroma} \ {Off}
         /\ session[p] # Off =>
              /\ session[p].id = last.id /\ session[p].aroma = last.aroma
              /\ last.rgb \in {session[p].rgb, Dark}

\* The pod's timer was told what remains of the session it shows; no timer of a
\* session before it counts on. Excused is a pod whose last session ran out without
\* a refresh to see it (mqtt/index.ts:142): if the next one has as long to run as the
\* one before had when it was published, its timer is not started.
SessionTimed ==
  \A p \in Pods : Undisturbed(p) /\ Quiet(p) =>
    LET last == lastPublishedState[p] IN
    \/ p \in unnoticed
    \/ hardware[p].timed = IF last = Off THEN Off ELSE last.id
=============================================================================
