----------------------------- MODULE DoorWindow -----------------------------
(***************************************************************************)
(* The unlock window of a pod's door (services/ommpods/src/mqtt): every    *)
(* publishDoorPulse drives the door open over MQTT and sets a timer of     *)
(* this process that locks it again.  Bookings, emergency unlocks, door    *)
(* scans and the end of a session all call it, and their calls interleave  *)
(* at the await of the publish.                                            *)
(***************************************************************************)
EXTENDS MqttClient, Integers, Sequences, FiniteSets

CONSTANTS
  Calls,       \* executions of publishDoorUnlockWindow, each run at most once
  Duration,    \* durationSeconds, 30 for every caller
  NoTimer      \* doorLockTimers has no entry

ASSUME DoorAssumption == Duration \in Nat /\ NoTimer \notin Calls

VARIABLES
  outbox,      \* messages handed to the client and not acknowledged, in order
  doorOpen,    \* what the door's hardware did with the last command
  call,        \* what each execution is doing, and for which pod
  doorLockTimers,  \* the map: the call whose timer is registered for the pod
  armed,       \* timers that will fire: [by, pod, left]
  (* history variables, read by properties only *)
  window,      \* time left of the window the last unlock opened
  early,       \* pods locked before their window was over
  overlapped,  \* pods of which two calls were under way at once
  forsaken     \* pods whose lock was skipped or died with the process

doorVars == <<connected, outbox, doorOpen, call, doorLockTimers, armed,
          window, early, overlapped, forsaken>>

DoorStages == {"ready", "publishing", "resumed", "done"}
Message == [pod: Pods, command: {"unlock", "lock"}, by: Calls]
Timer == [by: Calls, pod: Pods, left: Nat]

UnderWay(p) ==
  {c \in Calls : call[c].stage \in {"publishing", "resumed"} /\ call[c].pod = p}

DoorInit ==
  /\ connected = FALSE
  /\ outbox = <<>>
  /\ doorOpen = [p \in Pods |-> FALSE]
  /\ call \in [Calls -> [stage: {"ready"}, pod: Pods]]
  /\ doorLockTimers = [p \in Pods |-> NoTimer]
  /\ armed = {}
  /\ window = [p \in Pods |-> 0]
  /\ early = {} /\ overlapped = {} /\ forsaken = {}

----------------------------------------------------------------------------
\* publishMqtt: skipped, and resolved at once, while the client is not connected.
Publish(p, command, c) ==
  outbox' = IF connected
            THEN Append(outbox, [pod |-> p, command |-> command, by |-> c])
            ELSE outbox

\* Mutant: the call forgets to clear the timer of the call before it.
OpenWindowKeepingTimer(c) ==
  LET p == call[c].pod IN
  /\ call[c].stage = "ready"
  /\ Publish(p, "unlock", c)
  /\ call' = [call EXCEPT ![c] =
                [stage |-> IF connected THEN "publishing" ELSE "resumed", pod |-> p]]
  /\ overlapped' = IF UnderWay(p) # {} THEN overlapped \cup {p} ELSE overlapped
  /\ UNCHANGED <<connected, doorOpen, doorLockTimers, armed, window, early, forsaken>>

\* publishDoorUnlockWindow up to its await: the registered timer is cleared and
\* its entry deleted, the unlock is published.
OpenWindow(c) ==
  LET p == call[c].pod IN
  /\ call[c].stage = "ready"
  /\ armed' = {t \in armed : ~(t.pod = p /\ t.by = doorLockTimers[p])}
  /\ doorLockTimers' = [doorLockTimers EXCEPT ![p] = NoTimer]
  /\ Publish(p, "unlock", c)
  /\ call' = [call EXCEPT ![c] =
                [stage |-> IF connected THEN "publishing" ELSE "resumed", pod |-> p]]
  /\ overlapped' = IF UnderWay(p) # {} THEN overlapped \cup {p} ELSE overlapped
  /\ UNCHANGED <<connected, doorOpen, window, early, forsaken>>

\* After the await: setTimeout, and the entry of the map overwritten.
SetTimer(c) ==
  LET p == call[c].pod IN
  /\ call[c].stage = "resumed"
  /\ armed' = armed \cup {[by |-> c, pod |-> p, left |-> Duration]}
  /\ doorLockTimers' = [doorLockTimers EXCEPT ![p] = c]
  /\ call' = [call EXCEPT ![c] = [stage |-> "done", pod |-> p]]
  /\ UNCHANGED <<connected, outbox, doorOpen, window, early,
                 overlapped, forsaken>>

\* Mutants: the callback locks only if its timer is the registered one, yet still
\* deletes the entry; and it does not delete the entry.
FireTimerIfCurrent(t) ==
  /\ t \in armed /\ t.left = 0
  /\ armed' = armed \ {t}
  /\ doorLockTimers' = [doorLockTimers EXCEPT ![t.pod] = NoTimer]
  /\ IF doorLockTimers[t.pod] = t.by
     THEN /\ Publish(t.pod, "lock", t.by)
          /\ forsaken' = IF connected THEN forsaken ELSE forsaken \cup {t.pod}
     ELSE UNCHANGED <<outbox, forsaken>>
  /\ UNCHANGED <<connected, doorOpen, call, window, early, overlapped>>

\* The callback of the timer: it deletes the pod's entry, whose ever it is, and
\* publishes the lock.
FireTimer(t) ==
  /\ t \in armed /\ t.left = 0
  /\ armed' = armed \ {t}
  /\ doorLockTimers' = [doorLockTimers EXCEPT ![t.pod] = NoTimer]
  /\ Publish(t.pod, "lock", t.by)
  /\ forsaken' = IF connected THEN forsaken ELSE forsaken \cup {t.pod}
  /\ UNCHANGED <<connected, doorOpen, call, window, early, overlapped>>

----------------------------------------------------------------------------
(* The broker and the door, the connection and the process *)

\* The oldest message reaches the door and is acknowledged; the await of an
\* unlock resumes.
Deliver ==
  LET m == Head(outbox) IN
  /\ connected /\ outbox # <<>>
  /\ outbox' = Tail(outbox)
  /\ doorOpen' = [doorOpen EXCEPT ![m.pod] = m.command = "unlock"]
  /\ \/ /\ m.command = "unlock"
        /\ window' = [window EXCEPT ![m.pod] = Duration]
        /\ call' = [call EXCEPT ![m.by] = [stage |-> "resumed", pod |-> m.pod]]
        /\ UNCHANGED <<early, forsaken>>
     \/ /\ m.command = "lock"
        /\ early' = IF doorOpen[m.pod] /\ window[m.pod] > 0
                    THEN early \cup {m.pod} ELSE early
        /\ forsaken' = forsaken \ {m.pod}
        /\ UNCHANGED <<window, call>>
  /\ UNCHANGED <<connected, doorLockTimers, armed, overlapped>>

Connect ==
  /\ ~connected
  /\ connected' = TRUE
  /\ UNCHANGED <<outbox, doorOpen, call, doorLockTimers, armed, window,
                 early, overlapped, forsaken>>

\* The client keeps what it was handed and sends it again when it reconnects.
Disconnect ==
  /\ connected
  /\ connected' = FALSE
  /\ UNCHANGED <<outbox, doorOpen, call, doorLockTimers, armed, window,
                 early, overlapped, forsaken>>

\* The process restarts: its timers, its map and its calls are gone.
RestartDoors ==
  /\ connected' = FALSE
  /\ outbox' = <<>>
  /\ call' = [c \in Calls |->
                IF call[c].stage = "ready" THEN call[c]
                ELSE [stage |-> "done", pod |-> call[c].pod]]
  /\ doorLockTimers' = [p \in Pods |-> NoTimer]
  /\ armed' = {}
  /\ forsaken' = forsaken \cup {p \in Pods : doorOpen[p]}
  /\ UNCHANGED <<doorOpen, window, early, overlapped>>

\* Time passes; nothing distinguishes the moments when no countdown is running.
Elapsed(n) == IF n = 0 THEN 0 ELSE n - 1

Tick ==
  /\ (\E t \in armed : t.left > 0) \/ (\E p \in Pods : window[p] > 0)
  /\ armed' = {[t EXCEPT !.left = Elapsed(@)] : t \in armed}
  /\ window' = [p \in Pods |-> Elapsed(window[p])]
  /\ UNCHANGED <<connected, outbox, doorOpen, call, doorLockTimers, early,
                 overlapped, forsaken>>

DoorNext ==
  \/ \E c \in Calls : OpenWindow(c) \/ SetTimer(c)
  \/ \E t \in armed : FireTimer(t)
  \/ Deliver \/ Connect \/ Disconnect \/ RestartDoors \/ Tick

DoorSpec == DoorInit /\ [][DoorNext]_doorVars

\* Node runs what is due; the client reconnects every 3 seconds (reconnectPeriod)
\* and sends what it holds.
DoorFairness ==
  /\ \A c \in Calls : WF_doorVars(SetTimer(c))
  /\ WF_doorVars(\E t \in armed : FireTimer(t))
  /\ SF_doorVars(Deliver)
  /\ WF_doorVars(Connect)
  /\ WF_doorVars(Tick)

FairDoorSpec == DoorSpec /\ DoorFairness

----------------------------------------------------------------------------
\* The shape of every variable; an entry of doorLockTimers is a timer that will
\* fire, so clearTimeout never acts on one that has fired already.
DoorTypeOK ==
  /\ connected \in BOOLEAN
  /\ outbox \in Seq(Message)
  /\ doorOpen \in [Pods -> BOOLEAN]
  /\ call \in [Calls -> [stage: DoorStages, pod: Pods]]
  /\ doorLockTimers \in [Pods -> Calls \cup {NoTimer}]
  /\ armed \subseteq Timer
  /\ \A p \in Pods : doorLockTimers[p] # NoTimer =>
       \E t \in armed : t.by = doorLockTimers[p] /\ t.pod = p
  /\ window \in [Pods -> Nat]
  /\ early \subseteq Pods /\ overlapped \subseteq Pods /\ forsaken \subseteq Pods

\* An open door has something on its way that will lock it, unless the lock was
\* skipped for want of a connection or lost with the process: overlapping calls
\* may orphan a timer, but never leave the door with none.
LockIsComing ==
  \A p \in Pods :
    doorOpen[p] =>
      \/ \E t \in armed : t.pod = p
      \/ UnderWay(p) # {}
      \/ \E i \in DOMAIN outbox : outbox[i].pod = p /\ outbox[i].command = "lock"
      \/ p \in forsaken

\* Calls that do not overlap each get their whole window: a call clears the timer
\* of the one before it, so no old timer closes a new window.
WindowKept == early \subseteq overlapped

\* A door that opened is locked again, unless the lock was skipped or lost.
DoorRelocks ==
  \A p \in Pods : doorOpen[p] ~> (~doorOpen[p] \/ p \in forsaken)
=============================================================================
