-------------------------- MODULE PodHardwareProofs --------------------------
(***************************************************************************)
(* A pod's lamp, diffusers and timer follow its session, for any pods,     *)
(* updates, sessions, colors and diffusers.  The publisher sends only what *)
(* differs from the last state it published, so that state must be what    *)
(* the pod shows whenever a comparison is made; and while commands are on  *)
(* their way, all that is still to be changed must be among them, and      *)
(* nothing among them or among the handler's own may lead elsewhere.       *)
(* Then the door, for any pods, calls and length of the window.            *)
(***************************************************************************)
EXTENDS PodHardware, DoorWindow, FiniteSetTheorems, TLAPS

Stages == {"ready", "reading", "read", "publishing", "done"}
UpdateType == [pod : Pods, stage : Stages, data : Looks \cup {Off},
               todo : Seq(Messages), direct : Seq(Messages)]
HardwareType == [rgb : Colors \cup {Dark}, on : SUBSET Diffusers, timed : Sessions \cup {Off}]

-----------------------------------------------------------------------------
(* The inductive invariant.                                                 *)

\* What a pod is to do while its polling state is look.
Want(look) ==
  [rgb |-> IF look = Off THEN Dark ELSE look.rgb,
   on |-> IF look = Off THEN {} ELSE {look.aroma} \ {Off},
   timed |-> IF look = Off THEN Off ELSE look.id]

\* Its lamp and diffusers do it; its timer does, or is excused.
Shows(p, look) == hardware[p].rgb = Want(look).rgb /\ hardware[p].on = Want(look).on
Excused(p, look) == look # Off /\ p \in unnoticed
Timed(p, look) == Excused(p, look) \/ hardware[p].timed = Want(look).timed

\* A command that leads there.
Turn(m, look) == IF m \in Want(look).on THEN Diffuser(m) ELSE DiffuserOff(m)
Agrees(c, look) ==
  \/ c = PulseDoor \/ c = Lamp(Want(look).rgb) \/ c = Shut(Want(look).timed)
  \/ \E m \in Diffusers : c = Turn(m, look)

\* What a handler publishes by itself leads there too, while the session runs.
Chosen(direct, look) ==
  \A c \in Range(direct) : c = PulseDoor \/ look = Off \/ look.left = 0 \/ Agrees(c, look)

\* The commands lead there, and those that are needed are among them.
Leads(p, todo, look) ==
  /\ \A c \in Range(todo) : Agrees(c, look)
  /\ hardware[p].rgb = Want(look).rgb \/ Lamp(Want(look).rgb) \in Range(todo)
  /\ \A m \in Diffusers : \/ m \in hardware[p].on <=> m \in Want(look).on
                          \/ Turn(m, look) \in Range(todo)
  /\ Timed(p, look) \/ Shut(Want(look).timed) \in Range(todo)

\* What was read of the session is still true of it, but for the time that is left.
Known(p, look) ==
  IF look = Off THEN session[p] = Off
  ELSE /\ session[p] # Off => /\ session[p].id = look.id /\ session[p].aroma = look.aroma
                              /\ look.rgb \in {session[p].rgb, Dark}
       /\ p \in unnoticed \/ session[p] # Off

\* Of one session, unless one ran out unnoticed.
SameSession(p, old, new) == p \notin unnoticed /\ old # Off /\ new # Off => old.id = new.id

Steady(p) ==
  /\ Shows(p, lastPublishedState[p]) /\ Timed(p, lastPublishedState[p])
  /\ Known(p, lastPublishedState[p])

\* An update of p, the only one under way.
Reading(p, u) ==
  /\ Shows(p, lastPublishedState[p]) /\ Timed(p, lastPublishedState[p])
  /\ SameSession(p, lastPublishedState[p], session[p])
  /\ Chosen(update[u].direct, session[p])
Comparing(p, u) ==
  /\ Shows(p, lastPublishedState[p]) /\ Timed(p, lastPublishedState[p])
  /\ SameSession(p, lastPublishedState[p], update[u].data)
Publishing(p, u) == Leads(p, update[u].todo, update[u].data)
Published(p, u) ==
  /\ update[u].data = lastPublishedState[p]
  /\ Shows(p, update[u].data) /\ Timed(p, update[u].data)

Working(p, u) ==
  /\ update[u].stage # "ready"
  /\ update[u].stage = "reading" => Reading(p, u)
  /\ update[u].stage = "read" => Comparing(p, u)
  /\ update[u].stage = "publishing" => Publishing(p, u)
  /\ update[u].stage = "done" => Published(p, u)
  /\ update[u].stage # "reading" => /\ Chosen(update[u].direct, update[u].data)
                                    /\ Known(p, update[u].data)

Following(p) ==
  Undisturbed(p) => \/ Quiet(p) /\ Steady(p)
                    \/ \E u \in Updates : BusyWith(p) = {u} /\ Working(p, u)

IInv == TypeOK /\ \A p \in Pods : Following(p)

-----------------------------------------------------------------------------
(* Commands.                                                                *)

\* Every command is a message, of one of five parts.
LEMMA Parts ==
  \A c \in Messages :
    /\ c = PulseDoor \/ c.part # "door"
    /\ c.part = "rgb" => c.value \in Colors \cup {Dark} /\ c = Lamp(c.value)
    /\ c.part = "timer" => c.value \in Sessions \cup {Off} /\ c = Shut(c.value)
    /\ c.part = "on" => c.value \in Diffusers /\ c = Diffuser(c.value)
    /\ c.part = "off" => c.value \in Diffusers /\ c = DiffuserOff(c.value)
    /\ c.part \in {"rgb", "timer", "on", "off", "door"}
  BY DEF Messages, PulseDoor, Lamp, Shut, Diffuser, DiffuserOff

\* The first command, and the others.
LEMMA Ahead ==
  ASSUME NEW S, NEW s \in Seq(S), s # <<>>
  PROVE  /\ Head(s) \in S /\ Tail(s) \in Seq(S)
         /\ Range(s) = {Head(s)} \cup Range(Tail(s))
<1>1. Head(s) \in S /\ Tail(s) \in Seq(S) /\ Head(s) = s[1] /\ Len(s) \in Nat /\ Len(s) > 0
  OBVIOUS
<1>2. Len(Tail(s)) = Len(s) - 1 /\ \A i \in 1..(Len(s) - 1) : Tail(s)[i] = s[i + 1]
  OBVIOUS
<1>3. DOMAIN s = 1..Len(s) /\ DOMAIN Tail(s) = 1..Len(Tail(s))
  BY <1>1
<1>4. \A c \in Range(s) : c = Head(s) \/ c \in Range(Tail(s))
  <2> TAKE c \in Range(s)
  <2>1. PICK i \in 1..Len(s) : c = s[i]
    BY <1>3 DEF Range
  <2>2. CASE i = 1
    BY <1>1, <2>1, <2>2
  <2>3. CASE i # 1
    <3>1. i - 1 \in 1..(Len(s) - 1) /\ Tail(s)[i - 1] = c
      BY <1>1, <1>2, <2>1, <2>3
    <3> QED
      BY <1>2, <1>3, <3>1 DEF Range
  <2> QED
    BY <2>2, <2>3
<1>5. \A c \in Range(Tail(s)) : c \in Range(s)
  <2> TAKE c \in Range(Tail(s))
  <2>1. PICK i \in 1..(Len(s) - 1) : c = Tail(s)[i]
    BY <1>2, <1>3 DEF Range
  <2>2. c = s[i + 1] /\ i + 1 \in 1..Len(s)
    BY <1>1, <1>2, <2>1
  <2> QED
    BY <1>3, <2>2 DEF Range
<1>6. Head(s) \in Range(s)
  BY <1>1, <1>3 DEF Range
<1> QED
  BY <1>1, <1>4, <1>5, <1>6

LEMMA RangeEmpty == Range(<<>>) = {}
  BY DEF Range

LEMMA RangeOne == \A c : Range(<<c>>) = {c}
  BY DEF Range

\* What is in a sequence or in another is in both together.
LEMMA RangeBoth ==
  ASSUME NEW S, NEW s \in Seq(S), NEW t \in Seq(S)
  PROVE  s \o t \in Seq(S) /\ Range(s \o t) = Range(s) \cup Range(t)
<1>1. /\ s \o t \in Seq(S) /\ Len(s \o t) = Len(s) + Len(t)
      /\ DOMAIN s = 1..Len(s) /\ DOMAIN t = 1..Len(t) /\ DOMAIN (s \o t) = 1..(Len(s) + Len(t))
      /\ Len(s) \in Nat /\ Len(t) \in Nat
  OBVIOUS
<1>2. /\ \A i \in 1..Len(s) : (s \o t)[i] = s[i]
      /\ \A i \in 1..Len(t) : (s \o t)[Len(s) + i] = t[i]
  BY <1>1
<1>3. \A c \in Range(s \o t) : c \in Range(s) \cup Range(t)
  <2> TAKE c \in Range(s \o t)
  <2>1. PICK i \in 1..(Len(s) + Len(t)) : c = (s \o t)[i]
    BY <1>1 DEF Range
  <2>2. CASE i <= Len(s)
    BY <1>1, <1>2, <2>1, <2>2 DEF Range
  <2>3. CASE i > Len(s)
    <3>1. i - Len(s) \in 1..Len(t) /\ Len(s) + (i - Len(s)) = i
      BY <1>1, <2>1, <2>3
    <3>2. c = t[i - Len(s)]
      BY <1>2, <2>1, <3>1
    <3> QED
      BY <1>1, <3>1, <3>2 DEF Range
  <2> QED
    BY <1>1, <2>1, <2>2, <2>3
<1>4. \A c \in Range(s) : c \in Range(s \o t)
  BY <1>1, <1>2 DEF Range
<1>5. \A c \in Range(t) : c \in Range(s \o t)
  <2> TAKE c \in Range(t)
  <2>1. PICK i \in 1..Len(t) : c = t[i]
    BY <1>1 DEF Range
  <2>2. c = (s \o t)[Len(s) + i] /\ Len(s) + i \in 1..(Len(s) + Len(t))
    BY <1>1, <1>2, <2>1
  <2> QED
    BY <1>1, <2>2 DEF Range
<1> QED
  BY <1>1, <1>3, <1>4, <1>5

\* A command that is published on a condition.
LEMMA RangeIf ==
  ASSUME NEW S, NEW b \in BOOLEAN, NEW c, b => c \in S
  PROVE  If(b, c) \in Seq(S) /\ Range(If(b, c)) = IF b THEN {c} ELSE {}
<1>1. CASE b
  BY <1>1, RangeOne DEF If
<1>2. CASE ~b
  BY <1>2, RangeEmpty DEF If
<1> QED
  BY <1>1, <1>2

\* The commands that stop every diffuser are a list of them.
LEMMA AllOffListed ==
  LET AllOff == {DiffuserOff(m) : m \in Diffusers} IN
  SetToSeq(AllOff) \in Seq(Messages) /\ Range(SetToSeq(AllOff)) \subseteq AllOff
<1> DEFINE AllOff == {DiffuserOff(m) : m \in Diffusers}
<1>1. PICK n \in Nat : ExistsBijection(1..n, Diffusers)
  BY HardwareAssumption, FS_NatBijection
<1>2. PICK f : f \in Bijection(1..n, Diffusers)
  BY <1>1 DEF ExistsBijection
<1> DEFINE g == [i \in 1..n |-> DiffuserOff(f[i])]
<1>3. g \in Bijection(1..n, AllOff)
  BY <1>2 DEF Bijection, Injection, Surjection, IsInjective, DiffuserOff
<1>4. Cardinality(AllOff) = n
  <2> HIDE DEF g, AllOff
  <2> QED
    BY <1>3, FS_CountingElements DEF ExistsBijection
<1>5. g \in [1..n -> AllOff] /\ IsInjective(g)
  BY <1>3 DEF Bijection, Injection
<1> DEFINE s == SetToSeq(AllOff)
<1>6. s \in [1..n -> AllOff]
  <2> HIDE DEF g, AllOff
  <2> QED
    BY <1>4, <1>5 DEF SetToSeq
<1>7. AllOff \subseteq Messages
  BY DEF Messages
<1> HIDE DEF s, AllOff
<1>8. s \in Seq(Messages)
  BY <1>6, <1>7
<1>9. Range(s) \subseteq AllOff
  BY <1>6 DEF Range
<1> QED
  BY <1>8, <1>9 DEF s, AllOff

-----------------------------------------------------------------------------
(* What the publisher sends.                                                *)

\* No look is Off, and what a pod is told to do is what a pod can do.
LEMMA LooksAre ==
  /\ Off \notin Looks /\ PulseDoor \in Messages
  /\ \A look \in Looks \cup {Off} : /\ Want(look) \in HardwareType
                                    /\ Lamp(Want(look).rgb) \in Messages
                                    /\ Shut(Want(look).timed) \in Messages
  /\ \A m \in Diffusers : Diffuser(m) \in Messages /\ DiffuserOff(m) \in Messages
<1>1. PulseDoor \in Messages /\ \A m \in Diffusers : Diffuser(m) \in Messages /\ DiffuserOff(m) \in Messages
  BY DEF Messages
<1>2. \A rgb \in Colors \cup {Dark} : Lamp(rgb) \in Messages
  BY DEF Messages
<1>3. \A s \in Sessions \cup {Off} : Shut(s) \in Messages
  BY DEF Messages
<1>4. Off \notin Looks
  BY HardwareAssumption
<1>5. \A look \in Looks \cup {Off} : Want(look) \in HardwareType
  <2> SUFFICES ASSUME NEW look \in Looks \cup {Off} PROVE Want(look) \in HardwareType
    OBVIOUS
  <2>1. CASE look = Off
    BY <2>1 DEF Want, HardwareType
  <2>2. CASE look # Off
    BY <2>2 DEF Want, HardwareType, Looks
  <2> QED
    BY <2>1, <2>2
<1>6. \A look \in Looks \cup {Off} : Want(look).rgb \in Colors \cup {Dark} /\ Want(look).timed \in Sessions \cup {Off}
  BY <1>5 DEF HardwareType
<1> QED
  BY <1>1, <1>2, <1>3, <1>4, <1>5, <1>6

\* What differs from what was published is sent, and leads to what was read.
LEMMA CommandsLead ==
  ASSUME NEW old \in Looks \cup {Off}, NEW new \in Looks, NEW p
  PROVE  /\ Commands(old, new) \in Seq(Messages)
         /\ Shows(p, old) /\ Timed(p, old) /\ SameSession(p, old, new)
            => Leads(p, Commands(old, new), new)
<1> DEFINE b1 == old = Off \/ old.left # new.left
           b2 == old = Off \/ old.rgb # new.rgb
           b3 == old # Off /\ old.aroma \notin {Off, new.aroma}
           b4 == new.aroma # Off /\ (old = Off \/ old.aroma # new.aroma)
           c1 == If(b1, Shut(new.id))
           c2 == If(b2, Lamp(new.rgb))
           c3 == IF b3 THEN <<DiffuserOff(old.aroma)>> ELSE <<>>
           c4 == If(b4, Diffuser(new.aroma))
<1>1. /\ new # Off /\ Shut(new.id) \in Messages /\ Lamp(new.rgb) \in Messages
      /\ Want(new).rgb = new.rgb /\ Want(new).on = {new.aroma} \ {Off} /\ Want(new).timed = new.id
      /\ new.aroma \in Diffusers \cup {Off}
  BY LooksAre DEF Want, Looks
<1>2. /\ b3 => old.aroma \in Diffusers
      /\ b4 => new.aroma \in Diffusers
  BY <1>1 DEF Looks
<1>3. c1 \in Seq(Messages) /\ Range(c1) = IF b1 THEN {Shut(new.id)} ELSE {}
  <2> HIDE DEF b1
  <2>1. (b1) \in BOOLEAN
    BY DEF b1
  <2> QED
    BY <1>1, <2>1, RangeIf
<1>4. c2 \in Seq(Messages) /\ Range(c2) = IF b2 THEN {Lamp(new.rgb)} ELSE {}
  <2> HIDE DEF b2
  <2>1. (b2) \in BOOLEAN
    BY DEF b2
  <2> QED
    BY <1>1, <2>1, RangeIf
<1>5. c3 \in Seq(Messages) /\ Range(c3) = IF b3 THEN {DiffuserOff(old.aroma)} ELSE {}
  <2> HIDE DEF b3
  <2>1. b3 => DiffuserOff(old.aroma) \in Messages
    BY <1>2, LooksAre
  <2>2. CASE b3
    BY <2>1, <2>2, RangeOne
  <2>3. CASE ~b3
    BY <2>3, RangeEmpty
  <2> QED
    BY <2>2, <2>3
<1>6. c4 \in Seq(Messages) /\ Range(c4) = IF b4 THEN {Diffuser(new.aroma)} ELSE {}
  <2> HIDE DEF b4
  <2>1. (b4) \in BOOLEAN
    BY DEF b4
  <2>2. b4 => Diffuser(new.aroma) \in Messages
    BY <1>2, LooksAre
  <2> QED
    BY <2>1, <2>2, RangeIf
<1> DEFINE todo == Commands(old, new)
<1>7. todo = c1 \o c2 \o c3 \o c4
  BY DEF Commands
<1>8. todo \in Seq(Messages) /\ Range(todo) = Range(c1) \cup Range(c2) \cup Range(c3) \cup Range(c4)
  <2> HIDE DEF c1, c2, c3, c4, todo
  <2>1. c1 \o c2 \in Seq(Messages) /\ Range(c1 \o c2) = Range(c1) \cup Range(c2)
    BY <1>3, <1>4, RangeBoth
  <2> DEFINE d == c1 \o c2
             e == d \o c3
  <2> HIDE DEF d
  <2>2. d \in Seq(Messages) /\ Range(d) = Range(c1) \cup Range(c2)
    BY <2>1 DEF d
  <2>3. e \in Seq(Messages) /\ Range(e) = Range(d) \cup Range(c3)
    BY <1>5, <2>2, RangeBoth
  <2> HIDE DEF e
  <2>4. e \o c4 \in Seq(Messages) /\ Range(e \o c4) = Range(e) \cup Range(c4)
    BY <1>6, <2>3, RangeBoth
  <2>5. todo = e \o c4
    BY <1>7 DEF d, e
  <2> QED
    BY <2>2, <2>3, <2>4, <2>5
<1> HIDE DEF todo, c1, c2, c3, c4
<1>9. \A c \in Range(todo) : Agrees(c, new)
  <2> TAKE c \in Range(todo)
  <2>1. CASE c \in Range(c1) \cup Range(c2)
    BY <1>1, <1>3, <1>4, <2>1 DEF Agrees
  <2>2. CASE c \in Range(c3)
    BY <1>1, <1>2, <1>5, <2>2 DEF Agrees, Turn
  <2>3. CASE c \in Range(c4)
    BY <1>1, <1>2, <1>6, <2>3 DEF Agrees, Turn
  <2> QED
    BY <1>8, <2>1, <2>2, <2>3
<1>10. ASSUME Shows(p, old), Timed(p, old), SameSession(p, old, new)
       PROVE  Leads(p, todo, new)
  <2>1. hardware[p].rgb = Want(new).rgb \/ Lamp(Want(new).rgb) \in Range(todo)
    BY <1>1, <1>4, <1>8, <1>10 DEF Shows, Want
  <2>2. ASSUME NEW m \in Diffusers
        PROVE  (m \in hardware[p].on <=> m \in Want(new).on) \/ Turn(m, new) \in Range(todo)
    <3>0. m # Off
      BY HardwareAssumption
    <3>1. CASE m \in Want(new).on /\ m \notin hardware[p].on
      <4>1. m = new.aroma /\ b4
        BY <1>1, <1>10, <3>0, <3>1 DEF Shows, Want
      <4> QED
        BY <1>6, <1>8, <3>1, <4>1 DEF Turn
    <3>2. CASE m \notin Want(new).on /\ m \in hardware[p].on
      <4>1. old # Off /\ m = old.aroma /\ b3
        BY <1>1, <1>10, <3>0, <3>2 DEF Shows, Want
      <4> QED
        BY <1>5, <1>8, <3>2, <4>1 DEF Turn
    <3> QED
      BY <3>1, <3>2
  <2>3. Timed(p, new) \/ Shut(Want(new).timed) \in Range(todo)
    BY <1>1, <1>3, <1>8, <1>10 DEF Timed, Excused, SameSession, Want
  <2> QED
    BY <1>9, <2>1, <2>2, <2>3 DEF Leads
<1> QED
  BY <1>8, <1>10 DEF todo

\* At the end of a session everything is sent.
LEMMA EndCommandsLead ==
  ASSUME NEW old \in Looks, NEW p
  PROVE  EndCommands(old) \in Seq(Messages) /\ (Shows(p, old) => Leads(p, EndCommands(old), Off))
<1> DEFINE b == old.aroma # Off
           c1 == <<PulseDoor, Shut(Off), Lamp(Dark)>>
           c2 == If(b, DiffuserOff(old.aroma))
           todo == EndCommands(old)
<1>1. /\ Want(Off).rgb = Dark /\ Want(Off).on = {} /\ Want(Off).timed = Off
      /\ PulseDoor \in Messages /\ Shut(Off) \in Messages /\ Lamp(Dark) \in Messages
      /\ old # Off /\ old.aroma \in Diffusers \cup {Off} /\ Want(old).on = {old.aroma} \ {Off}
  BY LooksAre DEF Want, Looks
<1>2. c1 \in Seq(Messages) /\ Range(c1) = {PulseDoor, Shut(Off), Lamp(Dark)}
  BY <1>1 DEF Range
<1>3. c2 \in Seq(Messages) /\ Range(c2) = IF b THEN {DiffuserOff(old.aroma)} ELSE {}
  <2>1. b => DiffuserOff(old.aroma) \in Messages
    BY <1>1, LooksAre
  <2>2. (b) \in BOOLEAN
    OBVIOUS
  <2> HIDE DEF b
  <2> QED
    BY <2>1, <2>2, RangeIf
<1>4. todo = c1 \o c2
  BY DEF EndCommands
<1> HIDE DEF c1, c2, todo
<1>5. todo \in Seq(Messages) /\ Range(todo) = Range(c1) \cup Range(c2)
  BY <1>2, <1>3, <1>4, RangeBoth
<1>6. \A c \in Range(todo) : Agrees(c, Off)
  BY <1>1, <1>2, <1>3, <1>5 DEF Agrees, Turn
<1>7. ASSUME Shows(p, old), NEW m \in Diffusers
      PROVE  (m \in hardware[p].on <=> m \in Want(Off).on) \/ Turn(m, Off) \in Range(todo)
  BY <1>1, <1>3, <1>5, <1>7 DEF Shows, Turn
<1> QED
  BY <1>1, <1>2, <1>5, <1>6, <1>7 DEF Leads, todo

\* A command that leads there changes nothing that is right and puts its part right.
LEMMA ToldLeads ==
  ASSUME NEW h \in HardwareType, NEW look \in Looks \cup {Off}, NEW c \in Messages, Agrees(c, look)
  PROVE  /\ \/ Told(h, c).rgb = Want(look).rgb
            \/ Told(h, c).rgb = h.rgb /\ c # Lamp(Want(look).rgb)
         /\ \A m \in Diffusers : \/ m \in Told(h, c).on <=> m \in Want(look).on
                                 \/ (m \in Told(h, c).on <=> m \in h.on) /\ c # Turn(m, look)
         /\ \/ Told(h, c).timed = Want(look).timed
            \/ Told(h, c).timed = h.timed /\ c # Shut(Want(look).timed)
         /\ Told(h, c).on \subseteq Diffusers
<1>1. CASE c = PulseDoor
  BY <1>1 DEF PulseDoor, Told, Lamp, Shut, Turn, Diffuser, DiffuserOff, HardwareType
<1>2. CASE c = Lamp(Want(look).rgb)
  BY <1>2 DEF Told, Lamp, Shut, Turn, Diffuser, DiffuserOff, HardwareType
<1>3. CASE c = Shut(Want(look).timed)
  BY <1>3 DEF Told, Lamp, Shut, Turn, Diffuser, DiffuserOff, HardwareType
<1>4. ASSUME NEW n \in Diffusers, c = Turn(n, look)
      PROVE  /\ Told(h, c).rgb = h.rgb /\ c # Lamp(Want(look).rgb)
             /\ \A m \in Diffusers : \/ m \in Told(h, c).on <=> m \in Want(look).on
                                     \/ (m \in Told(h, c).on <=> m \in h.on) /\ c # Turn(m, look)
             /\ Told(h, c).timed = h.timed /\ c # Shut(Want(look).timed)
             /\ Told(h, c).on \subseteq Diffusers
  <2>1. CASE n \in Want(look).on
    BY <1>4, <2>1 DEF Told, Lamp, Shut, Turn, Diffuser, DiffuserOff, HardwareType
  <2>2. CASE n \notin Want(look).on
    BY <1>4, <2>2 DEF Told, Lamp, Shut, Turn, Diffuser, DiffuserOff, HardwareType
  <2> QED
    BY <2>1, <2>2
<1> QED
  BY <1>1, <1>2, <1>3, <1>4 DEF Agrees

\* What a pod is told leaves it a lamp, diffusers and a timer.
LEMMA ToldIs ==
  ASSUME NEW h \in HardwareType, NEW c \in Messages
  PROVE  Told(h, c) \in HardwareType
  BY Parts DEF Told, HardwareType

-----------------------------------------------------------------------------
(* One pod, one update.                                                     *)

Grows(p) == (p \in crossed => p \in crossed') /\ (p \in unsent => p \in unsent') /\ (p \in late => p \in late')

\* A step that leaves a pod and its updates alone.
LEMMA Elsewhere ==
  ASSUME NEW p \in Pods, Following(p), Grows(p),
         \A v \in Updates : /\ update'[v].pod = update[v].pod
                            /\ update[v].pod = p => update'[v] = update[v],
         session'[p] = session[p], lastPublishedState'[p] = lastPublishedState[p],
         hardware'[p] = hardware[p], p \in unnoticed <=> p \in unnoticed'
  PROVE  Following(p)'
<1> SUFFICES ASSUME Undisturbed(p)'
             PROVE  \/ Quiet(p)' /\ Steady(p)'
                    \/ \E u \in Updates : BusyWith(p)' = {u} /\ Working(p, u)'
  BY DEF Following
<1>1. Undisturbed(p)
  BY DEF Undisturbed, Grows
<1>2. BusyWith(p)' = BusyWith(p)
  BY DEF BusyWith, Busy
<1>3. CASE Quiet(p) /\ Steady(p)
  BY <1>2, <1>3 DEF Quiet, Steady, Shows, Timed, Excused, Known
<1>4. ASSUME NEW u \in Updates, BusyWith(p) = {u}, Working(p, u)
      PROVE  BusyWith(p)' = {u} /\ Working(p, u)'
  <2>1. update[u].pod = p
    BY <1>4 DEF BusyWith
  <2>2. update'[u] = update[u]
    BY <2>1
  <2>3. Reading(p, u) => Reading(p, u)'
    BY <2>2 DEF Reading, Shows, Timed, Excused, SameSession, Chosen
  <2>4. Comparing(p, u) => Comparing(p, u)'
    BY <2>2 DEF Comparing, Shows, Timed, Excused, SameSession
  <2>5. Publishing(p, u) => Publishing(p, u)'
    BY <2>2 DEF Publishing, Leads, Timed, Excused
  <2>6. Published(p, u) => Published(p, u)'
    BY <2>2 DEF Published, Shows, Timed, Excused
  <2> QED
    BY <1>2, <1>4, <2>2, <2>3, <2>4, <2>5, <2>6 DEF Working, Chosen, Known
<1> QED
  BY <1>1, <1>3, <1>4 DEF Following

Active(n) == n.stage \notin {"ready", "done"} \/ n.direct # <<>>

\* What a step of one update has to show.
LEMMA OneUpdate ==
  ASSUME TypeOK, TypeOK', \A p \in Pods : Following(p),
         NEW u \in Updates, NEW n \in UpdateType, n.pod = update[u].pod,
         update' = [update EXCEPT ![u] = n],
         \A q \in Pods \ {n.pod} :
           /\ session'[q] = session[q] /\ lastPublishedState'[q] = lastPublishedState[q]
           /\ hardware'[q] = hardware[q]
           /\ q \in unnoticed <=> q \in unnoticed',
         \A q \in Pods : Grows(q),
         Undisturbed(n.pod)' => /\ BusyWith(n.pod) \subseteq {u}
                                /\ IF Active(n) THEN Working(n.pod, u)' ELSE Steady(n.pod)'
  PROVE  IInv'
<1>1. update'[u] = n /\ \A v \in Updates \ {u} : update'[v] = update[v]
  BY DEF TypeOK
<1>2. ASSUME NEW q \in Pods \ {n.pod} PROVE Following(q)'
  BY <1>1, Elsewhere
<1>3. Following(n.pod)'
  <2> SUFFICES ASSUME Undisturbed(n.pod)'
               PROVE  \/ Quiet(n.pod)' /\ Steady(n.pod)'
                      \/ BusyWith(n.pod)' = {u} /\ Working(n.pod, u)'
    BY DEF Following
  <2>1. BusyWith(n.pod)' = IF Active(n) THEN {u} ELSE {}
    <3>1. \A v \in Updates : v \in BusyWith(n.pod)' <=> v = u /\ Active(n)
      BY <1>1 DEF BusyWith, Busy, Active
    <3>2. BusyWith(n.pod)' \subseteq Updates
      BY DEF BusyWith
    <3> QED
      BY <3>1, <3>2
  <2> QED
    BY <2>1 DEF Quiet
<1>4. n.pod \in Pods
  BY DEF UpdateType
<1> QED
  BY <1>2, <1>3, <1>4 DEF IInv

\* An update that is under way works as its stage says, and no other one does.
LEMMA Alone ==
  ASSUME IInv, NEW u \in Updates, Busy(u), Undisturbed(update[u].pod)
  PROVE  BusyWith(update[u].pod) = {u} /\ Working(update[u].pod, u)
<1>1. update[u].pod \in Pods /\ u \in BusyWith(update[u].pod)
  BY DEF IInv, TypeOK, BusyWith
<1>2. Following(update[u].pod)
  BY <1>1 DEF IInv
<1> QED
  BY <1>1, <1>2 DEF Following, Quiet

\* A change and the start of its refresh.
LEMMA RefreshKeeps ==
  ASSUME IInv, NEW u \in Updates, NEW direct \in Seq(Messages), Refresh(u, direct),
         NEW s \in Looks \cup {Off}, session' = [session EXCEPT ![update[u].pod] = s],
         booked' \subseteq Sessions,
         session[update[u].pod] # Off /\ s # Off => s.id = session[update[u].pod].id,
         Chosen(direct, s)
  PROVE  IInv'
<1> PICK p : p = update[u].pod
  OBVIOUS
<1> PICK n : n = [update[u] EXCEPT !.stage = "reading", !.direct = direct]
  OBVIOUS
<1>1. /\ update[u] \in UpdateType /\ n \in UpdateType /\ n.pod = p /\ n.stage = "reading"
      /\ n.direct = direct /\ update[u].stage = "ready" /\ p \in Pods
  BY DEF IInv, TypeOK, UpdateType, Stages, Refresh
<1>2. update' = [update EXCEPT ![u] = n] /\ session'[p] = s
  BY <1>1 DEF IInv, TypeOK, Refresh
<1>3. TypeOK'
  BY <1>1, <1>2 DEF IInv, TypeOK, UpdateType, Stages, Refresh
<1>4. \A q \in Pods : Grows(q)
  BY DEF Grows, Refresh
<1>5. ASSUME Undisturbed(p)'
      PROVE  BusyWith(p) \subseteq {u} /\ Working(p, u)'
  <2>1. Undisturbed(p) /\ BusyWith(p) = {}
    BY <1>1, <1>5 DEF Undisturbed, Refresh
  <2>2. Steady(p)
    BY <1>1, <2>1 DEF IInv, Following
  <2>3. SameSession(p, lastPublishedState[p], s)
    BY <2>2 DEF Steady, Known, SameSession
  <2>4. update'[u] = n
    BY <1>2 DEF IInv, TypeOK
  <2>5. Reading(p, u)'
    BY <1>1, <1>2, <2>2, <2>3, <2>4 DEF Reading, Steady, Shows, Timed, Excused, SameSession, Chosen,
       Refresh
  <2> QED
    BY <1>1, <2>1, <2>4, <2>5 DEF Working
<1>6. \A q \in Pods \ {p} :
        /\ session'[q] = session[q] /\ lastPublishedState'[q] = lastPublishedState[q]
        /\ hardware'[q] = hardware[q]
        /\ q \in unnoticed <=> q \in unnoticed'
  BY DEF IInv, TypeOK, Refresh
<1>7. Active(n)
  BY <1>1 DEF Active
<1> QED
  BY <1>1, <1>2, <1>3, <1>4, <1>5, <1>6, <1>7, OneUpdate DEF IInv

-----------------------------------------------------------------------------
(* The handlers.                                                            *)

LEMMA BookKeeps ==
  ASSUME IInv, NEW u \in Updates, Book(u)
  PROVE  IInv'
<1>1. PICK s \in Sessions \ booked, rgb \in Colors :
        /\ session' = [session EXCEPT ![update[u].pod] =
                         [id |-> s, left |-> Full, rgb |-> rgb, aroma |-> Off]]
        /\ booked' = booked \cup {s}
  BY DEF Book
<1>2. session[update[u].pod] = Off /\ Refresh(u, <<PulseDoor>>)
  BY DEF Book
<1> PICK new : new = [id |-> s, left |-> Full, rgb |-> rgb, aroma |-> Off]
  OBVIOUS
<1>3. new \in Looks
  BY HardwareAssumption DEF Looks
<1>4. <<PulseDoor>> \in Seq(Messages) /\ Chosen(<<PulseDoor>>, new)
  BY LooksAre, RangeOne DEF Chosen
<1>5. booked' \subseteq Sessions
  BY <1>1 DEF IInv, TypeOK
<1> QED
  BY <1>1, <1>2, <1>3, <1>4, <1>5, RefreshKeeps

LEMMA NothingChosen == \A s : <<>> \in Seq(Messages) /\ Chosen(<<>>, s)
  BY RangeEmpty DEF Chosen

LEMMA ChangeMoodKeeps ==
  ASSUME IInv, NEW u \in Updates, ChangeMood(u)
  PROVE  IInv'
<1> PICK p : p = update[u].pod
  OBVIOUS
<1>0. PICK rgb \in Colors :
        /\ session' = [session EXCEPT ![p].rgb = rgb]
        /\ \E direct \in {<<>>, <<Lamp(rgb)>>} : Refresh(u, direct)
  BY DEF ChangeMood
<1>1. PICK direct \in {<<>>, <<Lamp(rgb)>>} : Refresh(u, direct)
  BY <1>0
<1> PICK s : s = [session[p] EXCEPT !.rgb = rgb]
  OBVIOUS
<1>2. p \in Pods /\ session[p] \in Looks /\ booked' \subseteq Sessions
  BY DEF IInv, TypeOK, ChangeMood
<1>3. s \in Looks /\ s.id = session[p].id /\ s.rgb = rgb /\ s # Off
  BY <1>2, LooksAre DEF Looks
<1>4. Chosen(<<Lamp(rgb)>>, s)
  BY <1>3, RangeOne DEF Chosen, Agrees, Want
<1>5. <<Lamp(rgb)>> \in Seq(Messages)
  BY DEF Messages
<1>6. direct \in Seq(Messages) /\ Chosen(direct, s)
  BY <1>1, <1>4, <1>5, NothingChosen
<1> QED
  BY <1>0, <1>1, <1>2, <1>3, <1>6, RefreshKeeps

LEMMA ChangeAromaKeeps ==
  ASSUME IInv, NEW u \in Updates, ChangeAroma(u)
  PROVE  IInv'
<1> PICK p : p = update[u].pod
  OBVIOUS
<1> DEFINE AllOff == {DiffuserOff(m) : m \in Diffusers}
<1>0. PICK m \in Diffusers \cup {Off} :
        /\ session' = [session EXCEPT ![p].aroma = m]
        /\ \E direct \in {<<>>, IF m = Off THEN SetToSeq(AllOff) ELSE <<Diffuser(m)>>} :
             Refresh(u, direct)
  BY DEF ChangeAroma
<1>1. PICK direct \in {<<>>, IF m = Off THEN SetToSeq(AllOff) ELSE <<Diffuser(m)>>} :
        Refresh(u, direct)
  BY <1>0
<1> PICK s : s = [session[p] EXCEPT !.aroma = m]
  OBVIOUS
<1>2. p \in Pods /\ session[p] \in Looks /\ booked' \subseteq Sessions
  BY DEF IInv, TypeOK, ChangeAroma
<1>3. s \in Looks /\ s.id = session[p].id /\ s.aroma = m /\ s # Off /\ Want(s).on = {m} \ {Off}
  BY <1>2, LooksAre DEF Looks, Want
<1>4. ASSUME m # Off
      PROVE  <<Diffuser(m)>> \in Seq(Messages) /\ Chosen(<<Diffuser(m)>>, s)
  <2>1. Diffuser(m) \in Messages /\ Agrees(Diffuser(m), s)
    BY <1>3, <1>4, LooksAre DEF Agrees, Turn
  <2> QED
    BY <2>1, RangeOne DEF Chosen
<1>5. ASSUME m = Off
      PROVE  SetToSeq(AllOff) \in Seq(Messages) /\ Chosen(SetToSeq(AllOff), s)
  <2>1. \A n \in Diffusers : Agrees(DiffuserOff(n), s)
    BY <1>3, <1>5 DEF Agrees, Turn
  <2> QED
    BY <2>1, AllOffListed DEF Chosen
<1>6. direct \in Seq(Messages) /\ Chosen(direct, s)
  <2> HIDE DEF AllOff
  <2> QED
    BY <1>4, <1>5, NothingChosen
<1> QED
  BY <1>0, <1>1, <1>2, <1>3, <1>6, RefreshKeeps

LEMMA EndSessionKeeps ==
  ASSUME IInv, NEW u \in Updates, EndSession(u)
  PROVE  IInv'
<1> PICK p : p = update[u].pod
  OBVIOUS
<1>1. PICK direct \in {<<>>, <<PulseDoor>>} : Refresh(u, direct)
  BY DEF EndSession
<1> PICK s : s = session'[p]
  OBVIOUS
<1>2. /\ p \in Pods /\ session[p] \in Looks /\ booked' \subseteq Sessions
      /\ session' \in {[session EXCEPT ![p].left = 0], [session EXCEPT ![p] = Off]}
  BY DEF IInv, TypeOK, EndSession
<1>3. s \in Looks \cup {Off} /\ (s # Off => s.id = session[p].id)
      /\ session' = [session EXCEPT ![p] = s]
  <2>1. session \in [Pods -> Looks \cup {Off}]
    BY DEF IInv, TypeOK
  <2>2. CASE session' = [session EXCEPT ![p].left = 0]
    <3>1. s = [session[p] EXCEPT !.left = 0]
      BY <1>2, <2>1, <2>2
    <3>2. s \in Looks /\ s.id = session[p].id
      BY <1>2, <3>1, HardwareAssumption DEF Looks
    <3> QED
      BY <2>2, <3>1, <3>2
  <2>3. CASE session' = [session EXCEPT ![p] = Off]
    BY <1>2, <2>1, <2>3
  <2> QED
    BY <1>2, <2>2, <2>3
<1>4. direct \in Seq(Messages) /\ Chosen(direct, s)
  <2>1. <<PulseDoor>> \in Seq(Messages) /\ Chosen(<<PulseDoor>>, s)
    BY LooksAre, RangeOne DEF Chosen
  <2> QED
    BY <1>1, <2>1, NothingChosen
<1> QED
  BY <1>1, <1>2, <1>3, <1>4, RefreshKeeps

LEMMA PollMissKeeps ==
  ASSUME IInv, NEW u \in Updates, PollMiss(u)
  PROVE  IInv'
<1> PICK s : s = session[update[u].pod]
  OBVIOUS
<1>1. s \in Looks \cup {Off} /\ session' = [session EXCEPT ![update[u].pod] = s] /\ booked' \subseteq Sessions
  BY DEF IInv, TypeOK, PollMiss
<1> QED
  BY <1>1, NothingChosen, RefreshKeeps DEF PollMiss

-----------------------------------------------------------------------------
(* The publisher.                                                           *)

LEMMA ReadSessionKeeps ==
  ASSUME IInv, NEW u \in Updates, ReadSession(u)
  PROVE  IInv'
<1> PICK p : p = update[u].pod
  OBVIOUS
<1> PICK s : s = session[p]
  OBVIOUS
<1> PICK new : new = IF s # Off /\ s.left = 0 THEN [s EXCEPT !.rgb = Dark] ELSE s
  OBVIOUS
<1> PICK n : n = [update[u] EXCEPT !.stage = "read", !.data = new]
  OBVIOUS
<1>1. /\ update[u] \in UpdateType /\ p \in Pods /\ s \in Looks \cup {Off}
      /\ update[u].stage = "reading" /\ update' = [update EXCEPT ![u] = n]
  BY DEF IInv, TypeOK, UpdateType, Stages, ReadSession
<1>2. /\ new \in Looks \cup {Off} /\ (new = Off <=> s = Off)
      /\ s # Off => /\ new.id = s.id /\ new.left = s.left /\ new.aroma = s.aroma
                    /\ new.rgb \in {s.rgb, Dark} /\ (s.left = 0 \/ new = s)
  BY <1>1, LooksAre DEF Looks
<1>3. /\ n \in UpdateType /\ n.pod = p /\ n.stage = "read" /\ n.data = new
      /\ n.direct = update[u].direct /\ update'[u] = n
  BY <1>1, <1>2 DEF IInv, TypeOK, UpdateType, Stages
<1>4. TypeOK'
  BY <1>1, <1>3 DEF IInv, TypeOK, UpdateType, Stages, ReadSession
<1>5. ASSUME Undisturbed(p)'
      PROVE  BusyWith(p) \subseteq {u} /\ Working(p, u)'
  <2>1. Undisturbed(p) /\ Busy(u)
    BY <1>1, <1>5 DEF Undisturbed, ReadSession, Busy
  <2>2. BusyWith(p) = {u} /\ Reading(p, u)
    BY <1>1, <2>1, Alone DEF Working
  <2>3. Comparing(p, u)'
    <3>1. SameSession(p, lastPublishedState[p], new)
      BY <1>2, <2>2 DEF Reading, SameSession
    <3> QED
      BY <1>3, <2>2, <3>1 DEF Comparing, Reading, Shows, Timed, Excused, SameSession, ReadSession
  <2>4. Chosen(n.direct, new)
    BY <1>2, <1>3, <2>2 DEF Reading, Chosen
  <2>5. Known(p, new)'
    BY <1>2 DEF Known, ReadSession
  <2> QED
    BY <1>3, <2>2, <2>3, <2>4, <2>5 DEF Working, Chosen, Known
<1>6. \A q \in Pods : Grows(q)
  BY DEF Grows, ReadSession
<1>7. Active(n)
  BY <1>3 DEF Active
<1> QED
  BY <1>1, <1>3, <1>4, <1>5, <1>6, <1>7, OneUpdate DEF IInv, ReadSession

LEMMA NotifyKeeps ==
  ASSUME IInv, NEW u \in Updates, Notify(u)
  PROVE  IInv'
<1> PICK p : p = update[u].pod
  OBVIOUS
<1> PICK old : old = lastPublishedState[p]
  OBVIOUS
<1> PICK new : new = update[u].data
  OBVIOUS
<1> PICK todo : todo = IF new # Off THEN Commands(old, new)
                       ELSE IF old # Off THEN EndCommands(old) ELSE <<>>
  OBVIOUS
<1> PICK stage : stage = IF old = Off /\ new = Off THEN "done" ELSE "publishing"
  OBVIOUS
<1> PICK n : n = [update[u] EXCEPT !.stage = stage, !.todo = todo]
  OBVIOUS
<1>1. /\ update[u] \in UpdateType /\ p \in Pods /\ old \in Looks \cup {Off} /\ new \in Looks \cup {Off}
      /\ update[u].stage = "read" /\ update' = [update EXCEPT ![u] = n]
  BY DEF IInv, TypeOK, UpdateType, Stages, Notify
<1>2. todo \in Seq(Messages)
  <2>1. CASE new # Off
    BY <1>1, <2>1, CommandsLead
  <2>2. CASE new = Off /\ old # Off
    BY <1>1, <2>2, EndCommandsLead
  <2>3. CASE new = Off /\ old = Off
    BY <2>3
  <2> QED
    BY <2>1, <2>2, <2>3
<1>3. /\ n \in UpdateType /\ n.pod = p /\ n.stage = stage /\ n.data = new /\ n.todo = todo
      /\ n.direct = update[u].direct /\ update'[u] = n
  BY <1>1, <1>2 DEF IInv, TypeOK, UpdateType, Stages
<1>4. TypeOK'
  BY <1>1, <1>3 DEF IInv, TypeOK, UpdateType, Stages, Notify
<1>5. UNCHANGED <<session, lastPublishedState, hardware, crossed, unsent, late, unnoticed>>
  BY DEF Notify
<1>6. ASSUME Undisturbed(p)'
      PROVE  BusyWith(p) \subseteq {u} /\ Working(p, u)' /\ (~Active(n) => Steady(p)')
  <2>1. Undisturbed(p) /\ Busy(u)
    BY <1>1, <1>5, <1>6 DEF Undisturbed, Busy
  <2>2. /\ BusyWith(p) = {u} /\ Comparing(p, u)
        /\ Chosen(n.direct, new) /\ Known(p, new)
    BY <1>1, <1>3, <2>1, Alone DEF Working
  <2>3. Shows(p, old) /\ Timed(p, old) /\ SameSession(p, old, new)
    BY <2>2 DEF Comparing
  <2>4. Chosen(n.direct, new) /\ Known(p, new)'
    BY <1>5, <2>2 DEF Known
  <2>5. CASE new # Off
    <3>1. Leads(p, todo, new) /\ stage = "publishing"
      BY <1>1, <2>3, <2>5, CommandsLead
    <3>2. Publishing(p, u)'
      BY <1>3, <1>5, <3>1 DEF Publishing, Leads, Timed, Excused
    <3> QED
      BY <1>3, <2>2, <2>4, <3>1, <3>2 DEF Working, Chosen, Known, Active
  <2>6. CASE new = Off /\ old # Off
    <3>1. Leads(p, todo, new) /\ stage = "publishing"
      BY <1>1, <2>3, <2>6, EndCommandsLead
    <3>2. Publishing(p, u)'
      BY <1>3, <1>5, <3>1 DEF Publishing, Leads, Timed, Excused
    <3> QED
      BY <1>3, <2>2, <2>4, <3>1, <3>2 DEF Working, Chosen, Known, Active
  <2>7. CASE new = Off /\ old = Off
    <3>1. stage = "done" /\ lastPublishedState'[p] = new
      BY <1>5, <2>7
    <3>2. Published(p, u)'
      BY <1>3, <1>5, <2>3, <2>7, <3>1 DEF Published, Shows, Timed, Excused
    <3>3. Steady(p)'
      BY <1>3, <2>4, <3>1, <3>2 DEF Published, Steady
    <3> QED
      BY <1>3, <2>2, <2>4, <3>1, <3>2, <3>3 DEF Working, Chosen, Known
  <2> QED
    BY <2>5, <2>6, <2>7
<1>7. \A q \in Pods : Grows(q)
  BY <1>5 DEF Grows
<1> QED
  BY <1>1, <1>3, <1>4, <1>5, <1>6, <1>7, OneUpdate DEF IInv

\* A command that leads there is sent: one less of those that are needed.
LEMMA SendLeads ==
  ASSUME TypeOK, NEW p \in Pods, NEW look \in Looks \cup {Off}, NEW todo, NEW rest,
         NEW c \in Messages, Agrees(c, look), Leads(p, todo, look),
         Range(rest) \subseteq Range(todo), Range(todo) \subseteq {c} \cup Range(rest),
         hardware'[p] = Told(hardware[p], c), unnoticed' = unnoticed
  PROVE  Leads(p, rest, look)'
<1>1. hardware[p] \in HardwareType
  BY DEF TypeOK, HardwareType
<1> PICK h : h = hardware[p]
  OBVIOUS
<1> PICK g : g = Told(h, c)
  OBVIOUS
<1>2. /\ \/ g.rgb = Want(look).rgb
         \/ g.rgb = h.rgb /\ c # Lamp(Want(look).rgb)
      /\ \A m \in Diffusers : \/ m \in g.on <=> m \in Want(look).on
                              \/ (m \in g.on <=> m \in h.on) /\ c # Turn(m, look)
      /\ \/ g.timed = Want(look).timed
         \/ g.timed = h.timed /\ c # Shut(Want(look).timed)
  BY <1>1, ToldLeads
<1>3. hardware'[p] = g
  OBVIOUS
<1>4. \A d \in Range(rest) : Agrees(d, look)
  BY DEF Leads
<1>5. g.rgb = Want(look).rgb \/ Lamp(Want(look).rgb) \in Range(rest)
  BY <1>2 DEF Leads
<1>6. \A m \in Diffusers : (m \in g.on <=> m \in Want(look).on) \/ Turn(m, look) \in Range(rest)
  BY <1>2 DEF Leads
<1>7. \/ Excused(p, look) \/ g.timed = Want(look).timed
      \/ Shut(Want(look).timed) \in Range(rest)
  BY <1>2 DEF Leads, Timed
<1> QED
  BY <1>3, <1>4, <1>5, <1>6, <1>7 DEF Leads, Timed, Excused

\* Or nothing is needed.
LEMMA SendShows ==
  ASSUME TypeOK, NEW p \in Pods, NEW look \in Looks \cup {Off}, NEW c \in Messages,
         Agrees(c, look), Shows(p, look), Timed(p, look),
         hardware'[p] = Told(hardware[p], c), unnoticed' = unnoticed
  PROVE  Shows(p, look)' /\ Timed(p, look)'
<1>1. hardware[p] \in HardwareType /\ Want(look) \in HardwareType
  BY LooksAre DEF TypeOK, HardwareType
<1> PICK g : g = Told(hardware[p], c)
  OBVIOUS
<1>2. /\ g.rgb = Want(look).rgb /\ (\A m \in Diffusers : m \in g.on <=> m \in Want(look).on)
      /\ g.timed = Want(look).timed \/ g.timed = hardware[p].timed
      /\ g.on \subseteq Diffusers /\ Want(look).on \subseteq Diffusers
  BY <1>1, ToldLeads DEF Shows, HardwareType
<1>3. g.on = Want(look).on
  BY <1>2
<1> QED
  BY <1>2, <1>3 DEF Shows, Timed, Excused

\* A command was sent, or the pod is disturbed.
LEMMA Sent ==
  ASSUME TypeOK, NEW p \in Pods, NEW c \in Messages, Send(p, c)
  PROVE  /\ connected' \in BOOLEAN
         /\ hardware' \in [Pods -> HardwareType] /\ unsent' \subseteq Pods
         /\ \A q \in Pods \ {p} : hardware'[q] = hardware[q]
         /\ \A q \in Pods : q \in unsent => q \in unsent'
         /\ p \notin unsent' => hardware'[p] = Told(hardware[p], c)
<1>1. hardware \in [Pods -> HardwareType] /\ connected \in BOOLEAN /\ unsent \subseteq Pods
  BY DEF TypeOK, HardwareType
<1>2. Told(hardware[p], c) \in HardwareType
  BY <1>1, ToldIs
<1> QED
  BY <1>1, <1>2 DEF Send

LEMMA PublishNextKeeps ==
  ASSUME IInv, NEW u \in Updates, PublishNext(u)
  PROVE  IInv'
<1> PICK p : p = update[u].pod
  OBVIOUS
<1> PICK look : look = update[u].data
  OBVIOUS
<1> PICK todo : todo = update[u].todo
  OBVIOUS
<1> PICK c : c = Head(todo)
  OBVIOUS
<1> PICK rest : rest = Tail(todo)
  OBVIOUS
<1> PICK n : n = [update[u] EXCEPT !.todo = rest]
  OBVIOUS
<1>1. /\ update[u] \in UpdateType /\ p \in Pods /\ look \in Looks \cup {Off} /\ todo \in Seq(Messages)
      /\ update[u].stage = "publishing" /\ todo # <<>> /\ update' = [update EXCEPT ![u] = n]
      /\ TypeOK
  BY DEF IInv, TypeOK, UpdateType, Stages, PublishNext
<1>2. c \in Messages /\ rest \in Seq(Messages) /\ Range(todo) = {c} \cup Range(rest)
  BY <1>1, Ahead
<1>3. /\ n \in UpdateType /\ n.pod = p /\ n.stage = "publishing" /\ n.data = look /\ n.todo = rest
      /\ n.direct = update[u].direct /\ update'[u] = n
  BY <1>1, <1>2 DEF IInv, TypeOK, UpdateType, Stages
<1>4. /\ Send(p, c)
      /\ UNCHANGED <<session, booked, lastPublishedState, crossed, late, unnoticed>>
  BY DEF PublishNext, Send
<1>5. /\ connected' \in BOOLEAN
      /\ hardware' \in [Pods -> HardwareType] /\ unsent' \subseteq Pods
      /\ \A q \in Pods \ {p} : hardware'[q] = hardware[q]
      /\ \A q \in Pods : q \in unsent => q \in unsent'
      /\ p \notin unsent' => hardware'[p] = Told(hardware[p], c)
  BY <1>1, <1>2, <1>4, Sent
<1>6. TypeOK'
  BY <1>1, <1>3, <1>4, <1>5 DEF TypeOK, UpdateType, Stages, HardwareType
<1>7. \A q \in Pods : Grows(q)
  BY <1>4, <1>5 DEF Grows
<1>8. ASSUME Undisturbed(p)'
      PROVE  BusyWith(p) \subseteq {u} /\ Working(p, u)'
  <2>1. Undisturbed(p) /\ Busy(u) /\ p \notin unsent'
    BY <1>1, <1>7, <1>8 DEF Undisturbed, Grows, Busy
  <2>2. /\ BusyWith(p) = {u} /\ Leads(p, todo, look) /\ Chosen(n.direct, look) /\ Known(p, look)
    BY <1>1, <1>3, <2>1, Alone DEF Working, Publishing
  <2>3. Agrees(c, look)
    BY <1>2, <2>2 DEF Leads
  <2>4. Leads(p, rest, look)'
    BY <1>1, <1>2, <1>4, <1>5, <2>1, <2>2, <2>3, SendLeads
  <2>5. Publishing(p, u)'
    BY <1>3, <2>4 DEF Publishing
  <2>6. Known(p, look)'
    BY <1>4, <2>2 DEF Known
  <2> QED
    BY <1>3, <2>2, <2>5, <2>6 DEF Working, Chosen
<1>9. Active(n)
  BY <1>3 DEF Active
<1> QED
  BY <1>1, <1>3, <1>4, <1>5, <1>6, <1>7, <1>8, <1>9, OneUpdate DEF IInv

LEMMA PublishDirectKeeps ==
  ASSUME IInv, NEW u \in Updates, PublishDirect(u)
  PROVE  IInv'
<1> PICK p : p = update[u].pod
  OBVIOUS
<1> PICK look : look = update[u].data
  OBVIOUS
<1> PICK todo : todo = update[u].todo
  OBVIOUS
<1> PICK direct : direct = update[u].direct
  OBVIOUS
<1> PICK c : c = Head(direct)
  OBVIOUS
<1> PICK rest : rest = Tail(direct)
  OBVIOUS
<1> PICK n : n = [update[u] EXCEPT !.direct = rest]
  OBVIOUS
<1>1. /\ update[u] \in UpdateType /\ p \in Pods /\ look \in Looks \cup {Off}
      /\ direct \in Seq(Messages) /\ update[u].stage \in {"publishing", "done"} /\ direct # <<>>
      /\ update' = [update EXCEPT ![u] = n]
      /\ TypeOK
  BY DEF IInv, TypeOK, UpdateType, Stages, PublishDirect
<1>2. c \in Messages /\ rest \in Seq(Messages) /\ Range(direct) = {c} \cup Range(rest)
  BY <1>1, Ahead
<1>3. /\ n \in UpdateType /\ n.pod = p /\ n.stage = update[u].stage /\ n.data = look /\ n.todo = todo
      /\ n.direct = rest /\ update'[u] = n
  BY <1>1, <1>2 DEF IInv, TypeOK, UpdateType, Stages
<1>4. /\ Send(p, c)
      /\ UNCHANGED <<session, booked, lastPublishedState, crossed, unnoticed>>
      /\ late' = IF (look = Off \/ look.left = 0) /\ c # PulseDoor THEN late \cup {p} ELSE late
  BY DEF PublishDirect, Send
<1>5. /\ connected' \in BOOLEAN
      /\ hardware' \in [Pods -> HardwareType] /\ unsent' \subseteq Pods
      /\ \A q \in Pods \ {p} : hardware'[q] = hardware[q]
      /\ \A q \in Pods : q \in unsent => q \in unsent'
      /\ p \notin unsent' => hardware'[p] = Told(hardware[p], c)
  BY <1>1, <1>2, <1>4, Sent
<1>6. TypeOK'
  BY <1>1, <1>3, <1>4, <1>5 DEF TypeOK, UpdateType, Stages, HardwareType
<1>7. \A q \in Pods : Grows(q)
  BY <1>4, <1>5 DEF Grows
<1>8. ASSUME Undisturbed(p)'
      PROVE  /\ BusyWith(p) \subseteq {u}
             /\ IF Active(n) THEN Working(p, u)' ELSE Steady(p)'
  <2>1. Undisturbed(p) /\ Busy(u) /\ p \notin unsent' /\ p \notin late'
    BY <1>1, <1>7, <1>8 DEF Undisturbed, Grows, Busy
  <2>2. /\ BusyWith(p) = {u} /\ Working(p, u) /\ Chosen(direct, look) /\ Known(p, look)
    BY <1>1, <2>1, Alone DEF Working
  <2>3. Agrees(c, look)
    BY <1>2, <1>4, <2>1, <2>2 DEF Chosen, Agrees
  <2>4. Known(p, look)' /\ Chosen(rest, look)
    BY <1>2, <1>4, <2>2 DEF Known, Chosen
  <2>5. CASE update[u].stage = "publishing"
    <3>1. Leads(p, todo, look)
      BY <2>2, <2>5 DEF Working, Publishing
    <3>2. Leads(p, todo, look)'
      BY <1>1, <1>2, <1>4, <1>5, <2>1, <2>3, <3>1, SendLeads
    <3>3. Publishing(p, u)'
      BY <1>3, <3>2 DEF Publishing
    <3> QED
      BY <1>3, <2>2, <2>4, <2>5, <3>3 DEF Working, Chosen, Active
  <2>6. CASE update[u].stage = "done"
    <3>1. look = lastPublishedState[p] /\ Shows(p, look) /\ Timed(p, look)
      BY <2>2, <2>6 DEF Working, Published
    <3>2. Shows(p, look)' /\ Timed(p, look)'
      BY <1>1, <1>2, <1>4, <1>5, <2>1, <2>3, <3>1, SendShows
    <3>3. look = lastPublishedState'[p]
      BY <1>4, <3>1
    <3>4. Published(p, u)'
      BY <1>3, <3>2, <3>3 DEF Published
    <3>5. Steady(p)'
      BY <2>4, <3>2, <3>3 DEF Steady
    <3> QED
      BY <1>3, <2>2, <2>4, <2>6, <3>4, <3>5 DEF Working, Chosen, Active
  <2> QED
    BY <1>1, <2>5, <2>6
<1> QED
  BY <1>1, <1>3, <1>4, <1>5, <1>6, <1>7, <1>8, OneUpdate DEF IInv

LEMMA RememberKeeps ==
  ASSUME IInv, NEW u \in Updates, Remember(u)
  PROVE  IInv'
<1> PICK p : p = update[u].pod
  OBVIOUS
<1> PICK look : look = update[u].data
  OBVIOUS
<1> PICK n : n = [update[u] EXCEPT !.stage = "done"]
  OBVIOUS
<1>1. /\ update[u] \in UpdateType /\ p \in Pods /\ look \in Looks \cup {Off}
      /\ update[u].stage = "publishing" /\ update[u].todo = <<>> /\ update' = [update EXCEPT ![u] = n]
      /\ lastPublishedState' = [lastPublishedState EXCEPT ![p] = look]
      /\ unnoticed' = IF look = Off THEN unnoticed \ {p} ELSE unnoticed
      /\ UNCHANGED <<connected, session, booked, hardware, crossed, unsent, late>>
      /\ TypeOK
  BY DEF IInv, TypeOK, UpdateType, Stages, Remember
<1>2. /\ n \in UpdateType /\ n.pod = p /\ n.stage = "done" /\ n.data = look
      /\ n.direct = update[u].direct /\ update'[u] = n
  BY <1>1 DEF TypeOK, UpdateType, Stages
<1>3. TypeOK'
  BY <1>1, <1>2 DEF TypeOK, UpdateType, Stages
<1>4. \A q \in Pods : Grows(q)
  BY <1>1 DEF Grows
<1>5. ASSUME Undisturbed(p)'
      PROVE  /\ BusyWith(p) \subseteq {u}
             /\ IF Active(n) THEN Working(p, u)' ELSE Steady(p)'
  <2>1. Undisturbed(p) /\ Busy(u)
    BY <1>1, <1>5 DEF Undisturbed, Busy
  <2>2. /\ BusyWith(p) = {u} /\ Leads(p, <<>>, look) /\ Chosen(n.direct, look) /\ Known(p, look)
    BY <1>1, <1>2, <2>1, Alone DEF Working, Publishing
  <2>3. Shows(p, look) /\ Timed(p, look)
    <3>1. hardware[p].on \subseteq Diffusers /\ Want(look).on \subseteq Diffusers
      BY <1>1, LooksAre DEF TypeOK, HardwareType
    <3>2. hardware[p].on = Want(look).on
      BY <2>2, <3>1, RangeEmpty DEF Leads
    <3> QED
      BY <2>2, <3>2, RangeEmpty DEF Leads, Shows
  <2>4. Shows(p, look)' /\ Timed(p, look)' /\ Known(p, look)'
    BY <1>1, <2>2, <2>3 DEF Shows, Timed, Excused, Known
  <2>5. look = lastPublishedState'[p]
    BY <1>1 DEF TypeOK
  <2>6. Steady(p)' /\ Published(p, u)'
    BY <1>2, <2>4, <2>5 DEF Steady, Published
  <2> QED
    BY <1>2, <2>2, <2>4, <2>6 DEF Working, Chosen
<1>6. \A q \in Pods \ {p} :
        /\ session'[q] = session[q] /\ lastPublishedState'[q] = lastPublishedState[q]
        /\ hardware'[q] = hardware[q]
        /\ q \in unnoticed <=> q \in unnoticed'
  BY <1>1 DEF TypeOK
<1> QED
  BY <1>1, <1>2, <1>3, <1>4, <1>5, <1>6, OneUpdate DEF IInv

-----------------------------------------------------------------------------
(* Time, the connection and the process.                                    *)

LEMMA ElapseKeeps ==
  ASSUME IInv, NEW p \in Pods, Elapse(p)
  PROVE  IInv'
<1> PICK s : s = session[p]
  OBVIOUS
<1> PICK new : new = session'[p]
  OBVIOUS
<1>1. /\ s \in Looks /\ s # Off /\ TypeOK
      /\ session \in [Pods -> Looks \cup {Off}]
      /\ session' = [session EXCEPT ![p] = new]
      /\ UNCHANGED <<connected, booked, update, lastPublishedState, hardware, crossed, unsent, late>>
  BY DEF IInv, TypeOK, Elapse
<1>2. \/ new = [s EXCEPT !.left = @ - 1] /\ s.left > 0 /\ unnoticed' = unnoticed
      \/ new = Off /\ unnoticed' = unnoticed \cup {p}
  BY <1>1 DEF Elapse
<1>3. /\ new \in Looks \cup {Off}
      /\ new # Off => /\ new.id = s.id /\ new.rgb = s.rgb /\ new.aroma = s.aroma
                      /\ s.left # 0
  BY <1>1, <1>2, HardwareAssumption DEF Looks
<1>4. /\ unnoticed \subseteq unnoticed' /\ unnoticed' \subseteq Pods
      /\ p \in unnoticed' \/ new # Off
      /\ \A q \in Pods \ {p} : q \in unnoticed <=> q \in unnoticed'
  <2>1. CASE new = [s EXCEPT !.left = @ - 1] /\ s.left > 0 /\ unnoticed' = unnoticed
    <3>1. new \in Looks
      BY <1>1, <2>1, HardwareAssumption DEF Looks
    <3>2. new # Off
      BY <3>1, LooksAre
    <3> QED
      BY <1>1, <2>1, <3>2 DEF TypeOK
  <2>2. CASE new = Off /\ unnoticed' = unnoticed \cup {p}
    BY <1>1, <2>2 DEF TypeOK
  <2> QED
    BY <1>2, <2>1, <2>2
<1>5. TypeOK'
  BY <1>1, <1>3, <1>4 DEF TypeOK
<1>6. ASSUME NEW q \in Pods \ {p} PROVE Following(q)'
  BY <1>1, <1>4, <1>6, Elsewhere DEF IInv, Grows
<1>7. \A look : Known(p, look) => Known(p, look)'
  BY <1>1, <1>3, <1>4 DEF Known
<1>8. \A look : /\ Shows(p, look) => Shows(p, look)'
                /\ Timed(p, look) => Timed(p, look)'
  BY <1>1, <1>4 DEF Shows, Timed, Excused
<1>9. Following(p)'
  <2> SUFFICES ASSUME Undisturbed(p)'
               PROVE  \/ Quiet(p)' /\ Steady(p)'
                      \/ \E u \in Updates : BusyWith(p)' = {u} /\ Working(p, u)'
    BY DEF Following
  <2>1. Following(p) /\ Undisturbed(p) /\ BusyWith(p)' = BusyWith(p)
    BY <1>1 DEF IInv, Undisturbed, BusyWith, Busy
  <2>2. CASE Quiet(p) /\ Steady(p)
    <3>1. Steady(p)'
      BY <1>1, <1>7, <1>8, <2>2 DEF Steady
    <3> QED
      BY <2>1, <2>2, <3>1 DEF Quiet
  <2>3. ASSUME NEW u \in Updates, BusyWith(p) = {u}, Working(p, u)
        PROVE  BusyWith(p)' = {u} /\ Working(p, u)'
    <3>1. Reading(p, u) => Reading(p, u)'
      <4>1. ASSUME Chosen(update[u].direct, s) PROVE Chosen(update[u].direct, new)
        <5>1. CASE new = Off
          BY <5>1 DEF Chosen
        <5>2. CASE new # Off
          <6>1. Want(new) = Want(s)
            BY <1>1, <1>3, <5>2 DEF Want
          <6>2. s.left # 0 /\ s # Off
            BY <1>1, <1>3, <5>2
          <6> QED
            BY <4>1, <6>1, <6>2 DEF Chosen, Agrees, Turn
        <5> QED
          BY <5>1, <5>2
      <4>2. SameSession(p, lastPublishedState[p], s) => SameSession(p, lastPublishedState[p], new)'
        BY <1>1, <1>3, <1>4 DEF SameSession
      <4> QED
        BY <1>1, <1>8, <4>1, <4>2 DEF Reading
    <3>2. Comparing(p, u) => Comparing(p, u)'
      BY <1>1, <1>4, <1>8 DEF Comparing, SameSession
    <3>3. Publishing(p, u) => Publishing(p, u)'
      BY <1>1, <1>8 DEF Publishing, Leads
    <3>4. Published(p, u) => Published(p, u)'
      BY <1>1, <1>8 DEF Published
    <3> QED
      BY <1>1, <1>7, <2>1, <2>3, <3>1, <3>2, <3>3, <3>4 DEF Working
  <2> QED
    BY <2>1, <2>2, <2>3 DEF Following
<1> QED
  BY <1>5, <1>6, <1>9 DEF IInv

LEMMA SwitchConnectionKeeps ==
  ASSUME IInv, SwitchConnection
  PROVE  IInv'
<1>1. TypeOK'
  BY DEF IInv, TypeOK, SwitchConnection
<1>2. ASSUME NEW q \in Pods PROVE Following(q)'
  BY Elsewhere DEF IInv, Grows, SwitchConnection
<1> QED
  BY <1>1, <1>2 DEF IInv

LEMMA RestartKeeps ==
  ASSUME IInv, Restart
  PROVE  IInv'
<1>1. \A u \in Updates : update'[u] \in UpdateType /\ update'[u].pod = update[u].pod
                         /\ \/ update'[u].stage = "done" /\ update'[u].direct = <<>>
                            \/ update[u].stage = "ready" /\ update'[u] = update[u]
  <2> SUFFICES ASSUME NEW u \in Updates
               PROVE  /\ update'[u] \in UpdateType /\ update'[u].pod = update[u].pod
                      /\ \/ update'[u].stage = "done" /\ update'[u].direct = <<>>
                         \/ update[u].stage = "ready" /\ update'[u] = update[u]
    OBVIOUS
  <2>1. update[u] \in UpdateType /\ update[u].pod \in Pods
    BY DEF IInv, TypeOK, UpdateType, Stages
  <2>2. update'[u] = IF update[u].stage = "ready" THEN update[u]
                     ELSE [Ready(update[u].pod) EXCEPT !.stage = "done"]
    BY DEF Restart
  <2>3. CASE update[u].stage = "ready"
    BY <2>1, <2>2, <2>3
  <2>4. CASE update[u].stage # "ready"
    <3>1. update'[u] = [pod |-> update[u].pod, stage |-> "done", data |-> Off, todo |-> <<>>,
                        direct |-> <<>>]
      BY <2>2, <2>4 DEF Ready
    <3>2. update'[u] \in UpdateType
      BY <2>1, <3>1, NothingChosen DEF UpdateType, Stages
    <3> QED
      BY <3>1, <3>2
  <2> QED
    BY <2>3, <2>4
<1>2. TypeOK'
  <2>1. update' \in [Updates -> UpdateType]
    BY <1>1 DEF Restart
  <2> QED
    BY <2>1 DEF IInv, TypeOK, UpdateType, Stages, Restart
<1>3. ASSUME NEW p \in Pods, Undisturbed(p)'
      PROVE  Quiet(p)' /\ Steady(p)'
  <2>1. Undisturbed(p) /\ lastPublishedState[p] = Off /\ BusyWith(p) = {}
    BY <1>3 DEF Undisturbed, Restart
  <2>2. Steady(p)
    BY <2>1 DEF IInv, Following
  <2>3. Steady(p)'
    BY <2>1, <2>2 DEF Steady, Shows, Timed, Excused, Known, Restart
  <2>4. BusyWith(p)' = {}
    BY <1>1, <2>1 DEF BusyWith, Busy
  <2> QED
    BY <2>3, <2>4 DEF Quiet
<1> QED
  BY <1>2, <1>3 DEF IInv, Following

LEMMA Initially == Init => IInv
<1> SUFFICES ASSUME Init PROVE IInv
  OBVIOUS
<1>1. \A u \in Updates : /\ update[u] \in UpdateType
                         /\ update[u].stage = "ready" /\ update[u].direct = <<>>
  <2> TAKE u \in Updates
  <2>1. PICK p \in Pods : update[u] = Ready(p)
    BY DEF Init
  <2>2. Ready(p) \in UpdateType
    BY NothingChosen DEF Ready, UpdateType, Stages
  <2> QED
    BY <2>1, <2>2 DEF Ready
<1>2. TypeOK
  <2>1. update \in [Updates -> UpdateType]
    BY <1>1 DEF Init
  <2> QED
    BY <2>1 DEF Init, TypeOK, UpdateType, Stages
<1>3. ASSUME NEW p \in Pods PROVE Quiet(p) /\ Steady(p)
  <2>1. Quiet(p)
    BY <1>1 DEF Quiet, BusyWith, Busy
  <2>2. Steady(p)
    BY DEF Init, Steady, Shows, Timed, Excused, Known, Want
  <2> QED
    BY <2>1, <2>2
<1> QED
  BY <1>2, <1>3 DEF IInv, Following

LEMMA NextKeeps == IInv /\ [Next]_vars => IInv'
<1> SUFFICES ASSUME IInv, [Next]_vars PROVE IInv'
  OBVIOUS
<1>1. CASE UNCHANGED vars
  <2>1. TypeOK'
    BY <1>1 DEF IInv, TypeOK, vars
  <2>2. ASSUME NEW q \in Pods PROVE Following(q)'
    BY <1>1, Elsewhere DEF IInv, Grows, vars
  <2> QED
    BY <2>1, <2>2 DEF IInv
<1> QED
  BY <1>1, BookKeeps, ChangeMoodKeeps, ChangeAromaKeeps, EndSessionKeeps, PollMissKeeps,
     ReadSessionKeeps, NotifyKeeps, PublishNextKeeps, PublishDirectKeeps, RememberKeeps,
     ElapseKeeps, SwitchConnectionKeeps, RestartKeeps DEF Next

-----------------------------------------------------------------------------
(* The theorems.                                                            *)

\* What a pod shows, what is on its way to it and what is known of its session, in every
\* state (handlePollingStateUpdate and the handlers that publish by themselves).
THEOREM PublisherInvariant == Spec => []IInv
<1> QED
  BY Initially, NextKeeps, PTL DEF Spec

\* Sessions, updates, what was published and the hardware have their types.
THEOREM HardwareTypeCorrect == Spec => []TypeOK
<1>1. IInv => TypeOK
  BY DEF IInv
<1> QED
  BY <1>1, PublisherInvariant, PTL

\* When nothing is under way for an undisturbed pod, its lamp and diffusers show the last
\* published state and that is its session's: nothing of an earlier one stays on.
THEOREM HardwareAlwaysFollows == Spec => []HardwareFollows
<1>1. IInv => HardwareFollows
  <2> SUFFICES ASSUME IInv, NEW p \in Pods, Undisturbed(p), Quiet(p)
               PROVE  LET last == lastPublishedState[p] IN
                      IF last = Off
                      THEN session[p] = Off /\ hardware[p].rgb = Dark /\ hardware[p].on = {}
                      ELSE /\ hardware[p].rgb = last.rgb
                           /\ hardware[p].on = {last.aroma} \ {Off}
                           /\ session[p] # Off =>
                                /\ session[p].id = last.id /\ session[p].aroma = last.aroma
                                /\ last.rgb \in {session[p].rgb, Dark}
    BY DEF HardwareFollows
  <2>1. Steady(p)
    BY DEF IInv, Following, Quiet
  <2> QED
    BY <2>1 DEF Steady, Shows, Known, Want
<1> QED
  BY <1>1, PublisherInvariant, PTL

\* And its timer was told what remains of the session it shows, unless one ran out and no
\* refresh has seen it.
THEOREM SessionAlwaysTimed == Spec => []SessionTimed
<1>1. IInv => SessionTimed
  <2> SUFFICES ASSUME IInv, NEW p \in Pods, Undisturbed(p), Quiet(p)
               PROVE  LET last == lastPublishedState[p] IN
                      \/ p \in unnoticed
                      \/ hardware[p].timed = IF last = Off THEN Off ELSE last.id
    BY DEF SessionTimed
  <2>1. Steady(p)
    BY DEF IInv, Following, Quiet
  <2> QED
    BY <2>1 DEF Steady, Timed, Excused, Want
<1> QED
  BY <1>1, PublisherInvariant, PTL

-----------------------------------------------------------------------------
(* DoorWindow *)

USE DoorAssumption

----------------------------------------------------------------------------
(* The outbox *)

\* What Tail leaves of the outbox.
LEMMA TailFacts ==
  ASSUME NEW s \in Seq(Message), s # <<>>
  PROVE  /\ Tail(s) \in Seq(Message)
         /\ 1 \in DOMAIN s /\ Head(s) = s[1] /\ Head(s) \in Message
         /\ \A i \in DOMAIN Tail(s) :
              i \in Int /\ i >= 1 /\ i + 1 \in DOMAIN s /\ Tail(s)[i] = s[i + 1]
         /\ \A i \in DOMAIN s :
              i \in Int /\ (i # 1 => i - 1 \in DOMAIN Tail(s) /\ Tail(s)[i - 1] = s[i])
  OBVIOUS

\* What Append makes of it.
LEMMA AppendFacts ==
  ASSUME NEW s \in Seq(Message), NEW m \in Message
  PROVE  /\ Append(s, m) \in Seq(Message)
         /\ Len(s) + 1 \in DOMAIN Append(s, m) /\ Append(s, m)[Len(s) + 1] = m
         /\ \A i \in DOMAIN s :
              i \in DOMAIN Append(s, m) /\ i \in Int /\ i < Len(s) + 1
              /\ Append(s, m)[i] = s[i]
         /\ \A i \in DOMAIN Append(s, m) :
              i \in DOMAIN s \/ i = Len(s) + 1
  OBVIOUS

----------------------------------------------------------------------------
(* Types *)

\* An update of a function keeps its domain and its range.
LEMMA Updated ==
  ASSUME NEW S, NEW D, NEW f \in [D -> S], NEW x \in D, NEW v \in S
  PROVE  [f EXCEPT ![x] = v] \in [D -> S]
  OBVIOUS

\* A timer with a second less is a timer.
LEMMA ElapsedTimer ==
  ASSUME NEW t \in Timer
  PROVE  LET u == [t EXCEPT !.left = Elapsed(@)]
         IN  /\ u \in Timer /\ u.by = t.by /\ u.pod = t.pod /\ u.left = Elapsed(t.left)
             /\ t.left \in Nat /\ Elapsed(t.left) \in Nat
<1>1. t.left \in Nat /\ Elapsed(t.left) \in Nat
  BY DEF Timer, Elapsed
<1>2. t = [by |-> t.by, pod |-> t.pod, left |-> t.left] /\ t.by \in Calls /\ t.pod \in Pods
  BY DEF Timer
<1>3. [t EXCEPT !.left = Elapsed(t.left)]
        = [by |-> t.by, pod |-> t.pod, left |-> Elapsed(t.left)]
  BY <1>2
<1>. HIDE DEF Elapsed
<1>. QED BY <1>1, <1>2, <1>3 DEF Timer

\* A step keeps the types, and every entry of doorLockTimers armed.
LEMMA NextType == DoorTypeOK /\ [DoorNext]_doorVars => DoorTypeOK'
<1>. SUFFICES ASSUME DoorTypeOK, [DoorNext]_doorVars PROVE DoorTypeOK'
  OBVIOUS
<1>. USE DEF DoorTypeOK
<1>1. ASSUME NEW c \in Calls, OpenWindow(c) PROVE DoorTypeOK'
  <2>1. call[c].pod \in Pods
    OBVIOUS
  <2>2. [pod |-> call[c].pod, command |-> "unlock", by |-> c] \in Message
    BY <2>1 DEF Message
  <2>3. outbox' \in Seq(Message)
    BY <1>1, <2>2, AppendFacts DEF OpenWindow, Publish
  <2>4. call' \in [Calls -> [stage: DoorStages, pod: Pods]]
    BY <1>1, <2>1 DEF OpenWindow, DoorStages
  <2>5. \A p \in Pods : doorLockTimers'[p] # NoTimer =>
          \E t \in armed' : t.by = doorLockTimers'[p] /\ t.pod = p
    <3>1. SUFFICES ASSUME NEW p \in Pods, doorLockTimers'[p] # NoTimer
                   PROVE  \E t \in armed' : t.by = doorLockTimers'[p] /\ t.pod = p
      OBVIOUS
    <3>2. p # call[c].pod /\ doorLockTimers'[p] = doorLockTimers[p]
      BY <1>1, <3>1 DEF OpenWindow
    <3>3. PICK t \in armed : t.by = doorLockTimers[p] /\ t.pod = p
      BY <3>1, <3>2
    <3>4. t \in armed'
      BY <1>1, <3>2, <3>3 DEF OpenWindow
    <3>. QED BY <3>2, <3>3, <3>4
  <2>6. overlapped' \subseteq Pods
    BY <1>1, <2>1 DEF OpenWindow
  <2>7. doorLockTimers' \in [Pods -> Calls \cup {NoTimer}] /\ armed' \subseteq Timer
    BY <1>1 DEF OpenWindow
  <2>. QED BY <1>1, <2>3, <2>4, <2>5, <2>6, <2>7 DEF OpenWindow
<1>2. ASSUME NEW c \in Calls, SetTimer(c) PROVE DoorTypeOK'
  <2>1. call[c].pod \in Pods
    OBVIOUS
  <2>2. armed' \subseteq Timer
    BY <1>2, <2>1 DEF SetTimer, Timer
  <2>3. \A p \in Pods : doorLockTimers'[p] # NoTimer =>
          \E t \in armed' : t.by = doorLockTimers'[p] /\ t.pod = p
    <3>1. ASSUME NEW p \in Pods, doorLockTimers'[p] # NoTimer, p # call[c].pod
          PROVE  \E t \in armed' : t.by = doorLockTimers'[p] /\ t.pod = p
      BY <1>2, <3>1 DEF SetTimer
    <3>2. [by |-> c, pod |-> call[c].pod, left |-> Duration] \in armed'
      BY <1>2 DEF SetTimer
    <3>3. doorLockTimers'[call[c].pod] = c
      BY <1>2, <2>1 DEF SetTimer
    <3>. QED BY <3>1, <3>2, <3>3
  <2>4. call' \in [Calls -> [stage: DoorStages, pod: Pods]]
    BY <1>2, <2>1 DEF SetTimer, DoorStages
  <2>5. doorLockTimers' \in [Pods -> Calls \cup {NoTimer}]
    BY <1>2 DEF SetTimer
  <2>. QED BY <1>2, <2>2, <2>3, <2>4, <2>5 DEF SetTimer
<1>3. ASSUME NEW t \in armed, FireTimer(t) PROVE DoorTypeOK'
  <2>1. t.pod \in Pods /\ t.by \in Calls
    BY DEF Timer
  <2>2. [pod |-> t.pod, command |-> "lock", by |-> t.by] \in Message
    BY <2>1 DEF Message
  <2>3. outbox' \in Seq(Message)
    BY <1>3, <2>2, AppendFacts DEF FireTimer, Publish
  <2>4. \A p \in Pods : doorLockTimers'[p] # NoTimer =>
          \E u \in armed' : u.by = doorLockTimers'[p] /\ u.pod = p
    <3>1. SUFFICES ASSUME NEW p \in Pods, doorLockTimers'[p] # NoTimer
                   PROVE  \E u \in armed' : u.by = doorLockTimers'[p] /\ u.pod = p
      OBVIOUS
    <3>2. p # t.pod /\ doorLockTimers'[p] = doorLockTimers[p]
      BY <1>3, <3>1 DEF FireTimer
    <3>3. PICK u \in armed : u.by = doorLockTimers[p] /\ u.pod = p
      BY <3>1, <3>2
    <3>4. u \in armed'
      BY <1>3, <3>2, <3>3 DEF FireTimer
    <3>. QED BY <3>2, <3>3, <3>4
  <2>5. doorLockTimers' \in [Pods -> Calls \cup {NoTimer}] /\ armed' \subseteq Timer
    BY <1>3 DEF FireTimer
  <2>6. forsaken' \subseteq Pods
    BY <1>3, <2>1 DEF FireTimer
  <2>. QED BY <1>3, <2>3, <2>4, <2>5, <2>6 DEF FireTimer
<1>4. CASE Deliver
  <2>1. outbox # <<>>
    BY <1>4 DEF Deliver
  <2>2. outbox' \in Seq(Message) /\ Head(outbox) \in Message
    BY <1>4, <2>1, TailFacts DEF Deliver
  <2>3. Head(outbox).pod \in Pods /\ Head(outbox).by \in Calls
    BY <2>2 DEF Message
  <2>4. call' \in [Calls -> [stage: DoorStages, pod: Pods]]
    <3>1. [stage |-> "resumed", pod |-> Head(outbox).pod] \in [stage: DoorStages, pod: Pods]
      BY <2>3 DEF DoorStages
    <3>2. \/ call' = call
          \/ call' = [call EXCEPT ![Head(outbox).by] =
                        [stage |-> "resumed", pod |-> Head(outbox).pod]]
      BY <1>4 DEF Deliver
    <3>3. [call EXCEPT ![Head(outbox).by] = [stage |-> "resumed", pod |-> Head(outbox).pod]]
            \in [Calls -> [stage: DoorStages, pod: Pods]]
      BY <2>3, <3>1, Updated
    <3>. QED BY <3>2, <3>3
  <2>5. window' \in [Pods -> Nat] /\ doorOpen' \in [Pods -> BOOLEAN]
    <3>1. [doorOpen EXCEPT ![Head(outbox).pod] = (Head(outbox).command = "unlock")]
            \in [Pods -> BOOLEAN]
      BY <2>3, Updated
    <3>2. [window EXCEPT ![Head(outbox).pod] = Duration] \in [Pods -> Nat]
      BY <2>3, Updated
    <3>3. doorOpen' = [doorOpen EXCEPT ![Head(outbox).pod] = (Head(outbox).command = "unlock")]
      BY <1>4 DEF Deliver
    <3>4. \/ window' = window
          \/ window' = [window EXCEPT ![Head(outbox).pod] = Duration]
      BY <1>4 DEF Deliver
    <3>. QED BY <3>1, <3>2, <3>3, <3>4
  <2>6. early' \subseteq Pods /\ forsaken' \subseteq Pods
    BY <1>4, <2>3 DEF Deliver
  <2>. QED BY <1>4, <2>2, <2>4, <2>5, <2>6 DEF Deliver
<1>5. CASE Connect \/ Disconnect
  BY <1>5 DEF Connect, Disconnect
<1>6. CASE RestartDoors
  <2>1. outbox' \in Seq(Message)
    BY <1>6 DEF RestartDoors
  <2>2. call' \in [Calls -> [stage: DoorStages, pod: Pods]]
    <3>1. \A c \in Calls : call'[c] \in [stage: DoorStages, pod: Pods]
      <4>1. ASSUME NEW c \in Calls PROVE call'[c] \in [stage: DoorStages, pod: Pods]
        <5>1. call[c].pod \in Pods
          OBVIOUS
        <5>2. [stage |-> "done", pod |-> call[c].pod] \in [stage: DoorStages, pod: Pods]
          BY <5>1 DEF DoorStages
        <5>. QED BY <1>6, <5>2 DEF RestartDoors
      <4>. QED BY <4>1
    <3>. QED BY <1>6, <3>1 DEF RestartDoors
  <2>. QED BY <1>6, <2>1, <2>2 DEF RestartDoors
<1>7. CASE Tick
  <2>1. armed' \subseteq Timer
    BY <1>7, ElapsedTimer DEF Tick
  <2>2. window' \in [Pods -> Nat]
    BY <1>7 DEF Tick, Elapsed
  <2>3. \A p \in Pods : doorLockTimers'[p] # NoTimer =>
          \E t \in armed' : t.by = doorLockTimers'[p] /\ t.pod = p
    <3>1. SUFFICES ASSUME NEW p \in Pods, doorLockTimers[p] # NoTimer
                   PROVE  \E t \in armed' : t.by = doorLockTimers[p] /\ t.pod = p
      BY <1>7 DEF Tick
    <3>2. PICK t \in armed : t.by = doorLockTimers[p] /\ t.pod = p
      BY <3>1
    <3>3. [t EXCEPT !.left = Elapsed(@)] \in armed'
      BY <1>7 DEF Tick
    <3>. QED BY <3>2, <3>3, ElapsedTimer
  <2>. QED BY <1>7, <2>1, <2>2, <2>3 DEF Tick
<1>8. CASE UNCHANGED doorVars
  BY <1>8 DEF doorVars
<1>. QED BY <1>1, <1>2, <1>3, <1>4, <1>5, <1>6, <1>7, <1>8 DEF DoorNext

\* The initial states have the types.
LEMMA InitType == DoorInit => DoorTypeOK
<1>1. SUFFICES ASSUME DoorInit PROVE DoorTypeOK
  OBVIOUS
<1>2. call \in [Calls -> [stage: DoorStages, pod: Pods]]
  <2>1. [stage: {"ready"}, pod: Pods] \subseteq [stage: DoorStages, pod: Pods]
    BY DEF DoorStages
  <2>. QED BY <1>1, <2>1 DEF DoorInit
<1>3. outbox \in Seq(Message)
  BY <1>1 DEF DoorInit
<1>. QED BY <1>1, <1>2, <1>3 DEF DoorInit, DoorTypeOK

\* Every variable keeps its type, and the map of timers never names one that has
\* fired or was cleared (publishDoorUnlockWindow and its callback), overlaps included.
THEOREM DoorTypeCorrect == DoorSpec => []DoorTypeOK
BY InitType, NextType, PTL DEF DoorSpec

----------------------------------------------------------------------------
(* Every open door has a lock coming *)

Unlock(i) == outbox[i].command = "unlock"
LockOf(i, p) == outbox[i].command = "lock" /\ outbox[i].pod = p

\* A published unlock is awaited by the call that published it, and only once.
Awaited ==
  /\ \A i \in DOMAIN outbox :
       Unlock(i) => /\ call[outbox[i].by].stage = "publishing"
                    /\ call[outbox[i].by].pod = outbox[i].pod
  /\ \A i, j \in DOMAIN outbox :
       Unlock(i) /\ Unlock(j) /\ outbox[i].by = outbox[j].by => i = j

DoorInv == DoorTypeOK /\ Awaited /\ LockIsComing

\* Publishing leaves what was handed to the client before, and adds one message or,
\* without a connection, none.
LEMMA PublishedMessages ==
  ASSUME DoorTypeOK, NEW p \in Pods, NEW command \in {"unlock", "lock"}, NEW c \in Calls,
         Publish(p, command, c)
  PROVE  /\ \A i \in DOMAIN outbox : i \in DOMAIN outbox' /\ outbox'[i] = outbox[i]
         /\ \A i \in DOMAIN outbox' : i \in DOMAIN outbox \/ (connected /\ i = Len(outbox) + 1)
         /\ \A i \in DOMAIN outbox : i \in Int /\ i < Len(outbox) + 1
         /\ connected => /\ Len(outbox) + 1 \in DOMAIN outbox'
                         /\ outbox'[Len(outbox) + 1] = [pod |-> p, command |-> command, by |-> c]
<1>1. [pod |-> p, command |-> command, by |-> c] \in Message
  BY DEF Message
<1>2. outbox \in Seq(Message)
  BY DEF DoorTypeOK
<1>3. CASE connected
  <2>1. outbox' = Append(outbox, [pod |-> p, command |-> command, by |-> c])
    BY <1>3 DEF Publish
  <2>. QED BY <1>1, <1>2, <1>3, <2>1, AppendFacts
<1>4. CASE ~connected
  <2>1. outbox' = outbox
    BY <1>4 DEF Publish
  <2>. QED BY <1>2, <1>4, <2>1
<1>. QED BY <1>3, <1>4

\* What a delivery leaves of the outbox.
LEMMA Delivered ==
  ASSUME DoorTypeOK, Deliver
  PROVE  /\ 1 \in DOMAIN outbox /\ Head(outbox) = outbox[1] /\ outbox[1] \in Message
         /\ \A i \in DOMAIN outbox' :
              i \in Int /\ i >= 1 /\ i + 1 \in DOMAIN outbox /\ outbox'[i] = outbox[i + 1]
         /\ \A i \in DOMAIN outbox :
              i \in Int /\ (i # 1 => i - 1 \in DOMAIN outbox' /\ outbox'[i - 1] = outbox[i])
<1>1. outbox \in Seq(Message) /\ outbox # <<>> /\ outbox' = Tail(outbox)
  BY DEF DoorTypeOK, Deliver
<1>. QED BY <1>1, TailFacts

\* What a message of the outbox is.
LEMMA OutboxMessages ==
  ASSUME DoorTypeOK, NEW i \in DOMAIN outbox
  PROVE  /\ outbox[i] \in Message
         /\ outbox[i].by \in Calls /\ outbox[i].pod \in Pods
         /\ outbox[i].command \in {"unlock", "lock"}
<1>1. outbox \in Seq(Message)
  BY DEF DoorTypeOK
<1>2. outbox[i] \in Message
  BY <1>1
<1>. QED BY <1>2 DEF Message

\* Every step keeps Awaited.
LEMMA NextAwaited == DoorTypeOK /\ Awaited /\ [DoorNext]_doorVars => Awaited'
<1>. SUFFICES ASSUME DoorTypeOK, Awaited, [DoorNext]_doorVars PROVE Awaited'
  OBVIOUS
<1>. USE DEF Awaited, Unlock
<1>1. ASSUME NEW c \in Calls, OpenWindow(c) PROVE Awaited'
  <2>1. call[c].pod \in Pods /\ call[c].stage = "ready" /\ Publish(call[c].pod, "unlock", c)
    BY <1>1 DEF DoorTypeOK, OpenWindow
  <2>2. \A i \in DOMAIN outbox : Unlock(i) => outbox[i].by # c
    BY <2>1
  <2>3. \A d \in Calls \ {c} : call'[d] = call[d]
    BY <1>1 DEF OpenWindow, DoorTypeOK
  <2>4. connected => call'[c] = [stage |-> "publishing", pod |-> call[c].pod]
    BY <1>1 DEF OpenWindow, DoorTypeOK
  <2>5. \A i \in DOMAIN outbox : outbox[i].by \in Calls
    BY OutboxMessages
  <2>6. /\ \A i \in DOMAIN outbox : i \in DOMAIN outbox' /\ outbox'[i] = outbox[i]
        /\ \A i \in DOMAIN outbox' : i \in DOMAIN outbox \/ (connected /\ i = Len(outbox) + 1)
        /\ connected => outbox'[Len(outbox) + 1] = [pod |-> call[c].pod, command |-> "unlock", by |-> c]
    BY <2>1, PublishedMessages
  <2>. QED BY <2>2, <2>3, <2>4, <2>5, <2>6
<1>2. ASSUME NEW c \in Calls, SetTimer(c) PROVE Awaited'
  <2>1. \A i \in DOMAIN outbox : Unlock(i) => outbox[i].by # c
    BY <1>2 DEF SetTimer
  <2>2. \A d \in Calls \ {c} : call'[d] = call[d]
    BY <1>2 DEF SetTimer, DoorTypeOK
  <2>3. \A i \in DOMAIN outbox : outbox[i].by \in Calls
    BY OutboxMessages
  <2>. QED BY <1>2, <2>1, <2>2, <2>3 DEF SetTimer
<1>3. ASSUME NEW t \in armed, FireTimer(t) PROVE Awaited'
  <2>1. t.pod \in Pods /\ t.by \in Calls /\ Publish(t.pod, "lock", t.by)
    BY <1>3 DEF DoorTypeOK, Timer, FireTimer
  <2>2. call' = call
    BY <1>3 DEF FireTimer
  <2>3. /\ \A i \in DOMAIN outbox : i \in DOMAIN outbox' /\ outbox'[i] = outbox[i]
        /\ \A i \in DOMAIN outbox' : i \in DOMAIN outbox \/ (connected /\ i = Len(outbox) + 1)
        /\ connected => outbox'[Len(outbox) + 1] = [pod |-> t.pod, command |-> "lock", by |-> t.by]
    BY <2>1, PublishedMessages
  <2>. QED BY <2>2, <2>3
<1>4. CASE Deliver
  <2>1. \A i \in DOMAIN outbox : outbox[i].by \in Calls
    BY OutboxMessages
  <2>2. 1 \in DOMAIN outbox /\ Head(outbox) = outbox[1]
    BY <1>4, Delivered
  <2>3. \/ call' = call
        \/ Unlock(1) /\ call' = [call EXCEPT ![outbox[1].by] =
                                   [stage |-> "resumed", pod |-> outbox[1].pod]]
    BY <1>4, <2>2 DEF Deliver
  <2>4. ASSUME NEW i \in DOMAIN outbox, i # 1, Unlock(i)
        PROVE  call'[outbox[i].by] = call[outbox[i].by]
    <3>1. Unlock(1) => outbox[1].by # outbox[i].by
      BY <2>2, <2>4
    <3>2. call \in [Calls -> [stage: DoorStages, pod: Pods]]
      BY DEF DoorTypeOK
    <3>. QED BY <2>1, <2>3, <2>4, <3>1, <3>2
  <2>5. ASSUME NEW i \in DOMAIN outbox', Unlock(i)'
        PROVE  /\ call'[outbox'[i].by].stage = "publishing"
               /\ call'[outbox'[i].by].pod = outbox'[i].pod
    <3>1. i + 1 \in DOMAIN outbox /\ i + 1 # 1 /\ outbox'[i] = outbox[i + 1]
      BY <1>4, Delivered
    <3>2. Unlock(i + 1)
      BY <2>5, <3>1
    <3>. QED BY <2>4, <3>1, <3>2
  <2>6. ASSUME NEW i \in DOMAIN outbox', NEW j \in DOMAIN outbox', Unlock(i)', Unlock(j)',
               outbox'[i].by = outbox'[j].by
        PROVE  i = j
    <3>1. /\ i \in Int /\ i + 1 \in DOMAIN outbox /\ outbox'[i] = outbox[i + 1]
          /\ j \in Int /\ j + 1 \in DOMAIN outbox /\ outbox'[j] = outbox[j + 1]
      BY <1>4, Delivered
    <3>2. i + 1 = j + 1
      BY <2>6, <3>1
    <3>. QED BY <3>1, <3>2
  <2>. QED BY <2>5, <2>6
<1>5. CASE Connect \/ Disconnect \/ Tick \/ UNCHANGED doorVars
  BY <1>5 DEF Connect, Disconnect, Tick, doorVars
<1>6. CASE RestartDoors
  BY <1>6 DEF RestartDoors
<1>. QED BY <1>1, <1>2, <1>3, <1>4, <1>5, <1>6 DEF DoorNext

\* What will lock p.
Coming(p) ==
  \/ \E t \in armed : t.pod = p
  \/ UnderWay(p) # {}
  \/ \E i \in DOMAIN outbox : LockOf(i, p)
  \/ p \in forsaken

\* LockIsComing, pod by pod.
LEMMA LockComing == LockIsComing <=> \A p \in Pods : doorOpen[p] => Coming(p)
  BY DEF LockIsComing, Coming, LockOf

\* Every step leaves a lock coming for every open door.
LEMMA NextLock == DoorInv /\ [DoorNext]_doorVars => \A p \in Pods : doorOpen'[p] => Coming(p)'
<1>. SUFFICES ASSUME DoorTypeOK, Awaited, LockIsComing, [DoorNext]_doorVars,
                     NEW p \in Pods, doorOpen'[p]
              PROVE  Coming(p)'
  BY DEF DoorInv
<1>1. ASSUME doorOpen[p] PROVE Coming(p)
  BY <1>1, LockComing
<1>. USE DEF LockOf, Coming
<1>2. ASSUME NEW c \in Calls, OpenWindow(c)
      PROVE  Coming(p)'
  <2>1. call[c].pod \in Pods /\ Publish(call[c].pod, "unlock", c) /\ doorOpen' = doorOpen
        /\ forsaken' = forsaken
    BY <1>2 DEF DoorTypeOK, OpenWindow
  <2>2. p = call[c].pod => c \in UnderWay(p)'
    BY <1>2 DEF OpenWindow, UnderWay, DoorTypeOK
  <2>3. UnderWay(p) \subseteq UnderWay(p)'
    BY <1>2 DEF OpenWindow, UnderWay, DoorTypeOK
  <2>4. p # call[c].pod => \A t \in armed : t.pod = p => t \in armed'
    BY <1>2 DEF OpenWindow
  <2>5. \A i \in DOMAIN outbox : i \in DOMAIN outbox' /\ outbox'[i] = outbox[i]
    BY <2>1, PublishedMessages
  <2>6. CASE p = call[c].pod
    BY <2>2, <2>6
  <2>7. CASE p # call[c].pod
    BY <1>1, <2>1, <2>3, <2>4, <2>5, <2>7
  <2>. QED BY <2>6, <2>7
<1>3. ASSUME NEW c \in Calls, SetTimer(c)
      PROVE  Coming(p)'
  <2>1. [by |-> c, pod |-> call[c].pod, left |-> Duration] \in armed' /\ armed \subseteq armed'
    BY <1>3 DEF SetTimer
  <2>2. p # call[c].pod => UnderWay(p) \subseteq UnderWay(p)'
    BY <1>3 DEF SetTimer, UnderWay, DoorTypeOK
  <2>3. doorOpen' = doorOpen /\ outbox' = outbox /\ forsaken' = forsaken
    BY <1>3 DEF SetTimer
  <2>. QED BY <1>1, <2>1, <2>2, <2>3
<1>4. ASSUME NEW t \in armed, FireTimer(t)
      PROVE  Coming(p)'
  <2>1. t.pod \in Pods /\ t.by \in Calls /\ Publish(t.pod, "lock", t.by)
    BY <1>4 DEF DoorTypeOK, Timer, FireTimer
  <2>2. UnderWay(p)' = UnderWay(p) /\ doorOpen' = doorOpen /\ forsaken \subseteq forsaken'
    BY <1>4 DEF FireTimer, UnderWay
  <2>3. CASE p = t.pod
    <3>1. ~connected => p \in forsaken'
      BY <1>4, <2>3 DEF FireTimer
    <3>2. connected => outbox'[Len(outbox) + 1] = [pod |-> p, command |-> "lock", by |-> t.by]
                       /\ Len(outbox) + 1 \in DOMAIN outbox'
      BY <2>1, <2>3, PublishedMessages
    <3>. QED BY <3>1, <3>2
  <2>4. CASE p # t.pod
    <3>1. \A u \in armed : u.pod = p => u \in armed'
      BY <1>4, <2>4 DEF FireTimer
    <3>2. \A i \in DOMAIN outbox : i \in DOMAIN outbox' /\ outbox'[i] = outbox[i]
      BY <2>1, PublishedMessages
    <3>. QED BY <1>1, <2>2, <3>1, <3>2
  <2>. QED BY <2>3, <2>4
<1>5. CASE Deliver
  <2>1. armed' = armed /\ Head(outbox) = outbox[1] /\ 1 \in DOMAIN outbox
        /\ outbox[1] \in Message
    BY <1>5, Delivered DEF Deliver
  <2>2. outbox[1].pod \in Pods /\ outbox[1].by \in Calls
    BY <2>1 DEF Message
  <2>3. CASE outbox[1].command = "unlock" /\ outbox[1].pod = p
    BY <1>5, <2>1, <2>2, <2>3 DEF Deliver, UnderWay, DoorTypeOK
  <2>4. CASE outbox[1].command = "lock" /\ outbox[1].pod = p
    <3>1. doorOpen' = [doorOpen EXCEPT ![p] = (outbox[1].command = "unlock")]
      BY <1>5, <2>1, <2>4 DEF Deliver
    <3>2. outbox[1].command # "unlock"
      BY <2>4
    <3>3. DOMAIN doorOpen = Pods
      BY DEF DoorTypeOK
    <3>. QED BY <3>1, <3>2, <3>3
  <2>5. CASE outbox[1].pod # p
    <3>1. doorOpen'[p] = doorOpen[p] /\ (p \in forsaken => p \in forsaken')
      BY <1>5, <2>1, <2>2, <2>5 DEF Deliver, DoorTypeOK
    <3>2. UnderWay(p) \subseteq UnderWay(p)'
      <4>1. outbox[1].command = "unlock" => call[outbox[1].by].pod = outbox[1].pod
        BY <2>1 DEF Awaited, Unlock
      <4>. QED BY <1>5, <2>1, <2>2, <2>5, <4>1 DEF Deliver, UnderWay, DoorTypeOK
    <3>3. (\E i \in DOMAIN outbox : LockOf(i, p)) => \E i \in DOMAIN outbox' : LockOf(i, p)'
      <4>1. ASSUME NEW i \in DOMAIN outbox, LockOf(i, p)
            PROVE  i - 1 \in DOMAIN outbox' /\ LockOf(i - 1, p)'
        BY <1>5, <2>5, <4>1, Delivered
      <4>. QED BY <4>1
    <3>. QED BY <1>1, <2>1, <3>1, <3>2, <3>3
  <2>6. outbox[1].command \in {"unlock", "lock"}
    BY <2>1 DEF Message
  <2>. QED BY <2>3, <2>4, <2>5, <2>6
<1>6. CASE Connect \/ Disconnect \/ UNCHANGED doorVars
  BY <1>1, <1>6 DEF Connect, Disconnect, doorVars, UnderWay
<1>7. CASE RestartDoors
  BY <1>7 DEF RestartDoors
<1>8. CASE Tick
  <2>1. doorOpen' = doorOpen /\ outbox' = outbox /\ call' = call /\ forsaken' = forsaken
    BY <1>8 DEF Tick
  <2>2. ASSUME NEW t \in armed, t.pod = p PROVE \E u \in armed' : u.pod = p
    <3>1. [t EXCEPT !.left = Elapsed(@)] \in armed'
      BY <1>8 DEF Tick
    <3>. QED BY <2>2, <3>1, ElapsedTimer DEF DoorTypeOK
  <2>. QED BY <1>1, <2>1, <2>2 DEF UnderWay
<1>. QED BY <1>2, <1>3, <1>4, <1>5, <1>6, <1>7, <1>8 DEF DoorNext

\* The inductive invariant: types, the calls that unlocks are awaited by, and a lock
\* on its way for every open door.
THEOREM DoorInvariant == DoorSpec => []DoorInv
<1>1. DoorInit => Awaited /\ LockIsComing
  BY DEF DoorInit, Awaited, LockIsComing
<1>2. DoorInv /\ [DoorNext]_doorVars => Awaited' /\ LockIsComing'
  <2>1. LockIsComing' <=> \A p \in Pods : doorOpen'[p] => Coming(p)'
    BY DEF LockIsComing, Coming, LockOf
  <2>. QED BY <2>1, NextAwaited, NextLock DEF DoorInv
<1>3. (DoorInit => DoorTypeOK) /\ (DoorInv /\ [DoorNext]_doorVars => DoorTypeOK')
  BY InitType, NextType DEF DoorInv
<1>4. DoorInit => DoorInv
  BY <1>1, <1>3 DEF DoorInv
<1>5. DoorInv /\ [DoorNext]_doorVars => DoorInv'
  BY <1>2, <1>3 DEF DoorInv
<1>. QED BY <1>4, <1>5, PTL DEF DoorSpec

\* An open door always has a timer, a call or a lock on its way to it, unless the
\* lock was skipped without a connection or lost with the process: however calls of
\* publishDoorUnlockWindow overlap.
THEOREM LockAlwaysComing == DoorSpec => []LockIsComing
<1>1. DoorInv => LockIsComing
  BY DEF DoorInv
<1>. QED BY <1>1, DoorInvariant, PTL

----------------------------------------------------------------------------
(* Windows of calls that do not overlap *)

\* A timer is set by a call that is over, once; no window is longer than Duration.
TimersInv ==
  /\ \A t \in armed : call[t.by].stage = "done"
  /\ \A t, u \in armed : t.by = u.by => t = u
  /\ \A p \in Pods : window[p] <= Duration

\* In a pod without overlaps, one call is under way at a time, and none while a timer
\* is armed: that timer is the registered one and outlasts the window.
OneTimer(p) ==
  /\ \A c, d \in UnderWay(p) : c = d
  /\ \A t \in armed : t.pod = p =>
       t.by = doorLockTimers[p] /\ UnderWay(p) = {} /\ window[p] <= t.left

\* There, a lock on its way closes a window that is over and comes before any unlock.
LocksFirst(p) ==
  \A i \in DOMAIN outbox : LockOf(i, p) =>
    /\ window[p] = 0
    /\ \A j \in DOMAIN outbox : Unlock(j) /\ outbox[j].pod = p => i < j

WindowInv ==
  /\ TimersInv
  /\ \A p \in Pods \ overlapped : OneTimer(p) /\ LocksFirst(p)
  /\ WindowKept

\* Every step keeps TimersInv.
LEMMA NextTimers == DoorInv /\ TimersInv /\ [DoorNext]_doorVars => TimersInv'
<1>. SUFFICES ASSUME DoorTypeOK, Awaited, TimersInv, [DoorNext]_doorVars PROVE TimersInv'
  BY DEF DoorInv
<1>. USE DEF TimersInv
<1>1. ASSUME NEW c \in Calls, OpenWindow(c) PROVE TimersInv'
  <2>1. \A t \in armed' : t \in armed /\ t.by # c /\ t.by \in Calls
    BY <1>1 DEF OpenWindow, DoorTypeOK, Timer
  <2>2. \A d \in Calls \ {c} : call'[d] = call[d]
    BY <1>1 DEF OpenWindow, DoorTypeOK
  <2>. QED BY <1>1, <2>1, <2>2 DEF OpenWindow
<1>2. ASSUME NEW c \in Calls, SetTimer(c) PROVE TimersInv'
  <2>1. \A t \in armed : t.by # c /\ t.by \in Calls
    BY <1>2 DEF SetTimer, DoorTypeOK, Timer
  <2>2. (\A d \in Calls \ {c} : call'[d] = call[d]) /\ call'[c].stage = "done"
    BY <1>2 DEF SetTimer, DoorTypeOK
  <2>3. \A t \in armed' : t \in armed \/ t = [by |-> c, pod |-> call[c].pod, left |-> Duration]
    BY <1>2 DEF SetTimer
  <2>4. window' = window
    BY <1>2 DEF SetTimer
  <2>. QED BY <2>1, <2>2, <2>3, <2>4
<1>3. ASSUME NEW t \in armed, FireTimer(t) PROVE TimersInv'
  BY <1>3 DEF FireTimer
<1>4. CASE Deliver
  <2>1. armed' = armed /\ 1 \in DOMAIN outbox /\ Head(outbox) = outbox[1]
    BY <1>4, Delivered DEF Deliver
  <2>2. outbox[1].pod \in Pods /\ outbox[1].by \in Calls
    BY <2>1, OutboxMessages
  <2>3. \/ call' = call /\ window' = window
        \/ /\ call[outbox[1].by].stage = "publishing"
           /\ call' = [call EXCEPT ![outbox[1].by] =
                        [stage |-> "resumed", pod |-> outbox[1].pod]]
           /\ window' = [window EXCEPT ![outbox[1].pod] = Duration]
    BY <1>4, <2>1 DEF Deliver, Awaited, Unlock
  <2>4. \A t \in armed : call'[t.by] = call[t.by]
    BY <2>3 DEF DoorTypeOK, Timer
  <2>5. \A p \in Pods : window'[p] <= Duration
    BY <2>2, <2>3 DEF DoorTypeOK
  <2>. QED BY <2>1, <2>4, <2>5
<1>5. CASE Connect \/ Disconnect \/ UNCHANGED doorVars
  BY <1>5 DEF Connect, Disconnect, doorVars
<1>6. CASE RestartDoors
  BY <1>6 DEF RestartDoors
<1>7. CASE Tick
  <2>1. ASSUME NEW u \in armed'
        PROVE  \E t \in armed : u = [t EXCEPT !.left = Elapsed(@)] /\ u.by = t.by
    <3>1. PICK t \in armed : u = [t EXCEPT !.left = Elapsed(@)]
      BY <1>7 DEF Tick
    <3>. QED BY <3>1, ElapsedTimer DEF DoorTypeOK
  <2>2. call' = call
    BY <1>7 DEF Tick
  <2>3. \A p \in Pods : window'[p] <= Duration
    BY <1>7 DEF Tick, Elapsed, DoorTypeOK
  <2>. QED BY <2>1, <2>2, <2>3
<1>. QED BY <1>1, <1>2, <1>3, <1>4, <1>5, <1>6, <1>7 DEF DoorNext

\* Every step keeps OneTimer in pods that stay without overlaps.
LEMMA NextOneTimer ==
  ASSUME DoorInv, TimersInv, [DoorNext]_doorVars, NEW p \in Pods, OneTimer(p), LocksFirst(p),
         p \notin overlapped'
  PROVE  OneTimer(p)'
<1>. USE DEF DoorInv
<1>0. \A t \in armed : t.by \in Calls /\ t.pod \in Pods /\ t.left \in Nat
  BY DEF DoorTypeOK, Timer
<1>1. ASSUME NEW c \in Calls, OpenWindow(c) PROVE OneTimer(p)'
  <2>1. call[c].pod \in Pods
    BY DEF DoorTypeOK
  <2>2. armed' \subseteq armed /\ window' = window
    BY <1>1 DEF OpenWindow
  <2>3. CASE p = call[c].pod
    <3>1. UnderWay(p) = {}
      BY <1>1, <2>3 DEF OpenWindow
    <3>2. UnderWay(p)' = {c}
      BY <1>1, <2>3, <3>1 DEF OpenWindow, UnderWay, DoorTypeOK
    <3>3. \A t \in armed' : t.pod # p
      BY <1>1, <2>3 DEF OpenWindow, OneTimer
    <3>. QED BY <3>2, <3>3 DEF OneTimer
  <2>4. CASE p # call[c].pod
    <3>1. UnderWay(p)' = UnderWay(p)
      BY <1>1, <2>4 DEF OpenWindow, UnderWay, DoorTypeOK
    <3>2. doorLockTimers'[p] = doorLockTimers[p]
      BY <1>1, <2>4 DEF OpenWindow, DoorTypeOK
    <3>. QED BY <2>2, <3>1, <3>2 DEF OneTimer
  <2>. QED BY <2>3, <2>4
<1>2. ASSUME NEW c \in Calls, SetTimer(c) PROVE OneTimer(p)'
  <2>1. window' = window /\ \A t \in armed' :
          t \in armed \/ t = [by |-> c, pod |-> call[c].pod, left |-> Duration]
    BY <1>2 DEF SetTimer
  <2>2. CASE p = call[c].pod
    <3>1. c \in UnderWay(p)
      BY <1>2, <2>2 DEF SetTimer, UnderWay
    <3>2. UnderWay(p)' = {}
      BY <1>2, <2>2, <3>1 DEF SetTimer, UnderWay, DoorTypeOK, OneTimer
    <3>3. \A t \in armed : t.pod # p
      BY <3>1 DEF OneTimer
    <3>4. doorLockTimers'[p] = c
      BY <1>2, <2>2 DEF SetTimer, DoorTypeOK
    <3>5. window[p] <= Duration
      BY DEF TimersInv
    <3>. QED BY <2>1, <2>2, <3>2, <3>3, <3>4, <3>5 DEF OneTimer
  <2>3. CASE p # call[c].pod
    <3>1. UnderWay(p)' = UnderWay(p) /\ doorLockTimers'[p] = doorLockTimers[p]
      BY <1>2, <2>3 DEF SetTimer, UnderWay, DoorTypeOK
    <3>. QED BY <2>1, <2>3, <3>1 DEF OneTimer
  <2>. QED BY <2>2, <2>3
<1>3. ASSUME NEW t \in armed, FireTimer(t) PROVE OneTimer(p)'
  <2>1. UnderWay(p)' = UnderWay(p) /\ armed' = armed \ {t} /\ window' = window
    BY <1>3 DEF FireTimer, UnderWay
  <2>2. CASE p = t.pod
    <3>1. \A u \in armed' : u.pod # p
      BY <2>1, <2>2 DEF OneTimer, TimersInv
    <3>. QED BY <2>1, <3>1 DEF OneTimer
  <2>3. CASE p # t.pod
    <3>1. doorLockTimers'[p] = doorLockTimers[p]
      BY <1>3, <2>3 DEF FireTimer, DoorTypeOK
    <3>. QED BY <2>1, <3>1 DEF OneTimer
  <2>. QED BY <2>2, <2>3
<1>4. CASE Deliver
  <2>1. armed' = armed /\ doorLockTimers' = doorLockTimers
        /\ 1 \in DOMAIN outbox /\ Head(outbox) = outbox[1]
    BY <1>4, Delivered DEF Deliver
  <2>2. outbox[1].pod \in Pods /\ outbox[1].by \in Calls
    BY <2>1, OutboxMessages
  <2>3. \/ call' = call /\ window' = window
        \/ /\ call[outbox[1].by].stage = "publishing" /\ call[outbox[1].by].pod = outbox[1].pod
           /\ call' = [call EXCEPT ![outbox[1].by] =
                        [stage |-> "resumed", pod |-> outbox[1].pod]]
           /\ window' = [window EXCEPT ![outbox[1].pod] = Duration]
    BY <1>4, <2>1 DEF Deliver, Awaited, Unlock
  <2>4. UnderWay(p)' = UnderWay(p)
    <3>1. \A c \in Calls : /\ call'[c].pod = call[c].pod
                           /\ call'[c].stage \in {"publishing", "resumed"}
                              <=> call[c].stage \in {"publishing", "resumed"}
      <4>1. call \in [Calls -> [stage: DoorStages, pod: Pods]]
        BY DEF DoorTypeOK
      <4>2. ASSUME NEW c \in Calls, c # outbox[1].by PROVE call'[c] = call[c]
        BY <2>3, <4>1, <4>2
      <4>3. \/ call'[outbox[1].by] = call[outbox[1].by]
            \/ /\ call[outbox[1].by].stage = "publishing"
               /\ call'[outbox[1].by].stage = "resumed"
               /\ call'[outbox[1].by].pod = call[outbox[1].by].pod
        BY <2>2, <2>3, <4>1
      <4>. QED BY <4>2, <4>3
    <3>. QED BY <3>1 DEF UnderWay
  <2>5. window'[p] = window[p] \/ UnderWay(p) # {}
    BY <2>2, <2>3 DEF UnderWay, DoorTypeOK
  <2>. QED BY <2>1, <2>4, <2>5 DEF OneTimer
<1>5. CASE Connect \/ Disconnect \/ UNCHANGED doorVars
  BY <1>5 DEF Connect, Disconnect, doorVars, OneTimer, UnderWay
<1>6. CASE RestartDoors
  <2>1. UnderWay(p)' = {}
    BY <1>6 DEF RestartDoors, UnderWay
  <2>. QED BY <1>6, <2>1 DEF RestartDoors, OneTimer
<1>7. CASE Tick
  <2>1. UnderWay(p)' = UnderWay(p) /\ doorLockTimers' = doorLockTimers
    BY <1>7 DEF Tick, UnderWay
  <2>2. ASSUME NEW u \in armed', u.pod = p
        PROVE  u.by = doorLockTimers[p] /\ UnderWay(p) = {} /\ window'[p] <= u.left
    <3>1. PICK t \in armed : u = [t EXCEPT !.left = Elapsed(@)]
      BY <1>7 DEF Tick
    <3>2. u.by = t.by /\ u.pod = t.pod /\ u.left = Elapsed(t.left)
      BY <3>1, ElapsedTimer DEF DoorTypeOK
    <3>3. window'[p] = Elapsed(window[p]) /\ window[p] \in Nat
      BY <1>7 DEF Tick, DoorTypeOK
    <3>4. window[p] <= t.left /\ t.left \in Nat
      BY <1>0, <2>2, <3>2 DEF OneTimer
    <3>5. Elapsed(window[p]) <= Elapsed(t.left)
      BY <3>3, <3>4 DEF Elapsed
    <3>. QED BY <2>2, <3>2, <3>3, <3>5 DEF OneTimer
  <2>. QED BY <2>1, <2>2 DEF OneTimer
<1>. QED BY <1>1, <1>2, <1>3, <1>4, <1>5, <1>6, <1>7 DEF DoorNext

\* Every step keeps LocksFirst in pods that stay without overlaps.
LEMMA NextLocksFirst ==
  ASSUME DoorInv, TimersInv, [DoorNext]_doorVars, NEW p \in Pods, OneTimer(p), LocksFirst(p),
         p \notin overlapped'
  PROVE  LocksFirst(p)'
<1>. USE DEF DoorInv, LocksFirst, LockOf, Unlock
<1>1. ASSUME NEW c \in Calls, OpenWindow(c) PROVE LocksFirst(p)'
  <2>1. call[c].pod \in Pods /\ Publish(call[c].pod, "unlock", c) /\ window' = window
    BY <1>1 DEF OpenWindow, DoorTypeOK
  <2>2. /\ \A i \in DOMAIN outbox : i \in DOMAIN outbox' /\ outbox'[i] = outbox[i]
        /\ \A i \in DOMAIN outbox' : i \in DOMAIN outbox \/ (connected /\ i = Len(outbox) + 1)
        /\ \A i \in DOMAIN outbox : i \in Int /\ i < Len(outbox) + 1
        /\ connected => outbox'[Len(outbox) + 1] =
                          [pod |-> call[c].pod, command |-> "unlock", by |-> c]
    BY <2>1, PublishedMessages
  <2>. QED BY <2>1, <2>2
<1>2. ASSUME NEW t \in armed, FireTimer(t) PROVE LocksFirst(p)'
  <2>1. t.pod \in Pods /\ t.by \in Calls /\ t.left = 0 /\ Publish(t.pod, "lock", t.by)
        /\ window' = window
    BY <1>2 DEF FireTimer, DoorTypeOK, Timer
  <2>2. /\ \A i \in DOMAIN outbox : i \in DOMAIN outbox' /\ outbox'[i] = outbox[i]
        /\ \A i \in DOMAIN outbox' : i \in DOMAIN outbox \/ (connected /\ i = Len(outbox) + 1)
        /\ connected => outbox'[Len(outbox) + 1] =
                          [pod |-> t.pod, command |-> "lock", by |-> t.by]
    BY <2>1, PublishedMessages
  <2>3. CASE p = t.pod
    <3>1. window[p] = 0 /\ UnderWay(p) = {}
      <4>1. window[p] <= t.left /\ UnderWay(p) = {}
        BY <2>3 DEF OneTimer
      <4>. QED BY <2>1, <4>1 DEF DoorTypeOK
    <3>2. ASSUME NEW j \in DOMAIN outbox, Unlock(j), outbox[j].pod = p PROVE FALSE
      <4>1. outbox[j].by \in UnderWay(p)
        BY <3>2, OutboxMessages DEF Awaited, UnderWay
      <4>. QED BY <3>1, <4>1
    <3>3. ASSUME NEW j \in DOMAIN outbox', Unlock(j)', outbox'[j].pod = p PROVE FALSE
      BY <2>2, <3>2, <3>3
    <3>. QED BY <2>1, <3>1, <3>3
  <2>4. CASE p # t.pod
    BY <2>1, <2>2, <2>4
  <2>. QED BY <2>3, <2>4
<1>3. CASE Deliver
  <2>1. 1 \in DOMAIN outbox /\ Head(outbox) = outbox[1]
    BY <1>3, Delivered
  <2>2. outbox[1].pod \in Pods
    BY <2>1, OutboxMessages
  <2>3. \A i \in DOMAIN outbox' : /\ i \in Int /\ i >= 1 /\ i + 1 \in DOMAIN outbox
                                  /\ outbox'[i] = outbox[i + 1]
    BY <1>3, Delivered
  <2>4. SUFFICES ASSUME NEW i \in DOMAIN outbox', LockOf(i, p)'
                 PROVE  /\ window'[p] = 0
                        /\ \A j \in DOMAIN outbox' :
                             Unlock(j)' /\ outbox'[j].pod = p => i < j
    OBVIOUS
  <2>5. i + 1 \in DOMAIN outbox /\ LockOf(i + 1, p) /\ i \in Int /\ i >= 1
    BY <2>3, <2>4
  <2>6. window[p] = 0 /\ ~(Unlock(1) /\ outbox[1].pod = p)
    BY <2>1, <2>5
  <2>7. window'[p] = 0
    BY <1>3, <2>1, <2>2, <2>6 DEF Deliver, DoorTypeOK
  <2>8. ASSUME NEW j \in DOMAIN outbox', Unlock(j)', outbox'[j].pod = p PROVE i < j
    <3>1. j \in Int /\ j + 1 \in DOMAIN outbox /\ Unlock(j + 1) /\ outbox[j + 1].pod = p
      BY <2>3, <2>8
    <3>2. i + 1 < j + 1
      BY <2>5, <3>1
    <3>. QED BY <2>5, <3>1, <3>2
  <2>. QED BY <2>7, <2>8
<1>4. CASE RestartDoors
  BY <1>4 DEF RestartDoors
<1>5. CASE Tick
  <2>1. outbox' = outbox /\ (window[p] = 0 => window'[p] = 0)
    BY <1>5 DEF Tick, Elapsed, DoorTypeOK
  <2>. QED BY <2>1
<1>6. ASSUME NEW c \in Calls, SetTimer(c) PROVE LocksFirst(p)'
  BY <1>6 DEF SetTimer
<1>7. CASE Connect \/ Disconnect \/ UNCHANGED doorVars
  BY <1>7 DEF Connect, Disconnect, doorVars
<1>. QED BY <1>1, <1>2, <1>3, <1>4, <1>5, <1>6, <1>7 DEF DoorNext

\* No step forgets an overlap, or locks a pod without overlaps inside its window.
LEMMA NextWindowKept ==
  ASSUME DoorInv, WindowInv, [DoorNext]_doorVars
  PROVE  overlapped \subseteq overlapped' /\ WindowKept'
<1>1. overlapped \subseteq overlapped'
  BY DEF DoorNext, OpenWindow, SetTimer, FireTimer, Deliver, Connect, Disconnect, RestartDoors,
         Tick, doorVars
<1>2. early' \subseteq overlapped
  <2>1. CASE Deliver
    <3>1. 1 \in DOMAIN outbox /\ Head(outbox) = outbox[1]
      BY <2>1, Delivered DEF DoorInv
    <3>2. outbox[1].pod \in Pods
      BY <3>1, OutboxMessages DEF DoorInv
    <3>3. ASSUME outbox[1].command = "lock", window[outbox[1].pod] > 0
          PROVE  outbox[1].pod \in overlapped
      <4>1. ~LocksFirst(outbox[1].pod)
        BY <3>1, <3>3 DEF LocksFirst, LockOf
      <4>. QED BY <3>2, <4>1 DEF WindowInv
    <3>4. early \subseteq overlapped
      BY DEF WindowInv, WindowKept
    <3>. QED BY <2>1, <3>1, <3>3, <3>4 DEF Deliver
  <2>2. CASE early' = early
    BY <2>2 DEF WindowInv, WindowKept
  <2>3. Deliver \/ early' = early
    BY DEF DoorNext, OpenWindow, SetTimer, FireTimer, Connect, Disconnect, RestartDoors, Tick, doorVars
  <2>. QED BY <2>1, <2>2, <2>3
<1>. QED BY <1>1, <1>2 DEF WindowKept

\* While calls for a pod do not overlap, its registered timer is the only one and
\* outlasts the window, and locks on their way come before the next unlock.
THEOREM WindowInvariant == DoorSpec => [](DoorInv /\ WindowInv)
<1>1. DoorInit => WindowInv
  <2>1. SUFFICES ASSUME DoorInit PROVE WindowInv
    OBVIOUS
  <2>2. TimersInv /\ WindowKept
    BY <2>1 DEF DoorInit, TimersInv, WindowKept
  <2>3. ASSUME NEW p \in Pods PROVE OneTimer(p) /\ LocksFirst(p)
    <3>1. UnderWay(p) = {}
      BY <2>1 DEF DoorInit, UnderWay
    <3>. QED BY <2>1, <3>1 DEF DoorInit, OneTimer, LocksFirst
  <2>. QED BY <2>2, <2>3 DEF WindowInv
<1>2. DoorInv /\ WindowInv /\ [DoorNext]_doorVars => WindowInv'
  <2>1. SUFFICES ASSUME DoorInv, WindowInv, [DoorNext]_doorVars PROVE WindowInv'
    OBVIOUS
  <2>2. TimersInv'
    BY <2>1, NextTimers DEF WindowInv
  <2>3. overlapped \subseteq overlapped' /\ WindowKept'
    BY <2>1, NextWindowKept
  <2>4. ASSUME NEW p \in Pods \ overlapped' PROVE OneTimer(p)' /\ LocksFirst(p)'
    <3>1. p \in Pods /\ p \notin overlapped' /\ TimersInv /\ OneTimer(p) /\ LocksFirst(p)
      BY <2>1, <2>3 DEF WindowInv
    <3>. QED BY <2>1, <3>1, NextOneTimer, NextLocksFirst
  <2>. QED BY <2>2, <2>3, <2>4 DEF WindowInv
<1>. QED BY <1>1, <1>2, DoorInvariant, PTL DEF DoorSpec

\* Calls of publishDoorUnlockWindow that do not overlap each get their whole window,
\* whatever pods, lost connections and restarts.
THEOREM WindowsAreKept == DoorSpec => []WindowKept
<1>1. WindowInv => WindowKept
  BY DEF WindowInv
<1>. QED BY <1>1, WindowInvariant, PTL
=============================================================================
