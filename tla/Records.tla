------------------------------- MODULE Records -------------------------------
(***************************************************************************)
(* Administration of records (services/kernel/src/routers: location and    *)
(* records): regions, zones, locations, pods, aroma defusers, playlists,   *)
(* musics and mood presets.                                                *)
(*                                                                         *)
(* Every handler is a sequence of checks, each a statement of its own,     *)
(* then one writing statement; nothing is locked and no transaction spans  *)
(* them, so that what a check saw may be gone at the write.  The indexes   *)
(* and the foreign keys of the schema refuse some writes; their errors are *)
(* not caught and become a 500.                                            *)
(*                                                                         *)
(* A row keeps its name (the title of a mood, the MAC of a defuser), the   *)
(* rows it names, and whether it is live (not is_deleted).  A purged row   *)
(* is one removed permanently.  A request is one call of a handler.        *)
(***************************************************************************)
EXTENDS Integers, FiniteSets, Sequences

CONSTANTS
  Requests,   \* the calls
  Names,
  MaxId,      \* bound: rows of a table
  Scenes      \* bound: the sets of tables that the calls of one behaviour are about

Kinds == {"region", "zone", "location", "pod", "defuser", "playlist", "music", "mood"}
Keep == "keep"     \* the body leaves the column alone

\* Assumed of the constants; the run of ServicesMC evaluates it.
RecordsAssumption ==
  /\ MaxId \in Nat \ {0} /\ Names # {} /\ Scenes \in SUBSET SUBSET Kinds
  /\ Keep \notin Names /\ \A n \in Names : \E m \in Names : m # n

Kind(id) == id[1]

\* Columns that name rows of another table.
Parent ==
  [k \in Kinds |->
     CASE k = "zone" -> {"region"}
       [] k = "location" -> {"zone"}
       [] k = "pod" -> {"location", "defuser"}
       [] k \in {"music", "mood"} -> {"playlist"}
       [] k \in {"region", "defuser", "playlist"} -> {}]

Row == [name: Names, up: SUBSET (Kinds \X Nat), state: {"live", "deleted"}]
None == [state |-> "none"]       \* never inserted
Purged == [state |-> "purged"]

VARIABLES
  scene,    \* bound: the tables the calls are about
  rows,     \* the tables
  call,     \* where each request is
  excused   \* history: rows written by a raced request, restored or purged

vars == <<scene, rows, call, excused>>

\* The rows of the tables in view.
Ids == scene \X (1..MaxId)

Live(id) == rows[id].state = "live"
There(id) == rows[id].state \in {"live", "deleted"}
Up(id, k) == {p \in rows[id].up : Kind(p) = k}
LiveChildren(id) == {c \in Ids : Live(c) /\ id \in rows[c].up}

----------------------------------------------------------------------------
(* What a request is *)

Checks == {"nextId", "there", "ever", "deleted", "named", "childless"} \cup Kinds
Codes == {200, 201, 400, 404, 409, 500}
Ops == {"insert", "update", "remove", "restore", "purge"}

Call ==
       [pc: {"new"}]
  \cup [pc: {"checks", "load"}, op: Ops, id: Ids, name: Names \cup {Keep},
        up: SUBSET Ids, checks: Seq(Checks), old: Row \cup {None}, raced: BOOLEAN]
  \cup [pc: {"done"}, code: Codes, id: Ids, raced: BOOLEAN, refused: BOOLEAN]

TypeOK ==
  /\ scene \in Scenes
  /\ rows \in [Ids -> Row \cup {None, Purged}]
  /\ call \in [Requests -> Call]
  /\ excused \subseteq Ids

Begin(r, op, id, name, up, checks) ==
  /\ call[r].pc = "new"
  /\ call' = [call EXCEPT ![r] = [pc |-> "checks", op |-> op, id |-> id, name |-> name,
                                  up |-> up, checks |-> checks, old |-> None,
                                  raced |-> FALSE]]
  /\ UNCHANGED <<scene, rows, excused>>

\* The row that the next insert of a table takes; a random id is nobody else's.
Unused(k) == {id \in Ids : Kind(id) = k /\ rows[id] = None /\
                           \A r \in Requests : call[r].pc = "checks" => call[r].id # id}
Fresh(k) == {id \in Unused(k) : \A j \in Unused(k) : id[2] <= j[2]}

\* What a body may name: one row per table, defusers and playlists possibly none.
Bodies(k) ==
  {up \in SUBSET {p \in Ids : Kind(p) \in Parent[k] /\ rows[p] # None} :
     \A q \in Parent[k] \cap scene :
       LET named == Cardinality({p \in up : Kind(p) = q})
       IN  named <= 1 /\ (named = 0 => k \in {"pod", "mood"})}

Insert(r, k, checks) ==
  \E id \in Fresh(k), name \in Names, up \in Bodies(k) :
    Begin(r, "insert", id, name, up, checks)

\* The body of an update may change the name, the rows named, or both.
Update(r, k, checks) ==
  \E id \in Ids, name \in Names \cup {Keep}, up \in Bodies(k) \cup {{}} :
    Kind(id) = k /\ Begin(r, "update", id, name, up, checks)

Simple(r, k, op, checks) ==
  \E id \in Ids : Kind(id) = k /\ Begin(r, op, id, Keep, {}, checks)

----------------------------------------------------------------------------
(* The handlers: what each checks, in order, before it writes *)

CreateRegion(r) == Insert(r, "region", <<"named">>)
UpdateRegion(r) == Update(r, "region", <<"there", "named">>)
\* Mutant: a region or a zone is removed without a look at what it holds.
RemoveRegionBlindly(r) == Simple(r, "region", "remove", <<"there">>)
RemoveRegion(r) == Simple(r, "region", "remove", <<"there", "childless">>)
RestoreRegion(r) == Simple(r, "region", "restore", <<"ever">>)

CreateZone(r) == Insert(r, "zone", <<"region", "named">>)
UpdateZone(r) == Update(r, "zone", <<"there", "region", "named">>)
RemoveZone(r) == Simple(r, "zone", "remove", <<"there", "childless">>)
RestoreZone(r) == Simple(r, "zone", "restore", <<"ever">>)

CreateLocation(r) == Insert(r, "location", <<"zone", "named">>)
UpdateLocation(r) == Update(r, "location", <<"there", "zone", "named">>)
RemoveLocation(r) == Simple(r, "location", "remove", <<"there">>)
RestoreLocation(r) == Simple(r, "location", "restore", <<"ever">>)

CreatePod(r) == Insert(r, "pod", <<"nextId", "location", "defuser">>)
UpdatePod(r) == Update(r, "pod", <<"there", "location", "defuser">>)
RemovePod(r) == Simple(r, "pod", "remove", <<"there">>)
PurgePod(r) == Simple(r, "pod", "purge", <<"ever">>)
RestorePod(r) == Simple(r, "pod", "restore", <<"ever">>)

CreateDefuser(r) == Insert(r, "defuser", <<"named">>)
UpdateDefuser(r) == Update(r, "defuser", <<"there", "named">>)
RemoveDefuser(r) == Simple(r, "defuser", "remove", <<"there", "childless">>)
PurgeDefuser(r) == Simple(r, "defuser", "purge", <<"ever">>)
RestoreDefuser(r) == Simple(r, "defuser", "restore", <<"deleted">>)

CreatePlaylist(r) == Insert(r, "playlist", <<"named">>)
UpdatePlaylist(r) == Update(r, "playlist", <<"there", "named">>)
RemovePlaylist(r) == Simple(r, "playlist", "remove", <<"there">>)
PurgePlaylist(r) == Simple(r, "playlist", "purge", <<"ever">>)
RestorePlaylist(r) == Simple(r, "playlist", "restore", <<"deleted">>)

CreateMusic(r) == Insert(r, "music", <<"playlist">>)
UpdateMusic(r) == Update(r, "music", <<"there", "playlist">>)
RemoveMusic(r) == Simple(r, "music", "remove", <<"there">>)
PurgeMusic(r) == Simple(r, "music", "purge", <<"ever">>)
RestoreMusic(r) == Simple(r, "music", "restore", <<"deleted">>)

CreateMood(r) == Insert(r, "mood", <<"named", "playlist">>)
UpdateMood(r) == Update(r, "mood", <<"there", "named", "playlist">>)
RemoveMood(r) == Simple(r, "mood", "remove", <<"there">>)
PurgeMood(r) == Simple(r, "mood", "purge", <<"ever">>)
RestoreMood(r) == Simple(r, "mood", "restore", <<"deleted">>)

----------------------------------------------------------------------------
(* The statements *)

\* What a call makes of a row: the body's columns over those of the row as it is; the
\* checks look at the row as the first of them read it, the write at the row as it is.
Base(c) == IF c.op # "insert" /\ There(c.id) THEN rows[c.id] ELSE None

Upward(c, row) ==
  c.up \cup IF row = None THEN {}
            ELSE {p \in row.up : ~\E q \in c.up : Kind(q) = Kind(p)}

NewName(c, row) == IF c.name = Keep /\ row # None THEN row.name ELSE c.name

\* The rows of table q that are checked: those the row would name; of a music or a mood
\* only those of the body.
NamedBy(c, q) ==
  {p \in Upward(c, IF Kind(c.id) \in {"music", "mood"} THEN None ELSE c.old) : Kind(p) = q}

\* Names are looked for in the whole table; those of zones and locations under one parent.
Namesakes(c, row) ==
  {j \in Ids \ {c.id} :
     /\ Kind(j) = Kind(c.id) /\ There(j) /\ rows[j].name = NewName(c, row)
     /\ Kind(j) \in {"zone", "location"} => rows[j].up = Upward(c, row)}

\* findRegionByName and its likes: live rows only; a body without name has none to check,
\* but a zone or a location that moves has.
NameFree(c) ==
  \/ c.name = Keep /\ Kind(c.id) \notin {"zone", "location"}
  \/ \A j \in Namesakes(c, c.old) : ~Live(j)

\* The answer of a check that fails.
Refusal(c, check) ==
  CASE check \in {"named", "childless"} -> 409
    [] check = "deleted" -> IF There(c.id) THEN 200 ELSE 404
    [] check \in {"location", "defuser"} -> 400
    [] OTHER -> 404

Passes(c, check) ==
  CASE check = "nextId" -> TRUE
    [] check = "there" -> Live(c.id)
    [] check = "ever" -> There(c.id)
    [] check = "deleted" -> rows[c.id].state = "deleted"
    [] check = "named" -> NameFree(c)
    [] check = "childless" -> LiveChildren(c.id) = {}
    [] check = "playlist" -> \A p \in NamedBy(c, "playlist") :
                               IF Kind(c.id) = "mood" THEN There(p) ELSE Live(p)
    [] check \in {"region", "zone", "location", "defuser"} ->
         \A p \in NamedBy(c, check) : Live(p)

Answer(r, code, refused) ==
  call' = [call EXCEPT ![r] = [pc |-> "done", code |-> code, id |-> call[r].id,
                               raced |-> call[r].raced, refused |-> refused]]

\* findNextPodId: one more than the greatest id.
NextPod(c) ==
  LET used == {id \in Ids : Kind(id) = "pod" /\ There(id)}
      n == IF used = {} THEN 1 ELSE 1 + CHOOSE i \in 1..MaxId :
             <<"pod", i>> \in used /\ \A id \in used : id[2] <= i
  IN  <<"pod", n>>

Check(r) ==
  /\ call[r].pc = "checks" /\ call[r].checks # <<>>
  /\ LET c == call[r] check == Head(c.checks)
     IN  IF ~Passes(c, check) THEN Answer(r, Refusal(c, check), FALSE)
         ELSE /\ check = "nextId" => NextPod(c) \in Ids    \* bound
              /\ call' = [call EXCEPT
                   ![r] = [c EXCEPT !.checks = Tail(@),
                                    !.old = IF check = "there" THEN rows[c.id] ELSE @,
                                    !.id = IF check = "nextId" THEN NextPod(c) ELSE @]]
  /\ UNCHANGED <<scene, rows, excused>>

\* A write of another request that matters to a call under way: to a row it names, to its
\* own row, to one of the same name, or to one that names its row.
Matters(id, row, c) ==
  \/ id = c.id
  \/ Kind(id) = Kind(c.id)
  \/ id \in Upward(c, Base(c))
  \/ c.id \in row.up

Raced(r, id, row) ==
  [q \in Requests |->
     IF q # r /\ call[q].pc \in {"checks", "load"} /\ Matters(id, row, call[q])
     THEN [call[q] EXCEPT !.raced = TRUE] ELSE call[q]]

\* The unique indexes: deleted rows count.  Moods, playlists and musics have none.
Taken(c) ==
  \/ c.op = "insert" /\ There(c.id)
  \/ Kind(c.id) \in {"region", "zone", "location", "defuser"}
     /\ Namesakes(c, Base(c)) # {}
\* A music's playlist must be there; locations of pods, zones and regions are never purged.
Dangling(c) == Kind(c.id) = "music" /\ \E p \in Upward(c, Base(c)) : ~There(p)

\* Whether the row that stands in the way is one the checks do not see.
Hidden(c) == \E j \in Namesakes(c, Base(c)) : ~Live(j)

Written(c) ==
  CASE c.op \in {"insert", "update"} ->
         [name |-> NewName(c, Base(c)), up |-> Upward(c, Base(c)),
          state |-> IF c.op = "insert" THEN "live" ELSE rows[c.id].state]
    [] c.op = "remove"  -> [rows[c.id] EXCEPT !.state = "deleted"]
    [] c.op = "restore" -> [rows[c.id] EXCEPT !.state = "live"]
    [] c.op = "purge"   -> IF Kind(c.id) = "pod" THEN None ELSE Purged

\* The musics of a purged playlist go with it.
Store(c) ==
  [id \in Ids |->
     IF id = c.id THEN Written(c)
     ELSE IF c.op = "purge" /\ Kind(id) = "music" /\ There(id) /\ c.id \in rows[id].up
     THEN Purged ELSE rows[id]]

\* The statement that writes; an insert or an update of a pod loads the row again.
Write(r) ==
  LET c == call[r]
      Next2 == IF Kind(c.id) = "pod" /\ c.op \in {"insert", "update"}
               THEN [c EXCEPT !.pc = "load"]
               ELSE [pc |-> "done", code |-> IF c.op = "insert" THEN 201 ELSE 200,
                     id |-> c.id, raced |-> c.raced, refused |-> FALSE]
  IN  /\ c.pc = "checks" /\ c.checks = <<>>
      /\ UNCHANGED scene
      /\ \/ /\ c.op # "insert" /\ ~There(c.id)       \* no row: nothing is written
            /\ call' = [call EXCEPT ![r] = Next2]
            /\ UNCHANGED <<rows, excused>>
         \/ /\ c.op \in {"insert", "update"} /\ (c.op = "insert" \/ There(c.id))
            /\ Taken(c) \/ Dangling(c)
            /\ Answer(r, 500, Hidden(c))
            /\ UNCHANGED <<rows, excused>>
         \/ /\ c.op = "purge" /\ Kind(c.id) = "pod"  \* its sessions keep it
            /\ There(c.id)
            /\ Answer(r, 500, TRUE)
            /\ UNCHANGED <<rows, excused>>
         \/ /\ c.op = "insert" \/ There(c.id)
            /\ c.op \in {"insert", "update"} => ~(Taken(c) \/ Dangling(c))
            /\ rows' = Store(c)
            /\ call' = [Raced(r, c.id, [up |-> Upward(c, Base(c))]) EXCEPT ![r] = Next2]
            /\ excused' = IF c.raced \/ c.op \in {"restore", "purge"}
                          THEN excused \cup {c.id} ELSE excused

Load(r) ==
  /\ call[r].pc = "load"
  /\ Answer(r, IF ~Live(call[r].id) THEN 500
               ELSE IF call[r].op = "insert" THEN 201 ELSE 200, FALSE)
  /\ UNCHANGED <<scene, rows, excused>>

----------------------------------------------------------------------------
(* Init: the first row of each table, live or deleted, under a live parent; parents have
   a second row.  A deleted region, zone or defuser holds nothing live. *)

First(live) ==
  [id \in Ids |->
     LET k == Kind(id)
         ups == {<<p, 1>> : p \in Parent[k] \cap scene}
         row == [name |-> CHOOSE n \in Names : TRUE, up |-> ups, state |-> "live"]
         other == CHOOSE n \in Names : n # row.name
     IN  IF id[2] = 1 THEN [row EXCEPT !.state = IF id \in live THEN "live" ELSE "deleted"]
         ELSE IF id[2] = 2 /\ \E j \in scene : k \in Parent[j] THEN [row EXCEPT !.name = other]
         ELSE None]

Init ==
  /\ scene \in Scenes
  /\ \E live \in SUBSET {<<k, 1>> : k \in scene} :
       /\ rows = First(live)
       /\ \A id \in Ids : Live(id) => \A p \in rows[id].up : Live(p)
  /\ call = [r \in Requests |-> [pc |-> "new"]]
  /\ excused = {}

Places(r) ==
  \/ CreateRegion(r) \/ UpdateRegion(r) \/ RemoveRegion(r) \/ RestoreRegion(r)
  \/ CreateZone(r) \/ UpdateZone(r) \/ RemoveZone(r) \/ RestoreZone(r)
  \/ CreateLocation(r) \/ UpdateLocation(r) \/ RemoveLocation(r) \/ RestoreLocation(r)

Equipment(r) ==
  \/ CreatePod(r) \/ UpdatePod(r) \/ RemovePod(r) \/ PurgePod(r) \/ RestorePod(r)
  \/ CreateDefuser(r) \/ UpdateDefuser(r) \/ RemoveDefuser(r) \/ PurgeDefuser(r)
  \/ RestoreDefuser(r)

Content(r) ==
  \/ CreatePlaylist(r) \/ UpdatePlaylist(r) \/ RemovePlaylist(r) \/ PurgePlaylist(r)
  \/ RestorePlaylist(r)
  \/ CreateMusic(r) \/ UpdateMusic(r) \/ RemoveMusic(r) \/ PurgeMusic(r) \/ RestoreMusic(r)
  \/ CreateMood(r) \/ UpdateMood(r) \/ RemoveMood(r) \/ PurgeMood(r) \/ RestoreMood(r)

Next ==
  \E r \in Requests :
    Places(r) \/ Equipment(r) \/ Content(r) \/ Check(r) \/ Write(r) \/ Load(r)

Spec == Init /\ [][Next]_vars

----------------------------------------------------------------------------
(* Properties *)

\* Removal of a region, a zone or a defuser asks whether something live is in it; making
\* or moving something asks whether what it goes into is live.  The asking and the writing
\* are different statements, yet unless two writes crossed, or something was restored or
\* purged, a live zone is in a live region, a live location in a live zone, and a live pod
\* has live defusers only.
PlacesStand ==
  \A id \in Ids \ excused :
    Live(id) =>
      \A p \in rows[id].up :
        Kind(p) \in {"region", "zone", "defuser"} => Live(p) \/ p \in excused

\* Playlists and moods have no index on their names, and the lookups of the others see live
\* rows only: unless two writes crossed or a row was restored, no two live rows that a
\* name is to tell apart have the same.
NamesTellApart ==
  \A i, j \in Ids \ excused :
    /\ i # j /\ Kind(i) = Kind(j) /\ Kind(i) \notin {"pod", "music"}
    /\ Live(i) /\ Live(j) /\ rows[i].name = rows[j].name
    => Kind(i) \in {"zone", "location"} /\ rows[i].up # rows[j].up

\* A 500 has a cause that the checks before the write cannot see: a write in between, a
\* deleted row that still holds the name, or sessions of a pod to be purged.
FailuresExplained ==
  \A r \in Requests :
    call[r].pc = "done" /\ call[r].code = 500 => call[r].raced \/ call[r].refused
=============================================================================
