------------------------- MODULE ServicesInvariants -------------------------
(***************************************************************************)
(* The inductive invariants of ten components of Services, each over the   *)
(* slots x1, x2, ... the component uses, and the words they are said with. *)
(***************************************************************************)
EXTENDS Services

----------------------------------------------------------------------------
(* Crons: x1 is the clock, x2 when each session expires, x3 when a renewal under way will    *)
(* have it expire, x4 which jobs run already, x5 the jobs, x6 the lock, x7 the runs, x8      *)
(* what was deleted too early.                                                               *)

JobWaiting == [pc: {"lock"}, cutoff: 0..MaxClock, late: SUBSET Sessions]
JobWorking == [pc: {"batch", "delete", "commit"}, cutoff: 0..MaxClock, late: SUBSET Sessions,
            done: 0..MaxBatches, held: SUBSET Sessions, chosen: SUBSET Sessions]

CronsTyped ==
  /\ Crons!TypeOK
  /\ \A p \in Actors : x5[p].pc \in {"batch", "delete"} => x5[p].done < MaxBatches

\* The lock is with the one that works.
Alone == \A p \in Actors : x5[p] \in JobWorking => x6 = {p}

\* No session is to expire later than Life from now, and a renewal moves an expiry on.
Expiries ==
  \A s \in Sessions :
    /\ x2[s] \in {Crons!New, Crons!Gone} \cup Nat /\ x2[s] <= x1 + Life
    /\ x3[s] = Crons!NoOne \/ x3[s] \in Nat
    /\ x3[s] # Crons!NoOne => /\ x3[s] <= x1 + Life
                           /\ x2[s] # Crons!New /\ x2[s] <= x3[s]

\* A session that is being renewed had not expired when the job began, or was so then.
Renewals ==
  \A p \in Actors : x5[p] # Crons!Idle =>
    /\ x5[p].cutoff <= x1
    /\ \A s \in Sessions \ x5[p].late :
         x3[s] # Crons!NoOne => x2[s] = Crons!Gone \/ x2[s] >= x5[p].cutoff

\* What is chosen has expired still when it is deleted.
ChosenExpired ==
  \A p \in Actors : x5[p].pc = "delete" =>
    \A s \in x5[p].chosen \ x5[p].late : x2[s] # Crons!New /\ x2[s] < x5[p].cutoff

\* A short batch was all there was.
AllChosen ==
  \A p \in Actors :
    x5[p].pc \in {"delete", "commit"} /\ Crons!Cardinality(x5[p].chosen) < Batch =>
      \A s \in Crons!Expired(p) : x5[p].pc = "delete" /\ s \in x5[p].chosen

CronsInv ==
  /\ CronsTyped /\ Alone /\ Expiries /\ Renewals /\ ChosenExpired /\ AllChosen /\ x8 = {}

----------------------------------------------------------------------------
(* Gateway, its cookies: x5 is the jar, x6 and x7 the sessions issued and their owners, *)
(* x13 what the auth service took each panel for.                                       *)

Panels == Scopes \cup {Nil}

\* The name a panel's own authentication cookie has in the browser.
OwnName(s) == [scope |-> s, auth |-> TRUE]

\* What a panel's own cookie holds was issued to it, and so was whatever it was taken for.
CookiesInv ==
  /\ x6 \in Nat /\ x7 \in Seq(Panels) /\ Len(x7) = x6
  /\ x5 \in [Gateway!Names -> 0..x6] /\ x13 \in [Panels -> SUBSET (1..x6)]
  /\ \A s \in Panels :
       /\ x5[OwnName(s)] # 0 => x7[x5[OwnName(s)]] = s
       /\ \A k \in x13[s] : x7[k] = s

----------------------------------------------------------------------------
(* Gateway, its polls: x1 is the clock, x2 the cache, x3 the calls, x8 the answers, x9 the *)
(* newest state shown of each pod, x10 when answers crossed, x11 the good answers received *)
(* and x12 the pods whose entry gave way.                                                  *)

PollsTyped ==
  /\ x1 \in Nat /\ x2 \in Seq(Gateway!Entry) /\ Len(x2) <= MaxEntries
  /\ x3 \in [Actors -> Gateway!Call] /\ x8 = [c \in Actors |-> x8[c]]
  /\ x9 \in [Pods -> Int] /\ x10 \in [Pods -> Int] /\ x11 \subseteq Gateway!Entry

\* A pod has one entry: the last good answer for it, which was the newest state then or came
\* in the wrong order.
Entries(cache, received, newest, crossed) ==
  \A i \in 1..Len(cache) :
    LET e == cache[i] IN
    /\ \A j \in 1..Len(cache) : cache[j].pod = e.pod => i = j
    /\ e \in received /\ \A f \in received : f.pod = e.pod => f.at <= e.at
    /\ e.body.at = newest[e.pod] \/ (crossed[e.pod] # -1 /\ e.at <= crossed[e.pod])

\* What was received is in the cache, unless it gave way; nothing is of the future.
Retained(cache, received, dropped) ==
  \A f \in received :
    /\ f.at <= x1
    /\ f.pod \in dropped \/ \E i \in 1..Len(cache) : cache[i].pod = f.pod

StaleAnswers ==
  \A c \in Actors : x8[c].kind = "stale" =>
    \E e \in x11 : e.pod = x8[c].pod /\ e.body = x8[c].body

PollsInv ==
  PollsTyped /\ Entries(x2, x11, x9, x10) /\ Retained(x2, x11, x12) /\ StaleAnswers

----------------------------------------------------------------------------
(* Roles: x1 are the roles, x2 their permissions, x3 the next id, x4 the requests, x5 the    *)
(* edits, x6 the slugs that crossed, x7 whether the defaults were just seeded.               *)

\* Ids not given out yet are of no role.
RolesTyped ==
  /\ Roles!TypeOK /\ x7 \in BOOLEAN
  /\ \A id \in Roles!Ids : id >= x3 => x1[id] = Roles!NoRole

\* A role that has the slug a request has checked was given it since.
SlugKnown(q, roles) ==
  /\ q.pc = "create" =>
       \A o \in Roles!Ids : roles[o].slug = q.slug => q.slug \in q.missed.slugs
  /\ q.pc = "update" /\ q.slug \in Slugs =>
       \A o \in Roles!Ids \ {q.id} : roles[o].slug = q.slug => q.slug \in q.missed.slugs

DefaultSlug(row) == IF row.slug \in Defaults THEN row.slug ELSE Nil

\* The default roles to be put right are those that do not stand.
FixRight(fix, roles) ==
  /\ \A s \in fix : \E id \in Roles!Ids : roles[id].slug = s /\ ~roles[id].std
  /\ \A s \in Defaults \ fix :
       (\E id \in Roles!Ids : roles[id].slug = s) =>
         \E id \in Roles!Ids : roles[id].slug = s /\ roles[id].std

\* What a seeding has read still holds, but for what it has missed.
SeedKnown(q, roles, grants) ==
  q.pc \in {"roles", "perms"} =>
    /\ \A id \in Roles!Ids : id \in q.missed.ids \/ q.found[id] = DefaultSlug(roles[id])
    /\ \A s \in Defaults :
         \/ s \in q.missed.slugs
         \/ \A o \in Roles!Ids : roles[o].slug = s => \E id \in Roles!Ids : q.found[id] = s
    /\ q.missed = Roles!Nothing => FixRight(q.fix, roles)
    /\ q.pc = "perms" => \A id \in Roles!Ids : id \in q.missed.ids \/ q.old[id] = grants[id]

Known(q, roles, grants) ==
  /\ SlugKnown(q, roles) /\ SeedKnown(q, roles, grants)
  /\ q.pc = "delete" => q.on \notin Managed
  /\ q.pc = "failed" => q.excused

DefaultsStand ==
  x7 => \A s \in Defaults :
    /\ \E id \in Roles!Ids : x1[id].slug = s /\ x1[id].std
    /\ \A id \in Roles!Ids :
         x1[id].slug = s => x2[id] = Roles!Wanted(s) /\ (s \in x6 \/ x1[id].std)

RolesInv ==
  /\ RolesTyped /\ Roles!ManagedKept /\ Roles!SlugsTellApart /\ DefaultsStand
  /\ \A r \in Actors : Known(x4[r], x1, x2)

\* What a write changes of another's request: it has missed more.
Later(q, b, wrote) ==
  /\ b.pc = q.pc
  /\ q.pc \in {"idle", "failed"} => b = q
  /\ q.pc \notin {"idle", "failed"} => /\ b.missed.ids = q.missed.ids \cup wrote.ids
                                       /\ b.missed.slugs = q.missed.slugs \cup wrote.slugs
  /\ q.pc \in {"create", "update"} => b.slug = q.slug
  /\ q.pc = "update" => b.id = q.id
  /\ q.pc \in {"insert", "change", "delete"} => b.on = q.on
  /\ q.pc \in {"roles", "perms"} => b.found = q.found /\ b.fix = q.fix
  /\ q.pc = "perms" => b.old = q.old

----------------------------------------------------------------------------
(* Steps of the roles *)

RoleVars ==
  /\ x1 \in [Roles!Ids -> Roles!Row] /\ x2 \in Roles!Grants /\ x3 \in 1..MaxRoles + 1
  /\ x4 \in [Actors -> Roles!Request] /\ MaxRoles \in Nat /\ x7 \in BOOLEAN
  /\ Defaults \subseteq Slugs /\ Managed \subseteq Resources

----------------------------------------------------------------------------
(* Records: x1 is the set of tables in view, x2 the rows, x3 the requests, x4 the rows     *)
(* excused.                                                                                *)

RecordCall ==
  [pc: {"checks", "load"}, op: Records!Ops, id: Records!Ids, name: RowNames \cup {Records!Keep},
   up: SUBSET Records!Ids, checks: Seq(Records!Checks), old: Records!Row \cup {Records!None},
   raced: BOOLEAN]
RecordAnswer ==
  [pc: {"done"}, code: Records!Codes, id: Records!Ids, raced: BOOLEAN, refused: BOOLEAN]

Asked(s) == {s[i] : i \in 1..Len(s)}

\* The checks that what a call may write rests on.
Needs(k, op) ==
  CASE op \in {"insert", "update"} ->
         Records!Parent[k]
         \cup (IF k \in {"pod", "music"} THEN {} ELSE {"named"})
         \cup (IF op = "update" THEN {"there"} ELSE IF k = "pod" THEN {"nextId"} ELSE {})
    [] op = "remove" -> IF k \in {"region", "zone", "defuser"} THEN {"childless"} ELSE {}
    [] op \in {"restore", "purge"} -> {}

LiveIn(rows, id) == rows[id].state = "live"
ThereIn(rows, id) == rows[id].state \in {"live", "deleted"}

\* What a check that passed has shown, which a call that nobody crossed may rely on.
Holds(c, rows, check) ==
  CASE check = "there" -> \/ LiveIn(rows, c.id) /\ c.old = rows[c.id]
                          \/ Records!Kind(c.id) = "music" /\ ~ThereIn(rows, c.id)
    [] check = "nextId" -> ~ThereIn(rows, c.id)
    [] check = "named" ->
         \/ c.name = Records!Keep /\ Records!Kind(c.id) \notin {"zone", "location"}
         \/ \A j \in DOMAIN rows \ {c.id} :
              /\ Records!Kind(j) = Records!Kind(c.id) /\ LiveIn(rows, j)
              /\ rows[j].name = Records!NewName(c, c.old)
              => /\ Records!Kind(j) \in {"zone", "location"}
                 /\ rows[j].up # Records!Upward(c, c.old)
    [] check = "childless" -> \A j \in DOMAIN rows : LiveIn(rows, j) => c.id \notin rows[j].up
    [] check \in Records!Kinds ->
         Records!Kind(c.id) = "mood" \/ \A p \in Records!NamedBy(c, check) : LiveIn(rows, p)

UpFits(rows, id, up) ==
  \A p \in up : p \in DOMAIN rows /\ Records!Kind(p) \in Records!Parent[Records!Kind(id)]

\* "there" and "nextId" come before the checks that use what they read.
InOrder(k, op, checks) ==
  \A i \in 1..Len(checks) :
    /\ checks[i] \in {"there", "nextId"} => i = 1 /\ Needs(k, op) \subseteq Asked(checks)
    /\ checks[i] = "there" => op # "insert"
    /\ checks[i] = "nextId" => op = "insert" /\ k = "pod"

Fits(k, op, checks) ==
  /\ checks \in Seq(Records!Checks) /\ Needs(k, op) \subseteq Asked(checks) /\ InOrder(k, op, checks)

Under(c, rows) ==
  /\ UpFits(rows, c.id, c.up)
  /\ c.op = "insert" => c.old = Records!None /\ c.name # Records!Keep
  /\ c.op \notin {"insert", "update"} => c.up = {}
  /\ InOrder(Records!Kind(c.id), c.op, c.checks)
  /\ ~c.raced =>
       /\ \A check \in Needs(Records!Kind(c.id), c.op) \ Asked(c.checks) : Holds(c, rows, check)
       /\ c.op = "insert" /\ Records!Kind(c.id) # "pod" => ~ThereIn(rows, c.id)

\* Of a call under way, or answered.
Stands(c, rows) ==
  /\ c.pc = "checks" => Under(c, rows)
  /\ c.pc = "load" => Records!Kind(c.id) = "pod" /\ (~c.raced => LiveIn(rows, c.id))
  /\ c.pc = "done" /\ c.code = 500 => c.raced \/ c.refused

RowsFit == \A id \in Records!Ids : Records!There(id) => UpFits(x2, id, x2[id].up)

\* The unique indexes.
Alike(i, j) ==
  /\ x2[i].name = x2[j].name
  /\ Records!Kind(i) \in {"zone", "location"} => x2[i].up = x2[j].up
IndexHolds ==
  \A i, j \in Records!Ids :
    /\ i # j /\ Records!Kind(i) = Records!Kind(j)
    /\ Records!Kind(i) \in {"region", "zone", "location", "defuser"}
    /\ Records!There(i) /\ Records!There(j)
    => ~Alike(i, j)

\* The foreign key of musics, with its cascade.
SongsHaveLists ==
  \A id \in Records!Ids :
    Records!Kind(id) = "music" /\ Records!There(id) => \A p \in x2[id].up : Records!There(p)

RecordsInv ==
  /\ Records!TypeOK /\ RowsFit /\ IndexHolds /\ SongsHaveLists
  /\ \A r \in Actors : Stands(x3[r], x2)
  /\ Records!PlacesStand /\ Records!NamesTellApart

----------------------------------------------------------------------------
(* The write *)

After(c) ==
  IF Records!Kind(c.id) = "pod" /\ c.op \in {"insert", "update"} THEN [c EXCEPT !.pc = "load"]
  ELSE [pc |-> "done", code |-> IF c.op = "insert" THEN 201 ELSE 200, id |-> c.id,
        raced |-> c.raced, refused |-> FALSE]

\* A request whose checks have all passed.
Checked(c) == c \in RecordCall /\ c.pc = "checks" /\ Asked(c.checks) = {} /\ Under(c, x2)

\* A write that the database takes.
Writes(r, c) ==
  /\ c = x3[r] /\ Checked(c) /\ (c.op = "insert" \/ Records!There(c.id))
  /\ c.op \in {"insert", "update"} => ~(Records!Taken(c) \/ Records!Dangling(c))
  /\ x1' = x1 /\ x2' = Records!Store(c)
  /\ x3' = [Records!Raced(r, c.id, [up |-> Records!Upward(c, Records!Base(c))]) EXCEPT ![r] = After(c)]
  /\ x4' = IF c.raced \/ c.op \in {"restore", "purge"} THEN x4 \cup {c.id} ELSE x4

----------------------------------------------------------------------------
(* Catalog: x1 is the set of tables in view, x2 the rows, x3 the links of products to      *)
(* collections, x4 the calls.                                                              *)

ShopCall ==
  [pc: {"run"}, op: Catalog!Ops, id: Catalog!Kinds \X Nat, row: Catalog!Row,
   links: SUBSET (Catalog!Kinds \X Nat), todo: Seq(Catalog!Statements), wrote: BOOLEAN,
   raced: BOOLEAN]
ShopAnswer ==
  [pc: {"done"}, kind: Catalog!Kinds, code: Catalog!Codes, wrote: BOOLEAN, raced: BOOLEAN,
   kept: BOOLEAN]

\* What is left of a call's script.
Plain == {<<"order", "write">>, <<"valid", "write">>, <<"write">>}
Saving == {<<"valid", "write", "unlink", "link">>, <<"write", "unlink", "link">>}
Syncing == {<<"unlink", "link">>, <<"link">>}
Assigning == {<<"brand", "categories", "unassign", "assign">>, <<"categories", "unassign", "assign">>,
              <<"unassign", "assign">>, <<"assign">>}

InTable(rows, id) == rows[id].state # "none"

Scripted(c) ==
  \/ c.todo \in Plain /\ c.op # "assign" /\ ~c.wrote
  \/ c.todo \in Saving /\ c.op \in {"create", "update"} /\ Catalog!Kind(c.id) = "product" /\ ~c.wrote
  \/ c.todo \in Syncing /\ c.op \in {"create", "update"} /\ Catalog!Kind(c.id) = "product"
  \/ c.todo \in Assigning /\ c.op = "assign" /\ Catalog!Kind(c.id) = "brand" /\ ~c.wrote

\* What a call that nobody overlapped may rely on.
Relies(c, rows, links) ==
  /\ c.todo \in Syncing \cup {<<"write", "unlink", "link">>} => \A p \in c.links : InTable(rows, p)
  /\ c.todo \in Syncing => InTable(rows, c.id)
  /\ c.todo = <<"link">> => \A l \in links : l[1] # c.id
  /\ c.todo = <<"assign">> =>
       \A i \in DOMAIN rows :
         Catalog!Kind(i) = "category" /\ InTable(rows, i) /\ c.id \in rows[i].up
         => i \in c.row.up \cup c.links

OnItsWay(c, rows, links) ==
  /\ c.id \in DOMAIN rows /\ c.links \subseteq DOMAIN rows
  /\ Catalog!Kind(c.id) = "product" => \A p \in c.links : Catalog!Kind(p) = "collection"
  /\ Scripted(c)
  /\ ~c.raced => Relies(c, rows, links)

Answered(c) ==
  /\ c.code \in {200, 201} => c.kept \/ c.raced
  /\ c.code \in 400..499 => ~c.wrote \/ c.raced
  /\ c.code = 500 => ~c.wrote \/ c.kept \/ c.raced \/ c.kind = "product"

Serves(c, rows, links) ==
  /\ c.pc = "run" => OnItsWay(c, rows, links)
  /\ c.pc = "done" => Answered(c)

CatalogInv == Catalog!TypeOK /\ \A r \in Actors : Serves(x4[r], x2, x3)

\* A write of what call c is about concerns call d.
Touches(c, d) ==
  \/ Catalog!Kind(d.id) = Catalog!Kind(c.id)
  \/ c.id \in d.row.up \cup d.links
  \/ d.id \in c.row.up \cup c.links

----------------------------------------------------------------------------
(* Steps that write *)

\* The rows and links that a write leaves to the calls it does not concern.
Spares(c, rows, rows2, links, links2) ==
  /\ DOMAIN rows2 = DOMAIN rows
  /\ \A i \in DOMAIN rows :
       /\ InTable(rows, i) /\ Catalog!Kind(i) \in {"product", "collection"} /\ i # c.id => InTable(rows2, i)
       /\ Catalog!Kind(i) = "category" /\ InTable(rows2, i) =>
            /\ rows2[i].up \subseteq c.row.up \/ (InTable(rows, i) /\ rows2[i].up \subseteq rows[i].up)
  /\ \A l \in links2 : l \in links \/ l[1] = c.id

----------------------------------------------------------------------------
(* MusicLibrary: x1 is the playlists, x2 the songs, x3 the moods, x4 the bucket, x5 and x6   *)
(* the next ids, x7 the runs, x10 whether a run is alone, x11 whether two overlapped.        *)

Scanning == [pc: {"scan"}, dry: BOOLEAN, at: 1..Len(Folders) + 1]
Finding == [pc: {"find"}, at: 1..Len(Folders) + 1]
Putting ==
  [pc: {"put"}, at: DOMAIN Folders, list: Music!ListIds, track: 1..Tracks + 1]
SavingRows ==
  [pc: {"rows"}, at: DOMAIN Folders, list: Music!ListIds, track: 1..Tracks + 1,
   had: SUBSET Music!SongIds, first: Music!SongIds \cup {0}]

FileOf(n, t) == [name |-> n, track |-> t]

\* The ids of playlists and songs are nobody else's, and a song's playlist is there.
OwnIds(lists, songs, next, nextSong) ==
  /\ \A l \in lists : l.id < next
  /\ \A l, m \in lists : l.id = m.id => l = m
  /\ \A s \in songs : s.id < nextSong /\ \E l \in lists : l.id = s.list
  /\ \A s, t \in songs : s.id = t.id => s = t

FilesThere(lists, songs, bucket) ==
  \A s \in songs, l \in lists :
    s.url = "bucket" /\ l.id = s.list => FileOf(l.name, s.track) \in bucket

OneEach(songs) ==
  \A s, t \in songs : s.list = t.list /\ s.track = t.track /\ ~s.gone /\ ~t.gone => s = t

OneRun == \A q, r \in Actors : Music!UnderWay(q) /\ Music!UnderWay(r) => q = r

IsList(lists, id, n) == \E l \in lists : l.id = id /\ l.name = n
Held(songs, list, t, first) ==
  \E s \in songs : s.list = list /\ s.track = t /\ ~s.gone /\ (t = 1 => s.id = first)

\* What mood m names is a playlist of the folder, with a song for each file.
PlaysAll(lists, songs, m, n) ==
  /\ IsList(lists, m.list, n)
  /\ \A t \in 1..Tracks : Held(songs, m.list, t, m.first)

\* The folder has such a playlist, and a mood of its name has that one.
Playable(lists, songs, moods, n) ==
  \E m \in Music!Mood : (n \in Titles => moods[n] = m) /\ PlaysAll(lists, songs, m, n)

\* The folders a run is through with.
Through(c) ==
  IF c.pc = "done" THEN Music!Names ELSE {Folders[i] : i \in {j \in DOMAIN Folders : j < c.at}}

LeftPlayable(c, lists, songs, moods) ==
  c.pc \in {"find", "put", "rows", "done"} => \A n \in Through(c) : Playable(lists, songs, moods, n)

\* Of a run c with its playlist; "mine": nobody else wrote since it began.
AtWork(c, mine, lists, next) ==
  /\ c.list < next
  /\ \A l \in lists : l.id = c.list => l.name = Folders[c.at]
  /\ mine => IsList(lists, c.list, Folders[c.at])

OfPut(c, mine, lists, bucket, next) ==
  c.pc = "put" =>
    /\ AtWork(c, mine, lists, next)
    /\ \A t \in 1..Tracks : t < c.track => FileOf(Folders[c.at], t) \in bucket

\* "sole": no two runs overlapped.
OfRows(c, mine, sole, lists, songs, bucket, next, nextSong) ==
  c.pc = "rows" =>
    /\ AtWork(c, mine, lists, next)
    /\ \A t \in 1..Tracks : FileOf(Folders[c.at], t) \in bucket
    /\ \A id \in c.had : id < nextSong
    /\ \A s \in songs : s.id \in c.had => s.list = c.list /\ (mine => ~s.gone)
    /\ mine \/ sole =>
         \A s \in songs : s.list = c.list /\ ~s.gone => s.id \in c.had \/ s.track < c.track
    /\ mine => \A t \in 1..Tracks : t < c.track => Held(songs, c.list, t, c.first)

Uploads(c, mine, sole, lists, songs, moods, bucket, next, nextSong) ==
  /\ mine => LeftPlayable(c, lists, songs, moods)
  /\ OfPut(c, mine, lists, bucket, next)
  /\ OfRows(c, mine, sole, lists, songs, bucket, next, nextSong)

TablesOK ==
  /\ x1 \subseteq Music!List /\ x2 \subseteq Music!Song
  /\ x3 \in [Titles -> Music!Mood]
  /\ x5 \in 1..MaxLists + 1 /\ x6 \in 1..MaxSongs + 1
  /\ OwnIds(x1, x2, x5, x6) /\ FilesThere(x1, x2, x4)
  /\ ~x11 => OneEach(x2)

MusicInv ==
  /\ TablesOK
  /\ x7 \in [Actors -> Music!Run] /\ x10 \in [Actors -> BOOLEAN] /\ x11 \in BOOLEAN
  /\ ~x11 => OneRun
  /\ \A r \in Actors : Uploads(x7[r], x10[r], ~x11, x1, x2, x3, x4, x5, x6)

\* What others do to the rows: they rename none, move none, and bring back none.
ListsStay(lists, lists2, next) ==
  \A m \in lists2 : m.id >= next \/ \E l \in lists : l.id = m.id /\ l.name = m.name
SongsStay(songs, songs2, nextSong) ==
  \A t \in songs2 :
    \/ t.id >= nextSong
    \/ \E s \in songs : s.id = t.id /\ s.list = t.list /\ s.track = t.track /\ (~t.gone => ~s.gone)

----------------------------------------------------------------------------
(* The synchronization and the administrators *)

\* The ids that are given to the files of the folders, one after the other.
FileOffset(i) == (i - 1) * Tracks
AllFiles == Len(Folders) * Tracks

----------------------------------------------------------------------------
(* Listing: x1 is the companies, x2 the walk, x3 what was shown, x4 what stayed, x5 the      *)
(* excuses, x6 the edits.                                                                    *)

KeysUpTo(S, k, v) == {d \in S : k[d] <= v}

\* Where a company comes in a list without ties: it counts those not after it.
MadeKey(rs, q, c) == IF q.newest THEN -rs[c].made ELSE rs[c].made
UpTo(rs, q, c) == {d \in Listing!Listed(rs, q) : MadeKey(rs, q, d) <= MadeKey(rs, q, c)}
PlaceOf(rs, q, c) == Cardinality(UpTo(rs, q, c))

----------------------------------------------------------------------------
\* Where a page begins.
FirstRow(q, step) == step * q.limit
ReadTo(w) == IF w.pc = "rows" THEN FirstRow(w.query, w.step) ELSE FirstRow(w.query, w.step + 1)

WalkOf(w) == w.pc \in {"rows", "count"}
ListingTyped == Listing!TypeOK
\* Unless it was excused, nothing that stayed has been passed over so far.
PassesNone(rs, w, seen, stay, why) ==
  WalkOf(w) /\ why \cap {"shrunk", "tied"} = {} =>
    /\ stay \subseteq Listing!Listed(rs, w.query)
    /\ \A c \in stay : PlaceOf(rs, w.query, c) <= ReadTo(w) => \E i \in 1..Len(seen) : seen[i] = c
\* Of a list that stands still, the beginning has been shown.
ShowsInOrder(rs, w, seen, stay, why) ==
  WalkOf(w) /\ why = {} =>
    /\ stay = Listing!Listed(rs, w.query)
    /\ Len(seen) <= ReadTo(w) /\ Len(seen) <= Cardinality(stay)
    /\ Len(seen) = ReadTo(w) \/ Len(seen) = Cardinality(stay)
    /\ \A i \in 1..Len(seen) : seen[i] \in stay /\ PlaceOf(rs, w.query, seen[i]) = i

ListingInv ==
  /\ ListingTyped
  /\ x2 = Listing!Idle => x3 = <<>>
  /\ WalkOf(x2) /\ "tied" \notin x5 => ~Listing!Ties(x1, x2.query)
  /\ PassesNone(x1, x2, x3, x4, x5)
  /\ ShowsInOrder(x1, x2, x3, x4, x5)
  /\ Listing!WalkMissesNothing

----------------------------------------------------------------------------
(* Migrations: x1 is the database, x2 the migrations recorded, x3 the runs, x4 the crashes,  *)
(* x5 the database found, x6 whether the first was recorded unrun, x7 whether runs           *)
(* overlapped.                                                                               *)

MigrationDbs == [Objects -> Migrations!Value]
MigrationRun ==
       [pc: {"idle", "done", "failed"}]
  \cup [pc: {"last"}, applied: SUBSET Migrations!Steps]
  \cup [pc: {"tables", "baseline"}, applied: SUBSET Migrations!Steps]
  \cup [pc: {"next"}, applied: SUBSET Migrations!Steps, last: Nat, at: Nat \ {0}]
  \cup [pc: {"body"}, applied: SUBSET Migrations!Steps, last: Nat, at: Migrations!Steps,
        i: Nat \ {0}, tx: UNION {[touched -> Migrations!Value] : touched \in SUBSET Objects}]
MigrationTypes ==
  /\ x1 \in MigrationDbs /\ x2 \subseteq Migrations!Steps
  /\ x3 \in [Actors -> MigrationRun] /\ x4 \in 0..MaxCrashes
  /\ x6 \in BOOLEAN /\ x7 \in BOOLEAN
StampOf(m) == Journal[m].stamp
LastStatement(m) == Len(Journal[m].body)

\* What the first n statements of a migration make of a database, one by one.
MadeBy(made, db, m, n) ==
  /\ made \in [0..n -> MigrationDbs] /\ made[0] = db
  /\ \A i \in 1..n : made[i] = Migrations!Effect(made[i - 1], Migrations!Statement(m, i))

\* The replay of what is recorded, migration by migration.
Skipped(m, rec, base) == m \notin rec \/ (m = 1 /\ base)
Replays(upTo, rec, base, from) ==
  /\ upTo \in [0..Len(Journal) -> MigrationDbs] /\ upTo[0] = from
  /\ \A m \in 1..Len(Journal) :
       upTo[m] = IF Skipped(m, rec, base) THEN upTo[m - 1] ELSE Migrations!After(upTo[m - 1], m)

----------------------------------------------------------------------------
Touched(c) == UNION {[touched -> Migrations!Value] : touched \in SUBSET Objects}
RunningLoop == {"next", "body"}

RunsFrom(c) == c.pc \notin {"idle", "done", "failed"}
\* A migration that comes after one that is not older.
Shadowed(m, rec) == \E n \in rec : n < m /\ StampOf(m) <= StampOf(n)
IsNewest(t, rec) ==
  IF rec = {} THEN t = 0
  ELSE (\E n \in rec : t = StampOf(n)) /\ \A n \in rec : StampOf(n) <= t
SeenBy(c, db) == [o \in Objects |-> IF o \in DOMAIN c.tx THEN c.tx[o] ELSE db[o]]

\* What a run that nobody overlaps goes by is so; the migrations it is through with are
\* recorded or passed over for good; and its transaction has made of the database what
\* the statements so far make of it.
RunKnows(c, rec, db) ==
  /\ c.pc \in {"last", "tables", "baseline", "next", "body"} => c.applied = rec
  /\ c.pc \in {"tables", "baseline"} => rec = {} /\ 1 \in Migrations!Steps
  /\ c.pc \in {"next", "body"} =>
       /\ IsNewest(c.last, rec) /\ c.at \in 1..Len(Journal) + 1
       /\ \A m \in Migrations!Steps : m < c.at /\ m \notin rec => Shadowed(m, rec)
  /\ c.pc = "body" =>
       /\ c.at \notin rec /\ (c.last = 0 \/ c.last < StampOf(c.at))
       /\ c.i \in 1..LastStatement(c.at) + 1
       /\ \E made : MadeBy(made, db, c.at, c.i - 1) /\ SeenBy(c, db) = made[c.i - 1]
  /\ c.pc = "done" => \A m \in Migrations!Steps \ rec : Shadowed(m, rec)

ReplayStands(rec, base, from, db) ==
  \E upTo : /\ Replays(upTo, rec, base, from)
            /\ \A i \in 0..Len(Journal) : (\A n \in rec : n <= i) => upTo[i] = db

\* Of the migrations before one that is recorded, those that are not are passed over for good.
NoneSkipped(rec) ==
  \A n \in rec, m \in Migrations!Steps : m < n /\ m \notin rec => Shadowed(m, rec)

OneMigrates == \A r, q \in Actors : RunsFrom(x3[r]) /\ RunsFrom(x3[q]) => r = q
MigrationsTyped ==
  /\ MigrationTypes /\ x5 \in MigrationDbs
  /\ \A r \in Actors : x3[r].pc \in {"tables", "baseline"} => Journal # <<>>
Undisturbed ==
  /\ OneMigrates /\ NoneSkipped(x2) /\ (x6 => 1 \in x2)
  /\ ReplayStands(x2, x6, x5, x1)
  /\ \A r \in Actors : RunKnows(x3[r], x2, x1)
MigrationsInv == MigrationsTyped /\ (~x7 => Undisturbed)

----------------------------------------------------------------------------
(* SessionControls: x1 is the clock, x2 the database, x3 the requests, x4 the steps taken,   *)
(* x5 what readers could have seen.                                                          *)

ValuesOf(kind) ==
  CASE kind = "mood" -> Moods [] kind = "aroma" -> Controls!Aromas [] kind = "music" -> Tunes

\* The logs: a row's value is of its kind.
ControlLogs == {logs \in Seq(Controls!LogRow) :
                  \A i \in 1..Len(logs) : logs[i].value \in ValuesOf(logs[i].kind)}

\* An unlock ended its session when it was made.
PodTyped(db, clock) ==
  /\ db \in Controls!Database /\ db.logs \in ControlLogs
  /\ \A s, q \in db.session : s = q
  /\ \A s \in db.session : s.status = "EMERGENCY_UNLOCKED" => s.endAt <= clock

RequestTyped(c, clock) ==
  /\ c \in Controls!Task
  /\ c.pc \in {"session", "list", "sessions"} => c.now <= clock
  /\ c.pc = "preset" => c.due = {}
  /\ c.pc \in {"logs", "preset"} =>
       \A k \in Controls!Kinds : c.got[k].value \in ValuesOf(k) \cup {Nil}

ViewsSeen == [views: SUBSET Controls!Views, free: SUBSET BOOLEAN, changes: Nat]

ControlsTyped ==
  /\ x1 \in Nat /\ PodTyped(x2, x1)
  /\ x3 \in [Actors -> Controls!Task] /\ \A t \in Actors : RequestTyped(x3[t], x1)
  /\ x4 \in [DOMAIN StepBounds -> Nat] /\ x5 \in [Actors -> ViewsSeen]

\* Once it has read the diffuser: the session it will find was in sight while it read.
SessionKnown(c, v, db, clock) ==
  /\ Controls!Visible(db, c.now) = {} => Controls!NoControls \in v.views
  /\ \A s \in Controls!Visible(db, c.now) :
       Controls!Shows(c.fitted, db.moods, db.logs, s.id) \subseteq v.views
  /\ v.changes = 0 =>
       c.fitted = db.fitted /\ Controls!Visible(db, c.now) = Controls!Visible(db, clock)

\* What it has read of the logs, and what it will, is of logs that were shown while it read.
Tells(logs, c, v, db) ==
  /\ Controls!Shows(c.fitted, db.moods, logs, c.session) \subseteq v.views
  /\ \A k \in Controls!Kinds :
       IF k \in c.due
       THEN Controls!Latest(db.logs, c.session, k) \subseteq Controls!Latest(logs, c.session, k)
       ELSE c.got[k] \in Controls!Latest(logs, c.session, k)
LogsKnown(c, v, db, clock) ==
  /\ \E logs \in ControlLogs : Tells(logs, c, v, db)
  /\ v.changes = 0 =>
       /\ c.fitted = db.fitted /\ Tells(db.logs, c, v, db)
       /\ \E s \in Controls!Visible(db, clock) : s.id = c.session

\* What the list of pods will say of the pod was so while it was read.
ListKnown(c, v, db, clock) ==
  LET open == IF c.pc = "list" THEN db.open ELSE c.open IN
  /\ (open /\ Controls!Running(db, c.now) = {}) \in v.free
  /\ v.changes = 0 =>
       open = db.open /\ Controls!Running(db, c.now) = Controls!Running(db, clock)

\* What a reader knows, and what is true now it could have seen.
ReaderKnows(c, v, db, clock) ==
  /\ c.pc \in {"session", "logs", "preset"} => Controls!InForce(db, clock) \subseteq v.views
  /\ c.pc \in {"list", "sessions"} => Controls!Unoccupied(db, clock) \in v.free
  /\ c.pc = "session" => SessionKnown(c, v, db, clock)
  /\ c.pc \in {"logs", "preset"} => LogsKnown(c, v, db, clock)
  /\ c.pc \in {"list", "sessions"} => ListKnown(c, v, db, clock)
  /\ c.pc = "shown" => c.view \in v.views
  /\ c.pc = "listed" => c.free \in v.free

ControlsInv ==
  /\ ControlsTyped
  /\ \A t \in Actors : x5[t].changes <= 1 => ReaderKnows(x3[t], x5[t], x2, x1)

=============================================================================
