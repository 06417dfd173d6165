------------------------------ MODULE Services ------------------------------
(***************************************************************************)
(* The smaller components, each by itself, in one specification: a         *)
(* behaviour is one of one component, the others stand still.  The         *)
(* components share the slots x1, x2, ... for their variables, so that the *)
(* states are the sum of the components' states and not the product.       *)
(***************************************************************************)
EXTENDS Integers, FiniteSets, Sequences

CONSTANTS
  Actors,          \* requests, runs, clients or processes, whatever a component has
  Nil, MaxClock, MaxRuns, RowNames,
  (* SessionControls *)
  Moods, Tunes, Containers, Own, Off, Length, Intro, Delay, StepBounds,
  (* Records, Catalog *)
  MaxRecords, RecordScenes, MaxItems, CatalogScenes,
  (* Migrations *)
  Objects, Journal, Legacy, MaxCrashes,
  (* Gateway *)
  Pods, Scopes, MaxEntries, StaleAge, MaxPolls, MaxSignIns,
  (* Roles *)
  Slugs, Defaults, Resources, Managed, Preset, MaxRoles, MaxRoleEdits,
  (* MusicLibrary *)
  Folders, Tracks, Titles, SyncMap, MaxLists, MaxSongs, MaxRemovals,
  (* Crons *)
  Sessions, Life, Batch, MaxBatches,
  (* Listing *)
  Companies, Limits, MaxListEdits

VARIABLES
  part,   \* the component that runs
  x1, x2, x3, x4, x5, x6, x7, x8, x9, x10, x11, x12, x13

----------------------------------------------------------------------------
(* The instances *)

Controls ==
  INSTANCE SessionControls WITH
    Tasks <- Actors, None <- Nil, Bounds <- StepBounds,
    clock <- x1, db <- x2, task <- x3, count <- x4, seen <- x5

Records ==
  INSTANCE Records WITH
    Requests <- Actors, Names <- RowNames, MaxId <- MaxRecords, Scenes <- RecordScenes,
    scene <- x1, rows <- x2, call <- x3, excused <- x4

Catalog ==
  INSTANCE Catalog WITH
    Requests <- Actors, Keys <- RowNames, MaxId <- MaxItems, Scenes <- CatalogScenes,
    scene <- x1, rows <- x2, links <- x3, call <- x4

Migrations ==
  INSTANCE Migrations WITH
    Runners <- Actors,
    store <- x1, recorded <- x2, run <- x3, crashes <- x4, origin <- x5, baselined <- x6,
    overlapped <- x7

Gateway ==
  INSTANCE Gateway WITH
    Clients <- Actors, None <- Nil, MaxSessions <- MaxSignIns,
    clock <- x1, cache <- x2, call <- x3, polls <- x4, jar <- x5, issued <- x6, owner <- x7,
    answer <- x8, newest <- x9, crossed <- x10, received <- x11, dropped <- x12, met <- x13

Roles ==
  INSTANCE Roles WITH
    Requests <- Actors, None <- Nil, MaxId <- MaxRoles, MaxEdits <- MaxRoleEdits,
    role <- x1, perms <- x2, nextId <- x3, req <- x4, edits <- x5, crossed <- x6,
    seeded <- x7

Music ==
  INSTANCE MusicLibrary WITH
    Runners <- Actors, MaxEdits <- MaxRemovals,
    lists <- x1, songs <- x2, moods <- x3, bucket <- x4, nextList <- x5, nextSong <- x6,
    run <- x7, runs <- x8, edits <- x9, alone <- x10, overlap <- x11

Crons ==
  INSTANCE Crons WITH
    Processes <- Actors,
    clock <- x1, expires <- x2, using <- x3, running <- x4, job <- x5, lock <- x6,
    runs <- x7, early <- x8

Listing ==
  INSTANCE Listing WITH
    MaxEdits <- MaxListEdits,
    rows <- x1, walk <- x2, shown <- x3, stayed <- x4, excused <- x5, edits <- x6

\* What each component assumes of its constants.
ASSUME ServicesAssumption ==
  /\ Controls!ControlsAssumption
  /\ Records!RecordsAssumption
  /\ Catalog!CatalogAssumption
  /\ Migrations!MigrationsAssumption
  /\ Gateway!GatewayAssumption
  /\ Roles!RolesAssumption
  /\ Music!MusicAssumption
  /\ Crons!CronsAssumption
  /\ Listing!ListingAssumption

----------------------------------------------------------------------------
\* The slots from one on that a component leaves unused.
Unused12 == x12 = "unused" /\ x13 = "unused"
Unused9 == x9 = "unused" /\ x10 = "unused" /\ x11 = "unused" /\ Unused12
Unused8 == x8 = "unused" /\ Unused9
Unused7 == x7 = "unused" /\ Unused8
Unused6 == x6 = "unused" /\ Unused7
Unused5 == x5 = "unused" /\ Unused6

\* A session that has begun with a mood and an aroma chosen, besides the initial state.
Occupied ==
  /\ x1 = Intro /\ Intro <= MaxClock
  /\ \E m \in Moods, a \in Controls!Aromas :
       x2 = [open |-> TRUE, fitted |-> TRUE, moods |-> Moods,
             session |-> {[id |-> 1, startAt |-> Intro, endAt |-> Intro + Length, status |-> "CONFIRMED"]},
             logs |-> <<[session |-> 1, kind |-> "mood", value |-> m, at |-> 0],
                        [session |-> 1, kind |-> "aroma", value |-> a, at |-> Intro]>>]
  /\ x3 = [t \in Actors |-> Controls!Idle]
  /\ x4 = [StepBounds EXCEPT !.commands = 0, !.changes = 0, !.reads = 0]
  /\ x5 = [t \in Actors |-> Controls!Unseen]

Init ==
  \/ /\ part = "controls" /\ (Controls!Init \/ Occupied)
     /\ Unused6
  \/ /\ part = "records" /\ Records!Init
     /\ Unused5
  \/ /\ part = "catalog" /\ Catalog!Init
     /\ Unused5
  \/ /\ part = "migrations" /\ Migrations!Init
     /\ Unused8
  \/ /\ part \in {"polling", "cookies"} /\ Gateway!Init
  \/ /\ part = "roles" /\ Roles!Init
     /\ Unused8
  \/ /\ part = "music" /\ Music!Init
     /\ Unused12
  \/ /\ part = "crons" /\ Crons!Init
     /\ Unused9
  \/ /\ part = "listing" /\ Listing!Init
     /\ Unused7

RunControls ==
  part = "controls" /\ Controls!Next /\ UNCHANGED <<part, x6, x7, x8, x9, x10, x11, x12, x13>>
RunRecords ==
  part = "records" /\ Records!Next /\ UNCHANGED <<part, x5, x6, x7, x8, x9, x10, x11, x12, x13>>
RunCatalog ==
  part = "catalog" /\ Catalog!Next /\ UNCHANGED <<part, x5, x6, x7, x8, x9, x10, x11, x12, x13>>
RunMigrations ==
  part = "migrations" /\ Migrations!Next /\ UNCHANGED <<part, x8, x9, x10, x11, x12, x13>>
RunPolling ==
  part = "polling" /\ Gateway!NextPolling /\ UNCHANGED <<part>>
RunCookies ==
  part = "cookies" /\ Gateway!NextCookies /\ UNCHANGED <<part>>
RunRoles ==
  part = "roles" /\ Roles!Next /\ UNCHANGED <<part, x8, x9, x10, x11, x12, x13>>
RunMusic ==
  part = "music" /\ Music!Next /\ UNCHANGED <<part, x12, x13>>
RunCrons ==
  part = "crons" /\ Crons!Next /\ UNCHANGED <<part, x9, x10, x11, x12, x13>>
RunListing ==
  part = "listing" /\ Listing!Next /\ UNCHANGED <<part, x7, x8, x9, x10, x11, x12, x13>>

Next ==
  \/ RunControls \/ RunRecords \/ RunCatalog \/ RunMigrations \/ RunPolling
  \/ RunCookies \/ RunRoles \/ RunMusic \/ RunCrons \/ RunListing

slots == <<x1, x2, x3, x4, x5, x6, x7, x8, x9, x10, x11, x12, x13>>
Spec == Init /\ [][Next]_<<part, slots>>

----------------------------------------------------------------------------
(* Properties: those of the modules, each of the behaviours of its component *)

\* Every component's state has its type; among them the gateway's cache, which never outgrows
\* its limit (gateway/src/routes/index.ts:247-267).
TypesOK ==
  /\ part = "controls" => Controls!TypeOK
  /\ part = "records" => Records!TypeOK
  /\ part = "catalog" => Catalog!TypeOK
  /\ part = "migrations" => Migrations!TypeOK
  /\ part \in {"polling", "cookies"} => Gateway!TypeOK
  /\ part = "roles" => Roles!TypeOK
  /\ part = "music" => Music!TypeOK
  /\ part = "crons" => Crons!TypeOK
  /\ part = "listing" => Listing!TypeOK

\* SessionControls: what a command or the tablet is answered was in force at a moment of its
\* reads, and a pod listed as free was open and unoccupied at a moment of the list's two
\* reads (though an introduction or an end delay may still have kept it from being booked).
AnsweredInForce ==
  part = "controls" => Controls!ShownWasInForce /\ Controls!ListedIsTrue

\* Records: unless writes crossed, live rows are in live rows, names tell them apart, and a
\* 500 has a cause that no check could see.
RecordsStand ==
  part = "records" => Records!PlacesStand /\ Records!NamesTellApart /\ Records!FailuresExplained

\* Catalog: unless calls on the same rows overlapped, what is answered as saved is saved and
\* what is refused left nothing behind; of what fails only a product may be half saved.
WritesAsAnswered ==
  part = "catalog" =>
    Catalog!SavedAsAnswered /\ Catalog!RefusedWroteNothing /\ Catalog!HalfSavedIsProduct

\* Catalog: no permanent deletion in the shop takes an ordered item or a payment with it that
\* was not marked deleted, or whose order was not.
PurchasesKept == [][part = "catalog" => Catalog!KeepsPurchases]_<<part, slots>>

\* Migrations: whatever run was killed, the database is what its journal says, and a run that
\* ends well leaves out only what is stamped before its place in the journal.
MigrationsReplayed ==
  part = "migrations" => Migrations!DatabaseAsRecorded /\ Migrations!NothingLeftBehind

\* Gateway: a failed poll is answered with what was last said of its pod, if that is recent.
PollsFallBack == part = "polling" => Gateway!CacheKeepsUp /\ Gateway!FallbackIsGood

\* Gateway: the panels of one browser each act as their own session.
PanelsApart == part = "cookies" => Gateway!PanelsApart

\* Roles: unless requests crossed, slugs tell roles apart and seeding restores the default
\* roles; and always, every role has its managed permissions.
RolesStand ==
  part = "roles" => Roles!SlugsTellApart /\ Roles!ManagedKept /\ Roles!DefaultsRestored

\* MusicLibrary: every row leads to a file, and a run by itself leaves each folder a whole
\* playlist and the mood preset of its name, if there is one, that playlist.
LibraryPlays == part = "music" => Music!LibraryPlays

\* Crons: one transaction at a time deletes expired sessions, all of them and no others.
CleansAll == part = "crons" => Crons!CleansAll

\* Listing: a walk through a list's pages misses nothing that was in it all the time.
ListsMissNothing == part = "listing" => Listing!WalkMissesNothing
=============================================================================
