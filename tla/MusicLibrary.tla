---------------------------- MODULE MusicLibrary ----------------------------
(***************************************************************************)
(* The scripts that fill the music library (packages/database/src):        *)
(* music-upload.ts puts the files of each folder into the bucket and       *)
(* writes the playlist, its rows and the mood preset whose title is the    *)
(* folder's name, if there is one, one statement at a time; music-sync.ts  *)
(* replaces the library in one transaction and sets the presets of a map   *)
(* from titles to folders of its own.  Either may be killed and run again, *)
(* while administrators remove what they wrote.                            *)
(*                                                                         *)
(* A playlist is found by its folder's name without regard to case, so the *)
(* two are one value, and no two folders differ in case only; a preset is  *)
(* found by its title in the very letters.                                 *)
(***************************************************************************)
EXTENDS Integers, FiniteSets, Sequences

CONSTANTS
  Runners,
  Folders,    \* a sequence, in the order the scripts take them
  Tracks,     \* the files of every folder are 1..Tracks
  Titles,     \* the titles that mood presets have
  SyncMap,    \* MOOD_PRESET_SYNC_MAP: titles to the folder each plays
  MaxLists,   \* bound: playlists ever created
  MaxSongs,   \* bound: music rows ever created
  MaxRuns,    \* bound: runs started
  MaxEdits    \* bound: removals by administrators

Names == {Folders[i] : i \in DOMAIN Folders}

\* Assumed of the constants; the run of ServicesMC evaluates it.
MusicAssumption ==
  /\ Folders \in Seq(Names) /\ Len(Folders) > 0
  /\ Tracks \in Nat \ {0}
  /\ MaxLists \in Nat /\ MaxSongs \in Nat /\ MaxRuns \in Nat /\ MaxEdits \in Nat

VARIABLES
  lists,    \* music_playlists: rows [id, name, gone]
  songs,    \* musics: rows [id, list, track, url, gone]
  moods,    \* pod_mood_presets by title
  bucket,   \* objects uploaded: [name, track]
  nextList, nextSong,
  run,      \* what each run of the upload script is at
  runs, edits,   \* bounds
  alone,    \* history: nobody else wrote since the run began
  overlap   \* history: two runs were under way at once

vars == <<lists, songs, moods, bucket, nextList, nextSong, run, runs, edits, alone, overlap>>
tables == <<lists, songs, moods, bucket, nextList, nextSong>>

ListIds == 1..MaxLists
SongIds == 1..MaxSongs
List == [id: ListIds, name: Names, gone: BOOLEAN]
Mood == [list: ListIds \cup {0}, first: SongIds \cup {0}]  \* 0 for none
Song == [id: SongIds, list: ListIds, track: 1..Tracks, url: {"bucket", "web"}, gone: BOOLEAN]
Idle == [pc |-> "idle"]
Run ==
       [pc: {"idle", "done", "failed"}]
  \cup [pc: {"scan"}, dry: BOOLEAN, at: 1..Len(Folders) + 1]
  \cup [pc: {"find"}, at: 1..Len(Folders) + 1]
  \cup [pc: {"put"}, at: DOMAIN Folders, list: ListIds, track: 1..Tracks + 1]
  \cup [pc: {"rows"}, at: DOMAIN Folders, list: ListIds, track: 1..Tracks + 1,
        had: SUBSET SongIds, first: SongIds \cup {0}]

TypeOK ==
  /\ lists \subseteq List /\ songs \subseteq Song /\ run \in [Runners -> Run]
  /\ moods \in [Titles -> Mood]
  /\ nextList \in 1..MaxLists + 1 /\ nextSong \in 1..MaxSongs + 1

----------------------------------------------------------------------------
Move(r, next) == run' = [run EXCEPT ![r] = next]
Wrote(r) == alone' = [q \in Runners |-> q = r /\ alone[q]]
Quiet == UNCHANGED <<runs, edits, overlap>>
UnderWay(r) == run[r].pc \notin {"idle", "done", "failed"}

Begin(r) ==
  /\ ~UnderWay(r) /\ runs < MaxRuns
  /\ runs' = runs + 1
  /\ \E dry \in BOOLEAN : Move(r, [pc |-> "scan", dry |-> dry, at |-> 1])
  /\ alone' = [alone EXCEPT ![r] = TRUE]
  /\ overlap' = (overlap \/ \E q \in Runners : UnderWay(q))
  /\ UNCHANGED <<tables, edits>>

\* getOrCreatePlaylist: the playlist of the name linked to the mood, if there is a mood, else
\* any of the name, deleted or not; none: one is created.
Reused(name) ==
  LET named == {l.id : l \in {m \in lists : m.name = name}}
  IN  IF name \in Titles /\ moods[name].list \in named THEN {moods[name].list} ELSE named

GetOrCreate(name, id) ==
  IF Reused(name) # {} THEN id \in Reused(name) /\ UNCHANGED <<lists, nextList>>
  ELSE /\ id = nextList /\ nextList' = nextList + 1
       /\ lists' = lists \cup {[id |-> id, name |-> name, gone |-> FALSE]}

\* The first pass of main, which a dry run makes too.
Scan(r) ==
  /\ run[r].pc = "scan" /\ run[r].at <= Len(Folders)
  /\ \E id \in ListIds : GetOrCreate(Folders[run[r].at], id)
  /\ Move(r, [run[r] EXCEPT !.at = @ + 1])
  /\ Wrote(r) /\ Quiet /\ UNCHANGED <<songs, moods, bucket, nextSong>>

Apply(r) ==
  /\ run[r].pc = "scan" /\ run[r].at > Len(Folders)
  /\ Move(r, IF run[r].dry THEN Idle ELSE [pc |-> "find", at |-> 1])
  /\ Quiet /\ UNCHANGED <<tables, alone>>

Find(r) ==
  /\ run[r].pc = "find" /\ run[r].at <= Len(Folders)
  /\ \E id \in ListIds :
       /\ GetOrCreate(Folders[run[r].at], id)
       /\ Move(r, [pc |-> "put", at |-> run[r].at, list |-> id, track |-> 1])
  /\ Wrote(r) /\ Quiet /\ UNCHANGED <<songs, moods, bucket, nextSong>>

Finish(r) ==
  /\ run[r].pc = "find" /\ run[r].at > Len(Folders)
  /\ Move(r, [pc |-> "done"])
  /\ Quiet /\ UNCHANGED <<tables, alone>>

Stored(r) == [name |-> Folders[run[r].at], track |-> run[r].track]

\* Mutant: an upload that fails is passed over.
PutOrNot(r) ==
  /\ run[r].pc = "put" /\ run[r].track <= Tracks
  /\ bucket' \in {bucket, bucket \cup {Stored(r)}}
  /\ Move(r, [run[r] EXCEPT !.track = @ + 1])
  /\ Quiet /\ UNCHANGED <<lists, songs, moods, nextList, nextSong, alone>>

\* uploadFile; one that fails stops the run, as Stop does.
Put(r) ==
  /\ run[r].pc = "put" /\ run[r].track <= Tracks
  /\ bucket' = bucket \cup {Stored(r)}
  /\ Move(r, [run[r] EXCEPT !.track = @ + 1])
  /\ Quiet /\ UNCHANGED <<lists, songs, moods, nextList, nextSong, alone>>

\* upsertMusicRows, its select
ReadRows(r) ==
  /\ run[r].pc = "put" /\ run[r].track > Tracks
  /\ Move(r, [pc |-> "rows", at |-> run[r].at, list |-> run[r].list, track |-> 1, first |-> 0,
              had |-> {s.id : s \in {t \in songs : t.list = run[r].list /\ ~t.gone}}])
  /\ Quiet /\ UNCHANGED <<tables, alone>>

NextTrack(r, id) ==
  Move(r, [run[r] EXCEPT !.track = @ + 1, !.first = IF run[r].track = 1 THEN id ELSE @])

\* upsertMusicRows, one file: the row of its name that was read, or a new one.
SaveRow(r) ==
  /\ run[r].pc = "rows" /\ run[r].track <= Tracks
  /\ LET same == {s \in songs : s.id \in run[r].had /\ s.track = run[r].track}
     IN  \/ \E s \in same :
              /\ songs' = (songs \ {s}) \cup {[s EXCEPT !.url = "bucket"]}
              /\ NextTrack(r, s.id)
              /\ UNCHANGED nextSong
         \/ /\ same = {} /\ nextSong <= MaxSongs /\ \E l \in lists : l.id = run[r].list
            /\ songs' = songs \cup {[id |-> nextSong, list |-> run[r].list, track |-> run[r].track,
                                     url |-> "bucket", gone |-> FALSE]}
            /\ NextTrack(r, nextSong) /\ nextSong' = nextSong + 1
  /\ Wrote(r) /\ Quiet /\ UNCHANGED <<lists, moods, bucket, nextList>>

\* attachPlaylistToMood; a preset that is not found is warned of, and the run goes on.
Attach(r) ==
  /\ run[r].pc = "rows" /\ run[r].track > Tracks
  /\ LET title == Folders[run[r].at]
     IN  IF title \in Titles
         THEN moods' = [moods EXCEPT ![title] = [list |-> run[r].list, first |-> run[r].first]]
         ELSE UNCHANGED moods
  /\ Move(r, [pc |-> "find", at |-> run[r].at + 1])
  /\ Wrote(r) /\ Quiet /\ UNCHANGED <<lists, songs, bucket, nextList, nextSong>>

\* The run is killed or a step of it fails: a row read is gone, the playlist is gone, an
\* upload is refused.
Stop(r) ==
  /\ UnderWay(r)
  /\ Move(r, [pc |-> "failed"])
  /\ Quiet /\ UNCHANGED <<tables, alone>>

\* syncMusicLibrary: one transaction deletes the library, writes a new one and points the
\* presets of the map to it, if the folder is there; the others keep what they had.
Sync ==
  LET list(i) == nextList + i - 1
      song(i, t) == nextSong + (i - 1) * Tracks + t - 1
  IN  /\ runs < MaxRuns
      /\ nextList + Len(Folders) - 1 <= MaxLists
      /\ nextSong + Len(Folders) * Tracks - 1 <= MaxSongs
      /\ runs' = runs + 1
      /\ lists' = {[id |-> list(i), name |-> Folders[i], gone |-> FALSE] : i \in DOMAIN Folders}
      /\ songs' = {[id |-> song(i, t), list |-> list(i), track |-> t, url |-> "web", gone |-> FALSE] :
                     i \in DOMAIN Folders, t \in 1..Tracks}
      /\ moods' = [t \in Titles |->
                     IF t \in DOMAIN SyncMap /\ SyncMap[t] \in Names
                     THEN LET i == CHOOSE j \in DOMAIN Folders : Folders[j] = SyncMap[t]
                          IN  [list |-> list(i), first |-> song(i, 1)]
                     ELSE moods[t]]
      /\ nextList' = nextList + Len(Folders)
      /\ nextSong' = nextSong + Len(Folders) * Tracks
      /\ alone' = [r \in Runners |-> FALSE]
      /\ UNCHANGED <<bucket, run, edits, overlap>>

\* An administrator removes a song or a playlist, or a playlist for good.
Remove ==
  /\ edits < MaxEdits /\ edits' = edits + 1
  /\ \/ \E s \in songs : songs' = (songs \ {s}) \cup {[s EXCEPT !.gone = TRUE]} /\ UNCHANGED lists
     \/ \E l \in lists :
          /\ lists' = lists \ {l}
          /\ songs' = {s \in songs : s.list # l.id}
     \/ \E l \in lists : lists' = (lists \ {l}) \cup {[l EXCEPT !.gone = TRUE]} /\ UNCHANGED songs
  /\ alone' = [r \in Runners |-> FALSE]
  /\ UNCHANGED <<moods, bucket, nextList, nextSong, run, runs, overlap>>

----------------------------------------------------------------------------
Init ==
  /\ lists = {} /\ songs = {} /\ bucket = {} /\ nextList = 1 /\ nextSong = 1
  /\ moods = [t \in Titles |-> [list |-> 0, first |-> 0]]
  /\ run = [r \in Runners |-> Idle] /\ runs = 0 /\ edits = 0
  /\ alone = [r \in Runners |-> FALSE] /\ overlap = FALSE

Next ==
  \/ \E r \in Runners :
       \/ Begin(r) \/ Scan(r) \/ Apply(r) \/ Find(r) \/ Finish(r) \/ Put(r) \/ ReadRows(r)
       \/ SaveRow(r) \/ Attach(r) \/ Stop(r)
  \/ Sync \/ Remove

Spec == Init /\ [][Next]_vars

----------------------------------------------------------------------------
(* Properties *)

Live(list, t) == {s \in songs : s.list = list /\ s.track = t /\ ~s.gone}
NameOf(list) == CHOOSE n \in Names : \E l \in lists : l.id = list /\ l.name = n

\* No row leads to a file that is not in the bucket, whatever run was killed; and a run that
\* ended with nobody else writing meanwhile, after whatever runs were killed before it, has
\* left a playlist for each of its folders that holds each file, once unless runs overlapped.
\* If a preset has the folder's name as its title, that playlist is the preset's, and its first
\* file the default; presets with other titles are not claimed to have one.
LibraryPlays ==
  /\ \A s \in songs :
       s.url = "bucket" => [name |-> NameOf(s.list), track |-> s.track] \in bucket
  /\ \A r \in Runners :
       run[r].pc = "done" /\ alone[r] =>
         \A n \in Names : \E l \in lists :
           /\ l.name = n /\ (n \in Titles => moods[n].list = l.id)
           /\ \A t \in 1..Tracks :
                \E s \in Live(l.id, t) :
                  /\ t = 1 /\ n \in Titles => moods[n].first = s.id
                  /\ overlap \/ Live(l.id, t) = {s}
=============================================================================
