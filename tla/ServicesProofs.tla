--------------------------- MODULE ServicesProofs ---------------------------
(***************************************************************************)
(* What Services claims of nine of its components, for every value of the  *)
(* constants: the scheduled cleanup of sessions, the cookies and the polls *)
(* of the gateway, the roles of a company, the records administrators      *)
(* keep, the shop, the music library, the lists, the migrations.  Each has *)
(* its inductive invariant in ServicesInvariants; a step of another        *)
(* component changes nothing that the implication  part = "..." =>         *)
(* invariant  speaks of.                                                   *)
(***************************************************************************)
EXTENDS ServicesInvariants, FiniteSetTheorems, SequenceTheorems, WellFoundedInduction, TLAPS

----------------------------------------------------------------------------
(* Crons *)

\* The operators of FiniteSets, as Crons sees them.
LEMMA CronsFinite ==
  ASSUME NEW S
  PROVE  /\ Crons!Cardinality(S) = Cardinality(S)
         /\ Crons!IsFiniteSet(S) <=> IsFiniteSet(S)
<1>1. Crons!Cardinality(S) = Cardinality(S)
  BY DEF Crons!Cardinality, Cardinality
<1>2. Crons!IsFiniteSet(S) <=> IsFiniteSet(S)
  BY DEF Crons!IsFiniteSet, IsFiniteSet
<1> QED
  BY <1>1, <1>2

LEMMA Jobs ==
  ASSUME NEW j \in Crons!Job
  PROVE  /\ j = Crons!Idle \/ j \in JobWaiting \/ j \in JobWorking
         /\ j # Crons!Idle <=> j.pc # "idle"
         /\ j \in JobWaiting <=> j.pc = "lock"
         /\ j \in JobWorking <=> j.pc \in {"batch", "delete", "commit"}
         /\ j \in JobWorking <=> "held" \in DOMAIN j
         /\ j.pc \in {"idle", "lock", "batch", "delete", "commit"}
         /\ j # Crons!Idle => j.cutoff \in 0..MaxClock /\ j.late \in SUBSET Sessions
         /\ j \in JobWorking => j.held \in SUBSET Sessions /\ j.chosen \in SUBSET Sessions
<1>1. CASE j = Crons!Idle
  BY <1>1 DEF Crons!Idle, JobWaiting, JobWorking
<1>2. CASE j \in JobWaiting
  BY <1>2 DEF Crons!Idle, JobWaiting, JobWorking
<1>3. CASE j \in JobWorking
  BY <1>3 DEF Crons!Idle, JobWaiting, JobWorking
<1> QED
  BY <1>1, <1>2, <1>3 DEF Crons!Job, JobWaiting, JobWorking

LEMMA CronsInitially ==
  ASSUME Crons!CronsAssumption, Crons!Init PROVE CronsInv
<1>1. \A p \in Actors : x5[p] = Crons!Idle /\ Crons!Idle \in Crons!Job /\ Crons!Idle.pc = "idle"
  BY DEF Crons!Init, Crons!Job, Crons!Idle
<1>2. CronsTyped
  BY <1>1 DEF Crons!CronsAssumption, Crons!Init, CronsTyped, Crons!TypeOK, Crons!New, Crons!NoOne
<1>3. Alone /\ Renewals /\ ChosenExpired /\ AllChosen
  BY <1>1, Jobs DEF Alone, Renewals, ChosenExpired, AllChosen
<1>4. Expiries
  BY DEF Crons!CronsAssumption, Crons!Init, Expiries, Crons!New, Crons!NoOne
<1> QED
  BY <1>2, <1>3, <1>4 DEF Crons!Init, CronsInv

LEMMA CronsFinally == ASSUME CronsInv PROVE Crons!CleansAll
<1>1. \A p \in Actors : "held" \in DOMAIN x5[p] => x6 = {p}
  BY Jobs DEF CronsInv, CronsTyped, Crons!TypeOK, Alone
<1>2. \A p \in Actors :
        x5[p].pc = "commit" /\ Crons!Cardinality(x5[p].chosen) < Batch => Crons!Expired(p) = {}
  BY DEF CronsInv, AllChosen
<1> QED
  BY <1>1, <1>2 DEF CronsInv, Crons!CleansAll

----------------------------------------------------------------------------
(* Steps of the job *)

\* A job becomes j, the others stay.
LEMMA Moves ==
  ASSUME Crons!TypeOK, NEW p \in Actors, NEW j \in Crons!Job, Crons!Move(p, j)
  PROVE  /\ x5' \in [Actors -> Crons!Job] /\ x5'[p] = j
         /\ \A q \in Actors : q # p => x5'[q] = x5[q]
         /\ \A q \in Actors : x5[q] \in Crons!Job /\ x5'[q] \in Crons!Job
  BY DEF Crons!TypeOK, Crons!Move

\* A job of another process sees no more expired sessions, if none expires anew.
LEMMA ExpiredOf ==
  ASSUME NEW q \in Actors, x5'[q] = x5[q],
         \A s \in Sessions : x2'[s] >= 0 /\ x2'[s] < x5[q].cutoff =>
           x2'[s] = x2[s]
  PROVE  Crons!Expired(q)' \subseteq Crons!Expired(q)
  BY DEF Crons!Expired

LEMMA ExecuteKeeps ==
  ASSUME CronsInv, NEW p \in Actors, Crons!Execute(p) PROVE CronsInv'
<1> DEFINE j == [pc |-> "lock", cutoff |-> x1, late |-> Crons!Renewing]
<1>1. Crons!TypeOK /\ x1 \in 0..MaxClock /\ j \in JobWaiting
  BY DEF CronsInv, CronsTyped, Crons!TypeOK, JobWaiting, Crons!Renewing
<1>2. j \in Crons!Job /\ j.pc = "lock" /\ j.cutoff = x1 /\ j.late = Crons!Renewing
  BY <1>1 DEF Crons!Job, JobWaiting
<1>3. /\ Crons!Move(p, j) /\ UNCHANGED <<x1, x3, x2, x6, x8>>
      /\ x4' = [x4 EXCEPT ![p] = TRUE]
  BY DEF Crons!Execute, Crons!Users
<1> HIDE DEF j
<1>4. /\ x5' \in [Actors -> Crons!Job] /\ x5'[p] = j
      /\ \A q \in Actors : q # p => x5'[q] = x5[q]
      /\ \A q \in Actors : x5[q] \in Crons!Job /\ x5'[q] \in Crons!Job
  BY <1>1, <1>2, <1>3, Moves
<1>5. CronsTyped'
  BY <1>1, <1>2, <1>3, <1>4 DEF CronsInv, CronsTyped, Crons!TypeOK
<1>6. Alone'
  BY <1>2, <1>3, <1>4, Jobs DEF CronsInv, Alone
<1>7. Expiries'
  BY <1>3 DEF CronsInv, Expiries
<1>8. Renewals'
  BY <1>1, <1>2, <1>3, <1>4 DEF CronsInv, Renewals, Crons!Renewing
<1>9. ChosenExpired'
  BY <1>2, <1>3, <1>4 DEF CronsInv, ChosenExpired
<1>10. AllChosen'
  BY <1>2, <1>3, <1>4, ExpiredOf DEF CronsInv, AllChosen
<1> QED
  BY <1>3, <1>5, <1>6, <1>7, <1>8, <1>9, <1>10 DEF CronsInv

\* A job that ends, with the lock, and what it deleted gone if it committed.
LEMMA EndKeeps ==
  ASSUME Crons!CronsAssumption, CronsInv, NEW p \in Actors, Crons!End(p), x6' = x6 \/ x6' = x6 \ {p},
         UNCHANGED <<x1, x3, x8>>,
         x2' \in [Sessions -> Int],
         \A s \in Sessions : x2'[s] = x2[s] \/ x2'[s] = Crons!Gone
  PROVE  CronsInv'
<1>1. Crons!TypeOK /\ Crons!Idle \in Crons!Job /\ Crons!Idle.pc = "idle"
  BY DEF CronsInv, CronsTyped, Crons!Job, Crons!Idle
<1>2. /\ x5' \in [Actors -> Crons!Job] /\ x5'[p] = Crons!Idle
      /\ \A q \in Actors : q # p => x5'[q] = x5[q]
      /\ \A q \in Actors : x5[q] \in Crons!Job /\ x5'[q] \in Crons!Job
  BY <1>1, Moves DEF Crons!End
<1>3. CronsTyped'
  BY <1>1, <1>2 DEF CronsInv, CronsTyped, Crons!TypeOK, Crons!End
<1>4. Alone'
  BY <1>1, <1>2, Jobs DEF CronsInv, Alone
<1>5. Expiries'
  <2>1. x1 + Life \in Int /\ x1 + Life >= Crons!Gone
    BY DEF Crons!CronsAssumption, CronsInv, CronsTyped, Crons!TypeOK, Crons!Gone
  <2> QED
    BY <2>1 DEF CronsInv, Expiries, Crons!New, Crons!Gone
<1>6. Renewals'
  BY <1>2 DEF CronsInv, Renewals
<1>7. ChosenExpired'
  <2>1. \A q \in Actors : x5[q].pc = "delete" =>
          x5[q].cutoff \in 0..MaxClock /\ x5[q].chosen \in SUBSET Sessions
    BY <1>2, Jobs
  <2>2. \A q \in Actors : x5'[q].pc = "delete" => x5[q].pc = "delete" /\ x5'[q] = x5[q]
    BY <1>1, <1>2
  <2>3. Crons!Gone # Crons!New /\ \A c \in 0..MaxClock : Crons!Gone < c
    BY DEF Crons!Gone, Crons!New
  <2> QED
    BY <2>1, <2>2, <2>3 DEF CronsInv, ChosenExpired
<1>8. AllChosen'
  BY <1>1, <1>2, ExpiredOf DEF CronsInv, AllChosen, Crons!Gone
<1> QED
  BY <1>3, <1>4, <1>5, <1>6, <1>7, <1>8 DEF CronsInv

LEMMA TryLockKeeps ==
  ASSUME Crons!CronsAssumption, CronsInv, NEW p \in Actors, Crons!TryLock(p) PROVE CronsInv'
<1> DEFINE j == [pc |-> "batch", cutoff |-> x5[p].cutoff, late |-> x5[p].late,
                 done |-> 0, held |-> {}, chosen |-> {}]
<1>1. Crons!TypeOK /\ x5[p] \in Crons!Job /\ x5[p].pc = "lock" /\ UNCHANGED <<x1, x3, x2, x8>>
  BY DEF CronsInv, CronsTyped, Crons!TypeOK, Crons!TryLock, Crons!Users
<1>2. CASE x6 = {}
  <2>1. x5[p] # Crons!Idle /\ x5[p].cutoff \in 0..MaxClock /\ x5[p].late \in SUBSET Sessions
    BY <1>1, Jobs
  <2>2. /\ j \in JobWorking /\ j.pc = "batch" /\ j.done = 0
        /\ j.cutoff = x5[p].cutoff /\ j.late = x5[p].late
    BY <2>1 DEF JobWorking, Crons!CronsAssumption
  <2>3. j \in Crons!Job
    BY <2>2 DEF Crons!Job, JobWorking
  <2>4. Crons!Move(p, j) /\ x6' = {p} /\ UNCHANGED x4
    BY <1>2 DEF Crons!TryLock
  <2> HIDE DEF j
  <2>5. /\ x5' \in [Actors -> Crons!Job] /\ x5'[p] = j
        /\ \A q \in Actors : q # p => x5'[q] = x5[q]
        /\ \A q \in Actors : x5[q] \in Crons!Job /\ x5'[q] \in Crons!Job
    BY <1>1, <2>3, <2>4, Moves
  <2>6. CronsTyped'
    <3>1. Crons!TypeOK'
      BY <1>1, <2>4, <2>5 DEF Crons!TypeOK
    <3>2. 0 < MaxBatches
      BY DEF Crons!CronsAssumption
    <3> QED
      BY <2>2, <2>5, <3>1, <3>2 DEF CronsInv, CronsTyped
  <2>7. Alone'
    <3>1. \A q \in Actors : x5[q] \notin JobWorking
      BY <1>2 DEF CronsInv, Alone
    <3> QED
      BY <2>4, <2>5, <3>1 DEF Alone
  <2>8. Expiries'
    BY <1>1 DEF CronsInv, Expiries
  <2>9. Renewals'
    BY <1>1, <2>1, <2>2, <2>5 DEF CronsInv, Renewals
  <2>10. ChosenExpired'
    BY <1>1, <2>2, <2>5 DEF CronsInv, ChosenExpired
  <2>11. AllChosen'
    BY <1>1, <2>2, <2>5, ExpiredOf DEF CronsInv, AllChosen
  <2> QED
    BY <1>1, <2>6, <2>7, <2>8, <2>9, <2>10, <2>11 DEF CronsInv
<1>3. CASE x6 # {}
  <2>1. Crons!End(p) /\ UNCHANGED x6
    BY <1>3 DEF Crons!TryLock
  <2> QED
    BY <1>1, <2>1, EndKeeps DEF Crons!TypeOK
<1> QED
  BY <1>2, <1>3

LEMMA ChooseKeeps ==
  ASSUME Crons!CronsAssumption, CronsInv, NEW p \in Actors, Crons!Choose(p) PROVE CronsInv'
<1>1. Crons!TypeOK /\ x5[p] \in Crons!Job /\ x5[p].pc = "batch"
      /\ UNCHANGED <<x1, x3, x2, x4, x6, x8>>
  BY DEF CronsInv, CronsTyped, Crons!TypeOK, Crons!Choose, Crons!Users
<1>2. PICK C \in SUBSET Crons!Expired(p) :
        /\ Crons!Cardinality(C) = (IF Crons!Cardinality(Crons!Expired(p)) < Batch THEN Crons!Cardinality(Crons!Expired(p)) ELSE Batch)
        /\ Crons!Move(p, [x5[p] EXCEPT !.pc = "delete", !.chosen = C])
  BY DEF Crons!Choose
<1> DEFINE j == [x5[p] EXCEPT !.pc = "delete", !.chosen = C]
<1>3. x5[p] \in JobWorking /\ x5[p] # Crons!Idle
  BY <1>1, Jobs
<1>4. /\ j \in JobWorking /\ j.pc = "delete" /\ j.chosen = C /\ j.held = x5[p].held
      /\ j.done = x5[p].done /\ j.cutoff = x5[p].cutoff /\ j.late = x5[p].late
  BY <1>2, <1>3 DEF JobWorking, Crons!Expired
<1>5. j \in Crons!Job /\ Crons!Move(p, j)
  BY <1>2, <1>4 DEF Crons!Job, JobWorking
<1> HIDE DEF j
<1>6. /\ x5' \in [Actors -> Crons!Job] /\ x5'[p] = j
      /\ \A q \in Actors : q # p => x5'[q] = x5[q]
      /\ \A q \in Actors : x5[q] \in Crons!Job /\ x5'[q] \in Crons!Job
  BY <1>1, <1>5, Moves
<1>7. CronsTyped'
  <2>1. Crons!TypeOK'
    BY <1>1, <1>6 DEF Crons!TypeOK
  <2> QED
    BY <1>1, <1>4, <1>6, <2>1 DEF CronsInv, CronsTyped
<1>8. Alone'
  BY <1>1, <1>3, <1>6 DEF CronsInv, Alone
<1>9. Expiries'
  BY <1>1 DEF CronsInv, Expiries
<1>10. Renewals'
  BY <1>1, <1>3, <1>4, <1>6 DEF CronsInv, Renewals
<1>11. ChosenExpired'
  <2>1. \A s \in C : x2[s] # Crons!New /\ x2[s] < x5[p].cutoff
    BY DEF Crons!Expired, Crons!New
  <2> QED
    BY <1>1, <1>4, <1>6, <2>1 DEF CronsInv, ChosenExpired
<1>12. AllChosen'
  <2>1. Crons!Expired(p)' = Crons!Expired(p)
    BY <1>1, <1>4, <1>6 DEF Crons!Expired
  <2>2. ASSUME Crons!Cardinality(C) < Batch PROVE Crons!Expired(p) \subseteq C
    <3>1. IsFiniteSet(Crons!Expired(p))
      BY FS_Subset, CronsFinite DEF Crons!CronsAssumption, Crons!Expired
    <3>2. Crons!Cardinality(C) = Crons!Cardinality(Crons!Expired(p))
      BY <1>2, <2>2 DEF Crons!CronsAssumption
    <3> QED
      BY <3>1, <3>2, FS_Subset, CronsFinite
  <2>3. \A q \in Actors : q # p => Crons!Expired(q)' \subseteq Crons!Expired(q)
    BY <1>1, <1>6, ExpiredOf
  <2> QED
    BY <1>4, <1>6, <2>1, <2>2, <2>3 DEF CronsInv, AllChosen
<1> QED
  BY <1>1, <1>7, <1>8, <1>9, <1>10, <1>11, <1>12 DEF CronsInv

LEMMA DeleteKeeps ==
  ASSUME Crons!CronsAssumption, CronsInv, NEW p \in Actors, Crons!Delete(p) PROVE CronsInv'
<1> DEFINE gone == {s \in x5[p].chosen : x2[s] # Crons!Gone}
           done == x5[p].done + 1
           pc == IF Crons!Cardinality(gone) < Batch \/ done = MaxBatches THEN "commit" ELSE "batch"
           j == [x5[p] EXCEPT !.pc = pc, !.done = done, !.held = @ \cup gone]
<1>1. Crons!TypeOK /\ x5[p] \in Crons!Job /\ x5[p].pc = "delete"
      /\ UNCHANGED <<x1, x3, x2, x4, x6>>
      /\ x8' = x8 \cup {s \in gone \ x5[p].late : x2[s] >= x5[p].cutoff}
      /\ Crons!Move(p, j)
  BY DEF CronsInv, CronsTyped, Crons!TypeOK, Crons!Delete, Crons!Users
<1>2. x5[p] \in JobWorking /\ x5[p] # Crons!Idle /\ x5[p].chosen \in SUBSET Sessions
      /\ x5[p].held \in SUBSET Sessions
  BY <1>1, Jobs
<1>3. done \in 0..MaxBatches /\ (pc = "batch" => done < MaxBatches)
  <2>1. x5[p].done \in 0..MaxBatches /\ x5[p].done < MaxBatches
    BY <1>1, <1>2 DEF CronsInv, CronsTyped, JobWorking
  <2> QED
    BY <2>1 DEF Crons!CronsAssumption
<1>4. pc \in {"batch", "commit"} /\ gone \in SUBSET Sessions
  BY <1>2
<1> HIDE DEF done, pc
<1>5. /\ j \in JobWorking /\ j.pc = pc /\ j.chosen = x5[p].chosen /\ j.held = x5[p].held \cup gone
      /\ j.done = done /\ j.cutoff = x5[p].cutoff /\ j.late = x5[p].late
  BY <1>2, <1>3, <1>4 DEF JobWorking
<1>6. j \in Crons!Job
  BY <1>5 DEF Crons!Job, JobWorking
<1> HIDE DEF j
<1>7. /\ x5' \in [Actors -> Crons!Job] /\ x5'[p] = j
      /\ \A q \in Actors : q # p => x5'[q] = x5[q]
      /\ \A q \in Actors : x5[q] \in Crons!Job /\ x5'[q] \in Crons!Job
  BY <1>1, <1>6, Moves
<1>8. x8' = {}
  <2>1. \A s \in x5[p].chosen \ x5[p].late : x2[s] < x5[p].cutoff
    BY <1>1 DEF CronsInv, ChosenExpired
  <2>2. \A s \in x5[p].chosen : x2[s] \in Int
    BY <1>1, <1>2 DEF Crons!TypeOK
  <2>3. x5[p].cutoff \in Int
    BY <1>2 DEF JobWorking
  <2> QED
    BY <1>1, <2>1, <2>2, <2>3 DEF CronsInv
<1>9. CronsTyped'
  <2>1. Crons!TypeOK'
    BY <1>1, <1>7, <1>8 DEF Crons!TypeOK
  <2> QED
    BY <1>1, <1>3, <1>4, <1>5, <1>7, <2>1 DEF CronsInv, CronsTyped
<1>10. Alone'
  BY <1>1, <1>2, <1>7 DEF CronsInv, Alone
<1>11. Expiries'
  BY <1>1 DEF CronsInv, Expiries
<1>12. Renewals'
  BY <1>1, <1>2, <1>5, <1>7 DEF CronsInv, Renewals
<1>13. ChosenExpired'
  BY <1>1, <1>4, <1>5, <1>7 DEF CronsInv, ChosenExpired
<1>14. AllChosen'
  <2>1. ASSUME NEW s \in Crons!Expired(p)' PROVE s \in Crons!Expired(p) /\ s \notin x5[p].chosen
    <3>1. s \in Sessions /\ s \notin x5[p].held \cup gone
          /\ x2[s] >= 0 /\ x2[s] < x5[p].cutoff
      BY <1>1, <1>5, <1>7 DEF Crons!Expired
    <3>2. x2[s] # Crons!Gone
      BY <3>1 DEF Crons!Gone
    <3> QED
      BY <3>1, <3>2 DEF Crons!Expired
  <2>2. Crons!Cardinality(x5[p].chosen) < Batch => Crons!Expired(p)' = {}
    BY <1>1, <2>1 DEF CronsInv, AllChosen
  <2>3. \A q \in Actors : q # p => Crons!Expired(q)' \subseteq Crons!Expired(q)
    BY <1>1, <1>7, ExpiredOf
  <2> QED
    BY <1>5, <1>7, <2>2, <2>3 DEF CronsInv, AllChosen
<1> QED
  BY <1>8, <1>9, <1>10, <1>11, <1>12, <1>13, <1>14 DEF CronsInv

LEMMA StopKeeps ==
  ASSUME Crons!CronsAssumption, CronsInv, NEW p \in Actors, Crons!Commit(p) \/ Crons!Fail(p) PROVE CronsInv'
<1>1. x2 \in [Sessions -> Int]
  BY DEF CronsInv, CronsTyped, Crons!TypeOK
<1>2. CASE Crons!Commit(p)
  <2>1. /\ x2' = [s \in Sessions |-> IF s \in x5[p].held THEN Crons!Gone ELSE x2[s]]
        /\ x6' = x6 \ {p} /\ Crons!End(p) /\ UNCHANGED <<x1, x3, x8>>
    BY <1>2 DEF Crons!Commit, Crons!Users
  <2>2. /\ x2' \in [Sessions -> Int]
        /\ \A s \in Sessions : x2'[s] = x2[s] \/ x2'[s] = Crons!Gone
    BY <1>1, <2>1 DEF Crons!Gone
  <2> QED
    BY <2>1, <2>2, EndKeeps
<1>3. CASE Crons!Fail(p)
  BY <1>1, <1>3, EndKeeps DEF Crons!Fail, Crons!Users
<1> QED
  BY <1>2, <1>3

----------------------------------------------------------------------------
(* Steps of sessions and of the clock *)

\* What sessions do leaves jobs alone. It must not make one expire that had not, nor start
\* a renewal of one that had expired.
LEMMA SessionsKeep ==
  ASSUME CronsInv, UNCHANGED <<x4, x5, x6, x8>>,
         x1' \in 0..MaxClock, x1 <= x1',
         x2' \in [Sessions -> Int], x3' \in [Sessions -> Int], Expiries',
         \A p \in Actors, s \in Sessions : x5[p] # Crons!Idle /\ s \notin x5[p].late =>
           \/ x3'[s] = Crons!NoOne \/ x2'[s] = Crons!Gone \/ x2'[s] >= x5[p].cutoff,
         \A p \in Actors, s \in Sessions : x5[p] # Crons!Idle =>
           /\ x2'[s] >= 0 /\ x2'[s] < x5[p].cutoff =>
                x2[s] >= 0 /\ (s \notin x5[p].held => x2[s] < x5[p].cutoff)
           /\ s \notin x5[p].late /\ x2[s] # Crons!New /\ x2[s] < x5[p].cutoff =>
                x2'[s] # Crons!New /\ x2'[s] < x5[p].cutoff
  PROVE  CronsInv'
<1>1. \A p \in Actors : x5[p] \in Crons!Job
  BY DEF CronsInv, CronsTyped, Crons!TypeOK
<1>2. CronsTyped'
  BY DEF CronsInv, CronsTyped, Crons!TypeOK
<1>3. Alone'
  BY DEF CronsInv, Alone
<1>4. Renewals'
  <2> SUFFICES ASSUME NEW p \in Actors, x5[p] # Crons!Idle
               PROVE  /\ x5[p].cutoff <= x1'
                      /\ \A s \in Sessions \ x5[p].late :
                           x3'[s] # Crons!NoOne => x2'[s] = Crons!Gone \/ x2'[s] >= x5[p].cutoff
    BY DEF Renewals
  <2>1. x5[p].cutoff <= x1 /\ x5[p].cutoff \in 0..MaxClock
    BY <1>1, Jobs DEF CronsInv, Renewals
  <2>2. x1 \in 0..MaxClock
    BY DEF CronsInv, CronsTyped, Crons!TypeOK
  <2> QED
    BY <2>1, <2>2
<1>5. ChosenExpired'
  <2> SUFFICES ASSUME NEW p \in Actors, x5[p].pc = "delete",
                      NEW s \in x5[p].chosen \ x5[p].late
               PROVE  x2'[s] # Crons!New /\ x2'[s] < x5[p].cutoff
    BY DEF ChosenExpired
  <2>1. s \in Sessions /\ x5[p] # Crons!Idle
    BY <1>1, Jobs
  <2>2. x2[s] # Crons!New /\ x2[s] < x5[p].cutoff
    BY DEF CronsInv, ChosenExpired
  <2> QED
    BY <2>1, <2>2
<1>6. AllChosen'
  <2>1. ASSUME NEW p \in Actors, x5[p].pc \in {"delete", "commit"}
        PROVE  Crons!Expired(p)' \subseteq Crons!Expired(p)
    <3>1. x5[p] # Crons!Idle
      BY <1>1, <2>1, Jobs
    <3> QED
      BY <3>1 DEF Crons!Expired
  <2> QED
    BY <2>1 DEF CronsInv, AllChosen
<1> QED
  BY <1>2, <1>3, <1>4, <1>5, <1>6 DEF CronsInv

LEMMA UsersKeep ==
  ASSUME Crons!CronsAssumption, CronsInv, NEW u \in Sessions,
         Crons!SignIn(u) \/ Crons!SignOut(u) \/ Crons!Use(u) \/ Crons!Renew(u)
  PROVE  CronsInv'
<1>1. /\ x2 \in [Sessions -> Int] /\ x3 \in [Sessions -> Int] /\ x1 \in 0..MaxClock
      /\ UNCHANGED <<x1, x4, x5, x6, x8>>
      /\ \A p \in Actors : x5[p] # Crons!Idle => x5[p].cutoff \in 0..MaxClock
  BY Jobs DEF CronsInv, CronsTyped, Crons!TypeOK, Crons!SignIn, Crons!SignOut, Crons!Use, Crons!Renew, Crons!Users
<1>2. \A s \in Sessions :
        /\ x2[s] \in {Crons!New, Crons!Gone} \cup Nat /\ x2[s] <= x1 + Life
        /\ x3[s] = Crons!NoOne \/ x3[s] \in Nat
        /\ x3[s] # Crons!NoOne => /\ x3[s] <= x1 + Life
                               /\ x2[s] # Crons!New /\ x2[s] <= x3[s]
  BY DEF CronsInv, Expiries
<1>3. \A p \in Actors : x5[p] # Crons!Idle =>
        /\ x5[p].cutoff <= x1
        /\ \A s \in Sessions \ x5[p].late :
             x3[s] # Crons!NoOne => x2[s] = Crons!Gone \/ x2[s] >= x5[p].cutoff
  BY DEF CronsInv, Renewals
<1>4. Life \in Nat \ {0}
  BY DEF Crons!CronsAssumption
<1>5. CASE Crons!SignIn(u)
  <2>1. x2[u] = Crons!New /\ x2' = [x2 EXCEPT ![u] = x1 + Life] /\ UNCHANGED x3
    BY <1>5 DEF Crons!SignIn, Crons!Users
  <2>2. x3[u] = Crons!NoOne
    BY <1>2, <2>1
  <2>3. Expiries'
    BY <1>1, <1>2, <1>4, <2>1, <2>2 DEF Expiries
  <2> QED
    BY <1>1, <1>3, <1>4, <2>1, <2>2, <2>3, SessionsKeep
<1>6. CASE Crons!SignOut(u)
  <2>1. x2[u] >= 0 /\ x2' = [x2 EXCEPT ![u] = Crons!Gone] /\ UNCHANGED x3
    BY <1>6 DEF Crons!SignOut, Crons!Users
  <2>2. Crons!Gone < 0 /\ Crons!Gone # Crons!New /\ Crons!Gone \in Int
    BY DEF Crons!Gone, Crons!New
  <2>3. Expiries'
    BY <1>1, <1>2, <1>4, <2>1, <2>2 DEF Expiries
  <2> QED
    BY <1>1, <1>3, <2>1, <2>2, <2>3, SessionsKeep
<1>7. CASE Crons!Use(u)
  <2>1. x2[u] >= x1 /\ x3' = [x3 EXCEPT ![u] = x1 + Life] /\ UNCHANGED x2
    BY <1>7 DEF Crons!Use
  <2>2. x2[u] # Crons!New
    BY <1>1, <2>1 DEF Crons!New
  <2>3. Expiries'
    BY <1>1, <1>2, <1>4, <2>1, <2>2 DEF Expiries
  <2>4. \A p \in Actors, s \in Sessions : x5[p] # Crons!Idle /\ s \notin x5[p].late =>
          \/ x3'[s] = Crons!NoOne \/ x2'[s] = Crons!Gone \/ x2'[s] >= x5[p].cutoff
    BY <1>1, <1>3, <2>1
  <2>5. x3' \in [Sessions -> Int]
    BY <1>1, <1>4, <2>1
  <2> QED
    BY <1>1, <2>1, <2>3, <2>4, <2>5, SessionsKeep
<1>8. CASE Crons!Renew(u)
  <2>1. /\ x3[u] # Crons!NoOne
        /\ x2' = [x2 EXCEPT ![u] = IF x2[u] = Crons!Gone THEN Crons!Gone ELSE x3[u]]
        /\ x3' = [x3 EXCEPT ![u] = Crons!NoOne]
    BY <1>8 DEF Crons!Renew
  <2>2. Crons!Gone < 0 /\ Crons!Gone # Crons!New /\ Crons!Gone \in Int /\ Crons!NoOne \in Int
    BY DEF Crons!Gone, Crons!New, Crons!NoOne
  <2>3. x3[u] \in Nat /\ x3[u] <= x1 + Life /\ x2[u] # Crons!New /\ x2[u] <= x3[u]
    BY <1>2, <2>1
  <2>4. Expiries'
    BY <1>1, <1>2, <1>4, <2>1, <2>2, <2>3 DEF Expiries, Crons!New
  <2>5. \A p \in Actors, s \in Sessions : x5[p] # Crons!Idle /\ s \notin x5[p].late =>
          \/ x3'[s] = Crons!NoOne \/ x2'[s] = Crons!Gone \/ x2'[s] >= x5[p].cutoff
    BY <1>1, <1>3, <2>1
  <2>6. ASSUME NEW p \in Actors, NEW s \in Sessions, x5[p] # Crons!Idle
        PROVE  /\ x2'[s] >= 0 /\ x2'[s] < x5[p].cutoff =>
                    x2[s] >= 0 /\ (s \notin x5[p].held => x2[s] < x5[p].cutoff)
               /\ s \notin x5[p].late /\ x2[s] # Crons!New /\ x2[s] < x5[p].cutoff =>
                    x2'[s] # Crons!New /\ x2'[s] < x5[p].cutoff
    <3>1. CASE s # u
      BY <1>1, <2>1, <3>1
    <3>2. CASE s = u /\ x2[u] = Crons!Gone
      BY <1>1, <2>1, <2>2, <3>2
    <3>3. CASE s = u /\ x2[u] # Crons!Gone
      <4>1. x2'[u] = x3[u] /\ x2[u] \in Nat
        BY <1>1, <1>2, <2>1, <2>3, <3>3
      <4>2. u \notin x5[p].late => x2[u] >= x5[p].cutoff
        BY <1>3, <2>1, <2>6, <3>3
      <4> QED
        BY <1>1, <2>3, <2>6, <3>3, <4>1, <4>2
    <3> QED
      BY <3>1, <3>2, <3>3
  <2>7. x2' \in [Sessions -> Int] /\ x3' \in [Sessions -> Int]
    BY <1>1, <2>1, <2>2
  <2> QED
    BY <1>1, <2>4, <2>5, <2>6, <2>7, SessionsKeep
<1> QED
  BY <1>5, <1>6, <1>7, <1>8

LEMMA TickKeeps ==
  ASSUME Crons!CronsAssumption, CronsInv, Crons!Tick PROVE CronsInv'
<1>1. /\ x1 \in 0..MaxClock /\ x1' = x1 + 1 /\ x1 < MaxClock
      /\ UNCHANGED <<x2, x3, x4, x5, x6, x8>>
      /\ x2 \in [Sessions -> Int] /\ x3 \in [Sessions -> Int]
      /\ \A p \in Actors : x5[p] # Crons!Idle => x5[p].cutoff \in 0..MaxClock
  BY Jobs DEF CronsInv, CronsTyped, Crons!TypeOK, Crons!Tick
<1>2. x1' \in 0..MaxClock /\ x1 <= x1'
  BY <1>1 DEF Crons!CronsAssumption
<1>3. Expiries'
  BY <1>1 DEF Crons!CronsAssumption, CronsInv, Expiries
<1>4. \A p \in Actors, s \in Sessions : x5[p] # Crons!Idle /\ s \notin x5[p].late =>
        \/ x3[s] = Crons!NoOne \/ x2[s] = Crons!Gone \/ x2[s] >= x5[p].cutoff
  BY DEF CronsInv, Renewals
<1> QED
  BY <1>1, <1>2, <1>3, <1>4, SessionsKeep

LEMMA CronsStay ==
  ASSUME CronsInv, UNCHANGED <<x1, x2, x3, x4, x5, x6, x7, x8>> PROVE CronsInv'
<1>1. \A p \in Actors : Crons!Expired(p)' = Crons!Expired(p)
  BY DEF Crons!Expired
<1> QED
  BY <1>1 DEF CronsInv, CronsTyped, Crons!TypeOK, Alone, Expiries, Renewals, ChosenExpired,
              AllChosen

LEMMA CronsKeep ==
  ASSUME Crons!CronsAssumption, CronsInv, Crons!Next PROVE CronsInv'
<1>1. ASSUME NEW p \in Actors,
             \/ Crons!Execute(p) \/ Crons!TryLock(p) \/ Crons!Choose(p)
             \/ Crons!Delete(p) \/ Crons!Commit(p) \/ Crons!Fail(p)
      PROVE  CronsInv'
  BY <1>1, ExecuteKeeps, TryLockKeeps, ChooseKeeps, DeleteKeeps, StopKeeps
<1> QED
  BY <1>1, UsersKeep, TickKeeps DEF Crons!Next

LEMMA CronsSteps ==
  /\ Init => (part = "crons" => CronsInv)
  /\ (part = "crons" => CronsInv) /\ [Next]_<<part, slots>> => (part = "crons" => CronsInv)'
<1>0. Crons!CronsAssumption
  BY ServicesAssumption DEF ServicesAssumption
<1>1. Init => (part = "crons" => CronsInv)
  BY <1>0, CronsInitially DEF Init
<1>2. ASSUME part = "crons" => CronsInv, [Next]_<<part, slots>>, part' = "crons" PROVE CronsInv'
  <2>1. CASE RunCrons
    BY <1>0, <1>2, <2>1, CronsKeep DEF RunCrons
  <2>2. CASE UNCHANGED <<part, slots>>
    BY <1>2, <2>2, CronsStay DEF slots
  <2> QED
    BY <1>2, <2>1, <2>2 DEF Next, RunControls, RunRecords, RunCatalog, RunMigrations, RunPolling,
                      RunCookies, RunRoles, RunMusic, RunListing
<1> QED
  BY <1>1, <1>2

\* deleteExpiredSessions: across processes and runs one transaction at a time deletes; a
\* short batch was the last of the expired ones; and no session goes that had not expired,
\* unless it was being renewed when the job read its clock.
THEOREM CleansAllAlways == Spec => []CleansAll
<1>1. (part = "crons" => CronsInv) => CleansAll
  BY CronsFinally DEF CleansAll
<1> QED
  BY <1>1, CronsSteps, PTL DEF Spec

----------------------------------------------------------------------------
(* Gateway, its cookies *)

\* Of all cookies in the jar the panel's own alone goes up under the canonical name.
LEMMA OnlyOwnGoesUp ==
  ASSUME NEW s \in Panels, NEW m \in Gateway!Names
  PROVE  Gateway!AuthCookie \in Gateway!Rewrite(m, s) <=> m = OwnName(s)
<1>1. m.scope \in Panels /\ m.auth \in BOOLEAN /\ m = [scope |-> m.scope, auth |-> m.auth]
  BY DEF Gateway!Names, Panels
<1>2. CASE s = Nil
  <2>1. Gateway!Rewrite(m, s) = {m}
    BY <1>2 DEF Gateway!Rewrite
  <2> QED
    BY <1>2, <2>1 DEF Gateway!AuthCookie, OwnName
<1>3. CASE s # Nil /\ m.scope = s
  <2>1. Gateway!Rewrite(m, s) = IF m.auth THEN {[m EXCEPT !.scope = Nil]} ELSE {}
    BY <1>3 DEF Gateway!Rewrite
  <2>2. [m EXCEPT !.scope = Nil] = [scope |-> Nil, auth |-> m.auth]
    BY <1>1
  <2>3. m.auth = TRUE => Gateway!Rewrite(m, s) = {[m EXCEPT !.scope = Nil]}
    BY <2>1
  <2>4. m.auth = FALSE => Gateway!Rewrite(m, s) = {}
    BY <2>1
  <2>5. OwnName(s).auth = TRUE
    BY DEF OwnName
  <2>6. CASE m.auth = TRUE
    <3>1. m = OwnName(s)
      BY <1>1, <1>3, <2>6 DEF OwnName
    <3>2. Gateway!Rewrite(m, s) = {Gateway!AuthCookie}
      BY <2>2, <2>3, <2>6 DEF Gateway!AuthCookie
    <3> QED
      BY <3>1, <3>2
  <2>7. CASE m.auth = FALSE
    BY <2>4, <2>5, <2>7
  <2> QED
    BY <1>1, <2>6, <2>7
<1>4. CASE s # Nil /\ m.scope # s
  <2>1. Gateway!Rewrite(m, s) = IF Gateway!Canonical(m) THEN {} ELSE {m}
    BY <1>4 DEF Gateway!Rewrite
  <2> QED
    BY <1>1, <1>4, <2>1 DEF Gateway!Canonical, Gateway!AuthCookie, OwnName
<1> QED
  BY <1>2, <1>3, <1>4

\* The auth service knows a panel by its own cookie.
LEMMA KnowsOwn ==
  ASSUME NEW s \in Panels, NEW S, x5 \in [Gateway!Names -> S]
  PROVE  Gateway!Knows(s) = {x5[OwnName(s)]} \ {0}
<1>1. OwnName(s) \in Gateway!Names
  BY DEF OwnName, Gateway!Names, Panels
<1> QED
  BY <1>1, OnlyOwnGoesUp DEF Gateway!Knows, Gateway!Sent, Gateway!NoSession

LEMMA ScopedIsOwn ==
  ASSUME Nil \notin Scopes, NEW s \in Panels
  PROVE  Gateway!Scoped(Gateway!AuthCookie, s) = OwnName(s)
  BY DEF Gateway!Scoped, Gateway!AuthCookie, Gateway!Canonical, OwnName, Panels

LEMMA OwnNamesDiffer ==
  ASSUME NEW s \in Panels, NEW t \in Panels
  PROVE  OwnName(s) \in Gateway!Names /\ (OwnName(s) = OwnName(t) => s = t)
<1>1. OwnName(s).scope = s /\ OwnName(t).scope = t
  BY DEF OwnName
<1> QED
  BY <1>1 DEF OwnName, Gateway!Names, Panels

LEMMA CookiesInitially ==
  ASSUME Gateway!Init PROVE CookiesInv
<1>1. x7 \in Seq(Panels) /\ Len(x7) = 0 /\ x6 = 0
  BY DEF Gateway!Init
<1>2. x5 = [n \in Gateway!Names |-> 0] /\ x13 = [s \in Panels |-> {}]
  BY DEF Gateway!Init, Gateway!NoSession, Panels
<1> QED
  BY <1>1, <1>2, OwnNamesDiffer DEF CookiesInv

LEMMA CookiesKeep ==
  ASSUME Gateway!GatewayAssumption, CookiesInv, Gateway!NextCookies PROVE CookiesInv'
<1>0. Nil \notin Scopes
  BY DEF Gateway!GatewayAssumption
<1>1. /\ x6 \in Nat /\ x7 \in Seq(Panels) /\ Len(x7) = x6
      /\ x5 \in [Gateway!Names -> 0..x6] /\ x13 \in [Panels -> SUBSET (1..x6)]
  BY DEF CookiesInv
<1>2. ASSUME NEW s \in Panels, Gateway!SignIn(s) PROVE CookiesInv'
  <2>1. /\ x6' = x6 + 1 /\ x7' = Append(x7, s) /\ x13' = x13
        /\ x5' = [x5 EXCEPT ![OwnName(s)] = x6 + 1]
    BY <1>0, <1>2, ScopedIsOwn DEF Gateway!SignIn
  <2>2. /\ x6' \in Nat /\ x7' \in Seq(Panels) /\ Len(x7') = x6' /\ x7'[x6 + 1] = s
        /\ \A k \in 1..x6 : x7'[k] = x7[k]
    BY <1>1, <2>1
  <2>3. x5' \in [Gateway!Names -> 0..x6'] /\ x13' \in [Panels -> SUBSET (1..x6')]
    <3>1. 0..x6 \subseteq 0..x6' /\ 1..x6 \subseteq 1..x6' /\ x6 + 1 \in 0..x6'
      BY <1>1, <2>1
    <3> QED
      BY <1>1, <2>1, <3>1
  <2>4. ASSUME NEW t \in Panels, x5'[OwnName(t)] # 0 PROVE x7'[x5'[OwnName(t)]] = t
    <3>1. CASE t = s
      BY <1>1, <2>1, <2>2, <3>1, OwnNamesDiffer
    <3>2. CASE t # s
      <4>1. x5'[OwnName(t)] = x5[OwnName(t)] /\ x5[OwnName(t)] \in 0..x6
        BY <1>1, <2>1, <3>2, OwnNamesDiffer
      <4>2. x5[OwnName(t)] \in 1..x6 /\ x7[x5[OwnName(t)]] = t
        BY <1>1, <2>4, <4>1 DEF CookiesInv
      <4> QED
        BY <2>2, <4>1, <4>2
    <3> QED
      BY <3>1, <3>2
  <2>5. ASSUME NEW t \in Panels, NEW k \in x13'[t] PROVE x7'[k] = t
    BY <1>1, <2>1, <2>2, <2>5 DEF CookiesInv
  <2> QED
    BY <2>2, <2>3, <2>4, <2>5 DEF CookiesInv
<1>3. ASSUME NEW s \in Panels, Gateway!SignOut(s) PROVE CookiesInv'
  <2>1. UNCHANGED <<x6, x7, x13>> /\ x5' = [x5 EXCEPT ![OwnName(s)] = 0]
    BY <1>0, <1>3, ScopedIsOwn DEF Gateway!SignOut, Gateway!NoSession
  <2>2. x5' \in [Gateway!Names -> 0..x6']
    <3>1. 0 \in 0..x6
      BY <1>1
    <3> QED
      BY <1>1, <2>1, <3>1
  <2>3. ASSUME NEW t \in Panels, x5'[OwnName(t)] # 0 PROVE x7'[x5'[OwnName(t)]] = t
    <3>1. x5'[OwnName(t)] = x5[OwnName(t)]
      BY <1>1, <2>1, <2>3, OwnNamesDiffer
    <3> QED
      BY <2>1, <2>3, <3>1 DEF CookiesInv
  <2> QED
    BY <1>1, <2>1, <2>2, <2>3 DEF CookiesInv
<1>4. ASSUME NEW s \in Panels, Gateway!Request(s) PROVE CookiesInv'
  <2>1. UNCHANGED <<x5, x6, x7>> /\ x13' = [x13 EXCEPT ![s] = Gateway!Knows(s)]
    BY <1>4 DEF Gateway!Request
  <2>2. Gateway!Knows(s) = {x5[OwnName(s)]} \ {0} /\ x5[OwnName(s)] \in 0..x6
    BY <1>1, KnowsOwn, OwnNamesDiffer
  <2>3. Gateway!Knows(s) \subseteq 1..x6 /\ \A k \in Gateway!Knows(s) : x7[k] = s
    BY <1>1, <2>2 DEF CookiesInv
  <2>4. x13' \in [Panels -> SUBSET (1..x6')]
    BY <1>1, <2>1, <2>3
  <2>5. ASSUME NEW t \in Panels, NEW k \in x13'[t] PROVE x7[k] = t
    <3>1. CASE t = s
      BY <1>1, <2>1, <2>3, <2>5, <3>1
    <3>2. CASE t # s
      BY <1>1, <2>1, <2>5, <3>2 DEF CookiesInv
    <3> QED
      BY <3>1, <3>2
  <2> QED
    BY <1>1, <2>1, <2>4, <2>5 DEF CookiesInv
<1> QED
  BY <1>2, <1>3, <1>4 DEF Gateway!NextCookies, Panels

LEMMA CookiesFinally == ASSUME Gateway!GatewayAssumption, CookiesInv PROVE Gateway!PanelsApart
<1> SUFFICES ASSUME NEW s \in Panels
             PROVE  /\ Gateway!Knows(s) = {x5[Gateway!Scoped(Gateway!AuthCookie, s)]} \ {0}
                    /\ \A k \in Gateway!Knows(s) \cup x13[s] : x7[k] = s
  BY DEF Gateway!PanelsApart, Gateway!NoSession, Panels
<1>1. Gateway!Scoped(Gateway!AuthCookie, s) = OwnName(s)
  BY ScopedIsOwn DEF Gateway!GatewayAssumption
<1>2. Gateway!Knows(s) = {x5[OwnName(s)]} \ {0}
  BY KnowsOwn DEF CookiesInv
<1> QED
  BY <1>1, <1>2 DEF CookiesInv

\* rewriteCookieHeader and rewriteSetCookieHeader: whatever panels share a browser, in
\* whatever order they sign in and out, each acts as the session last issued to it.
THEOREM PanelsStayApart == Spec => []PanelsApart
<1> DEFINE I == part = "cookies" => CookiesInv
<1>0. Gateway!GatewayAssumption
  BY ServicesAssumption DEF ServicesAssumption
<1>1. Init => I
  BY CookiesInitially DEF Init
<1>2. I /\ [Next]_<<part, slots>> => I'
  <2> SUFFICES ASSUME I, [Next]_<<part, slots>>, part' = "cookies" PROVE CookiesInv'
    OBVIOUS
  <2>1. CASE RunCookies
    BY <1>0, <2>1, CookiesKeep DEF RunCookies
  <2>2. CASE UNCHANGED <<part, slots>>
    BY <2>2 DEF slots, CookiesInv
  <2> QED
    BY <2>1, <2>2 DEF Next, RunControls, RunRecords, RunCatalog, RunMigrations, RunPolling,
                      RunRoles, RunMusic, RunCrons, RunListing
<1>3. I => PanelsApart
  BY <1>0, CookiesFinally DEF PanelsApart
<1> QED
  BY <1>1, <1>2, <1>3, PTL DEF Spec

----------------------------------------------------------------------------
(* Gateway, its polls *)

LEMMA PollCalls ==
  ASSUME NEW q \in Gateway!Call
  PROVE  /\ q.pc = "sent" => q.pod \in Pods
         /\ q.pc = "answered" => /\ q.pod \in Pods /\ q.body \in Gateway!Body
                                 /\ q.status \in {"ok", "degraded", "failed"}
  BY DEF Gateway!Call, Gateway!Idle

LEMMA PollsInitially ==
  ASSUME Gateway!GatewayAssumption, Gateway!Init PROVE PollsInv
<1>1. x1 = 0 /\ x2 = <<>> /\ Len(x2) = 0 /\ x11 = {}
  BY DEF Gateway!Init
<1>2. x2 \in Seq(Gateway!Entry) /\ Len(x2) <= MaxEntries
  BY <1>1 DEF Gateway!GatewayAssumption
<1>3. x3 \in [Actors -> Gateway!Call]
  BY DEF Gateway!Init, Gateway!Call
<1>4. x9 \in [Pods -> Int] /\ x10 \in [Pods -> Int]
  BY DEF Gateway!Init, Gateway!Never
<1>5. x8 = [c \in Actors |-> x8[c]] /\ \A c \in Actors : x8[c].kind = "none"
  BY DEF Gateway!Init
<1>6. Entries(x2, x11, x9, x10) /\ Retained(x2, x11, x12) /\ StaleAnswers
  BY <1>1, <1>5 DEF Entries, Retained, StaleAnswers
<1> QED
  BY <1>1, <1>2, <1>3, <1>4, <1>5, <1>6 DEF PollsInv, PollsTyped

LEMMA EntriesTyped ==
  ASSUME x2 \in Seq(Gateway!Entry), x11 \subseteq Gateway!Entry
  PROVE  /\ \A i \in 1..Len(x2) : x2[i] \in Gateway!Entry /\ x2[i].pod \in Pods /\ x2[i].at \in Nat
         /\ \A e \in x11 : e.pod \in Pods /\ e.at \in Nat
<1>1. \A i \in 1..Len(x2) : x2[i] \in Gateway!Entry
  OBVIOUS
<1>2. \A e \in Gateway!Entry : e.pod \in Pods /\ e.at \in Nat
  BY DEF Gateway!Entry
<1> QED
  BY <1>1, <1>2

\* The entry a fresh pod is answered with.
LEMMA FreshEntry ==
  ASSUME x2 \in Seq(Gateway!Entry), NEW p, Gateway!Has(p)
  PROVE  \E i \in 1..Len(x2) : Gateway!EntryOf(p) = x2[i] /\ x2[i].pod = p
<1>1. DOMAIN x2 = 1..Len(x2)
  OBVIOUS
<1>2. PICK i \in 1..Len(x2) : i = (CHOOSE n \in DOMAIN x2 : x2[n].pod = p) /\ x2[i].pod = p
  BY <1>1 DEF Gateway!Has
<1> QED
  BY <1>2 DEF Gateway!EntryOf

\* Both properties, read off the invariant.
LEMMA PollsFinally ==
  ASSUME Gateway!GatewayAssumption, PollsInv
  PROVE  Gateway!CacheKeepsUp /\ Gateway!FallbackIsGood
<1>1. /\ x1 \in Nat /\ x2 \in Seq(Gateway!Entry) /\ x9 \in [Pods -> Int]
      /\ x10 \in [Pods -> Int] /\ StaleAge \in Nat /\ x11 \subseteq Gateway!Entry
  BY DEF PollsInv, PollsTyped, Gateway!GatewayAssumption
<1>2. ASSUME NEW p \in Pods, Gateway!Fresh(p)
      PROVE  /\ \/ Gateway!EntryOf(p).body.at = x9[p]
                \/ x10[p] # -1 /\ x1 - x10[p] <= StaleAge
             /\ Gateway!EntryOf(p) \in x11 /\ Gateway!EntryOf(p).pod = p
             /\ x1 - Gateway!EntryOf(p).at <= StaleAge
  <2>1. Gateway!Has(p) /\ x1 - Gateway!EntryOf(p).at <= StaleAge
    BY <1>2 DEF Gateway!Fresh
  <2>2. PICK i \in 1..Len(x2) : Gateway!EntryOf(p) = x2[i] /\ x2[i].pod = p
    BY <1>1, <2>1, FreshEntry
  <2>3. x2[i].at \in Nat
    BY <1>1, <2>2, EntriesTyped
  <2>4. /\ x2[i] \in x11
        /\ x2[i].body.at = x9[p] \/ (x10[p] # -1 /\ x2[i].at <= x10[p])
    BY <2>2 DEF PollsInv, Entries
  <2> QED
    BY <1>1, <2>1, <2>2, <2>3, <2>4
<1>3. Gateway!CacheKeepsUp
  BY <1>2 DEF Gateway!CacheKeepsUp, Gateway!Never
<1>4. ASSUME NEW p \in Pods
      PROVE  /\ Gateway!Fallback(p).kind = "stale" =>
                  \E e \in {e \in x11 : e.pod = p /\ Gateway!Recent(e)} :
                    e.body = Gateway!Fallback(p).body
             /\ {e \in x11 : e.pod = p /\ Gateway!Recent(e)} # {} /\ p \notin x12 =>
                  Gateway!Fallback(p).kind = "stale"
  <2>1. CASE Gateway!Fresh(p)
    <3>1. Gateway!Fallback(p) = [kind |-> "stale", pod |-> p, body |-> Gateway!EntryOf(p).body]
      BY <2>1 DEF Gateway!Fallback
    <3>2. Gateway!Fallback(p).kind = "stale" /\ Gateway!Fallback(p).body = Gateway!EntryOf(p).body
      BY <3>1
    <3> QED
      BY <1>2, <2>1, <3>2 DEF Gateway!Recent
  <2>2. CASE ~Gateway!Fresh(p)
    <3>1. Gateway!Fallback(p) = [kind |-> "default", pod |-> p]
      BY <2>2 DEF Gateway!Fallback
    <3>2. Gateway!Fallback(p).kind # "stale"
      BY <3>1
    <3>3. ASSUME NEW e \in x11, e.pod = p, Gateway!Recent(e), p \notin x12 PROVE FALSE
      <4>1. PICK k \in 1..Len(x2) : x2[k].pod = p
        BY <3>3 DEF PollsInv, Retained
      <4>2. Gateway!Has(p)
        BY <1>1, <4>1 DEF Gateway!Has
      <4>3. PICK i \in 1..Len(x2) : Gateway!EntryOf(p) = x2[i] /\ x2[i].pod = p
        BY <1>1, <4>2, FreshEntry
      <4>4. e.at <= x2[i].at
        BY <3>3, <4>3 DEF PollsInv, Entries
      <4>5. e.at \in Nat /\ x2[i].at \in Nat
        BY <1>1, <3>3, <4>3, EntriesTyped
      <4>6. x1 - x2[i].at <= StaleAge
        BY <1>1, <3>3, <4>4, <4>5 DEF Gateway!Recent
      <4> QED
        BY <2>2, <4>2, <4>3, <4>6 DEF Gateway!Fresh
    <3> QED
      BY <3>2, <3>3
  <2> QED
    BY <2>1, <2>2
<1>5. \A c \in Actors : x3[c].pc = "answered" => x3[c].pod \in Pods
  BY PollCalls DEF PollsInv, PollsTyped
<1> QED
  BY <1>3, <1>4, <1>5 DEF Gateway!FallbackIsGood, PollsInv, StaleAnswers

\* Storing an answer replaces the pod's entry or appends one, at the cost of the oldest.
LEMMA Stored ==
  ASSUME Gateway!GatewayAssumption, PollsInv, NEW p \in Pods, NEW b \in Gateway!Body,
         NEW e, e = [pod |-> p, body |-> b, at |-> x1],
         NEW k, k = Gateway!Store(x2, p, b)
  PROVE  /\ e \in Gateway!Entry /\ k \in Seq(Gateway!Entry) /\ Len(k) <= MaxEntries
         /\ \A i, j \in 1..Len(k) : k[i].pod = k[j].pod => i = j
         /\ \A i \in 1..Len(k) :
              k[i] = e \/ (k[i].pod # p /\ \E j \in 1..Len(x2) : k[i] = x2[j])
         /\ \E i \in 1..Len(k) : k[i] = e
<1>1. /\ x1 \in Nat /\ x2 \in Seq(Gateway!Entry) /\ Len(x2) <= MaxEntries
      /\ MaxEntries \in Nat \ {0} /\ Len(x2) \in Nat /\ DOMAIN x2 = 1..Len(x2)
      /\ \A i \in 1..Len(x2) : x2[i] \in Gateway!Entry
  BY DEF PollsInv, PollsTyped, Gateway!GatewayAssumption
<1>2. \A i, j \in 1..Len(x2) : x2[i].pod = x2[j].pod => i = j
  BY DEF PollsInv, Entries
<1>3. e \in Gateway!Entry /\ e.pod = p
  BY <1>1 DEF Gateway!Entry
<1>4. CASE Gateway!Has(p)
  <2>1. k = [i \in 1..Len(x2) |-> IF x2[i].pod = p THEN e ELSE x2[i]]
    BY <1>1, <1>4 DEF Gateway!Store
  <2>2. k \in Seq(Gateway!Entry) /\ Len(k) = Len(x2)
    BY <1>1, <1>3, <2>1
  <2>3. \A i \in 1..Len(k) : k[i].pod = x2[i].pod /\ (k[i] = e \/ (k[i] = x2[i] /\ k[i].pod # p))
    <3> SUFFICES ASSUME NEW i \in 1..Len(x2)
                 PROVE  k[i].pod = x2[i].pod /\ (k[i] = e \/ (k[i] = x2[i] /\ k[i].pod # p))
      BY <2>2
    <3>1. k[i] = IF x2[i].pod = p THEN e ELSE x2[i]
      BY <2>1
    <3>2. CASE x2[i].pod = p
      BY <1>3, <3>1, <3>2
    <3>3. CASE x2[i].pod # p
      BY <3>1, <3>3
    <3> QED
      BY <3>2, <3>3
  <2>4. PICK i \in 1..Len(x2) : x2[i].pod = p
    BY <1>1, <1>4 DEF Gateway!Has
  <2>5. k[i] = e
    BY <2>1, <2>4
  <2> QED
    BY <1>1, <1>2, <1>3, <2>2, <2>3, <2>5
<1>5. CASE ~Gateway!Has(p)
  <2> DEFINE room == IF Len(x2) >= MaxEntries THEN Tail(x2) ELSE x2
  <2>1. k = Append(room, e)
    BY <1>5 DEF Gateway!Store
  <2>2. /\ room \in Seq(Gateway!Entry) /\ Len(room) \in Nat /\ Len(room) + 1 <= MaxEntries
        /\ \E n \in 0..1 : /\ Len(room) = Len(x2) - n
                           /\ \A i \in 1..Len(room) : i + n \in 1..Len(x2) /\ room[i] = x2[i + n]
    <3>1. CASE Len(x2) >= MaxEntries
      <4>1. room = Tail(x2) /\ Len(x2) >= 1
        BY <1>1, <3>1
      <4>2. x2 # <<>>
        BY <4>1
      <4>3. /\ Tail(x2) \in Seq(Gateway!Entry) /\ Len(Tail(x2)) = Len(x2) - 1
            /\ \A i \in 1..Len(Tail(x2)) : Tail(x2)[i] = x2[i + 1]
        BY <1>1, <4>2, HeadTailProperties
      <4> HIDE DEF room
      <4>4. Len(room) \in Nat /\ Len(room) + 1 <= MaxEntries
        BY <1>1, <4>1, <4>3
      <4>5. \A i \in 1..Len(room) : i + 1 \in 1..Len(x2) /\ room[i] = x2[i + 1]
        BY <1>1, <4>1, <4>3
      <4>6. \E n \in 0..1 :
              /\ Len(room) = Len(x2) - n
              /\ \A i \in 1..Len(room) : i + n \in 1..Len(x2) /\ room[i] = x2[i + n]
        <5> WITNESS 1 \in 0..1
        <5> QED
          BY <4>1, <4>3, <4>5
      <4> QED
        BY <4>1, <4>3, <4>4, <4>6
    <3>2. CASE ~(Len(x2) >= MaxEntries)
      <4>1. room = x2
        BY <3>2
      <4> HIDE DEF room
      <4>2. \A i \in 1..Len(room) : i + 0 \in 1..Len(x2) /\ room[i] = x2[i + 0]
        BY <1>1, <4>1
      <4>3. Len(room) + 1 <= MaxEntries /\ Len(room) = Len(x2) - 0 /\ Len(room) \in Nat
        BY <1>1, <3>2, <4>1
      <4>6. \E n \in 0..1 :
              /\ Len(room) = Len(x2) - n
              /\ \A i \in 1..Len(room) : i + n \in 1..Len(x2) /\ room[i] = x2[i + n]
        <5> WITNESS 0 \in 0..1
        <5> QED
          BY <4>2, <4>3
      <4> QED
        BY <1>1, <4>1, <4>3, <4>6
    <3> QED
      BY <3>1, <3>2
  <2>3. PICK n \in 0..1 : /\ Len(room) = Len(x2) - n
                         /\ \A i \in 1..Len(room) : i + n \in 1..Len(x2) /\ room[i] = x2[i + n]
    BY <2>2
  <2> HIDE DEF room
  <2>4. /\ k \in Seq(Gateway!Entry) /\ Len(k) = Len(room) + 1 /\ k[Len(room) + 1] = e
        /\ \A i \in 1..Len(room) : k[i] = room[i]
    BY <1>3, <2>1, <2>2
  <2>5. \A i \in 1..Len(x2) : x2[i].pod # p
    BY <1>1, <1>5 DEF Gateway!Has
  <2>6. \A i \in 1..Len(k) :
          \/ i = Len(room) + 1 /\ k[i] = e
          \/ i \in 1..Len(room) /\ i + n \in 1..Len(x2) /\ k[i] = x2[i + n] /\ k[i].pod # p
    BY <2>2, <2>3, <2>4, <2>5
  <2>7. \A i, j \in 1..Len(k) : k[i].pod = k[j].pod => i = j
    <3> SUFFICES ASSUME NEW i \in 1..Len(k), NEW j \in 1..Len(k), k[i].pod = k[j].pod
                 PROVE  i = j
      OBVIOUS
    <3>1. CASE i = Len(room) + 1 /\ k[i] = e
      BY <1>3, <2>6, <3>1
    <3>2. CASE i \in 1..Len(room) /\ i + n \in 1..Len(x2) /\ k[i] = x2[i + n] /\ k[i].pod # p
      <4>1. j \in 1..Len(room) /\ j + n \in 1..Len(x2) /\ k[j] = x2[j + n]
        BY <1>3, <2>6, <3>2
      <4>2. i + n = j + n
        BY <1>2, <3>2, <4>1
      <4> QED
        BY <2>2, <3>2, <4>1, <4>2
    <3> QED
      BY <2>6, <3>1, <3>2
  <2>8. \A i \in 1..Len(k) :
              k[i] = e \/ (k[i].pod # p /\ \E j \in 1..Len(x2) : k[i] = x2[j])
    <3> SUFFICES ASSUME NEW i \in 1..Len(k), k[i] # e
                 PROVE  k[i].pod # p /\ \E j \in 1..Len(x2) : k[i] = x2[j]
      OBVIOUS
    <3>1. i + n \in 1..Len(x2) /\ k[i] = x2[i + n] /\ k[i].pod # p
      BY <2>6
    <3> QED
      BY <3>1
  <2>9. Len(room) + 1 \in 1..Len(k) /\ Len(k) <= MaxEntries
    BY <2>2, <2>4
  <2> QED
    BY <1>3, <2>4, <2>7, <2>8, <2>9
<1> QED
  BY <1>4, <1>5

\* A step that leaves the entries and what was received alone.
LEMMA PollsStand ==
  ASSUME PollsInv, UNCHANGED <<x2, x8, x9, x10, x11, x12>>,
         x1' \in Nat, x1' >= x1, x3' \in [Actors -> Gateway!Call]
  PROVE  PollsInv'
<1>1. x1 \in Nat /\ x2 \in Seq(Gateway!Entry) /\ x11 \subseteq Gateway!Entry
  BY DEF PollsInv, PollsTyped
<1>2. Retained(x2, x11, x12)'
  BY <1>1, EntriesTyped DEF PollsInv, Retained
<1>3. PollsTyped'
  BY DEF PollsInv, PollsTyped
<1> QED
  BY <1>2, <1>3 DEF PollsInv, Entries, StaleAnswers

LEMMA PollsKeep ==
  ASSUME Gateway!GatewayAssumption, PollsInv, Gateway!NextPolling PROVE PollsInv'
<1>1. /\ x1 \in Nat /\ x2 \in Seq(Gateway!Entry) /\ x11 \subseteq Gateway!Entry
      /\ x3 \in [Actors -> Gateway!Call] /\ x9 \in [Pods -> Int] /\ x10 \in [Pods -> Int]
      /\ Len(x2) <= MaxEntries /\ DOMAIN x2 = 1..Len(x2) /\ x8 = [c \in Actors |-> x8[c]]
  BY DEF PollsInv, PollsTyped
<1>2. ASSUME NEW c \in Actors, NEW p \in Pods, Gateway!Poll(c, p) PROVE PollsInv'
  <2>1. [pc |-> "sent", pod |-> p] \in Gateway!Call
    BY DEF Gateway!Call
  <2>2. UNCHANGED <<x1, x2, x8, x9, x10, x11, x12>> /\ x3' \in [Actors -> Gateway!Call]
    BY <1>1, <1>2, <2>1 DEF Gateway!Poll
  <2> QED
    BY <1>1, <2>2, PollsStand
<1>3. ASSUME NEW c \in Actors, NEW status \in {"ok", "degraded", "failed"},
             Gateway!UpstreamAnswers(c, status)
      PROVE  PollsInv'
  <2>1. x3[c].pod \in Pods
    BY <1>1, <1>3, PollCalls DEF Gateway!UpstreamAnswers
  <2>2. [pc |-> "answered", pod |-> x3[c].pod, status |-> status,
         body |-> [pod |-> x3[c].pod, at |-> x1]] \in Gateway!Call
    BY <1>1, <2>1 DEF Gateway!Call, Gateway!Body
  <2>3. UNCHANGED <<x1, x2, x8, x9, x10, x11, x12>> /\ x3' \in [Actors -> Gateway!Call]
    BY <1>1, <1>3, <2>2 DEF Gateway!UpstreamAnswers
  <2> QED
    BY <1>1, <2>3, PollsStand
<1>4. ASSUME Gateway!Tick PROVE PollsInv'
  BY <1>1, <1>4, PollsStand DEF Gateway!Tick
<1>5. ASSUME NEW c \in Actors, Gateway!Proxy(c) PROVE PollsInv'
  <2>1. PICK a : a = x3[c]
    OBVIOUS
  <2>2. a \in Gateway!Call /\ a.pod \in Pods /\ a.body \in Gateway!Body
    BY <1>1, <1>5, <2>1, PollCalls DEF Gateway!Proxy
  <2>3. PICK given : given = IF a.status = "failed" THEN Gateway!Fallback(a.pod)
                             ELSE [kind |-> a.status, pod |-> a.pod, body |-> a.body]
    OBVIOUS
  <2>4. /\ x1' = x1 /\ x3' = [x3 EXCEPT ![c] = Gateway!Idle]
        /\ x8' = [x8 EXCEPT ![c] = given]
    BY <1>5, <2>1, <2>3 DEF Gateway!Proxy
  <2>5. x3' \in [Actors -> Gateway!Call]
    BY <1>1, <2>4 DEF Gateway!Call
  \* A stale answer is the body of an entry, and an entry was received.
  <2>6. x11 \subseteq x11' => StaleAnswers'
    <3> SUFFICES ASSUME x11 \subseteq x11', NEW d \in Actors, x8'[d].kind = "stale"
                 PROVE  \E e \in x11' : e.pod = x8'[d].pod /\ e.body = x8'[d].body
      BY DEF StaleAnswers
    <3>1. CASE d # c
      <4>1. x8'[d] = x8[d]
        BY <1>1, <2>4, <3>1
      <4> QED
        BY <4>1 DEF PollsInv, StaleAnswers
    <3>2. CASE d = c
      <4>1. x8'[d] = given
        BY <1>1, <2>4, <3>2
      <4>2. a.status = "failed"
        <5> SUFFICES ASSUME a.status # "failed" PROVE FALSE
          OBVIOUS
        <5>1. given = [kind |-> a.status, pod |-> a.pod, body |-> a.body]
          BY <2>3
        <5>2. a.status = "stale"
          BY <4>1, <5>1
        <5> QED
          BY <1>5, <2>1, <2>2, <5>2, PollCalls DEF Gateway!Proxy
      <4>3. given = Gateway!Fallback(a.pod)
        BY <2>3, <4>2
      <4>4. CASE Gateway!Fresh(a.pod)
        <5>1. given = [kind |-> "stale", pod |-> a.pod, body |-> Gateway!EntryOf(a.pod).body]
          BY <4>3, <4>4 DEF Gateway!Fallback
        <5>2. PICK i \in 1..Len(x2) : Gateway!EntryOf(a.pod) = x2[i] /\ x2[i].pod = a.pod
          BY <1>1, <4>4, FreshEntry DEF Gateway!Fresh
        <5>3. x2[i] \in x11'
          BY DEF PollsInv, Entries
        <5>4. x8'[d].pod = a.pod /\ x8'[d].body = x2[i].body
          BY <4>1, <5>1, <5>2
        <5> QED
          BY <5>2, <5>3, <5>4
      <4>5. CASE ~Gateway!Fresh(a.pod)
        <5>1. given = [kind |-> "default", pod |-> a.pod]
          BY <4>3, <4>5 DEF Gateway!Fallback
        <5> QED
          BY <4>1, <5>1
      <4> QED
        BY <4>4, <4>5
    <3> QED
      BY <3>1, <3>2
  <2>7. CASE a.status # "ok"
    <3>1. UNCHANGED <<x1, x2, x9, x10, x11>>
      BY <1>5, <2>1, <2>7 DEF Gateway!Proxy, Gateway!Cacheable
    <3>2. x12 \subseteq x12'
      BY <1>5 DEF Gateway!Proxy
    <3>3. x8' = [d \in Actors |-> x8'[d]]
      BY <1>1, <2>4
    <3> QED
      BY <2>5, <2>6, <3>1, <3>2, <3>3 DEF PollsInv, PollsTyped, Entries, Retained
  <2>8. CASE a.status = "ok"
    <3>1. PICK p, b : p = a.pod /\ b = a.body
      OBVIOUS
    <3>2. PICK e : e = [pod |-> p, body |-> b, at |-> x1]
      OBVIOUS
    <3>3. /\ x2' = Gateway!Store(x2, p, b)
          /\ x12' = x12 \cup {q \in Pods : Gateway!Has(q) /\ \A i \in DOMAIN x2' : x2'[i].pod # q}
          /\ x9' = [x9 EXCEPT ![p] = IF b.at > @ THEN b.at ELSE @]
          /\ x10' = IF b.at < x9[p] THEN [x10 EXCEPT ![p] = x1] ELSE x10
          /\ x11' = x11 \cup {e}
      BY <1>5, <2>1, <2>8, <3>1, <3>2 DEF Gateway!Proxy, Gateway!Cacheable
    <3>4. p \in Pods /\ b \in Gateway!Body /\ b.at \in Nat
      BY <2>2, <3>1 DEF Gateway!Body
    <3>5. /\ e \in Gateway!Entry /\ x2' \in Seq(Gateway!Entry) /\ Len(x2') <= MaxEntries
          /\ \A i, j \in 1..Len(x2') : x2'[i].pod = x2'[j].pod => i = j
          /\ \A i \in 1..Len(x2') :
               x2'[i] = e \/ (x2'[i].pod # p /\ \E j \in 1..Len(x2) : x2'[i] = x2[j])
          /\ \E i \in 1..Len(x2') : x2'[i] = e
      BY <3>2, <3>3, <3>4, Stored
    <3>6. e.pod = p /\ e.body = b /\ e.at = x1
      BY <3>2
    <3>7. x9' \in [Pods -> Int] /\ x10' \in [Pods -> Int]
      BY <1>1, <3>3, <3>4
    <3>8. PollsTyped'
      <4>1. x8' = [d \in Actors |-> x8'[d]]
        BY <1>1, <2>4
      <4> QED
        BY <1>1, <2>4, <2>5, <3>3, <3>5, <3>7, <4>1 DEF PollsTyped
    <3>9. Retained(x2, x11, x12)'
      <4> SUFFICES ASSUME NEW f \in x11'
                   PROVE  /\ f.at <= x1'
                          /\ f.pod \in x12' \/ \E i \in 1..Len(x2') : x2'[i].pod = f.pod
        BY DEF Retained
      <4>1. CASE f = e
        BY <1>1, <2>4, <3>5, <3>6, <4>1
      <4>2. CASE f \in x11
        <5>1. f.at <= x1' /\ (f.pod \in x12 \/ \E i \in 1..Len(x2) : x2[i].pod = f.pod)
          BY <2>4, <4>2 DEF PollsInv, Retained
        <5>2. f.pod \in Pods
          BY <1>1, <4>2, EntriesTyped
        <5>3. DOMAIN x2' = 1..Len(x2')
          BY <3>5
        <5>4. (\E i \in 1..Len(x2) : x2[i].pod = f.pod) => Gateway!Has(f.pod)
          BY <1>1 DEF Gateway!Has
        <5> QED
          BY <3>3, <5>1, <5>2, <5>3, <5>4
      <4> QED
        BY <3>3, <4>1, <4>2
    <3>10. Entries(x2, x11, x9, x10)'
      <4> SUFFICES ASSUME NEW i \in 1..Len(x2')
                   PROVE  /\ x2'[i] \in x11'
                          /\ \A f \in x11' : f.pod = x2'[i].pod => f.at <= x2'[i].at
                          /\ \/ x2'[i].body.at = x9'[x2'[i].pod]
                             \/ /\ x10'[x2'[i].pod] # -1
                                /\ x2'[i].at <= x10'[x2'[i].pod]
        BY <3>5 DEF Entries
      <4>1. CASE x2'[i] = e
        <5>1. \A f \in x11' : f.at <= x1
          BY <2>4, <3>9 DEF Retained
        <5>2. CASE b.at < x9[p]
          <6>1. x10'[p] = x1
            BY <1>1, <3>3, <3>4, <5>2
          <6> QED
            BY <1>1, <3>3, <3>6, <4>1, <5>1, <6>1
        <5>3. CASE ~(b.at < x9[p])
          <6>1. x9'[p] = b.at
            BY <1>1, <3>3, <3>4, <5>3
          <6> QED
            BY <1>1, <3>3, <3>6, <4>1, <5>1, <6>1
        <5> QED
          BY <5>2, <5>3
      <4>2. CASE x2'[i] # e
        <5>1. PICK j \in 1..Len(x2) : x2'[i] = x2[j] /\ x2[j].pod # p
          BY <3>5, <4>2
        <5>2. x9'[x2[j].pod] = x9[x2[j].pod] /\ x10'[x2[j].pod] = x10[x2[j].pod]
          <6>1. x2[j].pod \in Pods
            BY <1>1, EntriesTyped
          <6> QED
            BY <1>1, <3>3, <5>1, <6>1
        <5>3. /\ x2[j] \in x11 /\ \A f \in x11 : f.pod = x2[j].pod => f.at <= x2[j].at
              /\ x2[j].body.at = x9[x2[j].pod] \/ (x10[x2[j].pod] # -1 /\ x2[j].at <= x10[x2[j].pod])
          BY DEF PollsInv, Entries
        <5> QED
          BY <3>3, <3>6, <5>1, <5>2, <5>3
      <4> QED
        BY <4>1, <4>2
    <3> QED
      BY <2>6, <3>3, <3>8, <3>9, <3>10 DEF PollsInv
  <2> QED
    BY <2>7, <2>8
<1> QED
  BY <1>2, <1>3, <1>4, <1>5 DEF Gateway!NextPolling

\* createProxyHandler and the polls' cache: in whatever order the answers of the pod service
\* come back, a failed poll is answered with what was last said of its pod while that is
\* recent, unless other pods took its place.
THEOREM FailedPollsFallBack == Spec => []PollsFallBack
<1> DEFINE I == part = "polling" => PollsInv
<1>0. Gateway!GatewayAssumption
  BY ServicesAssumption DEF ServicesAssumption
<1>1. Init => I
  BY <1>0, PollsInitially DEF Init
<1>2. I /\ [Next]_<<part, slots>> => I'
  <2> SUFFICES ASSUME I, [Next]_<<part, slots>>, part' = "polling" PROVE PollsInv'
    OBVIOUS
  <2>1. CASE RunPolling
    BY <1>0, <2>1, PollsKeep DEF RunPolling
  <2>2. CASE UNCHANGED <<part, slots>>
    BY <2>2 DEF slots, PollsInv, PollsTyped, Entries, Retained, StaleAnswers
  <2> QED
    BY <2>1, <2>2 DEF Next, RunControls, RunRecords, RunCatalog, RunMigrations, RunCookies,
                      RunRoles, RunMusic, RunCrons, RunListing
<1>3. I => PollsFallBack
  BY <1>0, PollsFinally DEF PollsFallBack
<1> QED
  BY <1>1, <1>2, <1>3, PTL DEF Spec

----------------------------------------------------------------------------
(* Roles *)

LEMMA RolesFinally ==
  ASSUME RolesInv PROVE Roles!SlugsTellApart /\ Roles!ManagedKept /\ Roles!DefaultsRestored
  BY DEF RolesInv, DefaultsStand, Known, Roles!DefaultsRestored

LEMMA RoleRequests ==
  ASSUME NEW q \in Roles!Request
  PROVE  /\ q.pc \in {"idle", "create", "update", "remove", "insert", "change", "delete",
                      "roles", "perms", "failed"}
         /\ "missed" \in DOMAIN q <=> q.pc \notin {"idle", "failed"}
         /\ q.pc \notin {"idle", "failed"} => q.missed \in Roles!Missed
         /\ q.pc = "create" => q.slug \in Roles!RoleSlug
         /\ q.pc = "update" => q.id \in Roles!Ids /\ q.slug \in Roles!RoleSlug \cup {Nil}
         /\ q.pc = "remove" => q.id \in Roles!Ids
         /\ q.pc \in {"insert", "change", "delete"} => q.id \in Roles!Ids /\ q.on \in Resources
         /\ q.pc \in {"roles", "perms"} => q.found \in Roles!Rows /\ q.fix \in SUBSET Defaults
         /\ q.pc = "perms" => q.old \in Roles!Grants
<1>1. CASE q = Roles!Idle
  BY <1>1 DEF Roles!Idle
<1>2. CASE q \in [pc: {"create"}, slug: Roles!RoleSlug, missed: Roles!Missed]
  BY <1>2
<1>3. CASE q \in [pc: {"update"}, id: Roles!Ids, slug: Roles!RoleSlug \cup {Nil}, missed: Roles!Missed]
  BY <1>3
<1>4. CASE q \in [pc: {"remove"}, id: Roles!Ids, missed: Roles!Missed]
  BY <1>4
<1>5. CASE q \in [pc: {"insert", "change", "delete"}, id: Roles!Ids, on: Resources, missed: Roles!Missed]
  BY <1>5
<1>6. CASE q \in [pc: {"roles"}, found: Roles!Rows, fix: SUBSET Defaults, missed: Roles!Missed]
  BY <1>6
<1>7. CASE q \in [pc: {"perms"}, found: Roles!Rows, fix: SUBSET Defaults, missed: Roles!Missed,
                  old: Roles!Grants]
  BY <1>7
<1>8. CASE q \in [pc: {"failed"}, excused: BOOLEAN]
  BY <1>8
<1> QED
  BY <1>1, <1>2, <1>3, <1>4, <1>5, <1>6, <1>7, <1>8 DEF Roles!Request

LEMMA MissMore ==
  ASSUME NEW q \in Roles!Request, NEW ids \in SUBSET Roles!Ids,
         NEW slugs \in SUBSET Roles!RoleSlug, "missed" \in DOMAIN q,
         NEW b, b = [q EXCEPT !.missed = [ids |-> @.ids \cup ids, slugs |-> @.slugs \cup slugs]]
  PROVE  b \in Roles!Request /\ Later(q, b, [ids |-> ids, slugs |-> slugs])
<1>0. PICK m : m = [ids |-> q.missed.ids \cup ids, slugs |-> q.missed.slugs \cup slugs]
  OBVIOUS
<1>1. q.missed \in Roles!Missed
  BY RoleRequests
<1>2. m \in Roles!Missed /\ m.ids = q.missed.ids \cup ids /\ m.slugs = q.missed.slugs \cup slugs
  BY <1>0, <1>1 DEF Roles!Missed
<1>3. b = [q EXCEPT !.missed = m]
  BY <1>0
<1> DEFINE w == [ids |-> ids, slugs |-> slugs]
<1>4. w.ids = ids /\ w.slugs = slugs
  OBVIOUS
<1> HIDE DEF w
<1>5. CASE q \in [pc: {"create"}, slug: Roles!RoleSlug, missed: Roles!Missed]
  <2>1. /\ b \in [pc: {"create"}, slug: Roles!RoleSlug, missed: Roles!Missed]
        /\ b.pc = q.pc /\ b.slug = q.slug /\ b.missed = m
    BY <1>2, <1>3, <1>5
  <2> QED
    BY <1>2, <1>4, <1>5, <2>1 DEF Later, Roles!Request
<1>6. CASE q \in [pc: {"update"}, id: Roles!Ids, slug: Roles!RoleSlug \cup {Nil}, missed: Roles!Missed]
  <2>1. /\ b \in [pc: {"update"}, id: Roles!Ids, slug: Roles!RoleSlug \cup {Nil}, missed: Roles!Missed]
        /\ b.pc = q.pc /\ b.slug = q.slug /\ b.id = q.id /\ b.missed = m
    BY <1>2, <1>3, <1>6
  <2> QED
    BY <1>2, <1>4, <1>6, <2>1 DEF Later, Roles!Request
<1>7. CASE q \in [pc: {"remove"}, id: Roles!Ids, missed: Roles!Missed]
  <2>1. /\ b \in [pc: {"remove"}, id: Roles!Ids, missed: Roles!Missed]
        /\ b.pc = q.pc /\ b.missed = m
    BY <1>2, <1>3, <1>7
  <2> QED
    BY <1>2, <1>4, <1>7, <2>1 DEF Later, Roles!Request
<1>8. CASE q \in [pc: {"insert", "change", "delete"}, id: Roles!Ids, on: Resources, missed: Roles!Missed]
  <2>1. /\ b \in [pc: {"insert", "change", "delete"}, id: Roles!Ids, on: Resources, missed: Roles!Missed]
        /\ b.pc = q.pc /\ b.on = q.on /\ b.missed = m
    BY <1>2, <1>3, <1>8
  <2> QED
    BY <1>2, <1>4, <1>8, <2>1 DEF Later, Roles!Request
<1>9. CASE q \in [pc: {"roles"}, found: Roles!Rows, fix: SUBSET Defaults, missed: Roles!Missed]
  <2>1. /\ b \in [pc: {"roles"}, found: Roles!Rows, fix: SUBSET Defaults, missed: Roles!Missed]
        /\ b.pc = q.pc /\ b.found = q.found /\ b.fix = q.fix /\ b.missed = m
    BY <1>2, <1>3, <1>9
  <2> QED
    BY <1>2, <1>4, <1>9, <2>1 DEF Later, Roles!Request
<1>10. CASE q \in [pc: {"perms"}, found: Roles!Rows, fix: SUBSET Defaults, missed: Roles!Missed,
                   old: Roles!Grants]
  <2>1. /\ b \in [pc: {"perms"}, found: Roles!Rows, fix: SUBSET Defaults, missed: Roles!Missed,
                  old: Roles!Grants]
        /\ b.pc = q.pc /\ b.found = q.found /\ b.fix = q.fix /\ b.old = q.old /\ b.missed = m
    BY <1>2, <1>3, <1>10
  <2> QED
    BY <1>2, <1>4, <1>10, <2>1 DEF Later, Roles!Request
<1>11. q.pc \notin {"idle", "failed"}
  BY RoleRequests
<1>12. Roles!Idle.pc = "idle" /\ (q \in [pc: {"failed"}, excused: BOOLEAN] => q.pc = "failed")
  BY DEF Roles!Idle
<1> QED
  BY <1>5, <1>6, <1>7, <1>8, <1>9, <1>10, <1>11, <1>12 DEF Roles!Request, w

\* Every other request stays or has missed what was written.
LEMMA Leaves ==
  ASSUME Roles!TypeOK, NEW r \in Actors, NEW ids \in SUBSET Roles!Ids,
         NEW slugs \in SUBSET Roles!RoleSlug, NEW end \in Roles!Request,
         Roles!Leave(r, Roles!Touch(ids, slugs), end)
  PROVE  /\ x4' \in [Actors -> Roles!Request] /\ x4'[r] = end /\ x5' = x5
         /\ \A q \in Actors \ {r} : Later(x4[q], x4'[q], [ids |-> ids, slugs |-> slugs])
<1> DEFINE w == [ids |-> ids, slugs |-> slugs]
<1>1. /\ x4 \in [Actors -> Roles!Request] /\ x5' = x5 /\ w.ids = ids /\ w.slugs = slugs
      /\ x4' = [q \in Actors |->
               IF q = r THEN end
               ELSE IF "missed" \in DOMAIN x4[q]
               THEN [x4[q] EXCEPT !.missed = [ids |-> @.ids \cup w.ids, slugs |-> @.slugs \cup w.slugs]]
               ELSE x4[q]]
  BY DEF Roles!TypeOK, Roles!Leave, Roles!Touch
<1>2. x4'[r] = end
  BY <1>1
<1>3. ASSUME NEW q \in Actors \ {r} PROVE x4'[q] \in Roles!Request /\ Later(x4[q], x4'[q], w)
  <2>1. x4[q] \in Roles!Request
    BY <1>1
  <2>2. CASE "missed" \in DOMAIN x4[q]
    <3>1. x4'[q] = [x4[q] EXCEPT !.missed = [ids |-> @.ids \cup ids, slugs |-> @.slugs \cup slugs]]
      BY <1>1, <2>2
    <3> QED
      BY <2>1, <2>2, <3>1, MissMore
  <2>3. CASE "missed" \notin DOMAIN x4[q]
    <3>1. x4'[q] = x4[q]
      BY <1>1, <2>3
    <3> QED
      BY <2>1, <2>3, <3>1, RoleRequests DEF Later
  <2> QED
    BY <2>2, <2>3
<1>4. x4' \in [Actors -> Roles!Request]
  <2>1. x4' = [q \in Actors |-> x4'[q]]
    BY <1>1
  <2> QED
    BY <1>2, <1>3, <2>1
<1> QED
  BY <1>1, <1>2, <1>3, <1>4

\* A request that knew what there was, but for what it missed, does so after a write.
LEMMA KnownStill ==
  ASSUME Roles!RolesAssumption, Roles!TypeOK, NEW q \in Roles!Request, NEW b \in Roles!Request,
         NEW ids \in SUBSET Roles!Ids, NEW slugs \in SUBSET Roles!RoleSlug,
         Known(q, x1, x2), Later(q, b, [ids |-> ids, slugs |-> slugs]),
         \A id \in Roles!Ids \ ids : x1'[id].slug = x1[id].slug /\ x2'[id] = x2[id],
         \A o \in Roles!Ids : x1'[o].slug = x1[o].slug \/ x1'[o].slug \in slugs \cup {Nil},
         x1' = x1 \/ ids # {} \/ slugs # {}
  PROVE  Known(b, x1', x2')
<1> DEFINE w == [ids |-> ids, slugs |-> slugs]
<1>1. w.ids = ids /\ w.slugs = slugs
  OBVIOUS
<1>2. Nil \notin Roles!RoleSlug /\ Nil \notin Defaults
  BY DEF Roles!RolesAssumption, Roles!RoleSlug, Roles!Blank
<1> HIDE DEF w
<1>3. Later(q, b, w)
  BY DEF w
<1>4. q.pc \notin {"idle", "failed"} => /\ b.missed.ids = q.missed.ids \cup ids
                                        /\ b.missed.slugs = q.missed.slugs \cup slugs
  BY <1>1, <1>3 DEF Later
<1>5. SlugKnown(b, x1')
  <2>1. q.pc = "create" => q.slug \in Roles!RoleSlug
    BY RoleRequests
  <2> QED
    BY <1>2, <1>3, <1>4, <2>1 DEF Known, SlugKnown, Later, Roles!RoleSlug
<1>6. ASSUME q.pc \in {"roles", "perms"} PROVE SeedKnown(b, x1', x2')
  <2>1. /\ \A id \in Roles!Ids : id \in q.missed.ids \/ q.found[id] = DefaultSlug(x1[id])
        /\ \A s \in Defaults :
             \/ s \in q.missed.slugs
             \/ \A o \in Roles!Ids : x1[o].slug = s => \E id \in Roles!Ids : q.found[id] = s
        /\ q.missed = Roles!Nothing => FixRight(q.fix, x1)
        /\ q.pc = "perms" => \A id \in Roles!Ids : id \in q.missed.ids \/ q.old[id] = x2[id]
    BY <1>6 DEF Known, SeedKnown
  <2>2. b.pc = q.pc /\ b.found = q.found /\ b.fix = q.fix /\ (q.pc = "perms" => b.old = q.old)
    BY <1>3, <1>6 DEF Later
  <2>3. \A id \in Roles!Ids : id \in b.missed.ids \/ b.found[id] = DefaultSlug(x1'[id])
    BY <1>4, <1>6, <2>1, <2>2 DEF DefaultSlug
  <2>4. \A s \in Defaults :
             \/ s \in b.missed.slugs
             \/ \A o \in Roles!Ids : x1'[o].slug = s => \E id \in Roles!Ids : b.found[id] = s
    BY <1>2, <1>4, <1>6, <2>1, <2>2
  <2>5. b.missed = Roles!Nothing => FixRight(b.fix, x1')
    <3> SUFFICES ASSUME b.missed = Roles!Nothing PROVE FixRight(b.fix, x1')
      OBVIOUS
    <3>1. b.missed.ids = {} /\ b.missed.slugs = {}
      BY DEF Roles!Nothing
    <3>2. q.missed.ids = {} /\ q.missed.slugs = {} /\ x1' = x1
      BY <1>4, <1>6, <3>1
    <3>3. q.missed = Roles!Nothing
      BY <1>6, <3>2, RoleRequests DEF Roles!Missed, Roles!Nothing
    <3> QED
      BY <2>1, <2>2, <3>2, <3>3
  <2>6. q.pc = "perms" => \A id \in Roles!Ids : id \in b.missed.ids \/ b.old[id] = x2'[id]
    BY <1>4, <2>1, <2>2
  <2> QED
    BY <2>2, <2>3, <2>4, <2>5, <2>6 DEF SeedKnown
<1>7. q.pc \notin {"roles", "perms"} => SeedKnown(b, x1', x2')
  BY <1>3 DEF SeedKnown, Later
<1>8. (b.pc = "delete" => b.on \notin Managed) /\ (b.pc = "failed" => b.excused)
  BY <1>3 DEF Known, Later
<1> QED
  BY <1>5, <1>6, <1>7, <1>8 DEF Known

LEMMA RoleRows ==
  ASSUME Roles!RolesAssumption, NEW row \in Roles!Row
  PROVE  /\ row.slug \in Roles!RoleSlug \cup {Nil} /\ row.std \in BOOLEAN
         /\ row = Roles!NoRole <=> row.slug = Nil
         /\ row = Roles!NoRole <=> row.slug \notin Roles!RoleSlug
         /\ row = [slug |-> row.slug, std |-> row.std]
         /\ Nil \notin Roles!RoleSlug /\ Nil \notin Defaults /\ Defaults \subseteq Slugs
         /\ Slugs \subseteq Roles!RoleSlug
<1>1. Nil \notin Roles!RoleSlug /\ Nil \notin Defaults /\ Slugs \subseteq Roles!RoleSlug
  BY DEF Roles!RolesAssumption, Roles!RoleSlug, Roles!Blank
<1>2. CASE row = Roles!NoRole
  BY <1>1, <1>2 DEF Roles!NoRole, Roles!RolesAssumption
<1>3. CASE row \in [slug: Roles!RoleSlug, std: BOOLEAN]
  <2>1. row.slug \in Roles!RoleSlug /\ row.std \in BOOLEAN /\ row = [slug |-> row.slug, std |-> row.std]
    BY <1>3
  <2>2. row # Roles!NoRole
    <3>1. Roles!NoRole.slug = Nil
      BY DEF Roles!NoRole
    <3> QED
      BY <1>1, <2>1, <3>1
  <2> QED
    BY <1>1, <2>1, <2>2 DEF Roles!RolesAssumption
<1> QED
  BY <1>2, <1>3 DEF Roles!Row

----------------------------------------------------------------------------
(* Steps of the roles *)

\* A step that writes nothing.
LEMMA RolesStandBy ==
  ASSUME RolesInv, UNCHANGED <<x1, x2, x3, x6, x7>>, x5' \in 0..MaxRoleEdits,
         x4' \in [Actors -> Roles!Request], \A q \in Actors : Known(x4'[q], x1, x2)
  PROVE  RolesInv'
<1>1. RolesTyped'
  BY DEF RolesInv, RolesTyped, Roles!TypeOK
<1>2. Roles!ManagedKept' /\ Roles!SlugsTellApart' /\ DefaultsStand'
  BY DEF RolesInv, Roles!ManagedKept, Roles!SlugsTellApart, DefaultsStand, Roles!There
<1> QED
  BY <1>1, <1>2 DEF RolesInv

LEMMA RolesEnter ==
  ASSUME RolesInv, NEW r \in Actors, NEW q \in Roles!Request, Known(q, x1, x2),
         Roles!Enter(r, q), MaxRoleEdits \in Nat
  PROVE  RolesInv'
<1>1. /\ UNCHANGED <<x1, x2, x3, x6, x7>> /\ x4' = [x4 EXCEPT ![r] = q]
      /\ x5 < MaxRoleEdits /\ x5' = x5 + 1
  BY DEF Roles!Enter
<1>2. x4 \in [Actors -> Roles!Request] /\ x5 \in 0..MaxRoleEdits
  BY DEF RolesInv, RolesTyped, Roles!TypeOK
<1>3. x4' \in [Actors -> Roles!Request] /\ x5' \in 0..MaxRoleEdits
  BY <1>1, <1>2
<1>4. \A p \in Actors : Known(x4'[p], x1, x2)
  BY <1>1, <1>2 DEF RolesInv
<1> QED
  BY <1>1, <1>3, <1>4, RolesStandBy

LEMMA RolesLeave ==
  ASSUME Roles!RolesAssumption, RolesInv, NEW r \in Actors, NEW q \in Roles!Request,
         Known(q, x1, x2), Roles!Leave(r, Roles!Nothing, q), UNCHANGED <<x1, x2, x3, x6, x7>>
  PROVE  RolesInv'
<1>1. Roles!Nothing = Roles!Touch({}, {})
  BY DEF Roles!Nothing, Roles!Touch
<1>2. Roles!TypeOK /\ x4 \in [Actors -> Roles!Request] /\ x5 \in 0..MaxRoleEdits
  BY DEF RolesInv, RolesTyped, Roles!TypeOK
<1>3. /\ x4' \in [Actors -> Roles!Request] /\ x4'[r] = q /\ x5' = x5
      /\ \A p \in Actors \ {r} : Later(x4[p], x4'[p], [ids |-> {}, slugs |-> {}])
  BY <1>1, <1>2, Leaves
<1>4. ASSUME NEW p \in Actors PROVE Known(x4'[p], x1, x2)
  <2>1. CASE p = r
    BY <1>3, <2>1
  <2>2. CASE p # r
    <3>1. Known(x4[p], x1, x2) /\ x4[p] \in Roles!Request /\ x4'[p] \in Roles!Request
      BY <1>2, <1>3 DEF RolesInv
    <3>2. Known(x4'[p], x1', x2')
      BY <1>2, <1>3, <2>2, <3>1, KnownStill
    <3> QED
      BY <3>2
  <2> QED
    BY <2>1, <2>2
<1> QED
  BY <1>2, <1>3, <1>4, RolesStandBy

\* A request that is done.
LEMMA IdleKnown == Roles!Idle \in Roles!Request /\ \A roles, grants : Known(Roles!Idle, roles, grants)
<1>1. Roles!Idle \in Roles!Request /\ Roles!Idle.pc = "idle"
  BY DEF Roles!Idle, Roles!Request
<1> QED
  BY <1>1 DEF Known, SlugKnown, SeedKnown

\* A step that writes, and says what.
LEMMA RolesWrite ==
  ASSUME Roles!RolesAssumption, RolesInv, NEW r \in Actors, NEW ids \in SUBSET Roles!Ids,
         NEW slugs \in SUBSET Roles!RoleSlug,
         Roles!Leave(r, Roles!Touch(ids, slugs), Roles!Idle),
         x1' \in [Roles!Ids -> Roles!Row], x2' \in Roles!Grants, x3' \in 1..MaxRoles + 1,
         x7' \in BOOLEAN, \A id \in Roles!Ids : id >= x3' => x1'[id] = Roles!NoRole,
         \A id \in Roles!Ids \ ids : x1'[id].slug = x1[id].slug /\ x2'[id] = x2[id],
         \A o \in Roles!Ids : x1'[o].slug = x1[o].slug \/ x1'[o].slug \in slugs \cup {Nil},
         x1' = x1 \/ ids # {} \/ slugs # {},
         Roles!ManagedKept', Roles!SlugsTellApart', DefaultsStand'
  PROVE  RolesInv'
<1>1. Roles!TypeOK /\ x4 \in [Actors -> Roles!Request] /\ x5 \in 0..MaxRoleEdits
  BY DEF RolesInv, RolesTyped, Roles!TypeOK
<1>2. /\ x4' \in [Actors -> Roles!Request] /\ x4'[r] = Roles!Idle /\ x5' = x5
      /\ \A p \in Actors \ {r} : Later(x4[p], x4'[p], [ids |-> ids, slugs |-> slugs])
  BY <1>1, IdleKnown, Leaves
<1>3. RolesTyped'
  BY <1>1, <1>2 DEF RolesTyped, Roles!TypeOK
<1>4. ASSUME NEW p \in Actors PROVE Known(x4'[p], x1', x2')
  <2>1. CASE p = r
    BY <1>2, <2>1, IdleKnown
  <2>2. CASE p # r
    <3>1. Known(x4[p], x1, x2) /\ x4[p] \in Roles!Request /\ x4'[p] \in Roles!Request
      BY <1>1, <1>2 DEF RolesInv
    <3> QED
      BY <1>1, <1>2, <2>2, <3>1, KnownStill
  <2> QED
    BY <2>1, <2>2
<1> QED
  BY <1>3, <1>4 DEF RolesInv

\* The checks of requests to create, change or remove a role or a permission.
LEMMA RolesChecks ==
  ASSUME Roles!RolesAssumption, RolesInv, NEW r \in Actors,
         \/ Roles!CreateRole(r) \/ Roles!UpdateRole(r) \/ Roles!RemoveRole(r)
         \/ Roles!CreatePermission(r) \/ Roles!UpdatePermission(r) \/ Roles!RemovePermission(r)
  PROVE  RolesInv'
<1>0. /\ MaxRoleEdits \in Nat /\ Roles!Nothing \in Roles!Missed
      /\ 0 \notin Roles!Ids /\ Managed \subseteq Resources
  <2>1. Roles!Nothing \in Roles!Missed
    BY DEF Roles!Nothing, Roles!Missed
  <2>2. 0 \notin Roles!Ids
    <3>1. MaxRoles \in Nat
      BY DEF Roles!RolesAssumption
    <3> QED
      BY <3>1 DEF Roles!Ids
  <2> QED
    BY <2>1, <2>2 DEF Roles!RolesAssumption
<1>1. CASE Roles!CreateRole(r)
  <2>1. PICK slug \in Roles!RoleSlug :
          /\ ~Roles!Conflict(slug, 0)
          /\ Roles!Enter(r, [pc |-> "create", slug |-> slug, missed |-> Roles!Nothing])
    BY <1>1 DEF Roles!CreateRole
  <2>2. PICK q : q = [pc |-> "create", slug |-> slug, missed |-> Roles!Nothing]
    OBVIOUS
  <2>3. q \in Roles!Request /\ q.pc = "create" /\ q.slug = slug
    BY <1>0, <2>2 DEF Roles!Request
  <2>4. \A o \in Roles!Ids : x1[o].slug # slug
    BY <1>0, <2>1 DEF Roles!Conflict
  <2>5. Known(q, x1, x2)
    BY <2>3, <2>4 DEF Known, SlugKnown, SeedKnown
  <2> QED
    BY <1>0, <2>1, <2>2, <2>3, <2>5, RolesEnter
<1>2. CASE Roles!UpdateRole(r)
  <2>1. PICK id \in Roles!Ids, slug \in Roles!RoleSlug \cup {Nil} :
          /\ slug \in Slugs => ~Roles!Conflict(slug, id)
          /\ Roles!Enter(r, [pc |-> "update", id |-> id, slug |-> slug, missed |-> Roles!Nothing])
    BY <1>2 DEF Roles!UpdateRole
  <2>2. PICK q : q = [pc |-> "update", id |-> id, slug |-> slug, missed |-> Roles!Nothing]
    OBVIOUS
  <2>3. q \in Roles!Request /\ q.pc = "update" /\ q.slug = slug /\ q.id = id
    BY <1>0, <2>2 DEF Roles!Request
  <2>4. Known(q, x1, x2)
    BY <2>1, <2>3 DEF Known, SlugKnown, SeedKnown, Roles!Conflict
  <2> QED
    BY <1>0, <2>1, <2>2, <2>3, <2>4, RolesEnter
<1>3. CASE Roles!RemoveRole(r)
  <2>1. PICK id \in Roles!Ids :
          Roles!Enter(r, [pc |-> "remove", id |-> id, missed |-> Roles!Nothing])
    BY <1>3 DEF Roles!RemoveRole
  <2>2. PICK q : q = [pc |-> "remove", id |-> id, missed |-> Roles!Nothing]
    OBVIOUS
  <2>3. q \in Roles!Request /\ q.pc = "remove"
    BY <1>0, <2>2 DEF Roles!Request
  <2>4. Known(q, x1, x2)
    BY <2>3 DEF Known, SlugKnown, SeedKnown
  <2> QED
    BY <1>0, <2>1, <2>2, <2>3, <2>4, RolesEnter
<1>4. ASSUME Roles!CreatePermission(r) \/ Roles!UpdatePermission(r) \/ Roles!RemovePermission(r)
      PROVE  RolesInv'
  <2>1. PICK pc \in {"insert", "change", "delete"}, id \in Roles!Ids, x \in Resources :
          /\ pc = "delete" => x \notin Managed
          /\ Roles!Enter(r, [pc |-> pc, id |-> id, on |-> x, missed |-> Roles!Nothing])
    <3>1. CASE Roles!CreatePermission(r)
      BY <3>1 DEF Roles!CreatePermission
    <3>2. CASE Roles!UpdatePermission(r)
      BY <3>2 DEF Roles!UpdatePermission
    <3>3. CASE Roles!RemovePermission(r)
      BY <3>3 DEF Roles!RemovePermission
    <3> QED
      BY <1>4, <3>1, <3>2, <3>3
  <2>2. PICK q : q = [pc |-> pc, id |-> id, on |-> x, missed |-> Roles!Nothing]
    OBVIOUS
  <2>3. q \in Roles!Request /\ q.pc = pc /\ q.on = x
    BY <1>0, <2>2 DEF Roles!Request
  <2>4. Known(q, x1, x2)
    BY <2>1, <2>3 DEF Known, SlugKnown, SeedKnown
  <2> QED
    BY <1>0, <2>1, <2>2, <2>3, <2>4, RolesEnter
<1> QED
  BY <1>1, <1>2, <1>3, <1>4

LEMMA RoleVarsTyped == ASSUME Roles!RolesAssumption, RolesInv PROVE RoleVars
  BY DEF RoleVars, RolesInv, RolesTyped, Roles!TypeOK, Roles!RolesAssumption

\* A role made or renamed to a slug that another has: the other got it since the check.
LEMMA StillApart ==
  ASSUME Roles!RolesAssumption, RolesInv, NEW r \in Actors, NEW id \in Roles!Ids, NEW slug,
         slug \in Slugs => \/ slug = x1[id].slug
                           \/ \A o \in Roles!Ids \ {id} : x1[o].slug = slug => slug \in x4[r].missed.slugs,
         NEW std, x1' = [x1 EXCEPT ![id] = [slug |-> slug, std |-> std]],
         x6' = x6 \cup Roles!Twice(r, id, slug)
  PROVE  Roles!SlugsTellApart'
<1>1. x1 \in [Roles!Ids -> Roles!Row]
  BY RoleVarsTyped DEF RoleVars
<1>2. x1'[id].slug = slug /\ \A o \in Roles!Ids \ {id} : x1'[o] = x1[o]
  BY <1>1
<1>3. \A i, j \in Roles!Ids :
        i # j /\ x1[i].slug \in Slugs /\ x1[i].slug = x1[j].slug => x1[i].slug \in x6
  BY DEF RolesInv, Roles!SlugsTellApart
<1>4. ASSUME NEW o \in Roles!Ids \ {id}, slug \in Slugs, x1[o].slug = slug PROVE slug \in x6'
  <2>1. CASE slug = x1[id].slug
    BY <1>3, <1>4, <2>1
  <2>2. CASE slug \in x4[r].missed.slugs
    <3>1. Roles!Twice(r, id, slug) = {slug}
      BY <1>4, <2>2 DEF Roles!Twice, Roles!Conflict
    <3> QED
      BY <3>1
  <2> QED
    BY <1>4, <2>1, <2>2
<1>5. ASSUME NEW i \in Roles!Ids, NEW j \in Roles!Ids, i # j, x1'[i].slug \in Slugs,
             x1'[i].slug = x1'[j].slug
      PROVE  x1'[i].slug \in x6'
  <2>1. CASE i = id
    BY <1>2, <1>4, <1>5, <2>1
  <2>2. CASE j = id
    BY <1>2, <1>4, <1>5, <2>2
  <2>3. CASE i # id /\ j # id
    BY <1>2, <1>3, <1>5, <2>3
  <2> QED
    BY <2>1, <2>2, <2>3
<1> QED
  BY <1>5 DEF Roles!SlugsTellApart

LEMMA InsertRoleKeeps ==
  ASSUME Roles!RolesAssumption, RolesInv, NEW r \in Actors, Roles!InsertRole(r) PROVE RolesInv'
<1>0. RoleVars
  BY RoleVarsTyped
<1>1. PICK id, slug : id = x3 /\ slug = x4[r].slug
  OBVIOUS
<1>2. id \in Roles!Ids /\ slug \in Roles!RoleSlug
  <2>1. id \in 1..MaxRoles
    BY <1>0, <1>1 DEF RoleVars, Roles!InsertRole
  <2> QED
    BY <1>0, <1>1, <2>1, RoleRequests DEF RoleVars, Roles!InsertRole, Roles!Ids
<1>3. PICK some \in SUBSET (Resources \ Managed) :
        x2' = [x2 EXCEPT ![id] =
                 [x \in Resources |-> IF x \in some \cup Managed THEN Roles!Level(x) ELSE "none"]]
  BY <1>1 DEF Roles!InsertRole
<1>4. /\ x1' = [x1 EXCEPT ![id] = [slug |-> slug, std |-> FALSE]]
      /\ x3' = id + 1 /\ x6' = x6 \cup Roles!Twice(r, id, slug) /\ x7' = FALSE
      /\ Roles!Leave(r, Roles!Touch({id}, {slug}), Roles!Idle)
  BY <1>1 DEF Roles!InsertRole
<1>5. [slug |-> slug, std |-> FALSE] \in Roles!Row
  BY <1>2 DEF Roles!Row
<1>6. x1' \in [Roles!Ids -> Roles!Row]
  BY <1>0, <1>4, <1>5 DEF RoleVars
<1>7. [x \in Resources |-> IF x \in some \cup Managed THEN Roles!Level(x) ELSE "none"]
        \in [Resources -> Roles!Levels]
  BY DEF Roles!Level, Roles!Levels
<1>8. x2' \in Roles!Grants
  BY <1>0, <1>3, <1>7 DEF RoleVars, Roles!Grants
<1>9. x3' \in 1..MaxRoles + 1
  BY <1>0, <1>2, <1>4 DEF RoleVars, Roles!Ids
<1>10. \A o \in Roles!Ids : o >= x3' => x1'[o] = Roles!NoRole
  <2>1. \A o \in Roles!Ids : o >= id => x1[o] = Roles!NoRole
    BY <1>1 DEF RolesInv, RolesTyped
  <2> QED
    BY <1>0, <1>2, <1>4, <2>1 DEF RoleVars, Roles!Ids
<1>11. Roles!ManagedKept'
  <2> SUFFICES ASSUME NEW o \in Roles!Ids, NEW x \in Managed, x1'[o] # Roles!NoRole
               PROVE  x2'[o][x] = "managed"
    BY DEF Roles!ManagedKept, Roles!There
  <2>1. CASE o = id
    <3>1. x2'[o] = [y \in Resources |-> IF y \in some \cup Managed THEN Roles!Level(y) ELSE "none"]
      BY <1>0, <1>3, <2>1 DEF RoleVars, Roles!Grants
    <3> QED
      BY <1>0, <3>1 DEF RoleVars, Roles!Level
  <2>2. CASE o # id
    BY <1>0, <1>3, <1>4, <2>2 DEF RoleVars, Roles!Grants, RolesInv, Roles!ManagedKept, Roles!There
  <2> QED
    BY <2>1, <2>2
<1>12. Roles!SlugsTellApart'
  <2>1. \A o \in Roles!Ids \ {id} : x1[o].slug = slug => slug \in x4[r].missed.slugs
    BY <1>1 DEF RolesInv, Known, SlugKnown, Roles!InsertRole
  <2> QED
    BY <1>2, <1>4, <2>1, StillApart
<1>13. /\ \A o \in Roles!Ids \ {id} : x1'[o].slug = x1[o].slug /\ x2'[o] = x2[o]
       /\ \A o \in Roles!Ids : x1'[o].slug = x1[o].slug \/ x1'[o].slug \in {slug} \cup {Nil}
  BY <1>0, <1>3, <1>4 DEF RoleVars, Roles!Grants
<1>14. {id} \in SUBSET Roles!Ids /\ {slug} \in SUBSET Roles!RoleSlug /\ {id} # {}
  BY <1>2
<1>15. DefaultsStand' /\ x7' \in BOOLEAN
  BY <1>4 DEF DefaultsStand
<1> QED
  BY <1>4, <1>6, <1>8, <1>9, <1>10, <1>11, <1>12, <1>13, <1>14, <1>15, RolesWrite

LEMMA SetRoleKeeps ==
  ASSUME Roles!RolesAssumption, RolesInv, NEW r \in Actors, Roles!SetRole(r) PROVE RolesInv'
<1>0. RoleVars
  BY RoleVarsTyped
<1>1. PICK id, slug : id = x4[r].id /\ slug = IF x4[r].slug = Nil THEN x1[id].slug ELSE x4[r].slug
  <2> PICK id : id = x4[r].id
    OBVIOUS
  <2> QED
    OBVIOUS
<1>2. id \in Roles!Ids /\ x4[r].slug \in Roles!RoleSlug \cup {Nil}
  BY <1>0, <1>1, RoleRequests DEF RoleVars, Roles!SetRole
<1>3. CASE x1[id] = Roles!NoRole
  <2>1. Roles!Leave(r, Roles!Nothing, Roles!Idle) /\ UNCHANGED <<x1, x2, x3, x6, x7>>
    BY <1>1, <1>3 DEF Roles!SetRole, Roles!There
  <2> QED
    BY <2>1, RolesLeave, IdleKnown
<1>4. CASE x1[id] # Roles!NoRole
  <2>1. PICK std \in {FALSE, x1[id].std /\ x1[id].slug = slug} :
          x1' = [x1 EXCEPT ![id] = [slug |-> slug, std |-> std]]
    BY <1>1, <1>4 DEF Roles!SetRole, Roles!There
  <2>2. /\ x6' = x6 \cup Roles!Twice(r, id, slug) /\ x7' = FALSE /\ UNCHANGED <<x2, x3>>
        /\ Roles!Leave(r, Roles!Touch({id}, {x1[id].slug, slug}), Roles!Idle)
    BY <1>1, <1>4 DEF Roles!SetRole, Roles!There
  <2>3. /\ x1[id].slug \in Roles!RoleSlug /\ slug \in Roles!RoleSlug /\ std \in BOOLEAN
    BY <1>0, <1>1, <1>2, <1>4, RoleRows DEF RoleVars
  <2>4. x1' \in [Roles!Ids -> Roles!Row]
    <3>1. [slug |-> slug, std |-> std] \in Roles!Row
      BY <2>3 DEF Roles!Row
    <3> QED
      BY <1>0, <2>1, <3>1 DEF RoleVars
  <2>5. \A o \in Roles!Ids : o >= x3' => x1'[o] = Roles!NoRole
    BY <1>0, <1>4, <2>1, <2>2 DEF RoleVars, RolesInv, RolesTyped
  <2>6. Roles!ManagedKept'
    BY <1>0, <1>4, <2>1, <2>2 DEF RoleVars, RolesInv, Roles!ManagedKept, Roles!There
  <2>7. Roles!SlugsTellApart'
    <3>1. slug \in Slugs => \/ slug = x1[id].slug
                            \/ \A o \in Roles!Ids \ {id} : x1[o].slug = slug => slug \in x4[r].missed.slugs
      BY <1>1 DEF RolesInv, Known, SlugKnown, Roles!SetRole
    <3> QED
      BY <1>2, <2>1, <2>2, <3>1, StillApart
  <2>8. /\ \A o \in Roles!Ids \ {id} : x1'[o].slug = x1[o].slug /\ x2'[o] = x2[o]
        /\ \A o \in Roles!Ids :
             x1'[o].slug = x1[o].slug \/ x1'[o].slug \in {x1[id].slug, slug} \cup {Nil}
    BY <1>0, <2>1, <2>2 DEF RoleVars
  <2>9. DefaultsStand' /\ x7' \in BOOLEAN
    BY <2>2 DEF DefaultsStand
  <2>10. /\ {id} \in SUBSET Roles!Ids /\ {id} # {}
         /\ {x1[id].slug, slug} \in SUBSET Roles!RoleSlug
         /\ x2' \in Roles!Grants /\ x3' \in 1..MaxRoles + 1
    BY <1>0, <1>2, <2>2, <2>3 DEF RoleVars
  <2> QED
    BY <2>2, <2>4, <2>5, <2>6, <2>7, <2>8, <2>9, <2>10, RolesWrite
<1> QED
  BY <1>3, <1>4

LEMMA DeleteRoleKeeps ==
  ASSUME Roles!RolesAssumption, RolesInv, NEW r \in Actors, Roles!DeleteRole(r) PROVE RolesInv'
<1>0. RoleVars
  BY RoleVarsTyped
<1>1. PICK id : id = x4[r].id
  OBVIOUS
<1>2. id \in Roles!Ids
  BY <1>0, <1>1, RoleRequests DEF RoleVars, Roles!DeleteRole
<1>3. PICK slugs : slugs = Roles!Slug(id)
  OBVIOUS
<1>4. /\ x1' = [x1 EXCEPT ![id] = Roles!NoRole] /\ x2' = [x2 EXCEPT ![id] = Roles!NoPerms]
      /\ x7' = FALSE /\ UNCHANGED <<x3, x6>>
      /\ Roles!Leave(r, Roles!Touch({id}, slugs), Roles!Idle)
  BY <1>1, <1>3 DEF Roles!DeleteRole
<1>5. slugs \in SUBSET Roles!RoleSlug
  BY <1>0, <1>2, <1>3, RoleRows DEF RoleVars, Roles!Slug, Roles!There
<1>6. Roles!NoRole \in Roles!Row /\ Roles!NoRole.slug = Nil /\ Nil \notin Slugs
  BY DEF Roles!Row, Roles!NoRole, Roles!RolesAssumption
<1>7. x1' \in [Roles!Ids -> Roles!Row]
  BY <1>0, <1>4, <1>6 DEF RoleVars
<1>8. x2' \in Roles!Grants
  <2>1. Roles!NoPerms \in [Resources -> Roles!Levels]
    BY DEF Roles!NoPerms, Roles!Levels
  <2> QED
    BY <1>0, <1>4, <2>1 DEF RoleVars, Roles!Grants
<1>9. \A o \in Roles!Ids : o >= x3' => x1'[o] = Roles!NoRole
  BY <1>0, <1>4 DEF RoleVars, RolesInv, RolesTyped
<1>10. /\ x1'[id] = Roles!NoRole
       /\ \A o \in Roles!Ids \ {id} : x1'[o] = x1[o] /\ x2'[o] = x2[o]
  BY <1>0, <1>2, <1>4 DEF RoleVars, Roles!Grants
<1>11. Roles!ManagedKept'
  BY <1>10 DEF RolesInv, Roles!ManagedKept, Roles!There
<1>12. Roles!SlugsTellApart'
  BY <1>4, <1>6, <1>10 DEF RolesInv, Roles!SlugsTellApart
<1>13. /\ \A o \in Roles!Ids \ {id} : x1'[o].slug = x1[o].slug /\ x2'[o] = x2[o]
       /\ \A o \in Roles!Ids : x1'[o].slug = x1[o].slug \/ x1'[o].slug \in slugs \cup {Nil}
  BY <1>6, <1>10
<1>14. DefaultsStand' /\ x7' \in BOOLEAN
  BY <1>4 DEF DefaultsStand
<1>15. {id} \in SUBSET Roles!Ids /\ {id} # {} /\ x3' \in 1..MaxRoles + 1
  BY <1>0, <1>2, <1>4 DEF RoleVars
<1> QED
  BY <1>4, <1>5, <1>7, <1>8, <1>9, <1>11, <1>12, <1>13, <1>14, <1>15, RolesWrite

LEMMA WritePermissionKeeps ==
  ASSUME Roles!RolesAssumption, RolesInv, NEW r \in Actors, Roles!WritePermission(r) PROVE RolesInv'
<1>0. RoleVars
  BY RoleVarsTyped
<1>1. PICK id, x, value :
        /\ id = x4[r].id /\ x = x4[r].on
        /\ value = IF x4[r].pc = "delete" THEN "none" ELSE Roles!Level(x)
  OBVIOUS
<1>2. id \in Roles!Ids /\ x \in Resources /\ x4[r].pc \in {"insert", "change", "delete"}
  BY <1>0, <1>1, RoleRequests DEF RoleVars, Roles!WritePermission
<1>3. UNCHANGED <<x1, x3, x6>>
  BY DEF Roles!WritePermission
<1>4. \/ UNCHANGED <<x2, x7>> /\ Roles!Leave(r, Roles!Nothing, Roles!Idle)
      \/ /\ x2' = [x2 EXCEPT ![id][x] = value] /\ x7' = FALSE
         /\ Roles!Leave(r, Roles!Touch({id}, {}), Roles!Idle)
  BY <1>1 DEF Roles!WritePermission
<1>5. CASE UNCHANGED <<x2, x7>> /\ Roles!Leave(r, Roles!Nothing, Roles!Idle)
  BY <1>3, <1>5, RolesLeave, IdleKnown
<1>6. CASE /\ x2' = [x2 EXCEPT ![id][x] = value] /\ x7' = FALSE
           /\ Roles!Leave(r, Roles!Touch({id}, {}), Roles!Idle)
  <2>1. value \in Roles!Levels /\ (x \in Managed => value = "managed")
    <3>1. x4[r].pc = "delete" => x \notin Managed
      BY <1>1 DEF RolesInv, Known
    <3> QED
      BY <1>1, <3>1 DEF Roles!Level, Roles!Levels
  <2>2. /\ \A o \in Roles!Ids \ {id} : x2'[o] = x2[o]
        /\ \A y \in Resources \ {x} : x2'[id][y] = x2[id][y]
        /\ x2'[id][x] = value /\ x2' \in Roles!Grants
    BY <1>0, <1>2, <1>6, <2>1 DEF RoleVars, Roles!Grants
  <2>3. Roles!ManagedKept'
    <3> SUFFICES ASSUME NEW o \in Roles!Ids, NEW y \in Managed, x1[o] # Roles!NoRole
                 PROVE  x2'[o][y] = "managed"
      BY <1>3 DEF Roles!ManagedKept, Roles!There
    <3>1. x2[o][y] = "managed" /\ y \in Resources
      BY <1>0 DEF RoleVars, RolesInv, Roles!ManagedKept, Roles!There
    <3> QED
      BY <2>1, <2>2, <3>1
  <2>4. Roles!SlugsTellApart' /\ DefaultsStand' /\ x7' \in BOOLEAN
    BY <1>3, <1>6 DEF RolesInv, Roles!SlugsTellApart, DefaultsStand
  <2>5. /\ {id} \in SUBSET Roles!Ids /\ {id} # {} /\ x3' \in 1..MaxRoles + 1
        /\ {} \in SUBSET Roles!RoleSlug /\ x1' \in [Roles!Ids -> Roles!Row]
        /\ \A o \in Roles!Ids : o >= x3' => x1'[o] = Roles!NoRole
    BY <1>0, <1>2, <1>3 DEF RoleVars, RolesInv, RolesTyped
  <2> QED
    BY <1>3, <1>6, <2>2, <2>3, <2>4, <2>5, RolesWrite
<1> QED
  BY <1>4, <1>5, <1>6

----------------------------------------------------------------------------
(* Steps of a seeding *)

LEMMA SeedReads ==
  ASSUME Roles!RolesAssumption, RolesInv, NEW r \in Actors,
         Roles!SeedRoles(r) \/ Roles!SeedPermissions(r)
  PROVE  RolesInv'
<1>0. RoleVars /\ MaxRoleEdits \in Nat /\ Nil \notin Defaults
  BY RoleVarsTyped DEF Roles!RolesAssumption
<1>1. CASE Roles!SeedRoles(r)
  <2> DEFINE found == [id \in Roles!Ids |-> IF x1[id].slug \in Defaults THEN x1[id].slug ELSE Nil]
  <2>1. found = [id \in Roles!Ids |-> IF x1[id].slug \in Defaults THEN x1[id].slug ELSE Nil]
    OBVIOUS
  <2>2. PICK fix \in SUBSET Defaults :
          /\ \A s \in fix : \E id \in {id \in Roles!Ids : found[id] = s} : ~x1[id].std
          /\ \A s \in Defaults \ fix :
               {id \in Roles!Ids : found[id] = s} # {} =>
                 \E id \in {id \in Roles!Ids : found[id] = s} : x1[id].std
          /\ Roles!Enter(r, [pc |-> "roles", found |-> found, fix |-> fix, missed |-> Roles!Nothing])
    BY <1>1 DEF Roles!SeedRoles
  <2> HIDE DEF found
  <2>3. PICK q : q = [pc |-> "roles", found |-> found, fix |-> fix, missed |-> Roles!Nothing]
    OBVIOUS
  <2>4. found \in Roles!Rows
    BY <2>1 DEF Roles!Rows
  <2>5. Roles!Nothing \in Roles!Missed
    BY DEF Roles!Nothing, Roles!Missed
  <2>6. q \in Roles!Request /\ q.pc = "roles" /\ q.found = found /\ q.fix = fix
    BY <2>3, <2>4, <2>5 DEF Roles!Request
  <2>7. \A id \in Roles!Ids : found[id] = DefaultSlug(x1[id])
    BY <2>1 DEF DefaultSlug
  <2>8. \A s \in Defaults, id \in Roles!Ids : found[id] = s <=> x1[id].slug = s
    BY <1>0, <2>1
  <2>9. FixRight(fix, x1)
    BY <2>2, <2>8 DEF FixRight
  <2>10. Known(q, x1, x2)
    BY <2>6, <2>7, <2>8, <2>9 DEF Known, SlugKnown, SeedKnown
  <2> QED
    BY <1>0, <2>2, <2>3, <2>6, <2>10, RolesEnter
<1>2. CASE Roles!SeedPermissions(r)
  <2>1. PICK p : p = x4[r]
    OBVIOUS
  <2>2. /\ p \in Roles!Request /\ p.pc = "roles" /\ Known(p, x1, x2)
        /\ p.found \in Roles!Rows /\ p.fix \in SUBSET Defaults /\ p.missed \in Roles!Missed
    BY <1>0, <1>2, <2>1, RoleRequests DEF RoleVars, RolesInv, Roles!SeedPermissions
  <2>3. PICK q : q = [pc |-> "perms", found |-> p.found, fix |-> p.fix, missed |-> p.missed, old |-> x2]
    OBVIOUS
  <2>4. /\ q \in Roles!Request /\ q.pc = "perms" /\ q.found = p.found /\ q.fix = p.fix
        /\ q.missed = p.missed /\ q.old = x2
    BY <1>0, <2>2, <2>3 DEF RoleVars, Roles!Request
  <2>5. x4' = [x4 EXCEPT ![r] = q] /\ UNCHANGED <<x1, x2, x3, x5, x6, x7>>
    BY <1>2, <2>1, <2>3 DEF Roles!SeedPermissions
  <2>6. Known(q, x1, x2)
    BY <2>2, <2>4 DEF Known, SlugKnown, SeedKnown
  <2>7. x4' \in [Actors -> Roles!Request] /\ \A a \in Actors : Known(x4'[a], x1, x2)
    BY <1>0, <2>4, <2>5, <2>6 DEF RoleVars, RolesInv
  <2>8. x5' \in 0..MaxRoleEdits
    BY <2>5 DEF RolesInv, RolesTyped, Roles!TypeOK
  <2> QED
    BY <2>5, <2>7, <2>8, RolesStandBy
<1> QED
  BY <1>1, <1>2

LEMMA SeedAnswers ==
  ASSUME Roles!RolesAssumption, RolesInv, NEW r \in Actors,
         Roles!SeedFails(r) \/ Roles!Answered(r)
  PROVE  RolesInv'
<1>0. RoleVars /\ Nil \notin Defaults /\ Nil \notin Roles!RoleSlug
  BY RoleVarsTyped DEF Roles!RolesAssumption, Roles!RoleSlug, Roles!Blank
<1>1. CASE Roles!SeedFails(r)
  <2>1. PICK p : p = x4[r]
    OBVIOUS
  <2>2. p.pc = "perms" /\ Known(p, x1, x2)
    BY <1>1, <2>1 DEF RolesInv, Roles!SeedFails
  <2>3. PICK id, x :
          /\ id \in Roles!Ids /\ p.found[id] # Nil /\ p.old[id][x] = "none"
          /\ x1[id] = Roles!NoRole \/ x2[id][x] # "none"
    BY <1>1, <2>1 DEF Roles!SeedFails, Roles!InsertsFail, Roles!Found, Roles!Lacks, Roles!There
  <2>4. id \in p.missed.ids
    <3> SUFFICES ASSUME id \notin p.missed.ids PROVE FALSE
      OBVIOUS
    <3>1. p.found[id] = DefaultSlug(x1[id]) /\ p.old[id] = x2[id]
      BY <2>2, <2>3 DEF Known, SeedKnown
    <3>2. x1[id].slug \in Defaults
      BY <2>3, <3>1 DEF DefaultSlug
    <3>3. Roles!NoRole.slug = Nil
      BY DEF Roles!NoRole
    <3> QED
      BY <1>0, <2>3, <3>1, <3>2, <3>3
  <2>5. PICK q : q = [pc |-> "failed", excused |-> p.missed.ids \cap Roles!Found(r) # {}]
    OBVIOUS
  <2>6. q \in Roles!Request /\ q.pc = "failed" /\ q.excused
    <3>1. id \in Roles!Found(r)
      BY <2>1, <2>3 DEF Roles!Found
    <3>2. p.missed.ids \cap Roles!Found(r) # {}
      BY <2>4, <3>1
    <3>3. q = [pc |-> "failed", excused |-> TRUE]
      BY <2>5, <3>2
    <3> QED
      BY <3>3 DEF Roles!Request
  <2>7. Known(q, x1, x2)
    BY <2>6 DEF Known, SlugKnown, SeedKnown
  <2>8. Roles!Leave(r, Roles!Nothing, q) /\ UNCHANGED <<x1, x2, x3, x6, x7>>
    BY <1>1, <2>1, <2>5 DEF Roles!SeedFails
  <2> QED
    BY <2>6, <2>7, <2>8, RolesLeave
<1>2. CASE Roles!Answered(r)
  BY <1>2, RolesLeave, IdleKnown DEF Roles!Answered
<1> QED
  BY <1>1, <1>2

\* The operators of FiniteSets, as Roles sees them.
LEMMA RolesFinite ==
  ASSUME NEW S
  PROVE  Roles!Cardinality(S) = Cardinality(S) /\ (Roles!IsFiniteSet(S) <=> IsFiniteSet(S))
<1>1. Roles!Cardinality(S) = Cardinality(S)
  BY DEF Roles!Cardinality, Cardinality
<1>2. Roles!IsFiniteSet(S) <=> IsFiniteSet(S)
  BY DEF Roles!IsFiniteSet, IsFiniteSet
<1> QED
  BY <1>1, <1>2

LEMMA WantedLevels ==
  ASSUME Roles!RolesAssumption, NEW s \in Defaults
  PROVE  /\ Roles!Wanted(s) \in [Resources -> Roles!Levels]
         /\ \A x \in Managed : Roles!Wanted(s)[x] = "managed"
         /\ \A x \in Resources : x \notin Preset[s] => Roles!Wanted(s)[x] = "none"
  BY DEF Roles!Wanted, Roles!Levels, Roles!RolesAssumption

\* As many ids are given out as there are new slugs, so no two slugs share one.
LEMMA SeedPlacesDiffer ==
  ASSUME NEW N, NEW T, NEW place \in [N -> T], IsFiniteSet(N), NEW fresh,
         fresh = {place[s] : s \in N}, Cardinality(fresh) = Cardinality(N)
  PROVE  \A s, t \in N : place[s] = place[t] => s = t
<1>1. place \in Surjection(N, fresh)
  BY DEF Surjection
<1>2. place \in Injection(N, fresh)
  BY <1>1, FS_Surjection
<1> QED
  BY <1>2 DEF Injection, IsInjective

LEMMA SeedCommitKeeps ==
  ASSUME Roles!RolesAssumption, RolesInv, NEW r \in Actors, Roles!SeedCommit(r) PROVE RolesInv'
<1>0. RoleVars /\ IsFiniteSet(Defaults)
  BY RoleVarsTyped, RolesFinite DEF Roles!RolesAssumption
<1> DEFINE q == x4[r]
           N == Roles!NewSlugs(r)
<1>1. q = x4[r] /\ N = Roles!NewSlugs(r)
  OBVIOUS
<1>2. /\ q.pc = "perms" /\ q.found \in Roles!Rows /\ q.fix \in SUBSET Defaults
      /\ q.missed \in Roles!Missed /\ q.old \in Roles!Grants
      /\ SeedKnown(q, x1, x2)
  BY <1>0, <1>1, RoleRequests DEF RoleVars, RolesInv, Known, Roles!SeedCommit
<1>3. /\ N \subseteq Defaults
      /\ \A s \in Defaults : s \in N <=> ~\E id \in Roles!Ids : q.found[id] = s
      /\ Roles!Found(r) = {id \in Roles!Ids : q.found[id] # Nil}
  <2>1. Nil \notin Defaults
    BY DEF Roles!RolesAssumption
  <2> QED
    BY <1>1, <2>1 DEF Roles!NewSlugs, Roles!Found
<1>P. PICK place \in [N -> Roles!Ids] :
        LET fresh == {place[s] : s \in N} IN
        /\ fresh = x3..x3 + Roles!Cardinality(N) - 1
        /\ x3' = x3 + Roles!Cardinality(fresh)
        /\ x1' = [id \in Roles!Ids |->
             IF id \in fresh THEN [slug |-> CHOOSE s \in N : place[s] = id, std |-> TRUE]
             ELSE IF x1[id].slug \in q.fix THEN [x1[id] EXCEPT !.std = TRUE] ELSE x1[id]]
        /\ x2' = [id \in Roles!Ids |->
             IF id \in fresh THEN Roles!Wanted(x1'[id].slug)
             ELSE IF id \in Roles!Found(r) /\ Roles!There(id) THEN Roles!Seeded(r, id) ELSE x2[id]]
        /\ x6' = x6 \cup UNION {Roles!Twice(r, place[s], s) : s \in N}
        /\ Roles!Leave(r, Roles!Touch(fresh \cup Roles!Found(r), N), Roles!Idle)
  BY DEF Roles!SeedCommit
<1> DEFINE fresh == {place[s] : s \in N}
<1>4. /\ fresh = {place[s] : s \in N}
      /\ fresh = x3..x3 + Roles!Cardinality(N) - 1
      /\ x3' = x3 + Roles!Cardinality(fresh)
      /\ x1' = [id \in Roles!Ids |->
           IF id \in fresh THEN [slug |-> CHOOSE s \in N : place[s] = id, std |-> TRUE]
           ELSE IF x1[id].slug \in q.fix THEN [x1[id] EXCEPT !.std = TRUE] ELSE x1[id]]
      /\ x2' = [id \in Roles!Ids |->
           IF id \in fresh THEN Roles!Wanted(x1'[id].slug)
           ELSE IF id \in Roles!Found(r) /\ Roles!There(id) THEN Roles!Seeded(r, id) ELSE x2[id]]
      /\ x6' = x6 \cup UNION {Roles!Twice(r, place[s], s) : s \in N}
      /\ Roles!Leave(r, Roles!Touch(fresh \cup Roles!Found(r), N), Roles!Idle)
  BY <1>P
<1>5. x7' = (q.missed = Roles!Nothing)
  BY DEF Roles!SeedCommit
<1> HIDE DEF q, N, fresh
\* The ids given out.
<1>6. /\ fresh \subseteq Roles!Ids /\ x3' \in 1..MaxRoles + 1
      /\ \A id \in fresh : id >= x3 /\ id < x3'
      /\ \A id \in Roles!Ids : id >= x3' => id >= x3 /\ id \notin fresh
      /\ \A s, t \in N : place[s] = place[t] => s = t
  <2>1. PICK n : n = Cardinality(N)
    OBVIOUS
  <2>2. n \in Nat
    BY <1>0, <1>3, <2>1, FS_Subset, FS_CardinalityType
  <2>3. fresh = x3..x3 + n - 1 /\ x3' = x3 + Cardinality(fresh)
    BY <1>4, <2>1, RolesFinite
  <2>4. x3 \in Nat /\ x3 + n - 1 \in Int /\ x3 \in Int
    BY <1>0, <2>2 DEF RoleVars
  <2>5. Cardinality(fresh) = n
    <3>1. Cardinality(x3..x3 + n - 1) = IF x3 > x3 + n - 1 THEN 0 ELSE (x3 + n - 1) - x3 + 1
      BY <2>4, FS_Interval
    <3> QED
      BY <2>2, <2>3, <2>4, <3>1
  <2>6. fresh \subseteq Roles!Ids
    BY <1>4
  <2>7. x3' \in 1..MaxRoles + 1
    <3>1. CASE n = 0
      BY <1>0, <2>3, <2>4, <2>5, <3>1 DEF RoleVars
    <3>2. CASE n # 0
      <4>1. x3 + n - 1 \in Roles!Ids
        BY <2>2, <2>3, <2>4, <2>6, <3>2
      <4> QED
        BY <1>0, <2>2, <2>3, <2>4, <2>5, <4>1 DEF RoleVars, Roles!Ids
    <3> QED
      BY <3>1, <3>2
  <2>8. \A s, t \in N : place[s] = place[t] => s = t
    <3>1. IsFiniteSet(N)
      BY <1>0, <1>3, FS_Subset
    <3> QED
      BY <1>4, <2>1, <2>5, <3>1, SeedPlacesDiffer
  <2> QED
    BY <2>2, <2>3, <2>4, <2>5, <2>6, <2>7, <2>8 DEF Roles!Ids
<1>7. \A id \in fresh : x1[id] = Roles!NoRole
  BY <1>6 DEF RolesInv, RolesTyped
\* The roles: a new one of each slug that was not found, the others as they should be.
<1>8. ASSUME NEW id \in fresh
      PROVE  /\ x1'[id].slug \in N /\ place[x1'[id].slug] = id /\ x1'[id].std = TRUE
             /\ x1'[id] \in Roles!Row /\ x1'[id] # Roles!NoRole
  <2>1. PICK s \in N : s = (CHOOSE t \in N : place[t] = id) /\ place[s] = id
    BY <1>4
  <2>2. x1'[id] = [slug |-> s, std |-> TRUE]
    BY <1>4, <1>6, <2>1
  <2>3. x1'[id].slug = s /\ x1'[id].std = TRUE
    BY <2>2
  <2>4. s \in Roles!RoleSlug
    BY <1>0, <1>3 DEF RoleVars, Roles!RoleSlug
  <2>5. x1'[id] \in Roles!Row
    BY <2>2, <2>4 DEF Roles!Row
  <2> QED
    BY <2>1, <2>3, <2>4, <2>5, RoleRows
<1>9. ASSUME NEW id \in Roles!Ids \ fresh
      PROVE  /\ x1'[id].slug = x1[id].slug
             /\ x1'[id].std = (x1[id].slug \in q.fix \/ x1[id].std)
             /\ x1'[id] \in Roles!Row /\ (x1'[id] = Roles!NoRole <=> x1[id] = Roles!NoRole)
             /\ x1[id].slug \notin q.fix => x1'[id] = x1[id]
  <2>1. x1[id] \in Roles!Row
    BY <1>0 DEF RoleVars
  <2>2. CASE x1[id].slug \in q.fix
    <3>1. x1'[id] = [x1[id] EXCEPT !.std = TRUE]
      BY <1>4, <2>2
    <3>2. x1'[id] = [slug |-> x1[id].slug, std |-> TRUE]
      BY <2>1, <3>1, RoleRows
    <3>3. x1'[id].slug = x1[id].slug /\ x1'[id].std = TRUE
      BY <3>2
    <3>4. x1[id].slug \in Roles!RoleSlug
      BY <1>0, <1>2, <2>2 DEF RoleVars, Roles!RoleSlug
    <3>5. x1'[id] \in Roles!Row
      BY <3>2, <3>4 DEF Roles!Row
    <3> QED
      BY <2>1, <2>2, <3>3, <3>4, <3>5, RoleRows
  <2>3. CASE x1[id].slug \notin q.fix
    <3>1. x1'[id] = x1[id]
      BY <1>4, <2>3
    <3> QED
      BY <2>1, <2>3, <3>1, RoleRows
  <2> QED
    BY <2>2, <2>3
<1>10. x1' \in [Roles!Ids -> Roles!Row]
  <2>1. x1' = [id \in Roles!Ids |-> x1'[id]]
    BY <1>4
  <2> QED
    BY <1>8, <1>9, <2>1
\* The permissions.
<1>11. ASSUME NEW id \in fresh PROVE x2'[id] = Roles!Wanted(x1'[id].slug)
  BY <1>4, <1>6
<1>12. ASSUME NEW id \in Roles!Ids \ fresh, q.found[id] # Nil, x1[id] # Roles!NoRole
       PROVE  /\ q.found[id] \in Defaults
              /\ x2'[id] = [x \in Resources |->
                   IF x \in Preset[q.found[id]] /\ q.old[id][x] = "none"
                   THEN Roles!Wanted(q.found[id])[x]
                   ELSE IF q.old[id][x] = "none" \/ x2[id][x] = "none" THEN x2[id][x]
                   ELSE Roles!Wanted(q.found[id])[x]]
  <2>1. id \in Roles!Found(r) /\ Roles!There(id)
    BY <1>3, <1>12 DEF Roles!There
  <2>2. x2'[id] = Roles!Seeded(r, id)
    BY <1>4, <2>1
  <2>3. q.found[id] \in Defaults
    BY <1>2, <1>12 DEF Roles!Rows
  <2> QED
    BY <1>1, <2>2, <2>3 DEF Roles!Seeded, Roles!Lacks
<1>13. ASSUME NEW id \in Roles!Ids \ fresh, q.found[id] = Nil \/ x1[id] = Roles!NoRole
       PROVE  x2'[id] = x2[id]
  BY <1>3, <1>4, <1>13 DEF Roles!There
<1>14. x2' \in Roles!Grants /\ Roles!ManagedKept'
  <2>1. \A id \in Roles!Ids : x2[id] \in [Resources -> Roles!Levels]
    BY <1>0 DEF RoleVars, Roles!Grants
  <2>2. ASSUME NEW id \in Roles!Ids
        PROVE  /\ x2'[id] \in [Resources -> Roles!Levels]
               /\ x1'[id] # Roles!NoRole => \A x \in Managed : x2'[id][x] = "managed"
    <3>1. CASE id \in fresh
      <4>1. x1'[id].slug \in Defaults /\ x2'[id] = Roles!Wanted(x1'[id].slug)
        BY <1>3, <1>8, <1>11, <3>1
      <4> QED
        BY <4>1, WantedLevels
    <3>2. CASE id \notin fresh /\ q.found[id] # Nil /\ x1[id] # Roles!NoRole
      <4>1. PICK w : w = Roles!Wanted(q.found[id])
        OBVIOUS
      <4>2. /\ w \in [Resources -> Roles!Levels] /\ \A x \in Managed : w[x] = "managed"
            /\ \A x \in Managed : x2[id][x] = "managed" /\ x \in Resources
        BY <1>0, <1>12, <3>2, <4>1, WantedLevels
           DEF RoleVars, RolesInv, Roles!ManagedKept, Roles!There
      <4>3. x2'[id] = [x \in Resources |->
                   IF x \in Preset[q.found[id]] /\ q.old[id][x] = "none" THEN w[x]
                   ELSE IF q.old[id][x] = "none" \/ x2[id][x] = "none" THEN x2[id][x] ELSE w[x]]
        BY <1>12, <3>2, <4>1
      <4>4. x2'[id] \in [Resources -> Roles!Levels]
        BY <2>1, <4>2, <4>3
      <4>5. \A x \in Managed : x2'[id][x] = "managed"
        BY <4>2, <4>3
      <4> QED
        BY <4>4, <4>5
    <3>3. CASE id \notin fresh /\ (q.found[id] = Nil \/ x1[id] = Roles!NoRole)
      BY <1>9, <1>13, <2>1, <3>3 DEF RolesInv, Roles!ManagedKept, Roles!There
    <3> QED
      BY <3>1, <3>2, <3>3
  <2>3. x2' = [id \in Roles!Ids |-> x2'[id]]
    BY <1>4
  <2> QED
    BY <2>2, <2>3 DEF Roles!Grants, Roles!ManagedKept, Roles!There
\* A slug that is given to a new role was not there, or was missed.
<1>15. ASSUME NEW i \in fresh, NEW j \in Roles!Ids \ fresh, x1[j].slug = x1'[i].slug
       PROVE  x1[j].slug \in x6' /\ q.missed.slugs # {}
  <2>1. PICK s \in N : s = x1[j].slug /\ place[s] = i
    BY <1>8, <1>15
  <2>2. s \in Defaults /\ ~\E id \in Roles!Ids : q.found[id] = s
    BY <1>3
  <2>3. s \in q.missed.slugs
    BY <1>2, <2>1, <2>2 DEF SeedKnown
  <2>4. Roles!Conflict(s, i)
    BY <2>1 DEF Roles!Conflict
  <2>5. Roles!Twice(r, place[s], s) = {s}
    BY <1>1, <2>1, <2>3, <2>4 DEF Roles!Twice
  <2> QED
    BY <1>4, <2>1, <2>3, <2>5
<1>16. Roles!SlugsTellApart'
  <2> SUFFICES ASSUME NEW i \in Roles!Ids, NEW j \in Roles!Ids, i # j, x1'[i].slug \in Slugs,
                      x1'[i].slug = x1'[j].slug
               PROVE  x1'[i].slug \in x6'
    BY DEF Roles!SlugsTellApart
  <2>1. CASE i \in fresh /\ j \in fresh
    BY <1>8, <2>1
  <2>2. CASE i \in fresh /\ j \notin fresh
    BY <1>9, <1>15, <2>2
  <2>3. CASE i \notin fresh /\ j \in fresh
    BY <1>9, <1>15, <2>3
  <2>4. CASE i \notin fresh /\ j \notin fresh
    BY <1>4, <1>9, <2>4 DEF RolesInv, Roles!SlugsTellApart
  <2> QED
    BY <2>1, <2>2, <2>3, <2>4
\* If nothing was missed, what was found is what there is.
<1>17. DefaultsStand' /\ x7' \in BOOLEAN
  <2> SUFFICES ASSUME q.missed = Roles!Nothing, NEW s \in Defaults
               PROVE  /\ \E id \in Roles!Ids : x1'[id].slug = s /\ x1'[id].std
                      /\ \A id \in Roles!Ids :
                           x1'[id].slug = s =>
                             x2'[id] = Roles!Wanted(s) /\ (s \in x6' \/ x1'[id].std)
    BY <1>5 DEF DefaultsStand
  <2>1. q.missed.ids = {} /\ q.missed.slugs = {}
    BY DEF Roles!Nothing
  <2>2. /\ \A id \in Roles!Ids : q.found[id] = DefaultSlug(x1[id]) /\ q.old[id] = x2[id]
        /\ FixRight(q.fix, x1)
    BY <1>2, <2>1 DEF SeedKnown
  <2>3. \A id \in Roles!Ids : q.found[id] = s <=> x1[id].slug = s
    BY <2>2 DEF DefaultSlug, Roles!RolesAssumption
  <2>4. Nil \notin Defaults /\ s \in Slugs
    BY <1>0 DEF RoleVars, Roles!RolesAssumption
  <2>5. \E id \in Roles!Ids : x1'[id].slug = s /\ x1'[id].std
    <3>1. CASE s \in N
      <4>1. place[s] \in fresh /\ place[s] \in Roles!Ids
        BY <1>4, <3>1
      <4>2. PICK id \in fresh : id = place[s]
        BY <4>1
      <4>3. x1'[id].slug \in N /\ place[x1'[id].slug] = id /\ x1'[id].std
        BY <1>8
      <4>4. x1'[id].slug = s
        BY <1>6, <3>1, <4>2, <4>3
      <4> QED
        BY <1>6, <4>3, <4>4
    <3>2. CASE s \in q.fix
      <4>1. PICK id \in Roles!Ids : x1[id].slug = s
        BY <2>2, <3>2 DEF FixRight
      <4>2. id \notin fresh
        BY <1>7, <2>4, <4>1 DEF Roles!NoRole
      <4> QED
        BY <1>9, <3>2, <4>1, <4>2
    <3>3. CASE s \notin N /\ s \notin q.fix
      <4>1. PICK id \in Roles!Ids : x1[id].slug = s /\ x1[id].std
        BY <1>3, <2>2, <2>3, <3>3 DEF FixRight
      <4>2. id \notin fresh
        BY <1>7, <2>4, <4>1 DEF Roles!NoRole
      <4> QED
        BY <1>9, <4>1, <4>2
    <3> QED
      BY <3>1, <3>2, <3>3
  <2>6. ASSUME NEW id \in Roles!Ids, x1'[id].slug = s
        PROVE  x2'[id] = Roles!Wanted(s) /\ (s \in x6' \/ x1'[id].std)
    <3>1. CASE id \in fresh
      BY <1>8, <1>11, <2>6, <3>1
    <3>2. CASE id \notin fresh
      <4>1. x1[id].slug = s /\ q.found[id] = s /\ q.old[id] = x2[id]
        BY <1>9, <2>2, <2>3, <2>6, <3>2
      <4>2. x1[id] # Roles!NoRole
        BY <2>4, <4>1 DEF Roles!NoRole
      <4>3. x2'[id] = Roles!Wanted(s)
        <5>1. PICK w : w = Roles!Wanted(s)
          OBVIOUS
        <5>2. x2'[id] = [x \in Resources |->
                IF x \in Preset[s] /\ x2[id][x] = "none" THEN w[x]
                ELSE IF x2[id][x] = "none" \/ x2[id][x] = "none" THEN x2[id][x] ELSE w[x]]
          BY <1>12, <2>4, <3>2, <4>1, <4>2, <5>1
        <5>3. /\ w \in [Resources -> Roles!Levels]
              /\ \A x \in Resources : x \notin Preset[s] => w[x] = "none"
          BY <5>1, WantedLevels
        <5>4. \A x \in Resources : x2'[id][x] = w[x]
          BY <5>2, <5>3
        <5>5. x2'[id] = [x \in Resources |-> w[x]] /\ w = [x \in Resources |-> w[x]]
          BY <5>2, <5>3, <5>4
        <5> QED
          BY <5>1, <5>5
      <4>4. s \in x6' \/ x1'[id].std
        <5>1. CASE s \in q.fix
          BY <1>9, <3>2, <4>1, <5>1
        <5>2. CASE s \notin q.fix
          <6>1. PICK o \in Roles!Ids : x1[o].slug = s /\ x1[o].std
            BY <2>2, <4>1, <5>2 DEF FixRight
          <6>2. CASE o = id
            BY <1>9, <3>2, <6>1, <6>2
          <6>3. CASE o # id
            BY <1>4, <2>4, <4>1, <6>1, <6>3 DEF RolesInv, Roles!SlugsTellApart
          <6> QED
            BY <6>2, <6>3
        <5> QED
          BY <5>1, <5>2
      <4> QED
        BY <4>3, <4>4
    <3> QED
      BY <3>1, <3>2
  <2> QED
    BY <2>5, <2>6
<1>18. \A o \in Roles!Ids : o >= x3' => x1'[o] = Roles!NoRole
  BY <1>6, <1>9 DEF RolesInv, RolesTyped
<1>19. PICK ids : ids = fresh \cup Roles!Found(r)
  OBVIOUS
<1>20. /\ ids \in SUBSET Roles!Ids /\ N \in SUBSET Roles!RoleSlug
       /\ \A o \in Roles!Ids \ ids : x1'[o].slug = x1[o].slug /\ x2'[o] = x2[o]
       /\ \A o \in Roles!Ids : x1'[o].slug = x1[o].slug \/ x1'[o].slug \in N \cup {Nil}
  <2>1. ids \in SUBSET Roles!Ids /\ N \in SUBSET Roles!RoleSlug
    BY <1>0, <1>3, <1>6, <1>19 DEF RoleVars, Roles!RoleSlug
  <2> QED
    BY <1>3, <1>8, <1>9, <1>13, <1>19, <2>1
<1>21. x1' = x1 \/ ids # {} \/ N # {}
  <2> SUFFICES ASSUME ids = {}, N = {} PROVE x1' = x1
    OBVIOUS
  <2>1. fresh = {} /\ \A id \in Roles!Ids : q.found[id] = Nil
    BY <1>3, <1>19
  <2>2. Defaults = {}
    BY <1>3, <2>1 DEF Roles!RolesAssumption
  <2>3. \A id \in Roles!Ids : x1'[id] = x1[id]
    BY <1>2, <1>9, <2>1, <2>2
  <2> QED
    BY <1>0, <1>10, <2>3 DEF RoleVars
<1>22. Roles!Leave(r, Roles!Touch(ids, N), Roles!Idle)
  BY <1>4, <1>19 DEF fresh
<1> QED
  BY <1>6, <1>10, <1>14, <1>16, <1>17, <1>18, <1>20, <1>21, <1>22, RolesWrite

LEMMA RolesInitially == ASSUME Roles!RolesAssumption, Roles!Init PROVE RolesInv
<1>1. /\ Roles!NoRole \in Roles!Row /\ Roles!NoRole.slug = Nil /\ Nil \notin Slugs
      /\ Roles!NoPerms \in [Resources -> Roles!Levels]
  BY DEF Roles!Row, Roles!NoRole, Roles!RolesAssumption, Roles!NoPerms, Roles!Levels
<1>2. MaxRoles \in Nat /\ MaxRoleEdits \in Nat
  BY DEF Roles!RolesAssumption
<1>3. x1 \in [Roles!Ids -> Roles!Row] /\ x2 \in Roles!Grants
  BY <1>1 DEF Roles!Init, Roles!Grants
<1>4. x3 \in 1..MaxRoles + 1 /\ x5 \in 0..MaxRoleEdits /\ x7 = FALSE
  BY <1>2 DEF Roles!Init
<1>5. x4 \in [Actors -> Roles!Request] /\ \A r \in Actors : x4[r] = Roles!Idle
  BY IdleKnown DEF Roles!Init
<1>6. \A id \in Roles!Ids : x1[id] = Roles!NoRole
  BY DEF Roles!Init
<1>7. RolesTyped
  BY <1>3, <1>4, <1>5, <1>6 DEF RolesTyped, Roles!TypeOK
<1>8. Roles!ManagedKept /\ Roles!SlugsTellApart /\ DefaultsStand
  BY <1>1, <1>4, <1>6 DEF Roles!ManagedKept, Roles!SlugsTellApart, DefaultsStand, Roles!There
<1>9. \A r \in Actors : Known(x4[r], x1, x2)
  BY <1>5, IdleKnown
<1> QED
  BY <1>7, <1>8, <1>9 DEF RolesInv

LEMMA RolesKeep ==
  ASSUME Roles!RolesAssumption, RolesInv, Roles!Next PROVE RolesInv'
<1>1. PICK r \in Actors :
        \/ Roles!CreateRole(r) \/ Roles!InsertRole(r) \/ Roles!UpdateRole(r) \/ Roles!SetRole(r)
        \/ Roles!RemoveRole(r) \/ Roles!DeleteRole(r)
        \/ Roles!CreatePermission(r) \/ Roles!UpdatePermission(r) \/ Roles!RemovePermission(r)
        \/ Roles!WritePermission(r)
        \/ Roles!SeedRoles(r) \/ Roles!SeedPermissions(r) \/ Roles!SeedCommit(r)
        \/ Roles!SeedFails(r) \/ Roles!Answered(r)
  BY DEF Roles!Next
<1> QED
  BY <1>1, RolesChecks, InsertRoleKeeps, SetRoleKeeps, DeleteRoleKeeps, WritePermissionKeeps,
     SeedReads, SeedCommitKeeps, SeedAnswers

LEMMA RolesSteps ==
  /\ Init => (part = "roles" => RolesInv)
  /\ (part = "roles" => RolesInv) /\ [Next]_<<part, slots>> => (part = "roles" => RolesInv)'
<1>0. Roles!RolesAssumption
  BY ServicesAssumption DEF ServicesAssumption
<1>1. Init => (part = "roles" => RolesInv)
  BY <1>0, RolesInitially DEF Init
<1>2. ASSUME part = "roles" => RolesInv, [Next]_<<part, slots>>, part' = "roles" PROVE RolesInv'
  <2>1. CASE RunRoles
    BY <1>0, <1>2, <2>1, RolesKeep DEF RunRoles
  <2>2. CASE UNCHANGED <<part, slots>>
    BY <1>2, <2>2, RolesStandBy DEF slots, RolesInv, RolesTyped, Roles!TypeOK
  <2> QED
    BY <1>2, <2>1, <2>2 DEF Next, RunControls, RunRecords, RunCatalog, RunMigrations, RunPolling,
                      RunCookies, RunMusic, RunCrons, RunListing
<1> QED
  BY <1>1, <1>2

\* The administration of roles and ensureDefaultOrganizationRoles: however requests interleave,
\* every role has its managed permissions, two roles share a slug only if requests crossed,
\* and a seeding that nothing crossed leaves the default roles as they should be.
THEOREM RolesStandUp == Spec => []RolesStand
<1>1. (part = "roles" => RolesInv) => RolesStand
  BY RolesFinally DEF RolesStand
<1> QED
  BY <1>1, RolesSteps, PTL DEF Spec

----------------------------------------------------------------------------
(* Records *)

LEMMA RecordCalls ==
  ASSUME NEW c \in Records!Call
  PROVE  /\ c.pc \in {"new", "checks", "load", "done"}
         /\ c.pc \in {"checks", "load"} => c \in RecordCall
         /\ c.pc = "done" => c \in RecordAnswer
<1>1. CASE c \in [pc: {"new"}]
  BY <1>1
<1>2. CASE c \in RecordCall
  BY <1>2 DEF RecordCall
<1>3. CASE c \in RecordAnswer
  BY <1>3 DEF RecordAnswer
<1> QED
  BY <1>1, <1>2, <1>3 DEF Records!Call, RecordCall, RecordAnswer

LEMMA RecordRows ==
  ASSUME Records!TypeOK, NEW id \in Records!Ids
  PROVE  /\ x2[id] \in Records!Row \cup {Records!None, Records!Purged}
         /\ Records!There(id) <=> x2[id] \in Records!Row
         /\ x2[id] = Records!None <=> x2[id].state = "none"
         /\ Records!Live(id) <=> x2[id] \in Records!Row /\ x2[id].state = "live"
         /\ Records!None \notin Records!Row
<1>1. x2[id] \in Records!Row \cup {Records!None, Records!Purged}
  BY DEF Records!TypeOK
<1>2. \A row \in Records!Row : row.state \in {"live", "deleted"}
  BY DEF Records!Row
<1>3. Records!None.state = "none" /\ Records!Purged.state = "purged"
  BY DEF Records!None, Records!Purged
<1> QED
  BY <1>1, <1>2, <1>3 DEF Records!There, Records!Live

LEMMA KindsOf ==
  ASSUME Records!RecordsAssumption, x1 \in RecordScenes, NEW id \in Records!Ids
  PROVE  /\ Records!Kind(id) \in x1 /\ Records!Kind(id) \in Records!Kinds
         /\ id = <<Records!Kind(id), id[2]>> /\ id[2] \in 1..MaxRecords
         /\ id \in Records!Kinds \X Nat
<1>1. x1 \subseteq Records!Kinds /\ 1..MaxRecords \subseteq Nat
  BY DEF Records!RecordsAssumption
<1>2. id \in x1 \X (1..MaxRecords)
  BY DEF Records!Ids
<1> QED
  BY <1>1, <1>2 DEF Records!Kind

LEMMA Parents ==
  /\ DOMAIN Records!Parent = Records!Kinds
  /\ Records!Parent["region"] = {} /\ Records!Parent["defuser"] = {} /\ Records!Parent["playlist"] = {}
  /\ Records!Parent["zone"] = {"region"} /\ Records!Parent["location"] = {"zone"}
  /\ Records!Parent["pod"] = {"location", "defuser"}
  /\ Records!Parent["music"] = {"playlist"} /\ Records!Parent["mood"] = {"playlist"}
  /\ \A k \in Records!Kinds :
       /\ k \notin Records!Parent[k]
       /\ Records!Parent[k] \subseteq {"region", "zone", "location", "defuser", "playlist"}
<1>1. \A k \in Records!Kinds :
        Records!Parent[k] = CASE k = "zone" -> {"region"}
                              [] k = "location" -> {"zone"}
                              [] k = "pod" -> {"location", "defuser"}
                              [] k \in {"music", "mood"} -> {"playlist"}
                              [] k \in {"region", "defuser", "playlist"} -> {}
  BY DEF Records!Parent
<1>2. DOMAIN Records!Parent = Records!Kinds
  BY DEF Records!Parent
<1>3. /\ Records!Parent["region"] = {} /\ Records!Parent["defuser"] = {} /\ Records!Parent["playlist"] = {}
      /\ Records!Parent["zone"] = {"region"} /\ Records!Parent["location"] = {"zone"}
      /\ Records!Parent["pod"] = {"location", "defuser"}
      /\ Records!Parent["music"] = {"playlist"} /\ Records!Parent["mood"] = {"playlist"}
  BY <1>1 DEF Records!Kinds
<1> QED
  BY <1>2, <1>3 DEF Records!Kinds

----------------------------------------------------------------------------
(* Requests that begin *)

\* What a handler's script must be for its kind of row and operation.
LEMMA OneCheck ==
  ASSUME NEW k, NEW op, NEW a \in Records!Checks, Needs(k, op) \subseteq {a},
         a = "there" => op # "insert", a = "nextId" => op = "insert" /\ k = "pod"
  PROVE  Fits(k, op, <<a>>)
<1>1. Asked(<<a>>) = {a} /\ Len(<<a>>) = 1
  BY DEF Asked
<1> QED
  BY <1>1 DEF Fits, InOrder

LEMMA TwoChecks ==
  ASSUME NEW k, NEW op, NEW a \in Records!Checks, NEW b \in Records!Checks,
         Needs(k, op) \subseteq {a, b}, b \notin {"there", "nextId"},
         a = "there" => op # "insert", a = "nextId" => op = "insert" /\ k = "pod"
  PROVE  Fits(k, op, <<a, b>>)
<1>1. Asked(<<a, b>>) = {a, b} /\ Len(<<a, b>>) = 2
  BY DEF Asked
<1> QED
  BY <1>1 DEF Fits, InOrder

LEMMA ThreeChecks ==
  ASSUME NEW k, NEW op, NEW a \in Records!Checks, NEW b \in Records!Checks, NEW c \in Records!Checks,
         Needs(k, op) \subseteq {a, b, c}, b \notin {"there", "nextId"}, c \notin {"there", "nextId"},
         a = "there" => op # "insert", a = "nextId" => op = "insert" /\ k = "pod"
  PROVE  Fits(k, op, <<a, b, c>>)
<1> DEFINE s == <<a, b, c>>
<1>1. Asked(s) = {a, b, c} /\ Len(s) = 3 /\ s \in Seq(Records!Checks)
  BY DEF Asked
<1>2. s[1] = a /\ s[2] = b /\ s[3] = c
  OBVIOUS
<1> HIDE DEF s
<1>3. InOrder(k, op, s)
  BY <1>1, <1>2 DEF InOrder
<1>4. Fits(k, op, s)
  BY <1>1, <1>3 DEF Fits
<1> QED
  BY <1>4 DEF s

\* Of two states with the same tables.
LEMMA RecordsSame ==
  ASSUME RecordsInv, x1' = x1, x2' = x2, x4' = x4, Records!TypeOK', \A r \in Actors : Stands(x3'[r], x2)
  PROVE  RecordsInv'
<1>1. Records!Ids' = Records!Ids
  BY DEF Records!Ids
<1>2. RowsFit' /\ IndexHolds' /\ SongsHaveLists'
  BY <1>1 DEF RecordsInv, RowsFit, IndexHolds, SongsHaveLists, Records!There, UpFits, Alike
<1>3. Records!PlacesStand' /\ Records!NamesTellApart'
  BY <1>1 DEF RecordsInv, Records!PlacesStand, Records!NamesTellApart, Records!Live
<1> QED
  BY <1>2, <1>3 DEF RecordsInv

LEMMA OneCallMoves ==
  ASSUME RecordsInv, NEW r \in Actors, NEW d \in Records!Call, Stands(d, x2),
         x3' = [x3 EXCEPT ![r] = d], x1' = x1, x2' = x2, x4' = x4
  PROVE  RecordsInv'
<1>1. x3' \in [Actors -> Records!Call] /\ x3'[r] = d /\ \A q \in Actors \ {r} : x3'[q] = x3[q]
  BY DEF RecordsInv, Records!TypeOK
<1>2. Records!TypeOK'
  BY <1>1 DEF RecordsInv, Records!TypeOK, Records!Call, Records!Ids
<1>3. \A q \in Actors : Stands(x3'[q], x2)
  BY <1>1 DEF RecordsInv
<1> QED
  BY <1>2, <1>3, RecordsSame

LEMMA BeginKeeps ==
  ASSUME Records!RecordsAssumption, RecordsInv,
         NEW r \in Actors, NEW op \in Records!Ops, NEW id \in Records!Ids,
         NEW name \in RowNames \cup {Records!Keep}, NEW up, NEW checks \in Seq(Records!Checks),
         Records!Begin(r, op, id, name, up, checks), UpFits(x2, id, up),
         Needs(Records!Kind(id), op) \subseteq Asked(checks),
         InOrder(Records!Kind(id), op, checks),
         op = "insert" => name # Records!Keep /\ ~Records!There(id),
         op \notin {"insert", "update"} => up = {}
  PROVE  RecordsInv'
<1> DEFINE b == [pc |-> "checks", op |-> op, id |-> id, name |-> name, up |-> up,
                 checks |-> checks, old |-> Records!None, raced |-> FALSE]
<1>1. x1' = x1 /\ x2' = x2 /\ x4' = x4 /\ x3' = [x3 EXCEPT ![r] = b]
  BY DEF Records!Begin
<1>2. b \in RecordCall
  BY DEF RecordCall, UpFits, RecordsInv, Records!TypeOK
<1>3. b.pc = "checks" /\ b.op = op /\ b.id = id /\ b.name = name /\ b.up = up /\ b.checks = checks
      /\ b.old = Records!None
  OBVIOUS
<1> HIDE DEF b
<1>4. b \in Records!Call
  BY <1>2 DEF RecordCall, Records!Call
<1>5. Under(b, x2)
  BY <1>3 DEF Under, ThereIn, Records!There
<1>6. Stands(b, x2)
  BY <1>3, <1>5 DEF Stands
<1> QED
  BY <1>1, <1>4, <1>6, OneCallMoves

\* A script whose first check alone may be "there" or "nextId".
LEMMA InsertKeeps ==
  ASSUME Records!RecordsAssumption, RecordsInv, NEW r \in Actors, NEW k \in Records!Kinds,
         NEW checks, Records!Insert(r, k, checks),
         Fits(k, "insert", checks)
  PROVE  RecordsInv'
<1>1. PICK id \in Records!Fresh(k), name \in RowNames, up \in Records!Bodies(k) :
        Records!Begin(r, "insert", id, name, up, checks)
  BY DEF Records!Insert
<1>2. id \in Records!Ids /\ Records!Kind(id) = k /\ x2[id] = Records!None
  BY DEF Records!Fresh, Records!Unused
<1>3. ~Records!There(id)
  BY <1>2 DEF Records!There, Records!None
<1>4. UpFits(x2, id, up)
  BY <1>2 DEF UpFits, Records!Bodies, RecordsInv, Records!TypeOK
<1>5. name # Records!Keep /\ "insert" \in Records!Ops
  BY DEF Records!RecordsAssumption, Records!Ops
<1> QED
  BY <1>1, <1>2, <1>3, <1>4, <1>5, BeginKeeps DEF Fits

LEMMA UpdateKeeps ==
  ASSUME Records!RecordsAssumption, RecordsInv, NEW r \in Actors, NEW k \in Records!Kinds,
         NEW checks, Records!Update(r, k, checks),
         Fits(k, "update", checks)
  PROVE  RecordsInv'
<1>1. PICK id \in Records!Ids, name \in RowNames \cup {Records!Keep}, up \in Records!Bodies(k) \cup {{}} :
        Records!Kind(id) = k /\ Records!Begin(r, "update", id, name, up, checks)
  BY DEF Records!Update
<1>2. UpFits(x2, id, up)
  BY <1>1 DEF UpFits, Records!Bodies, RecordsInv, Records!TypeOK
<1>3. "update" \in Records!Ops
  BY DEF Records!Ops
<1> QED
  BY <1>1, <1>2, <1>3, BeginKeeps DEF Fits

LEMMA SimpleKeeps ==
  ASSUME Records!RecordsAssumption, RecordsInv, NEW r \in Actors, NEW k \in Records!Kinds,
         NEW op \in {"remove", "restore", "purge"},
         NEW checks, Records!Simple(r, k, op, checks),
         Fits(k, op, checks)
  PROVE  RecordsInv'
<1>1. PICK id \in Records!Ids :
        Records!Kind(id) = k /\ Records!Begin(r, op, id, Records!Keep, {}, checks)
  BY DEF Records!Simple
<1>2. UpFits(x2, id, {})
  BY DEF UpFits
<1>3. op \in Records!Ops /\ op # "insert"
  BY DEF Records!Ops
<1> QED
  BY <1>1, <1>2, <1>3, BeginKeeps DEF Fits

LEMMA PlacesKeep ==
  ASSUME Records!RecordsAssumption, RecordsInv, NEW r \in Actors, Records!Places(r)
  PROVE  RecordsInv'
<1>0. {"nextId", "there", "ever", "deleted", "named", "childless"} \cup Records!Kinds \subseteq Records!Checks
  BY DEF Records!Checks
<1>1. CASE Records!CreateRegion(r)
  <2>1. Fits("region", "insert", <<"named">>)
    BY <1>0, Parents, OneCheck DEF Needs, Records!Kinds
  <2> QED
    BY <1>1, <2>1, InsertKeeps DEF Records!CreateRegion, Records!Kinds
<1>2. CASE Records!UpdateRegion(r)
  <2>1. Fits("region", "update", <<"there", "named">>)
    BY <1>0, Parents, TwoChecks DEF Needs, Records!Kinds
  <2> QED
    BY <1>2, <2>1, UpdateKeeps DEF Records!UpdateRegion, Records!Kinds
<1>3. CASE Records!RemoveRegion(r)
  <2>1. Fits("region", "remove", <<"there", "childless">>)
    BY <1>0, Parents, TwoChecks DEF Needs, Records!Kinds
  <2> QED
    BY <1>3, <2>1, SimpleKeeps DEF Records!RemoveRegion, Records!Kinds
<1>4. CASE Records!RestoreRegion(r)
  <2>1. Fits("region", "restore", <<"ever">>)
    BY <1>0, Parents, OneCheck DEF Needs, Records!Kinds
  <2> QED
    BY <1>4, <2>1, SimpleKeeps DEF Records!RestoreRegion, Records!Kinds
<1>5. CASE Records!CreateZone(r)
  <2>1. Fits("zone", "insert", <<"region", "named">>)
    BY <1>0, Parents, TwoChecks DEF Needs, Records!Kinds
  <2> QED
    BY <1>5, <2>1, InsertKeeps DEF Records!CreateZone, Records!Kinds
<1>6. CASE Records!UpdateZone(r)
  <2>1. Fits("zone", "update", <<"there", "region", "named">>)
    BY <1>0, Parents, ThreeChecks DEF Needs, Records!Kinds
  <2> QED
    BY <1>6, <2>1, UpdateKeeps DEF Records!UpdateZone, Records!Kinds
<1>7. CASE Records!RemoveZone(r)
  <2>1. Fits("zone", "remove", <<"there", "childless">>)
    BY <1>0, Parents, TwoChecks DEF Needs, Records!Kinds
  <2> QED
    BY <1>7, <2>1, SimpleKeeps DEF Records!RemoveZone, Records!Kinds
<1>8. CASE Records!RestoreZone(r)
  <2>1. Fits("zone", "restore", <<"ever">>)
    BY <1>0, Parents, OneCheck DEF Needs, Records!Kinds
  <2> QED
    BY <1>8, <2>1, SimpleKeeps DEF Records!RestoreZone, Records!Kinds
<1>9. CASE Records!CreateLocation(r)
  <2>1. Fits("location", "insert", <<"zone", "named">>)
    BY <1>0, Parents, TwoChecks DEF Needs, Records!Kinds
  <2> QED
    BY <1>9, <2>1, InsertKeeps DEF Records!CreateLocation, Records!Kinds
<1>10. CASE Records!UpdateLocation(r)
  <2>1. Fits("location", "update", <<"there", "zone", "named">>)
    BY <1>0, Parents, ThreeChecks DEF Needs, Records!Kinds
  <2> QED
    BY <1>10, <2>1, UpdateKeeps DEF Records!UpdateLocation, Records!Kinds
<1>11. CASE Records!RemoveLocation(r)
  <2>1. Fits("location", "remove", <<"there">>)
    BY <1>0, Parents, OneCheck DEF Needs, Records!Kinds
  <2> QED
    BY <1>11, <2>1, SimpleKeeps DEF Records!RemoveLocation, Records!Kinds
<1>12. CASE Records!RestoreLocation(r)
  <2>1. Fits("location", "restore", <<"ever">>)
    BY <1>0, Parents, OneCheck DEF Needs, Records!Kinds
  <2> QED
    BY <1>12, <2>1, SimpleKeeps DEF Records!RestoreLocation, Records!Kinds
<1> QED
  BY <1>1, <1>2, <1>3, <1>4, <1>5, <1>6, <1>7, <1>8, <1>9, <1>10, <1>11, <1>12
  DEF Records!Places

LEMMA EquipmentKeeps ==
  ASSUME Records!RecordsAssumption, RecordsInv, NEW r \in Actors, Records!Equipment(r)
  PROVE  RecordsInv'
<1>0. {"nextId", "there", "ever", "deleted", "named", "childless"} \cup Records!Kinds \subseteq Records!Checks
  BY DEF Records!Checks
<1>1. CASE Records!CreatePod(r)
  <2>1. Fits("pod", "insert", <<"nextId", "location", "defuser">>)
    BY <1>0, Parents, ThreeChecks DEF Needs, Records!Kinds
  <2> QED
    BY <1>1, <2>1, InsertKeeps DEF Records!CreatePod, Records!Kinds
<1>2. CASE Records!UpdatePod(r)
  <2>1. Fits("pod", "update", <<"there", "location", "defuser">>)
    BY <1>0, Parents, ThreeChecks DEF Needs, Records!Kinds
  <2> QED
    BY <1>2, <2>1, UpdateKeeps DEF Records!UpdatePod, Records!Kinds
<1>3. CASE Records!RemovePod(r)
  <2>1. Fits("pod", "remove", <<"there">>)
    BY <1>0, Parents, OneCheck DEF Needs, Records!Kinds
  <2> QED
    BY <1>3, <2>1, SimpleKeeps DEF Records!RemovePod, Records!Kinds
<1>4. CASE Records!PurgePod(r)
  <2>1. Fits("pod", "purge", <<"ever">>)
    BY <1>0, Parents, OneCheck DEF Needs, Records!Kinds
  <2> QED
    BY <1>4, <2>1, SimpleKeeps DEF Records!PurgePod, Records!Kinds
<1>5. CASE Records!RestorePod(r)
  <2>1. Fits("pod", "restore", <<"ever">>)
    BY <1>0, Parents, OneCheck DEF Needs, Records!Kinds
  <2> QED
    BY <1>5, <2>1, SimpleKeeps DEF Records!RestorePod, Records!Kinds
<1>6. CASE Records!CreateDefuser(r)
  <2>1. Fits("defuser", "insert", <<"named">>)
    BY <1>0, Parents, OneCheck DEF Needs, Records!Kinds
  <2> QED
    BY <1>6, <2>1, InsertKeeps DEF Records!CreateDefuser, Records!Kinds
<1>7. CASE Records!UpdateDefuser(r)
  <2>1. Fits("defuser", "update", <<"there", "named">>)
    BY <1>0, Parents, TwoChecks DEF Needs, Records!Kinds
  <2> QED
    BY <1>7, <2>1, UpdateKeeps DEF Records!UpdateDefuser, Records!Kinds
<1>8. CASE Records!RemoveDefuser(r)
  <2>1. Fits("defuser", "remove", <<"there", "childless">>)
    BY <1>0, Parents, TwoChecks DEF Needs, Records!Kinds
  <2> QED
    BY <1>8, <2>1, SimpleKeeps DEF Records!RemoveDefuser, Records!Kinds
<1>9. CASE Records!PurgeDefuser(r)
  <2>1. Fits("defuser", "purge", <<"ever">>)
    BY <1>0, Parents, OneCheck DEF Needs, Records!Kinds
  <2> QED
    BY <1>9, <2>1, SimpleKeeps DEF Records!PurgeDefuser, Records!Kinds
<1>10. CASE Records!RestoreDefuser(r)
  <2>1. Fits("defuser", "restore", <<"deleted">>)
    BY <1>0, Parents, OneCheck DEF Needs, Records!Kinds
  <2> QED
    BY <1>10, <2>1, SimpleKeeps DEF Records!RestoreDefuser, Records!Kinds
<1> QED
  BY <1>1, <1>2, <1>3, <1>4, <1>5, <1>6, <1>7, <1>8, <1>9, <1>10
  DEF Records!Equipment

LEMMA ContentKeeps ==
  ASSUME Records!RecordsAssumption, RecordsInv, NEW r \in Actors, Records!Content(r)
  PROVE  RecordsInv'
<1>0. {"nextId", "there", "ever", "deleted", "named", "childless"} \cup Records!Kinds \subseteq Records!Checks
  BY DEF Records!Checks
<1>1. CASE Records!CreatePlaylist(r)
  <2>1. Fits("playlist", "insert", <<"named">>)
    BY <1>0, Parents, OneCheck DEF Needs, Records!Kinds
  <2> QED
    BY <1>1, <2>1, InsertKeeps DEF Records!CreatePlaylist, Records!Kinds
<1>2. CASE Records!UpdatePlaylist(r)
  <2>1. Fits("playlist", "update", <<"there", "named">>)
    BY <1>0, Parents, TwoChecks DEF Needs, Records!Kinds
  <2> QED
    BY <1>2, <2>1, UpdateKeeps DEF Records!UpdatePlaylist, Records!Kinds
<1>3. CASE Records!RemovePlaylist(r)
  <2>1. Fits("playlist", "remove", <<"there">>)
    BY <1>0, Parents, OneCheck DEF Needs, Records!Kinds
  <2> QED
    BY <1>3, <2>1, SimpleKeeps DEF Records!RemovePlaylist, Records!Kinds
<1>4. CASE Records!PurgePlaylist(r)
  <2>1. Fits("playlist", "purge", <<"ever">>)
    BY <1>0, Parents, OneCheck DEF Needs, Records!Kinds
  <2> QED
    BY <1>4, <2>1, SimpleKeeps DEF Records!PurgePlaylist, Records!Kinds
<1>5. CASE Records!RestorePlaylist(r)
  <2>1. Fits("playlist", "restore", <<"deleted">>)
    BY <1>0, Parents, OneCheck DEF Needs, Records!Kinds
  <2> QED
    BY <1>5, <2>1, SimpleKeeps DEF Records!RestorePlaylist, Records!Kinds
<1>6. CASE Records!CreateMusic(r)
  <2>1. Fits("music", "insert", <<"playlist">>)
    BY <1>0, Parents, OneCheck DEF Needs, Records!Kinds
  <2> QED
    BY <1>6, <2>1, InsertKeeps DEF Records!CreateMusic, Records!Kinds
<1>7. CASE Records!UpdateMusic(r)
  <2>1. Fits("music", "update", <<"there", "playlist">>)
    BY <1>0, Parents, TwoChecks DEF Needs, Records!Kinds
  <2> QED
    BY <1>7, <2>1, UpdateKeeps DEF Records!UpdateMusic, Records!Kinds
<1>8. CASE Records!RemoveMusic(r)
  <2>1. Fits("music", "remove", <<"there">>)
    BY <1>0, Parents, OneCheck DEF Needs, Records!Kinds
  <2> QED
    BY <1>8, <2>1, SimpleKeeps DEF Records!RemoveMusic, Records!Kinds
<1>9. CASE Records!PurgeMusic(r)
  <2>1. Fits("music", "purge", <<"ever">>)
    BY <1>0, Parents, OneCheck DEF Needs, Records!Kinds
  <2> QED
    BY <1>9, <2>1, SimpleKeeps DEF Records!PurgeMusic, Records!Kinds
<1>10. CASE Records!RestoreMusic(r)
  <2>1. Fits("music", "restore", <<"deleted">>)
    BY <1>0, Parents, OneCheck DEF Needs, Records!Kinds
  <2> QED
    BY <1>10, <2>1, SimpleKeeps DEF Records!RestoreMusic, Records!Kinds
<1>11. CASE Records!CreateMood(r)
  <2>1. Fits("mood", "insert", <<"named", "playlist">>)
    BY <1>0, Parents, TwoChecks DEF Needs, Records!Kinds
  <2> QED
    BY <1>11, <2>1, InsertKeeps DEF Records!CreateMood, Records!Kinds
<1>12. CASE Records!UpdateMood(r)
  <2>1. Fits("mood", "update", <<"there", "named", "playlist">>)
    BY <1>0, Parents, ThreeChecks DEF Needs, Records!Kinds
  <2> QED
    BY <1>12, <2>1, UpdateKeeps DEF Records!UpdateMood, Records!Kinds
<1>13. CASE Records!RemoveMood(r)
  <2>1. Fits("mood", "remove", <<"there">>)
    BY <1>0, Parents, OneCheck DEF Needs, Records!Kinds
  <2> QED
    BY <1>13, <2>1, SimpleKeeps DEF Records!RemoveMood, Records!Kinds
<1>14. CASE Records!PurgeMood(r)
  <2>1. Fits("mood", "purge", <<"ever">>)
    BY <1>0, Parents, OneCheck DEF Needs, Records!Kinds
  <2> QED
    BY <1>14, <2>1, SimpleKeeps DEF Records!PurgeMood, Records!Kinds
<1>15. CASE Records!RestoreMood(r)
  <2>1. Fits("mood", "restore", <<"deleted">>)
    BY <1>0, Parents, OneCheck DEF Needs, Records!Kinds
  <2> QED
    BY <1>15, <2>1, SimpleKeeps DEF Records!RestoreMood, Records!Kinds
<1> QED
  BY <1>1, <1>2, <1>3, <1>4, <1>5, <1>6, <1>7, <1>8, <1>9, <1>10, <1>11, <1>12, <1>13, <1>14, <1>15
  DEF Records!Content

----------------------------------------------------------------------------
(* Checks and answers *)

LEMMA AnswerKeeps ==
  ASSUME RecordsInv, NEW r \in Actors, x3[r] \in RecordCall,
         NEW code \in Records!Codes, NEW refused \in BOOLEAN, Records!Answer(r, code, refused),
         code = 500 => x3[r].raced \/ refused, x1' = x1, x2' = x2, x4' = x4
  PROVE  RecordsInv'
<1> DEFINE d == [pc |-> "done", code |-> code, id |-> x3[r].id, raced |-> x3[r].raced,
                 refused |-> refused]
<1>1. x3' = [x3 EXCEPT ![r] = d]
  BY DEF Records!Answer
<1>2. d \in Records!Call
  BY DEF Records!Call, RecordCall
<1>3. Stands(d, x2)
  BY DEF Stands
<1> QED
  BY <1>1, <1>2, <1>3, OneCallMoves

LEMMA Remaining ==
  ASSUME NEW s \in Seq(Records!Checks), s # <<>>
  PROVE  /\ Len(s) > 0 /\ Head(s) = s[1] /\ s[1] \in Records!Checks /\ Tail(s) \in Seq(Records!Checks)
         /\ Len(Tail(s)) = Len(s) - 1 /\ \A i \in 1..Len(Tail(s)) : Tail(s)[i] = s[i + 1]
         /\ Asked(s) = {s[1]} \cup Asked(Tail(s))
<1>1. /\ Len(s) \in Nat /\ Len(s) > 0 /\ Head(s) = s[1] /\ s[1] \in Records!Checks
      /\ Tail(s) \in Seq(Records!Checks)
      /\ Len(Tail(s)) = Len(s) - 1 /\ \A i \in 1..Len(Tail(s)) : Tail(s)[i] = s[i + 1]
  OBVIOUS
<1>2. \A i \in 1..Len(s) : i = 1 \/ (i - 1 \in 1..Len(Tail(s)) /\ Tail(s)[i - 1] = s[i])
  BY <1>1
<1>3. \A i \in 1..Len(Tail(s)) : i + 1 \in 1..Len(s)
  BY <1>1
<1>4. Asked(s) \subseteq {s[1]} \cup Asked(Tail(s))
  BY <1>1, <1>2 DEF Asked
<1>5. {s[1]} \cup Asked(Tail(s)) \subseteq Asked(s)
  BY <1>1, <1>3 DEF Asked
<1> QED
  BY <1>1, <1>4, <1>5

\* Once "there" or "nextId" is done, none of the checks that follow is.
LEMMA StillInOrder ==
  ASSUME NEW k, NEW op, NEW s \in Seq(Records!Checks), s # <<>>, InOrder(k, op, s)
  PROVE  /\ InOrder(k, op, Tail(s))
         /\ s[1] \in {"there", "nextId"} => Needs(k, op) \ Asked(Tail(s)) \subseteq {s[1]}
         /\ s[1] = "there" => op # "insert"
         /\ s[1] = "nextId" => op = "insert" /\ k = "pod"
<1>1. \A i \in 1..Len(Tail(s)) : i + 1 \in 1..Len(s) /\ i + 1 # 1 /\ Tail(s)[i] = s[i + 1]
  BY Remaining
<1>2. \A i \in 1..Len(Tail(s)) : Tail(s)[i] \notin {"there", "nextId"}
  BY <1>1 DEF InOrder
<1>3. 1 \in 1..Len(s)
  BY Remaining
<1>4. InOrder(k, op, Tail(s))
  BY <1>2 DEF InOrder
<1>5. s[1] \in {"there", "nextId"} => Needs(k, op) \subseteq Asked(s)
  BY <1>3 DEF InOrder
<1>6. s[1] = "there" => op # "insert"
  BY <1>3 DEF InOrder
<1>7. s[1] = "nextId" => op = "insert" /\ k = "pod"
  BY <1>3 DEF InOrder
<1> QED
  BY <1>4, <1>5, <1>6, <1>7, Remaining

\* A check that passed holds of the tables as they are.
LEMMA PassedHolds ==
  ASSUME Records!RecordsAssumption, RecordsInv, NEW c \in RecordCall,
         NEW check \in Needs(Records!Kind(c.id), c.op), check \notin {"there", "nextId"},
         Records!Passes(c, check)
  PROVE  Holds(c, x2, check)
<1>0. /\ DOMAIN x2 = Records!Ids /\ c.id \in Records!Ids /\ x1 \in RecordScenes
      /\ c.op \in {"insert", "update", "remove", "restore", "purge"}
  BY DEF RecordsInv, Records!TypeOK, RecordCall, Records!Ops
<1>1. Records!Kind(c.id) \in Records!Kinds
  BY <1>0, KindsOf
<1>2. check \in {"named", "childless"} \cup {"region", "zone", "location", "defuser", "playlist"}
  BY <1>0, <1>1, Parents DEF Needs
<1>3. CASE check = "named"
  <2>1. Records!NameFree(c)
    BY <1>3 DEF Records!Passes
  <2>2. ASSUME NEW j \in Records!Ids \ {c.id}, Records!Kind(j) = Records!Kind(c.id), LiveIn(x2, j),
               x2[j].name = Records!NewName(c, c.old),
               Records!Kind(j) \in {"zone", "location"} => x2[j].up = Records!Upward(c, c.old)
        PROVE  c.name = Records!Keep /\ Records!Kind(c.id) \notin {"zone", "location"}
    <3>1. j \in Records!Namesakes(c, c.old) /\ Records!Live(j)
      BY <2>2 DEF Records!Namesakes, LiveIn, Records!There, Records!Live
    <3> QED
      BY <2>1, <3>1 DEF Records!NameFree
  <2> QED
    BY <1>0, <1>3, <2>2 DEF Holds, Records!Kinds
<1>4. CASE check = "childless"
  <2>1. Records!LiveChildren(c.id) = {}
    BY <1>4 DEF Records!Passes
  <2> QED
    BY <1>0, <1>4, <2>1 DEF Holds, LiveIn, Records!Kinds, Records!LiveChildren, Records!Live
<1>5. CASE check \in {"region", "zone", "location", "defuser"}
  <2>1. \A p \in Records!NamedBy(c, check) : Records!Live(p)
    BY <1>5 DEF Records!Passes
  <2> QED
    BY <1>5, <2>1 DEF Holds, LiveIn, Records!Live, Records!Kinds
<1>6. CASE check = "playlist"
  <2>1. \A p \in Records!NamedBy(c, "playlist") :
          IF Records!Kind(c.id) = "mood" THEN Records!There(p) ELSE Records!Live(p)
    BY <1>6 DEF Records!Passes
  <2> QED
    BY <1>6, <2>1 DEF Holds, LiveIn, Records!Live, Records!Kinds
<1> QED
  BY <1>2, <1>3, <1>4, <1>5, <1>6

\* A set of numbers that is not empty has a greatest.
LEMMA GreatestNumber ==
  ASSUME NEW N \in Nat, NEW ns \in SUBSET (1..N), ns # {}
  PROVE  \E c \in ns : \A d \in ns : d <= c
<1> DEFINE Bad == {T \in SUBSET (1..N) : T # {} /\ ~ \E c \in T : \A d \in T : d <= c}
<1> SUFFICES ASSUME Bad # {} PROVE FALSE
  OBVIOUS
<1>1. \E T \in Bad : \A U \in Bad : <<U, T>> \notin StrictSubsetOrdering(1..N)
  <2>1. IsFiniteSet(1..N)
    BY FS_Interval
  <2>2. IsWellFoundedOn(StrictSubsetOrdering(1..N), FiniteSubsetsOf(1..N))
    BY FS_StrictSubsetOrderingWellFounded
  <2>3. Bad \subseteq FiniteSubsetsOf(1..N)
    BY <2>1, FS_FiniteSubsetsOfFinite
  <2> HIDE DEF Bad
  <2> QED
    BY <2>2, <2>3, WFMin
<1>2. PICK T \in Bad : \A U \in Bad : <<U, T>> \notin StrictSubsetOrdering(1..N)
  BY <1>1
<1>3. PICK c \in T : TRUE
  OBVIOUS
<1> DEFINE U == T \ {c}
<1>4. U \in SUBSET (1..N) /\ <<U, T>> \in StrictSubsetOrdering(1..N)
  BY <1>3 DEF StrictSubsetOrdering
<1>5. U \notin Bad
  BY <1>2, <1>4
<1>6. \A d \in T : d \in Nat
  OBVIOUS
<1>7. CASE U = {}
  <2>1. \A d \in T : d <= c
    BY <1>3, <1>6, <1>7
  <2> QED
    BY <1>2, <2>1
<1>8. CASE U # {}
  <2>1. PICK e \in U : \A d \in U : d <= e
    BY <1>4, <1>5, <1>8
  <2>2. CASE e <= c
    <3>1. \A d \in T : d <= c
      BY <1>3, <1>6, <2>1, <2>2
    <3> QED
      BY <1>2, <3>1
  <2>3. CASE ~(e <= c)
    <3>1. \A d \in T : d <= e
      BY <1>3, <1>6, <2>1, <2>3
    <3> QED
      BY <1>2, <2>1, <3>1
  <2> QED
    BY <2>2, <2>3
<1> QED
  BY <1>7, <1>8

\* The id a pod is to have is no row's.
LEMMA NextPodIsFree ==
  ASSUME Records!RecordsAssumption, RecordsInv, NEW c, Records!NextPod(c) \in Records!Ids
  PROVE  Records!Kind(Records!NextPod(c)) = "pod" /\ ~Records!There(Records!NextPod(c))
<1> DEFINE used == {id \in Records!Ids : Records!Kind(id) = "pod" /\ Records!There(id)}
           top == CHOOSE i \in 1..MaxRecords : <<"pod", i>> \in used /\ \A id \in used : id[2] <= i
           n == IF used = {} THEN 1 ELSE 1 + top
<1>1. Records!NextPod(c) = <<"pod", n>>
  BY DEF Records!NextPod
<1>2. Records!Kind(<<"pod", n>>) = "pod"
  BY DEF Records!Kind
<1>3. ASSUME Records!There(<<"pod", n>>) PROVE FALSE
  <2>1. <<"pod", n>> \in used
    BY <1>1, <1>2, <1>3
  <2>2. \A id \in used : id = <<"pod", id[2]>> /\ id[2] \in 1..MaxRecords
    BY KindsOf DEF RecordsInv, Records!TypeOK
  <2>3. PICK i \in 1..MaxRecords : <<"pod", i>> \in used /\ \A id \in used : id[2] <= i
    <3> DEFINE S == {id[2] : id \in used}
    <3>1. S \subseteq 1..MaxRecords /\ S # {} /\ MaxRecords \in Nat
      BY <2>1, <2>2 DEF Records!RecordsAssumption
    <3>2. PICK i \in S : \A j \in S : j <= i
      BY <3>1, GreatestNumber
    <3> QED
      BY <2>2, <3>1, <3>2
  <2>4. /\ top \in 1..MaxRecords /\ \A id \in used : id[2] <= top
    BY <2>3
  <2>5. n = 1 + top
    BY <2>1
  <2>6. <<"pod", n>>[2] = n
    OBVIOUS
  <2> QED
    BY <2>1, <2>4, <2>5, <2>6
<1> QED
  BY <1>1, <1>2, <1>3

LEMMA CheckKeeps ==
  ASSUME Records!RecordsAssumption, RecordsInv, NEW r \in Actors, Records!Check(r)
  PROVE  RecordsInv'
<1>0. PICK c \in Records!Call : c = x3[r]
  BY DEF RecordsInv, Records!TypeOK
<1>1. PICK check : c = x3[r] /\ check = Head(c.checks)
  BY <1>0
<1>2. /\ c.pc = "checks" /\ c.checks # <<>> /\ x1' = x1 /\ x2' = x2 /\ x4' = x4
      /\ IF ~Records!Passes(c, check) THEN Records!Answer(r, Records!Refusal(c, check), FALSE)
         ELSE /\ check = "nextId" => Records!NextPod(c) \in Records!Ids
              /\ x3' = [x3 EXCEPT
                   ![r] = [c EXCEPT !.checks = Tail(@),
                                    !.old = IF check = "there" THEN x2[c.id] ELSE @,
                                    !.id = IF check = "nextId" THEN Records!NextPod(c) ELSE @]]
  BY <1>1 DEF Records!Check
<1>3. c \in RecordCall /\ Under(c, x2)
  BY <1>1, <1>2, RecordCalls DEF RecordsInv, Stands
<1>4. /\ c.id \in Records!Ids /\ c.checks \in Seq(Records!Checks) /\ c.raced \in BOOLEAN
      /\ c.op \in Records!Ops
  BY <1>3 DEF RecordCall
<1>5. check = c.checks[1] /\ check \in Records!Checks
  BY <1>1, <1>2, <1>4, Remaining
<1>6. CASE ~Records!Passes(c, check)
  <2>1. Records!Refusal(c, check) \in {200, 400, 404, 409}
    BY DEF Records!Refusal
  <2>2. Records!Refusal(c, check) \in Records!Codes /\ Records!Refusal(c, check) # 500
    BY <2>1 DEF Records!Codes
  <2> QED
    BY <1>1, <1>2, <1>3, <1>6, <2>2, AnswerKeeps
<1>7. CASE Records!Passes(c, check)
  <2> DEFINE old == IF check = "there" THEN x2[c.id] ELSE c.old
             id == IF check = "nextId" THEN Records!NextPod(c) ELSE c.id
             d == [c EXCEPT !.checks = Tail(c.checks), !.old = old, !.id = id]
             k == Records!Kind(c.id)
  <2>1. x3' = [x3 EXCEPT ![r] = d]
    BY <1>2, <1>7
  <2>2. /\ InOrder(k, c.op, c.checks) /\ InOrder(k, c.op, Tail(c.checks))
        /\ check \in {"there", "nextId"} => Needs(k, c.op) \ Asked(Tail(c.checks)) \subseteq {check}
        /\ check = "there" => c.op # "insert"
        /\ check = "nextId" => c.op = "insert" /\ k = "pod"
        /\ Asked(c.checks) = {check} \cup Asked(Tail(c.checks))
        /\ Tail(c.checks) \in Seq(Records!Checks)
    <3>1. InOrder(k, c.op, c.checks)
      BY <1>3 DEF Under
    <3> HIDE DEF k
    <3>2. /\ Tail(c.checks) \in Seq(Records!Checks)
          /\ Asked(c.checks) = {check} \cup Asked(Tail(c.checks))
      BY <1>2, <1>4, <1>5, Remaining
    <3>3. /\ InOrder(k, c.op, Tail(c.checks))
          /\ c.checks[1] \in {"there", "nextId"}
               => Needs(k, c.op) \ Asked(Tail(c.checks)) \subseteq {c.checks[1]}
          /\ c.checks[1] = "there" => c.op # "insert"
          /\ c.checks[1] = "nextId" => c.op = "insert" /\ k = "pod"
      BY <1>2, <1>4, <3>1, StillInOrder
    <3> QED
      BY <1>5, <3>1, <3>2, <3>3
  <2>3. id \in Records!Ids /\ Records!Kind(id) = k
    BY <1>2, <1>4, <1>7, <2>2, NextPodIsFree
  <2>4. old \in Records!Row \cup {Records!None}
    <3>1. CASE check = "there"
      <4>1. Records!Live(c.id)
        BY <1>7, <3>1 DEF Records!Passes
      <4> QED
        BY <1>4, <3>1, <4>1, RecordRows DEF RecordsInv
    <3>2. CASE check # "there"
      BY <1>3, <3>2 DEF RecordCall
    <3> QED
      BY <3>1, <3>2
  <2> HIDE DEF old, id
  <2>5. /\ d \in RecordCall
        /\ d.pc = "checks" /\ d.op = c.op /\ d.id = id /\ d.name = c.name /\ d.up = c.up
        /\ d.checks = Tail(c.checks) /\ d.old = old /\ d.raced = c.raced
    BY <1>2, <1>3, <2>2, <2>3, <2>4 DEF RecordCall
  <2> HIDE DEF d
  <2>6. UpFits(x2, d.id, d.up)
    BY <1>3, <2>3, <2>5 DEF Under, UpFits
  <2>7. d.op = "insert" => d.old = Records!None /\ d.name # Records!Keep
    BY <1>3, <2>2, <2>5 DEF Under, old
  <2>8. InOrder(Records!Kind(d.id), d.op, d.checks) /\ (d.op \notin {"insert", "update"} => d.up = {})
    BY <1>3, <2>2, <2>3, <2>5 DEF Under
  <2>9. ~d.raced /\ d.op = "insert" /\ Records!Kind(d.id) # "pod" => ~ThereIn(x2, d.id)
    <3>1. Records!Kind(d.id) # "pod" => id = c.id
      BY <2>2, <2>3, <2>5 DEF id
    <3> QED
      BY <1>3, <2>3, <2>5, <3>1 DEF Under
  <2>10. ASSUME ~d.raced, NEW x \in Needs(k, c.op) \ Asked(Tail(c.checks))
         PROVE  Holds(d, x2, x)
    <3>1. CASE check = "there"
      <4>1. x = "there" /\ d.id = c.id /\ d.old = x2[c.id]
        BY <2>2, <2>5, <3>1 DEF old, id
      <4>2. LiveIn(x2, d.id)
        BY <1>7, <3>1, <4>1 DEF Records!Passes, Records!Live, LiveIn
      <4> QED
        BY <4>1, <4>2 DEF Holds, Records!Kinds
    <3>2. CASE check = "nextId"
      <4>1. x = "nextId" /\ d.id = Records!NextPod(c)
        BY <2>2, <2>5, <3>2 DEF id
      <4>2. ~ThereIn(x2, d.id)
        BY <1>2, <1>7, <3>2, <4>1, NextPodIsFree DEF Records!There, ThereIn
      <4> QED
        BY <4>1, <4>2 DEF Holds, Records!Kinds
    <3>3. CASE check \notin {"there", "nextId"}
      <4>1. d.id = c.id /\ d.old = c.old /\ d.name = c.name /\ d.up = c.up
        BY <2>5, <3>3 DEF old, id
      <4>2. Holds(c, x2, x)
        <5>1. CASE x = check
          BY <1>3, <1>7, <3>3, <5>1, PassedHolds
        <5>2. CASE x # check
          BY <1>3, <2>2, <2>5, <2>10, <5>2 DEF Under
        <5> QED
          BY <5>1, <5>2
      <4> QED
        BY <4>1, <4>2 DEF Holds, Records!NamedBy, Records!Upward, Records!NewName
    <3> QED
      BY <3>1, <3>2, <3>3
  <2>11. Under(d, x2)
    BY <2>3, <2>5, <2>6, <2>7, <2>8, <2>9, <2>10 DEF Under
  <2>12. Stands(d, x2) /\ d \in Records!Call
    BY <2>5, <2>11 DEF Stands, RecordCall, Records!Call
  <2> QED
    BY <1>2, <2>1, <2>12, OneCallMoves
<1> QED
  BY <1>6, <1>7

----------------------------------------------------------------------------
(* The write *)

LEMMA LoadKeeps ==
  ASSUME RecordsInv, NEW r \in Actors, Records!Load(r)
  PROVE  RecordsInv'
<1>1. x3[r].pc = "load" /\ x1' = x1 /\ x2' = x2 /\ x4' = x4
  BY DEF Records!Load
<1>2. x3[r] \in RecordCall
  BY <1>1, RecordCalls DEF RecordsInv, Records!TypeOK
<1>3. ~Records!Live(x3[r].id) => x3[r].raced
  BY <1>1 DEF RecordsInv, Stands, LiveIn, Records!Live
<1>4. ASSUME NEW code \in {200, 201, 500}, Records!Answer(r, code, FALSE),
             code = 500 => ~Records!Live(x3[r].id)
      PROVE  RecordsInv'
  <2>1. code \in Records!Codes /\ (code = 500 => x3[r].raced \/ FALSE)
    BY <1>3, <1>4 DEF Records!Codes
  <2> QED
    BY <1>1, <1>2, <1>4, <2>1, AnswerKeeps
<1>5. CASE ~Records!Live(x3[r].id)
  BY <1>4, <1>5 DEF Records!Load
<1>6. CASE Records!Live(x3[r].id) /\ x3[r].op = "insert"
  BY <1>4, <1>6 DEF Records!Load
<1>7. CASE Records!Live(x3[r].id) /\ x3[r].op # "insert"
  BY <1>4, <1>7 DEF Records!Load
<1> QED
  BY <1>5, <1>6, <1>7

LEMMA AfterStands ==
  ASSUME NEW c \in RecordCall
  PROVE  /\ After(c) \in Records!Call
         /\ \A rows : (Records!Kind(c.id) = "pod" /\ c.op \in {"insert", "update"} /\ ~c.raced
                         => LiveIn(rows, c.id))
                      => Stands(After(c), rows)
<1>1. CASE Records!Kind(c.id) = "pod" /\ c.op \in {"insert", "update"}
  <2>1. /\ After(c) \in RecordCall /\ After(c).pc = "load" /\ After(c).raced = c.raced
        /\ After(c).id = c.id
    BY <1>1 DEF After, RecordCall
  <2> QED
    BY <1>1, <2>1 DEF RecordCall, Records!Call, Stands
<1>2. CASE ~(Records!Kind(c.id) = "pod" /\ c.op \in {"insert", "update"})
  <2>1. After(c) \in RecordAnswer /\ After(c).pc = "done" /\ After(c).code # 500
    BY <1>2 DEF After, RecordCall, RecordAnswer, Records!Codes
  <2> QED
    BY <2>1 DEF RecordAnswer, Records!Call, Stands
<1> QED
  BY <1>1, <1>2

\* The row that is written is the one that was read, unless another write crossed.
LEMMA BaseAsRead ==
  ASSUME RecordsInv, NEW c, Checked(c), ~c.raced, c.op \in {"insert", "update"},
         c.op = "insert" \/ Records!There(c.id)
  PROVE  /\ Records!Base(c) = c.old
         /\ c.op = "insert" => ~Records!There(c.id)
         /\ c.op = "update" => Records!Live(c.id)
<1>1. \A check \in Needs(Records!Kind(c.id), c.op) : Holds(c, x2, check)
  BY DEF Checked, Under
<1>2. CASE c.op = "insert"
  <2>1. Records!Kind(c.id) = "pod" => "nextId" \in Needs(Records!Kind(c.id), c.op)
    BY <1>2 DEF Needs
  <2>2. Records!Kind(c.id) = "pod" => ~ThereIn(x2, c.id)
    BY <1>1, <2>1 DEF Holds, Records!Kinds
  <2> QED
    BY <1>2, <2>2 DEF Checked, Under, Records!Base, Records!There, ThereIn
<1>3. CASE c.op = "update"
  <2>1. "there" \in Needs(Records!Kind(c.id), c.op)
    BY <1>3 DEF Needs
  <2>2. LiveIn(x2, c.id) /\ c.old = x2[c.id]
    BY <1>1, <1>3, <2>1 DEF Holds, Records!There, LiveIn, ThereIn, Records!Kinds
  <2> QED
    BY <1>3, <2>2 DEF LiveIn, Records!Live, Records!Base
<1> QED
  BY <1>2, <1>3

LEMMA RefusalExplained ==
  ASSUME Records!RecordsAssumption, RecordsInv, NEW c, Checked(c), ~c.raced,
         c.op \in {"insert", "update"}, c.op = "insert" \/ Records!There(c.id),
         Records!Taken(c) \/ Records!Dangling(c)
  PROVE  Records!Hidden(c)
<1> DEFINE k == Records!Kind(c.id)
<1>1. /\ \A check \in Needs(k, c.op) : Holds(c, x2, check)
      /\ c.op = "insert" => c.old = Records!None /\ c.name # Records!Keep
      /\ UpFits(x2, c.id, c.up)
  BY DEF Checked, Under
<1>2. /\ Records!Base(c) = c.old /\ (c.op = "insert" => ~Records!There(c.id))
      /\ c.op = "update" => Records!Live(c.id)
  BY BaseAsRead
<1>3. c.id \in Records!Ids /\ DOMAIN x2 = Records!Ids /\ x1 \in RecordScenes /\ k \in Records!Kinds
  BY KindsOf DEF Checked, RecordCall, RecordsInv, Records!TypeOK
<1>4. CASE k \in {"region", "zone", "location", "defuser"} /\ Records!Namesakes(c, Records!Base(c)) # {}
  <2>1. PICK j \in Records!Namesakes(c, c.old) : TRUE
    BY <1>2, <1>4
  <2>2. /\ j \in Records!Ids \ {c.id} /\ Records!Kind(j) = k /\ Records!There(j)
        /\ x2[j].name = Records!NewName(c, c.old)
        /\ k \in {"zone", "location"} => x2[j].up = Records!Upward(c, c.old)
    BY <2>1 DEF Records!Namesakes
  <2>3. SUFFICES ASSUME Records!Live(j) PROVE FALSE
    BY <1>2, <2>1 DEF Records!Hidden
  <2>4. "named" \in Needs(k, c.op)
    BY <1>4 DEF Needs
  <2>5. c.name = Records!Keep /\ k \notin {"zone", "location"}
    BY <1>1, <1>3, <2>2, <2>3, <2>4 DEF Holds, Records!Kinds, Records!Live, LiveIn
  <2>6. c.op = "update" /\ c.old = x2[c.id] /\ Records!There(c.id) /\ c.old # Records!None
    BY <1>1, <1>2, <1>3, <2>5, RecordRows DEF Records!Base, RecordsInv
  <2>7. x2[j].name = x2[c.id].name
    BY <2>2, <2>5, <2>6 DEF Records!NewName
  <2> QED
    BY <1>3, <1>4, <2>2, <2>5, <2>6, <2>7 DEF RecordsInv, IndexHolds, Alike
<1>5. CASE Records!Dangling(c)
  <2>1. PICK p \in Records!Upward(c, Records!Base(c)) : k = "music" /\ ~Records!There(p)
    BY <1>5 DEF Records!Dangling
  <2>2. p \notin c.up
    <3>1. SUFFICES ASSUME p \in c.up PROVE FALSE
      OBVIOUS
    <3>2. Records!Kind(p) = "playlist"
      BY <1>1, <2>1, <3>1, Parents DEF UpFits
    <3>3. p \in Records!NamedBy(c, "playlist")
      BY <2>1, <3>1, <3>2 DEF Records!NamedBy, Records!Upward
    <3>4. "playlist" \in Needs(k, c.op)
      BY <2>1, Parents DEF Needs
    <3>5. LiveIn(x2, p)
      BY <1>1, <2>1, <3>3, <3>4 DEF Holds, Records!Kinds
    <3> QED
      BY <2>1, <3>5 DEF LiveIn, Records!There
  <2>3. c.old # Records!None /\ p \in c.old.up
    BY <1>2, <2>1, <2>2 DEF Records!Upward
  <2>4. c.old = x2[c.id] /\ Records!There(c.id)
    BY <1>2, <2>3 DEF Records!Base
  <2> QED
    BY <1>3, <2>1, <2>3, <2>4 DEF RecordsInv, SongsHaveLists
<1> QED
  BY <1>2, <1>4, <1>5 DEF Records!Taken

LEMMA WriteCases ==
  ASSUME Records!RecordsAssumption, RecordsInv, NEW r \in Actors, Records!Write(r)
  PROVE  RecordsInv' \/ Writes(r, x3[r])
<1>1. PICK c \in Records!Call : c = x3[r]
  BY DEF RecordsInv, Records!TypeOK
<1> DEFINE next == IF Records!Kind(c.id) = "pod" /\ c.op \in {"insert", "update"}
                   THEN [c EXCEPT !.pc = "load"]
                   ELSE [pc |-> "done", code |-> IF c.op = "insert" THEN 201 ELSE 200,
                         id |-> c.id, raced |-> c.raced, refused |-> FALSE]
<1>2. /\ c.pc = "checks" /\ c.checks = <<>> /\ x1' = x1
      /\ \/ /\ c.op # "insert" /\ ~Records!There(c.id)
            /\ x3' = [x3 EXCEPT ![r] = next]
            /\ x2' = x2 /\ x4' = x4
         \/ /\ c.op \in {"insert", "update"} /\ (c.op = "insert" \/ Records!There(c.id))
            /\ Records!Taken(c) \/ Records!Dangling(c)
            /\ Records!Answer(r, 500, Records!Hidden(c))
            /\ x2' = x2 /\ x4' = x4
         \/ /\ c.op = "purge"
            /\ Records!Answer(r, 500, TRUE)
            /\ x2' = x2 /\ x4' = x4
         \/ /\ c.op = "insert" \/ Records!There(c.id)
            /\ c.op \in {"insert", "update"} => ~(Records!Taken(c) \/ Records!Dangling(c))
            /\ x2' = Records!Store(c)
            /\ x3' = [Records!Raced(r, c.id, [up |-> Records!Upward(c, Records!Base(c))]) EXCEPT ![r] = next]
            /\ x4' = IF c.raced \/ c.op \in {"restore", "purge"} THEN x4 \cup {c.id} ELSE x4
  BY <1>1 DEF Records!Write
<1>3. next = After(c)
  BY DEF After
<1> HIDE DEF next
<1>4. c \in RecordCall /\ Under(c, x2)
  BY <1>1, <1>2, RecordCalls DEF RecordsInv, Stands
<1>5. Asked(c.checks) = {}
  BY <1>2 DEF Asked
<1>6. Checked(c)
  BY <1>2, <1>4, <1>5 DEF Checked
<1>7. CASE c.op # "insert" /\ ~Records!There(c.id) /\ x3' = [x3 EXCEPT ![r] = next] /\ x2' = x2 /\ x4' = x4
  <2>1. ASSUME Records!Kind(c.id) = "pod", c.op \in {"insert", "update"}, ~c.raced PROVE FALSE
    <3>1. "there" \in Needs(Records!Kind(c.id), c.op)
      BY <1>7, <2>1 DEF Needs
    <3>2. Holds(c, x2, "there")
      BY <1>6, <2>1, <3>1 DEF Checked, Under
    <3> QED
      BY <1>7, <2>1, <3>2 DEF Holds, Records!Kinds, LiveIn, Records!There
  <2>2. After(c) \in Records!Call /\ Stands(After(c), x2)
    BY <1>4, <2>1, AfterStands
  <2> QED
    BY <1>2, <1>3, <1>7, <2>2, OneCallMoves
<1>8. CASE /\ c.op \in {"insert", "update"} /\ (c.op = "insert" \/ Records!There(c.id))
           /\ Records!Taken(c) \/ Records!Dangling(c)
           /\ Records!Answer(r, 500, Records!Hidden(c))
           /\ x2' = x2 /\ x4' = x4
  <2>1. Records!Hidden(c) \in BOOLEAN /\ 500 \in Records!Codes
    BY DEF Records!Hidden, Records!Codes
  <2>2. x3[r].raced \/ Records!Hidden(c)
    BY <1>1, <1>6, <1>8, RefusalExplained
  <2> QED
    BY <1>1, <1>2, <1>4, <1>8, <2>1, <2>2, AnswerKeeps
<1>9. CASE c.op = "purge" /\ Records!Answer(r, 500, TRUE) /\ x2' = x2 /\ x4' = x4
  <2>1. TRUE \in BOOLEAN /\ 500 \in Records!Codes
    BY DEF Records!Codes
  <2> QED
    BY <1>1, <1>2, <1>4, <1>9, <2>1, AnswerKeeps
<1> QED
  BY <1>1, <1>2, <1>3, <1>6, <1>7, <1>8, <1>9 DEF Writes

LEMMA WrittenRows ==
  ASSUME Records!RecordsAssumption, RecordsInv, NEW r \in Actors, NEW c, Writes(r, c)
  PROVE  /\ c \in RecordCall /\ c.id \in Records!Ids /\ c.op \in Records!Ops
         /\ x2' \in [Records!Ids -> Records!Row \cup {Records!None, Records!Purged}]
         /\ \A id \in Records!Ids \ {c.id} :
              \/ x2'[id] = x2[id]
              \/ /\ Records!Kind(id) = "music" /\ x2'[id] = Records!Purged /\ c.op = "purge"
                 /\ Records!There(id) /\ c.id \in x2[id].up
         /\ c.op = "purge" =>
              /\ x2'[c.id] \in {Records!None, Records!Purged}
              /\ \A id \in Records!Ids \ {c.id} :
                   Records!Kind(id) = "music" /\ Records!There(id) /\ c.id \in x2[id].up
                   => x2'[id] = Records!Purged
         /\ c.op # "purge" => x2'[c.id] \in Records!Row /\ x2'[c.id].up = Records!Upward(c, Records!Base(c))
         /\ c.op \in {"insert", "update"} =>
              /\ x2'[c.id].name = Records!NewName(c, Records!Base(c))
              /\ x2'[c.id].state = IF c.op = "insert" THEN "live" ELSE x2[c.id].state
         /\ c.op \in {"remove", "restore"} =>
              /\ x2'[c.id].name = x2[c.id].name /\ x2'[c.id].up = x2[c.id].up
              /\ x2'[c.id].state = IF c.op = "remove" THEN "deleted" ELSE "live"
<1>1. c \in RecordCall /\ c.id \in Records!Ids /\ c.op \in Records!Ops /\ c.up \subseteq Records!Ids
  BY DEF Writes, Checked, RecordCall
<1>2. /\ c.op = "insert" => c.name # Records!Keep
      /\ c.op \notin {"insert", "update"} => c.up = {}
      /\ c.op # "insert" => Records!There(c.id)
  BY DEF Writes, Checked, Under
<1>3. x2 \in [Records!Ids -> Records!Row \cup {Records!None, Records!Purged}] /\ x1 \in RecordScenes
  BY DEF RecordsInv, Records!TypeOK
<1>4. c.op # "insert" => Records!Base(c) = x2[c.id] /\ x2[c.id] \in Records!Row
  BY <1>1, <1>2, RecordRows DEF Records!Base, RecordsInv
<1>5. c.op = "insert" => Records!Base(c) = Records!None
  BY DEF Records!Base
<1>6. Records!None \notin Records!Row
  BY DEF Records!None, Records!Row
<1>7. x2' = [id \in Records!Ids |->
               IF id = c.id THEN Records!Written(c)
               ELSE IF c.op = "purge" /\ Records!Kind(id) = "music" /\ Records!There(id) /\ c.id \in x2[id].up
               THEN Records!Purged ELSE x2[id]]
  BY DEF Writes, Records!Store
<1>8. Records!Upward(c, Records!Base(c)) \subseteq Records!Kinds \X Nat
  <2>1. \A p \in c.up : p \in Records!Kinds \X Nat
    BY <1>1, <1>3, KindsOf
  <2>2. x2[c.id] \in Records!Row => x2[c.id].up \subseteq Records!Kinds \X Nat
    BY DEF Records!Row
  <2>3. \A row : Records!Upward(c, row) \subseteq c.up \cup IF row = Records!None THEN {} ELSE row.up
    BY DEF Records!Upward
  <2> QED
    BY <1>4, <1>5, <2>1, <2>2, <2>3
<1>9. CASE c.op \in {"insert", "update"}
  <2> DEFINE w == [name |-> Records!NewName(c, Records!Base(c)), up |-> Records!Upward(c, Records!Base(c)),
                   state |-> IF c.op = "insert" THEN "live" ELSE x2[c.id].state]
  <2>1. Records!Written(c) = w
    BY <1>9 DEF Records!Written
  <2>2. Records!NewName(c, Records!Base(c)) \in RowNames
    <3>1. c.name \in RowNames \cup {Records!Keep}
      BY <1>1 DEF RecordCall
    <3>2. x2[c.id] \in Records!Row => x2[c.id].name \in RowNames
      BY DEF Records!Row
    <3> QED
      BY <1>2, <1>4, <1>5, <1>6, <1>9, <3>1, <3>2 DEF Records!NewName
  <2>3. x2[c.id] \in Records!Row => x2[c.id].state \in {"live", "deleted"}
    BY DEF Records!Row
  <2>4. w \in Records!Row
    BY <1>4, <1>8, <1>9, <2>2, <2>3 DEF Records!Row
  <2>5. x2'[c.id] = w
    BY <1>1, <1>7, <2>1
  <2> QED
    BY <1>1, <1>3, <1>7, <1>9, <2>1, <2>4, <2>5
<1>10. CASE c.op \in {"remove", "restore"}
  <2> DEFINE w == [x2[c.id] EXCEPT !.state = IF c.op = "remove" THEN "deleted" ELSE "live"]
  <2>1. Records!Written(c) = w
    BY <1>10 DEF Records!Written
  <2>2. /\ w \in Records!Row /\ w.name = x2[c.id].name /\ w.up = x2[c.id].up
        /\ w.state = IF c.op = "remove" THEN "deleted" ELSE "live"
    BY <1>4, <1>10 DEF Records!Row
  <2>3. Records!Upward(c, Records!Base(c)) = x2[c.id].up
    BY <1>2, <1>4, <1>6, <1>10 DEF Records!Upward
  <2>4. x2'[c.id] = w
    BY <1>1, <1>7, <2>1
  <2> QED
    BY <1>1, <1>3, <1>7, <1>10, <2>1, <2>2, <2>3, <2>4
<1>11. CASE c.op = "purge"
  <2>1. Records!Written(c) \in {Records!None, Records!Purged}
    BY <1>11 DEF Records!Written
  <2>2. x2'[c.id] \in {Records!None, Records!Purged}
    BY <1>1, <1>7, <2>1
  <2> QED
    BY <1>1, <1>3, <1>7, <1>11, <2>1, <2>2
<1> QED
  BY <1>1, <1>9, <1>10, <1>11 DEF Records!Ops

\* What a row that is written names is there, of the right tables.
LEMMA WrittenFits ==
  ASSUME Records!RecordsAssumption, RecordsInv, NEW r \in Actors, NEW c, Writes(r, c), c.op # "purge"
  PROVE  UpFits(x2, c.id, Records!Upward(c, Records!Base(c)))
<1>1. UpFits(x2, c.id, c.up)
  BY DEF Writes, Checked, Under
<1>2. Records!Base(c) # Records!None => UpFits(x2, c.id, Records!Base(c).up)
  BY WrittenRows DEF Records!Base, RecordsInv, RowsFit
<1>3. \A row : Records!Upward(c, row) \subseteq c.up \cup IF row = Records!None THEN {} ELSE row.up
  BY DEF Records!Upward
<1> QED
  BY <1>1, <1>2, <1>3 DEF UpFits

LEMMA WriteTyped ==
  ASSUME Records!RecordsAssumption, RecordsInv, NEW r \in Actors, NEW c, Writes(r, c)
  PROVE  Records!TypeOK' /\ Records!Ids' = Records!Ids /\ x4 \subseteq x4'
<1>1. x1' = x1 /\ Records!Ids' = Records!Ids
  BY DEF Writes, Records!Ids
<1>2. c.id \in Records!Ids /\ c \in RecordCall
  BY WrittenRows
<1>3. x4' \subseteq Records!Ids /\ x4 \subseteq x4'
  BY <1>2 DEF Writes, RecordsInv, Records!TypeOK
<1>4. After(c) \in Records!Call
  BY <1>2, AfterStands
<1> DEFINE row == [up |-> Records!Upward(c, Records!Base(c))]
<1>5. ASSUME NEW q \in Actors PROVE Records!Raced(r, c.id, row)[q] \in Records!Call
  <2>1. CASE x3[q].pc \in {"checks", "load"}
    <3>1. x3[q] \in RecordCall
      BY <2>1, RecordCalls DEF RecordsInv, Records!TypeOK
    <3>2. [x3[q] EXCEPT !.raced = TRUE] \in RecordCall
      BY <3>1 DEF RecordCall
    <3> QED
      BY <3>1, <3>2 DEF Records!Raced, RecordCall, Records!Call
  <2>2. CASE x3[q].pc \notin {"checks", "load"}
    BY <2>2 DEF Records!Raced, RecordsInv, Records!TypeOK
  <2> QED
    BY <2>1, <2>2
<1>6. Records!Raced(r, c.id, row) \in [Actors -> Records!Call]
  BY <1>5 DEF Records!Raced
<1> HIDE DEF row
<1>7. x3' = [Records!Raced(r, c.id, row) EXCEPT ![r] = After(c)]
  BY DEF Writes, row
<1>8. x3' \in [Actors -> Records!Call]
  BY <1>4, <1>6, <1>7
<1>9. x3' \in [Actors -> Records!Call]'
  BY <1>1, <1>8 DEF Records!Call
<1>10. x2' \in [Records!Ids -> Records!Row \cup {Records!None, Records!Purged}]
  BY WrittenRows
<1> QED
  BY <1>1, <1>3, <1>9, <1>10 DEF Records!TypeOK, RecordsInv

LEMMA WriteFits ==
  ASSUME Records!RecordsAssumption, RecordsInv, NEW r \in Actors, NEW c, Writes(r, c)
  PROVE  RowsFit' /\ SongsHaveLists'
<1>1. Records!Ids' = Records!Ids /\ DOMAIN x2' = Records!Ids /\ DOMAIN x2 = Records!Ids
  BY WriteTyped, WrittenRows DEF RecordsInv, Records!TypeOK
<1>2. \A id \in Records!Ids \ {c.id} : Records!There(id)' => x2'[id] = x2[id] /\ Records!There(id)
  BY WrittenRows DEF Records!There, Records!Purged
<1>3. Records!There(c.id)' => c.op # "purge" /\ x2'[c.id].up = Records!Upward(c, Records!Base(c))
  BY WrittenRows DEF Records!There, Records!Purged, Records!None
<1>4. ASSUME NEW id \in Records!Ids, Records!There(id)' PROVE UpFits(x2, id, x2'[id].up)
  <2>1. CASE id = c.id
    BY <1>3, <1>4, <2>1, WrittenFits
  <2>2. CASE id # c.id
    BY <1>2, <1>4, <2>2 DEF RecordsInv, RowsFit
  <2> QED
    BY <2>1, <2>2
<1>5. RowsFit'
  BY <1>1, <1>4 DEF RowsFit, UpFits
<1>6. ASSUME NEW id \in Records!Ids, Records!Kind(id) = "music", Records!There(id)', NEW p \in x2'[id].up
      PROVE  Records!There(p)'
  <2>1. p \in Records!Ids /\ Records!Kind(p) = "playlist"
    BY <1>1, <1>4, <1>6, Parents DEF UpFits
  <2>2. Records!There(p) /\ ~(c.op = "purge" /\ p = c.id)
    <3>1. CASE id = c.id /\ c.op \in {"insert", "update"}
      <4>1. ~Records!Dangling(c)
        BY <3>1 DEF Writes
      <4> QED
        BY <1>3, <1>6, <3>1, <4>1 DEF Records!Dangling
    <3>2. CASE id = c.id /\ c.op \notin {"insert", "update"}
      <4>1. c.op \in {"remove", "restore"} /\ x2'[id].up = x2[id].up /\ Records!There(id)
        BY <1>3, <1>6, <3>2, WrittenRows DEF Writes, Records!Ops
      <4> QED
        BY <1>6, <4>1 DEF RecordsInv, SongsHaveLists
    <3>3. CASE id # c.id
      <4>1. x2'[id] = x2[id] /\ Records!There(id)
        BY <1>2, <1>6, <3>3
      <4>2. Records!There(p)
        BY <1>6, <4>1 DEF RecordsInv, SongsHaveLists
      <4>3. c.op = "purge" /\ c.id = p => x2'[id] = Records!Purged
        BY <1>6, <3>3, <4>1, WrittenRows
      <4> QED
        BY <1>6, <4>2, <4>3 DEF Records!There, Records!Purged
    <3> QED
      BY <3>1, <3>2, <3>3
  <2>3. CASE p # c.id
    <3>1. x2'[p] = x2[p]
      BY <2>1, <2>3, WrittenRows
    <3> QED
      BY <2>2, <3>1 DEF Records!There
  <2>4. CASE p = c.id
    <3>1. x2'[p] \in Records!Row
      BY <2>2, <2>4, WrittenRows
    <3> QED
      BY <3>1 DEF Records!There, Records!Row
  <2> QED
    BY <2>3, <2>4
<1>7. SongsHaveLists'
  BY <1>1, <1>6 DEF SongsHaveLists
<1> QED
  BY <1>5, <1>7

LEMMA WriteUnique ==
  ASSUME Records!RecordsAssumption, RecordsInv, NEW r \in Actors, NEW c, Writes(r, c)
  PROVE  IndexHolds'
<1>1. Records!Ids' = Records!Ids
  BY WriteTyped
<1>2. \A id \in Records!Ids \ {c.id} : Records!There(id)' => x2'[id] = x2[id] /\ Records!There(id)
  BY WrittenRows DEF Records!There, Records!Purged
<1>3. c.id \in Records!Ids /\ (Records!There(c.id)' => c.op \in {"insert", "update", "remove", "restore"})
  BY WrittenRows DEF Records!There, Records!Purged, Records!None, Records!Ops
<1>4. ASSUME NEW j \in Records!Ids, j # c.id, Records!Kind(c.id) = Records!Kind(j),
             Records!Kind(j) \in {"region", "zone", "location", "defuser"},
             Records!There(c.id)', Records!There(j)',
             x2'[c.id].name = x2'[j].name,
             Records!Kind(j) \in {"zone", "location"} => x2'[c.id].up = x2'[j].up
      PROVE  FALSE
  <2>1. x2'[j] = x2[j] /\ Records!There(j)
    BY <1>2, <1>4
  <2>2. CASE c.op \in {"insert", "update"}
    <3>1. j \in Records!Namesakes(c, Records!Base(c))
      BY <1>4, <2>1, <2>2, WrittenRows DEF Records!Namesakes
    <3> QED
      BY <1>4, <2>2, <3>1 DEF Writes, Records!Taken
  <2>3. CASE c.op \in {"remove", "restore"}
    <3>1. x2'[c.id].name = x2[c.id].name /\ x2'[c.id].up = x2[c.id].up /\ Records!There(c.id)
      BY <2>3, WrittenRows DEF Writes
    <3> QED
      BY <1>3, <1>4, <2>1, <3>1 DEF RecordsInv, IndexHolds, Alike
  <2> QED
    BY <1>3, <1>4, <2>2, <2>3
<1>5. ASSUME NEW i \in Records!Ids, NEW j \in Records!Ids, i # j, Records!Kind(i) = Records!Kind(j),
             Records!Kind(i) \in {"region", "zone", "location", "defuser"},
             Records!There(i)', Records!There(j)',
             x2'[i].name = x2'[j].name,
             Records!Kind(i) \in {"zone", "location"} => x2'[i].up = x2'[j].up
      PROVE  FALSE
  <2>1. CASE i # c.id /\ j # c.id
    BY <1>2, <1>5, <2>1 DEF RecordsInv, IndexHolds, Alike
  <2>2. CASE i = c.id
    BY <1>4, <1>5, <2>2
  <2>3. CASE j = c.id
    BY <1>4, <1>5, <2>3
  <2> QED
    BY <2>1, <2>2, <2>3
<1> QED
  BY <1>1, <1>5 DEF IndexHolds, Alike

\* A write that nobody crossed put nothing live into what is not, and took nothing away from
\* below what is.
LEMMA WriteStands ==
  ASSUME Records!RecordsAssumption, RecordsInv, NEW r \in Actors, NEW c, Writes(r, c)
  PROVE  Records!PlacesStand'
<1> DEFINE places == {"region", "zone", "defuser"}
<1>1. Records!Ids' = Records!Ids /\ x4 \subseteq x4' /\ DOMAIN x2 = Records!Ids /\ x1 \in RecordScenes
  BY WriteTyped DEF RecordsInv, Records!TypeOK
<1>2. /\ c.id \in Records!Ids /\ c.op \in {"insert", "update", "remove", "restore", "purge"}
      /\ c.raced \in BOOLEAN
  BY WrittenRows DEF Records!Ops, RecordCall
<1>3. c.id \notin x4' => ~c.raced /\ c.op \notin {"restore", "purge"}
  BY DEF Writes
<1>4. \A id \in Records!Ids \ {c.id} :
        /\ Records!Live(id)' => x2'[id] = x2[id] /\ Records!Live(id)
        /\ Records!Kind(id) # "music" => x2'[id] = x2[id]
  BY WrittenRows DEF Records!Live, Records!Purged
<1>5. ~c.raced => \A check \in Needs(Records!Kind(c.id), c.op) : Holds(c, x2, check)
  BY DEF Writes, Checked, Under
<1>6. RowsFit'
  BY WriteFits
<1>7. SUFFICES ASSUME NEW id \in Records!Ids \ x4', Records!Live(id)', NEW p \in x2'[id].up,
                      Records!Kind(p) \in places, ~Records!Live(p)', p \notin x4'
               PROVE  FALSE
  BY <1>1 DEF Records!PlacesStand
<1>8. p \in Records!Ids /\ Records!Kind(p) \in Records!Parent[Records!Kind(id)]
  BY <1>1, <1>6, <1>7, WriteTyped DEF RowsFit, UpFits, Records!There, Records!Live, Records!TypeOK
<1>9. Records!Kind(id) \in Records!Kinds /\ p # id
  BY <1>1, <1>7, <1>8, KindsOf, Parents
<1>10. CASE id = c.id
  <2>1. ~c.raced /\ c.op \in {"insert", "update"}
    <3>1. c.op # "remove"
      BY <1>7, <1>10, WrittenRows DEF Records!Live
    <3> QED
      BY <1>2, <1>3, <1>7, <1>10, <3>1
  <2>2. x2'[id].up = Records!Upward(c, Records!Base(c))
    BY <1>10, <2>1, WrittenRows
  <2>3. Records!Base(c) = c.old
    BY <2>1, BaseAsRead DEF Writes
  <2>4. Records!Kind(id) \in {"zone", "location", "pod"}
    BY <1>7, <1>8, <1>9, Parents DEF Records!Kinds
  <2>5. p \in Records!NamedBy(c, Records!Kind(p))
    BY <1>7, <1>10, <2>2, <2>3, <2>4 DEF Records!NamedBy
  <2>6. Records!Kind(p) \in Needs(Records!Kind(c.id), c.op)
    BY <1>8, <1>10, <2>1 DEF Needs
  <2>7. LiveIn(x2, p)
    BY <1>5, <1>7, <1>10, <2>1, <2>4, <2>5, <2>6 DEF Holds, Records!Kinds
  <2> QED
    BY <1>4, <1>7, <1>8, <1>9, <1>10, <2>7 DEF LiveIn, Records!Live
<1>11. CASE id # c.id
  <2>1. x2'[id] = x2[id] /\ Records!Live(id) /\ p \in x2[id].up
    BY <1>4, <1>7, <1>11
  <2>2. Records!Live(p)
    BY <1>1, <1>7, <2>1 DEF RecordsInv, Records!PlacesStand
  <2>3. p = c.id
    BY <1>4, <1>7, <1>8, <2>2 DEF Records!Live
  <2>4. ~c.raced /\ c.op \in {"insert", "update", "remove"}
    BY <1>2, <1>3, <1>7, <2>3
  <2>5. CASE c.op \in {"insert", "update"}
    BY <1>7, <2>2, <2>3, <2>5, WrittenRows DEF Records!Live
  <2>6. CASE c.op = "remove"
    <3>1. "childless" \in Needs(Records!Kind(c.id), c.op)
      BY <1>7, <2>3, <2>6 DEF Needs
    <3> QED
      BY <1>1, <1>5, <2>1, <2>3, <2>4, <3>1 DEF Holds, Records!Kinds, LiveIn, Records!Live
  <2> QED
    BY <2>4, <2>5, <2>6
<1> QED
  BY <1>10, <1>11

LEMMA WriteTellsApart ==
  ASSUME Records!RecordsAssumption, RecordsInv, NEW r \in Actors, NEW c, Writes(r, c)
  PROVE  Records!NamesTellApart'
<1>1. Records!Ids' = Records!Ids /\ x4 \subseteq x4' /\ DOMAIN x2 = Records!Ids /\ x1 \in RecordScenes
  BY WriteTyped DEF RecordsInv, Records!TypeOK
<1>2. /\ c.id \in Records!Ids /\ c.op \in {"insert", "update", "remove", "restore", "purge"}
      /\ c.raced \in BOOLEAN /\ Records!Kind(c.id) \in Records!Kinds
  BY <1>1, WrittenRows, KindsOf DEF Records!Ops, RecordCall
<1>3. c.id \notin x4' => ~c.raced /\ c.op \notin {"restore", "purge"}
  BY DEF Writes
<1>4. \A id \in Records!Ids \ {c.id} : Records!Live(id)' => x2'[id] = x2[id] /\ Records!Live(id)
  BY WrittenRows DEF Records!Live, Records!Purged
<1>5. /\ ~c.raced => \A check \in Needs(Records!Kind(c.id), c.op) : Holds(c, x2, check)
      /\ c.op = "insert" => c.name # Records!Keep
  BY DEF Writes, Checked, Under
<1>6. ASSUME c.id \notin x4', NEW j \in Records!Ids \ x4', j # c.id,
             Records!Kind(j) = Records!Kind(c.id), Records!Kind(j) \notin {"pod", "music"},
             Records!Live(c.id)', Records!Live(j)', x2'[c.id].name = x2'[j].name
      PROVE  Records!Kind(j) \in {"zone", "location"} /\ x2'[c.id].up # x2'[j].up
  <2>1. x2'[j] = x2[j] /\ Records!Live(j)
    BY <1>4, <1>6
  <2>2. ~c.raced /\ c.op \in {"insert", "update"}
    <3>1. c.op # "remove"
      BY <1>6, WrittenRows DEF Records!Live
    <3> QED
      BY <1>2, <1>3, <1>6, <3>1
  <2>3. /\ Records!Base(c) = c.old /\ (c.op = "update" => Records!Live(c.id))
    BY <2>2, BaseAsRead DEF Writes
  <2>4. /\ x2'[c.id].name = Records!NewName(c, c.old) /\ x2'[c.id].up = Records!Upward(c, c.old)
    BY <2>2, <2>3, WrittenRows
  <2>5. "named" \in Needs(Records!Kind(c.id), c.op)
    BY <1>6, <2>2 DEF Needs
  <2>6. Holds(c, x2, "named")
    BY <1>5, <2>2, <2>5
  <2>7. CASE c.name = Records!Keep /\ Records!Kind(c.id) \notin {"zone", "location"}
    <3>1. c.op = "update" /\ Records!Live(c.id) /\ c.old = x2[c.id] /\ c.old # Records!None
      BY <1>2, <1>5, <2>2, <2>3, <2>7, RecordRows DEF Records!Base, Records!There, Records!Live, RecordsInv
    <3>2. x2'[c.id].name = x2[c.id].name
      BY <2>4, <2>7, <3>1 DEF Records!NewName
    <3> QED
      BY <1>1, <1>2, <1>6, <2>1, <2>7, <3>1, <3>2 DEF RecordsInv, Records!NamesTellApart
  <2>8. CASE ~(c.name = Records!Keep /\ Records!Kind(c.id) \notin {"zone", "location"})
    BY <1>1, <1>6, <2>1, <2>4, <2>6, <2>8 DEF Holds, Records!Kinds, LiveIn, Records!Live
  <2> QED
    BY <2>7, <2>8
<1>7. ASSUME NEW i \in Records!Ids \ x4', NEW j \in Records!Ids \ x4', i # j,
             Records!Kind(i) = Records!Kind(j), Records!Kind(i) \notin {"pod", "music"},
             Records!Live(i)', Records!Live(j)', x2'[i].name = x2'[j].name
      PROVE  Records!Kind(i) \in {"zone", "location"} /\ x2'[i].up # x2'[j].up
  <2>1. CASE i # c.id /\ j # c.id
    BY <1>1, <1>4, <1>7, <2>1 DEF RecordsInv, Records!NamesTellApart
  <2>2. CASE i = c.id
    BY <1>6, <1>7, <2>2
  <2>3. CASE j = c.id
    BY <1>6, <1>7, <2>3
  <2> QED
    BY <2>1, <2>2, <2>3
<1> QED
  BY <1>1, <1>7 DEF Records!NamesTellApart

\* What the checks of a call look at is named by the call or by its row.
LEMMA NamedAreUp ==
  ASSUME Records!RecordsAssumption, RecordsInv, NEW d \in RecordCall, Under(d, x2), ~d.raced,
         NEW x \in Needs(Records!Kind(d.id), d.op) \ Asked(d.checks),
         x \in Records!Kinds, NEW p \in Records!NamedBy(d, x)
  PROVE  p \in Records!Ids /\ Records!Kind(p) = x /\ p \in Records!Upward(d, Records!Base(d))
<1>1. /\ d.id \in Records!Ids /\ DOMAIN x2 = Records!Ids /\ UpFits(x2, d.id, d.up)
      /\ d.op \in {"insert", "update", "remove", "restore", "purge"}
      /\ Records!Kind(p) = x
  BY DEF Under, RecordCall, RecordsInv, Records!TypeOK, Records!Ops, Records!NamedBy
<1>2. d.op \in {"insert", "update"}
  BY <1>1 DEF Needs, Records!Kinds
<1>3. \A row : d.up \subseteq Records!Upward(d, row)
  BY DEF Records!Upward
<1>4. CASE p \in d.up
  BY <1>1, <1>3, <1>4 DEF UpFits
<1>5. CASE p \notin d.up
  <2>1. /\ Records!Kind(d.id) \notin {"music", "mood"} /\ d.old # Records!None
        /\ p \in d.old.up /\ p \in Records!Upward(d, d.old)
    BY <1>5 DEF Records!NamedBy, Records!Upward
  <2>2. d.op = "update"
    BY <1>2, <2>1 DEF Under
  <2>3. "there" \in Needs(Records!Kind(d.id), d.op) \ Asked(d.checks)
    <3>1. "there" \notin Asked(d.checks)
      BY DEF Under, InOrder, Asked
    <3> QED
      BY <2>2, <3>1 DEF Needs
  <2>4. LiveIn(x2, d.id) /\ d.old = x2[d.id]
    BY <2>1, <2>3 DEF Under, Holds, Records!Kinds
  <2>5. Records!Base(d) = d.old /\ Records!There(d.id)
    BY <2>2, <2>4 DEF Records!Base, Records!There, LiveIn
  <2>6. UpFits(x2, d.id, x2[d.id].up)
    BY <1>1, <2>5 DEF RecordsInv, RowsFit
  <2> QED
    BY <1>1, <2>1, <2>4, <2>5, <2>6 DEF UpFits
<1> QED
  BY <1>4, <1>5

\* What a call has checked still holds after a write that does not matter to it.
LEMMA CheckedStill ==
  ASSUME Records!RecordsAssumption, RecordsInv, NEW r \in Actors, NEW c, Writes(r, c),
         NEW d \in RecordCall, Under(d, x2), ~d.raced,
         ~Records!Matters(c.id, [up |-> Records!Upward(c, Records!Base(c))], d)
  PROVE  Under(d, x2')
<1>1. /\ c.id # d.id /\ Records!Kind(c.id) # Records!Kind(d.id)
      /\ c.id \notin Records!Upward(d, Records!Base(d))
      /\ d.id \notin Records!Upward(c, Records!Base(c))
  BY DEF Records!Matters
<1>2. /\ d.id \in Records!Ids /\ DOMAIN x2 = Records!Ids /\ DOMAIN x2' = Records!Ids /\ x1 \in RecordScenes
      /\ d.op \in {"insert", "update", "remove", "restore", "purge"}
  BY WrittenRows DEF RecordCall, RecordsInv, Records!TypeOK, Records!Ops
<1>3. \A id \in Records!Ids \ {c.id} :
        /\ x2'[id] = x2[id] \/ (Records!Kind(id) = "music" /\ ~LiveIn(x2', id) /\ ~ThereIn(x2', id))
        /\ Records!Kind(id) # "music" => x2'[id] = x2[id]
  BY WrittenRows DEF LiveIn, ThereIn, Records!Purged
<1>4. LiveIn(x2', c.id) => x2'[c.id].up = Records!Upward(c, Records!Base(c))
  BY WrittenRows DEF LiveIn, Records!None, Records!Purged
<1>5. ~ThereIn(x2, d.id) => ~ThereIn(x2', d.id)
  BY <1>1, <1>2, <1>3 DEF ThereIn
<1>6. ASSUME NEW x \in Needs(Records!Kind(d.id), d.op) \ Asked(d.checks) PROVE Holds(d, x2', x)
  <2>0. Holds(d, x2, x)
    BY DEF Under
  <2>1. x \in {"there", "nextId", "named", "childless", "region", "zone", "location", "defuser", "playlist"}
    BY <1>2, KindsOf, Parents DEF Needs
  <2>2. CASE x = "there"
    BY <1>1, <1>2, <1>3, <1>5, <2>0, <2>2 DEF Holds, Records!Kinds, LiveIn
  <2>3. CASE x = "nextId"
    BY <1>5, <2>0, <2>3 DEF Holds, Records!Kinds
  <2>4. CASE x = "named"
    <3>1. \A j \in Records!Ids : Records!Kind(j) = Records!Kind(d.id) /\ LiveIn(x2', j) => x2'[j] = x2[j]
      BY <1>1, <1>3
    <3> QED
      BY <1>2, <2>0, <2>4, <3>1 DEF Holds, Records!Kinds, LiveIn
  <2>5. CASE x = "childless"
    <3>1. \A j \in Records!Ids : LiveIn(x2, j) => d.id \notin x2[j].up
      BY <1>2, <2>0, <2>5 DEF Holds, Records!Kinds
    <3>2. ASSUME NEW j \in Records!Ids, LiveIn(x2', j) PROVE d.id \notin x2'[j].up
      <4>1. CASE j = c.id
        BY <1>1, <1>4, <3>2, <4>1
      <4>2. CASE j # c.id
        BY <1>3, <3>1, <3>2, <4>2 DEF LiveIn
      <4> QED
        BY <4>1, <4>2
    <3> QED
      BY <1>2, <2>5, <3>2 DEF Holds, Records!Kinds
  <2>6. CASE x \in {"region", "zone", "location", "defuser", "playlist"}
    <3>1. ASSUME NEW p \in Records!NamedBy(d, x), LiveIn(x2, p) PROVE LiveIn(x2', p)
      <4>1. p \in Records!Ids /\ Records!Kind(p) = x /\ p # c.id
        BY <1>1, <1>6, <2>6, NamedAreUp DEF Records!Kinds
      <4> QED
        BY <1>3, <2>6, <3>1, <4>1 DEF LiveIn
    <3> QED
      BY <2>0, <2>6, <3>1 DEF Holds, Records!Kinds
  <2> QED
    BY <2>1, <2>2, <2>3, <2>4, <2>5, <2>6
<1>7. UpFits(x2', d.id, d.up)
  BY <1>2 DEF Under, UpFits
<1> QED
  BY <1>5, <1>6, <1>7 DEF Under, ThereIn

LEMMA OthersStand ==
  ASSUME Records!RecordsAssumption, RecordsInv, NEW r \in Actors, NEW c, Writes(r, c),
         NEW q \in Actors, q # r
  PROVE  Stands(x3'[q], x2')
<1> DEFINE row == [up |-> Records!Upward(c, Records!Base(c))]
<1>1. PICK d : d = x3[q]
  OBVIOUS
<1>2. d \in Records!Call /\ Stands(d, x2)
  BY <1>1 DEF RecordsInv, Records!TypeOK
<1>3. x3'[q] = IF d.pc \in {"checks", "load"} /\ Records!Matters(c.id, row, d)
               THEN [d EXCEPT !.raced = TRUE] ELSE d
  <2>1. Records!Raced(r, c.id, row)[q]
          = IF d.pc \in {"checks", "load"} /\ Records!Matters(c.id, row, d)
            THEN [d EXCEPT !.raced = TRUE] ELSE d
    BY <1>1 DEF Records!Raced
  <2>2. q \in DOMAIN Records!Raced(r, c.id, row)
    BY DEF Records!Raced
  <2>3. x3' = [Records!Raced(r, c.id, row) EXCEPT ![r] = After(c)]
    BY DEF Writes
  <2> HIDE DEF row
  <2> QED
    BY <2>1, <2>2, <2>3
<1>4. DOMAIN x2' = DOMAIN x2
  BY WrittenRows DEF RecordsInv, Records!TypeOK
<1>5. ASSUME NEW e, d \in RecordCall, e = d \/ e = [d EXCEPT !.raced = TRUE], e.raced = TRUE
      PROVE  Stands(e, x2')
  <2>1. /\ e.pc = d.pc /\ e.op = d.op /\ e.id = d.id /\ e.up = d.up /\ e.checks = d.checks
        /\ e.old = d.old /\ e.name = d.name
    BY <1>5 DEF RecordCall
  <2>2. d.pc = "checks" => Under(e, x2')
    <3>1. d.pc = "checks" => Under(d, x2)
      BY <1>2 DEF Stands
    <3>2. UpFits(x2, d.id, d.up) => UpFits(x2', d.id, d.up)
      BY <1>4 DEF UpFits
    <3> QED
      BY <1>5, <2>1, <3>1, <3>2 DEF Under
  <2> QED
    BY <1>2, <1>5, <2>1, <2>2 DEF Stands, RecordCall
<1>6. CASE d.pc \in {"checks", "load"} /\ (d.raced \/ Records!Matters(c.id, row, d))
  <2>1. d \in RecordCall
    BY <1>2, <1>6, RecordCalls
  <2>2. x3'[q] = d \/ x3'[q] = [d EXCEPT !.raced = TRUE]
    BY <1>3
  <2>3. x3'[q].raced = TRUE
    BY <1>3, <1>6, <2>1 DEF RecordCall
  <2> QED
    BY <1>5, <2>1, <2>2, <2>3
<1>7. CASE d.pc \in {"checks", "load"} /\ ~d.raced /\ ~Records!Matters(c.id, row, d)
  <2>1. d \in RecordCall /\ x3'[q] = d
    BY <1>2, <1>3, <1>7, RecordCalls
  <2>2. CASE d.pc = "checks"
    BY <1>2, <1>7, <2>1, <2>2, CheckedStill DEF Stands
  <2>3. CASE d.pc = "load"
    <3>1. Records!Kind(d.id) = "pod" /\ LiveIn(x2, d.id) /\ d.id # c.id /\ d.id \in Records!Ids
      BY <1>2, <1>7, <2>1, <2>3 DEF Stands, Records!Matters, RecordCall
    <3>2. x2'[d.id] = x2[d.id]
      BY <3>1, WrittenRows
    <3> QED
      BY <2>1, <2>3, <3>1, <3>2 DEF Stands, LiveIn
  <2> QED
    BY <1>7, <2>2, <2>3
<1>8. CASE d.pc \notin {"checks", "load"}
  BY <1>2, <1>3, <1>8 DEF Stands
<1>9. d.pc \in {"checks", "load"} => d.raced \in BOOLEAN
  BY <1>2, RecordCalls DEF RecordCall
<1> QED
  BY <1>6, <1>7, <1>8, <1>9

LEMMA WriteKeeps ==
  ASSUME Records!RecordsAssumption, RecordsInv, NEW r \in Actors, Records!Write(r)
  PROVE  RecordsInv'
<1>1. SUFFICES ASSUME NEW c, c = x3[r], Writes(r, c) PROVE RecordsInv'
  BY WriteCases
<1>2. c \in RecordCall /\ c.raced \in BOOLEAN
  BY <1>1, WrittenRows DEF RecordCall
<1>3. x3'[r] = After(c)
  BY <1>1 DEF Writes, Records!Raced
<1>4. ASSUME Records!Kind(c.id) = "pod", c.op \in {"insert", "update"}, ~c.raced PROVE LiveIn(x2', c.id)
  BY <1>1, <1>4, BaseAsRead, WrittenRows DEF Writes, LiveIn, Records!Live
<1>5. Stands(x3'[r], x2')
  BY <1>2, <1>3, <1>4, AfterStands
<1>6. \A q \in Actors : Stands(x3'[q], x2')
  BY <1>1, <1>5, OthersStand
<1> QED
  BY <1>1, <1>6, WriteTyped, WriteFits, WriteUnique, WriteStands, WriteTellsApart DEF RecordsInv

----------------------------------------------------------------------------
LEMMA RecordsInitially == ASSUME Records!RecordsAssumption, Records!Init PROVE RecordsInv
<1>1. PICK live \in SUBSET {<<k, 1>> : k \in x1} :
        /\ x2 = Records!First(live)
        /\ \A id \in Records!Ids : Records!Live(id) => \A p \in x2[id].up : Records!Live(p)
  BY DEF Records!Init
<1> DEFINE ups(id) == {<<p, 1>> : p \in Records!Parent[Records!Kind(id)] \cap x1}
           row(id) == [name |-> CHOOSE n \in RowNames : TRUE, up |-> ups(id), state |-> "live"]
           other(id) == CHOOSE n \in RowNames : n # row(id).name
<1>2. /\ x1 \in RecordScenes /\ x1 \subseteq Records!Kinds /\ MaxRecords \in Nat \ {0}
  BY DEF Records!Init, Records!RecordsAssumption
<1>3. \A id \in Records!Ids :
        x2[id] = IF id[2] = 1 THEN [row(id) EXCEPT !.state = IF id \in live THEN "live" ELSE "deleted"]
                 ELSE IF id[2] = 2 /\ \E j \in x1 : Records!Kind(id) \in Records!Parent[j]
                 THEN [row(id) EXCEPT !.name = other(id)]
                 ELSE Records!None
  BY <1>1 DEF Records!First
<1>4. DOMAIN x2 = Records!Ids /\ x2 = [id \in Records!Ids |-> x2[id]]
  BY <1>1 DEF Records!First
<1>5. PICK name \in RowNames : name = CHOOSE n \in RowNames : TRUE
  BY DEF Records!RecordsAssumption
<1>6. \A id : row(id) = [name |-> name, up |-> ups(id), state |-> "live"]
  BY <1>5
<1>7. ASSUME NEW id PROVE other(id) \in RowNames /\ other(id) # name
  <2>1. row(id).name = name
    BY <1>6
  <2>2. \E n \in RowNames : n # row(id).name
    BY <2>1 DEF Records!RecordsAssumption
  <2>3. other(id) \in RowNames /\ other(id) # row(id).name
    BY <2>2
  <2> QED
    BY <2>1, <2>3
<1> HIDE DEF row, other
<1>8. ASSUME NEW id \in Records!Ids
      PROVE  /\ \A p \in ups(id) : /\ p \in Records!Ids /\ p \in Records!Kinds \X Nat /\ p[2] = 1
                                   /\ Records!Kind(p) \in Records!Parent[Records!Kind(id)]
  BY <1>2 DEF Records!Ids, Records!Kind
<1> HIDE DEF ups
<1>9. ASSUME NEW id \in Records!Ids
      PROVE  \/ x2[id] = Records!None /\ id[2] # 1
             \/ /\ x2[id] \in Records!Row /\ x2[id].up = ups(id) /\ id[2] \in {1, 2}
                /\ id[2] = 1 <=> x2[id].name = name
  <2>1. ups(id) \subseteq Records!Kinds \X Nat
    BY <1>8
  <2>2. CASE id[2] = 1
    BY <1>3, <1>6, <2>1, <2>2 DEF Records!Row
  <2>3. CASE id[2] = 2
    <3>1. row(id) = [name |-> name, up |-> ups(id), state |-> "live"]
      BY <1>6
    <3>2. PICK o \in RowNames : o = other(id) /\ o # name
      BY <1>7
    <3>3. [row(id) EXCEPT !.name = other(id)] = [name |-> o, up |-> ups(id), state |-> "live"]
      BY <3>1, <3>2
    <3>4. x2[id] = [name |-> o, up |-> ups(id), state |-> "live"] \/ x2[id] = Records!None
      <4>1. x2[id] = [row(id) EXCEPT !.name = other(id)] \/ x2[id] = Records!None
        <5>1. id[2] # 1
          BY <2>3
        <5> QED
          BY <1>3, <5>1, Zenon
      <4> QED
        BY <3>3, <4>1
    <3> QED
      BY <2>1, <2>3, <3>2, <3>4 DEF Records!Row
  <2>4. CASE id[2] \notin {1, 2}
    BY <1>3, <2>4
  <2> QED
    BY <2>2, <2>3, <2>4
<1>10. /\ Records!None.state = "none" /\ \A w \in Records!Row : w.state \in {"live", "deleted"}
  BY DEF Records!None, Records!Row
<1>11. \A r \in Actors : x3[r].pc = "new" /\ x3 = [q \in Actors |-> [pc |-> "new"]] /\ x4 = {}
  BY DEF Records!Init
<1>12. x4 = {} /\ x3 \in [Actors -> Records!Call]
  BY DEF Records!Init, Records!Call
<1>13. x2 \in [Records!Ids -> Records!Row \cup {Records!None, Records!Purged}]
  BY <1>4, <1>9
<1>14. Records!TypeOK
  BY <1>2, <1>12, <1>13 DEF Records!TypeOK
<1>15. \A id \in Records!Ids : Records!There(id) => x2[id].up = ups(id) /\ x2[id] \in Records!Row /\ id[2] \in {1, 2}
  BY <1>9, <1>10 DEF Records!There
<1>16. RowsFit
  BY <1>4, <1>8, <1>15 DEF RowsFit, UpFits
<1>17. SongsHaveLists
  BY <1>8, <1>9, <1>10, <1>15 DEF SongsHaveLists, Records!There
<1>18. ASSUME NEW i \in Records!Ids, NEW j \in Records!Ids, i # j, Records!Kind(i) = Records!Kind(j),
              Records!There(i), Records!There(j)
       PROVE  x2[i].name # x2[j].name
  <2>1. i[2] # j[2]
    BY <1>2, <1>18, KindsOf
  <2> QED
    BY <1>9, <1>10, <1>15, <1>18, <2>1
<1>19. IndexHolds
  BY <1>18 DEF IndexHolds, Alike
<1>20. Records!NamesTellApart
  BY <1>18 DEF Records!NamesTellApart, Records!Live, Records!There
<1>21. Records!PlacesStand
  BY <1>1 DEF Records!PlacesStand
<1>22. \A r \in Actors : Stands(x3[r], x2)
  BY <1>11 DEF Stands
<1> QED
  BY <1>14, <1>16, <1>17, <1>19, <1>20, <1>21, <1>22 DEF RecordsInv

LEMMA RecordsSteps ==
  /\ Init => (part = "records" => RecordsInv)
  /\ (part = "records" => RecordsInv) /\ [Next]_<<part, slots>> => (part = "records" => RecordsInv)'
<1>0. Records!RecordsAssumption
  BY ServicesAssumption DEF ServicesAssumption
<1>1. Init => (part = "records" => RecordsInv)
  BY <1>0, RecordsInitially DEF Init
<1>2. ASSUME part = "records" => RecordsInv, [Next]_<<part, slots>>, part' = "records" PROVE RecordsInv'
  <2>1. CASE RunRecords
    <3>1. PICK r \in Actors :
            \/ Records!Places(r) \/ Records!Equipment(r) \/ Records!Content(r)
            \/ Records!Check(r) \/ Records!Write(r) \/ Records!Load(r)
      BY <2>1 DEF RunRecords, Records!Next
    <3>2. RecordsInv
      BY <1>2, <2>1 DEF RunRecords
    <3> QED
      BY <1>0, <3>1, <3>2, PlacesKeep, EquipmentKeeps, ContentKeeps, CheckKeeps, WriteKeeps, LoadKeeps
  <2>2. CASE UNCHANGED <<part, slots>>
    <3>1. RecordsInv /\ x1' = x1 /\ x2' = x2 /\ x3' = x3 /\ x4' = x4
      BY <1>2, <2>2 DEF slots
    <3>2. Records!TypeOK' /\ \A r \in Actors : Stands(x3'[r], x2)
      BY <3>1 DEF RecordsInv, Records!TypeOK, Records!Ids, Records!Call
    <3> QED
      BY <3>1, <3>2, RecordsSame
  <2> QED
    BY <1>2, <2>1, <2>2 DEF Next, RunControls, RunCatalog, RunMigrations, RunPolling,
                      RunCookies, RunRoles, RunMusic, RunCrons, RunListing
<1> QED
  BY <1>1, <1>2

\* The administration of places, pods, defusers and music: whatever requests run at once,
\* unless two writes crossed or something was restored or purged, what is live is in what is
\* live, names tell live rows apart, and a request fails for a reason its checks cannot see.
THEOREM RecordsStandUp == Spec => []RecordsStand
<1>1. (part = "records" => RecordsInv) => RecordsStand
  BY DEF RecordsStand, RecordsInv, Stands, Records!FailuresExplained
<1> QED
  BY <1>1, RecordsSteps, PTL DEF Spec

----------------------------------------------------------------------------
(* Catalog *)

LEMMA ShopCalls ==
  ASSUME NEW c \in Catalog!Call
  PROVE  /\ c.pc \in {"new", "run", "done"}
         /\ c.pc = "run" => c \in ShopCall
         /\ c.pc = "done" => c \in ShopAnswer
<1>1. CASE c \in [pc: {"new"}]
  BY <1>1
<1>2. CASE c \in ShopCall
  BY <1>2 DEF ShopCall
<1>3. CASE c \in ShopAnswer
  BY <1>3 DEF ShopAnswer
<1> QED
  BY <1>1, <1>2, <1>3 DEF Catalog!Call, ShopCall, ShopAnswer

LEMMA ShopIds ==
  ASSUME Catalog!CatalogAssumption, x1 \in CatalogScenes, NEW id \in Catalog!Ids
  PROVE  /\ Catalog!Kind(id) \in x1 /\ Catalog!Kind(id) \in Catalog!Kinds
         /\ id = <<Catalog!Kind(id), id[2]>> /\ id[2] \in 1..MaxItems
         /\ id \in Catalog!Kinds \X Nat
<1>1. x1 \subseteq Catalog!Kinds /\ 1..MaxItems \subseteq Nat
  BY DEF Catalog!CatalogAssumption
<1>2. id \in x1 \X (1..MaxItems)
  BY DEF Catalog!Ids
<1> QED
  BY <1>1, <1>2 DEF Catalog!Kind

LEMMA ShopRows ==
  ASSUME Catalog!TypeOK, NEW id \in Catalog!Ids
  PROVE  /\ x2[id] \in Catalog!Row \cup {Catalog!None}
         /\ Catalog!There(id) <=> x2[id] \in Catalog!Row
         /\ Catalog!There(id) <=> x2[id] # Catalog!None
         /\ Catalog!There(id) <=> InTable(x2, id)
         /\ Catalog!Live(id) => InTable(x2, id)
         /\ Catalog!None \notin Catalog!Row
         /\ DOMAIN x2 = Catalog!Ids
<1>1. x2[id] \in Catalog!Row \cup {Catalog!None} /\ DOMAIN x2 = Catalog!Ids
  BY DEF Catalog!TypeOK
<1>2. \A row \in Catalog!Row : row.state \in {"live", "deleted"}
  BY DEF Catalog!Row
<1>3. Catalog!None.state = "none"
  BY DEF Catalog!None
<1> QED
  BY <1>1, <1>2, <1>3 DEF Catalog!There, Catalog!Live, InTable

LEMMA FourTail ==
  ASSUME NEW S, NEW a \in S, NEW b \in S, NEW c \in S, NEW d \in S
  PROVE  Tail(<<a, b, c, d>>) = <<b, c, d>>
<1> DEFINE s == <<a, b, c, d>>
           t == <<b, c, d>>
<1>1. s \in Seq(S) /\ t \in Seq(S) /\ Len(s) = 4 /\ Len(t) = 3 /\ s # <<>>
  OBVIOUS
<1>2. Tail(s) \in Seq(S) /\ Len(Tail(s)) = 3 /\ \A i \in 1..3 : Tail(s)[i] = s[i + 1]
  BY <1>1
<1>3. \A i \in 1..3 : Tail(s)[i] = t[i]
  <2>1. t[1] = s[2] /\ t[2] = s[3] /\ t[3] = s[4]
    OBVIOUS
  <2>2. 1..3 = {1, 2, 3}
    OBVIOUS
  <2> QED
    BY <1>2, <2>1, <2>2
<1> HIDE DEF s, t
<1>4. Tail(s) = t
  BY <1>1, <1>2, <1>3, SeqEqual
<1> QED
  BY <1>4 DEF s, t

LEMMA OneAndOne == ASSUME NEW S, NEW a \in S, NEW b \in S PROVE <<a>> \o <<b>> = <<a, b>>
<1> DEFINE s == <<a>> \o <<b>>
           t == <<a, b>>
<1>1. <<a>> \in Seq(S) /\ <<b>> \in Seq(S) /\ Len(<<a>>) = 1 /\ Len(<<b>>) = 1
  OBVIOUS
<1>2. s \in Seq(S) /\ Len(s) = 2 /\ s[1] = a /\ s[2] = b
  BY <1>1, ConcatProperties
<1>3. t \in Seq(S) /\ Len(t) = 2 /\ t[1] = a /\ t[2] = b
  OBVIOUS
<1> HIDE DEF s, t
<1>4. s = t
  <2>1. 1..2 = {1, 2}
    OBVIOUS
  <2> QED
    BY <1>2, <1>3, <2>1, SeqEqual
<1> QED
  BY <1>4 DEF s, t

\* Where a call stands by the statement that is next, and what follows it.
LEMMA NextStatement ==
  ASSUME NEW todo \in Plain \cup Saving \cup Syncing \cup Assigning
  PROVE  /\ todo \in Seq(Catalog!Statements)
         /\ Head(todo) = "order" => todo = <<"order", "write">> /\ Tail(todo) = <<"write">>
         /\ Head(todo) = "valid" =>
              \/ todo = <<"valid", "write">> /\ Tail(todo) = <<"write">>
              \/ /\ todo = <<"valid", "write", "unlink", "link">>
                 /\ Tail(todo) = <<"write", "unlink", "link">>
         /\ Head(todo) = "write" =>
              \/ todo = <<"write">> /\ Len(todo) = 1
              \/ /\ todo = <<"write", "unlink", "link">> /\ Len(todo) = 3
                 /\ Tail(todo) = <<"unlink", "link">>
         /\ Head(todo) = "unlink" =>
              todo = <<"unlink", "link">> /\ Len(todo) = 2 /\ Tail(todo) = <<"link">>
         /\ Head(todo) = "link" => todo = <<"link">>
         /\ Head(todo) = "brand" =>
              /\ todo = <<"brand", "categories", "unassign", "assign">>
              /\ Tail(todo) = <<"categories", "unassign", "assign">>
         /\ Head(todo) = "categories" =>
              /\ todo = <<"categories", "unassign", "assign">>
              /\ Tail(todo) = <<"unassign", "assign">>
         /\ Head(todo) = "unassign" => todo = <<"unassign", "assign">> /\ Tail(todo) = <<"assign">>
         /\ Head(todo) = "assign" => todo = <<"assign">>
<1>1. CASE todo = <<"write">>
  BY <1>1 DEF Catalog!Statements
<1>2. CASE todo = <<"order", "write">>
  BY <1>2 DEF Catalog!Statements
<1>3. CASE todo = <<"valid", "write">>
  BY <1>3 DEF Catalog!Statements
<1>4. CASE todo = <<"valid", "write", "unlink", "link">>
  <2>1. todo \in Seq(Catalog!Statements) /\ Head(todo) = "valid"
    BY <1>4 DEF Catalog!Statements
  <2>2. Tail(todo) = <<"write", "unlink", "link">>
    BY <1>4, FourTail, "valid" \in Catalog!Statements, "write" \in Catalog!Statements,
       "unlink" \in Catalog!Statements, "link" \in Catalog!Statements DEF Catalog!Statements
  <2> QED
    BY <1>4, <2>1, <2>2
<1>5. CASE todo = <<"write", "unlink", "link">>
  BY <1>5 DEF Catalog!Statements
<1>6. CASE todo = <<"unlink", "link">>
  BY <1>6 DEF Catalog!Statements
<1>7. CASE todo = <<"link">>
  BY <1>7 DEF Catalog!Statements
<1>8. CASE todo = <<"brand", "categories", "unassign", "assign">>
  <2>1. todo \in Seq(Catalog!Statements) /\ Head(todo) = "brand"
    BY <1>8 DEF Catalog!Statements
  <2>2. Tail(todo) = <<"categories", "unassign", "assign">>
    BY <1>8, FourTail, "brand" \in Catalog!Statements, "categories" \in Catalog!Statements,
       "unassign" \in Catalog!Statements, "assign" \in Catalog!Statements DEF Catalog!Statements
  <2> QED
    BY <1>8, <2>1, <2>2
<1>9. CASE todo = <<"categories", "unassign", "assign">>
  BY <1>9 DEF Catalog!Statements
<1>10. CASE todo = <<"unassign", "assign">>
  BY <1>10 DEF Catalog!Statements
<1>11. CASE todo = <<"assign">>
  BY <1>11 DEF Catalog!Statements
<1> QED
  BY <1>1, <1>4, <1>5, <1>6, <1>8, <1>9, <1>10, <1>2, <1>3, <1>7, <1>11
  DEF Plain, Saving, Syncing, Assigning

\* The scripts are told apart by their first statement and their length.
LEMMA ScriptKinds ==
  /\ <<"write">> \in Plain /\ <<"write">> \notin Saving \cup Syncing \cup Assigning
  /\ <<"order", "write">> \in Plain /\ <<"valid", "write">> \in Plain
  /\ <<"valid", "write", "unlink", "link">> \in Saving
  /\ <<"write", "unlink", "link">> \in Saving
  /\ <<"write", "unlink", "link">> \notin Plain \cup Syncing \cup Assigning
  /\ <<"unlink", "link">> \in Syncing /\ <<"link">> \in Syncing
  /\ <<"unlink", "link">> \notin Plain \cup Saving \cup Assigning
  /\ <<"link">> \notin Plain \cup Saving \cup Assigning
  /\ <<"link">> # <<"assign">> /\ <<"unlink", "link">> # <<"link">> /\ <<"unlink", "link">> # <<"assign">>
  /\ <<"categories", "unassign", "assign">> \in Assigning /\ <<"unassign", "assign">> \in Assigning
  /\ <<"assign">> \in Assigning
  /\ <<"assign">> \notin Plain \cup Saving \cup Syncing
  /\ \A t \in Assigning : t \notin Plain \cup Saving \cup Syncing /\ t # <<"link">>
  /\ \A t \in Plain \cup Saving : t \notin Syncing /\ t # <<"link">> /\ t # <<"assign">>
  /\ \A t \in Plain : t # <<"write", "unlink", "link">>
  /\ \A t \in Syncing : t # <<"assign">> /\ t # <<"write", "unlink", "link">>
  /\ <<"valid", "write", "unlink", "link">> # <<"write", "unlink", "link">>
  /\ <<"valid", "write", "unlink", "link">> \notin Plain
  BY DEF Plain, Saving, Syncing, Assigning

----------------------------------------------------------------------------
(* Steps that change one call and no table *)

LEMMA ShopCallMoves ==
  ASSUME CatalogInv, NEW r \in Actors, NEW d \in Catalog!Call, Serves(d, x2, x3),
         x4' = [x4 EXCEPT ![r] = d], UNCHANGED <<x1, x2, x3>>
  PROVE  CatalogInv'
<1>1. x4' \in [Actors -> Catalog!Call] /\ x4'[r] = d /\ \A q \in Actors \ {r} : x4'[q] = x4[q]
  BY DEF CatalogInv, Catalog!TypeOK
<1>2. Catalog!TypeOK'
  BY <1>1 DEF CatalogInv, Catalog!TypeOK, Catalog!Call, Catalog!Ids
<1>3. \A q \in Actors : Serves(x4'[q], x2, x3)
  BY <1>1 DEF CatalogInv
<1> QED
  BY <1>2, <1>3 DEF CatalogInv

LEMMA ShopBegins ==
  ASSUME Catalog!CatalogAssumption, CatalogInv,
         NEW r \in Actors, NEW op \in Catalog!Ops, NEW id \in Catalog!Ids,
         NEW row \in Catalog!Row, NEW coll \in SUBSET Catalog!Ids, NEW todo,
         Catalog!Begin(r, op, id, row, coll, todo),
         Catalog!Kind(id) = "product" => \A p \in coll : Catalog!Kind(p) = "collection",
         \/ todo \in Plain /\ op # "assign"
         \/ /\ todo = <<"valid", "write", "unlink", "link">> /\ op \in {"create", "update"}
            /\ Catalog!Kind(id) = "product"
         \/ /\ todo = <<"brand", "categories", "unassign", "assign">> /\ op = "assign"
            /\ Catalog!Kind(id) = "brand"
  PROVE  CatalogInv'
<1> DEFINE b == [pc |-> "run", op |-> op, id |-> id, row |-> row, links |-> coll, todo |-> todo,
                 wrote |-> FALSE, raced |-> FALSE]
<1>1. UNCHANGED <<x1, x2, x3>> /\ x4' = [x4 EXCEPT ![r] = b]
  BY DEF Catalog!Begin
<1>2. todo \in Plain \cup Saving \cup Syncing \cup Assigning
  BY ScriptKinds DEF Saving, Assigning
<1>3. todo \in Seq(Catalog!Statements)
  BY <1>2, NextStatement
<1>4. \A i \in Catalog!Ids : i \in Catalog!Kinds \X Nat
  BY ShopIds DEF CatalogInv, Catalog!TypeOK
<1>5. b \in ShopCall
  BY <1>3, <1>4 DEF ShopCall
<1>6. /\ b.pc = "run" /\ b.op = op /\ b.id = id /\ b.links = coll /\ b.todo = todo
      /\ b.wrote = FALSE /\ b.raced = FALSE
  OBVIOUS
<1> HIDE DEF b
<1>7. b \in Catalog!Call
  BY <1>5 DEF ShopCall, Catalog!Call
<1>8. id \in DOMAIN x2 /\ coll \subseteq DOMAIN x2
  BY DEF CatalogInv, Catalog!TypeOK
<1>9. Scripted(b)
  BY <1>6 DEF Scripted, Saving, Assigning
<1>10. Relies(b, x2, x3)
  <2>1. todo \notin Syncing /\ todo # <<"write", "unlink", "link">> /\ todo # <<"link">> /\ todo # <<"assign">>
    <3>1. CASE todo \in Plain
      BY <3>1, ScriptKinds
    <3>2. CASE todo = <<"valid", "write", "unlink", "link">>
      BY <3>2, ScriptKinds
    <3>3. CASE todo = <<"brand", "categories", "unassign", "assign">>
      <4>1. todo \in Assigning
        BY <3>3 DEF Assigning
      <4>2. todo # <<"assign">>
        BY <3>3
      <4> QED
        BY <4>1, <4>2, ScriptKinds
    <3> QED
      BY <3>1, <3>2, <3>3
  <2> QED
    BY <1>6, <2>1 DEF Relies
<1>11. Serves(b, x2, x3)
  BY <1>6, <1>8, <1>9, <1>10 DEF Serves, OnItsWay
<1> QED
  BY <1>1, <1>7, <1>11, ShopCallMoves

LEMMA BlankRow == ASSUME Catalog!CatalogAssumption PROVE Catalog!Blank \in Catalog!Row
<1>1. PICK key \in RowNames : key = CHOOSE k \in RowNames : TRUE
  BY DEF Catalog!CatalogAssumption
<1>2. Catalog!Blank = [key |-> key, up |-> {}, state |-> "live"]
  BY <1>1 DEF Catalog!Blank
<1> QED
  BY <1>2 DEF Catalog!Row

LEMMA BodyRows ==
  ASSUME Catalog!CatalogAssumption, Catalog!TypeOK, NEW k, NEW row \in Catalog!Bodies(k)
  PROVE  row \in Catalog!Row
<1>1. PICK key \in RowNames, up \in Catalog!Named(k) : row = [key |-> key, up |-> up, state |-> "live"]
  BY DEF Catalog!Bodies
<1>2. up \subseteq Catalog!Ids
  BY DEF Catalog!Named
<1>3. up \subseteq Catalog!Kinds \X Nat
  BY <1>2, ShopIds DEF Catalog!TypeOK
<1> QED
  BY <1>1, <1>3 DEF Catalog!Row

LEMMA CourseScripts ==
  ASSUME NEW k \in Catalog!Kinds, NEW todo \in Catalog!Courses(k)
  PROVE  /\ todo \in Plain \/ (k = "product" /\ todo = <<"valid", "write", "unlink", "link">>)
         /\ k \in {"item", "payment"} => todo = <<"write">>
<1>1. CASE k = "product"
  <2>1. Catalog!Hooks(k) \in {<<"valid", "write", "unlink", "link">>, <<"write">>}
    BY <1>1 DEF Catalog!Hooks
  <2> QED
    BY <1>1, <2>1, ScriptKinds DEF Catalog!Courses
<1>2. CASE k \in {"variant", "order", "subscription"}
  <2>1. Catalog!Hooks(k) = <<"valid", "write">>
    BY <1>2 DEF Catalog!Hooks
  <2> QED
    BY <1>2, <2>1, ScriptKinds DEF Catalog!Courses
<1>3. CASE k \notin {"product", "variant", "order", "subscription"}
  <2>1. Catalog!Hooks(k) = <<"write">>
    BY <1>3 DEF Catalog!Hooks
  <2> QED
    BY <1>3, <2>1, ScriptKinds DEF Catalog!Courses
<1> QED
  BY <1>1, <1>2, <1>3

LEMMA NamedCollections ==
  ASSUME NEW k, NEW coll \in Catalog!Collections(k)
  PROVE  coll \in SUBSET Catalog!Ids /\ (k = "product" => \A p \in coll : Catalog!Kind(p) = "collection")
  BY DEF Catalog!Collections

LEMMA CallsBegin ==
  ASSUME Catalog!CatalogAssumption, CatalogInv, NEW r \in Actors,
         \/ Catalog!Create(r) \/ Catalog!Update(r) \/ Catalog!SoftDelete(r) \/ Catalog!Restore(r)
         \/ Catalog!PermanentDelete(r) \/ Catalog!AssignCategories(r)
  PROVE  CatalogInv'
<1>0. Catalog!TypeOK /\ {"create", "update", "delete", "restore", "purge", "assign"} \subseteq Catalog!Ops
  BY DEF CatalogInv, Catalog!Ops
<1>1. CASE Catalog!Create(r)
  <2>1. PICK k \in x1, n \in 1..MaxItems :
          \E row \in Catalog!Bodies(k), coll \in Catalog!Collections(k), todo \in Catalog!Courses(k) :
            Catalog!Begin(r, "create", <<k, n>>, row, coll,
               IF k \in {"item", "payment"} /\ "order" \in x1 THEN <<"order">> \o todo ELSE todo)
    BY <1>1 DEF Catalog!Create
  <2>2. PICK row \in Catalog!Bodies(k), coll \in Catalog!Collections(k), course \in Catalog!Courses(k) :
          Catalog!Begin(r, "create", <<k, n>>, row, coll,
            IF k \in {"item", "payment"} /\ "order" \in x1 THEN <<"order">> \o course ELSE course)
    BY <2>1
  <2>3. PICK todo :
          todo = IF k \in {"item", "payment"} /\ "order" \in x1 THEN <<"order">> \o course ELSE course
    OBVIOUS
  <2>4. Catalog!Begin(r, "create", <<k, n>>, row, coll, todo)
    BY <2>2, <2>3
  <2>5. <<k, n>> \in Catalog!Ids /\ Catalog!Kind(<<k, n>>) = k
    BY DEF Catalog!Ids, Catalog!Kind
  <2>6. k \in Catalog!Kinds
    BY <1>0, <2>5, ShopIds DEF Catalog!TypeOK
  <2>7. todo \in Plain \/ (k = "product" /\ todo = <<"valid", "write", "unlink", "link">>)
    <3>1. "order" \in Catalog!Statements /\ "write" \in Catalog!Statements
      BY DEF Catalog!Statements
    <3>2. <<"order">> \o <<"write">> = <<"order", "write">>
      BY <3>1, OneAndOne
    <3>3. CASE k \in {"item", "payment"} /\ "order" \in x1
      <4>1. course = <<"write">> /\ todo = <<"order">> \o course
        BY <2>3, <2>6, <3>3, CourseScripts
      <4> QED
        BY <3>2, <4>1, ScriptKinds
    <3>4. CASE ~(k \in {"item", "payment"} /\ "order" \in x1)
      BY <2>3, <2>6, <3>4, CourseScripts
    <3> QED
      BY <3>3, <3>4
  <2> QED
    BY <1>0, <2>4, <2>5, <2>7, BodyRows, NamedCollections, ShopBegins
<1>2. CASE Catalog!Update(r)
  <2>1. PICK id \in Catalog!Ids :
          \E row \in Catalog!Bodies(Catalog!Kind(id)), coll \in Catalog!Collections(Catalog!Kind(id)),
             todo \in Catalog!Courses(Catalog!Kind(id)) :
            Catalog!Begin(r, "update", id, row, coll, todo)
    BY <1>2 DEF Catalog!Update
  <2>2. PICK row \in Catalog!Bodies(Catalog!Kind(id)), coll \in Catalog!Collections(Catalog!Kind(id)),
             todo \in Catalog!Courses(Catalog!Kind(id)) :
          Catalog!Begin(r, "update", id, row, coll, todo)
    BY <2>1
  <2>3. Catalog!Kind(id) \in Catalog!Kinds
    BY <1>0, ShopIds DEF Catalog!TypeOK
  <2> QED
    BY <1>0, <2>2, <2>3, CourseScripts, BodyRows, NamedCollections, ShopBegins
<1>3. CASE Catalog!SoftDelete(r)
  BY <1>0, <1>3, BlankRow, ScriptKinds, ShopBegins DEF Catalog!SoftDelete
<1>4. CASE Catalog!Restore(r)
  BY <1>0, <1>4, BlankRow, ScriptKinds, ShopBegins DEF Catalog!Restore
<1>5. CASE Catalog!PermanentDelete(r)
  BY <1>0, <1>5, BlankRow, ScriptKinds, ShopBegins DEF Catalog!PermanentDelete
<1>6. CASE Catalog!AssignCategories(r)
  <2>1. PICK id \in Catalog!Ids, cats \in SUBSET {i \in Catalog!Ids : Catalog!Kind(i) = "category"} :
          /\ Catalog!Kind(id) = "brand"
          /\ Catalog!Begin(r, "assign", id, Catalog!Blank, cats, <<"brand", "categories", "unassign", "assign">>)
    BY <1>6 DEF Catalog!AssignCategories
  <2>2. cats \in SUBSET Catalog!Ids
    OBVIOUS
  <2> QED
    BY <1>0, <2>1, <2>2, BlankRow, ShopBegins
<1> QED
  BY <1>1, <1>2, <1>3, <1>4, <1>5, <1>6

LEMMA AtStatement ==
  ASSUME CatalogInv, NEW r \in Actors, NEW s, Catalog!Doing(r, s)
  PROVE  /\ x4[r] \in ShopCall /\ x4[r].pc = "run" /\ OnItsWay(x4[r], x2, x3)
         /\ Scripted(x4[r]) /\ Head(x4[r].todo) = s
         /\ x4[r].todo \in Plain \cup Saving \cup Syncing \cup Assigning
         /\ x4[r].id \in Catalog!Ids /\ x4[r].links \subseteq Catalog!Ids
<1>1. x4[r] \in Catalog!Call /\ x4[r].pc = "run" /\ Head(x4[r].todo) = s
  BY DEF CatalogInv, Catalog!TypeOK, Catalog!Doing
<1>2. x4[r] \in ShopCall
  BY <1>1, ShopCalls
<1>3. OnItsWay(x4[r], x2, x3)
  BY <1>1 DEF CatalogInv, Serves
<1>4. DOMAIN x2 = Catalog!Ids
  BY DEF CatalogInv, Catalog!TypeOK
<1> QED
  BY <1>1, <1>2, <1>3, <1>4 DEF OnItsWay, Scripted

LEMMA ShopAnswers ==
  ASSUME CatalogInv, NEW r \in Actors, NEW code \in Catalog!Codes, code >= 400,
         Catalog!Answer(r, code), x4[r] \in ShopCall, ~x4[r].wrote \/ x4[r].raced
  PROVE  CatalogInv'
<1> DEFINE d == [pc |-> "done", kind |-> Catalog!Kind(x4[r].id), code |-> code, wrote |-> x4[r].wrote,
                 raced |-> x4[r].raced, kept |-> TRUE]
<1>1. UNCHANGED <<x1, x2, x3>> /\ x4' = [x4 EXCEPT ![r] = d]
  BY DEF Catalog!Answer, Catalog!Done
<1>2. d \in ShopAnswer
  BY DEF ShopCall, ShopAnswer, Catalog!Kind
<1>3. d \in Catalog!Call
  BY <1>2 DEF ShopAnswer, Catalog!Call
<1>4. Serves(d, x2, x3)
  BY DEF Serves, Answered
<1> HIDE DEF d
<1> QED
  BY <1>1, <1>3, <1>4, ShopCallMoves

LEMMA ShopProceeds ==
  ASSUME CatalogInv, NEW r \in Actors, NEW todo, Catalog!Proceed(r), x4[r] \in ShopCall,
         todo = Tail(x4[r].todo), todo \in Plain \cup Saving \cup Syncing \cup Assigning,
         OnItsWay([x4[r] EXCEPT !.todo = todo], x2, x3)
  PROVE  CatalogInv'
<1>1. PICK d : d = [x4[r] EXCEPT !.todo = todo]
  OBVIOUS
<1>2. UNCHANGED <<x1, x2, x3>> /\ x4' = [x4 EXCEPT ![r] = d]
  BY <1>1 DEF Catalog!Proceed
<1>3. todo \in Seq(Catalog!Statements)
  BY NextStatement
<1>4. d \in ShopCall
  BY <1>1, <1>3 DEF ShopCall
<1>5. d \in Catalog!Call /\ d.pc = "run"
  BY <1>4 DEF ShopCall, Catalog!Call
<1>6. Serves(d, x2, x3)
  BY <1>1, <1>5 DEF Serves
<1> QED
  BY <1>2, <1>5, <1>6, ShopCallMoves

\* Of a call whose next statement is another.
LEMMA WithTodo ==
  ASSUME NEW c \in ShopCall, NEW todo
  PROVE  /\ [c EXCEPT !.todo = todo].todo = todo
         /\ [c EXCEPT !.todo = todo].id = c.id
         /\ [c EXCEPT !.todo = todo].op = c.op
         /\ [c EXCEPT !.todo = todo].links = c.links
         /\ [c EXCEPT !.todo = todo].row = c.row
         /\ [c EXCEPT !.todo = todo].wrote = c.wrote
         /\ [c EXCEPT !.todo = todo].raced = c.raced
  BY DEF ShopCall

LEMMA FindOrderKeeps ==
  ASSUME CatalogInv, NEW r \in Actors, Catalog!FindOrder(r)
  PROVE  CatalogInv'
<1>1. Catalog!Doing(r, "order")
  BY DEF Catalog!FindOrder
<1>2. /\ x4[r] \in ShopCall /\ OnItsWay(x4[r], x2, x3) /\ Scripted(x4[r])
      /\ x4[r].todo = <<"order", "write">> /\ Tail(x4[r].todo) = <<"write">>
  BY <1>1, AtStatement, NextStatement
<1>3. x4[r].todo \in Plain /\ x4[r].op # "assign" /\ ~x4[r].wrote
  BY <1>2, ScriptKinds DEF Scripted
<1>4. CASE Catalog!Proceed(r)
  <2>1. OnItsWay([x4[r] EXCEPT !.todo = <<"write">>], x2, x3)
    BY <1>2, <1>3, WithTodo, ScriptKinds DEF OnItsWay, Scripted, Relies
  <2> QED
    BY <1>2, <1>4, <2>1, ScriptKinds, ShopProceeds
<1>5. CASE Catalog!Answer(r, 403)
  BY <1>2, <1>3, <1>5, ShopAnswers DEF Catalog!Codes
<1> QED
  BY <1>4, <1>5 DEF Catalog!FindOrder

LEMMA ValidateKeeps ==
  ASSUME CatalogInv, NEW r \in Actors, Catalog!Validate(r)
  PROVE  CatalogInv'
<1>1. Catalog!Doing(r, "valid")
  BY DEF Catalog!Validate
<1>2. /\ x4[r] \in ShopCall /\ OnItsWay(x4[r], x2, x3) /\ Scripted(x4[r])
      /\ x4[r].links \subseteq Catalog!Ids
      /\ \/ x4[r].todo = <<"valid", "write">> /\ Tail(x4[r].todo) = <<"write">>
         \/ /\ x4[r].todo = <<"valid", "write", "unlink", "link">>
            /\ Tail(x4[r].todo) = <<"write", "unlink", "link">>
  BY <1>1, AtStatement, NextStatement
<1>3. ~x4[r].wrote
  BY <1>2, ScriptKinds DEF Scripted
<1>4. CASE Catalog!Valid(x4[r]) /\ Catalog!Proceed(r)
  <2>1. CASE x4[r].todo = <<"valid", "write">>
    <3>1. x4[r].op # "assign" /\ Tail(x4[r].todo) = <<"write">>
      BY <1>2, <2>1, ScriptKinds DEF Scripted
    <3>2. OnItsWay([x4[r] EXCEPT !.todo = <<"write">>], x2, x3)
      BY <1>2, <1>3, <3>1, WithTodo, ScriptKinds DEF OnItsWay, Scripted, Relies
    <3> QED
      BY <1>2, <1>4, <3>1, <3>2, ScriptKinds, ShopProceeds
  <2>2. CASE x4[r].todo = <<"valid", "write", "unlink", "link">>
    <3>1. /\ x4[r].op \in {"create", "update"} /\ Catalog!Kind(x4[r].id) = "product"
          /\ Tail(x4[r].todo) = <<"write", "unlink", "link">>
      BY <1>2, <2>2, ScriptKinds DEF Scripted
    <3>2. \A p \in x4[r].links : InTable(x2, p)
      <4>1. Catalog!ValidProduct(x4[r])
        BY <1>4, <3>1 DEF Catalog!Valid
      <4> QED
        BY <1>2, <4>1, ShopRows DEF Catalog!ValidProduct, CatalogInv
    <3>3. OnItsWay([x4[r] EXCEPT !.todo = <<"write", "unlink", "link">>], x2, x3)
      BY <1>2, <1>3, <3>1, <3>2, WithTodo, ScriptKinds DEF OnItsWay, Scripted, Relies
    <3> QED
      BY <1>2, <1>4, <3>1, <3>3, ScriptKinds, ShopProceeds
  <2> QED
    BY <1>2, <2>1, <2>2
<1>5. CASE Catalog!Answer(r, 422)
  BY <1>2, <1>3, <1>5, ShopAnswers DEF Catalog!Codes
<1> QED
  BY <1>4, <1>5 DEF Catalog!Validate

LEMMA FindBrandKeeps ==
  ASSUME CatalogInv, NEW r \in Actors, Catalog!FindBrand(r) \/ Catalog!FindCategories(r)
  PROVE  CatalogInv'
<1>1. Catalog!Doing(r, "brand") \/ Catalog!Doing(r, "categories")
  BY DEF Catalog!FindBrand, Catalog!FindCategories
<1>2. /\ x4[r] \in ShopCall /\ OnItsWay(x4[r], x2, x3) /\ Scripted(x4[r])
      /\ x4[r].todo \in Assigning /\ Tail(x4[r].todo) \in Assigning /\ Tail(x4[r].todo) # <<"assign">>
  <2>1. <<"categories", "unassign", "assign">> # <<"assign">> /\ <<"unassign", "assign">> # <<"assign">>
    OBVIOUS
  <2> QED
    BY <1>1, <2>1, AtStatement, NextStatement, ScriptKinds DEF Assigning
<1>3. ~x4[r].wrote /\ x4[r].op = "assign" /\ Catalog!Kind(x4[r].id) = "brand"
  BY <1>2, ScriptKinds DEF Scripted
<1>4. CASE Catalog!Proceed(r)
  <2>1. PICK todo : todo = Tail(x4[r].todo)
    OBVIOUS
  <2>2. PICK d : d = [x4[r] EXCEPT !.todo = todo]
    OBVIOUS
  <2>3. /\ d.todo = todo /\ d.id = x4[r].id /\ d.op = x4[r].op /\ d.links = x4[r].links
        /\ d.wrote = x4[r].wrote
    BY <1>2, <2>2, WithTodo
  <2>4. Scripted(d)
    BY <1>2, <1>3, <2>1, <2>3 DEF Scripted
  <2>5. todo \notin Syncing \cup Saving /\ todo # <<"link">> /\ todo # <<"assign">>
    BY <1>2, <2>1, ScriptKinds
  <2>6. Relies(d, x2, x3)
    BY <2>3, <2>5, ScriptKinds DEF Relies
  <2>7. OnItsWay(d, x2, x3)
    BY <1>2, <2>3, <2>4, <2>6 DEF OnItsWay
  <2> QED
    BY <1>2, <1>4, <2>1, <2>2, <2>7, ShopProceeds
<1>5. CASE Catalog!Answer(r, 404) \/ Catalog!Answer(r, 422)
  BY <1>2, <1>3, <1>5, ShopAnswers DEF Catalog!Codes
<1> QED
  BY <1>4, <1>5 DEF Catalog!FindBrand, Catalog!FindCategories

LEMMA UnassignKeeps ==
  ASSUME Catalog!CatalogAssumption, CatalogInv, NEW r \in Actors, Catalog!Unassign(r)
  PROVE  CatalogInv'
<1>1. Catalog!Doing(r, "unassign")
  BY DEF Catalog!Unassign
<1>2. /\ x4[r] \in ShopCall /\ OnItsWay(x4[r], x2, x3) /\ Scripted(x4[r])
      /\ x4[r].todo = <<"unassign", "assign">> /\ Tail(x4[r].todo) = <<"assign">>
      /\ x4[r].id \in Catalog!Ids
  BY <1>1, AtStatement, NextStatement
<1>3. ~x4[r].wrote /\ x4[r].op = "assign" /\ Catalog!Kind(x4[r].id) = "brand"
  BY <1>2, ScriptKinds DEF Scripted
<1>4. PICK up : up = Catalog!InBrand(x4[r].id) \ x4[r].links
  OBVIOUS
<1>5. PICK d : d = [x4[r] EXCEPT !.row.up = up, !.todo = <<"assign">>]
  OBVIOUS
<1>6. UNCHANGED <<x1, x2, x3>> /\ x4' = [x4 EXCEPT ![r] = d]
  BY <1>2, <1>4, <1>5 DEF Catalog!Unassign
<1>7. up \subseteq Catalog!Ids /\ up \subseteq Catalog!Kinds \X Nat
  BY <1>4, ShopIds DEF Catalog!InBrand, CatalogInv, Catalog!TypeOK
<1>8. [x4[r].row EXCEPT !.up = up] \in Catalog!Row
  BY <1>2, <1>7 DEF ShopCall, Catalog!Row
<1>9. d \in ShopCall
  BY <1>2, <1>5, <1>8, ScriptKinds, NextStatement DEF ShopCall
<1>10. d \in Catalog!Call /\ d.pc = "run"
  BY <1>9 DEF ShopCall, Catalog!Call
<1>11. /\ d.id = x4[r].id /\ d.links = x4[r].links /\ d.op = x4[r].op /\ d.wrote = x4[r].wrote
       /\ d.raced = x4[r].raced /\ d.todo = <<"assign">> /\ d.row.up = up
  BY <1>2, <1>5 DEF ShopCall, Catalog!Row
<1>12. \A i \in DOMAIN x2 :
         Catalog!Kind(i) = "category" /\ InTable(x2, i) /\ d.id \in x2[i].up => i \in up \cup d.links
  BY <1>4, <1>11, ShopRows DEF Catalog!InBrand, CatalogInv, Catalog!TypeOK
<1>13. OnItsWay(d, x2, x3)
  BY <1>2, <1>3, <1>11, <1>12, ScriptKinds DEF OnItsWay, Scripted, Relies
<1>14. Serves(d, x2, x3)
  BY <1>10, <1>13 DEF Serves
<1> QED
  BY <1>6, <1>10, <1>14, ShopCallMoves

----------------------------------------------------------------------------
(* Steps that write *)

LEMMA OverlapsOf ==
  ASSUME Catalog!TypeOK, NEW r \in Actors, x4[r].pc = "run"
  PROVE  /\ Catalog!Overlapped(r, x4[r].id) \in [Actors -> Catalog!Call]
         /\ Catalog!Overlapped(r, x4[r].id)[r] = x4[r]
         /\ \A q \in Actors \ {r} :
              Catalog!Overlapped(r, x4[r].id)[q] =
                IF x4[q].pc = "run" /\ Touches(x4[r], x4[q])
                THEN [x4[q] EXCEPT !.raced = TRUE] ELSE x4[q]
<1> DEFINE f == Catalog!Overlapped(r, x4[r].id)
<1>1. f = [q \in Actors |->
             IF q # r /\ x4[q].pc = "run"
                /\ (Catalog!Kind(x4[q].id) = Catalog!Kind(x4[r].id)
                    \/ x4[r].id \in x4[q].row.up \cup x4[q].links
                    \/ x4[q].id \in x4[r].row.up \cup x4[r].links)
             THEN [x4[q] EXCEPT !.raced = TRUE] ELSE x4[q]]
  BY DEF Catalog!Overlapped
<1>2. \A q \in Actors : x4[q].pc = "run" => [x4[q] EXCEPT !.raced = TRUE] \in Catalog!Call
  <2> SUFFICES ASSUME NEW q \in Actors, x4[q].pc = "run"
               PROVE  [x4[q] EXCEPT !.raced = TRUE] \in Catalog!Call
    OBVIOUS
  <2>1. x4[q] \in ShopCall
    BY ShopCalls DEF Catalog!TypeOK
  <2>2. [x4[q] EXCEPT !.raced = TRUE] \in ShopCall
    BY <2>1 DEF ShopCall
  <2> QED
    BY <2>2 DEF ShopCall, Catalog!Call
<1>3. \A q \in Actors : x4[q] \in Catalog!Call
  BY DEF Catalog!TypeOK
<1> HIDE DEF f
<1>4. f \in [Actors -> Catalog!Call]
  BY <1>1, <1>2, <1>3
<1>5. f[r] = x4[r]
  BY <1>1
<1>6. \A q \in Actors \ {r} :
        f[q] = IF x4[q].pc = "run" /\ Touches(x4[r], x4[q]) THEN [x4[q] EXCEPT !.raced = TRUE] ELSE x4[q]
  BY <1>1 DEF Touches
<1> QED
  BY <1>4, <1>5, <1>6 DEF f

LEMMA SparedServes ==
  ASSUME NEW c, NEW d, NEW rows, NEW rows2, NEW links, NEW links2,
         Spares(c, rows, rows2, links, links2), d.pc = "run", ~Touches(c, d), Serves(d, rows, links)
  PROVE  Serves(d, rows2, links2)
<1>1. /\ d.id # c.id /\ c.id \notin d.links /\ d.id \notin c.row.up
      /\ OnItsWay(d, rows, links)
  BY DEF Touches, Serves
<1>2. /\ d.id \in DOMAIN rows2 /\ d.links \subseteq DOMAIN rows2
      /\ d.id \in DOMAIN rows /\ d.links \subseteq DOMAIN rows
  BY <1>1 DEF OnItsWay, Spares
<1>3. ASSUME Relies(d, rows, links) PROVE Relies(d, rows2, links2)
  <2>1. ASSUME d.todo \in Syncing \cup {<<"write", "unlink", "link">>}, NEW p \in d.links
        PROVE  InTable(rows2, p)
    <3>1. Catalog!Kind(d.id) = "product"
      BY <1>1, <2>1, ScriptKinds DEF OnItsWay, Scripted
    <3>2. Catalog!Kind(p) = "collection" /\ p # c.id /\ p \in DOMAIN rows
      BY <1>1, <1>2, <2>1, <3>1 DEF OnItsWay
    <3> QED
      BY <1>3, <2>1, <3>2 DEF Relies, Spares
  <2>2. ASSUME d.todo \in Syncing PROVE InTable(rows2, d.id)
    <3>1. Catalog!Kind(d.id) = "product"
      BY <1>1, <2>2, ScriptKinds DEF OnItsWay, Scripted
    <3> QED
      BY <1>1, <1>2, <1>3, <2>2, <3>1 DEF Relies, Spares
  <2>3. ASSUME d.todo = <<"link">>, NEW l \in links2 PROVE l[1] # d.id
    BY <1>1, <1>3, <2>3 DEF Relies, Spares
  <2>4. ASSUME d.todo = <<"assign">>, NEW i \in DOMAIN rows2,
               Catalog!Kind(i) = "category" /\ InTable(rows2, i) /\ d.id \in rows2[i].up
        PROVE  i \in d.row.up \cup d.links
    BY <1>1, <1>3, <2>4 DEF Relies, Spares
  <2> QED
    BY <2>1, <2>2, <2>3, <2>4 DEF Relies
<1> QED
  BY <1>1, <1>2, <1>3 DEF Serves, OnItsWay

LEMMA RacedServes ==
  ASSUME NEW d \in ShopCall, NEW rows, NEW rows2, NEW links, NEW links2, DOMAIN rows2 = DOMAIN rows,
         Serves(d, rows, links)
  PROVE  Serves([d EXCEPT !.raced = TRUE], rows2, links2)
<1>1. PICK e : e = [d EXCEPT !.raced = TRUE]
  OBVIOUS
<1>2. /\ e.pc = "run" /\ e.raced = TRUE /\ e.id = d.id /\ e.links = d.links /\ e.todo = d.todo
      /\ e.op = d.op /\ e.wrote = d.wrote /\ d.pc = "run"
  BY <1>1 DEF ShopCall
<1>3. OnItsWay(e, rows2, links2)
  BY <1>2 DEF Serves, OnItsWay, Scripted
<1> QED
  BY <1>1, <1>2, <1>3 DEF Serves

\* A call that is overlapped is a call.
LEMMA CallsRaced ==
  ASSUME NEW d \in ShopCall
  PROVE  [d EXCEPT !.raced = TRUE] \in Catalog!Call
<1>1. [d EXCEPT !.raced = TRUE] \in ShopCall
  BY DEF ShopCall
<1> QED
  BY <1>1 DEF ShopCall, Catalog!Call

LEMMA WritingKeeps ==
  ASSUME Catalog!CatalogAssumption, CatalogInv, NEW r \in Actors, x4[r].pc = "run",
         x1' = x1, x2' \in [Catalog!Ids -> Catalog!Row \cup {Catalog!None}],
         x3' \subseteq {i \in Catalog!Ids : Catalog!Kind(i) = "product"}
                       \X {i \in Catalog!Ids : Catalog!Kind(i) = "collection"},
         Spares(x4[r], x2, x2', x3, x3'),
         NEW d \in Catalog!Call, Serves(d, x2', x3'),
         x4' = [Catalog!Overlapped(r, x4[r].id) EXCEPT ![r] = d]
  PROVE  CatalogInv'
<1>1. PICK f \in [Actors -> Catalog!Call] : f = Catalog!Overlapped(r, x4[r].id)
  BY OverlapsOf DEF CatalogInv
<1>2. x4' \in [Actors -> Catalog!Call] /\ x4'[r] = d /\ \A q \in Actors \ {r} : x4'[q] = f[q]
  BY <1>1
<1>3. Catalog!TypeOK'
  BY <1>2 DEF CatalogInv, Catalog!TypeOK, Catalog!Call, Catalog!Ids
<1>4. ASSUME NEW q \in Actors \ {r} PROVE Serves(x4'[q], x2', x3')
  <2>1. x4[q] \in Catalog!Call /\ Serves(x4[q], x2, x3)
    BY DEF CatalogInv, Catalog!TypeOK
  <2>2. x4'[q] = IF x4[q].pc = "run" /\ Touches(x4[r], x4[q]) THEN [x4[q] EXCEPT !.raced = TRUE] ELSE x4[q]
    BY <1>1, <1>2, OverlapsOf DEF CatalogInv
  <2>3. CASE x4[q].pc = "run" /\ Touches(x4[r], x4[q])
    <3>1. x4[q] \in ShopCall
      BY <2>1, <2>3, ShopCalls
    <3> QED
      BY <2>1, <2>2, <2>3, <3>1, RacedServes DEF Spares
  <2>4. CASE x4[q].pc = "run" /\ ~Touches(x4[r], x4[q])
    BY <2>1, <2>2, <2>4, SparedServes
  <2>5. CASE x4[q].pc # "run"
    BY <2>1, <2>2, <2>5 DEF Serves
  <2> QED
    BY <2>3, <2>4, <2>5
<1> QED
  BY <1>2, <1>3, <1>4 DEF CatalogInv

\* A call whose row is written: answered, or with the statements that are left.
Wrote(kind, code, raced) ==
  [pc |-> "done", kind |-> kind, code |-> code, wrote |-> TRUE, raced |-> raced, kept |-> TRUE]
GoesOn(c, todo) == [c EXCEPT !.wrote = TRUE, !.todo = todo]

LEMMA WroteIs ==
  ASSUME NEW kind, NEW code, NEW raced, NEW d, d = Wrote(kind, code, raced)
  PROVE  /\ d.pc = "done" /\ d.code = code /\ d.kept
         /\ kind \in Catalog!Kinds /\ code \in Catalog!Codes /\ raced \in BOOLEAN => d \in Catalog!Call
<1>1. kind \in Catalog!Kinds /\ code \in Catalog!Codes /\ raced \in BOOLEAN => d \in ShopAnswer
  BY DEF Wrote, ShopAnswer
<1> QED
  BY <1>1 DEF Wrote, ShopAnswer, Catalog!Call

LEMMA CallsGoOn ==
  ASSUME NEW c \in ShopCall, NEW todo \in Seq(Catalog!Statements)
  PROVE  /\ GoesOn(c, todo) \in Catalog!Call
         /\ GoesOn(c, todo).pc = "run" /\ GoesOn(c, todo).todo = todo /\ GoesOn(c, todo).id = c.id
         /\ GoesOn(c, todo).links = c.links /\ GoesOn(c, todo).op = c.op
         /\ GoesOn(c, todo).raced = c.raced
<1>1. GoesOn(c, todo) \in ShopCall
  BY DEF ShopCall, GoesOn
<1> QED
  BY <1>1 DEF ShopCall, GoesOn, Catalog!Call

LEMMA WrittenCalls ==
  ASSUME CatalogInv, NEW r \in Actors, NEW code, x4[r] \in ShopCall, Catalog!Written(r, code)
  PROVE  /\ Len(x4[r].todo) = 1 =>
              \E answer \in {code, 500} :
                x4' = [Catalog!Overlapped(r, x4[r].id) EXCEPT ![r] =
                         Wrote(Catalog!Kind(x4[r].id), answer, x4[r].raced)]
         /\ Len(x4[r].todo) # 1 =>
              x4' = [Catalog!Overlapped(r, x4[r].id) EXCEPT ![r] = GoesOn(x4[r], Tail(x4[r].todo))]
<1>0. x4[r].pc = "run"
  BY DEF ShopCall
<1>1. PICK f \in [Actors -> Catalog!Call] : f = Catalog!Overlapped(r, x4[r].id) /\ f[r] = x4[r]
  BY <1>0, OverlapsOf DEF CatalogInv
<1>2. PICK g : g = [f EXCEPT ![r].wrote = TRUE]
  OBVIOUS
<1>3. g = [f EXCEPT ![r] = [x4[r] EXCEPT !.wrote = TRUE]]
  BY <1>1, <1>2
<1>4. g[r] = [x4[r] EXCEPT !.wrote = TRUE] /\ DOMAIN g = Actors
  BY <1>1, <1>3
<1>5. g[r].wrote = TRUE /\ g[r].raced = x4[r].raced
  BY <1>4 DEF ShopCall
<1>6. ASSUME Len(x4[r].todo) = 1
      PROVE \E answer \in {code, 500} :
              x4' = [f EXCEPT ![r] = Wrote(Catalog!Kind(x4[r].id), answer, x4[r].raced)]
  <2>1. PICK answer \in {code, 500} : Catalog!Done(r, answer, TRUE, g)
    BY <1>1, <1>2, <1>6 DEF Catalog!Written, Catalog!Saved
  <2>2. x4' = [g EXCEPT ![r] = Wrote(Catalog!Kind(x4[r].id), answer, x4[r].raced)]
    BY <1>5, <2>1 DEF Catalog!Done, Wrote
  <2>3. x4' = [f EXCEPT ![r] = Wrote(Catalog!Kind(x4[r].id), answer, x4[r].raced)]
    BY <1>1, <1>3, <2>2
  <2> QED
    BY <2>3
<1>7. ASSUME Len(x4[r].todo) # 1
      PROVE x4' = [f EXCEPT ![r] = GoesOn(x4[r], Tail(x4[r].todo))]
  <2>1. x4' = [g EXCEPT ![r].todo = Tail(@)]
    BY <1>1, <1>2, <1>7 DEF Catalog!Written
  <2>2. g[r].todo = x4[r].todo
    BY <1>4 DEF ShopCall
  <2>3. x4' = [g EXCEPT ![r] = [g[r] EXCEPT !.todo = Tail(x4[r].todo)]]
    BY <2>1, <2>2
  <2>4. [g[r] EXCEPT !.todo = Tail(x4[r].todo)] = GoesOn(x4[r], Tail(x4[r].todo))
    BY <1>4 DEF ShopCall, GoesOn
  <2> QED
    BY <1>1, <1>3, <2>3, <2>4
<1> QED
  BY <1>1, <1>6, <1>7

\* What a call is after its row is written.
LEMMA RowWritten ==
  ASSUME CatalogInv, NEW r \in Actors, Catalog!Doing(r, "write"), NEW code \in {200, 201},
         Catalog!Written(r, code), DOMAIN x2' = DOMAIN x2,
         \/ x4[r].op \notin {"create", "update"}
         \/ InTable(x2', x4[r].id) /\ \A p \in Catalog!Ids : InTable(x2, p) => InTable(x2', p)
  PROVE  \E d \in Catalog!Call :
           Serves(d, x2', x3') /\ x4' = [Catalog!Overlapped(r, x4[r].id) EXCEPT ![r] = d]
<1>1. /\ x4[r] \in ShopCall /\ OnItsWay(x4[r], x2, x3) /\ Scripted(x4[r])
      /\ x4[r].links \subseteq Catalog!Ids
      /\ \/ x4[r].todo = <<"write">> /\ Len(x4[r].todo) = 1
         \/ /\ x4[r].todo = <<"write", "unlink", "link">> /\ Len(x4[r].todo) = 3
            /\ Tail(x4[r].todo) = <<"unlink", "link">>
  BY AtStatement, NextStatement
<1>2. CASE Len(x4[r].todo) = 1
  <2>1. PICK answer \in {code, 500} :
          x4' = [Catalog!Overlapped(r, x4[r].id) EXCEPT ![r] =
                   Wrote(Catalog!Kind(x4[r].id), answer, x4[r].raced)]
    BY <1>1, <1>2, WrittenCalls
  <2>2. PICK d : d = Wrote(Catalog!Kind(x4[r].id), answer, x4[r].raced)
    OBVIOUS
  <2>3. Catalog!Kind(x4[r].id) \in Catalog!Kinds /\ answer \in Catalog!Codes /\ x4[r].raced \in BOOLEAN
    BY <1>1 DEF ShopCall, Catalog!Codes, Catalog!Kind
  <2>4. d \in Catalog!Call /\ d.pc = "done" /\ d.kept /\ d.code = answer
    BY <2>2, <2>3, WroteIs
  <2>5. d.code \in {200, 201, 500}
    BY <2>1, <2>4
  <2>6. Serves(d, x2', x3')
    BY <2>4, <2>5 DEF Serves, Answered
  <2> QED
    BY <2>1, <2>2, <2>4, <2>6
<1>3. CASE /\ x4[r].todo = <<"write", "unlink", "link">> /\ Len(x4[r].todo) = 3
           /\ Tail(x4[r].todo) = <<"unlink", "link">>
  <2>1. PICK d : d = GoesOn(x4[r], <<"unlink", "link">>)
    OBVIOUS
  <2>2. x4' = [Catalog!Overlapped(r, x4[r].id) EXCEPT ![r] = d]
    <3>1. Len(x4[r].todo) # 1
      BY <1>3
    <3>2. x4' = [Catalog!Overlapped(r, x4[r].id) EXCEPT ![r] = GoesOn(x4[r], Tail(x4[r].todo))]
      BY <1>1, <3>1, WrittenCalls
    <3> QED
      BY <1>3, <2>1, <3>2
  <2>3. <<"unlink", "link">> \in Seq(Catalog!Statements)
    BY ScriptKinds, NextStatement
  <2>4. /\ d \in Catalog!Call /\ d.pc = "run"
        /\ d.todo = <<"unlink", "link">> /\ d.id = x4[r].id /\ d.links = x4[r].links
        /\ d.op = x4[r].op /\ d.raced = x4[r].raced
    <3>1. x4[r] \in ShopCall
      BY <1>1
    <3>2. DEFINE todo == <<"unlink", "link">>
    <3>3. todo \in Seq(Catalog!Statements) /\ d = GoesOn(x4[r], todo)
      BY <2>1, <2>3
    <3> HIDE DEF todo
    <3>4. /\ d \in Catalog!Call /\ d.pc = "run" /\ d.todo = todo /\ d.id = x4[r].id
          /\ d.links = x4[r].links /\ d.op = x4[r].op /\ d.raced = x4[r].raced
      BY <3>1, <3>3, CallsGoOn
    <3> QED
      BY <3>4 DEF todo
  <2>5. d \in Catalog!Call /\ d.pc = "run"
    BY <2>4
  <2>6. /\ d.todo = <<"unlink", "link">> /\ d.id = x4[r].id /\ d.links = x4[r].links
        /\ d.op = x4[r].op /\ d.raced = x4[r].raced
    BY <2>4
  <2>7. x4[r].op \in {"create", "update"} /\ Catalog!Kind(x4[r].id) = "product"
    BY <1>1, <1>3, ScriptKinds DEF Scripted
  <2>8. Scripted(d)
    BY <2>6, <2>7, ScriptKinds DEF Scripted
  <2>9. ~d.raced => Relies(d, x2', x3')
    <3>1. ~d.raced => \A p \in d.links : InTable(x2', p)
      BY <1>1, <1>3, <2>6, <2>7 DEF OnItsWay, Relies
    <3> QED
      BY <2>6, <2>7, <3>1, ScriptKinds DEF Relies
  <2>10. Serves(d, x2', x3')
    BY <1>1, <2>5, <2>6, <2>8, <2>9 DEF Serves, OnItsWay
  <2> QED
    BY <2>2, <2>5, <2>10
<1> QED
  BY <1>1, <1>2, <1>3

LEMMA RefusesAtWrite ==
  ASSUME CatalogInv, NEW r \in Actors, Catalog!Doing(r, "write"),
         NEW code \in {404, 409, 422, 500}, Catalog!Answer(r, code)
  PROVE  CatalogInv'
<1>1. x4[r] \in ShopCall /\ Scripted(x4[r]) /\ x4[r].todo \in {<<"write">>, <<"write", "unlink", "link">>}
  BY AtStatement, NextStatement
<1>2. ~x4[r].wrote
  BY <1>1, ScriptKinds DEF Scripted
<1>3. code \in Catalog!Codes /\ code >= 400
  BY DEF Catalog!Codes
<1> QED
  BY <1>1, <1>2, <1>3, ShopAnswers

\* INSERT and UPDATE.
LEMMA PutKeeps ==
  ASSUME Catalog!CatalogAssumption, CatalogInv, NEW r \in Actors, Catalog!Doing(r, "write"),
         NEW code \in {200, 201}, Catalog!Written(r, code), x1' = x1, x3' = x3,
         x2' = [x2 EXCEPT ![x4[r].id] = x4[r].row]
  PROVE  CatalogInv'
<1>1. x4[r] \in ShopCall /\ x4[r].pc = "run" /\ x4[r].id \in Catalog!Ids
  BY AtStatement
<1>2. x4[r].row \in Catalog!Row /\ x4[r].row.state # "none"
  BY <1>1 DEF ShopCall, Catalog!Row
<1>3. /\ x2' \in [Catalog!Ids -> Catalog!Row \cup {Catalog!None}] /\ DOMAIN x2' = DOMAIN x2
      /\ x2'[x4[r].id] = x4[r].row /\ \A i \in Catalog!Ids \ {x4[r].id} : x2'[i] = x2[i]
      /\ DOMAIN x2 = Catalog!Ids
  BY <1>1, <1>2 DEF CatalogInv, Catalog!TypeOK
<1>4. InTable(x2', x4[r].id) /\ \A p \in Catalog!Ids : InTable(x2, p) => InTable(x2', p)
  BY <1>2, <1>3 DEF InTable
<1>5. Spares(x4[r], x2, x2', x3, x3')
  BY <1>3, <1>4 DEF Spares, InTable
<1>6. DOMAIN x2' = DOMAIN x2
  BY <1>3
<1>7. PICK d \in Catalog!Call :
        Serves(d, x2', x3') /\ x4' = [Catalog!Overlapped(r, x4[r].id) EXCEPT ![r] = d]
  <2>1. CASE code = 200
    BY <1>4, <1>6, <2>1, RowWritten
  <2>2. CASE code = 201
    BY <1>4, <1>6, <2>2, RowWritten
  <2> QED
    BY <2>1, <2>2
<1> QED
  BY <1>1, <1>3, <1>5, <1>7, WritingKeeps DEF CatalogInv, Catalog!TypeOK

LEMMA InsertRowKeeps ==
  ASSUME Catalog!CatalogAssumption, CatalogInv, NEW r \in Actors, Catalog!Insert(r)
  PROVE  CatalogInv'
<1>1. Catalog!Doing(r, "write")
  BY DEF Catalog!Insert
<1>2. CASE Catalog!Answer(r, 409) \/ Catalog!Answer(r, 422)
  BY <1>1, <1>2, RefusesAtWrite
<1>3. CASE x2' = [x2 EXCEPT ![x4[r].id] = x4[r].row] /\ Catalog!Written(r, 201) /\ UNCHANGED <<x1, x3>>
  BY <1>1, <1>3, PutKeeps
<1> QED
  BY <1>2, <1>3 DEF Catalog!Insert

LEMMA SetKeeps ==
  ASSUME Catalog!CatalogAssumption, CatalogInv, NEW r \in Actors, Catalog!Set(r)
  PROVE  CatalogInv'
<1>1. Catalog!Doing(r, "write")
  BY DEF Catalog!Set
<1>2. CASE Catalog!Answer(r, 404) \/ Catalog!Answer(r, 409) \/ Catalog!Answer(r, 422)
  BY <1>1, <1>2, RefusesAtWrite
<1>3. CASE x2' = [x2 EXCEPT ![x4[r].id] = x4[r].row] /\ Catalog!Written(r, 200) /\ UNCHANGED <<x1, x3>>
  BY <1>1, <1>3, PutKeeps
<1> QED
  BY <1>2, <1>3 DEF Catalog!Set

LEMMA MarkKeeps ==
  ASSUME Catalog!CatalogAssumption, CatalogInv, NEW r \in Actors, Catalog!Mark(r)
  PROVE  CatalogInv'
<1>1. Catalog!Doing(r, "write") /\ x4[r].op \in {"delete", "restore"}
  BY DEF Catalog!Mark
<1>2. CASE Catalog!Answer(r, 404)
  BY <1>1, <1>2, RefusesAtWrite
<1>3. ASSUME NEW from \in {"live", "deleted"}, NEW to \in {"live", "deleted"},
             x2[x4[r].id].state = from, x2' = [x2 EXCEPT ![x4[r].id].state = to],
             Catalog!Written(r, 200), UNCHANGED <<x1, x3>>
      PROVE  CatalogInv'
  <2>1. x4[r] \in ShopCall /\ x4[r].pc = "run" /\ x4[r].id \in Catalog!Ids
    BY <1>1, AtStatement
  <2>2. x2[x4[r].id] \in Catalog!Row /\ DOMAIN x2 = Catalog!Ids
    BY <1>3, <2>1, ShopRows DEF CatalogInv, Catalog!There
  <2>3. PICK row : row = [x2[x4[r].id] EXCEPT !.state = to]
    OBVIOUS
  <2>4. row \in Catalog!Row /\ row.up = x2[x4[r].id].up /\ row.state # "none"
    BY <2>2, <2>3 DEF Catalog!Row
  <2>5. /\ x2' = [x2 EXCEPT ![x4[r].id] = row]
        /\ x2' \in [Catalog!Ids -> Catalog!Row \cup {Catalog!None}] /\ DOMAIN x2' = DOMAIN x2
        /\ x2'[x4[r].id] = row /\ \A i \in Catalog!Ids \ {x4[r].id} : x2'[i] = x2[i]
    BY <1>3, <2>1, <2>3, <2>4 DEF CatalogInv, Catalog!TypeOK
  <2>6. InTable(x2, x4[r].id)
    BY <1>3 DEF InTable
  <2>7. Spares(x4[r], x2, x2', x3, x3')
    BY <1>3, <2>2, <2>4, <2>5, <2>6 DEF Spares, InTable
  <2>8. PICK d \in Catalog!Call :
          Serves(d, x2', x3') /\ x4' = [Catalog!Overlapped(r, x4[r].id) EXCEPT ![r] = d]
    BY <1>1, <1>3, <2>5, RowWritten
  <2> QED
    BY <1>3, <2>1, <2>5, <2>7, <2>8, WritingKeeps DEF CatalogInv, Catalog!TypeOK
<1> QED
  BY <1>1, <1>2, <1>3 DEF Catalog!Mark

----------------------------------------------------------------------------
(* Permanent deletion *)

\* What a deletion may take along: products, collections and payments go by themselves
\* only, an item by itself or with its order.
LEMMA ShopKeys ==
  ASSUME NEW k \in Catalog!Kinds, NEW f \in Catalog!ForeignKeys[k], f.on = "cascade"
  PROVE  k \notin {"product", "collection", "payment"} /\ (k = "item" => f.to = "order")
<1>1. /\ Catalog!ForeignKeys["product"] = Catalog!ProductKeys
      /\ Catalog!ForeignKeys["collection"] = {}
      /\ Catalog!ForeignKeys["payment"] = Catalog!PaymentKeys
      /\ Catalog!ForeignKeys["item"] = Catalog!ItemKeys
  BY DEF Catalog!ForeignKeys, Catalog!Kinds
<1>2. CASE k \in {"product", "collection", "payment"}
  BY <1>1, <1>2 DEF Catalog!ProductKeys, Catalog!PaymentKeys, Catalog!Restrict
<1>3. CASE k = "item"
  BY <1>1, <1>3 DEF Catalog!ItemKeys, Catalog!Cascade, Catalog!Restrict
<1> QED
  BY <1>2, <1>3

LEMMA DoomedRows ==
  ASSUME Catalog!CatalogAssumption, Catalog!TypeOK, NEW id \in Catalog!Ids, NEW i \in Catalog!Doomed(id)
  PROVE  /\ i \in Catalog!Ids
         /\ Catalog!Kind(i) \in {"product", "collection", "payment"} => i = id
         /\ Catalog!Kind(i) = "item" =>
              i = id \/ \E o \in Catalog!Doomed(id) : o \in x2[i].up /\ Catalog!Kind(o) = "order"
<1> DEFINE N(S) == S \cup {j \in Catalog!Ids : \E p \in S : Catalog!Refers(j, p, "cascade")}
<1>1. Catalog!Doomed(id) = N(N({id}))
  BY DEF Catalog!Doomed
<1>2. i = id \/ \E p \in N({id}) : i \in Catalog!Ids /\ Catalog!Refers(i, p, "cascade")
  BY <1>1
<1>3. N({id}) \subseteq Catalog!Doomed(id)
  BY <1>1
<1> HIDE DEF N
<1>4. CASE i = id
  BY <1>4
<1>5. ASSUME NEW p \in Catalog!Doomed(id), i \in Catalog!Ids, Catalog!Refers(i, p, "cascade")
      PROVE  /\ Catalog!Kind(i) \notin {"product", "collection", "payment"}
             /\ Catalog!Kind(i) = "item" => p \in x2[i].up /\ Catalog!Kind(p) = "order"
  <2>1. PICK f \in Catalog!ForeignKeys[Catalog!Kind(i)] : f.to = Catalog!Kind(p) /\ f.on = "cascade"
    BY <1>5 DEF Catalog!Refers
  <2>2. Catalog!Kind(i) \in Catalog!Kinds
    BY <1>5, ShopIds DEF Catalog!TypeOK
  <2> QED
    BY <1>5, <2>1, <2>2, ShopKeys DEF Catalog!Refers
<1> QED
  BY <1>2, <1>3, <1>4, <1>5

LEMMA Purged ==
  ASSUME Catalog!CatalogAssumption, CatalogInv, NEW id \in Catalog!Ids,
         x2' = [i \in Catalog!Ids |->
                 IF i \in Catalog!Doomed(id) THEN Catalog!None
                 ELSE IF Catalog!There(i) /\ Catalog!Refers(i, id, "set null")
                 THEN [x2[i] EXCEPT !.up = @ \ {id}] ELSE x2[i]]
  PROVE  /\ x2' \in [Catalog!Ids -> Catalog!Row \cup {Catalog!None}] /\ DOMAIN x2' = DOMAIN x2
         /\ \A i \in Catalog!Doomed(id) : i \in Catalog!Ids /\ x2'[i] = Catalog!None
         /\ \A i \in Catalog!Ids \ Catalog!Doomed(id) :
              /\ InTable(x2', i) <=> InTable(x2, i)
              /\ InTable(x2, i) => x2'[i].up \subseteq x2[i].up
<1>1. ASSUME NEW i \in Catalog!Ids \ Catalog!Doomed(id)
      PROVE  /\ x2'[i] \in Catalog!Row \cup {Catalog!None}
             /\ InTable(x2', i) <=> InTable(x2, i)
             /\ InTable(x2, i) => x2'[i].up \subseteq x2[i].up
  <2>1. CASE Catalog!There(i) /\ Catalog!Refers(i, id, "set null")
    <3>1. x2'[i] = [x2[i] EXCEPT !.up = @ \ {id}] /\ x2[i] \in Catalog!Row
      BY <2>1, ShopRows DEF CatalogInv
    <3>2. x2'[i] \in Catalog!Row /\ x2'[i].up \subseteq x2[i].up /\ x2'[i].state = x2[i].state
      BY <3>1 DEF Catalog!Row
    <3> QED
      BY <3>2 DEF InTable
  <2>2. CASE ~(Catalog!There(i) /\ Catalog!Refers(i, id, "set null"))
    <3>1. x2'[i] = x2[i]
      BY <2>2
    <3> QED
      BY <3>1, ShopRows DEF CatalogInv, InTable
  <2> QED
    BY <2>1, <2>2
<1>2. \A i \in Catalog!Doomed(id) : i \in Catalog!Ids /\ x2'[i] = Catalog!None
  BY DoomedRows DEF CatalogInv
<1>3. DOMAIN x2' = Catalog!Ids /\ x2' = [i \in Catalog!Ids |-> x2'[i]] /\ DOMAIN x2 = Catalog!Ids
  BY DEF CatalogInv, Catalog!TypeOK
<1>4. x2' \in [Catalog!Ids -> Catalog!Row \cup {Catalog!None}]
  BY <1>1, <1>2, <1>3
<1> QED
  BY <1>1, <1>2, <1>3, <1>4

LEMMA PurgeKeeps ==
  ASSUME Catalog!CatalogAssumption, CatalogInv, NEW r \in Actors, Catalog!Purge(r)
  PROVE  CatalogInv'
<1>1. Catalog!Doing(r, "write") /\ x4[r].op = "purge"
  BY DEF Catalog!Purge
<1>2. CASE Catalog!Answer(r, 404) \/ Catalog!Answer(r, 500)
  BY <1>1, <1>2, RefusesAtWrite
<1>3. CASE /\ x2' = [i \in Catalog!Ids |->
                 IF i \in Catalog!Doomed(x4[r].id) THEN Catalog!None
                 ELSE IF Catalog!There(i) /\ Catalog!Refers(i, x4[r].id, "set null")
                 THEN [x2[i] EXCEPT !.up = @ \ {x4[r].id}] ELSE x2[i]]
           /\ x3' = {l \in x3 : l[1] # x4[r].id /\ l[2] # x4[r].id}
           /\ Catalog!Written(r, 200) /\ UNCHANGED x1
  <2>1. x4[r] \in ShopCall /\ x4[r].pc = "run" /\ x4[r].id \in Catalog!Ids
    BY <1>1, AtStatement
  <2>2. /\ x2' \in [Catalog!Ids -> Catalog!Row \cup {Catalog!None}] /\ DOMAIN x2' = DOMAIN x2
        /\ \A i \in Catalog!Doomed(x4[r].id) : i \in Catalog!Ids /\ x2'[i] = Catalog!None
        /\ \A i \in Catalog!Ids \ Catalog!Doomed(x4[r].id) :
             /\ InTable(x2', i) <=> InTable(x2, i)
             /\ InTable(x2, i) => x2'[i].up \subseteq x2[i].up
    BY <1>3, <2>1, Purged
  <2>3. \A i \in Catalog!Doomed(x4[r].id) : ~InTable(x2', i)
    BY <2>2 DEF InTable, Catalog!None
  <2>4. Spares(x4[r], x2, x2', x3, x3')
    <3>1. DOMAIN x2 = Catalog!Ids
      BY DEF CatalogInv, Catalog!TypeOK
    <3> QED
      BY <1>3, <2>1, <2>2, <2>3, <3>1, DoomedRows DEF Spares, CatalogInv
  <2>5. PICK d \in Catalog!Call :
          Serves(d, x2', x3') /\ x4' = [Catalog!Overlapped(r, x4[r].id) EXCEPT ![r] = d]
    BY <1>1, <1>3, <2>2, RowWritten
  <2> QED
    BY <1>3, <2>1, <2>2, <2>4, <2>5, WritingKeeps DEF CatalogInv, Catalog!TypeOK
<1> QED
  BY <1>1, <1>2, <1>3 DEF Catalog!Purge

----------------------------------------------------------------------------
(* The collections of a product, the categories of a brand *)

LEMMA UnlinkKeeps ==
  ASSUME Catalog!CatalogAssumption, CatalogInv, NEW r \in Actors, Catalog!Unlink(r)
  PROVE  CatalogInv'
<1>1. Catalog!Doing(r, "unlink") /\ Catalog!Written(r, 200) /\ UNCHANGED <<x1, x2>>
      /\ x3' = {l \in x3 : l[1] # x4[r].id}
  BY DEF Catalog!Unlink
<1>2. /\ x4[r] \in ShopCall /\ x4[r].pc = "run" /\ OnItsWay(x4[r], x2, x3) /\ Scripted(x4[r])
      /\ x4[r].todo = <<"unlink", "link">> /\ Len(x4[r].todo) = 2 /\ Tail(x4[r].todo) = <<"link">>
  BY <1>1, AtStatement, NextStatement
<1>3. PICK d : d = GoesOn(x4[r], <<"link">>)
  OBVIOUS
<1>4. x4' = [Catalog!Overlapped(r, x4[r].id) EXCEPT ![r] = d]
  <2>1. Len(x4[r].todo) # 1
    BY <1>2
  <2>2. x4' = [Catalog!Overlapped(r, x4[r].id) EXCEPT ![r] = GoesOn(x4[r], Tail(x4[r].todo))]
    BY <1>1, <1>2, <2>1, WrittenCalls
  <2> QED
    BY <1>2, <1>3, <2>2
<1>5. <<"link">> \in Seq(Catalog!Statements)
  BY ScriptKinds, NextStatement
<1>6. /\ d \in Catalog!Call /\ d.pc = "run"
      /\ d.todo = <<"link">> /\ d.id = x4[r].id /\ d.links = x4[r].links
      /\ d.op = x4[r].op /\ d.raced = x4[r].raced
  <2>1. x4[r] \in ShopCall
    BY <1>2
  <2>2. DEFINE todo == <<"link">>
  <2>3. todo \in Seq(Catalog!Statements) /\ d = GoesOn(x4[r], todo)
    BY <1>3, <1>5
  <2> HIDE DEF todo
  <2>4. /\ d \in Catalog!Call /\ d.pc = "run" /\ d.todo = todo /\ d.id = x4[r].id
        /\ d.links = x4[r].links /\ d.op = x4[r].op /\ d.raced = x4[r].raced
    BY <2>1, <2>3, CallsGoOn
  <2> QED
    BY <2>4 DEF todo
<1>7. d \in Catalog!Call /\ d.pc = "run"
  BY <1>6
<1>8. /\ d.todo = <<"link">> /\ d.id = x4[r].id /\ d.links = x4[r].links
      /\ d.op = x4[r].op /\ d.raced = x4[r].raced
  BY <1>6
<1>9. x4[r].op \in {"create", "update"} /\ Catalog!Kind(x4[r].id) = "product"
  BY <1>2, ScriptKinds DEF Scripted
<1>10. Scripted(d)
  BY <1>8, <1>9, ScriptKinds DEF Scripted
<1>11. ~d.raced => Relies(d, x2, x3')
  <2>1. ~d.raced => InTable(x2, d.id) /\ \A p \in d.links : InTable(x2, p)
    BY <1>2, <1>8, ScriptKinds DEF OnItsWay, Relies
  <2>2. \A l \in x3' : l[1] # d.id
    BY <1>1, <1>8
  <2> QED
    BY <1>8, <2>1, <2>2, ScriptKinds DEF Relies
<1>12. Serves(d, x2', x3')
  BY <1>1, <1>2, <1>7, <1>8, <1>9, <1>10, <1>11 DEF Serves, OnItsWay
<1>13. Spares(x4[r], x2, x2', x3, x3')
  BY <1>1 DEF Spares
<1> QED
  BY <1>1, <1>2, <1>4, <1>7, <1>12, <1>13, WritingKeeps DEF CatalogInv, Catalog!TypeOK

LEMMA LinkKeeps ==
  ASSUME Catalog!CatalogAssumption, CatalogInv, NEW r \in Actors, Catalog!Link(r)
  PROVE  CatalogInv'
<1>1. Catalog!Doing(r, "link")
  BY DEF Catalog!Link
<1>2. /\ x4[r] \in ShopCall /\ x4[r].pc = "run" /\ OnItsWay(x4[r], x2, x3) /\ Scripted(x4[r])
      /\ x4[r].todo = <<"link">> /\ x4[r].id \in Catalog!Ids /\ x4[r].links \subseteq Catalog!Ids
  BY <1>1, AtStatement, NextStatement
<1>3. Catalog!Kind(x4[r].id) = "product" /\ \A p \in x4[r].links : Catalog!Kind(p) = "collection"
  BY <1>2, ScriptKinds DEF Scripted, OnItsWay
<1>4. ~x4[r].raced =>
        /\ Catalog!LinksOf(x4[r].id) = {} /\ Catalog!There(x4[r].id)
        /\ \A p \in x4[r].links : Catalog!There(p)
  <2>1. ~x4[r].raced => Relies(x4[r], x2, x3)
    BY <1>2 DEF OnItsWay
  <2>2. ~x4[r].raced => \A l \in x3 : l[1] # x4[r].id
    BY <1>2, <2>1 DEF Relies
  <2>3. ~x4[r].raced => InTable(x2, x4[r].id) /\ \A p \in x4[r].links : InTable(x2, p)
    BY <1>2, <2>1, ScriptKinds DEF Relies
  <2> QED
    BY <2>2, <2>3 DEF Catalog!LinksOf, InTable, Catalog!There
<1>5. CASE x4[r].links \cap Catalog!LinksOf(x4[r].id) # {} /\ Catalog!Answer(r, 409)
  BY <1>2, <1>4, <1>5, ShopAnswers DEF Catalog!Codes
<1>6. CASE /\ ~Catalog!There(x4[r].id) \/ \E p \in x4[r].links : ~Catalog!There(p)
           /\ Catalog!Answer(r, 422)
  BY <1>2, <1>4, <1>6, ShopAnswers DEF Catalog!Codes
<1>7. ASSUME NEW code \in {200, 201}, x3' = x3 \cup ({x4[r].id} \X x4[r].links), UNCHANGED <<x1, x2>>,
             Catalog!Saved(r, code, Catalog!LinksOf(x4[r].id) = {},
                           [Catalog!Overlapped(r, x4[r].id) EXCEPT ![r].wrote = TRUE])
      PROVE  CatalogInv'
  <2>1. PICK f \in [Actors -> Catalog!Call] : f = Catalog!Overlapped(r, x4[r].id) /\ f[r] = x4[r]
    BY <1>2, OverlapsOf DEF CatalogInv
  <2>2. PICK g : g = [f EXCEPT ![r].wrote = TRUE]
    OBVIOUS
  <2>3. g = [f EXCEPT ![r] = [x4[r] EXCEPT !.wrote = TRUE]]
    BY <2>1, <2>2
  <2>4. g[r].wrote = TRUE /\ g[r].raced = x4[r].raced
    BY <1>2, <2>1, <2>3 DEF ShopCall
  <2>5. PICK answer \in {code, 500} : Catalog!Done(r, answer, Catalog!LinksOf(x4[r].id) = {}, g)
    BY <1>7, <2>1, <2>2 DEF Catalog!Saved
  <2>6. PICK d : d = [pc |-> "done", kind |-> Catalog!Kind(x4[r].id), code |-> answer, wrote |-> TRUE,
                      raced |-> x4[r].raced, kept |-> Catalog!LinksOf(x4[r].id) = {}]
    OBVIOUS
  <2>7. x4' = [f EXCEPT ![r] = d]
    <3>1. Catalog!Done(r, answer, Catalog!LinksOf(x4[r].id) = {}, g)
      BY <2>5
    <3>2. x4' = [g EXCEPT ![r] = d]
      BY <2>4, <2>6, <3>1 DEF Catalog!Done
    <3> QED
      BY <2>1, <2>3, <3>2
  <2>8. d \in ShopAnswer
    BY <1>2, <2>6 DEF ShopCall, ShopAnswer, Catalog!Codes, Catalog!Kind
  <2>9. d \in Catalog!Call
    BY <2>8 DEF ShopAnswer, Catalog!Call
  <2>10. Serves(d, x2', x3')
    <3>0. d.kept = (Catalog!LinksOf(x4[r].id) = {})
      BY <2>6
    <3>1. /\ d.pc = "done" /\ d.code \in {200, 201, 500} /\ d.raced = x4[r].raced
          /\ d.kept <=> Catalog!LinksOf(x4[r].id) = {}
      <4>1. d.pc = "done" /\ d.code = answer /\ d.raced = x4[r].raced
        BY <2>6
      <4>2. answer \in {200, 201, 500}
        BY <1>7, <2>5
      <4>3. d.kept <=> Catalog!LinksOf(x4[r].id) = {}
        BY <3>0, Zenon
      <4> QED
        BY <4>1, <4>2, <4>3
    <3>2. d.kept \/ d.raced
      BY <1>4, <3>1
    <3> QED
      BY <3>1, <3>2 DEF Serves, Answered
  <2>11. Spares(x4[r], x2, x2', x3, x3')
    BY <1>7 DEF Spares
  <2>12. x3' \subseteq {i \in Catalog!Ids : Catalog!Kind(i) = "product"}
                       \X {i \in Catalog!Ids : Catalog!Kind(i) = "collection"}
    BY <1>2, <1>3, <1>7 DEF CatalogInv, Catalog!TypeOK
  <2> QED
    BY <1>2, <1>7, <2>1, <2>7, <2>9, <2>10, <2>11, <2>12, WritingKeeps DEF CatalogInv, Catalog!TypeOK
<1> QED
  BY <1>5, <1>6, <1>7 DEF Catalog!Link

LEMMA AssignKeeps ==
  ASSUME Catalog!CatalogAssumption, CatalogInv, NEW r \in Actors, Catalog!Assign(r)
  PROVE  CatalogInv'
<1>1. Catalog!Doing(r, "assign")
  BY DEF Catalog!Assign
<1>2. /\ x4[r] \in ShopCall /\ x4[r].pc = "run" /\ OnItsWay(x4[r], x2, x3) /\ Scripted(x4[r])
      /\ x4[r].todo = <<"assign">> /\ x4[r].id \in Catalog!Ids /\ x4[r].links \subseteq Catalog!Ids
  BY <1>1, AtStatement, NextStatement
<1>3. ~x4[r].wrote
  BY <1>2, ScriptKinds DEF Scripted
<1>4. CASE Catalog!Answer(r, 500)
  BY <1>2, <1>3, <1>4, ShopAnswers DEF Catalog!Codes
<1> DEFINE kept == Catalog!InBrand(x4[r].id) \ x4[r].row.up \subseteq x4[r].links
           f == [q \in Actors |->
                  IF q = r THEN [x4[r] EXCEPT !.wrote = TRUE]
                  ELSE IF x4[q].pc = "run" THEN [x4[q] EXCEPT !.raced = TRUE] ELSE x4[q]]
           d(answer) == [pc |-> "done", kind |-> Catalog!Kind(x4[r].id), code |-> answer,
                         wrote |-> TRUE, raced |-> x4[r].raced, kept |-> kept]
<1>5. CASE /\ x2' = [i \in Catalog!Ids |->
                 IF ~Catalog!There(i) THEN Catalog!None
                 ELSE IF i \in x4[r].links THEN [x2[i] EXCEPT !.up = {x4[r].id}]
                 ELSE IF i \in x4[r].row.up THEN [x2[i] EXCEPT !.up = @ \ {x4[r].id}]
                 ELSE x2[i]]
           /\ Catalog!Saved(r, 200, kept, f)
           /\ UNCHANGED <<x1, x3>>
  <2>0. PICK answer \in {200, 500} : Catalog!Done(r, answer, kept, f)
    BY <1>5 DEF Catalog!Saved
  <2>1. x4' = [f EXCEPT ![r] = d(answer)]
    <3>1. f[r] = [x4[r] EXCEPT !.wrote = TRUE]
      OBVIOUS
    <3>2. f[r].wrote = TRUE /\ f[r].raced = x4[r].raced
      BY <1>2, <3>1 DEF ShopCall
    <3> QED
      BY <2>0, <3>2 DEF Catalog!Done
  <2>2. ~x4[r].raced => kept
    <3>1. ~x4[r].raced =>
            \A i \in DOMAIN x2 :
              Catalog!Kind(i) = "category" /\ InTable(x2, i) /\ x4[r].id \in x2[i].up
              => i \in x4[r].row.up \cup x4[r].links
      BY <1>2 DEF OnItsWay, Relies
    <3> QED
      BY <3>1, ShopRows DEF Catalog!InBrand, CatalogInv
  <2>3. d(answer) \in ShopAnswer
    BY <1>2 DEF ShopCall, ShopAnswer, Catalog!Codes, Catalog!Kind
  <2>4. d(answer) \in Catalog!Call
    BY <2>3 DEF ShopAnswer, Catalog!Call
  <2>5. Serves(d(answer), x2', x3')
    <3>1. /\ d(answer).pc = "done" /\ d(answer).code \in {200, 500}
          /\ d(answer).raced = x4[r].raced /\ (d(answer).kept <=> kept)
      OBVIOUS
    <3>2. d(answer).kept \/ d(answer).raced
      BY <2>2, <3>1
    <3> QED
      BY <3>1, <3>2 DEF Serves, Answered
  <2>6. \A q \in Actors \ {r} :
          x4'[q] = IF x4[q].pc = "run" THEN [x4[q] EXCEPT !.raced = TRUE] ELSE x4[q]
    BY <2>1
  <2>7. x4'[r] = d(answer) /\ DOMAIN x4' = Actors /\ x4' = [q \in Actors |-> x4'[q]]
    BY <2>1
  <2> HIDE DEF d, f, kept
  <2>8. ASSUME NEW i \in Catalog!Ids PROVE x2'[i] \in Catalog!Row \cup {Catalog!None}
    <3>1. CASE ~Catalog!There(i)
      BY <1>5, <3>1
    <3>2. CASE Catalog!There(i) /\ i \in x4[r].links
      <4>1. x2'[i] = [x2[i] EXCEPT !.up = {x4[r].id}] /\ x2[i] \in Catalog!Row
        BY <1>5, <3>2, ShopRows DEF CatalogInv
      <4>2. x4[r].id \in Catalog!Kinds \X Nat
        BY <1>2, ShopIds DEF CatalogInv, Catalog!TypeOK
      <4> QED
        BY <4>1, <4>2 DEF Catalog!Row
    <3>3. CASE Catalog!There(i) /\ i \notin x4[r].links /\ i \in x4[r].row.up
      <4>1. x2'[i] = [x2[i] EXCEPT !.up = @ \ {x4[r].id}] /\ x2[i] \in Catalog!Row
        BY <1>5, <3>3, ShopRows DEF CatalogInv
      <4> QED
        BY <4>1 DEF Catalog!Row
    <3>4. CASE Catalog!There(i) /\ i \notin x4[r].links /\ i \notin x4[r].row.up
      <4>1. x2'[i] = x2[i]
        BY <1>5, <3>4
      <4> QED
        BY <4>1, ShopRows DEF CatalogInv
    <3> QED
      BY <3>1, <3>2, <3>3, <3>4
  <2>9. x2' \in [Catalog!Ids -> Catalog!Row \cup {Catalog!None}] /\ DOMAIN x2' = DOMAIN x2
    <3>1. x2' = [i \in Catalog!Ids |-> x2'[i]] /\ DOMAIN x2 = Catalog!Ids
      BY <1>5 DEF CatalogInv, Catalog!TypeOK
    <3> QED
      BY <2>8, <3>1
  <2>10. ASSUME NEW q \in Actors \ {r} PROVE Serves(x4'[q], x2', x3') /\ x4'[q] \in Catalog!Call
    <3>1. x4[q] \in Catalog!Call /\ Serves(x4[q], x2, x3)
      BY DEF CatalogInv, Catalog!TypeOK
    <3>2. CASE x4[q].pc = "run"
      <4>1. x4[q] \in ShopCall /\ x4'[q] = [x4[q] EXCEPT !.raced = TRUE]
        BY <2>6, <3>1, <3>2, ShopCalls
      <4>2. x4'[q] \in Catalog!Call
        BY <4>1, CallsRaced
      <4>3. Serves([x4[q] EXCEPT !.raced = TRUE], x2', x3')
        BY <2>9, <3>1, <4>1, RacedServes
      <4> QED
        BY <4>1, <4>2, <4>3
    <3>3. CASE x4[q].pc # "run"
      BY <2>6, <3>1, <3>3 DEF Serves
    <3> QED
      BY <3>2, <3>3
  <2>11. x4' \in [Actors -> Catalog!Call]
    BY <2>4, <2>7, <2>10
  <2>12. Catalog!TypeOK'
    BY <1>5, <2>9, <2>11 DEF CatalogInv, Catalog!TypeOK, Catalog!Call, Catalog!Ids
  <2> QED
    BY <2>5, <2>7, <2>10, <2>12 DEF CatalogInv
<1> HIDE DEF d, f, kept
<1>6. Catalog!Answer(r, 500) \/
        (/\ x2' = [i \in Catalog!Ids |->
                 IF ~Catalog!There(i) THEN Catalog!None
                 ELSE IF i \in x4[r].links THEN [x2[i] EXCEPT !.up = {x4[r].id}]
                 ELSE IF i \in x4[r].row.up THEN [x2[i] EXCEPT !.up = @ \ {x4[r].id}]
                 ELSE x2[i]]
           /\ Catalog!Saved(r, 200, kept, f)
           /\ UNCHANGED <<x1, x3>>)
  BY DEF Catalog!Assign, kept, f
<1> QED
  BY <1>4, <1>5, <1>6

\* What fails with its row written is a product at its collections.
LEMMA FailKeeps ==
  ASSUME CatalogInv, NEW r \in Actors, Catalog!Fail(r)
  PROVE  CatalogInv'
<1>1. x4[r] \in Catalog!Call /\ x4[r].pc = "run" /\ OnItsWay(x4[r], x2, x3)
  BY DEF CatalogInv, Catalog!TypeOK, Serves, Catalog!Fail
<1>2. x4[r] \in ShopCall
  BY <1>1, ShopCalls
<1>3. PICK d : d = [pc |-> "done", kind |-> Catalog!Kind(x4[r].id), code |-> 500, wrote |-> x4[r].wrote,
                    raced |-> x4[r].raced, kept |-> FALSE]
  OBVIOUS
<1>4. UNCHANGED <<x1, x2, x3>> /\ x4' = [x4 EXCEPT ![r] = d]
  BY <1>3 DEF Catalog!Fail, Catalog!Done
<1>5. d \in ShopAnswer
  BY <1>2, <1>3 DEF ShopCall, ShopAnswer, Catalog!Codes, Catalog!Kind
<1>6. d \in Catalog!Call
  BY <1>5 DEF ShopAnswer, Catalog!Call
<1>7. d.wrote => d.kind = "product"
  BY <1>1, <1>3 DEF OnItsWay, Scripted
<1>8. Serves(d, x2, x3)
  BY <1>3, <1>7 DEF Serves, Answered
<1> QED
  BY <1>4, <1>6, <1>8, ShopCallMoves

----------------------------------------------------------------------------
LEMMA CatalogInitially ==
  ASSUME Catalog!CatalogAssumption, Catalog!Init
  PROVE  CatalogInv
<1>1. x1 \in CatalogScenes /\ x1 \subseteq Catalog!Kinds /\ MaxItems \in Nat \ {0}
  BY DEF Catalog!Init, Catalog!CatalogAssumption
<1>2. PICK deleted \in SUBSET (x1 \X {1}) :
       x2 = [id \in Catalog!Ids |->
         LET k == Catalog!Kind(id)
             up == {<<f.to, 1>> : f \in {g \in Catalog!ForeignKeys[k] : g.to \in x1}}
         IN  IF id[2] = 1
             THEN [key |-> Catalog!Blank.key, up |-> up,
                   state |-> IF id \in deleted THEN "deleted" ELSE "live"]
             ELSE IF id[2] = 2 /\ k \in {"category", "collection"}
             THEN [key |-> CHOOSE x \in RowNames : x # Catalog!Blank.key, up |-> {}, state |-> "live"]
             ELSE Catalog!None]
  BY DEF Catalog!Init
<1> DEFINE ups(id) == {<<f.to, 1>> : f \in {g \in Catalog!ForeignKeys[Catalog!Kind(id)] : g.to \in x1}}
<1>3. Catalog!Blank.key \in RowNames
  BY BlankRow DEF Catalog!Row
<1>4. PICK other \in RowNames : other = CHOOSE x \in RowNames : x # Catalog!Blank.key
  BY <1>3 DEF Catalog!CatalogAssumption
<1>5. ASSUME NEW id \in Catalog!Ids PROVE ups(id) \subseteq Catalog!Kinds \X Nat
  BY <1>1
<1>6. ASSUME NEW id \in Catalog!Ids
      PROVE  x2[id] = IF id[2] = 1
                      THEN [key |-> Catalog!Blank.key, up |-> ups(id),
                            state |-> IF id \in deleted THEN "deleted" ELSE "live"]
                      ELSE IF id[2] = 2 /\ Catalog!Kind(id) \in {"category", "collection"}
                      THEN [key |-> other, up |-> {}, state |-> "live"]
                      ELSE Catalog!None
  BY <1>2, <1>4
<1> HIDE DEF ups
<1>7. ASSUME NEW id \in Catalog!Ids PROVE x2[id] \in Catalog!Row \cup {Catalog!None}
  <2>1. CASE id[2] = 1
    <3>1. PICK state : state = IF id \in deleted THEN "deleted" ELSE "live"
      OBVIOUS
    <3>2. x2[id] = [key |-> Catalog!Blank.key, up |-> ups(id), state |-> state]
      BY <1>6, <2>1, <3>1
    <3>3. state \in {"live", "deleted"}
      BY <3>1
    <3> QED
      BY <1>3, <1>5, <3>2, <3>3 DEF Catalog!Row
  <2>2. CASE id[2] = 2 /\ Catalog!Kind(id) \in {"category", "collection"}
    <3>1. x2[id] = [key |-> other, up |-> {}, state |-> "live"]
      <4>1. id[2] # 1
        BY <2>2
      <4> QED
        BY <1>6, <2>2, <4>1, Zenon
    <3> QED
      BY <1>4, <3>1 DEF Catalog!Row
  <2>3. CASE id[2] # 1 /\ ~(id[2] = 2 /\ Catalog!Kind(id) \in {"category", "collection"})
    BY <1>6, <2>3
  <2> QED
    BY <2>1, <2>2, <2>3
<1>8. x2 \in [Catalog!Ids -> Catalog!Row \cup {Catalog!None}]
  <2>1. x2 = [id \in Catalog!Ids |-> x2[id]]
    BY <1>2
  <2> QED
    BY <1>7, <2>1
<1>9. x3 \subseteq {i \in Catalog!Ids : Catalog!Kind(i) = "product"}
                   \X {i \in Catalog!Ids : Catalog!Kind(i) = "collection"}
  <2>1. 1 \in 1..MaxItems
    BY <1>1
  <2>2. CASE {"product", "collection"} \subseteq x1
    <3>1. x3 = {<<<<"product", 1>>, <<"collection", 1>>>>}
      BY <2>2 DEF Catalog!Init
    <3>2. <<"product", 1>> \in Catalog!Ids /\ <<"collection", 1>> \in Catalog!Ids
      BY <2>1, <2>2 DEF Catalog!Ids
    <3> QED
      BY <3>1, <3>2 DEF Catalog!Kind
  <2>3. CASE ~({"product", "collection"} \subseteq x1)
    BY <2>3 DEF Catalog!Init
  <2> QED
    BY <2>2, <2>3
<1>10. x4 = [r \in Actors |-> [pc |-> "new"]]
  BY DEF Catalog!Init
<1>11. Catalog!TypeOK
  BY <1>1, <1>8, <1>9, <1>10 DEF Catalog!TypeOK, Catalog!Call
<1> QED
  BY <1>10, <1>11 DEF CatalogInv, Serves

LEMMA CatalogKeeps ==
  ASSUME Catalog!CatalogAssumption, CatalogInv, Catalog!Next
  PROVE  CatalogInv'
<1>1. PICK r \in Actors :
        \/ Catalog!Create(r) \/ Catalog!Update(r) \/ Catalog!SoftDelete(r) \/ Catalog!Restore(r)
        \/ Catalog!PermanentDelete(r) \/ Catalog!AssignCategories(r)
        \/ Catalog!FindOrder(r) \/ Catalog!Validate(r) \/ Catalog!Insert(r) \/ Catalog!Set(r)
        \/ Catalog!Mark(r) \/ Catalog!Purge(r) \/ Catalog!Unlink(r) \/ Catalog!Link(r)
        \/ Catalog!FindBrand(r) \/ Catalog!FindCategories(r) \/ Catalog!Unassign(r) \/ Catalog!Assign(r)
        \/ Catalog!Fail(r)
  BY DEF Catalog!Next
<1> QED
  BY <1>1, CallsBegin, FindOrderKeeps, ValidateKeeps, InsertRowKeeps, SetKeeps, MarkKeeps, PurgeKeeps,
     UnlinkKeeps, LinkKeeps, FindBrandKeeps, UnassignKeeps, AssignKeeps, FailKeeps

\* Only a permanent deletion takes rows away.
LEMMA OnlyPurgesRemove ==
  ASSUME Catalog!CatalogAssumption, CatalogInv, Catalog!Next
  PROVE  Catalog!KeepsPurchases
<1> SUFFICES ASSUME NEW id \in Catalog!Ids, Catalog!There(id), x2'[id] = Catalog!None
             PROVE  /\ Catalog!Kind(id) = "item" =>
                         \/ x2[id].state = "deleted"
                         \/ \E o \in Catalog!Up(x2[id], "order") : x2'[o] = Catalog!None
                    /\ Catalog!Kind(id) = "payment" => x2[id].state = "deleted"
  BY DEF Catalog!KeepsPurchases
<1>1. x2[id] \in Catalog!Row /\ x2[id] # Catalog!None /\ Catalog!None \notin Catalog!Row
      /\ x2 \in [Catalog!Ids -> Catalog!Row \cup {Catalog!None}]
  BY ShopRows DEF CatalogInv, Catalog!TypeOK
<1>2. PICK r \in Actors :
        \/ UNCHANGED x2
        \/ Catalog!Insert(r) \/ Catalog!Set(r) \/ Catalog!Mark(r) \/ Catalog!Purge(r) \/ Catalog!Assign(r)
  <2>1. ASSUME NEW r \in Actors,
               \/ Catalog!Create(r) \/ Catalog!Update(r) \/ Catalog!SoftDelete(r) \/ Catalog!Restore(r)
               \/ Catalog!PermanentDelete(r) \/ Catalog!AssignCategories(r)
        PROVE  UNCHANGED x2
    BY <2>1 DEF Catalog!Create, Catalog!Update, Catalog!SoftDelete, Catalog!Restore,
         Catalog!PermanentDelete, Catalog!AssignCategories, Catalog!Begin
  <2>2. ASSUME NEW r \in Actors,
               \/ Catalog!FindOrder(r) \/ Catalog!Validate(r) \/ Catalog!FindBrand(r)
               \/ Catalog!FindCategories(r) \/ Catalog!Unassign(r)
               \/ Catalog!Unlink(r) \/ Catalog!Link(r) \/ Catalog!Fail(r)
        PROVE  UNCHANGED x2
    BY <2>2 DEF Catalog!FindOrder, Catalog!Validate, Catalog!FindBrand, Catalog!FindCategories,
         Catalog!Unassign, Catalog!Proceed, Catalog!Answer, Catalog!Unlink, Catalog!Link,
         Catalog!Fail
  <2> QED
    BY <2>1, <2>2 DEF Catalog!Next
<1>3. CASE UNCHANGED x2
  BY <1>1, <1>3
<1>4. CASE Catalog!Insert(r) \/ Catalog!Set(r)
  <2>1. Catalog!Doing(r, "write")
    BY <1>4 DEF Catalog!Insert, Catalog!Set
  <2>2. x4[r].id \in Catalog!Ids /\ x4[r].row \in Catalog!Row
    BY <2>1, AtStatement DEF ShopCall
  <2>3. UNCHANGED x2 \/ x2' = [x2 EXCEPT ![x4[r].id] = x4[r].row]
    BY <1>4 DEF Catalog!Insert, Catalog!Set, Catalog!Answer
  <2> QED
    BY <1>1, <2>2, <2>3
<1>5. CASE Catalog!Mark(r)
  <2>1. UNCHANGED x2 \/ \E to : x2' = [x2 EXCEPT ![x4[r].id].state = to]
    BY <1>5 DEF Catalog!Mark, Catalog!Answer
  <2>2. ASSUME NEW to, x2' = [x2 EXCEPT ![x4[r].id].state = to] PROVE FALSE
    <3>1. x2'[id] = x2[id] \/ x2'[id] = [x2[id] EXCEPT !.state = to]
      BY <1>1, <2>2
    <3>2. "key" \in DOMAIN x2'[id]
      BY <1>1, <3>1 DEF Catalog!Row
    <3>3. "key" \notin DOMAIN Catalog!None
      BY DEF Catalog!None
    <3> QED
      BY <3>2, <3>3
  <2> QED
    BY <1>1, <2>1, <2>2
<1>6. CASE Catalog!Assign(r)
  <2>1. \/ x2'[id] = x2[id]
        \/ x2'[id] = [x2[id] EXCEPT !.up = {x4[r].id}]
        \/ x2'[id] = [x2[id] EXCEPT !.up = @ \ {x4[r].id}]
    BY <1>6 DEF Catalog!Assign, Catalog!Answer
  <2>2. x2'[id].state = x2[id].state
    BY <1>1, <2>1 DEF Catalog!Row
  <2> QED
    BY <1>1, <2>2 DEF Catalog!Row, Catalog!None
<1>7. CASE Catalog!Purge(r)
  <2>1. Catalog!Doing(r, "write")
    BY <1>7 DEF Catalog!Purge
  <2>2. x4[r].id \in Catalog!Ids
    BY <2>1, AtStatement
  <2>3. CASE UNCHANGED x2
    BY <1>1, <2>3
  <2>4. CASE /\ x2[x4[r].id].state = "deleted"
             /\ x2' = [i \in Catalog!Ids |->
                 IF i \in Catalog!Doomed(x4[r].id) THEN Catalog!None
                 ELSE IF Catalog!There(i) /\ Catalog!Refers(i, x4[r].id, "set null")
                 THEN [x2[i] EXCEPT !.up = @ \ {x4[r].id}] ELSE x2[i]]
    <3>1. /\ \A i \in Catalog!Doomed(x4[r].id) : i \in Catalog!Ids /\ x2'[i] = Catalog!None
          /\ \A i \in Catalog!Ids \ Catalog!Doomed(x4[r].id) : InTable(x2', i) <=> InTable(x2, i)
      BY <2>2, <2>4, Purged
    <3>2. InTable(x2, id) /\ ~InTable(x2', id)
      BY DEF InTable, Catalog!There, Catalog!None
    <3>3. id \in Catalog!Doomed(x4[r].id)
      BY <3>1, <3>2
    <3> QED
      BY <2>2, <2>4, <3>1, <3>3, DoomedRows DEF CatalogInv, Catalog!Up
  <2> QED
    BY <1>7, <2>3, <2>4 DEF Catalog!Purge, Catalog!Answer
<1> QED
  BY <1>2, <1>3, <1>4, <1>5, <1>6, <1>7

LEMMA CatalogSteps ==
  /\ Init => (part = "catalog" => CatalogInv)
  /\ (part = "catalog" => CatalogInv) /\ [Next]_<<part, slots>> => (part = "catalog" => CatalogInv)'
<1>0. Catalog!CatalogAssumption
  BY ServicesAssumption DEF ServicesAssumption
<1>1. Init => (part = "catalog" => CatalogInv)
  BY <1>0, CatalogInitially DEF Init
<1>2. ASSUME part = "catalog" => CatalogInv, [Next]_<<part, slots>>, part' = "catalog" PROVE CatalogInv'
  <2>1. CASE RunCatalog
    BY <1>0, <1>2, <2>1, CatalogKeeps DEF RunCatalog
  <2>2. CASE UNCHANGED <<part, slots>>
    <3>1. CatalogInv /\ x1' = x1 /\ x2' = x2 /\ x3' = x3 /\ x4' = x4
      BY <1>2, <2>2 DEF slots
    <3> QED
      BY <3>1 DEF CatalogInv, Catalog!TypeOK, Catalog!Ids, Catalog!Call
  <2> QED
    BY <1>2, <2>1, <2>2 DEF Next, RunControls, RunRecords, RunMigrations, RunPolling,
                      RunCookies, RunRoles, RunMusic, RunCrons, RunListing
<1> QED
  BY <1>1, <1>2

\* The shop: whatever calls run at once, one answered as saved has stored the collections or
\* the categories it named, and one that is refused has written nothing, unless a call on
\* the same rows overlapped it; of one that fails at any statement all is stored or nothing,
\* or it is a product that may have its row and not its collections.
THEOREM WritesStand == Spec => []WritesAsAnswered
<1>1. (part = "catalog" => CatalogInv) => WritesAsAnswered
  BY DEF WritesAsAnswered, CatalogInv, Serves, Answered, Catalog!SavedAsAnswered, Catalog!RefusedWroteNothing,
     Catalog!HalfSavedIsProduct
<1> QED
  BY <1>1, CatalogSteps, PTL DEF Spec

\* The shop: no permanent deletion takes an ordered item with it but by itself, marked deleted,
\* or with its order, nor a payment that was not marked deleted.
THEOREM PurchasesAreKept == Spec => PurchasesKept
<1>0. Catalog!CatalogAssumption
  BY ServicesAssumption DEF ServicesAssumption
<1>1. (part = "catalog" => CatalogInv) /\ [Next]_<<part, slots>>
      => [part = "catalog" => Catalog!KeepsPurchases]_<<part, slots>>
  <2>1. ASSUME CatalogInv, RunCatalog PROVE Catalog!KeepsPurchases
    BY <1>0, <2>1, OnlyPurgesRemove DEF RunCatalog
  <2> QED
    BY <2>1 DEF Next, RunControls, RunRecords, RunMigrations, RunPolling,
                RunCookies, RunRoles, RunMusic, RunCrons, RunListing
<1> QED
  BY <1>1, CatalogSteps, PTL DEF Spec, PurchasesKept

----------------------------------------------------------------------------
(* MusicLibrary *)

LEMMA FolderNames ==
  ASSUME Music!MusicAssumption
  PROVE  /\ DOMAIN Folders = 1..Len(Folders) /\ Len(Folders) \in Nat /\ Len(Folders) > 0
         /\ \A i \in DOMAIN Folders : Folders[i] \in Music!Names
         /\ \A n \in Music!Names : \E i \in DOMAIN Folders : Folders[i] = n
         /\ Tracks \in Nat /\ Tracks > 0 /\ MaxLists \in Nat /\ MaxSongs \in Nat
  BY DEF Music!MusicAssumption, Music!Names

LEMMA MusicRuns ==
  ASSUME NEW c \in Music!Run
  PROVE  /\ c.pc \in {"idle", "done", "failed", "scan", "find", "put", "rows"}
         /\ c.pc = "scan" => c \in Scanning
         /\ c.pc = "find" => c \in Finding
         /\ c.pc = "put" => c \in Putting
         /\ c.pc = "rows" => c \in SavingRows
<1>1. CASE c \in [pc: {"idle", "done", "failed"}]
  BY <1>1
<1>2. CASE c \in Scanning
  BY <1>2 DEF Scanning
<1>3. CASE c \in Finding
  BY <1>3 DEF Finding
<1>4. CASE c \in Putting
  BY <1>4 DEF Putting
<1>5. CASE c \in SavingRows
  BY <1>5 DEF SavingRows
<1> QED
  BY <1>1, <1>2, <1>3, <1>4, <1>5 DEF Music!Run, Scanning, Finding, Putting, SavingRows

LEMMA RunKinds ==
  /\ Scanning \subseteq Music!Run /\ Finding \subseteq Music!Run
  /\ Putting \subseteq Music!Run /\ SavingRows \subseteq Music!Run
  /\ \A p \in {"idle", "done", "failed"} : [pc |-> p] \in Music!Run
  BY DEF Music!Run, Scanning, Finding, Putting, SavingRows

----------------------------------------------------------------------------
(* What a run knows outlives the steps of others *)

LEMMA UploadsOutlive ==
  ASSUME Music!MusicAssumption, NEW c \in Music!Run, NEW mine \in BOOLEAN, NEW sole, NEW sole2,
         NEW lists, NEW songs, NEW moods, NEW bucket, NEW next \in Nat, NEW nextSong \in Nat,
         NEW lists2 \in SUBSET Music!List, NEW songs2 \in SUBSET Music!Song, NEW moods2,
         NEW bucket2, NEW next2 \in Nat, NEW nextSong2 \in Nat,
         Uploads(c, mine, sole, lists, songs, moods, bucket, next, nextSong),
         next <= next2, nextSong <= nextSong2, bucket \subseteq bucket2, sole2 => sole,
         ListsStay(lists, lists2, next), SongsStay(songs, songs2, nextSong),
         sole2 => \A s \in songs2 : s.id >= nextSong => s.list >= next
  PROVE  Uploads(c, FALSE, sole2, lists2, songs2, moods2, bucket2, next2, nextSong2)
<1>0. Music!ListIds \subseteq Nat /\ Music!SongIds \subseteq Nat
  BY FolderNames DEF Music!ListIds, Music!SongIds
<1>1. /\ \A l \in lists2 : l.id \in Nat
      /\ \A s \in songs2 : s.id \in Nat /\ s.list \in Nat /\ s.gone \in BOOLEAN
  BY <1>0 DEF Music!List, Music!Song
<1>2. ASSUME c.pc \in {"put", "rows"}, AtWork(c, mine, lists, next)
      PROVE  c.list \in Nat /\ AtWork(c, FALSE, lists2, next2)
  <2>1. c.list \in Nat
    BY <1>0, <1>2, MusicRuns DEF Putting, SavingRows
  <2>2. \A l \in lists2 : l.id = c.list => l.name = Folders[c.at]
    BY <1>1, <1>2, <2>1 DEF AtWork, ListsStay
  <2> QED
    BY <1>2, <2>1, <2>2 DEF AtWork
<1>3. OfPut(c, FALSE, lists2, bucket2, next2)
  <2> SUFFICES ASSUME c.pc = "put"
               PROVE  /\ AtWork(c, FALSE, lists2, next2)
                      /\ \A t \in 1..Tracks : t < c.track => FileOf(Folders[c.at], t) \in bucket2
    BY DEF OfPut
  <2>1. /\ AtWork(c, mine, lists, next)
        /\ \A t \in 1..Tracks : t < c.track => FileOf(Folders[c.at], t) \in bucket
    BY DEF Uploads, OfPut
  <2> QED
    BY <1>2, <2>1
<1>4. OfRows(c, FALSE, sole2, lists2, songs2, bucket2, next2, nextSong2)
  <2> SUFFICES ASSUME c.pc = "rows"
               PROVE  OfRows(c, FALSE, sole2, lists2, songs2, bucket2, next2, nextSong2)
    BY DEF OfRows
  <2>0. /\ AtWork(c, mine, lists, next)
        /\ \A t \in 1..Tracks : FileOf(Folders[c.at], t) \in bucket
        /\ \A id \in c.had : id < nextSong
        /\ \A s \in songs : s.id \in c.had => s.list = c.list
        /\ sole => \A s \in songs : s.list = c.list /\ ~s.gone => s.id \in c.had \/ s.track < c.track
    BY DEF Uploads, OfRows
  <2>1. c.had \subseteq Nat /\ c.list \in Nat /\ c.list < next
    BY <1>0, <2>0, MusicRuns DEF SavingRows, AtWork
  <2>2. AtWork(c, FALSE, lists2, next2)
    BY <1>2, <2>0
  <2>3. \A id \in c.had : id < nextSong2
    BY <2>0, <2>1
  <2>4. ASSUME NEW t \in songs2, t.id \in c.had PROVE t.list = c.list
    BY <1>1, <2>0, <2>1, <2>4 DEF SongsStay
  <2>5. ASSUME sole2, NEW t \in songs2, t.list = c.list, ~t.gone
        PROVE  t.id \in c.had \/ t.track < c.track
    <3>1. ~(t.id >= nextSong)
      BY <1>1, <2>1, <2>5
    <3>2. PICK s \in songs : s.id = t.id /\ s.list = t.list /\ s.track = t.track /\ (~t.gone => ~s.gone)
      BY <3>1 DEF SongsStay
    <3> QED
      BY <2>0, <2>5, <3>2
  <2> QED
    BY <2>0, <2>2, <2>3, <2>4, <2>5 DEF OfRows
<1> QED
  BY <1>3, <1>4 DEF Uploads

LEMMA UploadsStay ==
  ASSUME NEW c, NEW mine \in BOOLEAN, NEW sole \in BOOLEAN, NEW sole2 \in BOOLEAN,
         NEW lists, NEW songs, NEW moods, NEW bucket, NEW bucket2, NEW next, NEW nextSong,
         Uploads(c, mine, sole, lists, songs, moods, bucket, next, nextSong),
         bucket \subseteq bucket2, sole2 => sole
  PROVE  Uploads(c, mine, sole2, lists, songs, moods, bucket2, next, nextSong)
<1>1. OfPut(c, mine, lists, bucket2, next)
  BY DEF Uploads, OfPut
<1>2. OfRows(c, mine, sole2, lists, songs, bucket2, next, nextSong)
  BY DEF Uploads, OfRows
<1> QED
  BY <1>1, <1>2 DEF Uploads

\* A step of a run that changes no table, but may add to the bucket.
LEMMA RunGoesOn ==
  ASSUME Music!MusicAssumption, MusicInv, NEW r \in Actors, NEW c \in Music!Run, Music!UnderWay(r),
         x7' = [x7 EXCEPT ![r] = c], x4 \subseteq x4', UNCHANGED <<x1, x2, x3, x5, x6, x10, x11>>,
         Uploads(c, x10[r], ~x11, x1, x2, x3, x4', x5, x6)
  PROVE  MusicInv'
<1>1. x7' \in [Actors -> Music!Run] /\ x7'[r] = c /\ \A q \in Actors \ {r} : x7'[q] = x7[q]
  BY DEF MusicInv
<1>2. FilesThere(x1, x2, x4')
  BY DEF MusicInv, TablesOK, FilesThere
<1>3. TablesOK'
  BY <1>2 DEF MusicInv, TablesOK, Music!List, Music!Song, Music!Mood, Music!ListIds, Music!SongIds, Music!Names
<1>4. ~x11 => OneRun'
  BY <1>1 DEF MusicInv, OneRun, Music!UnderWay
<1>5. ASSUME NEW q \in Actors PROVE Uploads(x7'[q], x10[q], ~x11, x1, x2, x3, x4', x5, x6)
  <2>1. CASE q = r
    BY <1>1, <2>1
  <2>2. CASE q # r
    <3>1. Uploads(x7[q], x10[q], ~x11, x1, x2, x3, x4, x5, x6) /\ x10[q] \in BOOLEAN /\ x11 \in BOOLEAN
      BY DEF MusicInv
    <3> QED
      BY <1>1, <2>2, <3>1, UploadsStay
  <2> QED
    BY <2>1, <2>2
<1> QED
  BY <1>1, <1>3, <1>4, <1>5 DEF MusicInv

\* A step of a run that writes to the tables.
LEMMA RunWrites ==
  ASSUME Music!MusicAssumption, MusicInv, NEW r \in Actors, NEW c \in Music!Run, Music!UnderWay(r),
         x7' = [x7 EXCEPT ![r] = c], Music!Wrote(r), UNCHANGED <<x4, x11>>, TablesOK',
         x5 <= x5', x6 <= x6', ListsStay(x1, x1', x5), SongsStay(x2, x2', x6),
         Uploads(c, x10[r], ~x11, x1', x2', x3', x4, x5', x6')
  PROVE  MusicInv'
<1>1. x7' \in [Actors -> Music!Run] /\ x7'[r] = c /\ \A q \in Actors \ {r} : x7'[q] = x7[q]
  BY DEF MusicInv
<1>2. x10' \in [Actors -> BOOLEAN] /\ x10'[r] = x10[r] /\ \A q \in Actors \ {r} : x10'[q] = FALSE
  BY DEF MusicInv, Music!Wrote
<1>3. ~x11 => OneRun'
  BY <1>1 DEF MusicInv, OneRun, Music!UnderWay
<1>4. ASSUME NEW q \in Actors \ {r} PROVE Uploads(x7[q], FALSE, ~x11, x1', x2', x3', x4, x5', x6')
  <2>0. /\ Uploads(x7[q], x10[q], ~x11, x1, x2, x3, x4, x5, x6) /\ x10[q] \in BOOLEAN
        /\ x11 \in BOOLEAN /\ x7[q] \in Music!Run
    BY DEF MusicInv
  <2>1. CASE x11
    <3>1. /\ x1' \in SUBSET Music!List /\ x2' \in SUBSET Music!Song
          /\ x5 \in Nat /\ x6 \in Nat /\ x5' \in Nat /\ x6' \in Nat
      BY FolderNames DEF TablesOK, MusicInv, Music!List, Music!Song, Music!Mood, Music!ListIds, Music!SongIds,
         Music!Names
    <3> QED
      BY <2>0, <2>1, <3>1, UploadsOutlive
  <2>2. CASE ~x11
    <3>1. ~Music!UnderWay(q)
      BY <2>2 DEF MusicInv, OneRun
    <3> QED
      BY <3>1 DEF Music!UnderWay, Uploads, OfPut, OfRows
  <2> QED
    BY <2>0, <2>1, <2>2
<1>5. ASSUME NEW q \in Actors PROVE Uploads(x7'[q], x10'[q], ~x11', x1', x2', x3', x4', x5', x6')
  <2>1. CASE q = r
    BY <1>1, <1>2, <2>1
  <2>2. CASE q # r
    BY <1>1, <1>2, <1>4, <2>2
  <2> QED
    BY <2>1, <2>2
<1> QED
  BY <1>1, <1>2, <1>3, <1>5 DEF MusicInv

\* A write of no run.
LEMMA OthersWrite ==
  ASSUME Music!MusicAssumption, MusicInv, TablesOK', x10' = [r \in Actors |-> FALSE],
         UNCHANGED <<x4, x7, x11>>, x5 <= x5', x6 <= x6',
         ListsStay(x1, x1', x5), SongsStay(x2, x2', x6),
         \A s \in x2' : s.id >= x6 => s.list >= x5
  PROVE  MusicInv'
<1>1. /\ x1' \in SUBSET Music!List /\ x2' \in SUBSET Music!Song
      /\ x5 \in Nat /\ x6 \in Nat /\ x5' \in Nat /\ x6' \in Nat
  BY FolderNames DEF TablesOK, MusicInv, Music!List, Music!Song, Music!Mood, Music!ListIds, Music!SongIds,
     Music!Names
<1>2. ASSUME NEW q \in Actors PROVE Uploads(x7[q], FALSE, ~x11, x1', x2', x3', x4, x5', x6')
  <2>1. /\ Uploads(x7[q], x10[q], ~x11, x1, x2, x3, x4, x5, x6) /\ x10[q] \in BOOLEAN
        /\ x11 \in BOOLEAN /\ x7[q] \in Music!Run
    BY DEF MusicInv
  <2> QED
    BY <1>1, <2>1, UploadsOutlive
<1>3. ~x11 => OneRun'
  BY DEF MusicInv, OneRun, Music!UnderWay
<1> QED
  BY <1>2, <1>3 DEF MusicInv

----------------------------------------------------------------------------
(* The steps of a run *)

\* What was true of the tables stands where they do not change.
LEMMA UploadsNow ==
  ASSUME MusicInv, NEW r \in Actors
  PROVE  /\ x7[r] \in Music!Run /\ x10[r] \in BOOLEAN /\ x11 \in BOOLEAN
         /\ Uploads(x7[r], x10[r], ~x11, x1, x2, x3, x4, x5, x6)
         /\ x5 \in Nat /\ x6 \in Nat
  BY FolderNames DEF MusicInv, TablesOK

LEMMA Unstarted ==
  ASSUME NEW c, c.pc \in {"idle", "failed", "scan"}, NEW mine, NEW sole,
         NEW lists, NEW songs, NEW moods, NEW bucket, NEW next, NEW nextSong
  PROVE  Uploads(c, mine, sole, lists, songs, moods, bucket, next, nextSong)
  BY DEF Uploads, LeftPlayable, OfPut, OfRows

LEMMA RunBegins ==
  ASSUME Music!MusicAssumption, MusicInv, NEW r \in Actors, Music!Begin(r)
  PROVE  MusicInv'
<1>1. PICK dry \in BOOLEAN : x7' = [x7 EXCEPT ![r] = [pc |-> "scan", dry |-> dry, at |-> 1]]
  BY DEF Music!Begin, Music!Move
<1>2. UNCHANGED <<x1, x2, x3, x4, x5, x6>>
  BY DEF Music!Begin, Music!tables
<1>3. x10' = [x10 EXCEPT ![r] = TRUE] /\ x11' = (x11 \/ \E q \in Actors : Music!UnderWay(q))
  BY DEF Music!Begin
<1>4. PICK c : c = [pc |-> "scan", dry |-> dry, at |-> 1]
  OBVIOUS
<1>5. c \in Music!Run /\ c.pc = "scan"
  BY <1>4, FolderNames, RunKinds DEF Scanning
<1>6. x7' \in [Actors -> Music!Run] /\ x7'[r] = c /\ \A q \in Actors \ {r} : x7'[q] = x7[q]
  BY <1>1, <1>4, <1>5 DEF MusicInv
<1>7. x10' \in [Actors -> BOOLEAN] /\ \A q \in Actors \ {r} : x10'[q] = x10[q]
  BY <1>3 DEF MusicInv
<1>8. x11' \in BOOLEAN /\ (~x11' => ~x11 /\ \A q \in Actors : ~Music!UnderWay(q))
  BY <1>3 DEF MusicInv
<1>9. TablesOK'
  BY <1>2, <1>8 DEF MusicInv, TablesOK, Music!List, Music!Song, Music!Mood, Music!ListIds, Music!SongIds,
     Music!Names
<1>10. ~x11' => OneRun'
  BY <1>6, <1>8 DEF OneRun, Music!UnderWay
<1>11. ASSUME NEW q \in Actors PROVE Uploads(x7'[q], x10'[q], ~x11', x1, x2, x3, x4, x5, x6)
  <2>1. CASE q = r
    BY <1>5, <1>6, <2>1, Unstarted
  <2>2. CASE q # r
    BY <1>6, <1>7, <1>8, <2>2, UploadsNow, UploadsStay
  <2> QED
    BY <2>1, <2>2
<1> QED
  BY <1>2, <1>6, <1>7, <1>8, <1>9, <1>10, <1>11 DEF MusicInv

\* The playlist found or created is of the name; whoever is there stays.
LEMMA Found ==
  ASSUME Music!MusicAssumption, MusicInv, NEW name \in Music!Names, NEW id \in Music!ListIds,
         Music!GetOrCreate(name, id), UNCHANGED <<x2, x3, x4, x6, x11>>
  PROVE  /\ TablesOK' /\ x5 <= x5' /\ x6 <= x6' /\ x1 \subseteq x1'
         /\ ListsStay(x1, x1', x5) /\ SongsStay(x2, x2', x6)
         /\ id < x5' /\ IsList(x1', id, name) /\ \A l \in x1' : l.id = id => l.name = name
<1>0. /\ x5 \in 1..MaxLists + 1 /\ OwnIds(x1, x2, x5, x6) /\ FilesThere(x1, x2, x4)
      /\ x1 \subseteq Music!List /\ x2 \subseteq Music!Song /\ x6 \in Nat
  BY FolderNames DEF MusicInv, TablesOK
<1>1. Music!ListIds \subseteq Nat /\ x5 \in Nat /\ id \in Nat
  BY <1>0, FolderNames DEF Music!ListIds
<1>2. \A l \in x1 : l.id \in Nat /\ l.id < x5
  BY <1>0, <1>1 DEF Music!List, OwnIds
<1>3. SongsStay(x2, x2', x6)
  BY DEF SongsStay
<1>4. CASE Music!Reused(name) # {}
  <2>1. id \in Music!Reused(name) /\ UNCHANGED <<x1, x5>>
    BY <1>4 DEF Music!GetOrCreate
  <2>2. PICK l \in x1 : l.id = id /\ l.name = name
    BY <2>1 DEF Music!Reused
  <2>3. \A m \in x1 : m.id = id => m.name = name
    BY <1>0, <2>2 DEF OwnIds
  <2>4. TablesOK'
    BY <2>1 DEF MusicInv, TablesOK, Music!List, Music!Song, Music!Mood, Music!ListIds, Music!SongIds,
       Music!Names
  <2> QED
    BY <1>0, <1>1, <1>2, <1>3, <2>1, <2>2, <2>3, <2>4 DEF ListsStay, IsList
<1>5. CASE Music!Reused(name) = {}
  <2>1. PICK l : l = [id |-> id, name |-> name, gone |-> FALSE]
    OBVIOUS
  <2>2. id = x5 /\ x5' = x5 + 1 /\ x1' = x1 \cup {l}
    BY <1>5, <2>1 DEF Music!GetOrCreate
  <2>3. l \in Music!List /\ l.id = x5 /\ l.name = name
    BY <2>1, <2>2 DEF Music!List
  <2>4. OwnIds(x1', x2, x5', x6)
    <3>1. \A m \in x1' : m.id < x5'
      BY <1>1, <1>2, <2>2, <2>3
    <3>2. \A m, n \in x1' : m.id = n.id => m = n
      BY <1>0, <1>2, <2>2, <2>3 DEF OwnIds
    <3> QED
      BY <1>0, <2>2, <3>1, <3>2 DEF OwnIds
  <2>5. FilesThere(x1', x2, x4)
    <3>1. \A s \in x2 : s.list # l.id
      BY <1>0, <1>2, <2>3 DEF OwnIds
    <3> QED
      BY <1>0, <2>2, <3>1 DEF FilesThere
  <2>6. x5' \in 1..MaxLists + 1 /\ x5 <= x5' /\ id < x5'
    BY <1>1, <2>2, FolderNames DEF Music!ListIds
  <2>7. x1' \subseteq Music!List
    BY <1>0, <2>2, <2>3
  <2>8. TablesOK'
    BY <2>4, <2>5, <2>6, <2>7
    DEF MusicInv, TablesOK, Music!List, Music!Song, Music!Mood, Music!ListIds, Music!SongIds, Music!Names
  <2>9. \A m \in x1' : m.id = id => m.name = name
    BY <1>2, <2>2, <2>3
  <2> QED
    BY <1>0, <1>1, <1>3, <2>2, <2>3, <2>6, <2>8, <2>9 DEF ListsStay, IsList
<1> QED
  BY <1>4, <1>5

LEMMA ScanKeeps ==
  ASSUME Music!MusicAssumption, MusicInv, NEW r \in Actors, Music!Scan(r)
  PROVE  MusicInv'
<1>1. x7[r].pc = "scan" /\ x7[r].at <= Len(Folders) /\ x7[r] \in Scanning
  BY UploadsNow, MusicRuns DEF Music!Scan
<1>2. PICK c : c = [x7[r] EXCEPT !.at = @ + 1]
  OBVIOUS
<1>3. x7' = [x7 EXCEPT ![r] = c] /\ c \in Music!Run /\ c.pc = "scan"
  BY <1>1, <1>2, FolderNames, RunKinds DEF Music!Scan, Music!Move, Scanning
<1>4. UNCHANGED <<x2, x3, x4, x6, x11>> /\ Music!Wrote(r) /\ Music!UnderWay(r)
  BY <1>1 DEF Music!Scan, Music!Quiet, Music!UnderWay
<1>5. Folders[x7[r].at] \in Music!Names
  BY <1>1, FolderNames DEF Scanning
<1>6. PICK id \in Music!ListIds : Music!GetOrCreate(Folders[x7[r].at], id)
  BY DEF Music!Scan
<1>7. /\ TablesOK' /\ x5 <= x5' /\ x6 <= x6'
      /\ ListsStay(x1, x1', x5) /\ SongsStay(x2, x2', x6)
  BY <1>4, <1>5, <1>6, Found
<1>8. Uploads(c, x10[r], ~x11, x1', x2', x3', x4, x5', x6')
  BY <1>3, Unstarted
<1> QED
  BY <1>3, <1>4, <1>7, <1>8, RunWrites

LEMMA ApplyKeeps ==
  ASSUME Music!MusicAssumption, MusicInv, NEW r \in Actors, Music!Apply(r)
  PROVE  MusicInv'
<1>1. PICK c : c = IF x7[r].dry THEN [pc |-> "idle"] ELSE [pc |-> "find", at |-> 1]
  OBVIOUS
<1>2. x7' = [x7 EXCEPT ![r] = c] /\ Music!UnderWay(r) /\ UNCHANGED <<x1, x2, x3, x4, x5, x6, x10, x11>>
  BY <1>1 DEF Music!Apply, Music!Move, Music!Idle, Music!UnderWay, Music!Quiet, Music!tables
<1>3. CASE c = [pc |-> "idle"]
  <2>1. c \in Music!Run /\ c.pc = "idle"
    BY <1>3, RunKinds
  <2>2. Uploads(c, x10[r], ~x11, x1, x2, x3, x4', x5, x6)
    BY <2>1, Unstarted
  <2> QED
    BY <1>2, <2>1, <2>2, RunGoesOn
<1>4. CASE c = [pc |-> "find", at |-> 1]
  <2>1. c \in Music!Run /\ c.pc = "find" /\ c.at = 1
    BY <1>4, FolderNames, RunKinds DEF Finding
  <2>2. Through(c) = {}
    BY <2>1, FolderNames DEF Through
  <2>3. Uploads(c, x10[r], ~x11, x1, x2, x3, x4', x5, x6)
    BY <2>1, <2>2 DEF Uploads, LeftPlayable, OfPut, OfRows
  <2> QED
    BY <1>2, <2>1, <2>3, RunGoesOn
<1> QED
  BY <1>1, <1>3, <1>4

\* Moods stay playable while rows are only added.
LEMMA StillPlayable ==
  ASSUME NEW lists, NEW lists2, NEW songs, NEW songs2, NEW moods, NEW n,
         Playable(lists, songs, moods, n), lists \subseteq lists2,
         \A s \in songs :
           \E t \in songs2 : t.list = s.list /\ t.track = s.track /\ t.gone = s.gone /\ t.id = s.id
  PROVE  Playable(lists2, songs2, moods, n)
<1>1. PICK m \in Music!Mood : (n \in Titles => moods[n] = m) /\ PlaysAll(lists, songs, m, n)
  BY DEF Playable
<1>2. IsList(lists2, m.list, n)
  BY <1>1 DEF PlaysAll, IsList
<1>3. ASSUME NEW t \in 1..Tracks PROVE Held(songs2, m.list, t, m.first)
  <2>1. PICK s \in songs : s.list = m.list /\ s.track = t /\ ~s.gone /\ (t = 1 => s.id = m.first)
    BY <1>1 DEF PlaysAll, Held
  <2>2. PICK u \in songs2 : u.list = s.list /\ u.track = s.track /\ u.gone = s.gone /\ u.id = s.id
    OBVIOUS
  <2> QED
    BY <2>1, <2>2 DEF Held
<1> QED
  BY <1>1, <1>2, <1>3 DEF Playable, PlaysAll

LEMMA FindKeeps ==
  ASSUME Music!MusicAssumption, MusicInv, NEW r \in Actors, Music!Find(r)
  PROVE  MusicInv'
<1>1. x7[r].pc = "find" /\ x7[r].at <= Len(Folders) /\ x7[r] \in Finding
  BY UploadsNow, MusicRuns DEF Music!Find
<1>2. PICK id \in Music!ListIds :
        /\ Music!GetOrCreate(Folders[x7[r].at], id)
        /\ x7' = [x7 EXCEPT ![r] = [pc |-> "put", at |-> x7[r].at, list |-> id, track |-> 1]]
  BY DEF Music!Find, Music!Move
<1>3. PICK c : c = [pc |-> "put", at |-> x7[r].at, list |-> id, track |-> 1]
  OBVIOUS
<1>4. x7[r].at \in DOMAIN Folders /\ Folders[x7[r].at] \in Music!Names
  BY <1>1, FolderNames DEF Finding
<1>5. c \in Putting
  BY <1>3, <1>4, FolderNames DEF Putting
<1>6. c \in Music!Run /\ c.pc = "put" /\ c.at = x7[r].at /\ c.list = id /\ c.track = 1
  BY <1>3, <1>5, RunKinds
<1>7. UNCHANGED <<x2, x3, x4, x6, x11>> /\ Music!Wrote(r) /\ Music!UnderWay(r)
  BY <1>1 DEF Music!Find, Music!Quiet, Music!UnderWay
<1>8. /\ TablesOK' /\ x5 <= x5' /\ x6 <= x6' /\ x1 \subseteq x1'
      /\ ListsStay(x1, x1', x5) /\ SongsStay(x2, x2', x6)
      /\ id < x5' /\ IsList(x1', id, Folders[c.at]) /\ \A l \in x1' : l.id = id => l.name = Folders[c.at]
  BY <1>2, <1>4, <1>6, <1>7, Found
<1>9. x10[r] => LeftPlayable(c, x1', x2', x3')
  <2> SUFFICES ASSUME x10[r], NEW n \in Through(c) PROVE Playable(x1', x2', x3', n)
    BY DEF LeftPlayable
  <2>1. n \in Through(x7[r])
    BY <1>1, <1>6 DEF Through
  <2>2. Playable(x1, x2, x3, n)
    BY <1>1, <2>1, UploadsNow DEF Uploads, LeftPlayable
  <2> QED
    BY <1>7, <1>8, <2>2, StillPlayable
<1>10. Uploads(c, x10[r], ~x11, x1', x2', x3', x4, x5', x6')
  BY <1>6, <1>8, <1>9 DEF Uploads, OfPut, OfRows, AtWork
<1> QED
  BY <1>2, <1>3, <1>6, <1>7, <1>8, <1>10, RunWrites

LEMMA FinishKeeps ==
  ASSUME Music!MusicAssumption, MusicInv, NEW r \in Actors, Music!Finish(r)
  PROVE  MusicInv'
<1>1. x7[r].pc = "find" /\ x7[r].at > Len(Folders) /\ x7[r] \in Finding
  BY UploadsNow, MusicRuns DEF Music!Finish
<1>2. PICK c : c = [pc |-> "done"]
  OBVIOUS
<1>3. c \in Music!Run /\ c.pc = "done"
  BY <1>2, RunKinds
<1>4. /\ x7' = [x7 EXCEPT ![r] = c] /\ Music!UnderWay(r)
      /\ UNCHANGED <<x1, x2, x3, x4, x5, x6, x10, x11>>
  BY <1>1, <1>2 DEF Music!Finish, Music!Move, Music!UnderWay, Music!Quiet, Music!tables
<1>5. ASSUME NEW n \in Music!Names PROVE n \in Through(x7[r])
  <2>1. PICK i \in DOMAIN Folders : Folders[i] = n
    BY FolderNames
  <2>2. i < x7[r].at
    BY <1>1, FolderNames DEF Finding
  <2> QED
    BY <1>1, <2>1, <2>2 DEF Through
<1>6. x10[r] => LeftPlayable(c, x1, x2, x3)
  BY <1>1, <1>3, <1>5, UploadsNow DEF Uploads, LeftPlayable, Through
<1>7. Uploads(c, x10[r], ~x11, x1, x2, x3, x4', x5, x6)
  BY <1>3, <1>6 DEF Uploads, OfPut, OfRows
<1> QED
  BY <1>3, <1>4, <1>7, RunGoesOn

LEMMA UploadKeeps ==
  ASSUME Music!MusicAssumption, MusicInv, NEW r \in Actors, Music!Put(r)
  PROVE  MusicInv'
<1>1. x7[r].pc = "put" /\ x7[r].track <= Tracks /\ x7[r] \in Putting
  BY UploadsNow, MusicRuns DEF Music!Put
<1>2. PICK c : c = [x7[r] EXCEPT !.track = @ + 1]
  OBVIOUS
<1>3. /\ c \in Putting /\ c.pc = "put" /\ c.at = x7[r].at /\ c.list = x7[r].list
      /\ c.track = x7[r].track + 1 /\ x7[r].track \in Nat
  <2>1. Tracks \in Nat
    BY FolderNames
  <2>2. x7[r].track \in 1..Tracks + 1 /\ x7[r].pc = "put"
    BY <1>1 DEF Putting
  <2>3. x7[r].track \in Nat /\ x7[r].track + 1 \in 1..Tracks + 1
    BY <1>1, <2>1, <2>2
  <2>4. c = [x7[r] EXCEPT !.track = x7[r].track + 1]
    BY <1>2
  <2>5. c \in Putting /\ c.at = x7[r].at /\ c.list = x7[r].list /\ c.track = x7[r].track + 1
    BY <1>1, <2>3, <2>4 DEF Putting
  <2> QED
    BY <2>3, <2>5 DEF Putting
<1>4. /\ x7' = [x7 EXCEPT ![r] = c] /\ Music!UnderWay(r)
      /\ x4' = x4 \cup {FileOf(Folders[c.at], x7[r].track)}
      /\ UNCHANGED <<x1, x2, x3, x5, x6, x10, x11>>
  BY <1>1, <1>2, <1>3 DEF Music!Put, Music!Move, Music!UnderWay, Music!Quiet, Music!Stored, FileOf
<1>5. /\ x10[r] => LeftPlayable(x7[r], x1, x2, x3)
      /\ AtWork(x7[r], x10[r], x1, x5)
      /\ \A t \in 1..Tracks : t < x7[r].track => FileOf(Folders[c.at], t) \in x4
  BY <1>1, <1>3, UploadsNow DEF Uploads, OfPut
<1>6. x10[r] => LeftPlayable(c, x1, x2, x3)
  BY <1>1, <1>3, <1>5 DEF LeftPlayable, Through
<1>7. ASSUME NEW t \in 1..Tracks, t < c.track PROVE FileOf(Folders[c.at], t) \in x4'
  <2>1. t < x7[r].track \/ t = x7[r].track
    BY <1>3, <1>7
  <2> QED
    BY <1>4, <1>5, <2>1
<1>8. Uploads(c, x10[r], ~x11, x1, x2, x3, x4', x5, x6)
  BY <1>3, <1>5, <1>6, <1>7 DEF Uploads, OfPut, OfRows, AtWork
<1>9. c \in Music!Run /\ x4 \subseteq x4'
  BY <1>3, <1>4, RunKinds
<1> QED
  BY <1>4, <1>8, <1>9, RunGoesOn

LEMMA RunStops ==
  ASSUME Music!MusicAssumption, MusicInv, NEW r \in Actors, Music!Stop(r)
  PROVE  MusicInv'
<1>1. PICK c : c = [pc |-> "failed"]
  OBVIOUS
<1>2. c \in Music!Run /\ c.pc = "failed"
  BY <1>1, RunKinds
<1>3. /\ x7' = [x7 EXCEPT ![r] = c] /\ Music!UnderWay(r)
      /\ UNCHANGED <<x1, x2, x3, x4, x5, x6, x10, x11>>
  BY <1>1 DEF Music!Stop, Music!Move, Music!Quiet, Music!tables
<1>4. Uploads(c, x10[r], ~x11, x1, x2, x3, x4', x5, x6)
  BY <1>2, Unstarted
<1> QED
  BY <1>2, <1>3, <1>4, RunGoesOn

LEMMA ReadRowsKeeps ==
  ASSUME Music!MusicAssumption, MusicInv, NEW r \in Actors, Music!ReadRows(r)
  PROVE  MusicInv'
<1>1. x7[r].pc = "put" /\ x7[r].track > Tracks /\ x7[r] \in Putting
  BY UploadsNow, MusicRuns DEF Music!ReadRows
<1>2. PICK had : had = {s.id : s \in {t \in x2 : t.list = x7[r].list /\ ~t.gone}}
  OBVIOUS
<1>3. PICK c : c = [pc |-> "rows", at |-> x7[r].at, list |-> x7[r].list, track |-> 1, first |-> 0,
                    had |-> had]
  OBVIOUS
<1>4. /\ x7' = [x7 EXCEPT ![r] = c] /\ Music!UnderWay(r)
      /\ UNCHANGED <<x1, x2, x3, x4, x5, x6, x10, x11>>
  BY <1>1, <1>2, <1>3 DEF Music!ReadRows, Music!Move, Music!UnderWay, Music!Quiet, Music!tables
<1>5. OwnIds(x1, x2, x5, x6) /\ x2 \subseteq Music!Song
  BY DEF MusicInv, TablesOK
<1>6. had \subseteq Music!SongIds
  BY <1>2, <1>5 DEF Music!Song
<1>7. c \in SavingRows
  BY <1>1, <1>3, <1>6, FolderNames DEF SavingRows, Putting
<1>8. /\ c.pc = "rows" /\ c.at = x7[r].at /\ c.list = x7[r].list /\ c.track = 1 /\ c.had = had
      /\ x7[r].track \in Nat
  BY <1>1, <1>3, FolderNames DEF Putting
<1>9. /\ x10[r] => LeftPlayable(x7[r], x1, x2, x3)
      /\ AtWork(x7[r], x10[r], x1, x5)
      /\ \A t \in 1..Tracks : t < x7[r].track => FileOf(Folders[c.at], t) \in x4
  BY <1>1, <1>8, UploadsNow DEF Uploads, OfPut
<1>10. x10[r] => LeftPlayable(c, x1, x2, x3)
  BY <1>1, <1>8, <1>9 DEF LeftPlayable, Through
<1>11. \A t \in 1..Tracks : FileOf(Folders[c.at], t) \in x4
  BY <1>1, <1>8, <1>9, FolderNames
<1>12. \A id \in had : id < x6
  BY <1>2, <1>5 DEF OwnIds
<1>13. \A s \in x2 : s.id \in had => s.list = c.list /\ ~s.gone
  BY <1>2, <1>5, <1>8 DEF OwnIds
<1>14. \A s \in x2 : s.list = c.list /\ ~s.gone => s.id \in had
  BY <1>2, <1>8
<1>15. OfRows(c, x10[r], ~x11, x1, x2, x4, x5, x6)
  BY <1>8, <1>9, <1>11, <1>12, <1>13, <1>14 DEF OfRows, AtWork
<1>16. Uploads(c, x10[r], ~x11, x1, x2, x3, x4', x5, x6)
  BY <1>4, <1>8, <1>10, <1>15 DEF Uploads, OfPut
<1> QED
  BY <1>4, <1>7, <1>16, RunKinds, RunGoesOn

\* A run that writes its rows.
LEMMA WritingRows ==
  ASSUME Music!MusicAssumption, MusicInv, NEW r \in Actors, x7[r].pc = "rows"
  PROVE  /\ x7[r] \in SavingRows /\ x7[r].track \in Nat /\ x7[r].list \in Nat
         /\ x7[r].at \in DOMAIN Folders /\ Folders[x7[r].at] \in Music!Names
         /\ x10[r] => LeftPlayable(x7[r], x1, x2, x3)
         /\ AtWork(x7[r], x10[r], x1, x5)
         /\ \A t \in 1..Tracks : FileOf(Folders[x7[r].at], t) \in x4
         /\ x7[r].had \subseteq Nat /\ \A id \in x7[r].had : id < x6
         /\ \A s \in x2 : s.id \in x7[r].had => s.list = x7[r].list /\ (x10[r] => ~s.gone)
         /\ x10[r] \/ ~x11 =>
              \A s \in x2 : s.list = x7[r].list /\ ~s.gone => s.id \in x7[r].had \/ s.track < x7[r].track
         /\ x10[r] => \A t \in 1..Tracks : t < x7[r].track => Held(x2, x7[r].list, t, x7[r].first)
<1>1. x7[r] \in SavingRows
  BY MusicRuns DEF MusicInv
<1>2. /\ x7[r].track \in Nat /\ x7[r].list \in Nat /\ x7[r].had \subseteq Nat
      /\ x7[r].at \in DOMAIN Folders /\ Folders[x7[r].at] \in Music!Names
  BY <1>1, FolderNames DEF SavingRows, Music!ListIds, Music!SongIds
<1>3. Uploads(x7[r], x10[r], ~x11, x1, x2, x3, x4, x5, x6)
  BY DEF MusicInv
<1> QED
  BY <1>1, <1>2, <1>3 DEF Uploads, OfRows

\* The file's row is one that was read.
LEMMA RowSaved ==
  ASSUME Music!MusicAssumption, MusicInv, NEW r \in Actors,
         x7[r].pc = "rows", x7[r].track <= Tracks,
         NEW s \in x2, s.id \in x7[r].had, s.track = x7[r].track,
         x2' = (x2 \ {s}) \cup {[s EXCEPT !.url = "bucket"]}, Music!NextTrack(r, s.id),
         Music!Wrote(r), UNCHANGED <<x1, x3, x4, x5, x6, x11>>
  PROVE  MusicInv'
<1> DEFINE run == x7[r]
<1>0. /\ OwnIds(x1, x2, x5, x6) /\ FilesThere(x1, x2, x4) /\ x2 \subseteq Music!Song
      /\ x1 \subseteq Music!List /\ x11 \in BOOLEAN /\ x10[r] \in BOOLEAN
  BY DEF MusicInv, TablesOK
<1>1. PICK u : u = [s EXCEPT !.url = "bucket"]
  OBVIOUS
<1>2. /\ u \in Music!Song /\ u.id = s.id /\ u.list = s.list /\ u.track = s.track /\ u.gone = s.gone
      /\ u.url = "bucket" /\ x2' = (x2 \ {s}) \cup {u}
  BY <1>0, <1>1 DEF Music!Song
<1>3. PICK c : c = [x7[r] EXCEPT !.track = @ + 1, !.first = IF x7[r].track = 1 THEN s.id ELSE @]
  OBVIOUS
<1>4. s.id \in Music!SongIds /\ s.track \in 1..Tracks
  BY <1>0 DEF Music!Song
<1>5. /\ c \in SavingRows /\ c.pc = "rows" /\ c.at = run.at /\ c.list = run.list /\ c.had = run.had
      /\ c.track = run.track + 1 /\ c.first = IF run.track = 1 THEN s.id ELSE run.first
  <2>1. PICK f : f = IF x7[r].track = 1 THEN s.id ELSE x7[r].first
    OBVIOUS
  <2>2. c = [x7[r] EXCEPT !.track = @ + 1, !.first = f]
    BY <1>3, <2>1
  <2>3. x7[r] \in SavingRows /\ x7[r].track + 1 \in 1..Tracks + 1
    BY WritingRows, FolderNames DEF SavingRows
  <2>4. f \in Music!SongIds \cup {0}
    BY <1>4, <2>1, <2>3 DEF SavingRows
  <2> QED
    BY <2>1, <2>2, <2>3, <2>4 DEF SavingRows
<1>6. x7' = [x7 EXCEPT ![r] = c] /\ Music!UnderWay(r)
  BY <1>3 DEF Music!NextTrack, Music!Move, Music!UnderWay
<1> DEFINE Old(t, o) == o.id = t.id /\ o.list = t.list /\ o.track = t.track /\ o.gone = t.gone
<1>7. \A t \in x2' : \E o \in x2 : Old(t, o) /\ (t = o \/ (o = s /\ t = u))
  BY <1>2
<1>8. \A o \in x2 : \E t \in x2' : Old(t, o)
  BY <1>2
<1>9. s.list = run.list
  BY WritingRows
<1>10. OwnIds(x1, x2', x5, x6)
  <2>1. \A t \in x2' : t.id < x6 /\ \E l \in x1 : l.id = t.list
    BY <1>0, <1>7 DEF OwnIds
  <2>2. \A t, v \in x2' : t.id = v.id => t = v
    BY <1>0, <1>2 DEF OwnIds
  <2> QED
    BY <1>0, <2>1, <2>2 DEF OwnIds
<1>11. FilesThere(x1, x2', x4)
  <2> SUFFICES ASSUME NEW t \in x2', NEW l \in x1, t.url = "bucket", l.id = t.list
               PROVE  FileOf(l.name, t.track) \in x4
    BY DEF FilesThere
  <2>1. CASE t = u
    <3>1. l.name = Folders[run.at]
      BY <1>2, <1>9, <2>1, WritingRows DEF AtWork
    <3> QED
      BY <1>2, <1>4, <2>1, <3>1, WritingRows
  <2>2. CASE t \in x2
    BY <1>0, <2>2 DEF FilesThere
  <2> QED
    BY <1>2, <2>1, <2>2
<1>12. ~x11 => OneEach(x2')
  <2> SUFFICES ASSUME ~x11, NEW t \in x2', NEW v \in x2',
                      t.list = v.list, t.track = v.track, ~t.gone, ~v.gone
               PROVE  t = v
    BY DEF OneEach
  <2>1. PICK o \in x2 : Old(t, o) /\ (t = o \/ (o = s /\ t = u))
    BY <1>7
  <2>2. PICK p \in x2 : Old(v, p) /\ (v = p \/ (p = s /\ v = u))
    BY <1>7
  <2>3. o = p
    BY <2>1, <2>2 DEF MusicInv, TablesOK, OneEach
  <2> QED
    BY <1>10, <2>1, <2>2, <2>3 DEF OwnIds
<1>13. TablesOK'
  BY <1>0, <1>2, <1>10, <1>11, <1>12
  DEF MusicInv, TablesOK, Music!List, Music!Song, Music!Mood, Music!ListIds, Music!SongIds, Music!Names
<1>14. x10[r] => LeftPlayable(c, x1', x2', x3')
  <2> SUFFICES ASSUME x10[r], NEW n \in Through(c) PROVE Playable(x1', x2', x3', n)
    BY DEF LeftPlayable
  <2>1. Playable(x1, x2, x3, n)
    BY <1>5, WritingRows DEF LeftPlayable, Through
  <2> QED
    BY <1>8, <2>1, StillPlayable
<1>15. ASSUME x10[r], NEW t \in 1..Tracks, t < c.track PROVE Held(x2', c.list, t, c.first)
  <2>1. CASE t = run.track
    <3>1. ~s.gone
      BY <1>15, WritingRows
    <3>2. u \in x2' /\ u.list = c.list /\ u.track = t /\ ~u.gone /\ (t = 1 => u.id = c.first)
      BY <1>2, <1>5, <1>9, <2>1, <3>1
    <3> QED
      BY <3>2 DEF Held
  <2>2. CASE t # run.track
    <3>1. t < run.track /\ run.track # 1
      BY <1>5, <1>15, <2>2, WritingRows
    <3>2. PICK o \in x2 : o.list = run.list /\ o.track = t /\ ~o.gone /\ (t = 1 => o.id = run.first)
      BY <1>15, <3>1, WritingRows DEF Held
    <3>3. PICK v \in x2' : Old(v, o)
      BY <1>8
    <3> QED
      BY <1>5, <3>1, <3>2, <3>3 DEF Held
  <2> QED
    BY <2>1, <2>2
<1>16. \A t \in x2' : t.id \in c.had => t.list = c.list /\ (x10[r] => ~t.gone)
  BY <1>5, <1>7, WritingRows
<1>17. ASSUME x10[r] \/ ~x11, NEW t \in x2', t.list = c.list, ~t.gone
       PROVE  t.id \in c.had \/ t.track < c.track
  <2>1. PICK o \in x2 : Old(t, o)
    BY <1>7
  <2>2. t.id \in run.had \/ t.track < run.track
    BY <1>5, <1>17, <2>1, WritingRows
  <2>3. t.track \in Nat
    BY <1>0, <2>1, FolderNames DEF Music!Song
  <2> QED
    BY <1>5, <2>2, <2>3, WritingRows
<1>18. AtWork(c, x10[r], x1, x5) /\ c.had = run.had
  BY <1>5, WritingRows DEF AtWork
<1>19. OfRows(c, x10[r], ~x11, x1', x2', x4, x5', x6')
  BY <1>5, <1>15, <1>16, <1>17, <1>18, WritingRows DEF OfRows
<1>20. Uploads(c, x10[r], ~x11, x1', x2', x3', x4, x5', x6')
  BY <1>5, <1>14, <1>19 DEF Uploads, OfPut
<1>21. ListsStay(x1, x1', x5) /\ SongsStay(x2, x2', x6)
  BY <1>7 DEF ListsStay, SongsStay
<1>22. x5 <= x5' /\ x6 <= x6' /\ c \in Music!Run
  BY <1>5, UploadsNow, RunKinds
<1> QED
  BY <1>6, <1>13, <1>20, <1>21, <1>22, RunWrites

\* The file has no row that was read: one is written.
LEMMA RowAdded ==
  ASSUME Music!MusicAssumption, MusicInv, NEW r \in Actors,
         x7[r].pc = "rows", x7[r].track <= Tracks, x6 <= MaxSongs,
         \A s \in x2 : ~(s.id \in x7[r].had /\ s.track = x7[r].track),
         NEW l0 \in x1, l0.id = x7[r].list,
         x2' = x2 \cup {[id |-> x6, list |-> x7[r].list, track |-> x7[r].track,
                         url |-> "bucket", gone |-> FALSE]},
         Music!NextTrack(r, x6), x6' = x6 + 1,
         Music!Wrote(r), UNCHANGED <<x1, x3, x4, x5, x11>>
  PROVE  MusicInv'
<1> DEFINE run == x7[r]
<1>0. /\ OwnIds(x1, x2, x5, x6) /\ FilesThere(x1, x2, x4) /\ x2 \subseteq Music!Song
      /\ x1 \subseteq Music!List /\ x11 \in BOOLEAN /\ x10[r] \in BOOLEAN
      /\ x6 \in 1..MaxSongs + 1
  BY DEF MusicInv, TablesOK
<1>1. PICK u : u = [id |-> x6, list |-> x7[r].list, track |-> x7[r].track,
                    url |-> "bucket", gone |-> FALSE]
  OBVIOUS
<1>2. run.track \in 1..Tracks /\ run.list \in Music!ListIds /\ x6 \in Music!SongIds /\ x6 \in Nat
  BY <1>0, WritingRows, FolderNames DEF SavingRows, Music!SongIds
<1>3. /\ u \in Music!Song /\ u.id = x6 /\ u.list = run.list /\ u.track = run.track /\ u.gone = FALSE
      /\ x2' = x2 \cup {u}
  BY <1>1, <1>2 DEF Music!Song
<1>4. PICK c : c = [x7[r] EXCEPT !.track = @ + 1, !.first = IF x7[r].track = 1 THEN x6 ELSE @]
  OBVIOUS
<1>5. /\ c \in SavingRows /\ c.pc = "rows" /\ c.at = run.at /\ c.list = run.list /\ c.had = run.had
      /\ c.track = run.track + 1 /\ c.first = IF run.track = 1 THEN x6 ELSE run.first
  <2>1. PICK f : f = IF x7[r].track = 1 THEN x6 ELSE x7[r].first
    OBVIOUS
  <2>2. c = [x7[r] EXCEPT !.track = @ + 1, !.first = f]
    BY <1>4, <2>1
  <2>3. x7[r] \in SavingRows /\ x7[r].track + 1 \in 1..Tracks + 1
    BY WritingRows, FolderNames DEF SavingRows
  <2>4. f \in Music!SongIds \cup {0}
    BY <1>2, <2>1, <2>3 DEF SavingRows
  <2> QED
    BY <2>1, <2>2, <2>3, <2>4 DEF SavingRows
<1>6. x7' = [x7 EXCEPT ![r] = c] /\ Music!UnderWay(r)
  BY <1>4 DEF Music!NextTrack, Music!Move, Music!UnderWay
<1>7. \A s \in x2 : s.id \in Nat /\ s.id < x6 /\ s.track \in Nat
  BY <1>0, FolderNames DEF OwnIds, Music!Song, Music!SongIds
<1>8. OwnIds(x1, x2', x5, x6')
  <2>1. \A t \in x2' : t.id < x6' /\ \E l \in x1 : l.id = t.list
    BY <1>0, <1>2, <1>3, <1>7 DEF OwnIds
  <2>2. \A t, v \in x2' : t.id = v.id => t = v
    BY <1>0, <1>2, <1>3, <1>7 DEF OwnIds
  <2> QED
    BY <1>0, <2>1, <2>2 DEF OwnIds
<1>9. FilesThere(x1, x2', x4)
  <2> SUFFICES ASSUME NEW t \in x2', NEW l \in x1, t.url = "bucket", l.id = t.list
               PROVE  FileOf(l.name, t.track) \in x4
    BY DEF FilesThere
  <2>1. CASE t = u
    <3>1. l.name = Folders[run.at]
      BY <1>3, <2>1, WritingRows DEF AtWork
    <3> QED
      BY <1>2, <1>3, <2>1, <3>1, WritingRows
  <2>2. CASE t \in x2
    BY <1>0, <2>2 DEF FilesThere
  <2> QED
    BY <1>3, <2>1, <2>2
<1>10. ~x11 => OneEach(x2')
  <2> SUFFICES ASSUME ~x11 PROVE OneEach(x2')
    OBVIOUS
  <2>1. \A s \in x2 : ~(s.list = run.list /\ s.track = run.track /\ ~s.gone)
    BY <1>2, <1>7, WritingRows
  <2>2. OneEach(x2)
    BY DEF MusicInv, TablesOK
  <2> QED
    BY <1>3, <2>1, <2>2 DEF OneEach
<1>11. x6' \in 1..MaxSongs + 1
  BY <1>2, FolderNames
<1>12. TablesOK'
  BY <1>0, <1>3, <1>8, <1>9, <1>10, <1>11
  DEF MusicInv, TablesOK, Music!List, Music!Song, Music!Mood, Music!ListIds, Music!SongIds, Music!Names
<1>13. x10[r] => LeftPlayable(c, x1', x2', x3')
  <2> SUFFICES ASSUME x10[r], NEW n \in Through(c) PROVE Playable(x1', x2', x3', n)
    BY DEF LeftPlayable
  <2>1. Playable(x1, x2, x3, n)
    BY <1>5, WritingRows DEF LeftPlayable, Through
  <2> QED
    BY <1>3, <2>1, StillPlayable
<1>14. ASSUME x10[r], NEW t \in 1..Tracks, t < c.track PROVE Held(x2', c.list, t, c.first)
  <2>1. CASE t = run.track
    BY <1>3, <1>5, <2>1 DEF Held
  <2>2. CASE t # run.track
    <3>1. t < run.track /\ run.track # 1
      BY <1>5, <1>14, <2>2, WritingRows
    <3>2. Held(x2, run.list, t, run.first)
      BY <1>14, <3>1, WritingRows
    <3> QED
      BY <1>3, <1>5, <3>1, <3>2 DEF Held
  <2> QED
    BY <2>1, <2>2
<1>15. \A t \in x2' : t.id \in c.had => t.list = c.list /\ (x10[r] => ~t.gone)
  BY <1>3, <1>5, WritingRows
<1>16. x10[r] \/ ~x11 => \A t \in x2' : t.list = c.list /\ ~t.gone => t.id \in c.had \/ t.track < c.track
  BY <1>3, <1>5, <1>7, WritingRows
<1>17. AtWork(c, x10[r], x1, x5)
  BY <1>5, WritingRows DEF AtWork
<1>18. \A id \in c.had : id < x6'
  BY <1>2, <1>5, WritingRows
<1>19. OfRows(c, x10[r], ~x11, x1', x2', x4, x5', x6')
  BY <1>5, <1>14, <1>15, <1>16, <1>17, <1>18, WritingRows DEF OfRows
<1>20. Uploads(c, x10[r], ~x11, x1', x2', x3', x4, x5', x6')
  BY <1>5, <1>13, <1>19 DEF Uploads, OfPut
<1>21. ListsStay(x1, x1', x5) /\ SongsStay(x2, x2', x6)
  BY <1>2, <1>3 DEF ListsStay, SongsStay
<1>22. x5 <= x5' /\ x6 <= x6' /\ c \in Music!Run
  BY <1>2, <1>5, UploadsNow, RunKinds
<1> QED
  BY <1>6, <1>12, <1>20, <1>21, <1>22, RunWrites

LEMMA SaveRowKeeps ==
  ASSUME Music!MusicAssumption, MusicInv, NEW r \in Actors, Music!SaveRow(r)
  PROVE  MusicInv'
<1>1. /\ x7[r].pc = "rows" /\ x7[r].track <= Tracks /\ Music!Wrote(r)
      /\ UNCHANGED <<x1, x3, x4, x5, x11>>
  BY DEF Music!SaveRow, Music!Quiet
<1>2. \/ \E s \in {t \in x2 : t.id \in x7[r].had /\ t.track = x7[r].track} :
           /\ x2' = (x2 \ {s}) \cup {[s EXCEPT !.url = "bucket"]}
           /\ Music!NextTrack(r, s.id) /\ UNCHANGED x6
      \/ /\ {t \in x2 : t.id \in x7[r].had /\ t.track = x7[r].track} = {}
         /\ x6 <= MaxSongs /\ \E l \in x1 : l.id = x7[r].list
         /\ x2' = x2 \cup {[id |-> x6, list |-> x7[r].list, track |-> x7[r].track,
                            url |-> "bucket", gone |-> FALSE]}
         /\ Music!NextTrack(r, x6) /\ x6' = x6 + 1
  BY DEF Music!SaveRow
<1>3. CASE \E s \in {t \in x2 : t.id \in x7[r].had /\ t.track = x7[r].track} :
             /\ x2' = (x2 \ {s}) \cup {[s EXCEPT !.url = "bucket"]}
             /\ Music!NextTrack(r, s.id) /\ UNCHANGED x6
  BY <1>1, <1>3, RowSaved
<1>4. CASE /\ {t \in x2 : t.id \in x7[r].had /\ t.track = x7[r].track} = {}
           /\ x6 <= MaxSongs /\ \E l \in x1 : l.id = x7[r].list
           /\ x2' = x2 \cup {[id |-> x6, list |-> x7[r].list, track |-> x7[r].track,
                              url |-> "bucket", gone |-> FALSE]}
           /\ Music!NextTrack(r, x6) /\ x6' = x6 + 1
  <2>1. \A s \in x2 : ~(s.id \in x7[r].had /\ s.track = x7[r].track)
    BY <1>4
  <2>2. PICK l \in x1 : l.id = x7[r].list
    BY <1>4
  <2> QED
    BY <1>1, <1>4, <2>1, <2>2, RowAdded
<1> QED
  BY <1>2, <1>3, <1>4

LEMMA AttachKeeps ==
  ASSUME Music!MusicAssumption, MusicInv, NEW r \in Actors, Music!Attach(r)
  PROVE  MusicInv'
<1> DEFINE run == x7[r]
           name == Folders[x7[r].at]
           mood == [list |-> x7[r].list, first |-> x7[r].first]
<1>1. /\ run.pc = "rows" /\ run.track > Tracks /\ Music!Wrote(r) /\ Music!UnderWay(r)
      /\ UNCHANGED <<x1, x2, x4, x5, x6, x11>>
      /\ x3' = IF name \in Titles THEN [x3 EXCEPT ![name] = mood] ELSE x3
  BY DEF Music!Attach, Music!Quiet, Music!UnderWay
<1>2. PICK c : c = [pc |-> "find", at |-> run.at + 1]
  OBVIOUS
<1>3. run \in SavingRows /\ run.at \in DOMAIN Folders /\ name \in Music!Names /\ run.track \in Nat
  BY <1>1, WritingRows
<1>4. c \in Music!Run /\ c.pc = "find" /\ c.at = run.at + 1 /\ run.at \in Nat
  BY <1>2, <1>3, FolderNames, RunKinds DEF Finding
<1>5. x7' = [x7 EXCEPT ![r] = c]
  BY <1>2 DEF Music!Attach, Music!Move
<1>6. x3 \in [Titles -> Music!Mood]
  BY DEF MusicInv, TablesOK
<1>7. mood \in Music!Mood
  BY <1>3 DEF SavingRows, Music!Mood
<1>8. /\ x3' \in [Titles -> Music!Mood]
      /\ name \in Titles => x3'[name] = mood
      /\ \A n \in Titles : n # name => x3'[n] = x3[n]
  BY <1>1, <1>6, <1>7
<1>9. TablesOK'
  BY <1>1, <1>8
  DEF MusicInv, TablesOK, Music!List, Music!Song, Music!Mood, Music!ListIds, Music!SongIds, Music!Names
<1>10. ASSUME x10[r], NEW n \in Through(c) PROVE Playable(x1', x2', x3', n)
  <2>1. CASE n = name
    <3>1. n \in Titles => x3'[n] = mood
      BY <1>8, <2>1
    <3>2. IsList(x1, run.list, n)
      BY <1>1, <1>10, <2>1, WritingRows DEF AtWork
    <3>3. \A t \in 1..Tracks : Held(x2, run.list, t, run.first)
      BY <1>1, <1>3, <1>10, FolderNames, WritingRows
    <3>4. PlaysAll(x1', x2', mood, n)
      BY <1>1, <3>2, <3>3 DEF PlaysAll
    <3> QED
      BY <1>7, <3>1, <3>4 DEF Playable
  <2>2. CASE n # name
    <3>1. PICK i \in DOMAIN Folders : i < run.at + 1 /\ n = Folders[i]
      BY <1>4 DEF Through
    <3>2. i < run.at /\ n \in Music!Names
      BY <1>4, <2>2, <3>1, FolderNames
    <3>3. n \in Through(run)
      BY <1>1, <3>1, <3>2 DEF Through
    <3>4. Playable(x1, x2, x3, n)
      BY <1>1, <1>10, <3>3, WritingRows DEF LeftPlayable
    <3>5. n \in Titles => x3'[n] = x3[n]
      BY <1>8, <2>2
    <3> QED
      BY <1>1, <3>4, <3>5 DEF Playable
  <2> QED
    BY <2>1, <2>2
<1>11. Uploads(c, x10[r], ~x11, x1', x2', x3', x4, x5', x6')
  BY <1>4, <1>10 DEF Uploads, LeftPlayable, OfPut, OfRows
<1>12. ListsStay(x1, x1', x5) /\ SongsStay(x2, x2', x6) /\ x5 <= x5' /\ x6 <= x6'
  BY <1>1, UploadsNow DEF ListsStay, SongsStay
<1> QED
  BY <1>1, <1>4, <1>5, <1>9, <1>11, <1>12, RunWrites

----------------------------------------------------------------------------
(* The synchronization and the administrators *)

LEMMA MoreTracks ==
  ASSUME NEW a \in Nat, NEW b \in Nat, a <= b, NEW t \in Nat
  PROVE  a * t \in Nat /\ b * t \in Nat /\ a * t <= b * t
<1>1. PICK d \in Nat : b = a + d
  <2>1. b - a \in Nat /\ b = a + (b - a)
    OBVIOUS
  <2> QED
    BY <2>1
<1>2. b * t = a * t + d * t
  BY <1>1
<1>3. a * t \in Nat /\ d * t \in Nat
  OBVIOUS
<1> QED
  BY <1>2, <1>3

LEMMA SongNumbers ==
  ASSUME Music!MusicAssumption, NEW i \in 1..Len(Folders), NEW t \in 1..Tracks
  PROVE  /\ FileOffset(i) \in Nat /\ AllFiles \in Nat
         /\ FileOffset(i) + t <= AllFiles
         /\ \A j \in 1..Len(Folders), u \in 1..Tracks :
              FileOffset(i) + t = FileOffset(j) + u => i = j /\ t = u
<1>0. Tracks \in Nat /\ Len(Folders) \in Nat
  BY FolderNames
<1>1. ASSUME NEW j \in 1..Len(Folders)
      PROVE  /\ FileOffset(j) \in Nat /\ j * Tracks \in Nat /\ AllFiles \in Nat
             /\ j * Tracks = FileOffset(j) + Tracks /\ j * Tracks <= AllFiles
  <2>1. j \in Nat /\ j - 1 \in Nat /\ j <= Len(Folders) /\ j - 1 <= j
    BY <1>0
  <2>2. (j - 1) * Tracks \in Nat /\ j * Tracks \in Nat
    BY <1>0, <2>1, MoreTracks
  <2>3. Len(Folders) * Tracks \in Nat /\ j * Tracks <= Len(Folders) * Tracks
    BY <1>0, <2>1, MoreTracks
  <2>4. j * Tracks = (j - 1) * Tracks + Tracks
    BY <1>0, <2>1
  <2> QED
    BY <2>2, <2>3, <2>4 DEF FileOffset, AllFiles
<1>2. ASSUME NEW j \in 1..Len(Folders), NEW k \in 1..Len(Folders), j < k
      PROVE  FileOffset(j) + Tracks <= FileOffset(k)
  <2>1. j \in Nat /\ k - 1 \in Nat /\ j <= k - 1
    BY <1>0, <1>2
  <2>2. j * Tracks <= (k - 1) * Tracks
    BY <1>0, <2>1, MoreTracks
  <2> QED
    BY <1>1, <2>2 DEF FileOffset
<1>3. ASSUME NEW j \in 1..Len(Folders), NEW u \in 1..Tracks, FileOffset(i) + t = FileOffset(j) + u
      PROVE  i = j /\ t = u
  <2>1. i \in Nat /\ j \in Nat /\ FileOffset(i) \in Nat /\ FileOffset(j) \in Nat
    BY <1>0, <1>1
  <2>2. ~(i < j) /\ ~(j < i)
    BY <1>0, <1>2, <1>3, <2>1
  <2>3. i = j
    BY <2>1, <2>2
  <2> QED
    BY <1>0, <1>3, <2>1, <2>3
<1>4. FileOffset(i) + t <= AllFiles
  BY <1>0, <1>1
<1> QED
  BY <1>1, <1>3, <1>4

LEMMA SyncKeeps ==
  ASSUME Music!MusicAssumption, MusicInv, Music!Sync
  PROVE  MusicInv'
<1> DEFINE n == Len(Folders)
           list(i) == x5 + i - 1
           song(i, t) == x6 + FileOffset(i) + t - 1
           newList(i) == [id |-> list(i), name |-> Folders[i], gone |-> FALSE]
           newSong(i, t) ==
             [id |-> song(i, t), list |-> list(i), track |-> t, url |-> "web", gone |-> FALSE]
<1>1. /\ x5 + n - 1 <= MaxLists /\ x6 + AllFiles - 1 <= MaxSongs
      /\ x1' = {newList(i) : i \in DOMAIN Folders}
      /\ x2' = {newSong(i, t) : i \in DOMAIN Folders, t \in 1..Tracks}
      /\ x3' = [m \in Titles |->
                  IF m \in DOMAIN SyncMap /\ SyncMap[m] \in Music!Names
                  THEN LET i == CHOOSE j \in DOMAIN Folders : Folders[j] = SyncMap[m]
                       IN  [list |-> list(i), first |-> song(i, 1)]
                  ELSE x3[m]]
      /\ x5' = x5 + n /\ x6' = x6 + AllFiles
      /\ x10' = [r \in Actors |-> FALSE] /\ UNCHANGED <<x4, x7, x11>>
  BY DEF Music!Sync, FileOffset, AllFiles
<1>2. /\ x5 \in 1..MaxLists + 1 /\ x6 \in 1..MaxSongs + 1 /\ x5 \in Nat /\ x6 \in Nat
      /\ n \in Nat /\ n > 0 /\ Tracks \in Nat /\ Tracks > 0 /\ MaxLists \in Nat /\ MaxSongs \in Nat
      /\ DOMAIN Folders = 1..n
  BY FolderNames DEF MusicInv, TablesOK
<1>3. ASSUME NEW i \in DOMAIN Folders
      PROVE  /\ list(i) \in Nat /\ list(i) >= x5 /\ list(i) < x5' /\ list(i) \in Music!ListIds
             /\ newList(i) \in Music!List
  <2>1. list(i) \in Nat /\ list(i) >= x5 /\ list(i) < x5' /\ list(i) \in Music!ListIds
    BY <1>1, <1>2 DEF Music!ListIds
  <2> QED
    BY <2>1, FolderNames DEF Music!List
<1>4. ASSUME NEW i \in DOMAIN Folders, NEW t \in 1..Tracks
      PROVE  /\ song(i, t) \in Nat /\ song(i, t) >= x6 /\ song(i, t) < x6'
             /\ song(i, t) \in Music!SongIds
             /\ \A j \in DOMAIN Folders, u \in 1..Tracks : song(i, t) = song(j, u) => i = j /\ t = u
             /\ newSong(i, t) \in Music!Song
  <2>1. /\ FileOffset(i) \in Nat /\ AllFiles \in Nat /\ FileOffset(i) + t <= AllFiles
        /\ \A j \in DOMAIN Folders, u \in 1..Tracks :
             FileOffset(i) + t = FileOffset(j) + u => i = j /\ t = u
    BY <1>2, SongNumbers
  <2>2. t \in Nat /\ t > 0
    BY <1>2
  <2>3. song(i, t) \in Nat /\ song(i, t) >= x6 /\ song(i, t) < x6' /\ song(i, t) \in Music!SongIds
    BY <1>1, <1>2, <2>1, <2>2 DEF Music!SongIds
  <2>4. ASSUME NEW j \in DOMAIN Folders, NEW u \in 1..Tracks, song(i, t) = song(j, u)
        PROVE  i = j /\ t = u
    <3>1. FileOffset(j) \in Nat /\ u \in Nat
      BY <1>2, SongNumbers
    <3>2. FileOffset(i) + t = FileOffset(j) + u
      <4>1. PICK a \in Nat, b \in Nat : a = FileOffset(i) /\ b = FileOffset(j)
        BY <2>1, <3>1
      <4>2. x6 + a + t - 1 = x6 + b + u - 1
        BY <2>4, <4>1
      <4>3. a + t = b + u
        BY <1>2, <2>2, <3>1, <4>2
      <4> QED
        BY <4>1, <4>3
    <3> QED
      BY <2>1, <3>2
  <2>5. newSong(i, t) \in Music!Song
    BY <1>3, <2>3 DEF Music!Song
  <2> QED
    BY <2>3, <2>4, <2>5
<1> HIDE DEF n, list, song
<1>5. x1' \subseteq Music!List /\ x2' \subseteq Music!Song
  BY <1>1, <1>3, <1>4
<1>6. \A l \in x1' : \E i \in DOMAIN Folders : l.id = list(i) /\ l = newList(i)
  BY <1>1
<1>7. \A s \in x2' : \E i \in DOMAIN Folders, t \in 1..Tracks :
        s.id = song(i, t) /\ s.list = list(i) /\ s.track = t /\ s.url = "web" /\ s = newSong(i, t)
  BY <1>1
<1>8. \A i, j \in DOMAIN Folders : list(i) = list(j) => i = j
  BY <1>2 DEF list
<1>9. OwnIds(x1', x2', x5', x6')
  <2>1. \A l \in x1' : l.id < x5'
    BY <1>3, <1>6
  <2>2. \A l, m \in x1' : l.id = m.id => l = m
    BY <1>6, <1>8
  <2>3. ASSUME NEW s \in x2' PROVE s.id < x6' /\ \E l \in x1' : l.id = s.list
    <3>1. PICK i \in DOMAIN Folders, t \in 1..Tracks : s.id = song(i, t) /\ s.list = list(i)
      BY <1>7
    <3>2. newList(i) \in x1' /\ newList(i).id = list(i)
      BY <1>1
    <3> QED
      BY <1>4, <3>1, <3>2
  <2>4. ASSUME NEW s \in x2', NEW v \in x2', s.id = v.id PROVE s = v
    <3>1. PICK i \in DOMAIN Folders, t \in 1..Tracks : s.id = song(i, t) /\ s = newSong(i, t)
      BY <1>7
    <3>2. PICK j \in DOMAIN Folders, u \in 1..Tracks : v.id = song(j, u) /\ v = newSong(j, u)
      BY <1>7
    <3>3. song(i, t) = song(j, u)
      BY <2>4, <3>1, <3>2
    <3>4. \A a, b \in DOMAIN Folders, p, q \in 1..Tracks : song(a, p) = song(b, q) => a = b /\ p = q
      BY <1>4
    <3>5. i = j /\ t = u
      BY <3>3, <3>4
    <3> QED
      BY <3>1, <3>2, <3>5
  <2> QED
    BY <2>1, <2>2, <2>3, <2>4 DEF OwnIds
<1>10. FilesThere(x1', x2', x4)
  BY <1>7 DEF FilesThere
<1>11. OneEach(x2')
  <2> SUFFICES ASSUME NEW s \in x2', NEW v \in x2', s.list = v.list, s.track = v.track PROVE s = v
    BY DEF OneEach
  <2>1. PICK i \in DOMAIN Folders, t \in 1..Tracks : s.list = list(i) /\ s.track = t /\ s = newSong(i, t)
    BY <1>7
  <2>2. PICK j \in DOMAIN Folders, u \in 1..Tracks : v.list = list(j) /\ v.track = u /\ v = newSong(j, u)
    BY <1>7
  <2> QED
    BY <1>8, <2>1, <2>2
<1>12. x3' \in [Titles -> Music!Mood]
  <2>1. x3 \in [Titles -> Music!Mood]
    BY DEF MusicInv, TablesOK
  <2>2. \A i \in DOMAIN Folders : [list |-> list(i), first |-> song(i, 1)] \in Music!Mood
    <3>1. 1 \in 1..Tracks
      BY <1>2
    <3>2. \A i \in DOMAIN Folders : list(i) \in Music!ListIds /\ song(i, 1) \in Music!SongIds
      BY <1>3, <1>4, <3>1
    <3> QED
      BY <3>2 DEF Music!Mood
  <2>3. \A m \in Music!Names : (CHOOSE j \in DOMAIN Folders : Folders[j] = m) \in DOMAIN Folders
    BY FolderNames
  <2> QED
    BY <1>1, <2>1, <2>2, <2>3
<1>13. /\ x5' \in 1..MaxLists + 1 /\ x6' \in 1..MaxSongs + 1 /\ x5 <= x5' /\ x6 <= x6'
  <2>1. AllFiles \in Nat
    BY <1>2, SongNumbers
  <2> QED
    BY <1>1, <1>2, <2>1
<1>14. TablesOK'
  BY <1>1, <1>5, <1>9, <1>10, <1>11, <1>12, <1>13
  DEF TablesOK, Music!List, Music!Song, Music!Mood, Music!ListIds, Music!SongIds, Music!Names
<1>15. ListsStay(x1, x1', x5) /\ SongsStay(x2, x2', x6) /\ \A s \in x2' : s.id >= x6 => s.list >= x5
  <2>1. \A l \in x1' : l.id >= x5
    BY <1>3, <1>6
  <2>2. ASSUME NEW s \in x2' PROVE s.id >= x6 /\ s.list >= x5
    <3>1. PICK i \in DOMAIN Folders, t \in 1..Tracks : s.id = song(i, t) /\ s.list = list(i)
      BY <1>7
    <3>2. song(i, t) >= x6
      BY <1>4
    <3>3. list(i) >= x5
      BY <1>3
    <3> QED
      BY <3>1, <3>2, <3>3
  <2> QED
    BY <2>1, <2>2 DEF ListsStay, SongsStay
<1> QED
  BY <1>1, <1>13, <1>14, <1>15, OthersWrite

LEMMA RemoveKeeps ==
  ASSUME Music!MusicAssumption, MusicInv, Music!Remove
  PROVE  MusicInv'
<1>0. /\ x10' = [r \in Actors |-> FALSE] /\ UNCHANGED <<x3, x4, x5, x6, x7, x11>>
      /\ x5 \in Nat /\ x6 \in Nat
  BY FolderNames DEF Music!Remove, MusicInv, TablesOK
<1>1. /\ OwnIds(x1, x2, x5, x6) /\ FilesThere(x1, x2, x4) /\ x2 \subseteq Music!Song
      /\ x1 \subseteq Music!List /\ (~x11 => OneEach(x2))
      /\ \A s \in x2 : s.id \in Nat /\ s.id < x6 /\ s.gone \in BOOLEAN
  BY FolderNames DEF MusicInv, TablesOK, OwnIds, Music!Song, Music!SongIds
<1> DEFINE stands ==
      /\ x1' \subseteq Music!List /\ x2' \subseteq Music!Song
      /\ OwnIds(x1', x2', x5, x6) /\ FilesThere(x1', x2', x4) /\ (~x11 => OneEach(x2'))
      /\ ListsStay(x1, x1', x5) /\ SongsStay(x2, x2', x6) /\ \A s \in x2' : s.id < x6 /\ s.id \in Nat
<1>2. SUFFICES stands
  <2>1. TablesOK'
    BY <1>0, <1>2
    DEF MusicInv, TablesOK, Music!List, Music!Song, Music!Mood, Music!ListIds, Music!SongIds, Music!Names
  <2>2. \A s \in x2' : s.id >= x6 => s.list >= x5
    BY <1>0, <1>2
  <2> QED
    BY <1>0, <1>2, <2>1, <2>2, OthersWrite
<1>3. ASSUME NEW s \in x2, x2' = (x2 \ {s}) \cup {[s EXCEPT !.gone = TRUE]}, UNCHANGED x1
      PROVE  stands
  <2>1. PICK u : u = [s EXCEPT !.gone = TRUE]
    OBVIOUS
  <2>2. /\ u \in Music!Song /\ u.id = s.id /\ u.list = s.list /\ u.track = s.track /\ u.url = s.url
        /\ u.gone = TRUE /\ x2' = (x2 \ {s}) \cup {u}
    BY <1>1, <1>3, <2>1 DEF Music!Song
  <2>3. OwnIds(x1', x2', x5, x6)
    BY <1>1, <1>3, <2>2 DEF OwnIds
  <2>4. FilesThere(x1', x2', x4)
    BY <1>1, <1>3, <2>2 DEF FilesThere
  <2>5. ~x11 => OneEach(x2')
    BY <1>1, <2>2 DEF OneEach
  <2>6. SongsStay(x2, x2', x6) /\ \A t \in x2' : t.id < x6 /\ t.id \in Nat
    BY <1>1, <2>2 DEF SongsStay
  <2> QED
    BY <1>1, <1>3, <2>2, <2>3, <2>4, <2>5, <2>6 DEF ListsStay
<1>4. ASSUME NEW l \in x1, x1' = x1 \ {l}, x2' = {s \in x2 : s.list # l.id}
      PROVE  stands
  <2>1. OwnIds(x1', x2', x5, x6)
    BY <1>1, <1>4 DEF OwnIds
  <2>2. FilesThere(x1', x2', x4) /\ (~x11 => OneEach(x2'))
    BY <1>1, <1>4 DEF FilesThere, OneEach
  <2>3. ListsStay(x1, x1', x5) /\ SongsStay(x2, x2', x6)
    BY <1>4 DEF ListsStay, SongsStay
  <2> QED
    BY <1>1, <1>4, <2>1, <2>2, <2>3
<1>5. ASSUME NEW l \in x1, x1' = (x1 \ {l}) \cup {[l EXCEPT !.gone = TRUE]}, UNCHANGED x2
      PROVE  stands
  <2>1. PICK k : k = [l EXCEPT !.gone = TRUE]
    OBVIOUS
  <2>2. k \in Music!List /\ k.id = l.id /\ k.name = l.name /\ x1' = (x1 \ {l}) \cup {k}
    BY <1>1, <1>5, <2>1 DEF Music!List
  <2>3. OwnIds(x1', x2', x5, x6)
    BY <1>1, <1>5, <2>2 DEF OwnIds
  <2>4. FilesThere(x1', x2', x4)
    BY <1>1, <1>5, <2>2 DEF FilesThere
  <2>5. ListsStay(x1, x1', x5) /\ SongsStay(x2, x2', x6)
    BY <1>5, <2>2 DEF ListsStay, SongsStay
  <2> QED
    BY <1>1, <1>5, <2>2, <2>3, <2>4, <2>5
<1> HIDE DEF stands
<1> QED
  BY <1>3, <1>4, <1>5 DEF Music!Remove

LEMMA MusicKeeps ==
  ASSUME Music!MusicAssumption, MusicInv, Music!Next
  PROVE  MusicInv'
<1>1. ASSUME NEW r \in Actors,
             \/ Music!Begin(r) \/ Music!Scan(r) \/ Music!Apply(r) \/ Music!Find(r) \/ Music!Finish(r)
             \/ Music!Put(r) \/ Music!ReadRows(r) \/ Music!SaveRow(r) \/ Music!Attach(r) \/ Music!Stop(r)
      PROVE  MusicInv'
  BY <1>1, RunBegins, ScanKeeps, ApplyKeeps, FindKeeps, FinishKeeps, UploadKeeps, ReadRowsKeeps,
     SaveRowKeeps, AttachKeeps, RunStops
<1> QED
  BY <1>1, SyncKeeps, RemoveKeeps DEF Music!Next

\* What the invariant says is what the library promises.
LEMMA MusicPlays ==
  ASSUME Music!MusicAssumption, MusicInv
  PROVE  Music!LibraryPlays
<1>1. ASSUME NEW s \in x2, s.url = "bucket"
      PROVE  [name |-> Music!NameOf(s.list), track |-> s.track] \in x4
  <2>1. /\ OwnIds(x1, x2, x5, x6) /\ FilesThere(x1, x2, x4) /\ x1 \subseteq Music!List
    BY DEF MusicInv, TablesOK
  <2>2. PICK l \in x1 : l.id = s.list
    BY <2>1 DEF OwnIds
  <2>3. l.name \in Music!Names
    BY <2>1 DEF Music!List
  <2>4. \E m \in x1 : m.id = s.list /\ m.name = Music!NameOf(s.list)
    BY <2>2, <2>3 DEF Music!NameOf
  <2>5. PICK m \in x1 : m.id = s.list /\ m.name = Music!NameOf(s.list)
    BY <2>4
  <2> QED
    BY <1>1, <2>1, <2>5 DEF FilesThere, FileOf
<1>2. ASSUME NEW r \in Actors, x7[r].pc = "done" /\ x10[r], NEW n \in Music!Names
      PROVE  \E l \in x1 :
               /\ l.name = n /\ (n \in Titles => x3[n].list = l.id)
               /\ \A t \in 1..Tracks :
                    \E s \in Music!Live(l.id, t) :
                      /\ t = 1 /\ n \in Titles => x3[n].first = s.id
                      /\ x11 \/ Music!Live(l.id, t) = {s}
  <2>1. Playable(x1, x2, x3, n)
    BY <1>2, UploadsNow DEF Uploads, LeftPlayable, Through
  <2>2. PICK m \in Music!Mood : (n \in Titles => x3[n] = m) /\ PlaysAll(x1, x2, m, n)
    BY <2>1 DEF Playable
  <2>3. PICK l \in x1 : l.id = m.list /\ l.name = n
    BY <2>2 DEF PlaysAll, IsList
  <2>4. ASSUME NEW t \in 1..Tracks
        PROVE  \E s \in Music!Live(l.id, t) :
                 /\ t = 1 /\ n \in Titles => x3[n].first = s.id
                 /\ x11 \/ Music!Live(l.id, t) = {s}
    <3>1. PICK s \in x2 : s.list = m.list /\ s.track = t /\ ~s.gone /\ (t = 1 => s.id = m.first)
      BY <2>2 DEF PlaysAll, Held
    <3>2. s \in Music!Live(l.id, t)
      BY <2>3, <3>1 DEF Music!Live
    <3>3. ~x11 => \A u \in Music!Live(l.id, t) : u = s
      BY <2>3, <3>1 DEF MusicInv, TablesOK, OneEach, Music!Live
    <3> QED
      BY <2>2, <3>1, <3>2, <3>3
  <2> QED
    BY <2>2, <2>3, <2>4
<1> QED
  BY <1>1, <1>2 DEF Music!LibraryPlays

LEMMA MusicStarts ==
  ASSUME Music!MusicAssumption, Music!Init
  PROVE  MusicInv
<1>1. /\ x1 = {} /\ x2 = {} /\ x4 = {} /\ x5 = 1 /\ x6 = 1 /\ x10 = [r \in Actors |-> FALSE]
      /\ x11 = FALSE /\ x7 = [r \in Actors |-> [pc |-> "idle"]]
      /\ x3 = [t \in Titles |-> [list |-> 0, first |-> 0]]
  BY DEF Music!Init, Music!Idle
<1>2. TablesOK
  BY <1>1, FolderNames DEF TablesOK, Music!Mood, OwnIds, FilesThere, OneEach
<1>3. x7 \in [Actors -> Music!Run] /\ \A r \in Actors : x7[r].pc = "idle"
  BY <1>1, RunKinds
<1>4. OneRun
  BY <1>3 DEF OneRun, Music!UnderWay
<1>5. \A r \in Actors : Uploads(x7[r], x10[r], ~x11, x1, x2, x3, x4, x5, x6)
  BY <1>3, Unstarted
<1> QED
  BY <1>1, <1>2, <1>3, <1>4, <1>5 DEF MusicInv

LEMMA MusicSteps ==
  /\ Init => (part = "music" => MusicInv)
  /\ (part = "music" => MusicInv) /\ [Next]_<<part, slots>> => (part = "music" => MusicInv)'
<1>0. Music!MusicAssumption
  BY ServicesAssumption DEF ServicesAssumption
<1>1. Init => (part = "music" => MusicInv)
  BY <1>0, MusicStarts DEF Init
<1>2. ASSUME part = "music" => MusicInv, [Next]_<<part, slots>>, part' = "music" PROVE MusicInv'
  <2>1. CASE RunMusic
    BY <1>0, <1>2, <2>1, MusicKeeps DEF RunMusic
  <2>2. CASE UNCHANGED <<part, slots>>
    <3>1. /\ MusicInv /\ x1' = x1 /\ x2' = x2 /\ x3' = x3 /\ x4' = x4 /\ x5' = x5 /\ x6' = x6
          /\ x7' = x7 /\ x10' = x10 /\ x11' = x11
      BY <1>2, <2>2 DEF slots
    <3>2. TablesOK' /\ (OneRun' <=> OneRun)
      BY <3>1 DEF MusicInv, TablesOK, Music!List, Music!Song, Music!Mood, Music!ListIds, Music!SongIds,
         Music!Names, OneRun, Music!UnderWay
    <3> QED
      BY <3>1, <3>2 DEF MusicInv
  <2> QED
    BY <1>2, <2>1, <2>2 DEF Next, RunControls, RunRecords, RunMigrations, RunPolling,
                      RunCookies, RunRoles, RunCatalog, RunCrons, RunListing
<1> QED
  BY <1>1, <1>2

\* The music library: whatever runs of the scripts were killed, no row leads to a file that is
\* not in the bucket; and a run that ended with nobody else writing meanwhile has left each
\* folder a playlist of its name with each of its files, once unless runs overlapped, and the
\* mood preset with that very title, if there is one, that playlist.
THEOREM LibraryStaysWhole == Spec => []LibraryPlays
<1>0. Music!MusicAssumption
  BY ServicesAssumption DEF ServicesAssumption
<1>1. (part = "music" => MusicInv) => LibraryPlays
  BY <1>0, MusicPlays DEF LibraryPlays
<1> QED
  BY <1>1, MusicSteps, PTL DEF Spec

----------------------------------------------------------------------------
(* Listing *)

\* The operators of FiniteSets, as Listing sees them.
LEMMA ListingFinite ==
  ASSUME NEW S
  PROVE  /\ Listing!Cardinality(S) = Cardinality(S)
         /\ Listing!IsFiniteSet(S) <=> IsFiniteSet(S)
<1>1. Listing!Cardinality(S) = Cardinality(S)
  BY DEF Listing!Cardinality, Cardinality
<1>2. Listing!IsFiniteSet(S) <=> IsFiniteSet(S)
  BY DEF Listing!IsFiniteSet, IsFiniteSet
<1> QED
  BY <1>1, <1>2

LEMMA CompaniesFinite ==
  ASSUME Listing!ListingAssumption
  PROVE  /\ IsFiniteSet(Companies) /\ Cardinality(Companies) \in Nat
         /\ Companies = 1..Cardinality(Companies)
         /\ Limits \subseteq Nat \ {0} /\ MaxListEdits \in Nat
<1>1. IsFiniteSet(Companies) /\ Companies = 1..Cardinality(Companies)
  BY ListingFinite DEF Listing!ListingAssumption
<1> QED
  BY <1>1, FS_CardinalityType DEF Listing!ListingAssumption

\* A list in strictly ascending order has all of a finite set, each at the place that the
\* number of those up to it says.
LEMMA PlacesInOrder ==
  ASSUME NEW S, IsFiniteSet(S), NEW k \in [S -> Int],
         NEW f \in [1..Cardinality(S) -> S],
         \A i, j \in 1..Cardinality(S) : i < j => k[f[i]] < k[f[j]]
  PROVE  /\ \A c \in S : \E i \in 1..Cardinality(S) : f[i] = c
         /\ \A i \in 1..Cardinality(S) : Cardinality(KeysUpTo(S, k, k[f[i]])) = i
<1> DEFINE N == Cardinality(S)
<1>1. N \in Nat
  BY FS_CardinalityType
<1>2. \A i \in 1..N : f[i] \in S /\ k[f[i]] \in Int
  OBVIOUS
<1>3. \A i, j \in 1..N : f[i] = f[j] => i = j
  <2> SUFFICES ASSUME NEW i \in 1..N, NEW j \in 1..N, f[i] = f[j], i # j PROVE FALSE
    OBVIOUS
  <2>1. i < j \/ j < i
    BY <1>1
  <2> QED
    BY <1>2, <2>1
<1>4. f \in Injection(1..N, S)
  BY <1>3 DEF Injection, IsInjective
<1>5. Cardinality(1..N) = N
  BY <1>1, FS_Interval
<1>6. f \in Surjection(1..N, S)
  BY <1>4, <1>5, FS_Injection
<1>7. \A c \in S : \E i \in 1..N : f[i] = c
  BY <1>6 DEF Surjection
<1>8. ASSUME NEW i \in 1..N PROVE Cardinality(KeysUpTo(S, k, k[f[i]])) = i
  <2> DEFINE T == {d \in S : k[d] <= k[f[i]]}
             g == [j \in 1..i |-> f[j]]
  <2>1. i \in Nat /\ 1..i \subseteq 1..N
    BY <1>1
  <2>2. \A j \in 1..i : f[j] \in T
    <3> SUFFICES ASSUME NEW j \in 1..i PROVE f[j] \in T
      OBVIOUS
    <3>1. j < i \/ j = i
      BY <1>1
    <3> QED
      BY <1>2, <2>1, <3>1
  <2>3. g \in [1..i -> T]
    BY <2>2
  <2>4. \A a, b \in 1..i : g[a] = g[b] => a = b
    BY <1>3, <2>1
  <2>5. ASSUME NEW d \in T PROVE \E j \in 1..i : g[j] = d
    <3>1. PICK j \in 1..N : f[j] = d
      BY <1>7
    <3>2. j <= i
      <4>1. j <= i \/ i < j
        BY <1>1
      <4>2. ~(i < j)
        BY <1>2, <3>1
      <4> QED
        BY <4>1, <4>2
    <3> QED
      BY <1>1, <3>1, <3>2
  <2>6. g \in Bijection(1..i, T)
    BY <2>3, <2>4, <2>5 DEF Bijection, Injection, IsInjective, Surjection
  <2>7. ExistsBijection(1..i, T)
    BY <2>6 DEF ExistsBijection
  <2> QED
    BY <2>1, <2>7, FS_CountingElements DEF KeysUpTo
<1> QED
  BY <1>7, <1>8

LEMMA ListedFinite ==
  ASSUME Listing!ListingAssumption, NEW rs, NEW q
  PROVE  /\ Listing!Listed(rs, q) \subseteq Companies /\ IsFiniteSet(Listing!Listed(rs, q))
         /\ Cardinality(Listing!Listed(rs, q)) \in Nat
<1>1. Listing!Listed(rs, q) \subseteq Companies
  BY DEF Listing!Listed
<1> QED
  BY <1>1, CompaniesFinite, FS_Subset, FS_CardinalityType

LEMMA KeysAreInts ==
  ASSUME Listing!ListingAssumption, NEW rs \in [Companies -> Listing!Row], NEW q,
         NEW c \in Companies
  PROVE  /\ rs[c].made \in Nat /\ MadeKey(rs, q, c) \in Int
         /\ rs[c].gone \in BOOLEAN /\ rs[c].active \in BOOLEAN /\ rs[c].owners \in 0..2
<1>1. rs[c] \in Listing!Row
  OBVIOUS
<1>2. rs[c].made \in Nat
  BY <1>1, CompaniesFinite DEF Listing!Row
<1> QED
  BY <1>1, <1>2 DEF Listing!Row, MadeKey

LEMMA PlacesBounded ==
  ASSUME Listing!ListingAssumption, NEW rs \in [Companies -> Listing!Row], NEW q,
         NEW c \in Listing!Listed(rs, q)
  PROVE  PlaceOf(rs, q, c) \in 1..Cardinality(Listing!Listed(rs, q))
<1>1. c \in Companies
  BY ListedFinite
<1>2. c \in UpTo(rs, q, c)
  BY <1>1, KeysAreInts DEF UpTo
<1>3. UpTo(rs, q, c) \subseteq Listing!Listed(rs, q)
  BY DEF UpTo
<1>4. /\ IsFiniteSet(UpTo(rs, q, c))
      /\ Cardinality(UpTo(rs, q, c)) <= Cardinality(Listing!Listed(rs, q))
  BY <1>3, ListedFinite, FS_Subset
<1>5. Cardinality(UpTo(rs, q, c)) \in Nat
  BY <1>4, FS_CardinalityType
<1>6. Cardinality(UpTo(rs, q, c)) # 0
  BY <1>2, <1>4, FS_EmptySet
<1> QED
  BY <1>4, <1>5, <1>6, ListedFinite DEF PlaceOf

\* The places of companies say in which order they come.
LEMMA PlacesTellOrder ==
  ASSUME Listing!ListingAssumption, NEW rs \in [Companies -> Listing!Row], NEW q,
         NEW c \in Listing!Listed(rs, q), NEW d \in Listing!Listed(rs, q),
         PlaceOf(rs, q, c) < PlaceOf(rs, q, d)
  PROVE  MadeKey(rs, q, c) < MadeKey(rs, q, d)
<1>1. /\ c \in Companies /\ d \in Companies
      /\ \A e \in Listing!Listed(rs, q) : e \in Companies /\ MadeKey(rs, q, e) \in Int
  BY ListedFinite, KeysAreInts
<1> SUFFICES ASSUME MadeKey(rs, q, d) <= MadeKey(rs, q, c) PROVE FALSE
  BY <1>1
<1>2. UpTo(rs, q, d) \subseteq UpTo(rs, q, c)
  BY <1>1 DEF UpTo
<1>3. UpTo(rs, q, c) \subseteq Listing!Listed(rs, q)
  BY DEF UpTo
<1>4. IsFiniteSet(UpTo(rs, q, c))
  BY <1>3, ListedFinite, FS_Subset
<1>5. PlaceOf(rs, q, d) <= PlaceOf(rs, q, c)
  BY <1>2, <1>4, FS_Subset DEF PlaceOf
<1> QED
  BY <1>5, PlacesBounded, ListedFinite

\* A list that only grows moves a company that is in it no further to the front.
LEMMA PlacesGrow ==
  ASSUME Listing!ListingAssumption, NEW rs \in [Companies -> Listing!Row],
         NEW new \in [Companies -> Listing!Row], NEW q,
         Listing!Listed(rs, q) \subseteq Listing!Listed(new, q),
         \A d \in Listing!Listed(rs, q) : new[d].made = rs[d].made,
         NEW c \in Listing!Listed(rs, q)
  PROVE  PlaceOf(rs, q, c) <= PlaceOf(new, q, c)
<1>1. \A d \in Listing!Listed(rs, q) : MadeKey(new, q, d) = MadeKey(rs, q, d)
  BY DEF MadeKey
<1>2. UpTo(rs, q, c) \subseteq UpTo(new, q, c)
  BY <1>1 DEF UpTo
<1>3. UpTo(new, q, c) \subseteq Listing!Listed(new, q)
  BY DEF UpTo
<1>4. IsFiniteSet(UpTo(new, q, c))
  BY <1>3, ListedFinite, FS_Subset
<1> QED
  BY <1>2, <1>4, FS_Subset DEF PlaceOf

\* No ties: no two companies of the list were made at one time, and none has two owners.
LEMMA WithoutTies ==
  ASSUME Listing!ListingAssumption, NEW rs \in [Companies -> Listing!Row], NEW q,
         ~Listing!Ties(rs, q)
  PROVE  /\ \A c, d \in Listing!Listed(rs, q) : rs[c].made = rs[d].made => c = d
         /\ \A c \in Listing!Listed(rs, q) : rs[c].owners \in 0..1
<1> DEFINE L == Listing!Listed(rs, q)
           T == {rs[c].made : c \in L}
           m == [c \in L |-> rs[c].made]
<1>1. \A c \in L : c \in Companies
  BY ListedFinite
<1>2. \A c \in L : rs[c].owners \in 0..1
  BY <1>1, KeysAreInts DEF Listing!Ties
<1>3. ~(Cardinality(T) < Cardinality(L))
  BY ListingFinite DEF Listing!Ties
<1>4. m \in Surjection(L, T)
  BY DEF Surjection
<1>5. IsFiniteSet(L) /\ Cardinality(L) \in Nat
  BY ListedFinite
<1>6. /\ IsFiniteSet(T) /\ Cardinality(T) <= Cardinality(L)
      /\ Cardinality(T) = Cardinality(L) <=> m \in Injection(L, T)
  BY <1>4, <1>5, FS_Surjection
<1>7. Cardinality(T) \in Nat
  BY <1>6, FS_CardinalityType
<1>8. m \in Injection(L, T)
  BY <1>3, <1>5, <1>6, <1>7
<1>9. \A c, d \in L : m[c] = m[d] => c = d
  BY <1>8 DEF Injection, IsInjective
<1> QED
  BY <1>2, <1>9

LEMMA RowsTyped ==
  ASSUME Listing!ListingAssumption, NEW rs, NEW q, NEW s \in Listing!Ordered(rs, q)
  PROVE  s \in Seq(Companies \X (1..2))
<1> DEFINE J == Listing!Joined(rs, q)
<1>1. J \subseteq Companies \X (1..2)
  BY ListedFinite DEF Listing!Joined
<1>2. IsFiniteSet(1..2)
  <2>1. PICK b \in Int : b = 2
    OBVIOUS
  <2>2. IsFiniteSet(1..b)
    BY FS_Interval
  <2> QED
    BY <2>1, <2>2
<1>3. IsFiniteSet(Companies \X (1..2))
  BY <1>2, CompaniesFinite, FS_Product
<1>4. Cardinality(J) \in Nat
  BY <1>1, <1>3, FS_Subset, FS_CardinalityType
<1>5. s \in [1..Cardinality(J) -> J]
  BY ListingFinite DEF Listing!Ordered, Listing!SetToSeqs
<1> QED
  BY <1>1, <1>4, <1>5

\* Without ties the rows of a query are the list's companies, each at its place.
LEMMA RowsInPlace ==
  ASSUME Listing!ListingAssumption, NEW rs \in [Companies -> Listing!Row], NEW q,
         q.newest \in BOOLEAN, ~Listing!Ties(rs, q), NEW s \in Listing!Ordered(rs, q)
  PROVE  /\ s \in Seq(Companies \X (1..2)) /\ Len(s) = Cardinality(Listing!Listed(rs, q))
         /\ \A c \in Listing!Listed(rs, q) : s[PlaceOf(rs, q, c)][1] = c
         /\ \A i \in 1..Len(s) : /\ s[i][1] \in Listing!Listed(rs, q)
                                 /\ PlaceOf(rs, q, s[i][1]) = i
<1> DEFINE L == Listing!Listed(rs, q)
           J == Listing!Joined(rs, q)
           N == Cardinality(L)
           b == [c \in L |-> <<c, 1>>]
           f == [i \in 1..N |-> s[i][1]]
           k == [c \in L |-> MadeKey(rs, q, c)]
<1>1. IsFiniteSet(L) /\ N \in Nat /\ L \subseteq Companies
  BY ListedFinite
<1>2. ASSUME NEW j PROVE j \in J <=> \E c \in L : j = <<c, 1>>
  <2>1. \A c \in L : rs[c].owners \in 0..1
    BY WithoutTies
  <2>2. \A c \in L : <<c, 1>> \in J
    BY DEF Listing!Joined
  <2>3. ASSUME j \in J PROVE \E c \in L : j = <<c, 1>>
    <3>1. PICK c \in L, o \in 1..2 : j = <<c, o>>
      BY <2>3 DEF Listing!Joined
    <3>2. o = 1 \/ o <= rs[c].owners
      BY <2>3, <3>1 DEF Listing!Joined
    <3>3. o = 1
      BY <2>1, <3>2
    <3> QED
      BY <3>1, <3>3
  <2> QED
    BY <2>2, <2>3
<1>3. b \in Bijection(L, J)
  <2>1. b \in [L -> J]
    BY <1>2
  <2>2. \A c, d \in L : b[c] = b[d] => c = d
    OBVIOUS
  <2>3. \A j \in J : \E c \in L : b[c] = j
    BY <1>2
  <2> QED
    BY <2>1, <2>2, <2>3 DEF Bijection, Injection, IsInjective, Surjection
<1>4. Cardinality(J) = N
  <2>1. ExistsBijection(L, J)
    BY <1>3 DEF ExistsBijection
  <2> QED
    BY <1>1, <2>1, FS_Bijection
<1>5. /\ s \in [1..N -> J] /\ \A i, j \in 1..N : i # j => s[i] # s[j]
      /\ DOMAIN s = 1..N
      /\ \A i, j \in DOMAIN s :
           i < j => IF q.newest THEN rs[s[i][1]].made >= rs[s[j][1]].made
                                ELSE rs[s[i][1]].made <= rs[s[j][1]].made
  BY <1>4, ListingFinite DEF Listing!Ordered, Listing!SetToSeqs
<1>6. \A i \in 1..N : s[i] = <<s[i][1], 1>> /\ s[i][1] \in L
  <2> SUFFICES ASSUME NEW i \in 1..N PROVE s[i] = <<s[i][1], 1>> /\ s[i][1] \in L
    OBVIOUS
  <2>1. s[i] \in J
    BY <1>5
  <2>2. PICK c \in L : s[i] = <<c, 1>>
    BY <1>2, <2>1
  <2> QED
    BY <2>2
<1>7. s \in Seq(Companies \X (1..2)) /\ Len(s) = N
  <2>1. \A i \in 1..N : s[i] \in Companies \X (1..2)
    BY <1>1, <1>6
  <2> QED
    BY <1>1, <1>5, <2>1
<1>8. f \in [1..N -> L] /\ k \in [L -> Int]
  BY <1>1, <1>6, KeysAreInts
<1>9. ASSUME NEW i \in 1..N, NEW j \in 1..N, i < j PROVE k[f[i]] < k[f[j]]
  <2>1. s[i][1] # s[j][1]
    <3>1. i # j
      BY <1>1, <1>9
    <3> QED
      BY <1>5, <1>6, <3>1
  <2>2. s[i][1] \in L /\ s[j][1] \in L
    BY <1>6
  <2>3. rs[s[i][1]].made # rs[s[j][1]].made
    BY <2>1, <2>2, WithoutTies
  <2>4. rs[s[i][1]].made \in Nat /\ rs[s[j][1]].made \in Nat
    BY <1>1, <2>2, KeysAreInts
  <2>5. IF q.newest THEN rs[s[i][1]].made >= rs[s[j][1]].made
                    ELSE rs[s[i][1]].made <= rs[s[j][1]].made
    BY <1>5, <1>9
  <2>6. MadeKey(rs, q, s[i][1]) < MadeKey(rs, q, s[j][1])
    BY <2>3, <2>4, <2>5 DEF MadeKey
  <2> QED
    BY <2>2, <2>6
<1>10. /\ \A c \in L : \E i \in 1..N : f[i] = c
       /\ \A i \in 1..N : Cardinality(KeysUpTo(L, k, k[f[i]])) = i
  <2>1. \A i, j \in 1..N : i < j => k[f[i]] < k[f[j]]
    BY <1>9
  <2> HIDE DEF k, f, L
  <2> QED
    BY <1>1, <1>8, <2>1, PlacesInOrder
<1>11. ASSUME NEW i \in 1..N PROVE PlaceOf(rs, q, s[i][1]) = i
  <2>1. KeysUpTo(L, k, k[f[i]]) = UpTo(rs, q, s[i][1])
    BY <1>6 DEF UpTo, KeysUpTo
  <2> QED
    BY <1>10, <2>1 DEF PlaceOf
<1>12. ASSUME NEW c \in L PROVE s[PlaceOf(rs, q, c)][1] = c
  <2>1. PICK i \in 1..N : f[i] = c
    BY <1>10
  <2> QED
    BY <1>11, <2>1
<1> QED
  BY <1>6, <1>7, <1>11, <1>12

----------------------------------------------------------------------------
LEMMA PageBounds ==
  ASSUME Listing!ListingAssumption, NEW q \in Listing!Query, NEW step \in Nat
  PROVE  /\ FirstRow(q, step) \in Nat /\ FirstRow(q, 0) = 0 /\ q.limit \in Nat \ {0}
         /\ FirstRow(q, step + 1) = FirstRow(q, step) + q.limit
         /\ Listing!Offset(q, step) = FirstRow(q, step)
<1>1. q.limit \in Nat \ {0}
  BY CompaniesFinite DEF Listing!Query
<1>2. (step + 1) - 1 = step
  OBVIOUS
<1>3. Listing!Offset(q, step) = FirstRow(q, step)
  BY <1>2 DEF Listing!Offset, FirstRow
<1> QED
  BY <1>1, <1>3 DEF FirstRow

LEMMA WalkKinds ==
  ASSUME Listing!TypeOK
  PROVE  /\ x2 = Listing!Idle \/ WalkOf(x2) \/ x2.pc = "done"
         /\ x2 = Listing!Idle => ~WalkOf(x2) /\ x2.pc # "done"
         /\ WalkOf(x2) => x2 = [pc |-> x2.pc, query |-> x2.query, step |-> x2.step]
         /\ WalkOf(x2) \/ x2.pc = "done" => x2.query \in Listing!Query /\ x2.step \in Nat
<1>1. \/ x2 = Listing!Idle
      \/ x2 \in [pc: {"rows", "done"}, query: Listing!Query, step: Nat]
      \/ x2 \in [pc: {"count"}, query: Listing!Query, step: Nat]
  BY DEF Listing!TypeOK
<1> QED
  BY <1>1 DEF Listing!Idle, WalkOf

LEMMA BeginKeepsList ==
  ASSUME Listing!ListingAssumption, ListingInv, NEW q \in Listing!Query, Listing!Begin(q)
  PROVE  ListingInv'
<1>1. /\ x2 = Listing!Idle /\ x2' = [pc |-> "rows", query |-> q, step |-> 0]
      /\ x4' = Listing!Listed(x1, q)
      /\ x5' = (IF Listing!Ties(x1, q) THEN {"tied"} ELSE {})
      /\ x1' = x1 /\ x3' = x3 /\ x6' = x6 /\ x3 = <<>>
  BY DEF Listing!Begin, ListingInv
<1>2. x5' \subseteq Listing!Excuses /\ ("tied" \notin x5' => ~Listing!Ties(x1, q))
  BY <1>1 DEF Listing!Excuses
<1>3. x4' \subseteq Companies
  BY <1>1, ListedFinite
<1>4. /\ x1 \in [Companies -> Listing!Row] /\ x3 \in Seq(Companies)
      /\ x6 \in 0..MaxListEdits
  BY DEF ListingInv, ListingTyped, Listing!TypeOK
<1>5. /\ x2'.pc = "rows" /\ x2'.query = q /\ x2'.step = 0 /\ WalkOf(x2')
      /\ x2' \in [pc: {"rows", "done"}, query: Listing!Query, step: Nat] /\ x2' # Listing!Idle
  BY <1>1 DEF WalkOf, Listing!Idle
<1>6. ListingTyped'
  BY <1>1, <1>2, <1>3, <1>4, <1>5 DEF ListingTyped, Listing!TypeOK
<1>7. ReadTo(x2') = 0
  BY <1>5, PageBounds DEF ReadTo
<1>8. \A c \in x4' : PlaceOf(x1, q, c) \in Nat /\ ~(PlaceOf(x1, q, c) <= 0)
  BY <1>1, <1>4, PlacesBounded, ListedFinite
<1>9. PassesNone(x1', x2', x3', x4', x5')
  BY <1>1, <1>5, <1>7, <1>8 DEF PassesNone
<1>10. ShowsInOrder(x1', x2', x3', x4', x5')
  <2>1. Len(x3') = 0 /\ Cardinality(x4') \in Nat
    BY <1>1, ListedFinite
  <2> QED
    BY <1>1, <1>5, <1>7, <2>1 DEF ShowsInOrder
<1>11. Listing!WalkMissesNothing'
  BY <1>5 DEF Listing!WalkMissesNothing
<1> QED
  BY <1>1, <1>2, <1>5, <1>6, <1>9, <1>10, <1>11 DEF ListingInv

LEMMA ReadPageKeeps ==
  ASSUME Listing!ListingAssumption, ListingInv, Listing!ReadRows
  PROVE  ListingInv'
<1> DEFINE q == x2.query
           L == Listing!Listed(x1, q)
           N == Cardinality(L)
           o == FirstRow(q, x2.step)
<1>1. PICK s \in Listing!Ordered(x1, q) :
        LET offset == Listing!Offset(q, x2.step)
            items == SubSeq(s, offset + 1, Listing!Min({offset + q.limit, Len(s)}))
        IN  x3' = x3 \o [i \in DOMAIN items |-> items[i][1]]
  BY DEF Listing!ReadRows
<1>2. /\ x2.pc = "rows" /\ x2' = [x2 EXCEPT !.pc = "count"]
      /\ x1' = x1 /\ x4' = x4 /\ x5' = x5 /\ x6' = x6
  BY DEF Listing!ReadRows
<1>3. /\ x1 \in [Companies -> Listing!Row] /\ x3 \in Seq(Companies) /\ x4 \subseteq Companies
      /\ x6 \in 0..MaxListEdits /\ x5 \subseteq Listing!Excuses
      /\ WalkOf(x2) /\ q \in Listing!Query /\ x2.step \in Nat
      /\ x2 = [pc |-> "rows", query |-> q, step |-> x2.step]
  BY <1>2, WalkKinds DEF ListingInv, ListingTyped, Listing!TypeOK, WalkOf
<1>4. x2' = [pc |-> "count", query |-> q, step |-> x2.step]
  BY <1>2, <1>3
<1>5. /\ o \in Nat /\ q.limit \in Nat \ {0} /\ FirstRow(q, x2.step + 1) = o + q.limit
      /\ Listing!Offset(q, x2.step) = o /\ q.newest \in BOOLEAN
      /\ ReadTo(x2) = o /\ ReadTo(x2') = o + q.limit
  <2>1. /\ o \in Nat /\ q.limit \in Nat \ {0} /\ FirstRow(q, x2.step + 1) = o + q.limit
        /\ Listing!Offset(q, x2.step) = o
    BY <1>3, PageBounds
  <2>2. ReadTo(x2) = o
    BY <1>2 DEF ReadTo
  <2>3. ReadTo(x2') = FirstRow(q, x2.step + 1)
    BY <1>4 DEF ReadTo
  <2> QED
    BY <1>3, <2>1, <2>2, <2>3 DEF Listing!Query
<1>6. N \in Nat /\ s \in Seq(Companies \X (1..2)) /\ Len(s) \in Nat
  BY ListedFinite, RowsTyped
<1> DEFINE hi == IF o + q.limit <= Len(s) THEN o + q.limit ELSE Len(s)
           items == SubSeq(s, o + 1, hi)
           page == [i \in DOMAIN items |-> items[i][1]]
           new == IF o < hi THEN hi - o ELSE 0
<1>7. hi \in Nat /\ hi <= Len(s) /\ new \in Nat /\ Listing!Min({o + q.limit, Len(s)}) = hi
  BY <1>5, <1>6 DEF Listing!Min
<1>8. /\ Len(items) = new /\ DOMAIN items = 1..new
      /\ \A i \in 1..new : items[i] = s[o + i] /\ o + i \in 1..Len(s)
  <2>1. \A a \in Nat, b \in Nat : b <= Len(s) =>
          LET n == IF a < b THEN b - a ELSE 0
              part1 == SubSeq(s, a + 1, b)
          IN  /\ Len(part1) = n /\ DOMAIN part1 = 1..n
              /\ \A i \in 1..n : part1[i] = s[a + i] /\ a + i \in 1..Len(s)
    BY <1>6
  <2> QED
    BY <1>5, <1>7, <2>1
<1>9. /\ page \in Seq(Companies) /\ Len(page) = new
      /\ \A i \in 1..new : page[i] = s[o + i][1]
  <2>1. \A i \in 1..Len(s) : s[i][1] \in Companies
    BY <1>6
  <2>2. page = [i \in 1..new |-> s[o + i][1]]
    BY <1>8
  <2>3. \A i \in 1..new : s[o + i][1] \in Companies
    BY <1>8, <2>1
  <2> HIDE DEF page, new
  <2> QED
    BY <1>7, <2>2, <2>3
<1>10. x3' = x3 \o page
  BY <1>1, <1>5, <1>7
<1>11. /\ x3' \in Seq(Companies) /\ Len(x3') = Len(x3) + new /\ Len(x3) \in Nat
       /\ \A i \in 1..Len(x3) : x3'[i] = x3[i]
       /\ \A i \in 1..new : x3'[Len(x3) + i] = s[o + i][1]
  <2> HIDE DEF page, new
  <2> QED
    BY <1>3, <1>7, <1>9, <1>10
<1> HIDE DEF o, hi, items, page, N, L
<1>12. ListingTyped'
  BY <1>2, <1>3, <1>4, <1>11 DEF ListingTyped, Listing!TypeOK
<1>13. WalkOf(x2') /\ x2'.pc = "count" /\ x2'.query = q /\ x2' # Listing!Idle
  BY <1>4 DEF WalkOf, Listing!Idle
<1>14. "tied" \notin x5 =>
         /\ ~Listing!Ties(x1, q)
         /\ Len(s) = N
         /\ \A c \in L : s[PlaceOf(x1, q, c)][1] = c /\ PlaceOf(x1, q, c) \in 1..N
         /\ \A i \in 1..N : s[i][1] \in L /\ PlaceOf(x1, q, s[i][1]) = i
  <2> SUFFICES ASSUME "tied" \notin x5 PROVE <1>14!2
    OBVIOUS
  <2>1. ~Listing!Ties(x1, q)
    BY <1>3 DEF ListingInv
  <2> QED
    BY <1>3, <1>5, <2>1, RowsInPlace, PlacesBounded DEF L, N
<1>15. PassesNone(x1', x2', x3', x4', x5')
  <2> SUFFICES ASSUME x5 \cap {"shrunk", "tied"} = {}
               PROVE  /\ x4 \subseteq L
                      /\ \A c \in x4 : PlaceOf(x1, q, c) <= o + q.limit =>
                           \E i \in 1..Len(x3') : x3'[i] = c
    BY <1>2, <1>5, <1>13 DEF PassesNone, L
  <2>1. /\ x4 \subseteq L
        /\ \A c \in x4 : PlaceOf(x1, q, c) <= o => \E i \in 1..Len(x3) : x3[i] = c
    BY <1>3, <1>5 DEF ListingInv, PassesNone, L
  <2>2. ASSUME NEW c \in x4, PlaceOf(x1, q, c) <= o + q.limit
        PROVE  \E i \in 1..Len(x3') : x3'[i] = c
    <3>1. PlaceOf(x1, q, c) \in 1..N /\ s[PlaceOf(x1, q, c)][1] = c /\ Len(s) = N
      BY <1>14, <2>1
    <3>2. CASE PlaceOf(x1, q, c) <= o
      <4>1. PICK i \in 1..Len(x3) : x3[i] = c
        BY <2>1, <3>2
      <4>2. i \in 1..Len(x3') /\ x3'[i] = c
        BY <1>7, <1>11, <4>1
      <4> QED
        BY <4>2
    <3>3. CASE ~(PlaceOf(x1, q, c) <= o)
      <4>1. PICK n \in Nat : n = PlaceOf(x1, q, c)
        BY <1>6, <3>1
      <4>2. n - o \in 1..new /\ o + (n - o) = n
        BY <1>5, <1>6, <1>7, <2>2, <3>1, <3>3, <4>1 DEF hi
      <4>3. x3'[Len(x3) + (n - o)] = c
        BY <1>11, <3>1, <4>1, <4>2
      <4>4. Len(x3) + (n - o) \in 1..Len(x3')
        BY <1>7, <1>11, <4>2
      <4> QED
        BY <4>3, <4>4
    <3> QED
      BY <3>2, <3>3
  <2> QED
    BY <2>1, <2>2
<1>16. ShowsInOrder(x1', x2', x3', x4', x5')
  <2> SUFFICES ASSUME x5 = {}
               PROVE  /\ x4 = L
                      /\ Len(x3') <= o + q.limit /\ Len(x3') <= N
                      /\ Len(x3') = o + q.limit \/ Len(x3') = N
                      /\ \A i \in 1..Len(x3') : x3'[i] \in L /\ PlaceOf(x1, q, x3'[i]) = i
    BY <1>2, <1>5, <1>13 DEF ShowsInOrder, L, N
  <2>1. /\ x4 = L /\ Len(x3) <= o /\ Len(x3) <= N /\ (Len(x3) = o \/ Len(x3) = N)
        /\ \A i \in 1..Len(x3) : x3[i] \in L /\ PlaceOf(x1, q, x3[i]) = i
    BY <1>3, <1>5 DEF ListingInv, ShowsInOrder, L, N
  <2>2. Len(s) = N /\ \A i \in 1..N : s[i][1] \in L /\ PlaceOf(x1, q, s[i][1]) = i
    BY <1>14
  <2>3. CASE ~(o < hi)
    <3>1. Len(x3) = N /\ Len(x3') = N
      BY <1>5, <1>6, <1>7, <1>11, <2>1, <2>2, <2>3 DEF hi
    <3> QED
      BY <1>5, <1>6, <1>11, <2>1, <3>1
  <2>4. CASE o < hi
    <3>1. Len(x3) = o /\ Len(x3') = hi /\ new = hi - o
      <4>1. hi <= N
        BY <1>7, <2>2
      <4>2. Len(x3) = o
        BY <1>5, <1>6, <1>7, <1>11, <2>1, <2>4, <4>1
      <4> QED
        BY <1>5, <1>7, <1>11, <2>4, <4>2
    <3>2. ASSUME NEW i \in 1..hi PROVE x3'[i] \in L /\ PlaceOf(x1, q, x3'[i]) = i
      <4>1. CASE i <= o
        BY <1>5, <1>7, <1>11, <2>1, <3>1, <4>1, SMTT(30)
      <4>2. CASE ~(i <= o)
        <5>1. i - o \in 1..new /\ o + (i - o) = i /\ i \in 1..N
          BY <1>5, <1>6, <1>7, <2>2, <3>1, <4>2
        <5>2. x3'[i] = s[i][1]
          BY <1>11, <3>1, <5>1
        <5> QED
          BY <2>2, <5>1, <5>2
      <4> QED
        BY <4>1, <4>2
    <3> QED
      BY <1>5, <1>6, <1>7, <2>1, <2>2, <3>1, <3>2 DEF hi
  <2> QED
    BY <2>3, <2>4
<1>17. Listing!WalkMissesNothing'
  BY <1>13 DEF Listing!WalkMissesNothing
<1> QED
  BY <1>2, <1>3, <1>12, <1>13, <1>15, <1>16, <1>17 DEF ListingInv

LEMMA ReadTotalKeeps ==
  ASSUME Listing!ListingAssumption, ListingInv, Listing!ReadTotal
  PROVE  ListingInv'
<1> DEFINE q == x2.query
           L == Listing!Listed(x1, q)
           N == Cardinality(L)
           o == FirstRow(q, x2.step + 1)
<1>1. /\ x2.pc = "count" /\ x1' = x1 /\ x3' = x3 /\ x4' = x4 /\ x5' = x5 /\ x6' = x6
      /\ x2' = IF o >= N THEN [x2 EXCEPT !.pc = "done"]
               ELSE [x2 EXCEPT !.pc = "rows", !.step = @ + 1]
  BY ListingFinite DEF Listing!ReadTotal, FirstRow
<1>2. /\ x1 \in [Companies -> Listing!Row] /\ x3 \in Seq(Companies) /\ x4 \subseteq Companies
      /\ x6 \in 0..MaxListEdits /\ x5 \subseteq Listing!Excuses
      /\ WalkOf(x2) /\ q \in Listing!Query /\ x2.step \in Nat
      /\ x2 = [pc |-> "count", query |-> q, step |-> x2.step]
  BY <1>1, WalkKinds DEF ListingInv, ListingTyped, Listing!TypeOK, WalkOf
<1>3. o \in Nat /\ N \in Nat /\ ReadTo(x2) = o /\ q.newest \in BOOLEAN
  <2>1. ReadTo(x2) = o
    BY <1>1 DEF ReadTo
  <2>2. x2.step + 1 \in Nat
    BY <1>2
  <2> QED
    BY <1>2, <2>1, <2>2, PageBounds, ListedFinite DEF Listing!Query
<1>4. x5 \cap {"shrunk", "tied"} = {} =>
        /\ x4 \subseteq L
        /\ \A c \in x4 : PlaceOf(x1, q, c) <= o => \E i \in 1..Len(x3) : x3[i] = c
  BY <1>2, <1>3 DEF ListingInv, PassesNone
<1>5. x5 = {} =>
        /\ x4 = L
        /\ Len(x3) <= o /\ Len(x3) <= N /\ (Len(x3) = o \/ Len(x3) = N)
        /\ \A i \in 1..Len(x3) : x3[i] \in L /\ PlaceOf(x1, q, x3[i]) = i
  BY <1>2, <1>3 DEF ListingInv, ShowsInOrder
<1>6. CASE ~(o >= N)
  <2>1. x2' = [pc |-> "rows", query |-> q, step |-> x2.step + 1]
    BY <1>1, <1>2, <1>6
  <2>2. /\ x2'.pc = "rows" /\ x2'.query = q /\ x2'.step = x2.step + 1 /\ WalkOf(x2')
        /\ x2' # Listing!Idle
        /\ x2' \in [pc: {"rows", "done"}, query: Listing!Query, step: Nat]
    BY <1>2, <2>1 DEF WalkOf, Listing!Idle
  <2>3. ReadTo(x2') = o
    BY <2>2 DEF ReadTo
  <2>4. ListingTyped'
    BY <1>1, <1>2, <2>2 DEF ListingTyped, Listing!TypeOK
  <2>5. PassesNone(x1', x2', x3', x4', x5')
    BY <1>1, <1>4, <2>2, <2>3 DEF PassesNone
  <2>6. ShowsInOrder(x1', x2', x3', x4', x5')
    BY <1>1, <1>5, <2>2, <2>3 DEF ShowsInOrder
  <2>7. Listing!WalkMissesNothing'
    BY <2>2 DEF Listing!WalkMissesNothing
  <2> QED
    BY <1>1, <1>2, <2>2, <2>4, <2>5, <2>6, <2>7 DEF ListingInv
<1>7. CASE o >= N
  <2>1. x2' = [pc |-> "done", query |-> q, step |-> x2.step]
    BY <1>1, <1>2, <1>7
  <2>2. /\ x2'.pc = "done" /\ x2'.query = q /\ ~WalkOf(x2') /\ x2' # Listing!Idle
        /\ x2' \in [pc: {"rows", "done"}, query: Listing!Query, step: Nat]
    BY <1>2, <2>1 DEF WalkOf, Listing!Idle
  <2>3. ListingTyped'
    BY <1>1, <1>2, <2>2 DEF ListingTyped, Listing!TypeOK
  <2>4. PassesNone(x1', x2', x3', x4', x5') /\ ShowsInOrder(x1', x2', x3', x4', x5')
    BY <2>2 DEF PassesNone, ShowsInOrder
  <2>5. DOMAIN x3 = 1..Len(x3) /\ Len(x3) \in Nat
    BY <1>2
  <2>6. x5 \cap {"shrunk", "tied"} = {} => x4 \subseteq {x3[i] : i \in DOMAIN x3}
    <3> SUFFICES ASSUME x5 \cap {"shrunk", "tied"} = {}, NEW c \in x4
                 PROVE  \E i \in DOMAIN x3 : x3[i] = c
      OBVIOUS
    <3>1. PlaceOf(x1, q, c) \in 1..N
      BY <1>2, <1>4, PlacesBounded
    <3>2. PlaceOf(x1, q, c) <= o
      BY <1>3, <1>7, <3>1
    <3> QED
      BY <1>4, <2>5, <3>2
  <2>7. ASSUME x5 = {} PROVE Len(x3) = Listing!Cardinality(x4)
    BY <1>3, <1>5, <1>7, <2>5, <2>7, ListingFinite
  <2>8. ASSUME x5 = {}, NEW i \in DOMAIN x3, NEW j \in DOMAIN x3, i < j
        PROVE  IF q.newest THEN x1[x3[i]].made > x1[x3[j]].made
                           ELSE x1[x3[i]].made < x1[x3[j]].made
    <3>1. x3[i] \in L /\ x3[j] \in L /\ PlaceOf(x1, q, x3[i]) < PlaceOf(x1, q, x3[j])
      BY <1>5, <2>5, <2>8
    <3>2. MadeKey(x1, q, x3[i]) < MadeKey(x1, q, x3[j])
      BY <1>2, <3>1, PlacesTellOrder
    <3>3. x1[x3[i]].made \in Nat /\ x1[x3[j]].made \in Nat
      BY <1>2, <3>1, ListedFinite, KeysAreInts
    <3> QED
      BY <1>3, <3>2, <3>3 DEF MadeKey
  <2>9. Listing!WalkMissesNothing'
    BY <1>1, <2>2, <2>6, <2>7, <2>8 DEF Listing!WalkMissesNothing
  <2> QED
    BY <1>1, <2>2, <2>3, <2>4, <2>9 DEF ListingInv
<1> QED
  BY <1>6, <1>7

\* A change of a company: the stamp of one that is in the list before and after stays.
LEMMA EditKeepsList ==
  ASSUME Listing!ListingAssumption, ListingInv, NEW c \in Companies, NEW row \in Listing!Row,
         Listing!Edit(c, row),
         \/ row.made = x1[c].made
         \/ c \notin Listing!Listed(x1, x2.query)
         \/ row.made = 0
  PROVE  ListingInv'
<1> DEFINE q == x2.query
           was == Listing!Listed(x1, q)
           is == Listing!Listed(x1', q)
<1>1. /\ WalkOf(x2) /\ x2' = x2 /\ x3' = x3 /\ x6 < MaxListEdits /\ x6' = x6 + 1
      /\ x1' = [x1 EXCEPT ![c] = row] /\ x4' = x4 \cap is
      /\ x5' = x5 \cup {"changed"} \cup (IF was \subseteq is THEN {} ELSE {"shrunk"})
                  \cup (IF Listing!Ties(x1', q) THEN {"tied"} ELSE {})
  BY DEF Listing!Edit, WalkOf
<1>2. /\ x1 \in [Companies -> Listing!Row] /\ x3 \in Seq(Companies) /\ x4 \subseteq Companies
      /\ x6 \in 0..MaxListEdits /\ x5 \subseteq Listing!Excuses /\ MaxListEdits \in Nat
      /\ x2 # Listing!Idle /\ x2.pc # "done"
  BY <1>1, WalkKinds, CompaniesFinite DEF ListingInv, ListingTyped, Listing!TypeOK, WalkOf
<1>3. x1' \in [Companies -> Listing!Row]
  BY <1>1, <1>2
<1>4. x5' \subseteq Listing!Excuses /\ x6' \in 0..MaxListEdits /\ x4' \subseteq Companies
  BY <1>1, <1>2 DEF Listing!Excuses
<1>5. ListingTyped'
  BY <1>1, <1>2, <1>3, <1>4 DEF ListingInv, ListingTyped, Listing!TypeOK
<1>6. /\ "tied" \notin x5' => ~Listing!Ties(x1', q)
      /\ x5' \cap {"shrunk", "tied"} = {} => x5 \cap {"shrunk", "tied"} = {} /\ was \subseteq is
      /\ x5' # {}
  BY <1>1
<1>7. PassesNone(x1', x2', x3', x4', x5')
  <2> SUFFICES ASSUME x5' \cap {"shrunk", "tied"} = {}, NEW e \in x4', 
                      PlaceOf(x1', q, e) <= ReadTo(x2)
               PROVE  \E i \in 1..Len(x3) : x3[i] = e
    BY <1>1 DEF PassesNone
  <2>1. /\ e \in was /\ was \subseteq is
        /\ PlaceOf(x1, q, e) <= ReadTo(x2) => \E i \in 1..Len(x3) : x3[i] = e
    BY <1>1, <1>6 DEF ListingInv, PassesNone
  <2>2. ASSUME NEW d \in was PROVE x1'[d].made = x1[d].made
    <3>1. d \in Companies /\ x1'[d].made # 0
      BY <2>1, <2>2 DEF Listing!Listed
    <3>2. CASE d # c
      BY <1>1, <1>2, <3>1, <3>2
    <3>3. CASE d = c
      BY <1>1, <1>2, <2>2, <3>1, <3>3
    <3> QED
      BY <3>2, <3>3
  <2>3. PlaceOf(x1, q, e) <= PlaceOf(x1', q, e)
    BY <1>2, <1>3, <2>1, <2>2, PlacesGrow
  <2>4. PlaceOf(x1, q, e) \in Nat /\ PlaceOf(x1', q, e) \in Nat /\ ReadTo(x2) \in Nat
    <3>1. PlaceOf(x1, q, e) \in 1..Cardinality(was) /\ PlaceOf(x1', q, e) \in 1..Cardinality(is)
      BY <1>2, <1>3, <2>1, PlacesBounded
    <3>2. x2.query \in Listing!Query /\ x2.step \in Nat /\ x2.step + 1 \in Nat
      BY <1>1, WalkKinds DEF ListingInv, ListingTyped
    <3>3. ReadTo(x2) \in Nat
      BY <3>2, PageBounds DEF ReadTo
    <3> QED
      BY <3>1, <3>3, ListedFinite
  <2> QED
    BY <2>1, <2>3, <2>4
<1>8. ShowsInOrder(x1', x2', x3', x4', x5')
  BY <1>6 DEF ShowsInOrder
<1>9. Listing!WalkMissesNothing'
  BY <1>1, <1>2 DEF Listing!WalkMissesNothing
<1> QED
  BY <1>1, <1>2, <1>5, <1>6, <1>7, <1>8, <1>9 DEF ListingInv

LEMMA EditsKeepList ==
  ASSUME Listing!ListingAssumption, ListingInv, NEW c \in Companies,
         \/ Listing!Create(c) \/ Listing!Switch(c) \/ Listing!RemoveCompany(c)
         \/ Listing!Restore(c) \/ Listing!RemoveForGood(c) \/ Listing!ChangeOwners(c)
  PROVE  ListingInv'
<1>1. x1 \in [Companies -> Listing!Row]
  BY DEF ListingInv, ListingTyped, Listing!TypeOK
<1>2. PICK r \in Listing!Row : r = x1[c]
  BY <1>1
<1>3. CASE Listing!Create(c)
  <2>1. PICK stamp \in Companies, active \in BOOLEAN :
          Listing!Edit(c, [made |-> stamp, gone |-> FALSE, active |-> active, owners |-> 1])
    BY <1>3 DEF Listing!Create
  <2>2. [made |-> stamp, gone |-> FALSE, active |-> active, owners |-> 1] \in Listing!Row
    BY DEF Listing!Row
  <2>3. c \notin Listing!Listed(x1, x2.query)
    BY <1>3 DEF Listing!Create, Listing!Listed
  <2> QED
    BY <2>1, <2>2, <2>3, EditKeepsList
<1>4. CASE Listing!Switch(c)
  <2>1. [r EXCEPT !.active = ~@] \in Listing!Row /\ [r EXCEPT !.active = ~@].made = r.made
    BY DEF Listing!Row
  <2> QED
    BY <1>2, <1>4, <2>1, EditKeepsList DEF Listing!Switch
<1>5. CASE Listing!RemoveCompany(c)
  <2>1. PICK r1 \in Listing!Row : r1 = [r EXCEPT !.gone = TRUE]
    BY DEF Listing!Row
  <2>2. r1.made = r.made
    BY <2>1 DEF Listing!Row
  <2>3. [r1 EXCEPT !.owners = 0] \in Listing!Row /\ [r1 EXCEPT !.owners = 0].made = r1.made
    BY DEF Listing!Row
  <2>4. PICK row : row = [r EXCEPT !.gone = TRUE, !.owners = 0]
    OBVIOUS
  <2>5. row = [[r EXCEPT !.gone = TRUE] EXCEPT !.owners = 0]
    BY <2>4
  <2>6. row \in Listing!Row /\ row.made = r.made
    BY <2>1, <2>2, <2>3, <2>5
  <2> QED
    BY <1>2, <1>5, <2>4, <2>6, EditKeepsList DEF Listing!RemoveCompany
<1>6. CASE Listing!Restore(c)
  <2>1. PICK r1 \in Listing!Row : r1 = [r EXCEPT !.gone = FALSE]
    BY DEF Listing!Row
  <2>2. r1.made = r.made
    BY <2>1 DEF Listing!Row
  <2>3. [r1 EXCEPT !.owners = 1] \in Listing!Row /\ [r1 EXCEPT !.owners = 1].made = r1.made
    BY DEF Listing!Row
  <2>4. PICK row : row = [r EXCEPT !.gone = FALSE, !.owners = 1]
    OBVIOUS
  <2>5. row = [[r EXCEPT !.gone = FALSE] EXCEPT !.owners = 1]
    BY <2>4
  <2>6. row \in Listing!Row /\ row.made = r.made
    BY <2>1, <2>2, <2>3, <2>5
  <2> QED
    BY <1>2, <1>6, <2>4, <2>6, EditKeepsList DEF Listing!Restore
<1>7. CASE Listing!RemoveForGood(c)
  <2>1. Listing!Absent \in Listing!Row /\ Listing!Absent.made = 0
    BY DEF Listing!Row, Listing!Absent
  <2> QED
    BY <1>7, <2>1, EditKeepsList DEF Listing!RemoveForGood
<1>8. CASE Listing!ChangeOwners(c)
  <2>1. PICK n \in 0..2 : Listing!Edit(c, [r EXCEPT !.owners = n])
    BY <1>2, <1>8 DEF Listing!ChangeOwners
  <2>2. [r EXCEPT !.owners = n] \in Listing!Row /\ [r EXCEPT !.owners = n].made = r.made
    BY DEF Listing!Row
  <2> QED
    BY <1>2, <2>1, <2>2, EditKeepsList
<1> QED
  BY <1>3, <1>4, <1>5, <1>6, <1>7, <1>8

LEMMA ListingStarts ==
  ASSUME Listing!ListingAssumption, Listing!Init
  PROVE  ListingInv
<1>1. /\ x2 = Listing!Idle /\ x3 = <<>> /\ x4 = {} /\ x5 = {} /\ x6 = 0
      /\ ~WalkOf(x2) /\ x2.pc # "done"
  BY DEF Listing!Init, Listing!Idle, WalkOf
<1>2. x1 \in [Companies -> Listing!Row]
  <2>1. PICK gone \in SUBSET Companies :
          x1 = [c \in Companies |->
                  IF c = Listing!Cardinality(Companies) THEN Listing!Absent
                  ELSE [made |-> c, gone |-> c \in gone, active |-> TRUE,
                        owners |-> IF c \in gone THEN 0 ELSE 1]]
    BY DEF Listing!Init
  <2>2. Listing!Absent \in Listing!Row
    BY DEF Listing!Row, Listing!Absent
  <2>3. ASSUME NEW c \in Companies
        PROVE  [made |-> c, gone |-> c \in gone, active |-> TRUE,
                owners |-> IF c \in gone THEN 0 ELSE 1] \in Listing!Row
    <3>1. (c \in gone) \in BOOLEAN /\ (IF c \in gone THEN 0 ELSE 1) \in 0..2
      BY DEF Listing!Row
    <3> QED
      BY <3>1 DEF Listing!Row
  <2> QED
    BY <2>1, <2>2, <2>3
<1>3. ListingTyped
  BY <1>1, <1>2, CompaniesFinite DEF ListingTyped, Listing!TypeOK
<1> QED
  BY <1>1, <1>3 DEF ListingInv, PassesNone, ShowsInOrder, Listing!WalkMissesNothing

LEMMA ListingSteps ==
  /\ Init => (part = "listing" => ListingInv)
  /\ (part = "listing" => ListingInv) /\ [Next]_<<part, slots>> =>
       (part = "listing" => ListingInv)'
<1>0. Listing!ListingAssumption
  BY ServicesAssumption DEF ServicesAssumption
<1>1. Init => (part = "listing" => ListingInv)
  BY <1>0, ListingStarts DEF Init
<1>2. ASSUME part = "listing" => ListingInv, [Next]_<<part, slots>>, part' = "listing"
      PROVE  ListingInv'
  <2>1. CASE RunListing
    <3>1. ListingInv /\ Listing!Next
      BY <1>2, <2>1 DEF RunListing
    <3> QED
      BY <1>0, <3>1, BeginKeepsList, ReadPageKeeps, ReadTotalKeeps, EditsKeepList DEF Listing!Next
  <2>2. CASE UNCHANGED <<part, slots>>
    <3>1. /\ ListingInv /\ x1' = x1 /\ x2' = x2 /\ x3' = x3 /\ x4' = x4 /\ x5' = x5 /\ x6' = x6
      BY <1>2, <2>2 DEF slots
    <3> QED
      BY <3>1 DEF ListingInv, ListingTyped, Listing!TypeOK, Listing!WalkMissesNothing
  <2> QED
    BY <1>2, <2>1, <2>2 DEF Next, RunControls, RunRecords, RunMigrations, RunPolling,
                      RunCookies, RunRoles, RunCatalog, RunCrons, RunMusic
<1> QED
  BY <1>1, <1>2

\* executeListQuery: however a list grows while a client walks through its pages, the walk
\* misses no company that was in it all the time, unless one left it or two rows had one
\* stamp; and a list that stands still is shown once and in order.
THEOREM WalksMissNothing == Spec => []ListsMissNothing
<1>1. (part = "listing" => ListingInv) => ListsMissNothing
  BY DEF ListsMissNothing, ListingInv
<1> QED
  BY <1>1, ListingSteps, PTL DEF Spec

----------------------------------------------------------------------------
(* Migrations *)

\* Of a finite set that is not empty one has the greatest key.
LEMMA GreatestByKey ==
  ASSUME NEW S, IsFiniteSet(S), S # {}, NEW k \in [S -> Int]
  PROVE  \E c \in S : \A d \in S : k[d] <= k[c]
<1> DEFINE Bad == {T \in SUBSET S : T # {} /\ ~ \E c \in T : \A d \in T : k[d] <= k[c]}
<1> SUFFICES ASSUME Bad # {} PROVE FALSE
  OBVIOUS
<1>1. \E T \in Bad : \A U \in Bad : <<U, T>> \notin StrictSubsetOrdering(S)
  <2>1. IsWellFoundedOn(StrictSubsetOrdering(S), FiniteSubsetsOf(S))
    BY FS_StrictSubsetOrderingWellFounded
  <2>2. Bad \subseteq FiniteSubsetsOf(S)
    BY FS_FiniteSubsetsOfFinite
  <2> HIDE DEF Bad
  <2> QED
    BY <2>1, <2>2, WFMin
<1>2. PICK T \in Bad : \A U \in Bad : <<U, T>> \notin StrictSubsetOrdering(S)
  BY <1>1
<1>3. PICK c \in T : TRUE
  OBVIOUS
<1> DEFINE U == T \ {c}
<1>4. U \in SUBSET S /\ <<U, T>> \in StrictSubsetOrdering(S)
  BY <1>3 DEF StrictSubsetOrdering
<1>5. U \notin Bad
  BY <1>2, <1>4
<1>6. \A d \in T : k[d] \in Int
  OBVIOUS
<1>7. CASE U = {}
  BY <1>3, <1>6, <1>7
<1>8. CASE U # {}
  <2>1. PICK e \in U : \A d \in U : k[d] <= k[e]
    BY <1>4, <1>5, <1>8
  <2>2. CASE k[c] <= k[e]
    BY <1>3, <1>6, <2>1, <2>2
  <2>3. CASE ~(k[c] <= k[e])
    BY <1>3, <1>6, <2>1, <2>3
  <2> QED
    BY <2>2, <2>3
<1> QED
  BY <1>7, <1>8

\* Two lists that begin alike and go on alike are alike.
LEMMA AlikeThroughout ==
  ASSUME NEW n \in Nat, NEW f, NEW g, f[0] = g[0],
         \A i \in 1..n : f[i - 1] = g[i - 1] => f[i] = g[i]
  PROVE  f[n] = g[n]
<1> DEFINE Bad == {i \in 0..n : f[i] # g[i]}
           k == [i \in Bad |-> -i]
<1> SUFFICES ASSUME Bad # {} PROVE FALSE
  OBVIOUS
<1>1. IsFiniteSet(Bad)
  <2>1. IsFiniteSet(0..n)
    BY FS_Interval
  <2> QED
    BY <2>1, FS_Subset
<1>2. k \in [Bad -> Int]
  OBVIOUS
<1>3. PICK c \in Bad : \A d \in Bad : k[d] <= k[c]
  <2> HIDE DEF Bad, k
  <2> QED
    BY <1>1, <1>2, GreatestByKey
<1>4. \A d \in Bad : d \in Nat /\ c <= d
  BY <1>3
<1>5. c \in 1..n
  <2>1. c # 0
    OBVIOUS
  <2> QED
    BY <2>1
<1>6. c - 1 \in 0..n /\ c - 1 \notin Bad
  BY <1>4, <1>5
<1> QED
  BY <1>5, <1>6

LEMMA JournalKnown ==
  ASSUME Migrations!MigrationsAssumption
  PROVE  /\ Len(Journal) \in Nat /\ Migrations!Steps = 1..Len(Journal) /\ MaxCrashes \in Nat
         /\ Journal = <<>> \/ 1 \in Migrations!Steps
         /\ \A m \in Migrations!Steps :
              /\ StampOf(m) \in Nat \ {0} /\ LastStatement(m) \in Nat
              /\ \A i \in 1..LastStatement(m) :
                   /\ Migrations!Statement(m, i).op \in Migrations!Ops
                   /\ Migrations!Statement(m, i).on \in Objects
         /\ \A l \in Legacy : l \in MigrationDbs
<1> DEFINE Entry == [stamp: Nat \ {0}, body: Seq([op: Migrations!Ops, on: Objects])]
<1>1. Journal \in Seq(Entry) /\ MaxCrashes \in Nat /\ \A l \in Legacy : l \in MigrationDbs
  BY DEF Migrations!MigrationsAssumption, MigrationDbs
<1>2. Len(Journal) \in Nat /\ Migrations!Steps = 1..Len(Journal)
  BY <1>1 DEF Migrations!Steps
<1>3. Journal = <<>> \/ 1 \in Migrations!Steps
  BY <1>1, <1>2
<1>4. ASSUME NEW m \in Migrations!Steps
      PROVE  /\ StampOf(m) \in Nat \ {0} /\ LastStatement(m) \in Nat
             /\ \A i \in 1..LastStatement(m) :
                  /\ Migrations!Statement(m, i).op \in Migrations!Ops
                  /\ Migrations!Statement(m, i).on \in Objects
  <2>1. Journal[m] \in Entry
    <3> HIDE DEF Entry
    <3> QED
      BY <1>1, <1>2
  <2>2. Journal[m].stamp \in Nat \ {0} /\ Journal[m].body \in Seq([op: Migrations!Ops, on: Objects])
    BY <2>1
  <2>3. \A i \in 1..Len(Journal[m].body) : Journal[m].body[i] \in [op: Migrations!Ops, on: Objects]
    <3> DEFINE Sentence == [op: Migrations!Ops, on: Objects]
    <3>1. Journal[m].body \in Seq(Sentence)
      BY <2>2
    <3> HIDE DEF Sentence
    <3>2. \A i \in 1..Len(Journal[m].body) : Journal[m].body[i] \in Sentence
      BY <3>1
    <3> QED
      BY <3>2 DEF Sentence
  <2> QED
    BY <2>2, <2>3 DEF StampOf, LastStatement, Migrations!Statement
<1> QED
  BY <1>1, <1>2, <1>3, <1>4

LEMMA EffectTyped ==
  ASSUME NEW db \in MigrationDbs, NEW s, s.op \in Migrations!Ops, s.on \in Objects
  PROVE  Migrations!Effect(db, s) \in MigrationDbs
<1>1. db[s.on] \in Nat \cup {Migrations!Absent}
  BY DEF MigrationDbs, Migrations!Value
<1>2. Migrations!Changed(db[s.on], s.op) \in Migrations!Value
  BY <1>1 DEF Migrations!Changed, Migrations!Value, Migrations!Ops, Migrations!Absent
<1> QED
  BY <1>2 DEF Migrations!Effect, MigrationDbs

LEMMA AfterIsMade ==
  ASSUME Migrations!MigrationsAssumption, NEW m \in Migrations!Steps, NEW db, NEW made,
         MadeBy(made, db, m, LastStatement(m))
  PROVE  Migrations!After(db, m) = made[LastStatement(m)]
<1> DEFINE n == LastStatement(m)
           F == CHOOSE f : f = [i \in 0..n |->
                  IF i = 0 THEN db ELSE Migrations!Effect(f[i - 1], Migrations!Statement(m, i))]
<1>1. n \in Nat
  BY JournalKnown
<1>2. Migrations!After(db, m) = F[n]
  BY DEF Migrations!After, LastStatement
<1>3. made = [i \in 0..n |->
        IF i = 0 THEN db ELSE Migrations!Effect(made[i - 1], Migrations!Statement(m, i))]
  BY <1>1 DEF MadeBy
<1>4. F = [i \in 0..n |->
        IF i = 0 THEN db ELSE Migrations!Effect(F[i - 1], Migrations!Statement(m, i))]
  BY <1>3
<1> HIDE DEF F
<1>5. F[0] = made[0] /\ \A i \in 1..n : F[i - 1] = made[i - 1] => F[i] = made[i]
  BY <1>1, <1>4 DEF MadeBy
<1>6. F[n] = made[n]
  BY <1>1, <1>5, AlikeThroughout
<1> QED
  BY <1>2, <1>6

LEMMA ReplayIs ==
  ASSUME Migrations!MigrationsAssumption, NEW upTo, Replays(upTo, x2, x6, x5)
  PROVE  Migrations!Replay = upTo[Len(Journal)]
<1> DEFINE n == Len(Journal)
           F == CHOOSE f : f = [m \in 0..n |->
                  IF m = 0 THEN x5
                  ELSE IF m \notin x2 \/ (m = 1 /\ x6) THEN f[m - 1]
                  ELSE Migrations!After(f[m - 1], m)]
<1>1. n \in Nat
  BY JournalKnown
<1>2. Migrations!Replay = F[n]
  BY DEF Migrations!Replay
<1>3. upTo = [m \in 0..n |->
        IF m = 0 THEN x5
        ELSE IF m \notin x2 \/ (m = 1 /\ x6) THEN upTo[m - 1]
        ELSE Migrations!After(upTo[m - 1], m)]
  BY <1>1 DEF Replays, Skipped
<1>4. F = [m \in 0..n |->
        IF m = 0 THEN x5
        ELSE IF m \notin x2 \/ (m = 1 /\ x6) THEN F[m - 1]
        ELSE Migrations!After(F[m - 1], m)]
  BY <1>3
<1> HIDE DEF F
<1>5. F[0] = upTo[0] /\ \A i \in 1..n : F[i - 1] = upTo[i - 1] => F[i] = upTo[i]
  BY <1>1, <1>4, SMTT(30) DEF Replays, Skipped
<1>6. F[n] = upTo[n]
  BY <1>1, <1>5, AlikeThroughout
<1> QED
  BY <1>2, <1>6

----------------------------------------------------------------------------
LEMMA MigrationRuns ==
  ASSUME NEW c \in MigrationRun
  PROVE  /\ c.pc \in {"idle", "done", "failed", "last", "tables", "baseline", "next", "body"}
         /\ c.pc \in {"last", "tables", "baseline"} =>
              c = [pc |-> c.pc, applied |-> c.applied] /\ c.applied \subseteq Migrations!Steps
         /\ c.pc = "next" =>
              /\ c = [pc |-> "next", applied |-> c.applied, last |-> c.last, at |-> c.at]
              /\ c.applied \subseteq Migrations!Steps /\ c.last \in Nat /\ c.at \in Nat \ {0}
         /\ c.pc = "body" =>
              /\ c = [pc |-> "body", applied |-> c.applied, last |-> c.last, at |-> c.at,
                      i |-> c.i, tx |-> c.tx]
              /\ c.applied \subseteq Migrations!Steps /\ c.last \in Nat
              /\ c.at \in Migrations!Steps /\ c.i \in Nat \ {0}
              /\ DOMAIN c.tx \subseteq Objects /\ \A o \in DOMAIN c.tx : c.tx[o] \in Migrations!Value
<1>1. CASE c \in [pc: {"idle", "done", "failed"}]
  BY <1>1
<1>2. CASE c \in [pc: {"last"}, applied: SUBSET Migrations!Steps]
  BY <1>2
<1>3. CASE c \in [pc: {"tables", "baseline"}, applied: SUBSET Migrations!Steps]
  BY <1>3
<1>4. CASE c \in [pc: {"next"}, applied: SUBSET Migrations!Steps, last: Nat, at: Nat \ {0}]
  BY <1>4
<1>5. CASE c \in [pc: {"body"}, applied: SUBSET Migrations!Steps, last: Nat,
                  at: Migrations!Steps, i: Nat \ {0},
                  tx: UNION {[touched -> Migrations!Value] : touched \in SUBSET Objects}]
  <2>1. PICK touched \in SUBSET Objects : c.tx \in [touched -> Migrations!Value]
    BY <1>5
  <2>2. DOMAIN c.tx \subseteq Objects /\ \A o \in DOMAIN c.tx : c.tx[o] \in Migrations!Value
    BY <2>1
  <2>3. /\ c = [pc |-> "body", applied |-> c.applied, last |-> c.last, at |-> c.at,
                i |-> c.i, tx |-> c.tx]
        /\ c.pc = "body" /\ c.applied \subseteq Migrations!Steps /\ c.last \in Nat
        /\ c.at \in Migrations!Steps /\ c.i \in Nat \ {0}
    BY <1>5
  <2> QED
    BY <2>2, <2>3
<1> QED
  BY <1>1, <1>2, <1>3, <1>4, <1>5 DEF MigrationRun

\* A run that has ended well stays so.
LEMMA EndedRunKnows ==
  ASSUME NEW c \in MigrationRun, ~RunsFrom(c), NEW rec, NEW more, rec \subseteq more,
         NEW db, NEW new, RunKnows(c, rec, db)
  PROVE  RunKnows(c, more, new)
<1>1. c.pc \in {"idle", "done", "failed"}
  BY MigrationRuns DEF RunsFrom
<1>2. ASSUME c.pc = "done", NEW m \in Migrations!Steps \ more PROVE Shadowed(m, more)
  <2>1. Shadowed(m, rec)
    BY <1>2 DEF RunKnows
  <2> QED
    BY <2>1 DEF Shadowed
<1> QED
  BY <1>1, <1>2 DEF RunKnows

\* A step of one run, while the others have ended.
LEMMA RunMoves ==
  ASSUME NEW r \in Actors, NEW c \in MigrationRun, MigrationsTyped, ~x7, Undisturbed,
         RunsFrom(x3[r]), x3' = [x3 EXCEPT ![r] = c], x2 \subseteq x2', RunKnows(c, x2', x1'),
         NoneSkipped(x2'), x6' => 1 \in x2', ReplayStands(x2', x6', x5', x1')
  PROVE  Undisturbed'
<1>1. x3 \in [Actors -> MigrationRun]
  BY DEF MigrationsTyped, MigrationTypes
<1>2. \A q \in Actors \ {r} : x3'[q] = x3[q] /\ ~RunsFrom(x3[q])
  BY <1>1 DEF Undisturbed, OneMigrates
<1>3. x3'[r] = c
  BY <1>1
<1>4. OneMigrates'
  BY <1>2 DEF OneMigrates
<1>5. ASSUME NEW q \in Actors PROVE RunKnows(x3'[q], x2', x1')
  <2>1. CASE q = r
    BY <1>3, <2>1
  <2>2. CASE q # r
    BY <1>1, <1>2, <2>2, EndedRunKnows DEF Undisturbed
  <2> QED
    BY <2>1, <2>2
<1> QED
  BY <1>4, <1>5 DEF Undisturbed

LEMMA MigrationsPassBy ==
  ASSUME MigrationsInv, UNCHANGED <<x1, x2, x3, x4, x5, x6, x7>>
  PROVE  MigrationsInv'
<1>1. x1' = x1 /\ x2' = x2 /\ x3' = x3 /\ x4' = x4 /\ x5' = x5 /\ x6' = x6 /\ x7' = x7
  OBVIOUS
<1> QED
  BY <1>1 DEF MigrationsInv, MigrationsTyped, MigrationTypes, Undisturbed, OneMigrates

LEMMA BeginMigrates ==
  ASSUME Migrations!MigrationsAssumption, MigrationsInv, NEW r \in Actors, Migrations!Begin(r)
  PROVE  MigrationsInv'
<1> DEFINE c == [pc |-> "last", applied |-> x2]
<1>1. /\ ~RunsFrom(x3[r]) /\ x3' = [x3 EXCEPT ![r] = c]
      /\ x7' = (x7 \/ \E q \in Actors : RunsFrom(x3[q]))
      /\ x1' = x1 /\ x2' = x2 /\ x4' = x4 /\ x5' = x5 /\ x6' = x6
  BY DEF Migrations!Begin, Migrations!Move, Migrations!Keep, Migrations!UnderWay, RunsFrom
<1>2. /\ x3 \in [Actors -> MigrationRun] /\ x2 \subseteq Migrations!Steps /\ x7 \in BOOLEAN
      /\ MigrationsTyped
  BY DEF MigrationsInv, MigrationsTyped, MigrationTypes
<1>3. c \in MigrationRun
  BY <1>2 DEF MigrationRun
<1>4. x3' \in [Actors -> MigrationRun] /\ x3'[r] = c /\ \A q \in Actors \ {r} : x3'[q] = x3[q]
  BY <1>1, <1>2, <1>3
<1>5. MigrationsTyped'
  <2>1. \A q \in Actors : x3'[q].pc \in {"tables", "baseline"} => Journal # <<>>
    BY <1>2, <1>4 DEF MigrationsTyped
  <2> QED
    BY <1>1, <1>2, <1>4, <2>1 DEF MigrationsTyped, MigrationTypes
<1>6. ASSUME ~x7' PROVE Undisturbed'
  <2>1. Undisturbed /\ \A q \in Actors : ~RunsFrom(x3[q])
    BY <1>1, <1>6 DEF MigrationsInv
  <2>2. RunKnows(c, x2, x1)
    BY DEF RunKnows
  <2>3. \A q \in Actors : RunKnows(x3'[q], x2, x1)
    BY <1>4, <2>1, <2>2 DEF Undisturbed
  <2>4. OneMigrates'
    BY <1>4, <2>1 DEF OneMigrates
  <2> QED
    BY <1>1, <2>1, <2>3, <2>4 DEF Undisturbed
<1> QED
  BY <1>5, <1>6 DEF MigrationsInv

\* A step of a run that writes nothing.
LEMMA ReadMigrates ==
  ASSUME MigrationsInv, NEW r \in Actors, NEW c \in MigrationRun, RunsFrom(x3[r]),
         x3' = [x3 EXCEPT ![r] = c], x4' \in 0..MaxCrashes,
         UNCHANGED <<x1, x2, x5, x6, x7>>, ~x7 => RunKnows(c, x2, x1),
         c.pc \in {"tables", "baseline"} => Journal # <<>>
  PROVE  MigrationsInv'
<1>1. x1' = x1 /\ x2' = x2 /\ x5' = x5 /\ x6' = x6 /\ x7' = x7
  OBVIOUS
<1>2. MigrationsTyped'
  <2>1. \A q \in Actors : x3'[q] = IF q = r THEN c ELSE x3[q]
    BY DEF MigrationsInv, MigrationsTyped, MigrationTypes
  <2> QED
    BY <1>1, <2>1 DEF MigrationsInv, MigrationsTyped, MigrationTypes
<1>3. ASSUME ~x7 PROVE Undisturbed'
  <2>1. MigrationsTyped /\ Undisturbed /\ RunKnows(c, x2', x1') /\ x2 \subseteq x2'
    BY <1>1, <1>3 DEF MigrationsInv
  <2>2. NoneSkipped(x2') /\ (x6' => 1 \in x2') /\ ReplayStands(x2', x6', x5', x1')
    BY <1>1, <2>1 DEF Undisturbed
  <2> QED
    BY <1>3, <2>1, <2>2, RunMoves
<1> QED
  BY <1>1, <1>2, <1>3 DEF MigrationsInv

LEMMA NewestStamp ==
  ASSUME Migrations!MigrationsAssumption, NEW S \in SUBSET Migrations!Steps
  PROVE  IsNewest(Migrations!Newest(S), S) /\ Migrations!Newest(S) \in Nat
<1>1. CASE S = {}
  BY <1>1 DEF IsNewest, Migrations!Newest
<1>2. CASE S # {}
  <2> DEFINE k == [m \in S |-> StampOf(m)]
             Stamps == {Journal[m].stamp : m \in S}
  <2>1. IsFiniteSet(S)
    <3>1. IsFiniteSet(1..Len(Journal))
      BY JournalKnown, FS_Interval
    <3> QED
      BY <3>1, JournalKnown, FS_Subset
  <2>2. \A m \in S : StampOf(m) \in Nat
    BY JournalKnown
  <2>3. k \in [S -> Int]
    BY <2>2
  <2>4. PICK m \in S : \A d \in S : k[d] <= k[m]
    <3> HIDE DEF k
    <3> QED
      BY <1>2, <2>1, <2>3, GreatestByKey
  <2>5. \E t \in Stamps : \A d \in S : Journal[d].stamp <= t
    BY <2>4 DEF StampOf
  <2>6. /\ Migrations!Newest(S) \in Stamps
        /\ \A d \in S : Journal[d].stamp <= Migrations!Newest(S)
    BY <1>2, <2>5 DEF Migrations!Newest
  <2> QED
    BY <1>2, <2>2, <2>6 DEF IsNewest, StampOf
<1> QED
  BY <1>1, <1>2

LEMMA LoopKnows ==
  ASSUME Migrations!MigrationsAssumption, NEW rec \in SUBSET Migrations!Steps, NEW db,
         NEW last \in Nat, IsNewest(last, rec)
  PROVE  /\ Migrations!Loop(rec, last) \in MigrationRun
         /\ RunKnows(Migrations!Loop(rec, last), rec, db)
<1> DEFINE c == Migrations!Loop(rec, last)
<1>1. c \in MigrationRun
  BY DEF MigrationRun, Migrations!Loop
<1>2. c.pc = "next" /\ c.applied = rec /\ c.last = last /\ c.at = 1
  BY DEF Migrations!Loop
<1>3. 1 \in 1..Len(Journal) + 1 /\ \A m \in Migrations!Steps : ~(m < 1)
  BY JournalKnown
<1> HIDE DEF c
<1>4. RunKnows(c, rec, db)
  BY <1>2, <1>3 DEF RunKnows
<1> QED
  BY <1>1, <1>4 DEF c

LEMMA ReadLastMigrates ==
  ASSUME Migrations!MigrationsAssumption, MigrationsInv, NEW r \in Actors, Migrations!ReadLast(r)
  PROVE  MigrationsInv'
<1> DEFINE a == x3[r].applied
<1>1. /\ x3[r] \in MigrationRun /\ x2 \subseteq Migrations!Steps /\ x4 \in 0..MaxCrashes
      /\ x3[r].pc = "last"
  BY DEF MigrationsInv, MigrationsTyped, MigrationTypes, Migrations!ReadLast
<1>2. /\ UNCHANGED <<x1, x2, x5, x6, x7>> /\ x4' = x4 /\ RunsFrom(x3[r])
      /\ a \subseteq Migrations!Steps
  BY <1>1, MigrationRuns DEF Migrations!ReadLast, Migrations!Keep, RunsFrom
<1>3. ~x7 => a = x2
  BY <1>1 DEF MigrationsInv, Undisturbed, RunKnows
<1>4. PICK c : /\ x3' = [x3 EXCEPT ![r] = c]
               /\ \/ /\ x2 # {}
                     /\ \E m \in x2 : c = Migrations!Loop(a \cup {m}, Migrations!Newest(x2))
                  \/ x2 = {} /\ c = Migrations!Loop(a, 0)
                  \/ x2 = {} /\ Journal # <<>> /\ c = [x3[r] EXCEPT !.pc = "tables"]
  BY DEF Migrations!ReadLast, Migrations!Move
<1>5. CASE x2 # {}
  <2>1. PICK m \in x2 : c = Migrations!Loop(a \cup {m}, Migrations!Newest(x2))
    BY <1>4, <1>5
  <2>2. IsNewest(Migrations!Newest(x2), x2) /\ Migrations!Newest(x2) \in Nat
    BY <1>1, NewestStamp
  <2>3. c \in MigrationRun
    BY <1>1, <1>2, <2>1, <2>2 DEF MigrationRun, Migrations!Loop
  <2>4. ~x7 => RunKnows(c, x2, x1)
    <3>1. ~x7 => a \cup {m} = x2
      BY <1>3
    <3> QED
      BY <1>1, <2>1, <2>2, <3>1, LoopKnows
  <2>5. c.pc = "next"
    BY <2>1 DEF Migrations!Loop
  <2> QED
    BY <1>1, <1>2, <1>4, <2>3, <2>4, <2>5, ReadMigrates
<1>6. CASE x2 = {} /\ c = Migrations!Loop(a, 0)
  <2>1. IsNewest(0, x2)
    BY <1>6 DEF IsNewest
  <2>2. c \in MigrationRun
    BY <1>2, <1>6 DEF MigrationRun, Migrations!Loop
  <2>3. ~x7 => RunKnows(c, x2, x1)
    BY <1>1, <1>3, <1>6, <2>1, LoopKnows
  <2>4. c.pc = "next"
    BY <1>6 DEF Migrations!Loop
  <2> QED
    BY <1>1, <1>2, <1>4, <2>2, <2>3, <2>4, ReadMigrates
<1>7. CASE x2 = {} /\ Journal # <<>> /\ c = [x3[r] EXCEPT !.pc = "tables"]
  <2>1. c = [pc |-> "tables", applied |-> a]
    BY <1>1, <1>7, MigrationRuns
  <2>2. c \in MigrationRun
    BY <1>2, <2>1 DEF MigrationRun
  <2>3. ~x7 => RunKnows(c, x2, x1)
    BY <1>3, <1>7, <2>1, JournalKnown DEF RunKnows
  <2> QED
    BY <1>1, <1>2, <1>4, <1>7, <2>2, <2>3, ReadMigrates
<1> QED
  BY <1>4, <1>5, <1>6, <1>7

LEMMA ReadTablesMigrates ==
  ASSUME Migrations!MigrationsAssumption, MigrationsInv, NEW r \in Actors, Migrations!ReadTables(r)
  PROVE  MigrationsInv'
<1> DEFINE a == x3[r].applied
<1>1. /\ x3[r] \in MigrationRun /\ x2 \subseteq Migrations!Steps /\ x4 \in 0..MaxCrashes
      /\ x3[r].pc = "tables" /\ Journal # <<>>
  BY DEF MigrationsInv, MigrationsTyped, MigrationTypes, Migrations!ReadTables
<1>2. /\ UNCHANGED <<x1, x2, x5, x6, x7>> /\ x4' = x4 /\ RunsFrom(x3[r])
      /\ a \subseteq Migrations!Steps
  BY <1>1, MigrationRuns DEF Migrations!ReadTables, Migrations!Keep, RunsFrom
<1>3. ~x7 => a = x2 /\ x2 = {} /\ 1 \in Migrations!Steps
  BY <1>1 DEF MigrationsInv, Undisturbed, RunKnows
<1>4. PICK c : /\ x3' = [x3 EXCEPT ![r] = c]
               /\ c = Migrations!Loop(a, 0) \/ c = [x3[r] EXCEPT !.pc = "baseline"]
  BY DEF Migrations!ReadTables, Migrations!Move
<1>5. CASE c = Migrations!Loop(a, 0)
  <2>1. c \in MigrationRun
    BY <1>2, <1>5 DEF MigrationRun, Migrations!Loop
  <2>2. ~x7 => RunKnows(c, x2, x1)
    <3>1. x2 = {} => IsNewest(0, x2)
      BY DEF IsNewest
    <3> QED
      BY <1>1, <1>3, <1>5, <3>1, LoopKnows
  <2>3. c.pc = "next"
    BY <1>5 DEF Migrations!Loop
  <2> QED
    BY <1>1, <1>2, <1>4, <2>1, <2>2, <2>3, ReadMigrates
<1>6. CASE c = [x3[r] EXCEPT !.pc = "baseline"]
  <2>1. c = [pc |-> "baseline", applied |-> a]
    BY <1>1, <1>6, MigrationRuns
  <2>2. c \in MigrationRun
    BY <1>2, <2>1 DEF MigrationRun
  <2>3. ~x7 => RunKnows(c, x2, x1)
    BY <1>3, <2>1 DEF RunKnows
  <2> QED
    BY <1>1, <1>2, <1>4, <2>2, <2>3, ReadMigrates
<1> QED
  BY <1>4, <1>5, <1>6

LEMMA EndMigrates ==
  ASSUME MigrationsInv, NEW r \in Actors,
         \/ Migrations!StatementFails(r)
         \/ Migrations!MigrationsAssumption /\ Migrations!Crash(r)
  PROVE  MigrationsInv'
<1> DEFINE c == [pc |-> "failed"]
<1>1. x4 \in 0..MaxCrashes /\ c \in MigrationRun /\ RunKnows(c, x2, x1)
  BY DEF MigrationsInv, MigrationsTyped, MigrationTypes, MigrationRun, RunKnows
<1>2. CASE Migrations!StatementFails(r)
  <2>1. /\ UNCHANGED <<x1, x2, x5, x6, x7>> /\ x4' = x4 /\ RunsFrom(x3[r])
        /\ x3' = [x3 EXCEPT ![r] = c]
    BY <1>2 DEF Migrations!StatementFails, Migrations!Move, Migrations!Keep, RunsFrom
  <2> QED
    BY <1>1, <2>1, ReadMigrates
<1>3. CASE Migrations!MigrationsAssumption /\ Migrations!Crash(r)
  <2>1. /\ UNCHANGED <<x1, x2, x5, x6, x7>> /\ x4' = x4 + 1 /\ x4 < MaxCrashes /\ RunsFrom(x3[r])
        /\ x3' = [x3 EXCEPT ![r] = c]
    BY <1>3 DEF Migrations!Crash, Migrations!Move, Migrations!UnderWay, RunsFrom
  <2>2. x4' \in 0..MaxCrashes
    BY <1>1, <1>3, <2>1, JournalKnown
  <2> QED
    BY <1>1, <2>1, <2>2, ReadMigrates
<1> QED
  BY <1>2, <1>3

LEMMA BaselineMigrates ==
  ASSUME Migrations!MigrationsAssumption, MigrationsInv, NEW r \in Actors, Migrations!Baseline(r)
  PROVE  MigrationsInv'
<1> DEFINE a == x3[r].applied
           c == Migrations!Loop(a \cup {1}, StampOf(1))
<1>1. /\ x3[r] \in MigrationRun /\ x2 \subseteq Migrations!Steps /\ x3[r].pc = "baseline"
      /\ x3 \in [Actors -> MigrationRun] /\ MigrationsTyped
      /\ RunsFrom(x3[r]) /\ a \subseteq Migrations!Steps /\ Journal # <<>>
      /\ x1' = x1 /\ x4' = x4 /\ x5' = x5 /\ x7' = x7
      /\ x6' = (x6 \/ 1 \notin x2) /\ x2' = x2 \cup {1} /\ x3' = [x3 EXCEPT ![r] = c]
  BY MigrationRuns DEF MigrationsInv, MigrationsTyped, MigrationTypes, Migrations!Baseline,
     Migrations!Move, RunsFrom, StampOf
<1>2. 1 \in Migrations!Steps /\ StampOf(1) \in Nat \ {0} /\ Len(Journal) \in Nat
  BY <1>1, JournalKnown
<1>3. c \in MigrationRun /\ c.pc = "next" /\ x2' \subseteq Migrations!Steps
  BY <1>1, <1>2 DEF MigrationRun, Migrations!Loop
<1>4. MigrationsTyped'
  <2>1. \A q \in Actors : x3'[q] = IF q = r THEN c ELSE x3[q]
    BY <1>1
  <2>2. x3' \in [Actors -> MigrationRun] /\ x6' \in BOOLEAN
    BY <1>1, <1>3
  <2> HIDE DEF c
  <2> QED
    BY <1>1, <1>3, <2>1, <2>2 DEF MigrationsTyped, MigrationTypes
<1>5. ASSUME ~x7 PROVE Undisturbed'
  <2>1. /\ Undisturbed /\ a = x2 /\ x2 = {} /\ x2' = {1} /\ x6'
    BY <1>1, <1>5 DEF MigrationsInv, Undisturbed, RunKnows
  <2>2. IsNewest(StampOf(1), {1})
    BY <1>2 DEF IsNewest
  <2>3. RunKnows(c, x2', x1')
    BY <1>2, <1>3, <2>1, <2>2, LoopKnows
  <2>4. NoneSkipped(x2')
    BY <1>2, <2>1, JournalKnown DEF NoneSkipped
  <2>5. PICK upTo : /\ Replays(upTo, x2, x6, x5)
                    /\ \A i \in 0..Len(Journal) : (\A n \in x2 : n <= i) => upTo[i] = x1
    BY <2>1 DEF Undisturbed, ReplayStands
  <2>6. Replays(upTo, x2', x6', x5')
    BY <1>1, <2>1, <2>5 DEF Replays, Skipped
  <2>7. ReplayStands(x2', x6', x5', x1')
    BY <1>1, <2>1, <2>5, <2>6 DEF ReplayStands
  <2> QED
    BY <1>1, <1>3, <1>5, <2>1, <2>3, <2>4, <2>7, RunMoves
<1> QED
  BY <1>1, <1>4, <1>5 DEF MigrationsInv

LEMMA NextMigrates ==
  ASSUME Migrations!MigrationsAssumption, MigrationsInv, NEW r \in Actors,
         Migrations!NextMigration(r)
  PROVE  MigrationsInv'
<1> DEFINE a == x3[r].applied
           last == x3[r].last
           at == x3[r].at
<1>1. /\ x3[r] \in MigrationRun /\ x2 \subseteq Migrations!Steps /\ x4 \in 0..MaxCrashes
      /\ x3[r].pc = "next" /\ x1 \in MigrationDbs
  BY DEF MigrationsInv, MigrationsTyped, MigrationTypes, Migrations!NextMigration, MigrationDbs
<1>2. /\ UNCHANGED <<x1, x2, x5, x6, x7>> /\ x4' = x4 /\ RunsFrom(x3[r])
      /\ a \subseteq Migrations!Steps /\ last \in Nat /\ at \in Nat \ {0}
      /\ x3[r] = [pc |-> "next", applied |-> a, last |-> last, at |-> at]
  BY <1>1, MigrationRuns DEF Migrations!NextMigration, Migrations!Keep, RunsFrom
<1>3. ~x7 => /\ a = x2 /\ IsNewest(last, x2) /\ at \in 1..Len(Journal) + 1 /\ NoneSkipped(x2)
             /\ \A m \in Migrations!Steps : m < at /\ m \notin x2 => Shadowed(m, x2)
  BY <1>1 DEF MigrationsInv, Undisturbed, RunKnows
<1>4. /\ Len(Journal) \in Nat /\ Migrations!Steps = 1..Len(Journal)
      /\ \A m \in Migrations!Steps : StampOf(m) \in Nat \ {0} /\ LastStatement(m) \in Nat
  BY JournalKnown
<1>5. CASE at > Len(Journal)
  <2> DEFINE c == [pc |-> "done"]
  <2>1. x3' = [x3 EXCEPT ![r] = c] /\ c \in MigrationRun /\ c.pc = "done"
    BY <1>5 DEF Migrations!NextMigration, Migrations!Move, MigrationRun
  <2>2. ~x7 => RunKnows(c, x2, x1)
    <3>1. \A m \in Migrations!Steps : m < at
      BY <1>2, <1>4, <1>5
    <3> QED
      BY <1>3, <2>1, <3>1 DEF RunKnows
  <2> HIDE DEF c
  <2> QED
    BY <1>1, <1>2, <2>1, <2>2, ReadMigrates
<1>6. CASE ~(at > Len(Journal)) /\ Migrations!Due(r)
  <2> DEFINE c == [pc |-> "body", applied |-> a, last |-> last, at |-> at, i |-> 1,
                   tx |-> [o \in {} |-> Migrations!Absent]]
  <2>1. x3' = [x3 EXCEPT ![r] = c]
    BY <1>6 DEF Migrations!NextMigration, Migrations!Move
  <2>2. at \in Migrations!Steps
    BY <1>2, <1>4, <1>6
  <2>3. c \in MigrationRun /\ c.pc = "body"
    <3>1. [o \in {} |-> Migrations!Absent] \in [{} -> Migrations!Value]
      OBVIOUS
    <3>2. [o \in {} |-> Migrations!Absent]
             \in UNION {[touched -> Migrations!Value] : touched \in SUBSET Objects}
      BY <3>1
    <3>3. PICK t : t = [o \in {} |-> Migrations!Absent]
      OBVIOUS
    <3>4. [pc |-> "body", applied |-> a, last |-> last, at |-> at, i |-> 1, tx |-> t]
            \in MigrationRun
      <4>1. PICK one \in Nat \ {0} : one = 1
        OBVIOUS
      <4>2. t \in UNION {[touched -> Migrations!Value] : touched \in SUBSET Objects}
        BY <3>2, <3>3
      <4>3. [pc |-> "body", applied |-> a, last |-> last, at |-> at, i |-> one, tx |-> t]
              \in MigrationRun
        BY <1>2, <2>2, <4>2 DEF MigrationRun
      <4> QED
        BY <4>1, <4>3
    <3> QED
      BY <3>3, <3>4
  <2>4. ~x7 => RunKnows(c, x2, x1)
    <3>1. at \notin a /\ (last = 0 \/ last < StampOf(at))
      BY <1>6 DEF Migrations!Due, StampOf
    <3>2. SeenBy(c, x1) = x1
      BY <1>1 DEF SeenBy, MigrationDbs
    <3>3. MadeBy([i \in 0..0 |-> x1], x1, at, 0)
      BY <1>1 DEF MadeBy
    <3>4. \E made : MadeBy(made, x1, at, c.i - 1) /\ SeenBy(c, x1) = made[c.i - 1]
      BY <3>2, <3>3
    <3>5. /\ c.applied = a /\ c.last = last /\ c.at = at /\ c.i = 1
          /\ 1 \in 1..LastStatement(at) + 1
      BY <1>4, <2>2
    <3> HIDE DEF c
    <3> QED
      BY <1>3, <2>2, <2>3, <3>1, <3>4, <3>5 DEF RunKnows
  <2> HIDE DEF c
  <2> QED
    BY <1>1, <1>2, <2>1, <2>3, <2>4, ReadMigrates
<1>7. CASE ~(at > Len(Journal)) /\ ~Migrations!Due(r)
  <2> DEFINE c == [pc |-> "next", applied |-> a, last |-> last, at |-> at + 1]
  <2>1. x3' = [x3 EXCEPT ![r] = c]
    <3>1. x3' = [x3 EXCEPT ![r] = [x3[r] EXCEPT !.at = @ + 1]]
      BY <1>7 DEF Migrations!NextMigration, Migrations!Move
    <3>2. [x3[r] EXCEPT !.at = @ + 1] = c
      BY <1>2
    <3> QED
      BY <3>1, <3>2
  <2>2. at \in Migrations!Steps
    BY <1>2, <1>4, <1>7
  <2>3. c \in MigrationRun /\ c.pc = "next"
    BY <1>2 DEF MigrationRun
  <2>4. ~x7 => RunKnows(c, x2, x1)
    <3> SUFFICES ASSUME ~x7 PROVE RunKnows(c, x2, x1)
      OBVIOUS
    <3>1. at \in x2 \/ (last # 0 /\ StampOf(at) <= last)
      BY <1>2, <1>3, <1>4, <1>7, <2>2 DEF Migrations!Due, StampOf
    <3>2. at \in x2 \/ Shadowed(at, x2)
      <4> SUFFICES ASSUME at \notin x2 PROVE Shadowed(at, x2)
        OBVIOUS
      <4>1. PICK n \in x2 : last = StampOf(n)
        BY <1>3, <3>1 DEF IsNewest
      <4>2. n < at \/ at < n
        BY <1>1, <1>4, <2>2
      <4> QED
        BY <1>3, <2>2, <3>1, <4>1, <4>2 DEF Shadowed, NoneSkipped
    <3>3. \A m \in Migrations!Steps : m < at + 1 /\ m \notin x2 => Shadowed(m, x2)
      BY <1>3, <1>4, <2>2, <3>2
    <3>4. c.applied = a /\ c.last = last /\ c.at = at + 1 /\ at + 1 \in 1..Len(Journal) + 1
      BY <1>4, <2>2
    <3> HIDE DEF c
    <3> QED
      BY <1>3, <2>3, <3>3, <3>4 DEF RunKnows
  <2> HIDE DEF c
  <2> QED
    BY <1>1, <1>2, <2>1, <2>3, <2>4, ReadMigrates
<1> QED
  BY <1>5, <1>6, <1>7

\* What a transaction sees is a database.
LEMMA SeesDatabase ==
  ASSUME MigrationsTyped, NEW r \in Actors, x3[r].pc = "body"
  PROVE  /\ Migrations!Sees(r) = SeenBy(x3[r], x1) /\ Migrations!Sees(r) \in MigrationDbs
         /\ x3[r] \in MigrationRun /\ x1 \in MigrationDbs
<1>1. x3[r] \in MigrationRun /\ x1 \in MigrationDbs
  BY DEF MigrationsTyped, MigrationTypes, MigrationDbs
<1>2. \A o \in DOMAIN x3[r].tx : x3[r].tx[o] \in Migrations!Value
  BY <1>1, MigrationRuns
<1>3. Migrations!Sees(r) \in MigrationDbs
  BY <1>1, <1>2 DEF Migrations!Sees, MigrationDbs
<1> QED
  BY <1>1, <1>3 DEF Migrations!Sees, SeenBy

LEMMA RunStatementMigrates ==
  ASSUME Migrations!MigrationsAssumption, MigrationsInv, NEW r \in Actors,
         Migrations!RunStatement(r)
  PROVE  MigrationsInv'
<1> DEFINE a == x3[r].applied
           last == x3[r].last
           at == x3[r].at
           i == x3[r].i
           tx == x3[r].tx
           s == Migrations!Statement(at, i)
           now == Migrations!Sees(r)
           next == Migrations!Effect(now, s)
           tx2 == [o \in DOMAIN tx \cup {s.on} |-> next[o]]
           c == [pc |-> "body", applied |-> a, last |-> last, at |-> at, i |-> i + 1, tx |-> tx2]
<1>1. /\ x3[r] \in MigrationRun /\ x4 \in 0..MaxCrashes /\ MigrationsTyped
      /\ x3[r].pc = "body" /\ x1 \in MigrationDbs /\ i <= LastStatement(at)
  BY DEF MigrationsInv, MigrationsTyped, MigrationTypes, Migrations!RunStatement, MigrationDbs,
         LastStatement
<1>2. /\ a \subseteq Migrations!Steps /\ last \in Nat /\ at \in Migrations!Steps /\ i \in Nat \ {0}
      /\ DOMAIN tx \subseteq Objects
      /\ x3[r] = [pc |-> "body", applied |-> a, last |-> last, at |-> at, i |-> i, tx |-> tx]
  BY <1>1, MigrationRuns
<1>3. UNCHANGED <<x1, x2, x5, x6, x7>> /\ x4' = x4 /\ RunsFrom(x3[r])
  BY <1>1 DEF Migrations!RunStatement, Migrations!Keep, RunsFrom
<1>4. x3' = [x3 EXCEPT ![r] = c]
  <2>1. x3' = [x3 EXCEPT ![r] = [x3[r] EXCEPT !.i = @ + 1,
                 !.tx = [o \in DOMAIN @ \cup {s.on} |-> Migrations!Effect(Migrations!Sees(r), s)[o]]]]
    BY DEF Migrations!RunStatement, Migrations!Move
  <2>2. [x3[r] EXCEPT !.i = @ + 1,
           !.tx = [o \in DOMAIN @ \cup {s.on} |-> Migrations!Effect(Migrations!Sees(r), s)[o]]] = c
    <3>1. PICK t : t = tx2
      OBVIOUS
    <3>2. [x3[r] EXCEPT !.i = i + 1, !.tx = t]
            = [pc |-> "body", applied |-> a, last |-> last, at |-> at, i |-> i + 1, tx |-> t]
      <4>1. PICK d : d = [x3[r] EXCEPT !.i = i + 1]
        OBVIOUS
      <4>2. d = [pc |-> "body", applied |-> a, last |-> last, at |-> at, i |-> i + 1, tx |-> tx]
        BY <1>2, <4>1
      <4>3. d = [pc |-> d.pc, applied |-> d.applied, last |-> d.last, at |-> d.at, i |-> d.i,
                 tx |-> d.tx]
        BY <4>2
      <4>4. [d EXCEPT !.tx = t] = [pc |-> d.pc, applied |-> d.applied, last |-> d.last,
                                   at |-> d.at, i |-> d.i, tx |-> t]
        BY <4>3
      <4>5. [x3[r] EXCEPT !.i = i + 1, !.tx = t] = [[x3[r] EXCEPT !.i = i + 1] EXCEPT !.tx = t]
        OBVIOUS
      <4>6. /\ d.pc = "body" /\ d.applied = a /\ d.last = last /\ d.at = at /\ d.i = i + 1
        BY <4>2
      <4> QED
        BY <4>1, <4>4, <4>5, <4>6
    <3> QED
      BY <3>1, <3>2
  <2> QED
    BY <2>1, <2>2
<1>5. s.op \in Migrations!Ops /\ s.on \in Objects /\ LastStatement(at) \in Nat /\ i \in 1..LastStatement(at) + 1
  <2>1. LastStatement(at) \in Nat /\ \A j \in 1..LastStatement(at) :
          /\ Migrations!Statement(at, j).op \in Migrations!Ops
          /\ Migrations!Statement(at, j).on \in Objects
    BY <1>2, JournalKnown
  <2> QED
    BY <1>1, <1>2, <2>1
<1>6. /\ now = SeenBy(x3[r], x1) /\ now \in MigrationDbs /\ next \in MigrationDbs
      /\ \A o \in Objects \ {s.on} : next[o] = now[o]
  <2>1. now = SeenBy(x3[r], x1) /\ now \in MigrationDbs
    BY <1>1, SeesDatabase
  <2>2. next \in MigrationDbs
    BY <1>5, <2>1, EffectTyped
  <2>3. \A o \in Objects \ {s.on} : next[o] = now[o]
    BY <2>1 DEF Migrations!Effect, MigrationDbs
  <2> QED
    BY <2>1, <2>2, <2>3
<1> HIDE DEF now, next, s
<1>7. /\ tx2 \in UNION {[touched -> Migrations!Value] : touched \in SUBSET Objects}
      /\ DOMAIN tx2 = DOMAIN tx \cup {s.on}
      /\ \A o \in DOMAIN tx2 : tx2[o] = next[o]
  <2>1. DOMAIN tx \cup {s.on} \in SUBSET Objects
    BY <1>2, <1>5
  <2>2. tx2 \in [DOMAIN tx \cup {s.on} -> Migrations!Value]
    BY <1>6, <2>1 DEF MigrationDbs
  <2> QED
    BY <2>1, <2>2
<1> HIDE DEF tx2
<1>8. c \in MigrationRun
  BY <1>2, <1>7 DEF MigrationRun
<1>9. SeenBy(c, x1) = next
  <2>1. \A o \in Objects : now[o] = IF o \in DOMAIN tx THEN tx[o] ELSE x1[o]
    BY <1>6 DEF SeenBy
  <2>2. ASSUME NEW o \in Objects
        PROVE  (IF o \in DOMAIN tx2 THEN tx2[o] ELSE x1[o]) = next[o]
    <3>1. CASE o \in DOMAIN tx \cup {s.on}
      BY <1>7, <3>1
    <3>2. CASE o \notin DOMAIN tx \cup {s.on}
      BY <1>6, <1>7, <2>1, <3>2
    <3> QED
      BY <3>1, <3>2
  <2>3. SeenBy(c, x1) = [o \in Objects |-> next[o]]
    BY <2>2 DEF SeenBy
  <2> QED
    BY <1>6, <2>3 DEF MigrationDbs
<1>10. ASSUME ~x7 PROVE RunKnows(c, x2, x1)
  <2>1. /\ a = x2 /\ IsNewest(last, x2) /\ at \in 1..Len(Journal) + 1
        /\ \A m \in Migrations!Steps : m < at /\ m \notin x2 => Shadowed(m, x2)
        /\ at \notin x2 /\ (last = 0 \/ last < StampOf(at))
        /\ \E made : MadeBy(made, x1, at, i - 1) /\ now = made[i - 1]
    BY <1>1, <1>6, <1>10 DEF MigrationsInv, Undisturbed, RunKnows
  <2>2. PICK made : MadeBy(made, x1, at, i - 1) /\ now = made[i - 1]
    BY <2>1
  <2> DEFINE more == [j \in 0..i |-> IF j = i THEN next ELSE made[j]]
  <2>3. MadeBy(more, x1, at, i) /\ more[i] = next
    <3>1. /\ made \in [0..i - 1 -> MigrationDbs] /\ made[0] = x1
          /\ \A j \in 1..i - 1 :
               made[j] = Migrations!Effect(made[j - 1], Migrations!Statement(at, j))
      BY <2>2 DEF MadeBy
    <3>2. /\ more \in [0..i -> MigrationDbs] /\ more[0] = x1 /\ more[i] = next
          /\ \A j \in 0..i - 1 : more[j] = made[j]
      BY <1>2, <1>6, <3>1
    <3>3. ASSUME NEW j \in 1..i
          PROVE  more[j] = Migrations!Effect(more[j - 1], Migrations!Statement(at, j))
      <4>1. more[j - 1] = made[j - 1]
        BY <1>2, <3>2
      <4>2. CASE j = i
        BY <2>2, <3>2, <4>1, <4>2 DEF next, now, s
      <4>3. CASE j # i
        BY <1>2, <3>1, <3>2, <4>1, <4>3
      <4> QED
        BY <4>2, <4>3
    <3> QED
      BY <3>2, <3>3 DEF MadeBy
  <2>4. \E m : MadeBy(m, x1, c.at, c.i - 1) /\ SeenBy(c, x1) = m[c.i - 1]
    <3>1. c.at = at /\ c.i - 1 = i
      BY <1>2
    <3> QED
      BY <1>9, <2>3, <3>1
  <2>5. /\ c.pc = "body" /\ c.applied = a /\ c.last = last /\ c.at = at
        /\ c.i \in 1..LastStatement(at) + 1
    BY <1>1, <1>2, <1>5
  <2> HIDE DEF c
  <2> QED
    BY <2>1, <2>4, <2>5 DEF RunKnows
<1>11. c.pc = "body"
  OBVIOUS
<1> HIDE DEF c
<1> QED
  BY <1>1, <1>3, <1>4, <1>8, <1>10, <1>11, ReadMigrates

LEMMA RecordMigrates ==
  ASSUME Migrations!MigrationsAssumption, MigrationsInv, NEW r \in Actors,
         Migrations!RecordMigration(r)
  PROVE  MigrationsInv'
<1> DEFINE a == x3[r].applied
           at == x3[r].at
           K == Len(Journal)
           now == Migrations!Sees(r)
           c == [pc |-> "next", applied |-> a \cup {at}, last |-> StampOf(at), at |-> at + 1]
<1>1. /\ x3[r] \in MigrationRun /\ x4 \in 0..MaxCrashes /\ MigrationsTyped
      /\ x3[r].pc = "body" /\ x1 \in MigrationDbs /\ x3[r].i > LastStatement(at)
      /\ x3 \in [Actors -> MigrationRun] /\ x2 \subseteq Migrations!Steps
      /\ x1' = now /\ x2' = x2 \cup {at} /\ x3' = [x3 EXCEPT ![r] = c]
      /\ x4' = x4 /\ x5' = x5 /\ x6' = x6 /\ x7' = x7 /\ RunsFrom(x3[r])
  BY DEF MigrationsInv, MigrationsTyped, MigrationTypes, Migrations!RecordMigration, MigrationDbs,
         LastStatement, StampOf, Migrations!Move, RunsFrom
<1>2. a \subseteq Migrations!Steps /\ at \in Migrations!Steps /\ x3[r].i \in Nat \ {0}
  BY <1>1, MigrationRuns
<1>3. /\ K \in Nat /\ Migrations!Steps = 1..K /\ StampOf(at) \in Nat \ {0}
      /\ \A m \in Migrations!Steps : StampOf(m) \in Nat \ {0}
      /\ LastStatement(at) \in Nat
  BY <1>2, JournalKnown
<1>4. c \in MigrationRun /\ c.pc = "next"
  BY <1>2, <1>3 DEF MigrationRun
<1>5. now = SeenBy(x3[r], x1) /\ now \in MigrationDbs
  BY <1>1, SeesDatabase
<1> HIDE DEF now
<1>6. MigrationsTyped'
  <2>1. \A q \in Actors : x3'[q] = IF q = r THEN c ELSE x3[q]
    BY <1>1
  <2>2. x3' \in [Actors -> MigrationRun] /\ x2' \subseteq Migrations!Steps
    BY <1>1, <1>2, <1>4
  <2>3. x1' \in MigrationDbs
    BY <1>1, <1>5
  <2> HIDE DEF c
  <2> QED
    BY <1>1, <1>4, <2>1, <2>2, <2>3 DEF MigrationsTyped, MigrationTypes
<1>7. ASSUME ~x7 PROVE Undisturbed'
  <2>1. /\ Undisturbed /\ a = x2 /\ IsNewest(x3[r].last, x2) /\ NoneSkipped(x2)
        /\ \A m \in Migrations!Steps : m < at /\ m \notin x2 => Shadowed(m, x2)
        /\ at \notin x2 /\ (x3[r].last = 0 \/ x3[r].last < StampOf(at))
        /\ x3[r].i \in 1..LastStatement(at) + 1
        /\ \E made : MadeBy(made, x1, at, x3[r].i - 1) /\ now = made[x3[r].i - 1]
    BY <1>1, <1>5, <1>7 DEF MigrationsInv, Undisturbed, RunKnows
  <2>2. x3[r].i - 1 = LastStatement(at)
    BY <1>1, <1>2, <1>3, <2>1
  <2>3. now = Migrations!After(x1, at)
    <3>1. PICK made : MadeBy(made, x1, at, LastStatement(at)) /\ now = made[LastStatement(at)]
      BY <2>1, <2>2
    <3> QED
      BY <1>2, <3>1, AfterIsMade
  <2>4. \A n \in x2 : StampOf(n) < StampOf(at) /\ n < at
    <3> SUFFICES ASSUME NEW n \in x2 PROVE StampOf(n) < StampOf(at) /\ n < at
      OBVIOUS
    <3>1. /\ \E m \in x2 : x3[r].last = StampOf(m)
          /\ \A m \in x2 : StampOf(m) <= x3[r].last
      BY <2>1 DEF IsNewest
    <3>2. PICK t \in Nat \ {0} : t = x3[r].last
      BY <1>1, <1>3, <3>1
    <3>3. \A m \in x2 : StampOf(m) < StampOf(at) /\ StampOf(m) \in Nat
      BY <1>1, <1>3, <2>1, <3>1, <3>2
    <3>4. ~(at < n)
      <4> SUFFICES ASSUME at < n PROVE FALSE
        OBVIOUS
      <4>1. Shadowed(at, x2)
        BY <1>2, <2>1 DEF NoneSkipped
      <4> QED
        BY <1>3, <3>3, <4>1 DEF Shadowed
    <3>5. n # at /\ n \in Nat /\ at \in Nat
      BY <1>1, <1>2, <1>3, <2>1
    <3> QED
      BY <3>3, <3>4, <3>5
  <2>5. \A m : Shadowed(m, x2) => Shadowed(m, x2')
    BY <1>1 DEF Shadowed
  <2>6. IsNewest(StampOf(at), x2')
    <3>1. \A n \in x2' : StampOf(n) <= StampOf(at)
      BY <1>1, <1>3, <2>4
    <3> QED
      BY <1>1, <3>1 DEF IsNewest
  <2>7. ASSUME NEW m \in Migrations!Steps, m < at + 1, m \notin x2' PROVE Shadowed(m, x2')
    <3>1. m < at /\ m \notin x2
      BY <1>1, <1>2, <1>3, <2>7
    <3> QED
      BY <2>1, <2>5, <3>1
  <2>8. NoneSkipped(x2')
    <3> SUFFICES ASSUME NEW n \in x2', NEW m \in Migrations!Steps, m < n, m \notin x2'
                 PROVE  Shadowed(m, x2')
      BY DEF NoneSkipped
    <3>1. CASE n = at
      BY <1>1, <2>1, <2>5, <3>1
    <3>2. CASE n \in x2
      BY <1>1, <2>1, <2>5, <3>2 DEF NoneSkipped
    <3> QED
      BY <1>1, <3>1, <3>2
  <2>9. RunKnows(c, x2', x1')
    <3>1. c.applied = x2' /\ c.last = StampOf(at) /\ c.at = at + 1 /\ c.at \in 1..K + 1
      BY <1>1, <1>2, <1>3, <2>1
    <3> HIDE DEF c
    <3> QED
      BY <1>4, <2>6, <2>7, <3>1 DEF RunKnows
  <2>10. PICK upTo : /\ Replays(upTo, x2, x6, x5)
                     /\ \A i \in 0..K : (\A n \in x2 : n <= i) => upTo[i] = x1
    BY <2>1 DEF Undisturbed, ReplayStands
  <2> DEFINE new == [i \in 0..K |-> IF i < at THEN upTo[i] ELSE now]
  <2>11. Replays(new, x2', x6, x5)
    <3>1. /\ upTo \in [0..K -> MigrationDbs] /\ upTo[0] = x5
          /\ \A m \in 1..K : upTo[m] = IF Skipped(m, x2, x6) THEN upTo[m - 1]
                                        ELSE Migrations!After(upTo[m - 1], m)
      BY <2>10 DEF Replays
    <3>2. new \in [0..K -> MigrationDbs] /\ new[0] = x5
      BY <1>2, <1>3, <1>5, <3>1
    <3>3. ASSUME NEW m \in 1..K
          PROVE  new[m] = IF Skipped(m, x2', x6) THEN new[m - 1]
                          ELSE Migrations!After(new[m - 1], m)
      <4>1. CASE m < at
        <5>1. new[m] = upTo[m] /\ new[m - 1] = upTo[m - 1]
          BY <1>2, <1>3, <4>1
        <5>2. Skipped(m, x2', x6) <=> Skipped(m, x2, x6)
          BY <1>1, <1>2, <1>3, <4>1 DEF Skipped
        <5> QED
          BY <3>1, <5>1, <5>2
      <4>2. CASE m = at
        <5>1. new[m] = now /\ new[m - 1] = upTo[at - 1]
          BY <1>2, <1>3, <4>2
        <5>2. \A n \in x2 : n <= at - 1
          BY <1>1, <1>2, <1>3, <2>4
        <5>3. at - 1 \in 0..K
          BY <1>2, <1>3
        <5>4. upTo[at - 1] = x1
          BY <2>10, <5>2, <5>3
        <5>5. ~Skipped(m, x2', x6)
          BY <1>1, <2>1, <4>2 DEF Skipped, Undisturbed
        <5> QED
          BY <2>3, <4>2, <5>1, <5>4, <5>5
      <4>3. CASE m > at
        <5>1. new[m] = now /\ new[m - 1] = now
          BY <1>2, <1>3, <4>3
        <5>2. m \notin x2'
          BY <1>1, <1>2, <1>3, <2>4, <4>3
        <5> QED
          BY <5>1, <5>2 DEF Skipped
      <4> QED
        BY <1>2, <1>3, <4>1, <4>2, <4>3
    <3> HIDE DEF new
    <3> QED
      BY <3>2, <3>3 DEF Replays
  <2>12. \A i \in 0..K : (\A n \in x2' : n <= i) => new[i] = now
    <3>1. at \in x2'
      BY <1>1
    <3>2. \A i \in 0..K : at <= i => new[i] = now
      BY <1>2, <1>3
    <3> HIDE DEF new
    <3> QED
      BY <3>1, <3>2
  <2>13. ReplayStands(x2', x6', x5', x1')
    <3> HIDE DEF new
    <3> QED
      BY <1>1, <2>11, <2>12 DEF ReplayStands
  <2>14. x6' => 1 \in x2'
    BY <1>1, <2>1 DEF Undisturbed
  <2>15. x2 \subseteq x2'
    BY <1>1
  <2> HIDE DEF c
  <2> QED
    BY <1>1, <1>4, <1>7, <2>1, <2>8, <2>9, <2>13, <2>14, <2>15, RunMoves
<1> QED
  BY <1>1, <1>6, <1>7 DEF MigrationsInv

LEMMA MigrationsStart ==
  ASSUME Migrations!MigrationsAssumption, Migrations!Init
  PROVE  MigrationsInv
<1> DEFINE upTo == [i \in 0..Len(Journal) |-> x1]
<1>1. /\ x5 = x1 /\ x2 = {} /\ x4 = 0 /\ x6 = FALSE /\ x7 = FALSE
      /\ x3 = [r \in Actors |-> [pc |-> "idle"]]
  BY DEF Migrations!Init, Migrations!Idle
<1>2. x1 \in MigrationDbs
  <2>1. [o \in Objects |-> Migrations!Absent] \in MigrationDbs
    BY DEF MigrationDbs, Migrations!Value
  <2> QED
    BY <2>1, JournalKnown DEF Migrations!Init
<1>3. x3 \in [Actors -> MigrationRun] /\ \A r \in Actors : x3[r].pc = "idle"
  <2>1. [pc |-> "idle"] \in MigrationRun
    BY DEF MigrationRun
  <2> QED
    BY <1>1, <2>1
<1>4. x4 \in 0..MaxCrashes
  BY <1>1, JournalKnown
<1>5. MigrationsTyped
  <2>1. x1 \in [Objects -> Migrations!Value] /\ x5 \in MigrationDbs
    BY <1>1, <1>2 DEF MigrationDbs
  <2>2. \A r \in Actors : x3[r].pc \in {"tables", "baseline"} => Journal # <<>>
    BY <1>3
  <2> QED
    BY <1>1, <1>3, <1>4, <2>1, <2>2 DEF MigrationsTyped, MigrationTypes
<1>6. ReplayStands(x2, x6, x5, x1)
  <2>1. Len(Journal) \in Nat
    BY JournalKnown
  <2>2. Replays(upTo, x2, x6, x5)
    BY <1>1, <1>2, <2>1 DEF Replays, Skipped
  <2>3. \A i \in 0..Len(Journal) : upTo[i] = x1
    OBVIOUS
  <2> HIDE DEF upTo
  <2> QED
    BY <2>2, <2>3 DEF ReplayStands
<1>7. \A r \in Actors : RunKnows(x3[r], x2, x1) /\ ~RunsFrom(x3[r])
  BY <1>3 DEF RunKnows, RunsFrom
<1> QED
  BY <1>1, <1>5, <1>6, <1>7 DEF MigrationsInv, Undisturbed, OneMigrates, NoneSkipped

LEMMA MigrationSteps ==
  /\ Init => (part = "migrations" => MigrationsInv)
  /\ (part = "migrations" => MigrationsInv) /\ [Next]_<<part, slots>> =>
       (part = "migrations" => MigrationsInv)'
<1>0. Migrations!MigrationsAssumption
  BY ServicesAssumption DEF ServicesAssumption
<1>1. Init => (part = "migrations" => MigrationsInv)
  BY <1>0, MigrationsStart DEF Init
<1>2. ASSUME part = "migrations" => MigrationsInv, [Next]_<<part, slots>>, part' = "migrations"
      PROVE  MigrationsInv'
  <2>1. CASE RunMigrations
    <3>1. MigrationsInv /\ Migrations!Next
      BY <1>2, <2>1 DEF RunMigrations
    <3> QED
      BY <1>0, <3>1, BeginMigrates, ReadLastMigrates, ReadTablesMigrates, BaselineMigrates,
         NextMigrates, RunStatementMigrates, EndMigrates, RecordMigrates DEF Migrations!Next
  <2>2. CASE UNCHANGED <<part, slots>>
    <3>1. MigrationsInv /\ UNCHANGED <<x1, x2, x3, x4, x5, x6, x7>>
      BY <1>2, <2>2 DEF slots
    <3> QED
      BY <3>1, MigrationsPassBy
  <2> QED
    BY <1>2, <2>1, <2>2 DEF Next, RunControls, RunRecords, RunListing, RunPolling,
                      RunCookies, RunRoles, RunCatalog, RunCrons, RunMusic
<1> QED
  BY <1>1, <1>2

LEMMA MigrationsFinally ==
  ASSUME Migrations!MigrationsAssumption, MigrationsInv
  PROVE  Migrations!DatabaseAsRecorded /\ Migrations!NothingLeftBehind
<1>1. Len(Journal) \in Nat /\ \A n \in x2 : n <= Len(Journal)
  BY JournalKnown DEF MigrationsInv, MigrationsTyped, MigrationTypes
<1>2. ASSUME ~x7 PROVE x1 = Migrations!Replay
  <2>1. PICK upTo : /\ Replays(upTo, x2, x6, x5)
                    /\ \A i \in 0..Len(Journal) : (\A n \in x2 : n <= i) => upTo[i] = x1
    BY <1>2 DEF MigrationsInv, Undisturbed, ReplayStands
  <2>2. upTo[Len(Journal)] = x1
    BY <1>1, <2>1
  <2> QED
    BY <2>1, <2>2, ReplayIs
<1>3. ASSUME NEW r \in Actors, x3[r].pc = "done", ~x7, NEW m \in Migrations!Steps \ x2
      PROVE  \E n \in x2 : n < m /\ Journal[m].stamp <= Journal[n].stamp
  BY <1>3 DEF MigrationsInv, Undisturbed, RunKnows, Shadowed, StampOf
<1> QED
  BY <1>2, <1>3 DEF Migrations!DatabaseAsRecorded, Migrations!NothingLeftBehind

\* runMigrations: whatever runs were killed, failed or repeated, the database is what the
\* recorded migrations make of the one found, each run once and in order; and a run that
\* ends well leaves out only migrations that come after one that is not older.
THEOREM MigrationsReplayTrue == Spec => []MigrationsReplayed
<1>0. Migrations!MigrationsAssumption
  BY ServicesAssumption DEF ServicesAssumption
<1>1. (part = "migrations" => MigrationsInv) => MigrationsReplayed
  BY <1>0, MigrationsFinally DEF MigrationsReplayed
<1> QED
  BY <1>1, MigrationSteps, PTL DEF Spec
=============================================================================
