--------------------------- MODULE ControlsProofs ---------------------------
(***************************************************************************)
(* What Services claims of its tenth component, the control events of a    *)
(* session, for every value of the constants; and, now that each component *)
(* has its inductive invariant, that the states of all of them have their  *)
(* types.                                                                  *)
(*                                                                         *)
(* What a reader is told rests on two facts: the logs stand for a state in *)
(* force whatever order rows of one time come in (ResolvedIsShown); and a  *)
(* reader that at most one change overlaps has, at every one of its reads, *)
(* read what was in force at some moment of them (ReaderKnows).            *)
(***************************************************************************)
EXTENDS ServicesProofs

----------------------------------------------------------------------------
(* The state in force *)

\* Induction up to a bound.
LEMMA InductionTo ==
  ASSUME NEW n \in Nat, NEW S, 0 \in S, \A i \in 1..n : i - 1 \in S => i \in S
  PROVE  \A i \in 0..n : i \in S
<1> DEFINE Bad == {i \in 0..n : i \notin S}
           k == [i \in Bad |-> -i]
<1> SUFFICES ASSUME Bad # {} PROVE FALSE
  OBVIOUS
<1>1. IsFiniteSet(Bad)
  <2>1. IsFiniteSet(0..n)
    BY FS_Interval
  <2> QED
    BY <2>1, FS_Subset
<1>2. k \in [Bad -> Int]
  OBVIOUS
<1>3. \E c \in Bad : \A d \in Bad : k[d] <= k[c]
  <2> HIDE DEF Bad, k
  <2> QED
    BY <1>1, <1>2, GreatestByKey
<1>4. PICK c \in Bad : \A d \in Bad : k[d] <= k[c]
  BY <1>3
<1>5. c \in 1..n /\ c \notin S /\ c - 1 \in 0..n
  OBVIOUS
<1>6. c - 1 \notin S
  BY <1>5
<1>7. c - 1 \in Bad /\ k[c - 1] = -(c - 1) /\ k[c] = -c
  BY <1>5, <1>6
<1> HIDE DEF Bad, k
<1>8. -(c - 1) <= -c
  BY <1>4, <1>7
<1> QED
  BY <1>5, <1>8

\* The states that the rows of a log, obeyed in the order o, lead through.
LeadThrough(logs, o, n, after) ==
  /\ after[0] = Controls!Fresh /\ Controls!Obeyed(logs, o) = after[n]
  /\ \A i \in 1..n : after[i] = Controls!Obey(after[i - 1], logs[o[i]])

LEMMA ObeyedStepwise ==
  ASSUME NEW logs, NEW o, NEW n \in Nat, Len(o) = n
  PROVE  \E after : LeadThrough(logs, o, n, after)
<1> DEFINE Next1(f, i) == IF i = 0 THEN Controls!Fresh ELSE Controls!Obey(f[i - 1], logs[o[i]])
           S == {m \in 0..n : \E f : f = [i \in 0..m |-> Next1(f, i)]}
           after == CHOOSE f : f = [i \in 0..n |-> Next1(f, i)]
<1>1. 0 \in S
  <2> DEFINE f == [i \in 0..0 |-> Controls!Fresh]
  <2>1. f = [i \in 0..0 |-> Next1(f, i)]
    OBVIOUS
  <2>2. \E h : h = [i \in 0..0 |-> Next1(h, i)]
    BY <2>1
  <2> QED
    BY <2>2
<1>2. ASSUME NEW m \in 1..n, m - 1 \in S PROVE m \in S
  <2>1. PICK f : f = [i \in 0..(m - 1) |-> Next1(f, i)]
    BY <1>2
  <2> DEFINE g == [i \in 0..m |-> IF i = m THEN Next1(f, m) ELSE f[i]]
  <2>2. ASSUME NEW i \in 0..m PROVE g[i] = Next1(g, i)
    <3>1. CASE i = 0
      BY <2>1, <3>1
    <3>2. CASE i # 0 /\ i < m
      <4>1. i \in 0..(m - 1) /\ i - 1 \in 0..m /\ i - 1 # m
        BY <3>2
      <4>2. f[i] = Next1(f, i) /\ g[i] = f[i] /\ g[i - 1] = f[i - 1]
        BY <2>1, <4>1
      <4> QED
        BY <3>2, <4>2
    <3>3. CASE i = m
      <4>1. i - 1 \in 0..m /\ i - 1 # m
        BY <3>3
      <4>2. g[i] = Next1(f, m) /\ g[i - 1] = f[i - 1]
        BY <3>3, <4>1
      <4> QED
        BY <3>3, <4>2
    <3> QED
      BY <3>1, <3>2, <3>3
  <2>3. g = [i \in 0..m |-> Next1(g, i)]
    BY <2>2
  <2>4. \E h : h = [i \in 0..m |-> Next1(h, i)]
    BY <2>3
  <2> QED
    BY <2>4
<1>3. n \in S
  <2>1. \A m \in 1..n : m - 1 \in S => m \in S
    BY <1>2
  <2> HIDE DEF S
  <2> QED
    BY <1>1, <2>1, InductionTo
<1>4. after = [i \in 0..n |-> Next1(after, i)]
  BY <1>3
<1>5. Controls!Obeyed(logs, o) = after[n]
  BY DEF Controls!Obeyed
<1>6. after[0] = Controls!Fresh /\ \A i \in 1..n : after[i] = Controls!Obey(after[i - 1], logs[o[i]])
  <2> HIDE DEF after
  <2> QED
    BY <1>4
<1>7. LeadThrough(logs, o, n, after)
  BY <1>5, <1>6 DEF LeadThrough
<1> QED
  BY <1>7

\* o goes through T, of m members, in the order of a key.
GoesThrough(o, T, m, k) ==
  /\ o \in [1..m -> T]
  /\ \A i, j \in 1..m : i # j => o[i] # o[j]
  /\ \A s \in T : \E i \in 1..m : o[i] = s
  /\ \A i, j \in 1..m : i < j => k[o[i]] <= k[o[j]]

\* Every finite set can be gone through in the order of a key.
LEMMA InOrderOfKey ==
  ASSUME NEW S, IsFiniteSet(S), NEW k \in [S -> Int]
  PROVE  \E o : GoesThrough(o, S, Cardinality(S), k)
<1> DEFINE n == Cardinality(S)
           Good == {m \in 0..n : \A T \in SUBSET S : Cardinality(T) = m => \E o : GoesThrough(o, T, m, k)}
<1>1. n \in Nat
  BY FS_CardinalityType
<1>2. 0 \in Good
  <2> SUFFICES ASSUME NEW T \in SUBSET S, Cardinality(T) = 0 PROVE \E o : GoesThrough(o, T, 0, k)
    BY <1>1
  <2>1. T = {}
    BY FS_Subset, FS_EmptySet
  <2> DEFINE o == [i \in 1..0 |-> i]
  <2>2. 1..0 = {} /\ o \in [1..0 -> T]
    OBVIOUS
  <2>3. GoesThrough(o, T, 0, k)
    BY <2>1, <2>2 DEF GoesThrough
  <2> QED
    BY <2>3
<1>3. ASSUME NEW m \in 1..n, m - 1 \in Good PROVE m \in Good
  <2> SUFFICES ASSUME NEW T \in SUBSET S, Cardinality(T) = m PROVE \E o : GoesThrough(o, T, m, k)
    OBVIOUS
  <2>1. IsFiniteSet(T)
    BY FS_Subset
  <2>2. T # {}
    BY FS_EmptySet
  <2> DEFINE l == [s \in T |-> k[s]]
  <2>3. l \in [T -> Int]
    OBVIOUS
  <2>4. \E c \in T : \A d \in T : l[d] <= l[c]
    <3> HIDE DEF l
    <3> QED
      BY <2>1, <2>2, <2>3, GreatestByKey
  <2>5. PICK c \in T : \A d \in T : k[d] <= k[c]
    BY <2>4
  <2>6. Cardinality(T \ {c}) = m - 1
    BY <2>1, FS_RemoveElement
  <2>7. PICK p : GoesThrough(p, T \ {c}, m - 1, k)
    BY <1>3, <2>6
  <2> DEFINE o == [i \in 1..m |-> IF i = m THEN c ELSE p[i]]
  <2>8. /\ p \in [1..(m - 1) -> T \ {c}] /\ \A i, j \in 1..(m - 1) : i # j => p[i] # p[j]
        /\ \A s \in T \ {c} : \E i \in 1..(m - 1) : p[i] = s
        /\ \A i, j \in 1..(m - 1) : i < j => k[p[i]] <= k[p[j]]
    BY <2>7 DEF GoesThrough
  <2>9. m \in 1..m /\ o[m] = c /\ \A i \in 1..m : i = m \/ i \in 1..(m - 1)
    OBVIOUS
  <2>10. \A i \in 1..(m - 1) : i \in 1..m /\ o[i] = p[i] /\ o[i] \in T \ {c}
    BY <2>8
  <2>11. o \in [1..m -> T]
    BY <2>9, <2>10
  <2> HIDE DEF o
  <2>12. \A i, j \in 1..m : i # j => o[i] # o[j]
    BY <2>8, <2>9, <2>10
  <2>13. \A s \in T : \E i \in 1..m : o[i] = s
    <3> SUFFICES ASSUME NEW s \in T PROVE \E i \in 1..m : o[i] = s
      OBVIOUS
    <3>1. CASE s = c
      BY <2>9, <3>1
    <3>2. CASE s # c
      BY <2>8, <2>10, <3>2
    <3> QED
      BY <3>1, <3>2
  <2>14. ASSUME NEW i \in 1..m, NEW j \in 1..m, i < j PROVE k[o[i]] <= k[o[j]]
    <3>1. i \in 1..(m - 1)
      BY <2>14
    <3>2. CASE j = m
      BY <2>5, <2>9, <2>10, <3>1, <3>2
    <3>3. CASE j # m
      BY <2>8, <2>9, <2>10, <2>14, <3>1, <3>3
    <3> QED
      BY <3>2, <3>3
  <2>15. GoesThrough(o, T, m, k)
    BY <2>11, <2>12, <2>13, <2>14 DEF GoesThrough
  <2> QED
    BY <2>15
<1>4. n \in Good
  <2>1. \A m \in 1..n : m - 1 \in Good => m \in Good
    BY <1>3
  <2> HIDE DEF Good
  <2> QED
    BY <1>1, <1>2, <2>1, InductionTo
<1> QED
  BY <1>4

\* What the reference derivation leads through, and the kinds of values a log has.
ObeyedStates == [mood: Moods \cup {Nil}, aroma: Controls!Aromas \cup {Controls!OwnAroma},
                 music: Tunes \cup {Nil}]

LEMMA LogRowTyped ==
  ASSUME NEW logs \in ControlLogs, NEW i \in 1..Len(logs)
  PROVE  /\ logs[i].kind \in Controls!Kinds /\ logs[i].value \in ValuesOf(logs[i].kind)
         /\ logs[i].at \in Nat /\ logs[i].session \in Nat
<1>1. logs \in Seq(Controls!LogRow) /\ logs[i].value \in ValuesOf(logs[i].kind)
  BY DEF ControlLogs
<1>2. logs[i] \in Controls!LogRow
  <2> DEFINE R == Controls!LogRow
  <2> HIDE DEF R
  <2> QED
    BY <1>1, ElementOfSeq
<1>3. logs[i].kind \in Controls!Kinds /\ logs[i].at \in Nat /\ logs[i].session \in Nat
  BY <1>2, Zenon DEF Controls!LogRow
<1> QED
  BY <1>1, <1>3

\* What obeying a command does to each part of the state.
LEMMA ObeyParts ==
  ASSUME NEW s \in ObeyedStates, NEW r, r.kind \in Controls!Kinds, r.value \in ValuesOf(r.kind)
  PROVE  /\ Controls!Obey(s, r) \in ObeyedStates
         /\ Controls!Obey(s, r).mood = IF r.kind = "mood" THEN r.value ELSE s.mood
         /\ Controls!Obey(s, r).music = IF r.kind = "music" THEN r.value ELSE s.music
         /\ Controls!Obey(s, r).aroma = IF r.kind = "mood" THEN Controls!OwnAroma
                                        ELSE IF r.kind = "aroma" THEN r.value ELSE s.aroma
<1>0. s = [mood |-> s.mood, aroma |-> s.aroma, music |-> s.music] /\ s.mood \in Moods \cup {Nil}
      /\ s.aroma \in Controls!Aromas \cup {Controls!OwnAroma} /\ s.music \in Tunes \cup {Nil}
  BY DEF ObeyedStates
<1>1. CASE r.kind = "mood"
  BY <1>0, <1>1 DEF Controls!Obey, ObeyedStates, ValuesOf
<1>2. CASE r.kind = "aroma"
  BY <1>0, <1>2 DEF Controls!Obey, ObeyedStates, ValuesOf
<1>3. CASE r.kind = "music"
  BY <1>0, <1>3 DEF Controls!Obey, ObeyedStates, ValuesOf
<1> QED
  BY <1>1, <1>2, <1>3 DEF Controls!Kinds

\* What holds from some place on holds at the end.
LEMMA StaysSo ==
  ASSUME NEW n \in Nat, NEW p \in 0..n, NEW f, NEW v, f[p] = v,
         \A i \in (p + 1)..n : f[i - 1] = v => f[i] = v
  PROVE  f[n] = v
<1> DEFINE S == {i \in 0..n : i < p \/ f[i] = v}
<1>1. 0 \in S
  OBVIOUS
<1>2. ASSUME NEW i \in 1..n, i - 1 \in S PROVE i \in S
  <2>1. CASE i < p \/ i = p
    BY <2>1
  <2>2. CASE i > p
    <3>1. i \in (p + 1)..n /\ f[i - 1] = v
      BY <1>2, <2>2
    <3> QED
      BY <3>1
  <2> QED
    BY <2>1, <2>2
<1>3. n \in S
  <2>1. \A i \in 1..n : i - 1 \in S => i \in S
    BY <1>2
  <2> HIDE DEF S
  <2> QED
    BY <1>1, <2>1, InductionTo
<1> QED
  BY <1>3

\* o goes through rows of the log.
RowsInTurn(logs, o, n) == n \in Nat /\ Len(o) = n /\ \A i \in 1..n : o[i] \in 1..Len(logs)

LEMMA ObeyedParts ==
  ASSUME NEW logs \in ControlLogs, NEW o, NEW n, RowsInTurn(logs, o, n)
  PROVE  \E after :
           /\ after[0] = Controls!Fresh /\ Controls!Obeyed(logs, o) = after[n]
           /\ \A i \in 0..n : after[i] \in ObeyedStates
           /\ \A i \in 1..n :
                LET r == logs[o[i]] IN
                /\ after[i].mood = IF r.kind = "mood" THEN r.value ELSE after[i - 1].mood
                /\ after[i].music = IF r.kind = "music" THEN r.value ELSE after[i - 1].music
                /\ after[i].aroma = IF r.kind = "mood" THEN Controls!OwnAroma
                                    ELSE IF r.kind = "aroma" THEN r.value ELSE after[i - 1].aroma
<1>1. n \in Nat /\ Len(o) = n /\ \A i \in 1..n : o[i] \in 1..Len(logs)
  BY DEF RowsInTurn
<1>0. PICK after : LeadThrough(logs, o, n, after)
  BY <1>1, ObeyedStepwise
<1>2. /\ after[0] = Controls!Fresh /\ Controls!Obeyed(logs, o) = after[n]
      /\ \A i \in 1..n : after[i] = Controls!Obey(after[i - 1], logs[o[i]])
  BY <1>0 DEF LeadThrough
<1> DEFINE S == {i \in 0..n : after[i] \in ObeyedStates}
<1>3. 0 \in S
  BY <1>1, <1>2 DEF Controls!Fresh, ObeyedStates
<1>4. ASSUME NEW i \in 1..n, i - 1 \in S PROVE i \in S
  <2>1. after[i - 1] \in ObeyedStates /\ i \in 0..n /\ o[i] \in 1..Len(logs)
    BY <1>1, <1>4
  <2>2. logs[o[i]].kind \in Controls!Kinds /\ logs[o[i]].value \in ValuesOf(logs[o[i]].kind)
    BY <2>1, LogRowTyped
  <2>3. after[i] \in ObeyedStates
    BY <1>2, <2>1, <2>2, ObeyParts
  <2> QED
    BY <2>1, <2>3
<1>5. \A i \in 0..n : after[i] \in ObeyedStates
  <2>1. \A i \in 1..n : i - 1 \in S => i \in S
    BY <1>4
  <2>2. \A i \in 0..n : i \in S
    <3> HIDE DEF S
    <3> QED
      BY <1>1, <1>3, <2>1, InductionTo
  <2> QED
    BY <2>2
<1>6. ASSUME NEW i \in 1..n
      PROVE  LET r == logs[o[i]] IN
                /\ after[i].mood = IF r.kind = "mood" THEN r.value ELSE after[i - 1].mood
                /\ after[i].music = IF r.kind = "music" THEN r.value ELSE after[i - 1].music
                /\ after[i].aroma = IF r.kind = "mood" THEN Controls!OwnAroma
                                    ELSE IF r.kind = "aroma" THEN r.value ELSE after[i - 1].aroma
  <2>1. i - 1 \in 0..n /\ o[i] \in 1..Len(logs)
    BY <1>1
  <2>2. logs[o[i]].kind \in Controls!Kinds /\ logs[o[i]].value \in ValuesOf(logs[o[i]].kind)
    BY <2>1, LogRowTyped
  <2>3. after[i - 1] \in ObeyedStates /\ after[i] = Controls!Obey(after[i - 1], logs[o[i]])
    BY <1>2, <1>5, <2>1
  <2> DEFINE r == logs[o[i]]
             s == after[i - 1]
  <2>4. s \in ObeyedStates /\ r.kind \in Controls!Kinds /\ r.value \in ValuesOf(r.kind)
    BY <2>2, <2>3
  <2> HIDE DEF r, s
  <2>5. /\ Controls!Obey(s, r).mood = IF r.kind = "mood" THEN r.value ELSE s.mood
        /\ Controls!Obey(s, r).music = IF r.kind = "music" THEN r.value ELSE s.music
        /\ Controls!Obey(s, r).aroma = IF r.kind = "mood" THEN Controls!OwnAroma
                                       ELSE IF r.kind = "aroma" THEN r.value ELSE s.aroma
    BY <2>4, ObeyParts, Zenon
  <2> QED
    BY <2>3, <2>5 DEF r, s
<1> QED
  BY <1>2, <1>5, <1>6

\* Of each kind the last row stands; a mood takes the aroma back.
LEMMA LastRowsStand ==
  ASSUME NEW logs \in ControlLogs, NEW o, NEW n, RowsInTurn(logs, o, n), NEW p \in 0..n
  PROVE  LET state == Controls!Obeyed(logs, o)
             No(k) == \A i \in (p + 1)..n : logs[o[i]].kind # k IN
         /\ state \in ObeyedStates
         /\ No("mood") /\ p = 0 => state.mood = Nil
         /\ No("mood") /\ p # 0 /\ logs[o[p]].kind = "mood" => state.mood = logs[o[p]].value
         /\ No("music") /\ p = 0 => state.music = Nil
         /\ No("music") /\ p # 0 /\ logs[o[p]].kind = "music" => state.music = logs[o[p]].value
         /\ No("aroma") /\ (p = 0 \/ logs[o[p]].kind = "mood") => state.aroma = Controls!OwnAroma
         /\ No("aroma") /\ No("mood") /\ p # 0 /\ logs[o[p]].kind = "aroma" =>
              state.aroma = logs[o[p]].value
<1> DEFINE No(k) == \A i \in (p + 1)..n : logs[o[i]].kind # k
<1>1. n \in Nat /\ n \in 0..n
  BY DEF RowsInTurn
<1>2. PICK after :
           /\ after[0] = Controls!Fresh /\ Controls!Obeyed(logs, o) = after[n]
           /\ \A i \in 0..n : after[i] \in ObeyedStates
           /\ \A i \in 1..n :
                LET r == logs[o[i]] IN
                /\ after[i].mood = IF r.kind = "mood" THEN r.value ELSE after[i - 1].mood
                /\ after[i].music = IF r.kind = "music" THEN r.value ELSE after[i - 1].music
                /\ after[i].aroma = IF r.kind = "mood" THEN Controls!OwnAroma
                                    ELSE IF r.kind = "aroma" THEN r.value ELSE after[i - 1].aroma
  BY ObeyedParts
<1>3. after[0].mood = Nil /\ after[0].music = Nil /\ after[0].aroma = Controls!OwnAroma
  BY <1>2 DEF Controls!Fresh
<1>4. (p + 1)..n \subseteq 1..n /\ (p # 0 => p \in 1..n)
  BY <1>1
<1> DEFINE moods == [i \in 0..n |-> after[i].mood]
           tunes == [i \in 0..n |-> after[i].music]
           aromas == [i \in 0..n |-> after[i].aroma]
<1>5. \A i \in (p + 1)..n : i \in 0..n /\ i - 1 \in 0..n
  BY <1>1
<1>6. No("mood") => after[n].mood = after[p].mood
  <2>1. No("mood") => \A i \in (p + 1)..n : moods[i - 1] = moods[p] => moods[i] = moods[p]
    BY <1>2, <1>4, <1>5
  <2>2. ASSUME No("mood") PROVE moods[n] = moods[p]
    <3>1. \A i \in (p + 1)..n : moods[i - 1] = moods[p] => moods[i] = moods[p]
      BY <2>1, <2>2
    <3> HIDE DEF moods
    <3> QED
      BY <1>1, <3>1, StaysSo
  <2> QED
    BY <1>1, <2>2
<1>7. No("music") => after[n].music = after[p].music
  <2>1. No("music") => \A i \in (p + 1)..n : tunes[i - 1] = tunes[p] => tunes[i] = tunes[p]
    BY <1>2, <1>4, <1>5
  <2>2. ASSUME No("music") PROVE tunes[n] = tunes[p]
    <3>1. \A i \in (p + 1)..n : tunes[i - 1] = tunes[p] => tunes[i] = tunes[p]
      BY <2>1, <2>2
    <3> HIDE DEF tunes
    <3> QED
      BY <1>1, <3>1, StaysSo
  <2> QED
    BY <1>1, <2>2
<1>8. No("aroma") /\ No("mood") => after[n].aroma = after[p].aroma
  <2>1. No("aroma") /\ No("mood") =>
          \A i \in (p + 1)..n : aromas[i - 1] = aromas[p] => aromas[i] = aromas[p]
    BY <1>2, <1>4, <1>5
  <2>2. ASSUME No("aroma"), No("mood") PROVE aromas[n] = aromas[p]
    <3>1. \A i \in (p + 1)..n : aromas[i - 1] = aromas[p] => aromas[i] = aromas[p]
      BY <2>1, <2>2
    <3> HIDE DEF aromas
    <3> QED
      BY <1>1, <3>1, StaysSo
  <2> QED
    BY <1>1, <2>2
<1>9. No("aroma") /\ (p = 0 \/ logs[o[p]].kind = "mood") => after[n].aroma = Controls!OwnAroma
  <2>1. (p = 0 \/ logs[o[p]].kind = "mood") => aromas[p] = Controls!OwnAroma
    BY <1>2, <1>3, <1>4
  <2>2. No("aroma") => \A i \in (p + 1)..n : aromas[i - 1] = Controls!OwnAroma
                                               => aromas[i] = Controls!OwnAroma
    BY <1>2, <1>4, <1>5
  <2>3. No("aroma") /\ aromas[p] = Controls!OwnAroma => aromas[n] = Controls!OwnAroma
    <3> SUFFICES ASSUME No("aroma"), aromas[p] = Controls!OwnAroma
                 PROVE  aromas[n] = Controls!OwnAroma
      OBVIOUS
    <3>1. PICK own : own = Controls!OwnAroma
      OBVIOUS
    <3>2. aromas[p] = own /\ \A i \in (p + 1)..n : aromas[i - 1] = own => aromas[i] = own
      BY <2>2, <3>1
    <3> HIDE DEF aromas
    <3>3. aromas[n] = own
      BY <1>1, <3>2, StaysSo
    <3> QED
      BY <3>1, <3>3
  <2> QED
    BY <1>1, <2>1, <2>3
<1>10. p # 0 => /\ logs[o[p]].kind = "mood" => after[p].mood = logs[o[p]].value
                /\ logs[o[p]].kind = "music" => after[p].music = logs[o[p]].value
                /\ logs[o[p]].kind = "aroma" => after[p].aroma = logs[o[p]].value
  BY <1>2, <1>4
<1> QED
  BY <1>1, <1>2, <1>3, <1>6, <1>7, <1>8, <1>9, <1>10

\* The operators of FiniteSets, as SessionControls sees them.
LEMMA ControlsFinite ==
  ASSUME NEW S
  PROVE  Controls!Cardinality(S) = Cardinality(S)
  BY DEF Controls!Cardinality, Cardinality

RowsOf(logs, id) == {i \in 1..Len(logs) : logs[i].session = id}

\* What tells rows apart whose times are the same may put the one or the other last.
RowKey(logs, rank, i) == 3 * logs[i].at + rank[i]

\* o puts the rows of a session in the order of their times and ranks.
PutsInOrder(logs, id, rank, o, n) ==
  /\ o \in Controls!Orders(logs, id) /\ RowsInTurn(logs, o, n)
  /\ \A i \in 1..n : logs[o[i]].session = id
  /\ \A r \in RowsOf(logs, id) : \E i \in 1..n : o[i] = r
  /\ \A i, j \in 1..n : i < j => /\ o[i] # o[j]
                                 /\ RowKey(logs, rank, o[i]) <= RowKey(logs, rank, o[j])

LEMMA RowKeys ==
  ASSUME NEW logs \in ControlLogs, NEW rank \in [1..Len(logs) -> 0..2],
         NEW i \in 1..Len(logs), NEW j \in 1..Len(logs)
  PROVE  /\ RowKey(logs, rank, i) \in Int /\ logs[i].at \in Nat
         /\ RowKey(logs, rank, i) <= RowKey(logs, rank, j) => logs[i].at <= logs[j].at
         /\ logs[i].at < logs[j].at => RowKey(logs, rank, i) < RowKey(logs, rank, j)
         /\ logs[i].at <= logs[j].at /\ rank[i] < rank[j]
              => RowKey(logs, rank, i) < RowKey(logs, rank, j)
<1>1. logs[i].at \in Nat /\ logs[j].at \in Nat
  BY LogRowTyped
<1>2. rank[i] \in 0..2 /\ rank[j] \in 0..2
  OBVIOUS
<1>3. PICK a \in Nat, b \in Nat : a = logs[i].at /\ b = logs[j].at
  BY <1>1
<1>4. PICK r \in 0..2, s \in 0..2 : r = rank[i] /\ s = rank[j]
  BY <1>2
<1>5. RowKey(logs, rank, i) = 3 * a + r /\ RowKey(logs, rank, j) = 3 * b + s
  BY <1>3, <1>4 DEF RowKey
<1>6. /\ 3 * a + r <= 3 * b + s => a <= b
      /\ a < b => 3 * a + r < 3 * b + s
      /\ a <= b /\ r < s => 3 * a + r < 3 * b + s
  OBVIOUS
<1>7. 3 * a + r \in Int
  OBVIOUS
<1> QED
  BY <1>3, <1>4, <1>5, <1>6, <1>7, Zenon

LEMMA OrderByRank ==
  ASSUME NEW logs \in ControlLogs, NEW id, NEW rank \in [1..Len(logs) -> 0..2]
  PROVE  \E o, n : PutsInOrder(logs, id, rank, o, n)
<1> DEFINE S == RowsOf(logs, id)
           n == Cardinality(S)
           k == [i \in S |-> RowKey(logs, rank, i)]
<1>1. Len(logs) \in Nat
  BY LenProperties DEF ControlLogs
<1>2. IsFiniteSet(S) /\ n \in Nat
  <2>1. IsFiniteSet(1..Len(logs))
    BY <1>1, FS_Interval
  <2>2. IsFiniteSet(S)
    BY <2>1, FS_Subset DEF RowsOf
  <2> QED
    BY <2>2, FS_CardinalityType
<1>3. \A i \in S : i \in 1..Len(logs) /\ logs[i].session = id
  BY DEF RowsOf
<1>5. k \in [S -> Int]
  BY <1>3, RowKeys
<1>6. \E o : GoesThrough(o, S, n, k)
  <2> HIDE DEF k, S
  <2> QED
    BY <1>2, <1>5, InOrderOfKey
<1>7. PICK o : GoesThrough(o, S, n, k)
  BY <1>6
<1>8. /\ o \in [1..n -> S]
      /\ \A i, j \in 1..n : i # j => o[i] # o[j]
      /\ \A s \in S : \E i \in 1..n : o[i] = s
      /\ \A i, j \in 1..n : i < j => k[o[i]] <= k[o[j]]
  BY <1>7 DEF GoesThrough
<1>9. \A i \in 1..n : o[i] \in S
  BY <1>8
<1>10. \A i, j \in 1..n : i < j => RowKey(logs, rank, o[i]) <= RowKey(logs, rank, o[j])
  BY <1>8, <1>9
<1>11. o \in Controls!SetToSeqs(S)
  BY <1>8, ControlsFinite DEF Controls!SetToSeqs
<1>12. \A i, j \in 1..n : i < j => logs[o[i]].at <= logs[o[j]].at
  BY <1>3, <1>9, <1>10, RowKeys
<1>13. DOMAIN o = 1..n /\ Len(o) = n
  <2>1. o \in Seq(S)
    BY <1>2, <1>8
  <2> QED
    BY <1>2, <1>8, <2>1, LenProperties
<1>14. o \in Controls!Orders(logs, id)
  BY <1>11, <1>12, <1>13 DEF Controls!Orders, RowsOf
<1>15. RowsInTurn(logs, o, n)
  BY <1>2, <1>3, <1>9, <1>13 DEF RowsInTurn
<1> HIDE DEF k, S, n
<1>16. PutsInOrder(logs, id, rank, o, n)
  BY <1>3, <1>8, <1>9, <1>10, <1>14, <1>15 DEF PutsInOrder, S
<1> QED
  BY <1>16

\* Each row of a kind comes before place q by time and rank, or is there.
AllBefore(logs, id, rank, o, q, kind) ==
  \A i \in RowsOf(logs, id) : logs[i].kind = kind =>
    q # 0 /\ (i = o[q] \/ RowKey(logs, rank, i) < RowKey(logs, rank, o[q]))

LEMMA NoneAfter ==
  ASSUME NEW logs \in ControlLogs, NEW id, NEW rank \in [1..Len(logs) -> 0..2], NEW o, NEW n,
         PutsInOrder(logs, id, rank, o, n), NEW q \in 0..n, NEW kind,
         AllBefore(logs, id, rank, o, q, kind)
  PROVE  \A i \in (q + 1)..n : logs[o[i]].kind # kind
<1> SUFFICES ASSUME NEW i \in (q + 1)..n, logs[o[i]].kind = kind PROVE FALSE
  OBVIOUS
<1>1. n \in Nat /\ \A j \in 1..n : o[j] \in 1..Len(logs)
  BY DEF PutsInOrder, RowsInTurn
<1>2. i \in 1..n /\ q < i
  BY <1>1
<1>3. o[i] \in RowsOf(logs, id)
  BY <1>1, <1>2 DEF PutsInOrder, RowsOf
<1>0. q # 0 /\ (o[i] = o[q] \/ RowKey(logs, rank, o[i]) < RowKey(logs, rank, o[q]))
  BY <1>3 DEF AllBefore
<1>4. q \in 1..n
  BY <1>0, <1>1
<1>5. o[q] # o[i] /\ RowKey(logs, rank, o[q]) <= RowKey(logs, rank, o[i])
  BY <1>2, <1>4 DEF PutsInOrder
<1>6. RowKey(logs, rank, o[q]) \in Int /\ RowKey(logs, rank, o[i]) \in Int
  BY <1>1, <1>2, <1>4, RowKeys
<1> QED
  BY <1>0, <1>5, <1>6

\* Row i, or none if i is 0, is the last of a kind.
IsLast(logs, id, kind, row, i) ==
  IF i = 0
  THEN row = Controls!NoRow /\ \A j \in RowsOf(logs, id) : logs[j].kind # kind
  ELSE /\ i \in RowsOf(logs, id) /\ logs[i].kind = kind
       /\ row.value = logs[i].value /\ row.at = logs[i].at
       /\ \A j \in RowsOf(logs, id) : logs[j].kind = kind => logs[j].at <= logs[i].at

LEMMA LatestIsLast ==
  ASSUME NEW logs \in ControlLogs, NEW id, NEW kind, NEW row \in Controls!Latest(logs, id, kind)
  PROVE  \E i \in 0..Len(logs) : IsLast(logs, id, kind, row, i)
<1> DEFINE R == Controls!Rows(logs, id, kind)
           Top == {i \in R : \A j \in R : logs[j].at <= logs[i].at}
<1>1. Len(logs) \in Nat
  BY LenProperties DEF ControlLogs
<1>2. \A i : i \in R <=> i \in RowsOf(logs, id) /\ logs[i].kind = kind
  BY DEF Controls!Rows, RowsOf
<1>3. CASE R = {}
  <2>1. row = Controls!NoRow
    BY <1>3 DEF Controls!Latest
  <2>2. IsLast(logs, id, kind, row, 0) /\ 0 \in 0..Len(logs)
    BY <1>1, <1>2, <1>3, <2>1 DEF IsLast
  <2> QED
    BY <2>2
<1>4. CASE R # {}
  <2>1. PICK i \in Top : row = [value |-> logs[i].value, at |-> logs[i].at]
    BY <1>4 DEF Controls!Latest
  <2>2. i \in 1..Len(logs)
    BY <1>2, <2>1 DEF RowsOf
  <2>3. i # 0 /\ i \in 0..Len(logs)
    BY <1>1, <2>2
  <2>4. IsLast(logs, id, kind, row, i)
    BY <1>2, <2>1, <2>3 DEF IsLast
  <2> QED
    BY <2>3, <2>4
<1> QED
  BY <1>3, <1>4

\* resolveSessionControlState, on rows each the last of its kind, derives what obeying all
\* rows in an order of their times leads to.
LEMMA ResolvedIsShown ==
  ASSUME Controls!ControlsAssumption, NEW logs \in ControlLogs, NEW id, NEW fitted, NEW moods,
         moods \subseteq Moods, NEW got,
         \A k \in Controls!Kinds : got[k] \in Controls!Latest(logs, id, k)
  PROVE  Controls!Resolved(id, got, IF got["mood"].value \in moods THEN got["mood"].value ELSE Nil,
                           fitted)
           \in Controls!Shows(fitted, moods, logs, id)
<1>1. Nil \notin Moods \cup Tunes \cup Controls!Aromas /\ Controls!OwnAroma \notin Controls!Aromas
  BY DEF Controls!ControlsAssumption
<1>2. PICK m \in 0..Len(logs) : IsLast(logs, id, "mood", got["mood"], m)
  BY LatestIsLast DEF Controls!Kinds
<1>3. PICK u \in 0..Len(logs) : IsLast(logs, id, "music", got["music"], u)
  BY LatestIsLast DEF Controls!Kinds
<1>4. PICK a \in 0..Len(logs) : IsLast(logs, id, "aroma", got["aroma"], a)
  BY LatestIsLast DEF Controls!Kinds
<1> DEFINE rank == [i \in 1..Len(logs) |-> IF i = a THEN 2 ELSE IF i \in {m, u} THEN 1 ELSE 0]
<1>5. rank \in [1..Len(logs) -> 0..2]
  OBVIOUS
<1>6. \A i \in RowsOf(logs, id) :
        /\ logs[i].kind \in {"mood", "music"} => rank[i] = IF i \in {m, u} THEN 1 ELSE 0
        /\ logs[i].kind = "aroma" => rank[i] = IF i = a THEN 2 ELSE 0
  <2>1. \A i \in RowsOf(logs, id) : i \in 1..Len(logs) /\ i # 0
    BY DEF RowsOf
  <2>2. \A i \in RowsOf(logs, id) :
          /\ i = a => logs[i].kind = "aroma"
          /\ i = m => logs[i].kind = "mood"
          /\ i = u => logs[i].kind = "music"
    BY <1>2, <1>3, <1>4, <2>1 DEF IsLast
  <2> QED
    BY <2>1, <2>2
<1> HIDE DEF rank
<1>7. PICK o, n : PutsInOrder(logs, id, rank, o, n)
  BY <1>5, OrderByRank
<1>8. n \in Nat /\ RowsInTurn(logs, o, n) /\ o \in Controls!Orders(logs, id)
  BY <1>7 DEF PutsInOrder, RowsInTurn
<1>9. ASSUME NEW i \in 0..Len(logs), i # 0 => i \in RowsOf(logs, id)
      PROVE  \E q \in 0..n : (q = 0 <=> i = 0) /\ (q # 0 => o[q] = i)
  <2>1. CASE i = 0
    BY <1>8, <2>1
  <2>2. CASE i # 0
    <3>1. PICK q \in 1..n : o[q] = i
      BY <1>7, <1>9, <2>2 DEF PutsInOrder
    <3>2. q \in 0..n /\ q # 0
      BY <1>8
    <3> QED
      BY <2>2, <3>1, <3>2
  <2> QED
    BY <2>1, <2>2
<1>10. PICK qm \in 0..n : (qm = 0 <=> m = 0) /\ (qm # 0 => o[qm] = m)
  BY <1>2, <1>9 DEF IsLast
<1>11. PICK qu \in 0..n : (qu = 0 <=> u = 0) /\ (qu # 0 => o[qu] = u)
  BY <1>3, <1>9 DEF IsLast
<1>12. PICK qa \in 0..n : (qa = 0 <=> a = 0) /\ (qa # 0 => o[qa] = a)
  BY <1>4, <1>9 DEF IsLast
<1> DEFINE state == Controls!Obeyed(logs, o)
<1>13. \A i \in RowsOf(logs, id) : i \in 1..Len(logs)
  BY DEF RowsOf
<1>25. \A i, j \in RowsOf(logs, id) :
         /\ logs[i].at <= logs[j].at /\ rank[i] < rank[j]
              => RowKey(logs, rank, i) < RowKey(logs, rank, j)
         /\ logs[i].at < logs[j].at => RowKey(logs, rank, i) < RowKey(logs, rank, j)
  BY <1>5, <1>13, RowKeys
<1>14. \A i \in (qm + 1)..n : logs[o[i]].kind # "mood"
  <2>1. ASSUME NEW i \in RowsOf(logs, id), logs[i].kind = "mood"
        PROVE  qm # 0 /\ (i = o[qm] \/ RowKey(logs, rank, i) < RowKey(logs, rank, o[qm]))
    <3>1. m # 0 /\ m \in RowsOf(logs, id) /\ logs[m].kind = "mood" /\ logs[i].at <= logs[m].at
      BY <1>2, <2>1 DEF IsLast
    <3>2. CASE i = m
      BY <1>10, <3>1, <3>2
    <3>3. CASE i # m
      <4>1. i # u
        BY <1>3, <2>1, <1>13 DEF IsLast
      <4>2. rank[i] < rank[m]
        <5>1. rank[i] = 0 /\ rank[m] = 1
          BY <1>6, <2>1, <3>1, <3>3, <4>1
        <5> QED
          BY <5>1
      <4>3. RowKey(logs, rank, i) < RowKey(logs, rank, m)
        BY <1>25, <2>1, <3>1, <4>2
      <4> QED
        BY <1>10, <3>1, <4>3
    <3> QED
      BY <3>2, <3>3
  <2>2. AllBefore(logs, id, rank, o, qm, "mood")
    BY <2>1 DEF AllBefore
  <2> QED
    BY <1>5, <1>7, <2>2, NoneAfter
<1>15. \A i \in (qu + 1)..n : logs[o[i]].kind # "music"
  <2>1. ASSUME NEW i \in RowsOf(logs, id), logs[i].kind = "music"
        PROVE  qu # 0 /\ (i = o[qu] \/ RowKey(logs, rank, i) < RowKey(logs, rank, o[qu]))
    <3>1. u # 0 /\ u \in RowsOf(logs, id) /\ logs[u].kind = "music" /\ logs[i].at <= logs[u].at
      BY <1>3, <2>1 DEF IsLast
    <3>2. CASE i = u
      BY <1>11, <3>1, <3>2
    <3>3. CASE i # u
      <4>1. i # m
        BY <1>2, <2>1, <1>13 DEF IsLast
      <4>2. rank[i] < rank[u]
        <5>1. rank[i] = 0 /\ rank[u] = 1
          BY <1>6, <2>1, <3>1, <3>3, <4>1
        <5> QED
          BY <5>1
      <4>3. RowKey(logs, rank, i) < RowKey(logs, rank, u)
        BY <1>25, <2>1, <3>1, <4>2
      <4> QED
        BY <1>11, <3>1, <4>3
    <3> QED
      BY <3>2, <3>3
  <2>2. AllBefore(logs, id, rank, o, qu, "music")
    BY <2>1 DEF AllBefore
  <2> QED
    BY <1>5, <1>7, <2>2, NoneAfter
<1>16. \A i \in (qa + 1)..n : logs[o[i]].kind # "aroma"
  <2>1. ASSUME NEW i \in RowsOf(logs, id), logs[i].kind = "aroma"
        PROVE  qa # 0 /\ (i = o[qa] \/ RowKey(logs, rank, i) < RowKey(logs, rank, o[qa]))
    <3>1. a # 0 /\ a \in RowsOf(logs, id) /\ logs[a].kind = "aroma" /\ logs[i].at <= logs[a].at
      BY <1>4, <2>1 DEF IsLast
    <3>2. CASE i = a
      BY <1>12, <3>1, <3>2
    <3>3. CASE i # a
      <4>1. rank[i] < rank[a]
        <5>1. rank[i] = 0 /\ rank[a] = 2
          BY <1>6, <2>1, <3>1, <3>3
        <5> QED
          BY <5>1
      <4>2. RowKey(logs, rank, i) < RowKey(logs, rank, a)
        BY <1>25, <2>1, <3>1, <4>1
      <4> QED
        BY <1>12, <3>1, <4>2
    <3> QED
      BY <3>2, <3>3
  <2>2. AllBefore(logs, id, rank, o, qa, "aroma")
    BY <2>1 DEF AllBefore
  <2> QED
    BY <1>5, <1>7, <2>2, NoneAfter
<1>17. state.mood = got["mood"].value
  BY <1>2, <1>8, <1>10, <1>14, LastRowsStand DEF IsLast, Controls!NoRow
<1>18. state.music = got["music"].value
  BY <1>3, <1>8, <1>11, <1>15, LastRowsStand DEF IsLast, Controls!NoRow
<1>19. m # 0 => logs[m].at \in Nat /\ got["mood"].at = logs[m].at /\ logs[m].kind = "mood"
  BY <1>2, <1>13, LogRowTyped DEF IsLast
<1>20. a # 0 => /\ logs[a].at \in Nat /\ got["aroma"].at = logs[a].at /\ logs[a].kind = "aroma"
                /\ got["aroma"].value = logs[a].value /\ logs[a].value \in Controls!Aromas
  <2> SUFFICES ASSUME a # 0
               PROVE  /\ logs[a].at \in Nat /\ got["aroma"].at = logs[a].at /\ logs[a].kind = "aroma"
                      /\ got["aroma"].value = logs[a].value /\ logs[a].value \in Controls!Aromas
    OBVIOUS
  <2>1. /\ a \in 1..Len(logs) /\ logs[a].kind = "aroma"
        /\ got["aroma"].value = logs[a].value /\ got["aroma"].at = logs[a].at
    BY <1>4, <1>13 DEF IsLast
  <2>2. logs[a].at \in Nat /\ logs[a].value \in ValuesOf(logs[a].kind)
    BY <2>1, LogRowTyped
  <2> QED
    BY <2>1, <2>2 DEF ValuesOf
<1>21. m = 0 => got["mood"] = Controls!NoRow
  BY <1>2 DEF IsLast
<1>22. a = 0 => got["aroma"] = Controls!NoRow
  BY <1>4 DEF IsLast
<1>23. CASE Controls!Override(got["aroma"], got["mood"])
  <2>1. a # 0 /\ got["aroma"].at >= got["mood"].at
    BY <1>22, <1>23 DEF Controls!Override, Controls!NoRow
  <2>2. ASSUME NEW i \in RowsOf(logs, id), logs[i].kind = "mood"
        PROVE  qa # 0 /\ (i = o[qa] \/ RowKey(logs, rank, i) < RowKey(logs, rank, o[qa]))
    <3>1. m # 0 /\ m \in 1..Len(logs) /\ logs[i].at <= logs[m].at
      BY <1>2, <1>13, <2>2 DEF IsLast
    <3>2. a \in RowsOf(logs, id)
      BY <1>4, <2>1 DEF IsLast
    <3>3. rank[i] < rank[a]
      <4>1. rank[a] = 2 /\ (rank[i] = 0 \/ rank[i] = 1)
        BY <1>6, <1>20, <2>1, <2>2, <3>2
      <4> QED
        BY <4>1
    <3>4. logs[i].at \in Nat
      BY <1>13, LogRowTyped
    <3>5. logs[i].at <= logs[a].at
      BY <1>19, <1>20, <2>1, <3>1, <3>4
    <3>6. RowKey(logs, rank, i) < RowKey(logs, rank, a)
      BY <1>25, <2>1, <3>2, <3>3, <3>5
    <3> QED
      BY <1>12, <2>1, <3>6
  <2>3. \A i \in (qa + 1)..n : logs[o[i]].kind # "mood"
    <3>1. AllBefore(logs, id, rank, o, qa, "mood")
      BY <2>2 DEF AllBefore
    <3> QED
      BY <1>5, <1>7, <3>1, NoneAfter
  <2>4. state.aroma = got["aroma"].value /\ state.aroma # Controls!OwnAroma
    BY <1>1, <1>8, <1>12, <1>16, <1>20, <2>1, <2>3, LastRowsStand
  <2>5. Controls!ShownAs(fitted, moods, id, state) =
          Controls!Resolved(id, got,
            IF got["mood"].value \in moods THEN got["mood"].value ELSE Nil, fitted)
    <3> HIDE DEF state
    <3> QED
      BY <1>17, <1>18, <1>23, <2>4 DEF Controls!ShownAs, Controls!Resolved
  <2> QED
    BY <1>8, <2>5 DEF Controls!Shows
<1>24. CASE ~Controls!Override(got["aroma"], got["mood"])
  <2>1. state.aroma = Controls!OwnAroma
    <3>1. CASE a = 0
      BY <1>8, <1>12, <1>16, <3>1, LastRowsStand
    <3>2. CASE a # 0
      <4>1. ~(got["aroma"].at >= got["mood"].at)
        BY <1>1, <1>20, <1>24, <3>2 DEF Controls!Override
      <4>2. m # 0
        BY <1>20, <1>21, <3>2, <4>1 DEF Controls!NoRow
      <4>3. logs[a].at < logs[m].at
        BY <1>19, <1>20, <3>2, <4>1, <4>2
      <4>4. ASSUME NEW i \in RowsOf(logs, id), logs[i].kind = "aroma"
            PROVE  qm # 0 /\ (i = o[qm] \/ RowKey(logs, rank, i) < RowKey(logs, rank, o[qm]))
        <5>1. logs[i].at <= logs[a].at /\ logs[i].at \in Nat /\ m \in 1..Len(logs)
          BY <1>2, <1>4, <1>13, <3>2, <4>2, <4>4, LogRowTyped DEF IsLast
        <5>2. logs[i].at < logs[m].at
          BY <1>19, <1>20, <3>2, <4>2, <4>3, <5>1
        <5>3. RowKey(logs, rank, i) < RowKey(logs, rank, m)
          BY <1>2, <1>25, <4>2, <4>4, <5>2 DEF IsLast
        <5> QED
          BY <1>10, <4>2, <5>3
      <4>5. \A i \in (qm + 1)..n : logs[o[i]].kind # "aroma"
        <5>1. AllBefore(logs, id, rank, o, qm, "aroma")
          BY <4>4 DEF AllBefore
        <5> QED
          BY <1>5, <1>7, <5>1, NoneAfter
      <4> QED
        BY <1>8, <1>10, <1>19, <4>2, <4>5, LastRowsStand
    <3> QED
      BY <3>1, <3>2
  <2>2. Controls!ShownAs(fitted, moods, id, state) =
          Controls!Resolved(id, got,
            IF got["mood"].value \in moods THEN got["mood"].value ELSE Nil, fitted)
    <3> HIDE DEF state
    <3> QED
      BY <1>1, <1>17, <1>18, <1>24, <2>1 DEF Controls!ShownAs, Controls!Resolved
  <2> QED
    BY <1>8, <2>2 DEF Controls!Shows
<1> QED
  BY <1>23, <1>24

----------------------------------------------------------------------------
(* What is shown, and what is kept of it *)

\* What may be shown of a session is a view.
LEMMA ShowsTyped ==
  ASSUME Controls!ControlsAssumption, NEW logs \in ControlLogs, NEW id \in Nat,
         NEW fitted \in BOOLEAN, NEW moods, moods \subseteq Moods
  PROVE  Controls!Shows(fitted, moods, logs, id) \subseteq Controls!Views
<1> SUFFICES ASSUME NEW o \in Controls!Orders(logs, id)
             PROVE  Controls!ShownAs(fitted, moods, id, Controls!Obeyed(logs, o)) \in Controls!Views
  BY DEF Controls!Shows
<1> DEFINE S == RowsOf(logs, id)
           n == Cardinality(S)
           state == Controls!Obeyed(logs, o)
<1>1. Len(logs) \in Nat
  BY LenProperties DEF ControlLogs
<1>2. n \in Nat
  <2>1. IsFiniteSet(1..Len(logs))
    BY <1>1, FS_Interval
  <2>2. IsFiniteSet(S)
    BY <2>1, FS_Subset DEF RowsOf
  <2> QED
    BY <2>2, FS_CardinalityType
<1>3. o \in [1..n -> S]
  BY ControlsFinite DEF Controls!Orders, Controls!SetToSeqs, RowsOf
<1>4. Len(o) = n
  <2>1. o \in Seq(S)
    BY <1>2, <1>3
  <2> QED
    BY <1>2, <1>3, <2>1, LenProperties
<1>5. RowsInTurn(logs, o, n)
  BY <1>2, <1>3, <1>4 DEF RowsInTurn, RowsOf
<1>6. state \in ObeyedStates
  <2>1. 0 \in 0..n
    BY <1>2
  <2> QED
    BY <1>5, <2>1, LastRowsStand
<1> HIDE DEF state
<1>7. /\ state.mood \in Moods \cup {Nil} /\ state.music \in Tunes \cup {Nil}
      /\ state.aroma \in Controls!Aromas \cup {Controls!OwnAroma}
  BY <1>6 DEF ObeyedStates
<1> DEFINE mood == IF state.mood \in moods THEN state.mood ELSE Nil
           aroma == IF state.aroma # Controls!OwnAroma THEN state.aroma
                    ELSE IF mood # Nil /\ fitted THEN Own[mood] ELSE Off
           mac == fitted /\ aroma # Off
<1>8. mood \in Moods \cup {Nil}
  OBVIOUS
<1>9. aroma \in Controls!Aromas
  <2>1. mood # Nil => Own[mood] \in Containers
    BY <1>8 DEF Controls!ControlsAssumption
  <2> QED
    BY <1>7, <2>1 DEF Controls!Aromas
<1>10. mac \in BOOLEAN
  OBVIOUS
<1>11. Controls!ShownAs(fitted, moods, id, state) =
         [session |-> id, mood |-> mood, aroma |-> aroma, mac |-> mac, music |-> state.music]
  BY DEF Controls!ShownAs
<1> HIDE DEF mood, aroma, mac
<1> QED
  BY <1>7, <1>8, <1>9, <1>10, <1>11 DEF Controls!Views, state

LEMMA PodParts ==
  ASSUME NEW db, NEW clock, PodTyped(db, clock)
  PROVE  /\ db = [open |-> db.open, fitted |-> db.fitted, moods |-> db.moods,
                  session |-> db.session, logs |-> db.logs]
         /\ db.open \in BOOLEAN /\ db.fitted \in BOOLEAN /\ db.moods \subseteq Moods
         /\ db.session \subseteq Controls!SessionRow /\ db.logs \in ControlLogs
         /\ \A s, q \in db.session : s = q
         /\ \A s \in db.session :
              /\ s.id \in Nat /\ s.startAt \in Nat /\ s.endAt \in Nat
              /\ s.status \in Controls!Statuses
              /\ s.status = "EMERGENCY_UNLOCKED" => s.endAt <= clock
<1>1. db \in Controls!Database /\ db.logs \in ControlLogs
  BY DEF PodTyped
<1>2. /\ db = [open |-> db.open, fitted |-> db.fitted, moods |-> db.moods,
               session |-> db.session, logs |-> db.logs]
      /\ db.open \in BOOLEAN /\ db.fitted \in BOOLEAN /\ db.moods \subseteq Moods
      /\ db.session \subseteq Controls!SessionRow
  <2> DEFINE L == Seq(Controls!LogRow)
             R == SUBSET Controls!SessionRow
  <2>1. db \in [open: BOOLEAN, fitted: BOOLEAN, moods: SUBSET Moods, session: R, logs: L]
    BY <1>1 DEF Controls!Database
  <2>2. db.session \in R
    <3> HIDE DEF L, R
    <3> QED
      BY <2>1
  <2> HIDE DEF L
  <2> QED
    BY <2>1, <2>2
<1>3. \A s \in db.session : /\ s.id \in Nat /\ s.startAt \in Nat /\ s.endAt \in Nat
                            /\ s.status \in Controls!Statuses
  BY <1>2 DEF Controls!SessionRow
<1> QED
  BY <1>1, <1>2, <1>3 DEF PodTyped

LEMMA InForceTyped ==
  ASSUME Controls!ControlsAssumption, NEW db, NEW clock, PodTyped(db, clock), NEW now
  PROVE  Controls!InForce(db, now) \subseteq Controls!Views
<1>1. Controls!NoControls \in Controls!Views
  BY DEF Controls!NoControls, Controls!Views, Controls!Aromas
<1>2. ASSUME NEW s \in Controls!Visible(db, now)
      PROVE  Controls!Shows(db.fitted, db.moods, db.logs, s.id) \subseteq Controls!Views
  <2>1. s \in db.session
    BY <1>2 DEF Controls!Visible
  <2> QED
    BY <2>1, PodParts, ShowsTyped
<1> QED
  BY <1>1, <1>2 DEF Controls!InForce

LEMMA ShowsInForce ==
  ASSUME NEW db, NEW now
  PROVE  /\ Controls!Visible(db, now) = {} => Controls!NoControls \in Controls!InForce(db, now)
         /\ \A s \in Controls!Visible(db, now) :
              Controls!Shows(db.fitted, db.moods, db.logs, s.id) \subseteq Controls!InForce(db, now)
  BY DEF Controls!InForce

\* The list's formula says whether the pod is open and nobody is in it.
LEMMA ListIsOfRunning ==
  ASSUME Controls!ControlsAssumption, NEW db, NEW clock \in Nat, PodTyped(db, clock)
  PROVE  /\ Controls!Unoccupied(db, clock) = (db.open /\ Controls!Running(db, clock) = {})
         /\ Controls!Unoccupied(db, clock) \in BOOLEAN
<1>1. \A s \in db.session :
        /\ s.startAt \in Nat /\ s.endAt \in Nat /\ s.status \in Controls!Statuses
        /\ s.status = "EMERGENCY_UNLOCKED" => s.endAt <= clock
  BY PodParts
<1>2. Delay \in Nat
  BY DEF Controls!ControlsAssumption
<1>3. ASSUME Controls!Unoccupied(db, clock) PROVE db.open /\ Controls!Running(db, clock) = {}
  <2>1. ASSUME NEW s \in Controls!Running(db, clock) PROVE FALSE
    <3>1. s \in db.session /\ s.status = "CONFIRMED" /\ s.startAt <= clock /\ s.endAt > clock
      BY <2>1 DEF Controls!Running
    <3>2. s \in Controls!Visible(db, clock)
      BY <1>1, <1>2, <3>1 DEF Controls!Visible
    <3>3. s.startAt > clock \/ s.endAt <= clock
      BY <1>3, <3>2 DEF Controls!Unoccupied
    <3> QED
      BY <1>1, <3>1, <3>3
  <2> QED
    BY <1>3, <2>1 DEF Controls!Unoccupied
<1>4. ASSUME db.open, Controls!Running(db, clock) = {} PROVE Controls!Unoccupied(db, clock)
  <2>1. ASSUME NEW s \in Controls!Visible(db, clock) PROVE s.startAt > clock \/ s.endAt <= clock
    <3>1. s \in db.session /\ s.status # "DELETED"
      BY <2>1 DEF Controls!Visible
    <3>2. ~(s.status = "CONFIRMED" /\ s.startAt <= clock /\ s.endAt > clock)
      BY <1>4, <3>1 DEF Controls!Running
    <3> QED
      BY <1>1, <3>1, <3>2 DEF Controls!Statuses
  <2> QED
    BY <1>4, <2>1 DEF Controls!Unoccupied
<1>5. db.open \in BOOLEAN
  BY PodParts
<1>6. Controls!Unoccupied(db, clock) \in BOOLEAN
  BY <1>5 DEF Controls!Unoccupied
<1>7. (db.open /\ Controls!Running(db, clock) = {}) \in BOOLEAN
  BY <1>5
<1> QED
  BY <1>3, <1>4, <1>6, <1>7

----------------------------------------------------------------------------
(* What a step adds to what a reader could have seen *)

\* Whether a step changes the pod.
PodChanges ==
  \/ x2' # x2
  \/ Controls!Visible(x2', x1') # Controls!Visible(x2, x1)
  \/ Controls!Running(x2', x1') # Controls!Running(x2, x1)

\* What a step adds to what a request could have seen.
Adds(pc, v, w, db, clock) ==
  /\ v.views \subseteq w.views /\ v.free \subseteq w.free
  /\ pc \in {"session", "logs", "preset"} => Controls!InForce(db, clock) \subseteq w.views
  /\ pc \in {"list", "sessions"} => Controls!Unoccupied(db, clock) \in w.free

LEMMA ObserveParts ==
  ASSUME Controls!Observe, x5 \in [Actors -> ViewsSeen], NEW t \in Actors
  PROVE  /\ x3'[t].pc \in {"shown", "listed"} => x5'[t] = x5[t]
         /\ x3'[t].pc \in Controls!Reading /\ x5'[t].changes <= 1 =>
              /\ Adds(x3'[t].pc, x5[t], x5'[t], x2', x1')
              /\ x5'[t].changes =
                   x5[t].changes + IF PodChanges /\ x3[t].pc \in Controls!Reading THEN 1 ELSE 0
<1> DEFINE changes == x5[t].changes + IF PodChanges /\ x3[t].pc \in Controls!Reading THEN 1 ELSE 0
           lists == x3'[t].pc \in {"list", "sessions"}
<1>1. x5'[t] =
        CASE x3'[t].pc \in {"shown", "listed"} -> x5[t]
          [] x3'[t].pc \notin Controls!Reading \cup {"shown", "listed"} -> Controls!Unseen
          [] x3'[t].pc \in Controls!Reading /\ changes > 1 -> Controls!Spoilt
          [] x3'[t].pc \in Controls!Reading /\ changes <= 1 ->
               [changes |-> changes,
                views |-> x5[t].views \cup IF lists THEN {} ELSE Controls!InForce(x2', x1'),
                free  |-> x5[t].free \cup IF lists THEN {Controls!Unoccupied(x2', x1')} ELSE {}]
  BY DEF Controls!Observe, PodChanges
<1>2. x5[t].changes \in Nat
  BY DEF ViewsSeen
<1>3. changes \in Nat
  BY <1>2
<1> HIDE DEF changes
<1>4. x3'[t].pc \in {"shown", "listed"} => x5'[t] = x5[t]
  BY <1>1 DEF Controls!Reading
<1>5. ASSUME x3'[t].pc \in Controls!Reading, x5'[t].changes <= 1
      PROVE  x5'[t] = [changes |-> changes,
                views |-> x5[t].views \cup IF lists THEN {} ELSE Controls!InForce(x2', x1'),
                free  |-> x5[t].free \cup IF lists THEN {Controls!Unoccupied(x2', x1')} ELSE {}]
  <2>1. x3'[t].pc \notin {"shown", "listed"}
    BY <1>5 DEF Controls!Reading
  <2>2. changes > 1 => x5'[t] = Controls!Spoilt
    BY <1>1, <1>3, <1>5, <2>1
  <2>3. ~(changes > 1)
    BY <1>5, <2>2 DEF Controls!Spoilt
  <2> HIDE DEF lists
  <2> QED
    BY <1>1, <1>3, <1>5, <2>1, <2>3
<1>6. ASSUME x3'[t].pc \in Controls!Reading, x5'[t].changes <= 1
      PROVE  Adds(x3'[t].pc, x5[t], x5'[t], x2', x1') /\ x5'[t].changes = changes
  <2>1. x5'[t].changes = changes
    BY <1>5, <1>6
  <2>2. /\ x5'[t].views = x5[t].views \cup IF lists THEN {} ELSE Controls!InForce(x2', x1')
        /\ x5'[t].free = x5[t].free \cup IF lists THEN {Controls!Unoccupied(x2', x1')} ELSE {}
    <3> HIDE DEF lists
    <3> QED
      BY <1>5, <1>6
  <2> QED
    BY <2>1, <2>2 DEF Adds
<1> QED
  BY <1>4, <1>6 DEF changes

LEMMA ObserveTyped ==
  ASSUME Controls!Observe, x5 \in [Actors -> ViewsSeen], Controls!InForce(x2', x1') \subseteq Controls!Views,
         Controls!Unoccupied(x2', x1') \in BOOLEAN
  PROVE  x5' \in [Actors -> ViewsSeen]
<1> DEFINE Changes(t) ==
             x5[t].changes + IF PodChanges /\ x3[t].pc \in Controls!Reading THEN 1 ELSE 0
           lists(t) == x3'[t].pc \in {"list", "sessions"}
           Value(t) ==
             CASE x3'[t].pc \in {"shown", "listed"} -> x5[t]
               [] x3'[t].pc \notin Controls!Reading \cup {"shown", "listed"} -> Controls!Unseen
               [] x3'[t].pc \in Controls!Reading /\ Changes(t) > 1 -> Controls!Spoilt
               [] x3'[t].pc \in Controls!Reading /\ Changes(t) <= 1 ->
                    [changes |-> Changes(t),
                     views |-> x5[t].views \cup IF lists(t) THEN {} ELSE Controls!InForce(x2', x1'),
                     free  |-> x5[t].free \cup IF lists(t) THEN {Controls!Unoccupied(x2', x1')} ELSE {}]
<1>1. x5' = [t \in Actors |-> Value(t)]
  BY DEF Controls!Observe, PodChanges
<1>2. ASSUME NEW t \in Actors PROVE Value(t) \in ViewsSeen
  <2>1. /\ x5[t] \in ViewsSeen
        /\ x5[t].changes \in Nat /\ x5[t].views \subseteq Controls!Views /\ x5[t].free \subseteq BOOLEAN
    BY DEF ViewsSeen
  <2> DEFINE c == Changes(t)
             vs == x5[t].views \cup IF lists(t) THEN {} ELSE Controls!InForce(x2', x1')
             fs == x5[t].free \cup IF lists(t) THEN {Controls!Unoccupied(x2', x1')} ELSE {}
             r == [changes |-> c, views |-> vs, free |-> fs]
  <2>2. c \in Nat /\ vs \subseteq Controls!Views /\ fs \subseteq BOOLEAN
    BY <2>1
  <2>3. r \in ViewsSeen
    <3> HIDE DEF c, vs, fs
    <3> QED
      BY <2>2 DEF ViewsSeen
  <2>4. Controls!Unseen \in ViewsSeen /\ Controls!Spoilt \in ViewsSeen
    BY DEF Controls!Unseen, Controls!Spoilt, ViewsSeen
  <2>5. Value(t) \in {x5[t], Controls!Unseen, Controls!Spoilt, r}
    <3>1. c > 1 \/ c <= 1
      BY <2>2
    <3> HIDE DEF c, vs, fs
    <3>2. Value(t) = CASE x3'[t].pc \in {"shown", "listed"} -> x5[t]
               [] x3'[t].pc \notin Controls!Reading \cup {"shown", "listed"} -> Controls!Unseen
               [] x3'[t].pc \in Controls!Reading /\ c > 1 -> Controls!Spoilt
               [] x3'[t].pc \in Controls!Reading /\ c <= 1 -> r
      BY DEF c, vs, fs
    <3> HIDE DEF r, Value
    <3> QED
      BY <3>1, <3>2
  <2> HIDE DEF r, Value
  <2> QED
    BY <2>1, <2>3, <2>4, <2>5
<1> HIDE DEF Value
<1> QED
  BY <1>1, <1>2

\* What is known of a pod that stays as it is is known still.
LEMMA KnowsStill ==
  ASSUME NEW c, NEW v, NEW w, NEW db, NEW now, NEW now2, ReaderKnows(c, v, db, now),
         Controls!Visible(db, now2) = Controls!Visible(db, now),
         Controls!Running(db, now2) = Controls!Running(db, now),
         Adds(c.pc, v, w, db, now2), w.changes = v.changes
  PROVE  ReaderKnows(c, w, db, now2)
<1>1. v.views \subseteq w.views /\ v.free \subseteq w.free
  BY DEF Adds
<1>2. /\ c.pc \in {"session", "logs", "preset"} => Controls!InForce(db, now2) \subseteq w.views
      /\ c.pc \in {"list", "sessions"} => Controls!Unoccupied(db, now2) \in w.free
  BY DEF Adds
<1>3. c.pc = "session" => SessionKnown(c, w, db, now2)
  BY <1>1 DEF ReaderKnows, SessionKnown
<1>4. c.pc \in {"logs", "preset"} => LogsKnown(c, w, db, now2)
  <2> SUFFICES ASSUME LogsKnown(c, v, db, now) PROVE LogsKnown(c, w, db, now2)
    BY DEF ReaderKnows
  <2>1. \A logs : Tells(logs, c, v, db) => Tells(logs, c, w, db)
    BY <1>1 DEF Tells
  <2> QED
    BY <2>1 DEF LogsKnown
<1>5. c.pc \in {"list", "sessions"} => ListKnown(c, w, db, now2)
  BY <1>1 DEF ReaderKnows, ListKnown
<1>6. /\ c.pc = "shown" => c.view \in w.views
      /\ c.pc = "listed" => c.free \in w.free
  BY <1>1 DEF ReaderKnows
<1> QED
  BY <1>2, <1>3, <1>4, <1>5, <1>6 DEF ReaderKnows

----------------------------------------------------------------------------
(* Changes of the pod *)

\* A row added to the log of another session, or of another kind, changes no answer.
LEMMA LatestUnaffected ==
  ASSUME NEW logs \in ControlLogs, NEW row, NEW id, NEW kind, row.session # id \/ row.kind # kind
  PROVE  Controls!Latest(Append(logs, row), id, kind) = Controls!Latest(logs, id, kind)
<1> DEFINE more == Append(logs, row)
<1>1. Len(logs) \in Nat /\ Len(more) = Len(logs) + 1 /\ more[Len(logs) + 1] = row
      /\ \A i \in 1..Len(logs) : more[i] = logs[i]
  <2> DEFINE R == Controls!LogRow
  <2>1. logs \in Seq(R)
    BY DEF ControlLogs
  <2>2. logs \in Seq(R \cup {row})
    <3> HIDE DEF R
    <3> QED
      BY <2>1
  <2> HIDE DEF R
  <2> QED
    BY <2>2, AppendProperties, LenProperties
<1> HIDE DEF more
<1>2. Controls!Rows(more, id, kind) = Controls!Rows(logs, id, kind)
  <2>1. \A i \in 1..Len(more) : i \in 1..Len(logs) \/ i = Len(logs) + 1
    BY <1>1
  <2>2. 1..Len(logs) \subseteq 1..Len(more)
    BY <1>1
  <2> QED
    BY <1>1, <2>1, <2>2 DEF Controls!Rows
<1>3. \A i \in Controls!Rows(logs, id, kind) : more[i] = logs[i]
  BY <1>1 DEF Controls!Rows
<1>4. {[value |-> more[i].value, at |-> more[i].at] :
         i \in {i \in Controls!Rows(logs, id, kind) :
                  \A j \in Controls!Rows(logs, id, kind) : more[j].at <= more[i].at}}
      = {[value |-> logs[i].value, at |-> logs[i].at] :
         i \in {i \in Controls!Rows(logs, id, kind) :
                  \A j \in Controls!Rows(logs, id, kind) : logs[j].at <= logs[i].at}}
  <2> DEFINE R == Controls!Rows(logs, id, kind)
             T == {i \in R : \A j \in R : more[j].at <= more[i].at}
             U == {i \in R : \A j \in R : logs[j].at <= logs[i].at}
  <2>1. T = U
    <3> HIDE DEF R
    <3> QED
      BY <1>3 DEF R
  <2>2. \A i \in U : [value |-> more[i].value, at |-> more[i].at]
                       = [value |-> logs[i].value, at |-> logs[i].at]
    BY <1>3
  <2> QED
    BY <2>1, <2>2
<1>5. Controls!Latest(more, id, kind) = Controls!Latest(logs, id, kind)
  BY <1>2, <1>4 DEF Controls!Latest
<1> QED
  BY <1>5 DEF more

\* How a step changes the pod: the clock alone; what is fitted or offered; the logs; a new
\* session; the end of the one there is.
TimePasses(db, now, db2, now2) == db2 = db /\ now2 >= now
Refitted(db, now, db2, now2) ==
  /\ now2 = now /\ db2.session = db.session /\ db2.logs = db.logs
  /\ \/ db2.open = db.open /\ db2.moods = db.moods
     \/ db2.fitted = db.fitted
Logged(db, now, db2, now2) ==
  /\ now2 = now /\ db2.session = db.session /\ db2.fitted = db.fitted /\ db2.moods = db.moods
  /\ db2.open = db.open /\ \E row : db2.logs = Append(db.logs, row)
Booked(db, now, db2, now2) ==
  /\ now2 = now /\ db2.fitted = db.fitted /\ db2.open = db.open
  /\ Controls!Bookable(db, now)
  /\ \E s : /\ db2.session = {s} /\ s.status = "CONFIRMED"
            /\ s.startAt = now + Intro /\ s.endAt = now + Intro + Length
Ended(db, now, db2, now2) ==
  /\ now2 = now /\ db2.fitted = db.fitted /\ db2.open = db.open /\ db2.moods = db.moods
  /\ db2.logs = db.logs
  /\ \E s \in db.session : \E q :
       /\ db2.session = {q} /\ q.id = s.id
       /\ \/ q.status = "DELETED"
          \/ /\ q.status = "EMERGENCY_UNLOCKED" /\ q.endAt = now
             /\ s \in Controls!Visible(db, now)

Change(db, now, db2, now2) ==
  \/ TimePasses(db, now, db2, now2) \/ Refitted(db, now, db2, now2) \/ Logged(db, now, db2, now2)
  \/ Booked(db, now, db2, now2) \/ Ended(db, now, db2, now2)

\* The first change a reader's reads overlap leaves it what it knows.
LEMMA SessionStillKnown ==
  ASSUME Controls!ControlsAssumption, NEW c, NEW v, NEW w, NEW db, NEW now \in Nat, NEW db2,
         NEW now2 \in Nat, PodTyped(db, now), PodTyped(db2, now2), Change(db, now, db2, now2),
         c.pc = "session", c.now \in Nat, c.now <= now, SessionKnown(c, v, db, now),
         v.changes = 0, w.changes = 1, Adds(c.pc, v, w, db2, now2)
  PROVE  SessionKnown(c, w, db2, now2)
<1>1. v.views \subseteq w.views /\ Controls!InForce(db2, now2) \subseteq w.views
  BY DEF Adds
<1>2. /\ Controls!Visible(db, c.now) = {} => Controls!NoControls \in v.views
      /\ \A s \in Controls!Visible(db, c.now) :
           Controls!Shows(c.fitted, db.moods, db.logs, s.id) \subseteq v.views
      /\ c.fitted = db.fitted /\ Controls!Visible(db, c.now) = Controls!Visible(db, now)
  BY DEF SessionKnown
<1>3. /\ Controls!Visible(db2, now2) = {} => Controls!NoControls \in w.views
      /\ \A s \in Controls!Visible(db2, now2) :
           Controls!Shows(db2.fitted, db2.moods, db2.logs, s.id) \subseteq w.views
  BY <1>1, ShowsInForce
<1>0. Delay \in Nat /\ Intro \in Nat /\ Length \in Nat \ {0}
  BY DEF Controls!ControlsAssumption
<1> SUFFICES /\ Controls!Visible(db2, c.now) = {} => Controls!NoControls \in w.views
             /\ \A s \in Controls!Visible(db2, c.now) :
                  Controls!Shows(c.fitted, db2.moods, db2.logs, s.id) \subseteq w.views
  BY DEF SessionKnown
<1>4. CASE TimePasses(db, now, db2, now2)
  BY <1>1, <1>2, <1>4 DEF TimePasses
<1>5. CASE db2.session = db.session /\ now2 = now
  <2>1. /\ Controls!Visible(db2, c.now) = Controls!Visible(db, c.now)
        /\ Controls!Visible(db2, now2) = Controls!Visible(db, now)
    BY <1>5 DEF Controls!Visible
  <2>2. CASE db2.fitted = db.fitted
    BY <1>2, <1>3, <2>1, <2>2
  <2>3. CASE db2.moods = db.moods /\ db2.logs = db.logs
    BY <1>1, <1>2, <2>1, <2>3
  <2> QED
    BY <1>5, <2>2, <2>3, <1>4 DEF Change, Refitted, Logged, Booked, Ended
<1>6. CASE Booked(db, now, db2, now2)
  <2>1. PICK s : /\ db2.session = {s} /\ s.status = "CONFIRMED"
                 /\ s.startAt = now + Intro /\ s.endAt = now + Intro + Length
    BY <1>6 DEF Booked
  <2>2. s.endAt > now - Delay /\ s.endAt > c.now - Delay
    <3>1. PICK a \in Nat, b \in Nat \ {0}, d \in Nat : a = Intro /\ b = Length /\ d = Delay
      BY <1>0
    <3>2. s.endAt = now + a + b
      BY <2>1, <3>1
    <3>3. now + a + b > now - d /\ now + a + b > c.now - d
      BY <3>1
    <3> QED
      BY <3>1, <3>2, <3>3
  <2>3. Controls!Visible(db2, now) = {s} /\ Controls!Visible(db2, c.now) = {s}
    BY <2>1, <2>2 DEF Controls!Visible
  <2> QED
    BY <1>2, <1>3, <1>6, <2>3 DEF Booked
<1>7. CASE Ended(db, now, db2, now2)
  <2>0. PICK s \in db.session : \E q :
       /\ db2.session = {q} /\ q.id = s.id
       /\ \/ q.status = "DELETED"
          \/ /\ q.status = "EMERGENCY_UNLOCKED" /\ q.endAt = now
             /\ s \in Controls!Visible(db, now)
    BY <1>7 DEF Ended
  <2>1. PICK q :
       /\ db2.session = {q} /\ q.id = s.id
       /\ \/ q.status = "DELETED"
          \/ /\ q.status = "EMERGENCY_UNLOCKED" /\ q.endAt = now
             /\ s \in Controls!Visible(db, now)
    BY <2>0
  <2>2. CASE q.status = "DELETED"
    <3>1. Controls!Visible(db2, now2) = {} /\ Controls!Visible(db2, c.now) = {}
      BY <2>1, <2>2 DEF Controls!Visible
    <3> QED
      BY <1>3, <3>1
  <2>3. CASE q.status = "EMERGENCY_UNLOCKED" /\ q.endAt = now /\ s \in Controls!Visible(db, now)
    <3>1. q.endAt > now - Delay => q.endAt > c.now - Delay
      BY <1>0, <2>3
    <3>2. Controls!Visible(db2, c.now) = {} => Controls!Visible(db2, now) = {}
      BY <2>1, <2>3, <3>1 DEF Controls!Visible
    <3>3. \A r \in Controls!Visible(db2, c.now) : r.id = s.id
      BY <2>1 DEF Controls!Visible
    <3> QED
      BY <1>1, <1>2, <1>3, <1>7, <2>3, <3>2, <3>3 DEF Ended
  <2> QED
    BY <2>1, <2>2, <2>3
<1> QED
  BY <1>4, <1>5, <1>6, <1>7 DEF Change, Refitted, Logged

LEMMA LogsStillKnown ==
  ASSUME NEW c, NEW v, NEW w, NEW db, NEW now, NEW db2, NEW now2,
         PodTyped(db, now), PodTyped(db2, now2), Change(db, now, db2, now2),
         c.pc \in {"logs", "preset"}, LogsKnown(c, v, db, now),
         v.changes = 0, w.changes = 1, Adds(c.pc, v, w, db2, now2)
  PROVE  LogsKnown(c, w, db2, now2)
<1>1. v.views \subseteq w.views /\ Controls!InForce(db2, now2) \subseteq w.views
  BY DEF Adds
<1>2. /\ c.fitted = db.fitted /\ Tells(db.logs, c, v, db)
      /\ \E s \in Controls!Visible(db, now) : s.id = c.session
  BY DEF LogsKnown
<1>3. PICK s \in Controls!Visible(db, now) : s.id = c.session
  BY <1>2
<1>4. /\ Controls!Shows(c.fitted, db.moods, db.logs, c.session) \subseteq v.views
      /\ \A k \in Controls!Kinds :
           IF k \in c.due
           THEN Controls!Latest(db.logs, c.session, k) \subseteq Controls!Latest(db.logs, c.session, k)
           ELSE c.got[k] \in Controls!Latest(db.logs, c.session, k)
  BY <1>2 DEF Tells
<1>5. db.logs \in ControlLogs /\ db2.logs \in ControlLogs
  BY PodParts
<1> SUFFICES \E logs \in ControlLogs : Tells(logs, c, w, db2)
  BY DEF LogsKnown
<1>6. CASE db2.logs = db.logs /\ db2.moods = db.moods
  <2>1. Tells(db.logs, c, w, db2)
    BY <1>1, <1>4, <1>6 DEF Tells
  <2> QED
    BY <1>5, <2>1
<1>7. CASE now2 = now /\ db2.session = db.session /\ db2.fitted = db.fitted
  <2>1. s \in Controls!Visible(db2, now2)
    BY <1>7 DEF Controls!Visible
  <2>2. Controls!Shows(c.fitted, db2.moods, db2.logs, c.session) \subseteq w.views
    BY <1>1, <1>2, <1>3, <1>7, <2>1, ShowsInForce
  <2>3. CASE db2.logs = db.logs
    <3>1. Tells(db2.logs, c, w, db2)
      BY <1>4, <2>2, <2>3 DEF Tells
    <3> QED
      BY <1>5, <3>1
  <2>4. CASE Logged(db, now, db2, now2)
    <3>1. PICK row : db2.logs = Append(db.logs, row)
      BY <2>4 DEF Logged
    <3>2. CASE row.session = c.session /\ row.kind \in c.due
      <4>1. \A k \in Controls!Kinds : k \notin c.due =>
              Controls!Latest(db2.logs, c.session, k) = Controls!Latest(db.logs, c.session, k)
        BY <1>5, <3>1, <3>2, LatestUnaffected
      <4>2. Tells(db2.logs, c, w, db2)
        BY <1>4, <2>2, <4>1 DEF Tells
      <4> QED
        BY <1>5, <4>2
    <3>3. CASE ~(row.session = c.session /\ row.kind \in c.due)
      <4>1. \A k \in Controls!Kinds : k \in c.due =>
              Controls!Latest(db2.logs, c.session, k) = Controls!Latest(db.logs, c.session, k)
        BY <1>5, <3>1, <3>3, LatestUnaffected
      <4>2. Tells(db.logs, c, w, db2)
        BY <1>1, <1>4, <2>4, <4>1 DEF Tells, Logged
      <4> QED
        BY <1>5, <4>2
    <3> QED
      BY <3>2, <3>3
  <2>5. Refitted(db, now, db2, now2) => db2.logs = db.logs
    BY DEF Refitted
  <2>6. TimePasses(db, now, db2, now2) => db2.logs = db.logs
    BY DEF TimePasses
  <2>7. Ended(db, now, db2, now2) => db2.logs = db.logs
    BY DEF Ended
  <2>8. ~Booked(db, now, db2, now2)
    BY <1>3 DEF Booked, Controls!Bookable
  <2> QED
    BY <2>3, <2>4, <2>5, <2>6, <2>7, <2>8 DEF Change
<1>8. ~Booked(db, now, db2, now2)
  BY <1>3 DEF Booked, Controls!Bookable
<1>9. TimePasses(db, now, db2, now2) \/ Ended(db, now, db2, now2) =>
        db2.logs = db.logs /\ db2.moods = db.moods
  BY DEF TimePasses, Ended
<1>10. Refitted(db, now, db2, now2) =>
         \/ db2.logs = db.logs /\ db2.moods = db.moods
         \/ now2 = now /\ db2.session = db.session /\ db2.fitted = db.fitted
  BY DEF Refitted
<1>11. Logged(db, now, db2, now2) => now2 = now /\ db2.session = db.session /\ db2.fitted = db.fitted
  BY DEF Logged
<1> QED
  BY <1>6, <1>7, <1>8, <1>9, <1>10, <1>11 DEF Change

LEMMA ListStillKnown ==
  ASSUME Controls!ControlsAssumption, NEW c, NEW v, NEW w, NEW db, NEW now \in Nat, NEW db2,
         NEW now2 \in Nat, PodTyped(db, now), PodTyped(db2, now2), Change(db, now, db2, now2),
         c.pc \in {"list", "sessions"}, c.now \in Nat, c.now <= now, ListKnown(c, v, db, now),
         Controls!Unoccupied(db, now) \in v.free, v.changes = 0, w.changes = 1, Adds(c.pc, v, w, db2, now2)
  PROVE  ListKnown(c, w, db2, now2)
<1> DEFINE open == IF c.pc = "list" THEN db.open ELSE c.open
           open2 == IF c.pc = "list" THEN db2.open ELSE c.open
<1>1. Controls!Running(db, c.now) = Controls!Running(db, now) /\ open = db.open
  BY DEF ListKnown
<1>2. (db.open /\ Controls!Running(db, now) = {}) \in w.free
  BY ListIsOfRunning DEF Adds
<1>3. (db2.open /\ Controls!Running(db2, now2) = {}) \in w.free
  BY ListIsOfRunning DEF Adds
<1>4. db.open \in BOOLEAN /\ db2.open \in BOOLEAN
  BY PodParts
<1> SUFFICES (open2 /\ Controls!Running(db2, c.now) = {}) \in w.free
  BY DEF ListKnown
<1>5. CASE TimePasses(db, now, db2, now2)
  BY <1>1, <1>2, <1>5 DEF TimePasses
<1>6. CASE db2.session = db.session /\ now2 = now
  <2>1. /\ Controls!Running(db2, c.now) = Controls!Running(db, c.now)
        /\ Controls!Running(db2, now2) = Controls!Running(db, now)
    BY <1>6 DEF Controls!Running
  <2> QED
    BY <1>1, <1>2, <1>3, <2>1
<1>7. CASE Booked(db, now, db2, now2)
  <2>1. PICK s : /\ db2.session = {s} /\ s.status = "CONFIRMED"
                 /\ s.startAt = now + Intro /\ s.endAt = now + Intro + Length
    BY <1>7 DEF Booked
  <2>2. open2 = TRUE /\ db.open = TRUE /\ now2 = now /\ Controls!Visible(db, now) = {}
    BY <1>1, <1>4, <1>7 DEF Booked, Controls!Bookable
  <2>3. Controls!Running(db, now) = {}
    <3>1. ASSUME NEW r \in Controls!Running(db, now) PROVE FALSE
      <4>1. r \in db.session /\ r.status = "CONFIRMED" /\ r.endAt > now /\ r.endAt \in Nat
        BY <3>1, PodParts DEF Controls!Running
      <4>2. Delay \in Nat
        BY DEF Controls!ControlsAssumption
      <4>3. r.endAt > now - Delay
        BY <4>1, <4>2
      <4> QED
        BY <2>2, <4>1, <4>3 DEF Controls!Visible
    <3> QED
      BY <3>1
  <2>4. CASE c.now = now
    BY <1>3, <1>7, <2>2, <2>4 DEF Booked
  <2>5. CASE c.now < now
    <3>1. ~(s.startAt <= c.now)
      <4>1. Intro \in Nat
        BY DEF Controls!ControlsAssumption
      <4> QED
        BY <2>1, <2>5, <4>1
    <3>2. Controls!Running(db2, c.now) = {}
      BY <2>1, <3>1 DEF Controls!Running
    <3> QED
      BY <1>2, <2>2, <2>3, <3>2
  <2> QED
    BY <2>4, <2>5
<1>8. CASE Ended(db, now, db2, now2)
  <2>1. PICK q : db2.session = {q} /\ (q.status = "DELETED" \/ q.status = "EMERGENCY_UNLOCKED")
    BY <1>8 DEF Ended
  <2>2. Controls!Running(db2, c.now) = {} /\ Controls!Running(db2, now2) = {}
    BY <2>1 DEF Controls!Running
  <2>3. open2 = db2.open
    BY <1>1, <1>8 DEF Ended
  <2> QED
    BY <1>3, <2>2, <2>3
<1> QED
  BY <1>5, <1>6, <1>7, <1>8 DEF Change, Refitted, Logged

LEMMA KnowsAfterChange ==
  ASSUME Controls!ControlsAssumption, NEW c, NEW v, NEW w, NEW db, NEW now \in Nat, NEW db2,
         NEW now2 \in Nat, PodTyped(db, now), PodTyped(db2, now2), Change(db, now, db2, now2),
         RequestTyped(c, now), ReaderKnows(c, v, db, now),
         c.pc \in Controls!Reading, v.changes = 0, w.changes = 1, Adds(c.pc, v, w, db2, now2)
  PROVE  ReaderKnows(c, w, db2, now2)
<1>1. c.pc \in {"session", "list", "sessions"} => c.now \in Nat /\ c.now <= now
  BY DEF RequestTyped, Controls!Task
<1>2. c.pc = "session" => SessionKnown(c, w, db2, now2)
  BY <1>1, SessionStillKnown DEF ReaderKnows
<1>3. c.pc \in {"logs", "preset"} => LogsKnown(c, w, db2, now2)
  BY LogsStillKnown DEF ReaderKnows
<1>4. c.pc \in {"list", "sessions"} => ListKnown(c, w, db2, now2)
  BY <1>1, ListStillKnown DEF ReaderKnows
<1>5. c.pc \notin {"shown", "listed"}
  BY DEF Controls!Reading
<1> QED
  BY <1>2, <1>3, <1>4, <1>5 DEF ReaderKnows, Adds

----------------------------------------------------------------------------
(* Steps *)

LEMMA RequestStaysTyped ==
  ASSUME NEW c, NEW now \in Nat, NEW now2 \in Nat, now <= now2, RequestTyped(c, now)
  PROVE  RequestTyped(c, now2)
<1>1. c.pc \in {"session", "list", "sessions"} => c.now \in Nat /\ c.now <= now
  BY DEF RequestTyped, Controls!Task
<1>2. c.pc \in {"session", "list", "sessions"} => c.now <= now2
  BY <1>1
<1> QED
  BY <1>2 DEF RequestTyped

\* A request that stands where it was knows what it knew, whatever happens to the pod.
LEMMA StandsKnowing ==
  ASSUME Controls!ControlsAssumption, ControlsInv, Controls!Observe, x1' \in Nat,
         PodTyped(x2', x1'), UNCHANGED <<x1, x2>> \/ Change(x2, x1, x2', x1'),
         NEW t \in Actors, x3'[t] = x3[t], x5'[t].changes <= 1
  PROVE  ReaderKnows(x3'[t], x5'[t], x2', x1')
<1>1. /\ x5 \in [Actors -> ViewsSeen] /\ x1 \in Nat /\ PodTyped(x2, x1) /\ RequestTyped(x3[t], x1)
      /\ x5[t].changes <= 1 => ReaderKnows(x3[t], x5[t], x2, x1)
  BY DEF ControlsInv, ControlsTyped
<1>2. /\ x3'[t].pc \in {"shown", "listed"} => x5'[t] = x5[t]
      /\ x3'[t].pc \in Controls!Reading =>
           /\ Adds(x3'[t].pc, x5[t], x5'[t], x2', x1')
           /\ x5'[t].changes =
                x5[t].changes + IF PodChanges /\ x3[t].pc \in Controls!Reading THEN 1 ELSE 0
  BY <1>1, ObserveParts
<1>3. x5[t].changes \in Nat
  BY <1>1 DEF ViewsSeen
<1>4. CASE x3[t].pc \in Controls!Reading
  <2>1. Adds(x3[t].pc, x5[t], x5'[t], x2', x1')
    BY <1>2, <1>4
  <2>2. CASE ~PodChanges
    <3>1. /\ x2' = x2 /\ Controls!Visible(x2', x1') = Controls!Visible(x2, x1)
          /\ Controls!Running(x2', x1') = Controls!Running(x2, x1)
      BY <2>2 DEF PodChanges
    <3>2. x5'[t].changes = x5[t].changes
      BY <1>2, <1>3, <1>4, <2>2
    <3>3. ReaderKnows(x3[t], x5[t], x2, x1)
      BY <1>1, <3>2
    <3>4. Adds(x3[t].pc, x5[t], x5'[t], x2, x1')
      BY <2>1, <3>1
    <3>5. ReaderKnows(x3[t], x5'[t], x2, x1')
      BY <3>1, <3>2, <3>3, <3>4, KnowsStill
    <3> QED
      BY <3>1, <3>5
  <2>3. CASE PodChanges
    <3>1. x5'[t].changes = x5[t].changes + 1
      BY <1>2, <1>4, <2>3
    <3>2. x5[t].changes = 0 /\ x5'[t].changes = 1
      BY <1>3, <3>1
    <3>3. ReaderKnows(x3[t], x5[t], x2, x1)
      BY <1>1, <3>2
    <3>4. Change(x2, x1, x2', x1')
      BY <2>3 DEF PodChanges
    <3> QED
      BY <1>1, <1>4, <2>1, <3>2, <3>3, <3>4, KnowsAfterChange
  <2> QED
    BY <2>2, <2>3
<1>5. CASE x3[t].pc \in {"shown", "listed"}
  <2>1. x5'[t] = x5[t]
    BY <1>2, <1>5
  <2>2. ReaderKnows(x3[t], x5[t], x2, x1)
    BY <1>1, <2>1
  <2> QED
    BY <1>5, <2>1, <2>2 DEF ReaderKnows
<1>6. CASE x3[t].pc \notin Controls!Reading \cup {"shown", "listed"}
  BY <1>6 DEF ReaderKnows, Controls!Reading
<1> QED
  BY <1>4, <1>5, <1>6

\* A statement of a request that changes nothing but the request.
LEMMA GotoKeeps ==
  ASSUME Controls!ControlsAssumption, ControlsInv, NEW t \in Actors, NEW next,
         Controls!Goto(t, next), RequestTyped(next, x1), x4' \in [DOMAIN StepBounds -> Nat],
         x5'[t].changes <= 1 => ReaderKnows(next, x5'[t], x2, x1)
  PROVE  ControlsInv'
<1>1. x1' = x1 /\ x2' = x2 /\ x3' = [x3 EXCEPT ![t] = next] /\ Controls!Observe
  BY DEF Controls!Goto
<1>2. /\ x1 \in Nat /\ PodTyped(x2, x1) /\ x3 \in [Actors -> Controls!Task]
      /\ \A u \in Actors : RequestTyped(x3[u], x1)
      /\ x5 \in [Actors -> ViewsSeen]
  BY DEF ControlsInv, ControlsTyped
<1>3. next \in Controls!Task
  BY DEF RequestTyped
<1>4. /\ x3'[t] = next /\ \A u \in Actors \ {t} : x3'[u] = x3[u]
      /\ x3' \in [Actors -> Controls!Task]
  <2> DEFINE T == Controls!Task
  <2>1. x3 \in [Actors -> T] /\ next \in T
    BY <1>2, <1>3
  <2> HIDE DEF T
  <2>2. x3' \in [Actors -> T] /\ x3'[t] = next /\ \A u \in Actors \ {t} : x3'[u] = x3[u]
    BY <1>1, <2>1
  <2> QED
    BY <2>2 DEF T
<1>5. \A u \in Actors : RequestTyped(x3'[u], x1)
  BY <1>2, <1>4
<1>6. x5' \in [Actors -> ViewsSeen]
  BY <1>1, <1>2, InForceTyped, ListIsOfRunning, ObserveTyped
<1>7. ControlsTyped'
  BY <1>1, <1>2, <1>4, <1>5, <1>6 DEF ControlsTyped
<1>8. ASSUME NEW u \in Actors, x5'[u].changes <= 1 PROVE ReaderKnows(x3'[u], x5'[u], x2', x1')
  <2>1. CASE u = t
    BY <1>1, <1>4, <1>8, <2>1
  <2>2. CASE u # t
    BY <1>1, <1>2, <1>4, <1>8, <2>2, StandsKnowing
  <2> QED
    BY <2>1, <2>2
<1> QED
  BY <1>7, <1>8 DEF ControlsInv

\* What a request's own statement adds to what it could have seen.
LEMMA GotoAdds ==
  ASSUME ControlsInv, NEW t \in Actors, NEW next, Controls!Goto(t, next), x5'[t].changes <= 1
  PROVE  /\ next.pc \in {"shown", "listed"} => x5'[t] = x5[t]
         /\ next.pc \in Controls!Reading => Adds(next.pc, x5[t], x5'[t], x2, x1)
         /\ next.pc \in Controls!Reading \cup {"shown", "listed"} => x5'[t].changes = x5[t].changes
<1>1. x1' = x1 /\ x2' = x2 /\ x3' = [x3 EXCEPT ![t] = next] /\ Controls!Observe
  BY DEF Controls!Goto
<1>2. x5 \in [Actors -> ViewsSeen] /\ x3 \in [Actors -> Controls!Task]
  BY DEF ControlsInv, ControlsTyped
<1>3. x3'[t] = next
  BY <1>1, <1>2
<1>4. ~PodChanges
  BY <1>1 DEF PodChanges
<1>5. x5[t].changes \in Nat
  BY <1>2 DEF ViewsSeen
<1>6. /\ next.pc \in {"shown", "listed"} => x5'[t] = x5[t]
      /\ next.pc \in Controls!Reading =>
           Adds(next.pc, x5[t], x5'[t], x2', x1') /\ x5'[t].changes = x5[t].changes + 0
  BY <1>1, <1>2, <1>3, <1>4, ObserveParts
<1> QED
  BY <1>1, <1>5, <1>6

\* A change of the pod, by which a request may have made its own.
LEMMA ChangeKeeps ==
  ASSUME Controls!ControlsAssumption, ControlsInv, Controls!Observe,
         Change(x2, x1, x2', x1'), x1' \in Nat, x1 <= x1', PodTyped(x2', x1'),
         x3' \in [Actors -> Controls!Task],
         \A t \in Actors : x3'[t] = x3[t] \/ x3'[t] = [pc |-> "pod"],
         x4' \in [DOMAIN StepBounds -> Nat]
  PROVE  ControlsInv'
<1>1. /\ x1 \in Nat /\ \A u \in Actors : RequestTyped(x3[u], x1)
      /\ x5 \in [Actors -> ViewsSeen]
  BY DEF ControlsInv, ControlsTyped
<1>2. \A u \in Actors : RequestTyped(x3'[u], x1')
  <2> SUFFICES ASSUME NEW u \in Actors PROVE RequestTyped(x3'[u], x1')
    OBVIOUS
  <2>1. CASE x3'[u] = x3[u]
    BY <1>1, <2>1, RequestStaysTyped
  <2>2. CASE x3'[u] = [pc |-> "pod"]
    BY <2>2 DEF RequestTyped, Controls!Task
  <2> QED
    BY <2>1, <2>2
<1>3. x5' \in [Actors -> ViewsSeen]
  BY <1>1, InForceTyped, ListIsOfRunning, ObserveTyped
<1>4. ControlsTyped'
  BY <1>2, <1>3 DEF ControlsTyped
<1>5. ASSUME NEW u \in Actors, x5'[u].changes <= 1 PROVE ReaderKnows(x3'[u], x5'[u], x2', x1')
  <2>1. CASE x3'[u] = x3[u]
    BY <1>5, <2>1, StandsKnowing
  <2>2. CASE x3'[u] = [pc |-> "pod"]
    BY <2>2 DEF ReaderKnows
  <2> QED
    BY <2>1, <2>2
<1> QED
  BY <1>4, <1>5 DEF ControlsInv

----------------------------------------------------------------------------
(* Requests: what each step reads *)

LEMMA SpendTyped ==
  ASSUME Controls!ControlsAssumption, x4 \in [DOMAIN StepBounds -> Nat], NEW k \in DOMAIN StepBounds,
         Controls!Spend(k)
  PROVE  x4' \in [DOMAIN StepBounds -> Nat]
<1>1. x4' = [x4 EXCEPT ![k] = @ + 1] /\ x4[k] \in Nat
  BY DEF Controls!Spend
<1> QED
  BY <1>1

LEMMA StepTyped ==
  ASSUME Controls!ControlsAssumption, ControlsInv, NEW t \in Actors, NEW next,
         Controls!Step(t, next) \/ Controls!Start(t, "commands", next)
           \/ Controls!Start(t, "reads", next)
  PROVE  Controls!Goto(t, next) /\ x4' \in [DOMAIN StepBounds -> Nat]
<1>1. x4 \in [DOMAIN StepBounds -> Nat]
  BY DEF ControlsInv, ControlsTyped
<1>2. "commands" \in DOMAIN StepBounds /\ "reads" \in DOMAIN StepBounds
  BY DEF Controls!ControlsAssumption
<1>3. CASE Controls!Step(t, next)
  BY <1>1, <1>3 DEF Controls!Step
<1>4. CASE Controls!Start(t, "commands", next)
  BY <1>1, <1>2, <1>4, SpendTyped DEF Controls!Start
<1>5. CASE Controls!Start(t, "reads", next)
  BY <1>1, <1>2, <1>5, SpendTyped DEF Controls!Start
<1> QED
  BY <1>3, <1>4, <1>5

\* What a request is doing, by its program counter.
LEMMA RequestParts ==
  ASSUME NEW c, NEW clock \in Nat, RequestTyped(c, clock)
  PROVE  /\ c.pc \in {"idle", "pod", "check", "append", "shown", "listed"} \cup Controls!Reading
         /\ c.pc \in {"check", "append"} =>
              /\ c = [pc |-> c.pc, command |-> c.command, session |-> c.session]
              /\ c.command \in Controls!Commands /\ c.session \in Nat
         /\ c.pc = "session" => c.fitted \in BOOLEAN
         /\ c.pc \in {"session", "list", "sessions"} => c.now \in Nat /\ c.now <= clock
         /\ c.pc \in {"logs", "preset"} =>
              /\ c.session \in Nat /\ c.fitted \in BOOLEAN /\ c.due \subseteq Controls!Kinds
              /\ c.got \in [Controls!Kinds -> Controls!Chosen]
              /\ \A k \in Controls!Kinds : c.got[k].value \in ValuesOf(k) \cup {Nil}
         /\ c.pc = "preset" => c.due = {}
         /\ c.pc = "sessions" => c.open \in BOOLEAN
<1>1. c \in Controls!Task
  BY DEF RequestTyped
<1> DEFINE C == Controls!Commands
           G == [Controls!Kinds -> Controls!Chosen]
           V == Controls!Views
           D == SUBSET Controls!Kinds
<1>2. \/ c \in [pc: {"idle", "pod"}]
      \/ c \in [pc: {"check"}, command: C, session: Nat]
      \/ c \in [pc: {"append"}, command: C, session: Nat]
      \/ c \in [pc: {"session"}, now: Nat, fitted: BOOLEAN]
      \/ c \in [pc: {"logs", "preset"}, session: Nat, fitted: BOOLEAN, due: D, got: G]
      \/ c \in [pc: {"shown"}, view: V]
      \/ c \in [pc: {"list"}, now: Nat]
      \/ c \in [pc: {"sessions"}, now: Nat, open: BOOLEAN]
      \/ c \in [pc: {"listed"}, free: BOOLEAN]
  BY <1>1 DEF Controls!Task
<1> HIDE DEF C, G, V, D
<1>3. /\ c.pc \in {"idle", "pod", "check", "append", "shown", "listed"} \cup Controls!Reading
      /\ c.pc \in {"check", "append"} =>
              /\ c = [pc |-> c.pc, command |-> c.command, session |-> c.session]
              /\ c.command \in C /\ c.session \in Nat
      /\ c.pc = "session" => c.fitted \in BOOLEAN
      /\ c.pc \in {"session", "list", "sessions"} => c.now \in Nat
      /\ c.pc \in {"logs", "preset"} =>
              /\ c.session \in Nat /\ c.fitted \in BOOLEAN /\ c.due \in D
              /\ c.got \in G
      /\ c.pc = "sessions" => c.open \in BOOLEAN
  BY <1>2 DEF Controls!Reading
<1>4. /\ c.pc \in {"session", "list", "sessions"} => c.now <= clock
      /\ c.pc = "preset" => c.due = {}
      /\ c.pc \in {"logs", "preset"} =>
           \A k \in Controls!Kinds : c.got[k].value \in ValuesOf(k) \cup {Nil}
  BY DEF RequestTyped
<1> QED
  BY <1>3, <1>4 DEF C, G, D

LEMMA InvParts ==
  ASSUME ControlsInv, NEW t \in Actors
  PROVE  /\ x1 \in Nat /\ PodTyped(x2, x1) /\ RequestTyped(x3[t], x1)
         /\ x4 \in [DOMAIN StepBounds -> Nat]
         /\ x3 \in [Actors -> Controls!Task]
         /\ x5[t].changes <= 1 => ReaderKnows(x3[t], x5[t], x2, x1)
  BY DEF ControlsInv, ControlsTyped

\* What is not a read is known nothing of.
LEMMA NotReading ==
  ASSUME NEW c, c.pc \in {"idle", "check", "append", "pod"}, NEW v, NEW db, NEW now
  PROVE  ReaderKnows(c, v, db, now)
  BY DEF ReaderKnows

LEMMA IdleKeeps ==
  ASSUME Controls!ControlsAssumption, ControlsInv, NEW t \in Actors,
         Controls!Step(t, Controls!Idle)
  PROVE  ControlsInv'
<1>1. Controls!Goto(t, Controls!Idle) /\ x4' \in [DOMAIN StepBounds -> Nat]
  BY StepTyped
<1>2. RequestTyped(Controls!Idle, x1) /\ Controls!Idle.pc = "idle"
  BY DEF RequestTyped, Controls!Idle, Controls!Task
<1> QED
  BY <1>1, <1>2, NotReading, GotoKeeps

LEMMA FindSessionKeeps ==
  ASSUME Controls!ControlsAssumption, ControlsInv, NEW t \in Actors, Controls!FindSession(t)
  PROVE  ControlsInv'
<1>1. PICK c \in Controls!Commands, s \in Controls!Controllable(x2, x1) :
        Controls!Start(t, "commands", [pc |-> "check", command |-> c, session |-> s.id])
  BY DEF Controls!FindSession
<1> DEFINE next == [pc |-> "check", command |-> c, session |-> s.id]
<1>2. s.id \in Nat
  BY InvParts, PodParts DEF Controls!Controllable
<1>3. RequestTyped(next, x1) /\ next.pc = "check"
  BY <1>2 DEF RequestTyped, Controls!Task
<1>4. Controls!Goto(t, next) /\ x4' \in [DOMAIN StepBounds -> Nat]
  BY <1>1, StepTyped
<1> HIDE DEF next
<1>5. ReaderKnows(next, x5'[t], x2, x1)
  BY <1>3, NotReading
<1> QED
  BY <1>3, <1>4, <1>5, GotoKeeps

LEMMA CheckCommandKeeps ==
  ASSUME Controls!ControlsAssumption, ControlsInv, NEW t \in Actors, Controls!Check(t)
  PROVE  ControlsInv'
<1>1. x3[t].pc = "check"
  BY DEF Controls!Check
<1> DEFINE next == [x3[t] EXCEPT !.pc = "append"]
<1>2. /\ x3[t] = [pc |-> x3[t].pc, command |-> x3[t].command, session |-> x3[t].session]
      /\ x3[t].command \in Controls!Commands /\ x3[t].session \in Nat
  BY <1>1, InvParts, RequestParts
<1>3. next = [pc |-> "append", command |-> x3[t].command, session |-> x3[t].session]
  BY <1>2
<1>4. RequestTyped(next, x1) /\ next.pc = "append"
  BY <1>2, <1>3 DEF RequestTyped, Controls!Task
<1>5. CASE Controls!Step(t, next)
  <2>1. Controls!Goto(t, next) /\ x4' \in [DOMAIN StepBounds -> Nat]
    BY <1>5, StepTyped
  <2> HIDE DEF next
  <2> QED
    BY <1>4, <2>1, NotReading, GotoKeeps
<1>6. CASE Controls!Step(t, Controls!Idle)
  BY <1>6, IdleKeeps
<1>7. Controls!Step(t, next) \/ Controls!Step(t, Controls!Idle)
  BY Zenon DEF Controls!Check
<1> QED
  BY <1>5, <1>6, <1>7

LEMMA TabletKeeps ==
  ASSUME Controls!ControlsAssumption, ControlsInv, NEW t \in Actors, Controls!TabletState(t)
  PROVE  ControlsInv'
<1> DEFINE next == [pc |-> "pod"]
<1>1. Controls!Goto(t, next) /\ x4' \in [DOMAIN StepBounds -> Nat]
  BY StepTyped DEF Controls!TabletState
<1>2. RequestTyped(next, x1) /\ next.pc = "pod"
  BY DEF RequestTyped, Controls!Task
<1> HIDE DEF next
<1> QED
  BY <1>1, <1>2, NotReading, GotoKeeps

LEMMA ReadPodKeeps ==
  ASSUME Controls!ControlsAssumption, ControlsInv, NEW t \in Actors, Controls!ReadPod(t)
  PROVE  ControlsInv'
<1> DEFINE next == [pc |-> "session", now |-> x1, fitted |-> x2.fitted]
<1>1. Controls!Goto(t, next) /\ x4' \in [DOMAIN StepBounds -> Nat]
  BY StepTyped DEF Controls!ReadPod
<1>2. x1 \in Nat /\ x2.fitted \in BOOLEAN
  BY InvParts, PodParts
<1>3. RequestTyped(next, x1) /\ next.pc = "session" /\ next.now = x1 /\ next.fitted = x2.fitted
  BY <1>2 DEF RequestTyped, Controls!Task
<1> HIDE DEF next
<1>4. ASSUME x5'[t].changes <= 1 PROVE ReaderKnows(next, x5'[t], x2, x1)
  <2>1. Adds(next.pc, x5[t], x5'[t], x2, x1)
    BY <1>1, <1>3, <1>4, GotoAdds DEF Controls!Reading
  <2>2. Controls!InForce(x2, x1) \subseteq x5'[t].views
    BY <1>3, <2>1 DEF Adds
  <2>3. SessionKnown(next, x5'[t], x2, x1)
    BY <1>3, <2>2, ShowsInForce DEF SessionKnown
  <2> QED
    BY <1>3, <2>2, <2>3 DEF ReaderKnows
<1> QED
  BY <1>1, <1>3, <1>4, GotoKeeps

LEMMA ReadSessionKeeps ==
  ASSUME Controls!ControlsAssumption, ControlsInv, NEW t \in Actors, Controls!ReadSession(t)
  PROVE  ControlsInv'
<1>1. /\ x3[t].pc = "session" /\ x3[t].now \in Nat /\ x3[t].now <= x1 /\ x3[t].fitted \in BOOLEAN
      /\ x1 \in Nat /\ PodTyped(x2, x1)
  BY InvParts, RequestParts DEF Controls!ReadSession
<1>2. x5[t].changes <= 1 =>
        SessionKnown(x3[t], x5[t], x2, x1) /\ Controls!InForce(x2, x1) \subseteq x5[t].views
  BY <1>1, InvParts DEF ReaderKnows
<1>3. CASE /\ Controls!Visible(x2, x3[t].now) = {}
           /\ Controls!Step(t, [pc |-> "shown", view |-> Controls!NoControls])
  <2> DEFINE next == [pc |-> "shown", view |-> Controls!NoControls]
  <2>1. Controls!Goto(t, next) /\ x4' \in [DOMAIN StepBounds -> Nat]
    BY <1>3, StepTyped
  <2>2. Controls!NoControls \in Controls!Views
    BY DEF Controls!NoControls, Controls!Views, Controls!Aromas
  <2>3. RequestTyped(next, x1) /\ next.pc = "shown" /\ next.view = Controls!NoControls
    BY <2>2 DEF RequestTyped, Controls!Task
  <2> HIDE DEF next
  <2>4. ASSUME x5'[t].changes <= 1 PROVE ReaderKnows(next, x5'[t], x2, x1)
    <3>1. x5'[t] = x5[t]
      BY <2>1, <2>3, <2>4, GotoAdds
    <3>2. Controls!NoControls \in x5[t].views
      BY <1>2, <1>3, <2>4, <3>1 DEF SessionKnown
    <3> QED
      BY <2>3, <3>1, <3>2 DEF ReaderKnows
  <2> QED
    BY <2>1, <2>3, <2>4, GotoKeeps
<1>4. ASSUME NEW s \in Controls!Visible(x2, x3[t].now),
             Controls!Step(t, [pc |-> "logs", session |-> s.id, fitted |-> x3[t].fitted,
                               due |-> Controls!Kinds,
                               got |-> [k \in Controls!Kinds |-> Controls!NoRow]])
      PROVE  ControlsInv'
  <2> DEFINE got == [k \in Controls!Kinds |-> Controls!NoRow]
             next == [pc |-> "logs", session |-> s.id, fitted |-> x3[t].fitted,
                      due |-> Controls!Kinds, got |-> got]
  <2>1. Controls!Goto(t, next) /\ x4' \in [DOMAIN StepBounds -> Nat]
    BY <1>4, StepTyped
  <2>2. s.id \in Nat
    BY <1>1, <1>4, PodParts DEF Controls!Visible
  <2>3. got \in [Controls!Kinds -> Controls!Chosen] /\ \A k \in Controls!Kinds : got[k].value = Nil
    BY DEF Controls!NoRow, Controls!Chosen
  <2> HIDE DEF got
  <2>4. /\ RequestTyped(next, x1) /\ next.pc = "logs" /\ next.due = Controls!Kinds
        /\ next.session = s.id /\ next.fitted = x3[t].fitted
    <3> DEFINE G == [Controls!Kinds -> Controls!Chosen]
    <3>1. next \in Controls!Task
      <4>1. got \in G
        BY <2>3
      <4> HIDE DEF G
      <4>2. next \in [pc: {"logs", "preset"}, session: Nat, fitted: BOOLEAN,
                      due: SUBSET Controls!Kinds, got: G]
        BY <1>1, <2>2, <4>1
      <4> QED
        BY <4>2 DEF Controls!Task, G
    <3> QED
      BY <2>3, <3>1 DEF RequestTyped
  <2> HIDE DEF next
  <2>5. ASSUME x5'[t].changes <= 1 PROVE ReaderKnows(next, x5'[t], x2, x1)
    <3>1. Adds(next.pc, x5[t], x5'[t], x2, x1) /\ x5'[t].changes = x5[t].changes
      BY <2>1, <2>4, <2>5, GotoAdds DEF Controls!Reading
    <3>2. x5[t].views \subseteq x5'[t].views /\ Controls!InForce(x2, x1) \subseteq x5'[t].views
      BY <2>4, <3>1 DEF Adds
    <3>3. Controls!Shows(next.fitted, x2.moods, x2.logs, next.session) \subseteq x5'[t].views
      BY <1>2, <1>4, <2>4, <2>5, <3>1, <3>2 DEF SessionKnown
    <3>4. Tells(x2.logs, next, x5'[t], x2)
      BY <2>4, <3>3 DEF Tells
    <3>5. x5'[t].changes = 0 => /\ next.fitted = x2.fitted
                                /\ \E q \in Controls!Visible(x2, x1) : q.id = next.session
      BY <1>2, <1>4, <2>4, <3>1 DEF SessionKnown
    <3>6. x2.logs \in ControlLogs
      BY <1>1, PodParts
    <3>7. LogsKnown(next, x5'[t], x2, x1)
      BY <3>4, <3>5, <3>6 DEF LogsKnown
    <3> QED
      BY <2>4, <3>2, <3>7 DEF ReaderKnows
  <2> QED
    BY <2>1, <2>4, <2>5, GotoKeeps
<1> QED
  BY <1>3, <1>4 DEF Controls!ReadSession

\* The last row of a kind has a value of the kind.
LEMMA LatestTyped ==
  ASSUME NEW logs \in ControlLogs, NEW id, NEW kind \in Controls!Kinds,
         NEW row \in Controls!Latest(logs, id, kind)
  PROVE  row \in Controls!Chosen /\ row.value \in ValuesOf(kind) \cup {Nil}
<1>1. PICK i \in 0..Len(logs) : IsLast(logs, id, kind, row, i)
  BY LatestIsLast
<1>2. CASE i = 0
  BY <1>1, <1>2 DEF IsLast, Controls!NoRow, Controls!Chosen
<1>3. CASE i # 0
  <2>1. i \in 1..Len(logs) /\ logs[i].kind = kind /\ row.value = logs[i].value /\ row.at = logs[i].at
    BY <1>1, <1>3 DEF IsLast, RowsOf
  <2>2. logs[i].value \in ValuesOf(kind) /\ logs[i].at \in Nat
    BY <2>1, LogRowTyped
  <2>3. row = [value |-> row.value, at |-> row.at]
    <3>1. Controls!Latest(logs, id, kind) # {Controls!NoRow} \/ row = Controls!NoRow
      OBVIOUS
    <3> QED
      BY <3>1 DEF Controls!Latest, Controls!NoRow
  <2>4. ValuesOf(kind) \subseteq Moods \cup Controls!Aromas \cup Tunes
    BY DEF ValuesOf, Controls!Kinds
  <2> QED
    BY <2>1, <2>2, <2>3, <2>4 DEF Controls!Chosen
<1> QED
  BY <1>2, <1>3

LEMMA ResolvedTyped ==
  ASSUME Controls!ControlsAssumption, NEW id \in Nat, NEW fitted \in BOOLEAN, NEW got,
         NEW preset \in Moods \cup {Nil},
         \A k \in Controls!Kinds : got[k].value \in ValuesOf(k) \cup {Nil}
  PROVE  Controls!Resolved(id, got, preset, fitted) \in Controls!Views
<1>1. /\ got["aroma"].value \in Controls!Aromas \cup {Nil}
      /\ got["music"].value \in Tunes \cup {Nil}
  BY DEF Controls!Kinds, ValuesOf
<1> DEFINE aroma == IF Controls!Override(got["aroma"], got["mood"]) THEN got["aroma"].value
                    ELSE IF preset # Nil /\ fitted THEN Own[preset]
                    ELSE Off
           mac == fitted /\ aroma # Off
<1>2. aroma \in Controls!Aromas
  <2>1. preset # Nil => Own[preset] \in Containers
    BY DEF Controls!ControlsAssumption
  <2> QED
    BY <1>1, <2>1 DEF Controls!Override, Controls!Aromas
<1>3. mac \in BOOLEAN
  OBVIOUS
<1>4. Controls!Resolved(id, got, preset, fitted) =
        [session |-> id, mood |-> preset, aroma |-> aroma, mac |-> mac, music |-> got["music"].value]
  BY DEF Controls!Resolved
<1> HIDE DEF aroma, mac
<1> QED
  BY <1>1, <1>2, <1>3, <1>4 DEF Controls!Views

LEMMA ReadLogKeeps ==
  ASSUME Controls!ControlsAssumption, ControlsInv, NEW t \in Actors, Controls!ReadLog(t)
  PROVE  ControlsInv'
<1> DEFINE c == x3[t]
<1>0. PICK kind \in c.due : \E row \in Controls!Latest(x2.logs, c.session, kind) :
        Controls!Step(t, [pc |-> IF c.due = {kind} THEN "preset" ELSE "logs",
                          session |-> c.session, fitted |-> c.fitted,
                          due |-> c.due \ {kind}, got |-> [c.got EXCEPT ![kind] = row]])
  BY DEF Controls!ReadLog
<1>1. PICK row \in Controls!Latest(x2.logs, c.session, kind) :
        Controls!Step(t, [pc |-> IF c.due = {kind} THEN "preset" ELSE "logs",
                          session |-> c.session, fitted |-> c.fitted,
                          due |-> c.due \ {kind}, got |-> [c.got EXCEPT ![kind] = row]])
  BY <1>0
<1>2. /\ c.pc = "logs" /\ c.session \in Nat /\ c.fitted \in BOOLEAN /\ c.due \subseteq Controls!Kinds
      /\ c.got \in [Controls!Kinds -> Controls!Chosen]
      /\ \A k \in Controls!Kinds : c.got[k].value \in ValuesOf(k) \cup {Nil}
      /\ PodTyped(x2, x1)
  BY InvParts, RequestParts DEF Controls!ReadLog
<1> DEFINE pc == IF c.due = {kind} THEN "preset" ELSE "logs"
           due == c.due \ {kind}
           got == [c.got EXCEPT ![kind] = row]
           next == [pc |-> pc, session |-> c.session, fitted |-> c.fitted, due |-> due, got |-> got]
<1>3. Controls!Goto(t, next) /\ x4' \in [DOMAIN StepBounds -> Nat]
  BY <1>1, StepTyped
<1>4. x2.logs \in ControlLogs
  BY <1>2, PodParts
<1>5. kind \in Controls!Kinds /\ row \in Controls!Chosen /\ row.value \in ValuesOf(kind) \cup {Nil}
  BY <1>1, <1>2, <1>4, LatestTyped
<1>6. /\ got \in [Controls!Kinds -> Controls!Chosen] /\ got[kind] = row
      /\ \A k \in Controls!Kinds \ {kind} : got[k] = c.got[k]
  <2> DEFINE K == Controls!Kinds
             H == Controls!Chosen
  <2>1. c.got \in [K -> H] /\ kind \in K /\ row \in H
    BY <1>2, <1>5
  <2> HIDE DEF K, H, c
  <2>2. got \in [K -> H] /\ got[kind] = row /\ \A k \in K \ {kind} : got[k] = c.got[k]
    BY <2>1
  <2> QED
    BY <2>2 DEF K, H
<1>7. pc \in {"logs", "preset"} /\ due \subseteq Controls!Kinds /\ (pc = "preset" => due = {})
  BY <1>2
<1> HIDE DEF got, pc, due
<1>8. /\ RequestTyped(next, x1) /\ next.pc = pc /\ next.session = c.session /\ next.fitted = c.fitted
      /\ next.due = due /\ next.got = got
  <2> DEFINE G == [Controls!Kinds -> Controls!Chosen]
  <2>1. next \in Controls!Task
    <3>1. got \in G
      BY <1>6
    <3> HIDE DEF G
    <3>2. next \in [pc: {"logs", "preset"}, session: Nat, fitted: BOOLEAN,
                    due: SUBSET Controls!Kinds, got: G]
      BY <1>2, <1>7, <3>1
    <3> QED
      BY <3>2 DEF Controls!Task, G
  <2>2. \A k \in Controls!Kinds : got[k].value \in ValuesOf(k) \cup {Nil}
    BY <1>2, <1>5, <1>6
  <2> QED
    BY <1>7, <2>1, <2>2 DEF RequestTyped
<1> HIDE DEF next
<1>9. ASSUME NEW logs, Tells(logs, c, x5[t], x2), x5[t].views \subseteq x5'[t].views
      PROVE  Tells(logs, next, x5'[t], x2)
  <2>1. /\ Controls!Shows(c.fitted, x2.moods, logs, c.session) \subseteq x5[t].views
        /\ \A k \in Controls!Kinds :
             IF k \in c.due
             THEN Controls!Latest(x2.logs, c.session, k) \subseteq Controls!Latest(logs, c.session, k)
             ELSE c.got[k] \in Controls!Latest(logs, c.session, k)
    BY <1>9 DEF Tells
  <2>2. \A k \in Controls!Kinds :
          /\ k \in due => k \in c.due
          /\ k \notin due => k = kind \/ (k \notin c.due /\ got[k] = c.got[k])
    <3>1. \A k \in Controls!Kinds : k \in due <=> k \in c.due /\ k # kind
      BY DEF due
    <3> HIDE DEF c
    <3> QED
      BY <1>6, <3>1
  <2>3. got[kind] \in Controls!Latest(logs, c.session, kind)
    BY <1>1, <1>5, <1>6, <2>1
  <2> QED
    BY <1>8, <1>9, <2>1, <2>2, <2>3 DEF Tells
<1>10. ASSUME x5'[t].changes <= 1 PROVE ReaderKnows(next, x5'[t], x2, x1)
  <2>1. Adds(next.pc, x5[t], x5'[t], x2, x1) /\ x5'[t].changes = x5[t].changes
    BY <1>3, <1>7, <1>8, <1>10, GotoAdds DEF Controls!Reading
  <2>2. x5[t].views \subseteq x5'[t].views /\ Controls!InForce(x2, x1) \subseteq x5'[t].views
    BY <1>7, <1>8, <2>1 DEF Adds
  <2>3. LogsKnown(c, x5[t], x2, x1)
    BY <1>2, <1>10, <2>1, InvParts DEF ReaderKnows
  <2>4. LogsKnown(next, x5'[t], x2, x1)
    <3>1. \E logs \in ControlLogs : Tells(logs, next, x5'[t], x2)
      BY <1>9, <2>2, <2>3 DEF LogsKnown
    <3>2. x5'[t].changes = 0 =>
            /\ next.fitted = x2.fitted /\ Tells(x2.logs, next, x5'[t], x2)
            /\ \E s \in Controls!Visible(x2, x1) : s.id = next.session
      BY <1>8, <1>9, <2>1, <2>2, <2>3 DEF LogsKnown
    <3> QED
      BY <3>1, <3>2 DEF LogsKnown
  <2> QED
    BY <1>7, <1>8, <2>2, <2>4 DEF ReaderKnows
<1> QED
  BY <1>3, <1>8, <1>10, GotoKeeps

LEMMA ReadPresetKeeps ==
  ASSUME Controls!ControlsAssumption, ControlsInv, NEW t \in Actors, Controls!ReadPreset(t)
  PROVE  ControlsInv'
<1> DEFINE c == x3[t]
           chosen == c.got["mood"].value
           preset == IF chosen \in x2.moods THEN chosen ELSE Nil
           view == Controls!Resolved(c.session, c.got, preset, c.fitted)
           next == [pc |-> "shown", view |-> view]
<1>1. c.pc = "preset" /\ Controls!Step(t, next)
  BY DEF Controls!ReadPreset
<1>2. /\ c.session \in Nat /\ c.fitted \in BOOLEAN /\ c.due = {}
      /\ \A k \in Controls!Kinds : c.got[k].value \in ValuesOf(k) \cup {Nil}
      /\ PodTyped(x2, x1)
  BY <1>1, InvParts, RequestParts
<1>3. x2.moods \subseteq Moods
  BY <1>2, PodParts
<1>4. Controls!Goto(t, next) /\ x4' \in [DOMAIN StepBounds -> Nat]
  BY <1>1, StepTyped
<1>5. view \in Controls!Views
  <2>1. preset \in Moods \cup {Nil}
    BY <1>3
  <2> HIDE DEF preset
  <2> QED
    BY <1>2, <2>1, ResolvedTyped
<1> HIDE DEF view
<1>6. RequestTyped(next, x1) /\ next.pc = "shown" /\ next.view = view
  BY <1>5 DEF RequestTyped, Controls!Task
<1> HIDE DEF next
<1>7. ASSUME x5'[t].changes <= 1 PROVE ReaderKnows(next, x5'[t], x2, x1)
  <2>1. x5'[t] = x5[t]
    BY <1>4, <1>6, <1>7, GotoAdds
  <2>2. LogsKnown(c, x5[t], x2, x1)
    BY <1>1, <1>7, <2>1, InvParts DEF ReaderKnows
  <2>3. PICK logs \in ControlLogs : Tells(logs, c, x5[t], x2)
    BY <2>2 DEF LogsKnown
  <2>4. /\ Controls!Shows(c.fitted, x2.moods, logs, c.session) \subseteq x5[t].views
        /\ \A k \in Controls!Kinds : c.got[k] \in Controls!Latest(logs, c.session, k)
    BY <1>2, <2>3 DEF Tells
  <2>5. view \in Controls!Shows(c.fitted, x2.moods, logs, c.session)
    BY <1>3, <2>4, ResolvedIsShown DEF view
  <2> QED
    BY <1>6, <2>1, <2>4, <2>5 DEF ReaderKnows
<1> QED
  BY <1>4, <1>6, <1>7, GotoKeeps

LEMMA AskKeeps ==
  ASSUME Controls!ControlsAssumption, ControlsInv, NEW t \in Actors, Controls!AskForPods(t)
  PROVE  ControlsInv'
<1> DEFINE next == [pc |-> "list", now |-> x1]
<1>1. Controls!Goto(t, next) /\ x4' \in [DOMAIN StepBounds -> Nat]
  BY StepTyped DEF Controls!AskForPods
<1>2. x1 \in Nat /\ PodTyped(x2, x1)
  BY InvParts
<1>3. RequestTyped(next, x1) /\ next.pc = "list" /\ next.now = x1
  BY <1>2 DEF RequestTyped, Controls!Task
<1> HIDE DEF next
<1>4. ASSUME x5'[t].changes <= 1 PROVE ReaderKnows(next, x5'[t], x2, x1)
  <2>1. Adds(next.pc, x5[t], x5'[t], x2, x1)
    BY <1>1, <1>3, <1>4, GotoAdds DEF Controls!Reading
  <2>2. Controls!Unoccupied(x2, x1) \in x5'[t].free
    BY <1>3, <2>1 DEF Adds
  <2>3. (x2.open /\ Controls!Running(x2, x1) = {}) \in x5'[t].free
    BY <1>2, <2>2, ListIsOfRunning
  <2>4. ListKnown(next, x5'[t], x2, x1)
    BY <1>3, <2>3 DEF ListKnown
  <2> QED
    BY <1>3, <2>2, <2>4 DEF ReaderKnows
<1> QED
  BY <1>1, <1>3, <1>4, GotoKeeps

LEMMA ReadPodsKeeps ==
  ASSUME Controls!ControlsAssumption, ControlsInv, NEW t \in Actors, Controls!ReadPods(t)
  PROVE  ControlsInv'
<1> DEFINE c == x3[t]
           next == [pc |-> "sessions", now |-> c.now, open |-> x2.open]
<1>1. Controls!Goto(t, next) /\ x4' \in [DOMAIN StepBounds -> Nat]
  BY StepTyped DEF Controls!ReadPods
<1>2. c.pc = "list" /\ c.now \in Nat /\ c.now <= x1 /\ x2.open \in BOOLEAN
  BY InvParts, RequestParts, PodParts DEF Controls!ReadPods
<1>3. RequestTyped(next, x1) /\ next.pc = "sessions" /\ next.now = c.now /\ next.open = x2.open
  BY <1>2 DEF RequestTyped, Controls!Task
<1> HIDE DEF next
<1>4. ASSUME x5'[t].changes <= 1 PROVE ReaderKnows(next, x5'[t], x2, x1)
  <2>1. Adds(next.pc, x5[t], x5'[t], x2, x1) /\ x5'[t].changes = x5[t].changes
    BY <1>1, <1>3, <1>4, GotoAdds DEF Controls!Reading
  <2>2. Controls!Unoccupied(x2, x1) \in x5'[t].free /\ x5[t].free \subseteq x5'[t].free
    BY <1>3, <2>1 DEF Adds
  <2>3. ListKnown(c, x5[t], x2, x1)
    BY <1>2, <1>4, <2>1, InvParts DEF ReaderKnows
  <2>4. ListKnown(next, x5'[t], x2, x1)
    BY <1>2, <1>3, <2>1, <2>2, <2>3 DEF ListKnown
  <2> QED
    BY <1>3, <2>2, <2>4 DEF ReaderKnows
<1> QED
  BY <1>1, <1>3, <1>4, GotoKeeps

LEMMA ReadSessionsKeeps ==
  ASSUME Controls!ControlsAssumption, ControlsInv, NEW t \in Actors, Controls!ReadSessions(t)
  PROVE  ControlsInv'
<1> DEFINE c == x3[t]
           free == c.open /\ Controls!Running(x2, c.now) = {}
           next == [pc |-> "listed", free |-> free]
<1>1. Controls!Goto(t, next) /\ x4' \in [DOMAIN StepBounds -> Nat]
  BY StepTyped DEF Controls!ReadSessions
<1>2. c.pc = "sessions" /\ c.open \in BOOLEAN
  BY InvParts, RequestParts DEF Controls!ReadSessions
<1>3. free \in BOOLEAN
  BY <1>2
<1> HIDE DEF free
<1>4. RequestTyped(next, x1) /\ next.pc = "listed" /\ next.free = free
  BY <1>3 DEF RequestTyped, Controls!Task
<1> HIDE DEF next
<1>5. ASSUME x5'[t].changes <= 1 PROVE ReaderKnows(next, x5'[t], x2, x1)
  <2>1. x5'[t] = x5[t]
    BY <1>1, <1>4, <1>5, GotoAdds
  <2>2. ListKnown(c, x5[t], x2, x1)
    BY <1>2, <1>5, <2>1, InvParts DEF ReaderKnows
  <2>3. free \in x5[t].free
    BY <1>2, <2>2 DEF ListKnown, free
  <2> QED
    BY <1>4, <2>1, <2>3 DEF ReaderKnows
<1> QED
  BY <1>1, <1>4, <1>5, GotoKeeps

LEMMA FinishRequestKeeps ==
  ASSUME Controls!ControlsAssumption, ControlsInv, NEW t \in Actors, Controls!Finish(t)
  PROVE  ControlsInv'
<1>1. Controls!Step(t, Controls!Idle)
  BY DEF Controls!Finish
<1> QED
  BY <1>1, IdleKeeps

----------------------------------------------------------------------------
(* Writes of the pod, its session and its logs *)

LEMMA AppendedTyped ==
  ASSUME NEW logs \in ControlLogs, NEW row \in Controls!LogRow, row.value \in ValuesOf(row.kind)
  PROVE  Append(logs, row) \in ControlLogs
<1> DEFINE R == Controls!LogRow
<1>1. logs \in Seq(R) /\ \A i \in 1..Len(logs) : logs[i].value \in ValuesOf(logs[i].kind)
  BY DEF ControlLogs
<1>2. row \in R
  OBVIOUS
<1>3. /\ Append(logs, row) \in Seq(R) /\ Len(Append(logs, row)) = Len(logs) + 1 /\ Len(logs) \in Nat
      /\ Append(logs, row)[Len(logs) + 1] = row
      /\ \A i \in 1..Len(logs) : Append(logs, row)[i] = logs[i]
  <2> HIDE DEF R
  <2> QED
    BY <1>1, <1>2, AppendProperties, LenProperties
<1> HIDE DEF R
<1>4. ASSUME NEW i \in 1..Len(Append(logs, row))
      PROVE  Append(logs, row)[i].value \in ValuesOf(Append(logs, row)[i].kind)
  <2>1. i \in 1..Len(logs) \/ i = Len(logs) + 1
    BY <1>3
  <2> QED
    BY <1>1, <1>3, <2>1
<1> QED
  BY <1>3, <1>4 DEF ControlLogs, R

\* A pod made of parts of the right types.
LEMMA PodMade ==
  ASSUME NEW clock, NEW open \in BOOLEAN, NEW fitted \in BOOLEAN, NEW moods, moods \subseteq Moods,
         NEW session, session \subseteq Controls!SessionRow, NEW logs \in ControlLogs,
         \A s, q \in session : s = q,
         \A s \in session : s.status = "EMERGENCY_UNLOCKED" => s.endAt <= clock
  PROVE  PodTyped([open |-> open, fitted |-> fitted, moods |-> moods, session |-> session,
                   logs |-> logs], clock)
<1> DEFINE L == Seq(Controls!LogRow)
           S == SUBSET Controls!SessionRow
<1>1. logs \in L /\ session \in S
  BY DEF ControlLogs
<1>2. [open |-> open, fitted |-> fitted, moods |-> moods, session |-> session, logs |-> logs]
        \in [open: BOOLEAN, fitted: BOOLEAN, moods: SUBSET Moods, session: S, logs: L]
  <2> HIDE DEF L, S
  <2> QED
    BY <1>1
<1> QED
  BY <1>2 DEF PodTyped, Controls!Database

LEMMA PodNow ==
  ASSUME ControlsInv
  PROVE  /\ x2 = [open |-> x2.open, fitted |-> x2.fitted, moods |-> x2.moods,
                  session |-> x2.session, logs |-> x2.logs]
         /\ x2.open \in BOOLEAN /\ x2.fitted \in BOOLEAN /\ x2.moods \subseteq Moods
         /\ x2.session \subseteq Controls!SessionRow /\ x2.logs \in ControlLogs
         /\ \A s, q \in x2.session : s = q
         /\ \A s \in x2.session : s.status = "EMERGENCY_UNLOCKED" => s.endAt <= x1
<1>1. PodTyped(x2, x1)
  BY DEF ControlsInv, ControlsTyped
<1> QED
  BY <1>1, PodParts

LEMMA AppendLogKeeps ==
  ASSUME Controls!ControlsAssumption, ControlsInv, NEW t \in Actors, Controls!AppendLog(t)
  PROVE  ControlsInv'
<1> DEFINE c == x3[t].command
           row == [session |-> x3[t].session, kind |-> c.kind, value |-> c.value, at |-> x1]
<1>1. /\ x3[t].pc = "append" /\ x2' = [x2 EXCEPT !.logs = Append(@, row)]
      /\ x3' = [x3 EXCEPT ![t] = [pc |-> "pod"]] /\ x1' = x1 /\ x4' = x4 /\ Controls!Observe
  BY DEF Controls!AppendLog
<1>2. x1 \in Nat /\ PodTyped(x2, x1) /\ x4 \in [DOMAIN StepBounds -> Nat]
      /\ x3 \in [Actors -> Controls!Task]
  BY InvParts
<1>3. c \in Controls!Commands /\ x3[t].session \in Nat
  BY <1>1, InvParts, RequestParts
<1>4. c.kind \in Controls!Kinds /\ c.value \in ValuesOf(c.kind)
      /\ c.value \in Moods \cup Controls!Aromas \cup Tunes
  BY <1>3 DEF Controls!Commands, Controls!Kinds, ValuesOf
<1>5. row \in Controls!LogRow /\ row.value \in ValuesOf(row.kind)
  BY <1>2, <1>3, <1>4 DEF Controls!LogRow
<1> HIDE DEF row
<1>6. x2' = [open |-> x2.open, fitted |-> x2.fitted, moods |-> x2.moods, session |-> x2.session,
             logs |-> Append(x2.logs, row)]
  <2>1. x2 = [open |-> x2.open, fitted |-> x2.fitted, moods |-> x2.moods,
              session |-> x2.session, logs |-> x2.logs]
    BY PodNow
  <2> QED
    BY <1>1, <2>1
<1>7. Append(x2.logs, row) \in ControlLogs
  BY <1>2, <1>5, PodParts, AppendedTyped
<1>8. PodTyped(x2', x1')
  <2>1. PodTyped([open |-> x2.open, fitted |-> x2.fitted, moods |-> x2.moods,
                  session |-> x2.session, logs |-> Append(x2.logs, row)], x1)
    BY <1>2, <1>7, PodNow, PodMade
  <2> QED
    BY <1>1, <1>6, <2>1
<1>9. Change(x2, x1, x2', x1')
  BY <1>1, <1>6 DEF Change, Logged
<1>10. x3' \in [Actors -> Controls!Task] /\ \A u \in Actors : x3'[u] = x3[u] \/ x3'[u] = [pc |-> "pod"]
  <2> DEFINE T == Controls!Task
  <2>1. x3 \in [Actors -> T] /\ [pc |-> "pod"] \in T
    BY <1>2 DEF Controls!Task
  <2> HIDE DEF T
  <2>2. x3' \in [Actors -> T] /\ \A u \in Actors : x3'[u] = x3[u] \/ x3'[u] = [pc |-> "pod"]
    BY <1>1, <2>1
  <2> QED
    BY <2>2 DEF T
<1> QED
  BY <1>1, <1>2, <1>8, <1>9, <1>10, ChangeKeeps

\* The administrators', the clients' and the scheduler's changes of a pod.
LEMMA SpentKeeps ==
  ASSUME Controls!ControlsAssumption, ControlsInv, NEW k \in DOMAIN StepBounds, NEW next,
         Controls!Change(k, next), PodTyped(next, x1), Change(x2, x1, next, x1)
  PROVE  ControlsInv'
<1>1. /\ Controls!Spend(k) /\ x2' = next /\ x1' = x1 /\ x3' = x3 /\ Controls!Observe
  BY DEF Controls!Change
<1>2. x1 \in Nat /\ x4 \in [DOMAIN StepBounds -> Nat] /\ x3 \in [Actors -> Controls!Task]
  BY DEF ControlsInv, ControlsTyped
<1>3. x4' \in [DOMAIN StepBounds -> Nat]
  BY <1>1, <1>2, SpendTyped
<1>4. x1 <= x1'
  BY <1>1, <1>2
<1> QED
  BY <1>1, <1>2, <1>3, <1>4, ChangeKeeps

LEMMA BookKeeps ==
  ASSUME Controls!ControlsAssumption, ControlsInv, Controls!Book
  PROVE  ControlsInv'
<1>1. PICK m \in x2.moods :
       LET id  == x4.bookings + 1
           s   == [id |-> id, startAt |-> x1 + Intro,
                   endAt |-> x1 + Intro + Length, status |-> "CONFIRMED"]
           row == [session |-> id, kind |-> "mood", value |-> m, at |-> x1]
       IN  Controls!Change("bookings", [[x2 EXCEPT !.session = {s}] EXCEPT !.logs = Append(@, row)])
  BY DEF Controls!Book
<1> DEFINE id  == x4.bookings + 1
           s   == [id |-> id, startAt |-> x1 + Intro,
                   endAt |-> x1 + Intro + Length, status |-> "CONFIRMED"]
           row == [session |-> id, kind |-> "mood", value |-> m, at |-> x1]
           next == [[x2 EXCEPT !.session = {s}] EXCEPT !.logs = Append(@, row)]
<1>2. Controls!Change("bookings", next)
  BY <1>1
<1>3. /\ x1 \in Nat /\ PodTyped(x2, x1) /\ x4 \in [DOMAIN StepBounds -> Nat]
      /\ "bookings" \in DOMAIN StepBounds /\ Intro \in Nat /\ Length \in Nat
  BY DEF Controls!ControlsAssumption, ControlsInv, ControlsTyped
<1>4. id \in Nat
  BY <1>3
<1> HIDE DEF id
<1>5. m \in Moods
  BY <1>3, PodParts
<1>6. row \in Controls!LogRow /\ row.value \in ValuesOf(row.kind)
  BY <1>3, <1>4, <1>5 DEF Controls!LogRow, Controls!Kinds, ValuesOf
<1>7. s \in Controls!SessionRow /\ s.status = "CONFIRMED"
  <2>1. x1 + Intro \in Nat /\ x1 + Intro + Length \in Nat
    BY <1>3
  <2> QED
    BY <1>4, <2>1 DEF Controls!SessionRow, Controls!Statuses
<1>8. s.startAt = x1 + Intro /\ s.endAt = x1 + Intro + Length
  OBVIOUS
<1> HIDE DEF s, row
<1>9. next = [open |-> x2.open, fitted |-> x2.fitted, moods |-> x2.moods, session |-> {s},
              logs |-> Append(x2.logs, row)]
  <2>1. PICK d : d = [x2 EXCEPT !.session = {s}]
    OBVIOUS
  <2>2. d = [open |-> x2.open, fitted |-> x2.fitted, moods |-> x2.moods, session |-> {s},
             logs |-> x2.logs]
    <3>1. x2 = [open |-> x2.open, fitted |-> x2.fitted, moods |-> x2.moods,
                session |-> x2.session, logs |-> x2.logs]
      BY PodNow
    <3> QED
      BY <2>1, <3>1
  <2>3. next = [d EXCEPT !.logs = Append(@, row)]
    BY <2>1
  <2> HIDE DEF next
  <2> QED
    BY <2>2, <2>3
<1>10. Append(x2.logs, row) \in ControlLogs
  BY <1>3, <1>6, PodParts, AppendedTyped
<1>11. PodTyped(next, x1)
  <2>1. /\ {s} \subseteq Controls!SessionRow
        /\ \A r, p \in {s} : r = p
        /\ \A r \in {s} : r.status = "EMERGENCY_UNLOCKED" => r.endAt <= x1
    BY <1>7
  <2>2. PodTyped([open |-> x2.open, fitted |-> x2.fitted, moods |-> x2.moods,
                  session |-> {s}, logs |-> Append(x2.logs, row)], x1)
    BY <1>10, <2>1, PodNow, PodMade
  <2> QED
    BY <1>9, <2>2
<1>12. Change(x2, x1, next, x1)
  BY <1>7, <1>8, <1>9 DEF Change, Booked, Controls!Book
<1> QED
  BY <1>2, <1>3, <1>11, <1>12, SpentKeeps

LEMMA UnlockKeeps ==
  ASSUME Controls!ControlsAssumption, ControlsInv, Controls!Unlock
  PROVE  ControlsInv'
<1>1. PICK s \in Controls!Controllable(x2, x1) :
        Controls!Change("changes",
           [x2 EXCEPT !.session = {[id |-> s.id, startAt |-> s.startAt, endAt |-> x1,
                                    status |-> "EMERGENCY_UNLOCKED"]}])
  BY DEF Controls!Unlock
<1> DEFINE q == [id |-> s.id, startAt |-> s.startAt, endAt |-> x1, status |-> "EMERGENCY_UNLOCKED"]
           next == [x2 EXCEPT !.session = {q}]
<1>2. /\ x1 \in Nat /\ PodTyped(x2, x1) /\ "changes" \in DOMAIN StepBounds /\ Delay \in Nat
  BY DEF Controls!ControlsAssumption, ControlsInv, ControlsTyped
<1>3. /\ s \in x2.session /\ s.status = "CONFIRMED" /\ s.endAt > x1
      /\ s.id \in Nat /\ s.startAt \in Nat /\ s.endAt \in Nat
  BY <1>2, PodParts DEF Controls!Controllable
<1>4. s \in Controls!Visible(x2, x1)
  <2>1. s.endAt > x1 - Delay
    BY <1>2, <1>3
  <2> QED
    BY <1>3, <2>1 DEF Controls!Visible
<1>5. /\ q \in Controls!SessionRow /\ q.status = "EMERGENCY_UNLOCKED" /\ q.endAt = x1 /\ q.id = s.id
  BY <1>2, <1>3 DEF Controls!SessionRow, Controls!Statuses
<1> HIDE DEF q
<1>6. next = [open |-> x2.open, fitted |-> x2.fitted, moods |-> x2.moods, session |-> {q},
              logs |-> x2.logs]
  BY <1>2, PodParts
<1>7. PodTyped(next, x1)
  <2>1. q.endAt <= x1
    BY <1>2, <1>5
  <2> QED
    BY <1>2, <1>5, <1>6, <2>1, PodParts, PodMade
<1>8. Change(x2, x1, next, x1)
  BY <1>3, <1>4, <1>5, <1>6 DEF Change, Ended
<1>9. Controls!Change("changes", next)
  BY <1>1 DEF q
<1> QED
  BY <1>2, <1>7, <1>8, <1>9, SpentKeeps

LEMMA DeleteSessionKeeps ==
  ASSUME Controls!ControlsAssumption, ControlsInv, Controls!DeleteSession
  PROVE  ControlsInv'
<1>1. PICK s \in x2.session :
        Controls!Change("changes", [x2 EXCEPT !.session = {[s EXCEPT !.status = "DELETED"]}])
  BY DEF Controls!DeleteSession
<1> DEFINE q == [s EXCEPT !.status = "DELETED"]
           next == [x2 EXCEPT !.session = {q}]
<1>2. /\ x1 \in Nat /\ PodTyped(x2, x1) /\ "changes" \in DOMAIN StepBounds
  BY DEF Controls!ControlsAssumption, ControlsInv, ControlsTyped
<1>3. s \in Controls!SessionRow
  BY <1>2, PodParts
<1>4. q \in Controls!SessionRow /\ q.status = "DELETED" /\ q.id = s.id
  BY <1>3 DEF Controls!SessionRow, Controls!Statuses
<1> HIDE DEF q
<1>5. next = [open |-> x2.open, fitted |-> x2.fitted, moods |-> x2.moods, session |-> {q},
              logs |-> x2.logs]
  BY <1>2, PodParts
<1>6. PodTyped(next, x1)
  <2>1. /\ {q} \subseteq Controls!SessionRow
        /\ \A r, p \in {q} : r = p
        /\ \A r \in {q} : r.status = "EMERGENCY_UNLOCKED" => r.endAt <= x1
    BY <1>4
  <2>2. PodTyped([open |-> x2.open, fitted |-> x2.fitted, moods |-> x2.moods,
                  session |-> {q}, logs |-> x2.logs], x1)
    BY <2>1, PodNow, PodMade
  <2> QED
    BY <1>5, <2>2
<1>7. Change(x2, x1, next, x1)
  BY <1>4, <1>5 DEF Change, Ended
<1>8. Controls!Change("changes", next)
  BY <1>1 DEF q
<1> QED
  BY <1>2, <1>6, <1>7, <1>8, SpentKeeps

LEMMA SwitchesKeep ==
  ASSUME Controls!ControlsAssumption, ControlsInv,
         Controls!SwitchPod \/ Controls!SwitchDiffuser \/ Controls!SwitchMood
  PROVE  ControlsInv'
<1>1. /\ x1 \in Nat /\ PodTyped(x2, x1) /\ "changes" \in DOMAIN StepBounds
  BY DEF Controls!ControlsAssumption, ControlsInv, ControlsTyped
<1>2. ASSUME NEW open \in BOOLEAN, NEW fitted \in BOOLEAN, NEW moods, moods \subseteq Moods,
             (open = x2.open /\ moods = x2.moods) \/ fitted = x2.fitted,
             Controls!Change("changes", [open |-> open, fitted |-> fitted, moods |-> moods,
                                         session |-> x2.session, logs |-> x2.logs])
      PROVE  ControlsInv'
  <2> DEFINE next == [open |-> open, fitted |-> fitted, moods |-> moods,
                      session |-> x2.session, logs |-> x2.logs]
  <2>1. PodTyped(next, x1)
    BY <1>2, PodNow, PodMade
  <2>2. Change(x2, x1, next, x1)
    BY <1>2 DEF Change, Refitted
  <2> QED
    BY <1>1, <1>2, <2>1, <2>2, SpentKeeps
<1>3. x2.open \in BOOLEAN /\ x2.fitted \in BOOLEAN /\ x2.moods \subseteq Moods
  BY <1>1, PodParts
<1>4. x2 = [open |-> x2.open, fitted |-> x2.fitted, moods |-> x2.moods,
            session |-> x2.session, logs |-> x2.logs]
  BY <1>1, PodParts
<1>5. CASE Controls!SwitchPod
  <2>1. [x2 EXCEPT !.open = ~@] = [open |-> ~x2.open, fitted |-> x2.fitted, moods |-> x2.moods,
                                   session |-> x2.session, logs |-> x2.logs]
    BY <1>4
  <2>2. Controls!Change("changes", [x2 EXCEPT !.open = ~@])
    BY <1>5 DEF Controls!SwitchPod
  <2>3. (~x2.open) \in BOOLEAN
    OBVIOUS
  <2> QED
    BY <1>2, <1>3, <2>1, <2>2, <2>3
<1>6. CASE Controls!SwitchDiffuser
  <2>1. [x2 EXCEPT !.fitted = ~@] = [open |-> x2.open, fitted |-> ~x2.fitted, moods |-> x2.moods,
                                     session |-> x2.session, logs |-> x2.logs]
    BY <1>4
  <2>2. Controls!Change("changes", [x2 EXCEPT !.fitted = ~@])
    BY <1>6 DEF Controls!SwitchDiffuser
  <2>3. (~x2.fitted) \in BOOLEAN
    OBVIOUS
  <2> QED
    BY <1>2, <1>3, <2>1, <2>2, <2>3
<1>7. CASE Controls!SwitchMood
  <2>1. PICK m \in Moods :
          Controls!Change("changes", [x2 EXCEPT !.moods = IF m \in @ THEN @ \ {m} ELSE @ \cup {m}])
    BY <1>7 DEF Controls!SwitchMood
  <2> DEFINE moods == IF m \in x2.moods THEN x2.moods \ {m} ELSE x2.moods \cup {m}
  <2>2. moods \subseteq Moods
    BY <1>3
  <2>3. [x2 EXCEPT !.moods = moods] = [open |-> x2.open, fitted |-> x2.fitted, moods |-> moods,
                                       session |-> x2.session, logs |-> x2.logs]
    <3> HIDE DEF moods
    <3> QED
      BY <1>4
  <2>4. Controls!Change("changes", [x2 EXCEPT !.moods = moods])
    BY <2>1
  <2> HIDE DEF moods
  <2> QED
    BY <1>2, <1>3, <2>2, <2>3, <2>4
<1> QED
  BY <1>5, <1>6, <1>7

LEMMA ClockKeeps ==
  ASSUME Controls!ControlsAssumption, ControlsInv, Controls!Tick
  PROVE  ControlsInv'
<1>1. /\ x1' = x1 + 1 /\ x2' = x2 /\ x3' = x3 /\ x4' = x4 /\ Controls!Observe
  BY DEF Controls!Tick
<1>2. /\ x1 \in Nat /\ PodTyped(x2, x1) /\ x4 \in [DOMAIN StepBounds -> Nat]
      /\ x3 \in [Actors -> Controls!Task]
  BY DEF ControlsInv, ControlsTyped
<1>3. x1' \in Nat /\ x1 <= x1' /\ x1' >= x1 /\ x3' \in [Actors -> Controls!Task]
      /\ x4' \in [DOMAIN StepBounds -> Nat]
  BY <1>1, <1>2
<1>4. PodTyped(x2', x1')
  <2>1. \A s \in x2.session : s.status = "EMERGENCY_UNLOCKED" => s.endAt <= x1'
    BY <1>2, <1>3, PodParts
  <2> QED
    BY <1>1, <1>2, <2>1 DEF PodTyped
<1>5. Change(x2, x1, x2', x1')
  BY <1>1, <1>3 DEF Change, TimePasses
<1>6. \A t \in Actors : x3'[t] = x3[t] \/ x3'[t] = [pc |-> "pod"]
  BY <1>1
<1>7. Controls!Observe
  BY <1>1
<1> QED
  BY <1>3, <1>4, <1>5, <1>6, <1>7, ChangeKeeps

----------------------------------------------------------------------------
(* All steps *)

\* What the pod is when a behaviour begins with a session that has begun.
LEMMA OccupiedTyped ==
  ASSUME Controls!ControlsAssumption, Occupied
  PROVE  x1 \in Nat /\ PodTyped(x2, x1) /\ x4 \in [DOMAIN StepBounds -> Nat]
<1>0. Intro \in Nat /\ Length \in Nat
  BY DEF Controls!ControlsAssumption
<1>1. PICK m \in Moods, a \in Controls!Aromas :
       x2 = [open |-> TRUE, fitted |-> TRUE, moods |-> Moods,
             session |-> {[id |-> 1, startAt |-> Intro, endAt |-> Intro + Length, status |-> "CONFIRMED"]},
             logs |-> <<[session |-> 1, kind |-> "mood", value |-> m, at |-> 0],
                        [session |-> 1, kind |-> "aroma", value |-> a, at |-> Intro]>>]
  BY DEF Occupied
<1> DEFINE s == [id |-> 1, startAt |-> Intro, endAt |-> Intro + Length, status |-> "CONFIRMED"]
           r1 == [session |-> 1, kind |-> "mood", value |-> m, at |-> 0]
           r2 == [session |-> 1, kind |-> "aroma", value |-> a, at |-> Intro]
           logs == <<r1, r2>>
<1>2. s \in Controls!SessionRow /\ s.status = "CONFIRMED"
  <2>1. Intro + Length \in Nat
    BY <1>0
  <2> QED
    BY <1>0, <2>1 DEF Controls!SessionRow, Controls!Statuses
<1>3. /\ r1 \in Controls!LogRow /\ r1.value \in ValuesOf(r1.kind)
      /\ r2 \in Controls!LogRow /\ r2.value \in ValuesOf(r2.kind)
  BY <1>0 DEF Controls!LogRow, Controls!Kinds, ValuesOf
<1> HIDE DEF s, r1, r2
<1>4. logs \in ControlLogs
  <2> DEFINE R == Controls!LogRow
  <2>1. r1 \in R /\ r2 \in R
    BY <1>3
  <2> HIDE DEF R
  <2>2. logs \in Seq(R) /\ Len(logs) = 2 /\ logs[1] = r1 /\ logs[2] = r2
    BY <2>1
  <2>3. \A i \in 1..Len(logs) : i = 1 \/ i = 2
    BY <2>2
  <2> HIDE DEF logs
  <2> QED
    BY <1>3, <2>2, <2>3 DEF ControlLogs, R
<1> HIDE DEF logs
<1>5. PodTyped([open |-> TRUE, fitted |-> TRUE, moods |-> Moods, session |-> {s}, logs |-> logs], x1)
  <2>1. /\ {s} \subseteq Controls!SessionRow
        /\ \A r, p \in {s} : r = p
        /\ \A r \in {s} : r.status = "EMERGENCY_UNLOCKED" => r.endAt <= x1
    BY <1>2
  <2> QED
    BY <1>4, <2>1, PodMade
<1>6. PodTyped(x2, x1)
  BY <1>1, <1>5 DEF s, logs, r1, r2
<1>7. x4 \in [DOMAIN StepBounds -> Nat]
  <2>1. StepBounds \in [{"commands", "bookings", "changes", "reads"} -> Nat]
    BY DEF Controls!ControlsAssumption
  <2>2. x4 = [StepBounds EXCEPT !.commands = 0, !.changes = 0, !.reads = 0]
    BY DEF Occupied
  <2>3. PICK b : b = [StepBounds EXCEPT !["commands"] = 0]
    OBVIOUS
  <2>4. PICK d : d = [b EXCEPT !["changes"] = 0]
    OBVIOUS
  <2>5. x4 = [d EXCEPT !["reads"] = 0]
    BY <2>2, <2>3, <2>4
  <2>6. b \in [{"commands", "bookings", "changes", "reads"} -> Nat]
    BY <2>1, <2>3
  <2>7. d \in [{"commands", "bookings", "changes", "reads"} -> Nat]
    BY <2>4, <2>6
  <2> QED
    BY <2>1, <2>5, <2>7
<1> QED
  BY <1>0, <1>6, <1>7 DEF Occupied

LEMMA ControlsBegin ==
  ASSUME Controls!ControlsAssumption, Controls!Init \/ Occupied
  PROVE  ControlsInv
<1>1. x1 \in Nat /\ PodTyped(x2, x1) /\ x4 \in [DOMAIN StepBounds -> Nat]
  <2>1. CASE Controls!Init
    <3>1. <<>> \in ControlLogs
      BY DEF ControlLogs
    <3>2. PodTyped([open |-> TRUE, fitted |-> TRUE, moods |-> Moods, session |-> {},
                    logs |-> <<>>], x1)
      <4>1. Moods \subseteq Moods /\ TRUE \in BOOLEAN
        OBVIOUS
      <4>2. PICK none : none = {}
        OBVIOUS
      <4>3. /\ none \subseteq Controls!SessionRow
            /\ \A s, q \in none : s = q
            /\ \A s \in none : s.status = "EMERGENCY_UNLOCKED" => s.endAt <= x1
        BY <4>2
      <4>4. PodTyped([open |-> TRUE, fitted |-> TRUE, moods |-> Moods, session |-> none,
                      logs |-> <<>>], x1)
        BY <3>1, <4>1, <4>3, PodMade
      <4> QED
        BY <4>2, <4>4
    <3> QED
      BY <2>1, <3>2 DEF Controls!Init
  <2> QED
    BY <2>1, OccupiedTyped
<1>2. x3 = [t \in Actors |-> Controls!Idle] /\ x5 = [t \in Actors |-> Controls!Unseen]
  BY DEF Controls!Init, Occupied
<1>3. /\ RequestTyped(Controls!Idle, x1) /\ Controls!Idle \in Controls!Task
      /\ Controls!Idle.pc = "idle"
  BY DEF RequestTyped, Controls!Idle, Controls!Task
<1>4. Controls!Unseen \in ViewsSeen
  BY DEF Controls!Unseen, ViewsSeen
<1>5. x3 \in [Actors -> Controls!Task] /\ x5 \in [Actors -> ViewsSeen]
  <2> DEFINE T == Controls!Task
             V == ViewsSeen
  <2>1. Controls!Idle \in T /\ Controls!Unseen \in V
    BY <1>3, <1>4
  <2> HIDE DEF T, V
  <2>2. x3 \in [Actors -> T] /\ x5 \in [Actors -> V]
    BY <1>2, <2>1
  <2> QED
    BY <2>2 DEF T, V
<1>6. \A t \in Actors : RequestTyped(x3[t], x1)
  BY <1>2, <1>3
<1>7. \A t \in Actors : ReaderKnows(x3[t], x5[t], x2, x1)
  BY <1>2, <1>3, NotReading
<1> QED
  BY <1>1, <1>5, <1>6, <1>7 DEF ControlsInv, ControlsTyped

LEMMA ControlsKeep ==
  ASSUME Controls!ControlsAssumption, ControlsInv, Controls!Next
  PROVE  ControlsInv'
<1>1. CASE \E t \in Actors :
            \/ Controls!FindSession(t) \/ Controls!Check(t) \/ Controls!AppendLog(t)
            \/ Controls!TabletState(t) \/ Controls!ReadPod(t) \/ Controls!ReadSession(t)
            \/ Controls!ReadLog(t) \/ Controls!ReadPreset(t)
            \/ Controls!AskForPods(t) \/ Controls!ReadPods(t) \/ Controls!ReadSessions(t)
            \/ Controls!Finish(t)
  BY <1>1, FindSessionKeeps, CheckCommandKeeps, AppendLogKeeps, TabletKeeps, ReadPodKeeps,
     ReadSessionKeeps, ReadLogKeeps, ReadPresetKeeps, AskKeeps, ReadPodsKeeps, ReadSessionsKeeps,
     FinishRequestKeeps
<1>2. CASE Controls!Book \/ Controls!Unlock \/ Controls!DeleteSession \/ Controls!SwitchPod
           \/ Controls!SwitchDiffuser \/ Controls!SwitchMood \/ Controls!Tick
  BY <1>2, BookKeeps, UnlockKeeps, DeleteSessionKeeps, SwitchesKeep, ClockKeeps
<1> QED
  BY <1>1, <1>2 DEF Controls!Next

LEMMA ControlsSteps ==
  /\ Init => (part = "controls" => ControlsInv)
  /\ (part = "controls" => ControlsInv) /\ [Next]_<<part, slots>> =>
       (part = "controls" => ControlsInv)'
<1>0. Controls!ControlsAssumption
  BY ServicesAssumption DEF ServicesAssumption
<1>1. Init => (part = "controls" => ControlsInv)
  BY <1>0, ControlsBegin DEF Init
<1>2. ASSUME part = "controls" => ControlsInv, [Next]_<<part, slots>>, part' = "controls"
      PROVE  ControlsInv'
  <2>1. CASE RunControls
    BY <1>0, <1>2, <2>1, ControlsKeep DEF RunControls
  <2>2. CASE UNCHANGED <<part, slots>>
    <3>1. /\ ControlsInv /\ x1' = x1 /\ x2' = x2 /\ x3' = x3 /\ x4' = x4 /\ x5' = x5
      BY <1>2, <2>2 DEF slots
    <3> QED
      BY <3>1 DEF ControlsInv, ControlsTyped
  <2> QED
    BY <1>2, <2>1, <2>2 DEF Next, RunRecords, RunMigrations, RunPolling, RunCookies, RunRoles,
                            RunCatalog, RunCrons, RunMusic, RunListing
<1> QED
  BY <1>1, <1>2

\* What a command or the tablet is answered was in force at a moment of its reads, as long as
\* no more than one change overlapped them, and a pod listed as free was open and unoccupied at
\* a moment of the list's two reads: whatever rows of a kind, in whatever order, the logs hold.
THEOREM AnswersInForce == Spec => []AnsweredInForce
<1>1. (part = "controls" => ControlsInv) => AnsweredInForce
  BY DEF AnsweredInForce, ControlsInv, ReaderKnows, Controls!ShownWasInForce, Controls!ListedIsTrue
<1> QED
  BY <1>1, ControlsSteps, PTL DEF Spec

----------------------------------------------------------------------------
(* The types of all components *)

LEMMA ControlsTypes ==
  ASSUME ControlsInv PROVE Controls!TypeOK
<1>1. /\ x1 \in Nat /\ x2 \in Controls!Database /\ x3 \in [Actors -> Controls!Task]
      /\ x5 \in [Actors -> ViewsSeen] /\ \A s, q \in x2.session : s = q
  BY DEF ControlsInv, ControlsTyped, PodTyped
<1>2. Cardinality(x2.session) <= 1
  <2>1. CASE x2.session = {}
    BY <2>1, FS_EmptySet
  <2>2. CASE x2.session # {}
    <3>1. PICK s \in x2.session : TRUE
      BY <2>2
    <3>2. x2.session = {s}
      BY <1>1, <3>1
    <3>3. Cardinality({s}) = 1
      BY FS_Singleton, Zenon
    <3> QED
      BY <3>2, <3>3
  <2> QED
    BY <2>1, <2>2
<1>3. Controls!Cardinality(x2.session) <= 1
  BY <1>2, ControlsFinite
<1> QED
  BY <1>1, <1>3 DEF Controls!TypeOK, ViewsSeen

LEMMA MigrationRunsTyped ==
  ASSUME MigrationsInv PROVE Migrations!TypeOK
<1>1. MigrationTypes
  BY DEF MigrationsInv, MigrationsTyped
<1>2. ASSUME NEW c \in MigrationRun
      PROVE  c \in Migrations!Run \/ \E touched \in SUBSET Objects : c \in Migrations!Transaction(touched)
  <2>1. CASE c.pc # "body"
    BY <1>2, <2>1 DEF MigrationRun, Migrations!Run
  <2>2. CASE c.pc = "body"
    <3>1. c \in [pc: {"body"}, applied: SUBSET Migrations!Steps, last: Nat, at: Migrations!Steps,
                 i: Nat \ {0}, tx: UNION {[touched -> Migrations!Value] : touched \in SUBSET Objects}]
      BY <1>2, <2>2 DEF MigrationRun
    <3>2. PICK touched \in SUBSET Objects : c.tx \in [touched -> Migrations!Value]
      BY <3>1
    <3> QED
      BY <3>1, <3>2 DEF Migrations!Transaction
  <2> QED
    BY <2>1, <2>2
<1> QED
  BY <1>1, <1>2 DEF MigrationTypes, MigrationDbs, Migrations!TypeOK

\* The gateway's polls leave its cookies alone, and its cookies the polls.
PollsPart ==
  /\ PollsInv /\ x1 \in 0..MaxClock
  /\ x5 \in [Gateway!Names -> 0..MaxSignIns] /\ x6 \in 0..MaxSignIns
CookiesPart ==
  /\ CookiesInv /\ x6 \in 0..MaxSignIns
  /\ x1 \in 0..MaxClock /\ x2 \in Seq(Gateway!Entry) /\ Len(x2) <= MaxEntries
  /\ x3 \in [Actors -> Gateway!Call]

LEMMA GatewayBegins ==
  ASSUME Gateway!GatewayAssumption, Gateway!Init PROVE PollsPart /\ CookiesPart
<1>1. PollsInv /\ CookiesInv
  BY PollsInitially, CookiesInitially
<1>2. x1 \in 0..MaxClock /\ x6 \in 0..MaxSignIns /\ x5 \in [Gateway!Names -> 0..MaxSignIns]
  BY DEF Gateway!Init, Gateway!GatewayAssumption, Gateway!NoSession
<1> QED
  BY <1>1, <1>2 DEF PollsPart, CookiesPart, PollsInv, PollsTyped

LEMMA PollsPartKept ==
  ASSUME Gateway!GatewayAssumption, PollsPart, Gateway!NextPolling PROVE PollsPart'
<1>1. PollsInv'
  BY PollsKeep DEF PollsPart
<1>2. x1' \in 0..MaxClock
  BY DEF PollsPart, Gateway!NextPolling, Gateway!Poll, Gateway!UpstreamAnswers, Gateway!Proxy,
         Gateway!Tick, Gateway!GatewayAssumption
<1>3. UNCHANGED <<x5, x6>>
  BY DEF Gateway!NextPolling, Gateway!Poll, Gateway!UpstreamAnswers, Gateway!Proxy, Gateway!Tick,
         Gateway!cookieVars
<1> QED
  BY <1>1, <1>2, <1>3 DEF PollsPart

LEMMA CookiesPartKept ==
  ASSUME Gateway!GatewayAssumption, CookiesPart, Gateway!NextCookies PROVE CookiesPart'
<1>1. CookiesInv'
  BY CookiesKeep DEF CookiesPart
<1>2. UNCHANGED <<x1, x2, x3>>
  BY DEF Gateway!NextCookies, Gateway!SignIn, Gateway!SignOut, Gateway!Request, Gateway!pollVars
<1>3. x6' \in 0..MaxSignIns
  BY DEF CookiesPart, Gateway!NextCookies, Gateway!SignIn, Gateway!SignOut, Gateway!Request,
         Gateway!GatewayAssumption
<1> QED
  BY <1>1, <1>2, <1>3 DEF CookiesPart

LEMMA GatewaySteps ==
  /\ Init => (part = "polling" => PollsPart) /\ (part = "cookies" => CookiesPart)
  /\ (part = "polling" => PollsPart) /\ (part = "cookies" => CookiesPart) /\ [Next]_<<part, slots>>
     => (part = "polling" => PollsPart)' /\ (part = "cookies" => CookiesPart)'
<1>0. Gateway!GatewayAssumption
  BY ServicesAssumption DEF ServicesAssumption
<1>1. Init => (part = "polling" => PollsPart) /\ (part = "cookies" => CookiesPart)
  BY <1>0, GatewayBegins DEF Init
<1>2. ASSUME part = "polling" => PollsPart, [Next]_<<part, slots>>, part' = "polling" PROVE PollsPart'
  <2>1. CASE RunPolling
    BY <1>0, <1>2, <2>1, PollsPartKept DEF RunPolling
  <2>2. CASE UNCHANGED <<part, slots>>
    BY <1>2, <2>2 DEF slots, PollsPart, PollsInv, PollsTyped, Entries, Retained, StaleAnswers
  <2> QED
    BY <1>2, <2>1, <2>2 DEF Next, RunControls, RunRecords, RunCatalog, RunMigrations, RunCookies,
                            RunRoles, RunMusic, RunCrons, RunListing
<1>3. ASSUME part = "cookies" => CookiesPart, [Next]_<<part, slots>>, part' = "cookies" PROVE CookiesPart'
  <2>1. CASE RunCookies
    BY <1>0, <1>3, <2>1, CookiesPartKept DEF RunCookies
  <2>2. CASE UNCHANGED <<part, slots>>
    BY <1>3, <2>2 DEF slots, CookiesPart, CookiesInv
  <2> QED
    BY <1>3, <2>1, <2>2 DEF Next, RunControls, RunRecords, RunCatalog, RunMigrations, RunPolling,
                            RunRoles, RunMusic, RunCrons, RunListing
<1> QED
  BY <1>1, <1>2, <1>3

LEMMA GatewayTypes ==
  ASSUME PollsPart \/ CookiesPart, Gateway!GatewayAssumption PROVE Gateway!TypeOK
<1>1. CASE PollsPart
  BY <1>1 DEF PollsPart, PollsInv, PollsTyped, Gateway!TypeOK
<1>2. CASE CookiesPart
  <2>1. 0..x6 \subseteq 0..MaxSignIns
    BY <1>2 DEF CookiesPart, Gateway!GatewayAssumption
  <2>2. x5 \in [Gateway!Names -> 0..MaxSignIns]
    BY <1>2, <2>1 DEF CookiesPart, CookiesInv
  <2> QED
    BY <1>2, <2>2 DEF CookiesPart, Gateway!TypeOK
<1> QED
  BY <1>1, <1>2

\* The state of each of the components has its type, whatever interleaves, fails or crashes:
\* among them the gateway's cache, which does not outgrow its limit.
THEOREM TypesStand == Spec => []TypesOK
<1> DEFINE I == /\ part = "controls" => ControlsInv
                /\ part = "records" => RecordsInv
                /\ part = "catalog" => CatalogInv
                /\ part = "migrations" => MigrationsInv
                /\ (part = "polling" => PollsPart) /\ (part = "cookies" => CookiesPart)
                /\ part = "roles" => RolesInv
                /\ part = "music" => MusicInv
                /\ part = "crons" => CronsInv
                /\ part = "listing" => ListingInv
<1>1. Init => I
  BY ControlsSteps, RecordsSteps, CatalogSteps, MigrationSteps, GatewaySteps, RolesSteps, MusicSteps,
     CronsSteps, ListingSteps
<1>2. I /\ [Next]_<<part, slots>> => I'
  BY ControlsSteps, RecordsSteps, CatalogSteps, MigrationSteps, GatewaySteps, RolesSteps, MusicSteps,
     CronsSteps, ListingSteps
<1>3. I => TypesOK
  <2> SUFFICES ASSUME I PROVE TypesOK
    OBVIOUS
  <2>1. part \in {"polling", "cookies"} => Gateway!TypeOK
    BY GatewayTypes, ServicesAssumption DEF ServicesAssumption
  <2>2. /\ part = "controls" => Controls!TypeOK
        /\ part = "migrations" => Migrations!TypeOK
    BY ControlsTypes, MigrationRunsTyped
  <2>3. /\ part = "records" => Records!TypeOK
        /\ part = "catalog" => Catalog!TypeOK
    BY DEF RecordsInv, CatalogInv
  <2>4. /\ part = "roles" => Roles!TypeOK
        /\ part = "crons" => Crons!TypeOK
        /\ part = "listing" => Listing!TypeOK
    BY DEF RolesInv, RolesTyped, CronsInv, CronsTyped, ListingInv, ListingTyped
  <2>5. part = "music" => Music!TypeOK
    BY DEF MusicInv, TablesOK, Music!TypeOK
  <2> QED
    BY <2>1, <2>2, <2>3, <2>4, <2>5 DEF TypesOK
<1> QED
  BY <1>1, <1>2, <1>3, PTL DEF Spec

=============================================================================
