---------------------------- MODULE WalletsProofs ----------------------------
(***************************************************************************)
(* The ledger balances, removals leave nothing behind and only removals of *)
(* companies deadlock, for any users, companies, requests and amounts.     *)
(* A transaction applies its writes when it commits, so what it found when *)
(* it read, debited or inserted must still be there: the locks it holds    *)
(* are what says so, and the invariant says which those are at each step.  *)
(***************************************************************************)
EXTENDS Wallets, FiniteSetTheorems, WellFoundedInduction, TLAPS

-----------------------------------------------------------------------------
(* Sums of credit.  A fold over a finite set is well defined, and its value *)
(* does not depend on the order in which the elements are taken.            *)

Credit(f, S) == MapThenSumSet(LAMBDA o : f[o].credit, S)

First(s) == CHOOSE x \in s : TRUE
SumStep(g, f, s) == IF s = {} THEN 0 ELSE f[First(s)].credit + g[s \ {First(s)}]
IsSums(g, f, S) == g = [s \in SUBSET S |-> SumStep(g, f, s)]

\* Of the subsets of a finite set that have a property, one has no smaller one in it.
LEMMA MinimalSet ==
  ASSUME NEW S, IsFiniteSet(S), NEW Bad \in SUBSET SUBSET S, Bad # {}
  PROVE  \E T \in Bad : \A U \in Bad : U \subseteq T => U = T
<1>1. IsWellFoundedOn(StrictSubsetOrdering(S), FiniteSubsetsOf(S))
  BY FS_StrictSubsetOrderingWellFounded
<1>2. \E T \in Bad : \A U \in Bad : <<U, T>> \notin StrictSubsetOrdering(S)
  BY <1>1, FS_FiniteSubsetsOfFinite, WFMin
<1> QED
  BY <1>2 DEF StrictSubsetOrdering

\* The element taken first.
LEMMA FirstIn == \A s : s # {} => First(s) \in s
  BY DEF First

\* Two tables of sums agree where both are defined.
LEMMA SumsAgree ==
  ASSUME NEW S, IsFiniteSet(S), NEW T \in SUBSET S, NEW f, NEW g, NEW h,
         IsSums(g, f, S), IsSums(h, f, T)
  PROVE  \A v \in SUBSET T : g[v] = h[v]
<1> DEFINE Bad == {v \in SUBSET T : g[v] # h[v]}
<1> SUFFICES ASSUME Bad # {} PROVE FALSE
  OBVIOUS
<1>1. PICK v \in Bad : \A U \in Bad : U \subseteq v => U = v
  <2>1. IsFiniteSet(T)
    BY FS_Subset
  <2> HIDE DEF Bad
  <2>2. Bad \in SUBSET SUBSET T
    BY DEF Bad
  <2> QED
    BY <2>1, <2>2, MinimalSet
<1>2. g[v] = SumStep(g, f, v) /\ h[v] = SumStep(h, f, v)
  <2>1. v \in SUBSET S /\ v \in SUBSET T
    OBVIOUS
  <2>2. g[v] = SumStep(g, f, v)
    BY <2>1 DEF IsSums
  <2>3. h[v] = SumStep(h, f, v)
    BY <2>1 DEF IsSums
  <2> QED
    BY <2>2, <2>3
<1>3. v # {}
  BY <1>2 DEF SumStep
<1>4. First(v) \in v
  BY <1>3, FirstIn
<1>5. g[v \ {First(v)}] = h[v \ {First(v)}]
  BY <1>1, <1>4
<1> QED
  BY <1>2, <1>5 DEF SumStep

\* There is a table of sums over every finite set.
LEMMA SumsExist ==
  ASSUME NEW S, IsFiniteSet(S), NEW f
  PROVE  \E g : IsSums(g, f, S)
<1> DEFINE Bad == {T \in SUBSET S : ~ \E g : IsSums(g, f, T)}
<1> SUFFICES ASSUME Bad # {} PROVE FALSE
  OBVIOUS
<1>1. PICK T \in Bad : \A U \in Bad : U \subseteq T => U = T
  <2> HIDE DEF Bad
  <2>2. Bad \in SUBSET SUBSET S
    BY DEF Bad
  <2> QED
    BY <2>2, MinimalSet
<1> DEFINE Sums(U) == CHOOSE g : IsSums(g, f, U)
           Rest(s) == s \ {First(s)}
           G == [s \in SUBSET T |-> IF s = {} THEN 0
                                    ELSE f[First(s)].credit + Sums(Rest(s))[Rest(s)]]
<1>2. IsFiniteSet(T) /\ T \subseteq S
  BY FS_Subset
<1>3. ASSUME NEW U \in SUBSET T, U # T
      PROVE  IsSums(Sums(U), f, U)
  <2>1. U \notin Bad /\ U \in SUBSET S
    BY <1>1, <1>3
  <2>2. \E g : IsSums(g, f, U)
    BY <2>1
  <2> HIDE DEF Bad
  <2> QED
    BY <2>2
<1> HIDE DEF Bad, Sums
<1>4. ASSUME NEW s \in SUBSET T, s # {}
      PROVE  Sums(Rest(s))[Rest(s)] = G[Rest(s)]
  <2>1. First(s) \in s
    BY <1>4, FirstIn
  <2> DEFINE u == Rest(s)
  <2>2. u \in SUBSET T /\ u # T
    BY <2>1
  <2>3. IsSums(Sums(u), f, u)
    BY <1>3, <2>2
  <2>4. Sums(u)[u] = SumStep(Sums(u), f, u)
    BY <2>3 DEF IsSums
  <2>5. CASE u = {}
    BY <2>4, <2>5 DEF SumStep
  <2>6. CASE u # {}
    <3>1. First(u) \in u
      BY <2>6, FirstIn
    <3>2. Rest(u) \in SUBSET u /\ Rest(u) \in SUBSET T /\ Rest(u) # T
      BY <3>1, <2>2
    <3>3. IsFiniteSet(u)
      BY <1>2, <2>2, FS_Subset
    <3>4. IsSums(Sums(Rest(u)), f, Rest(u))
      BY <1>3, <3>2
    <3> HIDE DEF u
    <3>5. Sums(u)[Rest(u)] = Sums(Rest(u))[Rest(u)]
      BY <2>3, <3>2, <3>3, <3>4, SumsAgree
    <3>6. G[u] = f[First(u)].credit + Sums(Rest(u))[Rest(u)]
      BY <2>2, <2>6
    <3> QED
      BY <2>4, <2>6, <3>5, <3>6 DEF SumStep, u
  <2> QED
    BY <2>5, <2>6
<1>5. IsSums(G, f, T)
  <2>1. \A s \in SUBSET T : G[s] = SumStep(G, f, s)
    BY <1>4 DEF SumStep
  <2>2. G = [s \in SUBSET T |-> G[s]]
    OBVIOUS
  <2> HIDE DEF G
  <2> QED
    BY <2>1, <2>2 DEF IsSums
<1> HIDE DEF G
<1> QED
  BY <1>1, <1>5 DEF Bad

\* What MapThenSumSet computes, one element at a time.
LEMMA CreditStep ==
  ASSUME NEW S, IsFiniteSet(S), NEW f
  PROVE  Credit(f, S) = IF S = {} THEN 0
                        ELSE f[First(S)].credit + Credit(f, S \ {First(S)})
<1> DEFINE Sums(U) == CHOOSE g : IsSums(g, f, U)
<1>1. \A U : Credit(f, U) = Sums(U)[U]
  <2> TAKE U
  <2> QED
    BY DEF Credit, MapThenSumSet, MapThenFoldSet, IsSums, SumStep, First
<1>2. \A U \in SUBSET S : IsSums(Sums(U), f, U) /\ IsFiniteSet(U)
  <2> TAKE U \in SUBSET S
  <2>1. IsFiniteSet(U)
    BY FS_Subset
  <2> QED
    BY <2>1, SumsExist
<1> HIDE DEF Sums
<1>3. Sums(S)[S] = SumStep(Sums(S), f, S)
  <2>1. IsSums(Sums(S), f, S)
    BY <1>2
  <2> QED
    BY <2>1 DEF IsSums
<1>4. CASE S = {}
  BY <1>1, <1>3, <1>4 DEF SumStep
<1>5. CASE S # {}
  <2> DEFINE U == S \ {First(S)}
  <2>1. U \in SUBSET S
    OBVIOUS
  <2> HIDE DEF U
  <2>2. Sums(S)[U] = Sums(U)[U]
    BY <1>2, <2>1, SumsAgree
  <2> QED
    BY <1>1, <1>3, <1>5, <2>2 DEF SumStep, U
<1> QED
  BY <1>4, <1>5

Counted(f, S) == \A o \in S : f[o].credit \in Int

\* A sum of integers is one.
LEMMA CreditInt ==
  ASSUME NEW S, IsFiniteSet(S), NEW f, Counted(f, S)
  PROVE  Credit(f, S) \in Int
<1> DEFINE Bad == {T \in SUBSET S : Credit(f, T) \notin Int}
<1> SUFFICES ASSUME Bad # {} PROVE FALSE
  OBVIOUS
<1>1. PICK T \in Bad : \A U \in Bad : U \subseteq T => U = T
  <2> HIDE DEF Bad
  <2>1. Bad \in SUBSET SUBSET S
    BY DEF Bad
  <2> QED
    BY <2>1, MinimalSet
<1>2. IsFiniteSet(T) /\ T \subseteq S
  BY FS_Subset
<1>3. Credit(f, T) = IF T = {} THEN 0 ELSE f[First(T)].credit + Credit(f, T \ {First(T)})
  BY <1>2, CreditStep
<1>4. T # {} => First(T) \in T
  BY FirstIn
<1>5. T # {} => Credit(f, T \ {First(T)}) \in Int
  BY <1>1, <1>4
<1> QED
  BY <1>1, <1>2, <1>3, <1>4, <1>5 DEF Counted

\* A sum of natural numbers is one.
LEMMA CreditNat ==
  ASSUME NEW S, IsFiniteSet(S), NEW f, \A o \in S : f[o].credit \in Nat
  PROVE  Credit(f, S) \in Nat
<1> DEFINE Bad == {T \in SUBSET S : Credit(f, T) \notin Nat}
<1> SUFFICES ASSUME Bad # {} PROVE FALSE
  OBVIOUS
<1>1. PICK T \in Bad : \A U \in Bad : U \subseteq T => U = T
  <2> HIDE DEF Bad
  <2>1. Bad \in SUBSET SUBSET S
    BY DEF Bad
  <2> QED
    BY <2>1, MinimalSet
<1>2. IsFiniteSet(T) /\ T \subseteq S
  BY FS_Subset
<1>3. Credit(f, T) = IF T = {} THEN 0 ELSE f[First(T)].credit + Credit(f, T \ {First(T)})
  BY <1>2, CreditStep
<1>4. T # {} => First(T) \in T
  BY FirstIn
<1>5. T # {} => Credit(f, T \ {First(T)}) \in Nat
  BY <1>1, <1>4
<1> QED
  BY <1>1, <1>2, <1>3, <1>4, <1>5

\* Nothing adds up to nothing.
LEMMA CreditZero ==
  ASSUME NEW S, IsFiniteSet(S), NEW f, \A o \in S : f[o].credit = 0
  PROVE  Credit(f, S) = 0
<1> DEFINE Bad == {T \in SUBSET S : Credit(f, T) # 0}
<1> SUFFICES ASSUME Bad # {} PROVE FALSE
  OBVIOUS
<1>1. PICK T \in Bad : \A U \in Bad : U \subseteq T => U = T
  <2> HIDE DEF Bad
  <2>1. Bad \in SUBSET SUBSET S
    BY DEF Bad
  <2> QED
    BY <2>1, MinimalSet
<1>2. IsFiniteSet(T) /\ T \subseteq S
  BY FS_Subset
<1>3. Credit(f, T) = IF T = {} THEN 0 ELSE f[First(T)].credit + Credit(f, T \ {First(T)})
  BY <1>2, CreditStep
<1>4. T # {} => First(T) \in T
  BY FirstIn
<1>5. T # {} => Credit(f, T \ {First(T)}) = 0
  BY <1>1, <1>4
<1> QED
  BY <1>1, <1>2, <1>3, <1>4, <1>5

\* Any element may be taken out of the sum, not only the first.
LEMMA CreditWithout ==
  ASSUME NEW S, IsFiniteSet(S), NEW f, Counted(f, S), NEW x \in S
  PROVE  Credit(f, S) = f[x].credit + Credit(f, S \ {x})
<1> DEFINE Bad == {T \in SUBSET S : \E y \in T : Credit(f, T) # f[y].credit + Credit(f, T \ {y})}
<1> SUFFICES ASSUME Bad # {} PROVE FALSE
  OBVIOUS
<1>1. PICK T \in Bad : \A U \in Bad : U \subseteq T => U = T
  <2> HIDE DEF Bad
  <2>1. Bad \in SUBSET SUBSET S
    BY DEF Bad
  <2> QED
    BY <2>1, MinimalSet
<1>2. PICK y \in T : Credit(f, T) # f[y].credit + Credit(f, T \ {y})
  BY <1>1
<1> DEFINE z == First(T)
<1>3. \A U \in SUBSET T : IsFiniteSet(U) /\ Counted(f, U) /\ Credit(f, U) \in Int
  <2> TAKE U \in SUBSET T
  <2>1. IsFiniteSet(U) /\ Counted(f, U)
    BY FS_Subset DEF Counted
  <2> QED
    BY <2>1, CreditInt
<1>4. z \in T
  BY FirstIn
<1>5. Credit(f, T) = f[z].credit + Credit(f, T \ {z})
  BY <1>3, <1>4, CreditStep
<1>6. y # z /\ y \in T /\ T \subseteq S
  BY <1>2, <1>5
<1>7. ASSUME NEW v \in T, NEW w \in T, v # w
      PROVE  Credit(f, T \ {v}) = f[w].credit + Credit(f, (T \ {v}) \ {w})
  <2>1. T \ {v} \in SUBSET S /\ T \ {v} # T /\ T \ {v} \subseteq T
    BY <1>6
  <2>2. T \ {v} \notin Bad
    BY <1>1, <2>1
  <2>3. w \in T \ {v}
    BY <1>7
  <2> QED
    BY <2>1, <2>2, <2>3
<1> HIDE DEF Bad, z
<1>8. /\ Credit(f, T \ {z}) = f[y].credit + Credit(f, (T \ {z}) \ {y})
      /\ Credit(f, T \ {y}) = f[z].credit + Credit(f, (T \ {y}) \ {z})
  BY <1>4, <1>6, <1>7
<1>9. (T \ {z}) \ {y} = (T \ {y}) \ {z}
  OBVIOUS
<1>10. f[y].credit \in Int /\ f[z].credit \in Int /\ Credit(f, (T \ {y}) \ {z}) \in Int
  BY <1>3, <1>4, <1>6 DEF Counted
<1>11. Credit(f, T) = f[z].credit + (f[y].credit + Credit(f, (T \ {y}) \ {z}))
  BY <1>5, <1>8, <1>9
<1>12. f[y].credit + Credit(f, T \ {y}) = f[y].credit + (f[z].credit + Credit(f, (T \ {y}) \ {z}))
  BY <1>8
<1>13. Credit(f, T) = f[y].credit + Credit(f, T \ {y})
  BY <1>10, <1>11, <1>12
<1> QED
  BY <1>2, <1>13

\* Tables that agree on a set have the same sum over it.
LEMMA CreditSame ==
  ASSUME NEW S, IsFiniteSet(S), NEW f, NEW h, \A o \in S : f[o].credit = h[o].credit
  PROVE  Credit(f, S) = Credit(h, S)
<1> DEFINE Bad == {T \in SUBSET S : Credit(f, T) # Credit(h, T)}
<1> SUFFICES ASSUME Bad # {} PROVE FALSE
  OBVIOUS
<1>1. PICK T \in Bad : \A U \in Bad : U \subseteq T => U = T
  <2> HIDE DEF Bad
  <2>1. Bad \in SUBSET SUBSET S
    BY DEF Bad
  <2> QED
    BY <2>1, MinimalSet
<1>2. IsFiniteSet(T) /\ T \subseteq S
  BY FS_Subset
<1>3. \A k : Credit(k, T) = IF T = {} THEN 0 ELSE k[First(T)].credit + Credit(k, T \ {First(T)})
  BY <1>2, CreditStep
<1>4. T # {}
  BY <1>1, <1>3
<1>5. First(T) \in T
  BY <1>4, FirstIn
<1>6. Credit(f, T \ {First(T)}) = Credit(h, T \ {First(T)})
  BY <1>1, <1>5
<1> HIDE DEF Bad
<1>7. Credit(f, T) = Credit(h, T)
  BY <1>2, <1>3, <1>5, <1>6
<1> QED
  BY <1>1, <1>7 DEF Bad

\* One balance changes.
LEMMA CreditChanged ==
  ASSUME NEW S, IsFiniteSet(S), NEW f, NEW h, Counted(f, S), Counted(h, S), NEW x \in S,
         \A o \in S \ {x} : f[o].credit = h[o].credit
  PROVE  Credit(h, S) = Credit(f, S) + h[x].credit - f[x].credit
<1>1. IsFiniteSet(S \ {x}) /\ Counted(f, S \ {x})
  BY FS_RemoveElement DEF Counted
<1>2. Credit(f, S \ {x}) = Credit(h, S \ {x}) /\ Credit(f, S \ {x}) \in Int
  BY <1>1, CreditSame, CreditInt
<1>3. Credit(f, S) = f[x].credit + Credit(f, S \ {x})
  BY CreditWithout
<1>4. Credit(h, S) = h[x].credit + Credit(h, S \ {x})
  BY CreditWithout
<1>5. f[x].credit \in Int /\ h[x].credit \in Int
  BY DEF Counted
<1> QED
  BY <1>2, <1>3, <1>4, <1>5

\* The wallets of a set are emptied, one after the other.
LEMMA CreditCleared ==
  ASSUME NEW S, IsFiniteSet(S), NEW f, NEW h, Counted(f, S), NEW G \in SUBSET S,
         \A o \in G : h[o].credit = 0, \A o \in S \ G : h[o].credit = f[o].credit
  PROVE  Credit(f, S) = Credit(f, G) + Credit(h, S)
<1> DEFINE Kept(T) == [o \in S |-> [credit |-> IF o \in T THEN 0 ELSE f[o].credit]]
           Bad == {T \in SUBSET S : Credit(f, S) # Credit(f, T) + Credit(Kept(T), S)}
<1>1. \A T : Counted(Kept(T), S)
  BY DEF Counted
<1>2. Bad = {}
  <2> SUFFICES ASSUME Bad # {} PROVE FALSE
    OBVIOUS
  <2>1. PICK T \in Bad : \A U \in Bad : U \subseteq T => U = T
    <3> HIDE DEF Bad
    <3>1. Bad \in SUBSET SUBSET S
      BY DEF Bad
    <3> QED
      BY <3>1, MinimalSet
  <2>2. IsFiniteSet(T) /\ T \subseteq S /\ Counted(f, T)
    BY FS_Subset DEF Counted
  <2>3. Credit(f, S) \in Int
    BY CreditInt
  <2>4. CASE T = {}
    <3>1. \A o \in S : f[o].credit = Kept({})[o].credit
      OBVIOUS
    <3>2. Credit(f, {}) = 0
      BY CreditStep, FS_EmptySet
    <3> HIDE DEF Kept
    <3>3. Credit(f, S) = Credit(Kept({}), S)
      BY <3>1, CreditSame
    <3> QED
      BY <2>1, <2>3, <2>4, <3>2, <3>3
  <2>5. CASE T # {}
    <3>1. PICK x \in T : TRUE
      BY <2>5
    <3> DEFINE U == T \ {x}
    <3>2. U \in SUBSET S /\ U \notin Bad
      BY <2>1, <2>2, <3>1
    <3>3. Credit(f, S) = Credit(f, U) + Credit(Kept(U), S)
      BY <3>2
    <3>4. Credit(f, T) = f[x].credit + Credit(f, U)
      BY <2>2, CreditWithout
    <3>5. Kept(T)[x].credit = 0 /\ Kept(U)[x].credit = f[x].credit /\ x \in S
      BY <2>2
    <3>6. \A o \in S \ {x} : Kept(U)[o].credit = Kept(T)[o].credit
      OBVIOUS
    <3>7. Credit(f, U) \in Int /\ f[x].credit \in Int
      BY <2>2, CreditInt, FS_RemoveElement DEF Counted
    <3> HIDE DEF Kept, U
    <3>8. Credit(Kept(T), S) = Credit(Kept(U), S) + Kept(T)[x].credit - Kept(U)[x].credit
      BY <1>1, <3>5, <3>6, CreditChanged
    <3>9. Credit(Kept(U), S) \in Int
      BY <1>1, CreditInt
    <3>10. Credit(f, S) = Credit(f, T) + Credit(Kept(T), S)
      BY <3>3, <3>4, <3>5, <3>7, <3>8, <3>9
    <3> QED
      BY <2>1, <3>10
  <2> QED
    BY <2>4, <2>5
<1>3. Credit(f, S) = Credit(f, G) + Credit(Kept(G), S)
  BY <1>2
<1>4. \A o \in S : Kept(G)[o].credit = h[o].credit
  OBVIOUS
<1> HIDE DEF Kept, Bad
<1>5. Credit(Kept(G), S) = Credit(h, S)
  BY <1>4, CreditSame
<1> QED
  BY <1>3, <1>5

-----------------------------------------------------------------------------
(* The inductive invariant.                                                 *)

WalletOf(o) == <<"wallet", o>>
RowOf(o) == <<"row", o>>
ShareOf(o) == <<"share", o>>
LedgerOf(o) == <<"ledger", o>>
Present == {"live", "deleted"}

\* What the requests of a kind carry, and the locks they may hold so far.
Adding(s) ==
  /\ s.op = "add" /\ s.n > 0 /\ s.of = Nobody /\ s.by \in Admins
  /\ \/ s.from = Nobody /\ s.to = Ikyomm /\ s.pc \in {"sign", "adjust", "commit"}
     \/ s.from = Ikyomm /\ s.to = Nobody /\ s.pc \in {"sign", "debit", "commit"}
  /\ s.pc = "sign" => s.held = {}
  /\ s.pc # "sign" => ShareOf(s.by) \in s.held
  /\ s.pc # "commit" => s.held \subseteq {ShareOf(s.by)}
  /\ s.held \subseteq {ShareOf(s.by), WalletOf(Ikyomm)}

Transferring(s) ==
  /\ s.op = "transfer" /\ s.n > 0 /\ s.of = Nobody /\ s.by \in Admins
  /\ \/ s.from = Ikyomm /\ s.to \in Accounts
     \/ s.from \in Companies /\ s.to \in Users
  /\ s.pc \in {"read", "upsert", "sign", "debit", "commit"}
  /\ s.pc \in {"read", "upsert"} => s.held = {}
  /\ s.pc = "debit" => s.held \subseteq {WalletOf(s.to), ShareOf(s.to), ShareOf(s.by)}
  /\ s.held \subseteq {WalletOf(s.to), ShareOf(s.to), WalletOf(s.from), ShareOf(s.by)}

Creating(s) ==
  /\ s.op = "create" /\ s.to \in Users /\ s.by \in Admins \cup {Nobody}
  /\ \/ s.n = 0 /\ s.from = Nobody /\ s.of \in Companies \cup {Nobody}
     \/ s.n > 0 /\ s.from = Ikyomm /\ s.of = Nobody
     \/ s.n > 0 /\ s.from \in Companies /\ s.of = s.from
  /\ s.pc \in {"read", "debit", "sign", "insert", "commit"}
  /\ s.pc \in {"read", "debit"} => s.held = {} /\ s.n > 0
  /\ s.pc = "sign" => s.by \in Admins
  /\ s.pc = "sign" /\ RowOf(s.to) \notin s.held => s.n > 0
  /\ s.pc = "insert" \/ (s.pc = "sign" /\ RowOf(s.to) \notin s.held)
     => s.held \subseteq {WalletOf(s.from), ShareOf(s.by)} /\ (s.n = 0 => s.held = {})
  /\ s.held \subseteq {WalletOf(s.from), RowOf(s.to), ShareOf(s.of), ShareOf(s.by)}

Founding(s) ==
  /\ s.op = "company" /\ s.to \in Companies /\ s.of = Nobody /\ s.by \in Admins
  /\ \/ s.n = 0 /\ s.from = Nobody
     \/ s.n > 0 /\ s.from = Ikyomm
  /\ s.pc \in {"read", "insert", "sign", "debit", "commit"}
  /\ s.pc \in {"read", "insert"} => s.held = {}
  /\ s.pc \in {"read", "debit"} => s.n > 0
  /\ s.pc = "sign" => s.held \subseteq {RowOf(s.to)}
  /\ s.pc = "debit" => ShareOf(s.by) \in s.held /\ s.held \subseteq {RowOf(s.to), ShareOf(s.by)}
  /\ s.held \subseteq {RowOf(s.to), ShareOf(s.by), WalletOf(Ikyomm)}

Booking(s) ==
  /\ s.op = "book" /\ s.n > 0 /\ s.from \in Users /\ s.to = Nobody /\ s.of = Nobody
  /\ s.pc \in {"read", "debit", "session", "commit"}
  /\ s.pc \in {"read", "debit"} => s.held = {}
  /\ s.pc = "session" => s.held \subseteq {WalletOf(s.from)}
  /\ s.held \subseteq {WalletOf(s.from), ShareOf(s.from)}

Opening(s) ==
  /\ s.op = "open" /\ s.pc \in {"open", "sign", "commit"} /\ s.n = 0 /\ s.from = Nobody
  /\ s.of = Nobody /\ s.to \in Companies \cup {Ikyomm} /\ s.by \in Admins
  /\ s.pc = "open" => s.held = {}
  /\ s.held \subseteq {WalletOf(s.to), ShareOf(s.to), ShareOf(s.by)}

RemovingUser(s) ==
  /\ s.op = "removeUser" /\ s.of \in Users /\ s.left = {s.of}
  /\ s.pc \in {"collect", "erase", "delete", "removed"}
  /\ IF s.pc = "collect" THEN s.held = {} ELSE s.to = s.of
  /\ s.pc = "erase" => s.held \subseteq {LedgerOf(s.of)}
  /\ s.pc = "delete" => s.held \subseteq {LedgerOf(s.of), WalletOf(s.of)}
  /\ s.held \subseteq {LedgerOf(s.of), WalletOf(s.of), RowOf(s.of)}

RemovingCompany(s) ==
  /\ s.op = "removeCompany" /\ s.of \in Companies /\ s.left \subseteq Users
  /\ s.pc \in {"collect", "deleteUser", "eraseUser", "delete", "erase", "removed"}
  /\ s.pc \in {"deleteUser", "eraseUser"} => s.to \in s.left
  /\ s.pc \in {"delete", "erase", "removed"} => s.to = s.of
  /\ s.pc = "collect" => s.held = {}

\* The removal of an administrator may lock any rows but those of accounts.
RemovingAdmin(s) ==
  /\ s.op = "removeAdmin" /\ s.by \in Admins /\ s.from = Nobody /\ s.of = Nobody
  /\ s.pc \in {"deleteAdmin", "clear", "removed"}
  /\ s.pc = "clear" => s.to \in Owners
  /\ s.pc = "deleteAdmin" => s.held = {}
  /\ \A a \in Accounts : RowOf(a) \notin s.held

Sane(s) ==
  \/ s = Idle
  \/ Adding(s) \/ Transferring(s) \/ Creating(s) \/ Founding(s) \/ Booking(s) \/ Opening(s)
  \/ RemovingUser(s) \/ RemovingCompany(s) \/ RemovingAdmin(s)

\* What was debited is there when the transaction commits.
Debited(s) ==
  /\ s.n > 0 /\ s.from # Nobody
  /\ \/ s.pc \in {"session", "commit"}
     \/ s.pc \in {"insert", "sign"} /\ s.op = "create"
     \/ s.pc = "sign" /\ WalletOf(s.from) \in s.held
Funded(s) ==
  Debited(s) => /\ WalletOf(s.from) \in s.held
                /\ wallet[s.from].open /\ wallet[s.from].credit >= s.n

\* And so is the account that is credited, or gets a wallet: a wallet that exists is
\* locked, the owner of one that is inserted cannot be removed.
Reached(s) == s.op \in {"transfer", "open"} /\ s.pc \in {"sign", "debit", "commit"}
Received(s) ==
  Reached(s) => /\ WalletOf(s.to) \in s.held
                /\ s.to \in Accounts => /\ account[s.to] \in Present
                                        /\ wallet[s.to].open \/ ShareOf(s.to) \in s.held

\* Nobody else inserts the same account.
Placed(s) ==
  \/ s.op = "create" /\ (s.pc = "commit" \/ (s.pc = "sign" /\ RowOf(s.to) \in s.held))
  \/ s.op = "company" /\ s.pc \in {"sign", "debit", "commit"}
Inserted(s) == Placed(s) => RowOf(s.to) \in s.held /\ account[s.to] = "none"

\* A removal that has deleted a row holds the wallet that goes with it. One of a user that
\* found ledger rows holds it before it deletes the row.
Erasing(s) ==
  s.op \in {"removeUser", "removeCompany"}
  => /\ \A a \in Accounts :
          RowOf(a) \in s.held /\ wallet[a].open
          => WalletOf(a) \in s.held \/ (a = s.to /\ s.pc \in {"eraseUser", "erase"})
     /\ s.op = "removeUser" /\ s.pc = "delete" /\ s.seen[s.of] > 0 => WalletOf(s.of) \in s.held

Backed(s) ==
  /\ s.op = "add" => wallet[Ikyomm].open
  /\ Funded(s) /\ Received(s) /\ Inserted(s) /\ Erasing(s)

Exclusive ==
  \A r, q \in Requests : r # q =>
    \A h \in req[r].held, l \in req[q].held : ~Conflict(h, l)

\* A user's wallet comes with the first row of its ledger.
UsersRecorded == \A u \in Users : wallet[u].open => ledger[u].rows > 0

Explained == \A o \in Owners : wallet[o].credit = ledger[o].net
Conserved == granted = spent + erased + Credit(wallet, Owners)

LocksInv ==
  /\ TypeOK /\ NoOrphans /\ UsersRecorded /\ Exclusive
  /\ \A r \in Requests : Sane(req[r]) /\ Backed(req[r])

IInv == LocksInv /\ Explained /\ Conserved

-----------------------------------------------------------------------------
(* Steps that change one request and no table.                              *)

Ops == {"none", "transfer", "add", "create", "company", "book", "open", "removeUser",
        "removeCompany", "removeAdmin"}
Pcs == {"idle", "read", "sign", "upsert", "debit", "adjust", "insert", "session", "open",
        "commit", "collect", "deleteUser", "eraseUser", "delete", "erase", "deleteAdmin",
        "clear", "removed"}
Request == [op : Ops, pc : Pcs, by : Admins \cup {Nobody}, from : Someone, to : Someone, n : Nat,
            of : Someone, held : SUBSET Locks, left : SUBSET Users, seen : [Owners -> Nat]]

LEMMA Names ==
  /\ Ikyomm \in Owners /\ Ikyomm \notin Accounts /\ Nobody \notin Owners
  /\ Users \cap Companies = {} /\ Accounts \subseteq Owners
  /\ Admins \cap Owners = {} /\ Nobody \notin Admins
  /\ IsFiniteSet(Owners) /\ IsFiniteSet(Accounts)
<1>1. IsFiniteSet(Accounts) /\ IsFiniteSet({Ikyomm})
  BY WalletsAssumption, FS_Singleton DEF Accounts
<1>2. IsFiniteSet(Owners)
  BY <1>1, FS_Union DEF Owners
<1> QED
  BY <1>1, <1>2, WalletsAssumption DEF Owners, Accounts

LEMMA IdleSane ==
  /\ Idle \in Request /\ Sane(Idle) /\ Idle.held = {} /\ Idle.pc = "idle"
  /\ Idle.op = "none" /\ Idle.n = 0
<1>1. Idle \in Request
  BY DEF Idle, Request, Ops, Pcs, Someone, NoRows
<1> QED
  BY <1>1 DEF Sane, Idle

LEMMA IdleBacked == Backed(Idle)
  BY IdleSane DEF Backed, Funded, Debited, Received, Reached, Inserted, Placed, Erasing, Idle

LEMMA IdleBackedNext == Backed(Idle)'
  BY IdleSane DEF Backed, Funded, Debited, Received, Reached, Inserted, Placed, Erasing, Idle

\* The request goes to a state that is sane and backed, with locks that were free.
LEMMA MoveKeeps ==
  ASSUME IInv, NEW r \in Requests, NEW s \in Request, Sane(s), Backed(s),
         req' = [req EXCEPT ![r] = s],
         \A l \in s.held : l \in req[r].held \/ Free(r, l),
         UNCHANGED <<tables, history>>
  PROVE  IInv'
<1> USE DEF IInv, LocksInv, tables, history
<1>1. req'[r] = s /\ \A q \in Requests \ {r} : req'[q] = req[q]
  BY DEF TypeOK
<1>2. TypeOK'
  BY DEF TypeOK, Request, Ops, Pcs
<1>3. Exclusive'
  <2> SUFFICES ASSUME NEW p \in Requests, NEW q \in Requests, p # q,
                      NEW h \in req'[p].held, NEW l \in req'[q].held
               PROVE  ~Conflict(h, l)
    BY DEF Exclusive
  <2>1. CASE p # r /\ q # r
    BY <1>1, <2>1 DEF Exclusive
  <2>2. CASE p = r
    <3>1. h \in req[r].held \/ ~Conflict(l, h)
      BY <1>1, <2>2 DEF Free
    <3> QED
      BY <1>1, <2>2, <3>1 DEF Exclusive, Conflict
  <2>3. CASE q = r
    <3>1. l \in req[r].held \/ ~Conflict(h, l)
      BY <1>1, <2>3 DEF Free
    <3> QED
      BY <1>1, <2>3, <3>1 DEF Exclusive
  <2> QED
    BY <2>1, <2>2, <2>3
<1>4. ASSUME NEW q \in Requests PROVE Sane(req[q])' /\ Backed(req[q])'
  <2>1. Backed(s)'
    BY DEF Backed, Funded, Debited, Received, Reached, Inserted, Placed, Erasing
  <2>2. CASE q = r
    BY <1>1, <2>1, <2>2 DEF Sane, Adding, Transferring, Creating, Founding, Booking, Opening, RemovingAdmin,
       RemovingUser, RemovingCompany, Backed, Funded, Debited, Received, Reached, Inserted, Placed, Erasing
  <2>3. CASE q # r
    BY <1>1, <2>3 DEF Sane, Adding, Transferring, Creating, Founding, Booking, Opening, RemovingAdmin,
       RemovingUser, RemovingCompany, Backed, Funded, Debited, Received, Reached, Inserted, Placed, Erasing
  <2> QED
    BY <2>2, <2>3
<1>5. NoOrphans' /\ UsersRecorded' /\ Explained' /\ Conserved'
  BY DEF NoOrphans, UsersRecorded, Explained, Conserved
<1> QED
  BY <1>2, <1>3, <1>4, <1>5

LEMMA RollbackKeeps ==
  ASSUME IInv, NEW r \in Requests, Rollback(r)
  PROVE  IInv'
  BY IdleSane, IdleBacked, MoveKeeps DEF Rollback

LEMMA WantsLocks ==
  ASSUME TypeOK, NEW r \in Requests, Sane(req[r])
  PROVE  Wants(r) \in SUBSET Locks
<1> DEFINE s == req[r]
<1>1. s \in Request
  BY DEF TypeOK, Request, Ops, Pcs
<1>2. s.left \subseteq Owners
  BY <1>1 DEF Request, Owners, Accounts
<1>3. s.pc = "clear" => RowsOf(s.to) \in SUBSET Locks
  BY DEF Sane, Idle, Adding, Transferring, Creating, Founding, Booking, Opening, RemovingAdmin,
     RemovingUser, RemovingCompany, RowsOf, Locks
<1>4. s.pc \in {"sign", "deleteAdmin"} => s.by \in Admins
  BY DEF Sane, Idle, Adding, Transferring, Creating, Founding, Booking, Opening, RemovingAdmin,
     RemovingUser, RemovingCompany
<1> QED
  BY <1>1, <1>3, <1>4, Names DEF Wants, Locks, Sane, Idle, Adding, Transferring, Creating, Founding,
     Booking, Opening, RemovingAdmin, RemovingUser, RemovingCompany, Request, Accounts, Owners,
     Someone

LEMMA BeginKeeps ==
  ASSUME IInv, NEW r \in Requests, NEW s \in Request, Begin(r, s), Sane(s), s.held = {},
         s.op = "add" => wallet[Ikyomm].open,
         s.pc \in {"read", "sign", "insert", "open", "collect", "deleteAdmin"},
         s.pc = "sign" => s.op = "add", s.pc = "insert" => s.op = "company" \/ s.n = 0
  PROVE  IInv'
<1>1. Backed(s)
  BY DEF Backed, Funded, Debited, Received, Reached, Inserted, Placed, Erasing
<1> QED
  BY <1>1, MoveKeeps DEF Begin

LEMMA StartKeeps ==
  ASSUME IInv, NEW r \in Requests, Start(r)
  PROVE  IInv'
<1> USE DEF IInv, LocksInv
<1>0. /\ Idle \in Request /\ Idle.held = {} /\ Credits \subseteq Nat \ {0} /\ SignUpCredit \in Nat \ {0}
      /\ Users \subseteq Someone /\ Companies \subseteq Someone /\ {Ikyomm, Nobody} \subseteq Someone
      /\ Users \cap Companies = {} /\ Admins \cap Someone = {}
  BY IdleSane, WalletsAssumption DEF Someone, Owners, Accounts
<1>1. ASSUME NEW n \in Credits, AddCredits(r, n) PROVE IInv'
  <2>1. wallet[Ikyomm].open
    BY <1>1 DEF AddCredits
  <2>2. PICK a \in Admins :
          \/ Begin(r, [[Idle EXCEPT !.op = "add", !.pc = "sign", !.to = Ikyomm, !.n = n]
                        EXCEPT !.by = a])
          \/ Begin(r, [[Idle EXCEPT !.op = "add", !.pc = "sign", !.from = Ikyomm, !.n = n]
                        EXCEPT !.by = a])
    BY <1>1 DEF AddCredits, BeginSigned
  <2> DEFINE s1 == [[Idle EXCEPT !.op = "add", !.pc = "sign", !.to = Ikyomm, !.n = n]
                     EXCEPT !.by = a]
             s2 == [[Idle EXCEPT !.op = "add", !.pc = "sign", !.from = Ikyomm, !.n = n]
                     EXCEPT !.by = a]
  <2>3. /\ s1 \in Request /\ s1.op = "add" /\ s1.pc = "sign" /\ s1.held = {} /\ s1.by = a
        /\ s1.n = n /\ s1.of = Nobody /\ s1.from = Nobody /\ s1.to = Ikyomm
    BY <1>0 DEF Request, Ops, Pcs, Idle
  <2>4. /\ s2 \in Request /\ s2.op = "add" /\ s2.pc = "sign" /\ s2.held = {} /\ s2.by = a
        /\ s2.n = n /\ s2.of = Nobody /\ s2.from = Ikyomm /\ s2.to = Nobody
    BY <1>0 DEF Request, Ops, Pcs, Idle
  <2>5. Begin(r, s1) \/ Begin(r, s2)
    BY <2>2
  <2> HIDE DEF s1, s2, IInv, LocksInv
  <2>6. Sane(s1) /\ Sane(s2)
    BY <1>0, <2>3, <2>4 DEF Sane, Adding
  <2> QED
    BY <2>1, <2>3, <2>4, <2>5, <2>6, BeginKeeps
<1>2. ASSUME NEW from \in Companies \cup {Ikyomm}, NEW to \in Accounts, NEW n \in Credits,
             from # Ikyomm => to \in Users, BeginSigned(r, Pull(from, to, n))
      PROVE  IInv'
  <2>0. PICK a \in Admins : Begin(r, [Pull(from, to, n) EXCEPT !.by = a])
    BY <1>2 DEF BeginSigned
  <2> DEFINE s == [Pull(from, to, n) EXCEPT !.by = a]
  <2>1. /\ s \in Request /\ s.op = "transfer" /\ s.pc = "read" /\ s.held = {} /\ s.by = a
        /\ s.n = n /\ s.of = Nobody /\ s.from = from /\ s.to = to
    BY <1>0 DEF Pull, Request, Ops, Pcs, Idle, Accounts
  <2> HIDE DEF s, IInv, LocksInv
  <2>2. Sane(s)
    BY <1>0, <1>2, <2>1 DEF Sane, Transferring
  <2> QED
    BY <2>0, <2>1, <2>2, BeginKeeps DEF s
<1>3. ASSUME NEW u \in Users, NEW n \in Credits, Book(r, u, n) PROVE IInv'
  <2> DEFINE s == [Idle EXCEPT !.op = "book", !.pc = "read", !.from = u, !.n = n]
  <2>1. /\ s \in Request /\ s.op = "book" /\ s.pc = "read" /\ s.held = {}
        /\ s.n = n /\ s.of = Nobody /\ s.from = u /\ s.to = Nobody
    BY <1>0 DEF Request, Ops, Pcs, Idle
  <2>2. Begin(r, s)
    BY <1>3 DEF Book
  <2> HIDE DEF s, IInv, LocksInv
  <2>3. Sane(s)
    BY <1>0, <2>1 DEF Sane, Booking
  <2> QED
    BY <2>1, <2>2, <2>3, BeginKeeps
<1>4. ASSUME NEW u \in Users, SignUp(r, u) PROVE IInv'
  <2> DEFINE s == [Idle EXCEPT !.op = "create", !.pc = "read", !.from = Ikyomm, !.to = u,
                               !.n = SignUpCredit]
  <2>1. /\ s \in Request /\ s.op = "create" /\ s.pc = "read" /\ s.held = {}
        /\ s.by = Nobody /\ s.n = SignUpCredit /\ s.of = Nobody /\ s.from = Ikyomm /\ s.to = u
    BY <1>0 DEF Request, Ops, Pcs, Idle
  <2>2. Begin(r, s)
    BY <1>4 DEF SignUp
  <2> HIDE DEF s, IInv, LocksInv
  <2>3. Sane(s)
    BY <1>0, <2>1 DEF Sane, Creating
  <2> QED
    BY <2>1, <2>2, <2>3, BeginKeeps
<1>5. ASSUME NEW u \in Users, RemoveUser(r, u) PROVE IInv'
  <2> DEFINE s == [Idle EXCEPT !.op = "removeUser", !.pc = "collect", !.of = u, !.left = {u}]
  <2>1. s \in Request /\ s.op = "removeUser" /\ s.pc = "collect" /\ s.held = {} /\ Sane(s)
    BY <1>0 DEF Request, Ops, Pcs, Sane, RemovingUser, Idle
  <2>2. Begin(r, s)
    BY <1>5 DEF RemoveUser
  <2> HIDE DEF s, IInv, LocksInv
  <2> QED
    BY <2>1, <2>2, BeginKeeps
<1>6. ASSUME NEW u \in Users, NEW c \in Companies \cup {Nobody}, NEW n \in Credits \cup {0},
             CreateUser(r, u, c, n)
      PROVE  IInv'
  <2> DEFINE s0 == [Idle EXCEPT !.op = "create", !.to = u, !.n = n, !.of = c,
                      !.pc = IF n > 0 THEN "read" ELSE "insert",
                      !.from = IF n = 0 THEN Nobody ELSE IF c = Nobody THEN Ikyomm ELSE c]
  <2>2. PICK a \in Admins : Begin(r, [s0 EXCEPT !.by = a])
    BY <1>6 DEF CreateUser, BeginSigned
  <2> DEFINE s == [s0 EXCEPT !.by = a]
  <2>1. /\ s \in Request /\ s.op = "create" /\ s.held = {} /\ s.n = n /\ s.to = u /\ s.of = c
        /\ s.pc = IF n > 0 THEN "read" ELSE "insert"
        /\ s.from = IF n = 0 THEN Nobody ELSE IF c = Nobody THEN Ikyomm ELSE c
        /\ s.by = a
    BY <1>0 DEF Request, Ops, Pcs, Idle
  <2>4. Begin(r, s)
    BY <2>2
  <2> HIDE DEF s, IInv, LocksInv
  <2>3. Sane(s)
    BY <1>0, <2>1 DEF Sane, Creating
  <2> QED
    BY <1>0, <2>1, <2>3, <2>4, BeginKeeps
<1>7. ASSUME NEW c \in Companies, NEW n \in Credits \cup {0}, CreateCompany(r, c, n) PROVE IInv'
  <2> DEFINE s0 == [Idle EXCEPT !.op = "company", !.to = c, !.n = n,
                      !.pc = IF n > 0 THEN "read" ELSE "insert",
                      !.from = IF n = 0 THEN Nobody ELSE Ikyomm]
  <2>2. PICK a \in Admins : Begin(r, [s0 EXCEPT !.by = a])
    BY <1>7 DEF CreateCompany, BeginSigned
  <2> DEFINE s == [s0 EXCEPT !.by = a]
  <2>1. /\ s \in Request /\ s.op = "company" /\ s.held = {} /\ s.n = n /\ s.to = c /\ s.of = Nobody
        /\ s.pc = IF n > 0 THEN "read" ELSE "insert"
        /\ s.from = IF n = 0 THEN Nobody ELSE Ikyomm
        /\ s.by = a
    BY <1>0 DEF Request, Ops, Pcs, Idle
  <2>4. Begin(r, s)
    BY <2>2
  <2> HIDE DEF s, IInv, LocksInv
  <2>3. Sane(s)
    BY <1>0, <2>1 DEF Sane, Founding
  <2> QED
    BY <1>0, <2>1, <2>3, <2>4, BeginKeeps
<1>8. ASSUME NEW o \in Companies \cup {Ikyomm}, CreateWallet(r, o) PROVE IInv'
  <2>2. PICK a \in Admins :
          Begin(r, [[Idle EXCEPT !.op = "open", !.pc = "open", !.to = o] EXCEPT !.by = a])
    BY <1>8 DEF CreateWallet, BeginSigned
  <2> DEFINE s == [[Idle EXCEPT !.op = "open", !.pc = "open", !.to = o] EXCEPT !.by = a]
  <2>1. s \in Request /\ s.op = "open" /\ s.pc = "open" /\ s.held = {} /\ Sane(s)
    BY <1>0 DEF Request, Ops, Pcs, Sane, Opening, Idle
  <2> HIDE DEF s, IInv, LocksInv
  <2> QED
    BY <2>1, <2>2, BeginKeeps DEF s
<1>9. ASSUME NEW c \in Companies, RemoveCompany(r, c) PROVE IInv'
  <2>2. PICK own \in SUBSET Users :
          Begin(r, [Idle EXCEPT !.op = "removeCompany", !.pc = "collect", !.of = c, !.left = own])
    BY <1>9 DEF RemoveCompany
  <2> DEFINE s == [Idle EXCEPT !.op = "removeCompany", !.pc = "collect", !.of = c, !.left = own]
  <2>1. s \in Request /\ s.op = "removeCompany" /\ s.pc = "collect" /\ s.held = {} /\ Sane(s)
    BY <1>0 DEF Request, Ops, Pcs, Sane, RemovingCompany, Idle
  <2> HIDE DEF s, IInv, LocksInv
  <2> QED
    BY <2>1, <2>2, BeginKeeps DEF s
<1>11. ASSUME NEW a \in Admins, RemoveAdmin(r, a) PROVE IInv'
  <2> DEFINE s == [Idle EXCEPT !.op = "removeAdmin", !.pc = "deleteAdmin", !.by = a,
                               !.n = MaxNamed]
  <2>1. /\ s \in Request /\ s.op = "removeAdmin" /\ s.pc = "deleteAdmin" /\ s.held = {}
        /\ Sane(s)
    BY <1>0, WalletsAssumption DEF Request, Ops, Pcs, Sane, RemovingAdmin, Idle
  <2>2. Begin(r, s)
    BY <1>11 DEF RemoveAdmin
  <2> HIDE DEF s, IInv, LocksInv
  <2> QED
    BY <2>1, <2>2, BeginKeeps
<1>10. Users \subseteq Accounts /\ Companies \subseteq Accounts
  BY DEF Accounts
<1> HIDE DEF IInv, LocksInv
<1> QED
  BY <1>1, <1>2, <1>3, <1>4, <1>5, <1>6, <1>7, <1>8, <1>9, <1>10, <1>11
  DEF Start, TransferUserCredits, AddCompanyCredits, TransferCompanyCredits

\* A step to pc takes what it wants and changes no table.
LEMMA StepKeeps ==
  ASSUME IInv, NEW r \in Requests, NEW pc \in Pcs, Step(r, pc), Granted(r) \/ Wants(r) = {},
         \A s \in Request :
           /\ s.op = req[r].op /\ s.by = req[r].by /\ s.from = req[r].from /\ s.to = req[r].to
           /\ s.n = req[r].n
           /\ s.of = req[r].of /\ s.left = req[r].left /\ s.seen = req[r].seen
           /\ s.pc = pc /\ s.held = req[r].held \cup Wants(r)
           => Sane(s) /\ Backed(s)
  PROVE  IInv'
<1> DEFINE s == [req[r] EXCEPT !.pc = pc, !.held = req[r].held \cup Wants(r)]
<1>1. req[r] \in Request /\ Wants(r) \in SUBSET Locks
  BY WantsLocks DEF IInv, LocksInv, TypeOK, Request, Ops, Pcs
<1>0. s = [req[r] EXCEPT !.pc = pc, !.held = req[r].held \cup Wants(r)]
  OBVIOUS
<1>3. req' = [req EXCEPT ![r] = s] /\ UNCHANGED <<tables, history>>
  BY DEF Step, Goto
<1> HIDE DEF s
<1>2. /\ s \in Request /\ s.held = req[r].held \cup Wants(r)
      /\ s.op = req[r].op /\ s.by = req[r].by /\ s.from = req[r].from /\ s.to = req[r].to
           /\ s.n = req[r].n
      /\ s.of = req[r].of /\ s.left = req[r].left /\ s.seen = req[r].seen /\ s.pc = pc
  BY ONLY <1>0, <1>1, pc \in Pcs DEF Request
<1>4. Sane(s) /\ Backed(s)
  BY <1>2
<1> QED
  BY <1>2, <1>3, <1>4, MoveKeeps DEF Granted

\* A row was written: the transaction goes on to pc, or first checks who signs.
Signed(s) == s.by = Nobody \/ ShareOf(s.by) \in s.held

LEMMA WrittenKeeps ==
  ASSUME IInv, NEW r \in Requests, NEW pc \in Pcs,
         \/ Step(r, pc) /\ Signed(req[r])
         \/ Step(r, "sign") /\ ~Signed(req[r]),
         Granted(r) \/ Wants(r) = {},
         \A s \in Request :
           /\ s.op = req[r].op /\ s.by = req[r].by /\ s.from = req[r].from /\ s.to = req[r].to
           /\ s.n = req[r].n
           /\ s.of = req[r].of /\ s.left = req[r].left /\ s.seen = req[r].seen
           /\ s.held = req[r].held \cup Wants(r)
           /\ \/ s.pc = pc /\ Signed(req[r])
              \/ s.pc = "sign" /\ s.by \in Admins /\ ~Signed(req[r])
           => Sane(s) /\ Backed(s)
  PROVE  IInv'
<1>1. CASE Step(r, pc) /\ Signed(req[r])
  BY <1>1, StepKeeps
<1>2. CASE Step(r, "sign") /\ ~Signed(req[r])
  <2>1. req[r].by \in Admins
    BY <1>2 DEF IInv, LocksInv, TypeOK, Signed
  <2>2. "sign" \in Pcs
    BY DEF Pcs
  <2> QED
    BY <1>2, <2>1, <2>2, StepKeeps
<1> QED
  BY <1>1, <1>2

\* An update whose row may name its administrator already.
LEMMA UpdatedKeeps ==
  ASSUME IInv, NEW r \in Requests, NEW pc \in Pcs,
         Step(r, pc) \/ (Step(r, "sign") /\ ~Signed(req[r])),
         Granted(r) \/ Wants(r) = {},
         \A s \in Request :
           /\ s.op = req[r].op /\ s.by = req[r].by /\ s.from = req[r].from /\ s.to = req[r].to
           /\ s.n = req[r].n
           /\ s.of = req[r].of /\ s.left = req[r].left /\ s.seen = req[r].seen
           /\ s.held = req[r].held \cup Wants(r)
           /\ s.pc = pc \/ (s.pc = "sign" /\ s.by \in Admins)
           => Sane(s) /\ Backed(s)
  PROVE  IInv'
<1>1. CASE Step(r, pc)
  BY <1>1, StepKeeps
<1>2. CASE Step(r, "sign") /\ ~Signed(req[r])
  <2>1. req[r].by \in Admins
    BY <1>2 DEF IInv, LocksInv, TypeOK, Signed
  <2>2. "sign" \in Pcs
    BY DEF Pcs
  <2> QED
    BY <1>2, <2>1, <2>2, StepKeeps
<1> QED
  BY <1>1, <1>2

-----------------------------------------------------------------------------
(* The steps of transfers, creations and bookings before they commit.       *)

LEMMA SignKeeps ==
  ASSUME IInv, NEW r \in Requests, Sign(r)
  PROVE  IInv'
<1> DEFINE old == req[r]
           pc == CASE old.op = "add"      -> IF old.from = Nobody THEN "adjust" ELSE "debit"
                   [] old.op = "transfer" ->
                        IF <<"wallet", old.from>> \in old.held THEN "commit" ELSE "debit"
                   [] old.op = "create"   ->
                        IF <<"row", old.to>> \in old.held THEN "commit" ELSE "insert"
                   [] old.op = "company"  -> IF old.n > 0 THEN "debit" ELSE "commit"
                   [] OTHER               -> "commit"
<1>1. CASE Rollback(r)
  BY <1>1, RollbackKeeps
<1>2. CASE Step(r, pc)
  <2>1. old.pc = "sign" /\ Sane(old) /\ Backed(old) /\ Granted(r)
    BY DEF Sign, IInv, LocksInv
  <2>2. Wants(r) = {ShareOf(old.by)}
    BY <2>1 DEF Wants, ShareOf
  <2>3. pc \in Pcs
    BY DEF Pcs
  <2> SUFFICES ASSUME NEW s \in Request,
                      s.op = old.op, s.by = old.by, s.from = old.from, s.to = old.to, s.n = old.n,
                      s.of = old.of, s.left = old.left, s.seen = old.seen,
                      s.pc = pc, s.held = old.held \cup Wants(r)
               PROVE  Sane(s) /\ Backed(s)
    BY <1>2, <2>1, <2>3, StepKeeps
  <2>4. \A o : /\ WalletOf(o) \in s.held <=> WalletOf(o) \in old.held
               /\ RowOf(o) \in s.held <=> RowOf(o) \in old.held
               /\ ShareOf(o) \in old.held => ShareOf(o) \in s.held
    BY <2>2 DEF WalletOf, RowOf, ShareOf
  <2> HIDE DEF old
  <2>5. CASE Adding(old)
    <3>1. Adding(s)
      BY <2>1, <2>2, <2>5, Names DEF Adding
    <3> QED
      BY <2>1, <2>2, <2>4, <2>5, <3>1
      DEF Sane, Adding, Backed, Funded, Debited, Received, Reached, Inserted, Placed, Erasing
  <2>6. CASE Transferring(old)
    <3>1. Transferring(s)
      BY <2>1, <2>2, <2>6 DEF Transferring, WalletOf
    <3>2. Funded(s)
      BY <2>1, <2>4, <2>6 DEF Transferring, Backed, Funded, Debited, WalletOf
    <3>3. Received(s)
      BY <2>1, <2>4, <2>6 DEF Transferring, Backed, Received, Reached
    <3> QED
      BY <2>6, <3>1, <3>2, <3>3 DEF Sane, Transferring, Backed, Inserted, Placed, Erasing
  <2>7. CASE Creating(old)
    <3>1. Creating(s)
      BY <2>1, <2>2, <2>7 DEF Creating, RowOf
    <3>2. Funded(s)
      BY <2>1, <2>4, <2>7 DEF Creating, Backed, Funded, Debited
    <3>3. Inserted(s)
      BY <2>1, <2>4, <2>7 DEF Creating, Backed, Inserted, Placed, RowOf
    <3> QED
      BY <2>7, <3>1, <3>2, <3>3 DEF Sane, Creating, Backed, Received, Reached, Erasing
  <2>8. CASE Founding(old)
    <3>1. Founding(s)
      BY <2>1, <2>2, <2>8 DEF Founding
    <3>2. Inserted(s)
      BY <2>1, <2>4, <2>8 DEF Founding, Backed, Inserted, Placed
    <3> QED
      BY <2>1, <2>8, <3>1, <3>2
      DEF Sane, Founding, Backed, Funded, Debited, Received, Reached, Erasing
  <2>9. CASE Opening(old)
    <3>1. Opening(s)
      BY <2>1, <2>2, <2>9 DEF Opening
    <3>2. Received(s)
      BY <2>1, <2>4, <2>9 DEF Opening, Backed, Received, Reached
    <3> QED
      BY <2>9, <3>1, <3>2
      DEF Sane, Opening, Backed, Funded, Debited, Inserted, Placed, Erasing
  <2> QED
    BY <2>1, <2>5, <2>6, <2>7, <2>8, <2>9
    DEF Sane, Idle, Booking, RemovingUser, RemovingCompany, RemovingAdmin
<1> QED
  BY <1>1, <1>2 DEF Sign

LEMMA ReadSourceKeeps ==
  ASSUME IInv, NEW r \in Requests, ReadSource(r)
  PROVE  IInv'
<1> DEFINE old == req[r]
           pc == CASE old.op = "transfer" -> "upsert"
                   [] old.op = "company"  -> "insert"
                   [] OTHER               -> "debit"
<1>1. CASE Rollback(r)
  BY <1>1, RollbackKeeps
<1>2. CASE Step(r, pc)
  <2>1. old.pc = "read" /\ Sane(old) /\ Backed(old)
    BY DEF ReadSource, IInv, LocksInv
  <2>2. Wants(r) = {}
    BY <2>1 DEF Wants
  <2>3. pc \in Pcs
    BY DEF Pcs
  <2> SUFFICES ASSUME NEW s \in Request,
                      s.op = old.op, s.by = old.by, s.from = old.from, s.to = old.to, s.n = old.n,
                      s.of = old.of, s.left = old.left, s.seen = old.seen,
                      s.pc = pc, s.held = old.held \cup Wants(r)
               PROVE  Sane(s) /\ Backed(s)
    BY <1>2, <2>2, <2>3, StepKeeps
  <2>4. s.held = {} /\ Sane(s)
    BY <2>1, <2>2 DEF Sane, Idle, Adding, Transferring, Creating, Founding, Booking, Opening, RemovingAdmin,
       RemovingUser, RemovingCompany
  <2>6. old.op # "open"
    BY <2>1 DEF Sane, Idle, Adding, Transferring, Creating, Founding, Booking, Opening,
       RemovingUser, RemovingCompany, RemovingAdmin
  <2>5. Backed(s)
    BY <2>1, <2>4, <2>6 DEF Backed, Funded, Debited, Received, Reached, Inserted, Placed, Erasing
  <2> QED
    BY <2>4, <2>5
<1> QED
  BY <1>1, <1>2 DEF ReadSource

LEMMA UpsertKeeps ==
  ASSUME IInv, NEW r \in Requests, Upsert(r)
  PROVE  IInv'
<1> DEFINE old == req[r]
<1>1. CASE Rollback(r)
  BY <1>1, RollbackKeeps
<1>2. CASE /\ account[old.to] \in Present
           /\ Step(r, "debit") \/ (Step(r, "sign") /\ ~Signed(old))
  <2>1. old.pc = "upsert" /\ Transferring(old) /\ Backed(old) /\ Granted(r)
    BY DEF Upsert, IInv, LocksInv, Sane, Idle, Adding, Creating, Founding, Booking, Opening,
       RemovingUser, RemovingCompany, RemovingAdmin
  <2>2. old.to \in Accounts /\ old.to # old.from
    BY <2>1, Names DEF Transferring, Accounts
  <2>3. Wants(r) = {WalletOf(old.to)} \cup IF ~wallet[old.to].open THEN {ShareOf(old.to)} ELSE {}
    BY <2>1, <2>2 DEF Wants, WalletOf, ShareOf
  <2> SUFFICES ASSUME NEW s \in Request,
                      s.op = old.op, s.by = old.by, s.from = old.from, s.to = old.to, s.n = old.n,
                      s.of = old.of, s.left = old.left, s.seen = old.seen,
                      s.pc \in {"sign", "debit"}, s.held = old.held \cup Wants(r)
               PROVE  Sane(s) /\ Backed(s)
    BY <1>2, <2>1, UpdatedKeeps DEF Pcs
  <2>4. Transferring(s)
    BY <2>1, <2>3 DEF Transferring
  <2>7. WalletOf(s.from) \notin s.held
    BY <2>1, <2>2, <2>3 DEF Transferring, WalletOf, ShareOf
  <2>5. Backed(s)
    BY <1>2, <2>1, <2>3, <2>4, <2>7
    DEF Transferring, Backed, Funded, Debited, Received, Reached, Inserted, Placed, Erasing
  <2> QED
    BY <2>4, <2>5 DEF Sane
<1> QED
  BY <1>1, <1>2 DEF Upsert, Present, Written, Signed, ShareOf

LEMMA DebitKeeps ==
  ASSUME IInv, NEW r \in Requests, Debit(r)
  PROVE  IInv'
<1> DEFINE old == req[r]
<1>1. CASE Rollback(r)
  BY <1>1, RollbackKeeps
<1>2. CASE /\ wallet[old.from].open /\ wallet[old.from].credit >= old.n
           /\ CASE old.op = "book"   -> Step(r, "session")
                [] old.op = "create" -> Step(r, "insert") \/ (Step(r, "sign") /\ ~Signed(old))
                [] OTHER             -> \/ Step(r, "commit") /\ Signed(old)
                                        \/ Step(r, "sign") /\ ~Signed(old)
  <2>1. old.pc = "debit" /\ Sane(old) /\ Backed(old) /\ Granted(r)
    BY DEF Debit, IInv, LocksInv
  <2>2. Wants(r) = {WalletOf(old.from)}
    BY <2>1 DEF Wants, WalletOf
  <2>3. \A o : RowOf(o) \in old.held \cup Wants(r) <=> RowOf(o) \in old.held
    BY <2>2 DEF WalletOf, RowOf
  <2>4. CASE Adding(old)
    <3>1. (Step(r, "commit") /\ Signed(old)) \/ (Step(r, "sign") /\ ~Signed(old))
      BY <1>2, <2>4 DEF Adding
    <3> SUFFICES ASSUME NEW s \in Request,
                        s.op = old.op, s.by = old.by, s.from = old.from, s.to = old.to,
                        s.n = old.n, s.of = old.of, s.left = old.left, s.seen = old.seen,
                        s.pc = "commit" \/ (s.pc = "sign" /\ s.by \in Admins /\ ~Signed(old)),
                        s.held = old.held \cup Wants(r)
                 PROVE  Sane(s) /\ Backed(s)
      BY <2>1, <3>1, WrittenKeeps DEF Pcs
    <3>2. Adding(s) /\ s.pc = "commit"
      BY <2>1, <2>2, <2>4 DEF Adding, Signed
    <3> QED
      BY <1>2, <2>1, <2>2, <2>4, <3>2
      DEF Sane, Adding, Backed, Funded, Debited, Received, Reached, Inserted, Placed, Erasing
  <2>5. CASE Transferring(old)
    <3>1. (Step(r, "commit") /\ Signed(old)) \/ (Step(r, "sign") /\ ~Signed(old))
      BY <1>2, <2>5 DEF Transferring
    <3> SUFFICES ASSUME NEW s \in Request,
                        s.op = old.op, s.by = old.by, s.from = old.from, s.to = old.to,
                        s.n = old.n, s.of = old.of, s.left = old.left, s.seen = old.seen,
                        s.pc \in {"commit", "sign"}, s.held = old.held \cup Wants(r)
                 PROVE  Sane(s) /\ Backed(s)
      BY <2>1, <3>1, WrittenKeeps DEF Pcs
    <3>2. Transferring(s)
      BY <2>1, <2>2, <2>5 DEF Transferring
    <3> QED
      BY <1>2, <2>1, <2>2, <2>5, <3>2
      DEF Sane, Transferring, Backed, Funded, Debited, Received, Reached, Inserted, Placed, Erasing
  <2>6. CASE Creating(old)
    <3>1. Step(r, "insert") \/ (Step(r, "sign") /\ ~Signed(old))
      BY <1>2, <2>6 DEF Creating
    <3> SUFFICES ASSUME NEW s \in Request,
                        s.op = old.op, s.by = old.by, s.from = old.from, s.to = old.to,
                        s.n = old.n, s.of = old.of, s.left = old.left, s.seen = old.seen,
                        s.pc = "insert" \/ (s.pc = "sign" /\ s.by \in Admins),
                        s.held = old.held \cup Wants(r)
                 PROVE  Sane(s) /\ Backed(s)
      BY <2>1, <3>1, UpdatedKeeps DEF Pcs
    <3>2. Creating(s)
      BY <2>1, <2>2, <2>6 DEF Creating
    <3>3. RowOf(s.to) \notin s.held
      BY <2>1, <2>3, <2>6 DEF Creating
    <3> QED
      BY <1>2, <2>1, <2>2, <2>6, <3>2, <3>3
      DEF Sane, Creating, Backed, Funded, Debited, Received, Reached, Inserted, Placed, Erasing
  <2>7. CASE Founding(old)
    <3>1. (Step(r, "commit") /\ Signed(old)) \/ (Step(r, "sign") /\ ~Signed(old))
      BY <1>2, <2>7 DEF Founding
    <3> SUFFICES ASSUME NEW s \in Request,
                        s.op = old.op, s.by = old.by, s.from = old.from, s.to = old.to,
                        s.n = old.n, s.of = old.of, s.left = old.left, s.seen = old.seen,
                        s.pc = "commit" \/ (s.pc = "sign" /\ s.by \in Admins /\ ~Signed(old)),
                        s.held = old.held \cup Wants(r)
                 PROVE  Sane(s) /\ Backed(s)
      BY <2>1, <3>1, WrittenKeeps DEF Pcs
    <3>2. Founding(s) /\ s.pc = "commit"
      BY <2>1, <2>2, <2>7 DEF Founding, Signed
    <3> QED
      BY <1>2, <2>1, <2>2, <2>7, <3>2
      DEF Sane, Founding, Backed, Funded, Debited, Received, Reached, Inserted, Placed, Erasing
  <2>8. CASE Booking(old)
    <3>1. Step(r, "session")
      BY <1>2, <2>8 DEF Booking
    <3> SUFFICES ASSUME NEW s \in Request,
                        s.op = old.op, s.by = old.by, s.from = old.from, s.to = old.to,
                        s.n = old.n, s.of = old.of, s.left = old.left, s.seen = old.seen,
                        s.pc = "session", s.held = old.held \cup Wants(r)
                 PROVE  Sane(s) /\ Backed(s)
      BY <2>1, <3>1, StepKeeps DEF Pcs
    <3>2. Booking(s)
      BY <2>1, <2>2, <2>8 DEF Booking
    <3> QED
      BY <1>2, <2>1, <2>2, <2>8, <3>2
      DEF Sane, Booking, Backed, Funded, Debited, Received, Reached, Inserted, Placed, Erasing
  <2> QED
    BY <2>1, <2>4, <2>5, <2>6, <2>7, <2>8
    DEF Sane, Idle, Opening, RemovingUser, RemovingCompany, RemovingAdmin
<1> QED
  BY <1>1, <1>2 DEF Debit, Written, Signed, ShareOf

LEMMA AdjustKeeps ==
  ASSUME IInv, NEW r \in Requests, Adjust(r)
  PROVE  IInv'
<1> DEFINE old == req[r]
<1>1. old.pc = "adjust" /\ Adding(old) /\ Backed(old) /\ Granted(r) /\ Step(r, "commit")
  BY DEF Adjust, IInv, LocksInv, Sane, Idle, Transferring, Creating, Founding, Booking, Opening,
     RemovingUser, RemovingCompany, RemovingAdmin
<1>2. Wants(r) = {WalletOf(Ikyomm)}
  BY <1>1, Names DEF Wants, WalletOf, Adding
<1> SUFFICES ASSUME NEW s \in Request,
                    s.op = old.op, s.by = old.by, s.from = old.from, s.to = old.to, s.n = old.n,
                    s.of = old.of, s.left = old.left, s.seen = old.seen,
                    s.pc = "commit", s.held = old.held \cup Wants(r)
             PROVE  Sane(s) /\ Backed(s)
  BY <1>1, StepKeeps DEF Pcs
<1>3. Adding(s)
  BY <1>1, <1>2 DEF Adding
<1> QED
  BY <1>1, <1>2, <1>3
  DEF Sane, Adding, Backed, Funded, Debited, Received, Reached, Inserted, Placed, Erasing

LEMMA InsertAccountKeeps ==
  ASSUME IInv, NEW r \in Requests, InsertAccount(r)
  PROVE  IInv'
<1> DEFINE old == req[r]
           pc == IF old.op = "company" /\ old.n > 0 THEN "debit" ELSE "commit"
<1>1. CASE Rollback(r)
  BY <1>1, RollbackKeeps
<1>2. CASE /\ account[old.to] = "none"
           /\ (Step(r, pc) /\ Signed(old)) \/ (Step(r, "sign") /\ ~Signed(old))
  <2>1. old.pc = "insert" /\ (Creating(old) \/ Founding(old)) /\ Backed(old) /\ Granted(r)
    BY DEF InsertAccount, IInv, LocksInv, Sane, Idle, Adding, Transferring, Booking, Opening,
       RemovingUser, RemovingCompany, RemovingAdmin
  <2>2. Wants(r) = {RowOf(old.to)} \cup IF old.of \in Companies THEN {ShareOf(old.of)} ELSE {}
    BY <1>2, <2>1 DEF Wants, RowOf, ShareOf
  <2>3. pc \in Pcs
    BY DEF Pcs
  <2> SUFFICES ASSUME NEW s \in Request,
                      s.op = old.op, s.by = old.by, s.from = old.from, s.to = old.to, s.n = old.n,
                      s.of = old.of, s.left = old.left, s.seen = old.seen,
                      (s.pc = pc /\ Signed(old)) \/ (s.pc = "sign" /\ s.by \in Admins),
                      s.held = old.held \cup Wants(r)
               PROVE  Sane(s) /\ Backed(s)
    BY <1>2, <2>1, <2>3, WrittenKeeps
  <2>6. \A o : WalletOf(o) \in s.held <=> WalletOf(o) \in old.held
    BY <2>2 DEF WalletOf, RowOf, ShareOf
  <2> HIDE DEF old
  <2>4. CASE Creating(old)
    <3>1. Creating(s)
      BY <2>1, <2>2, <2>4 DEF Creating
    <3>2. Funded(s)
      BY <2>1, <2>4, <2>6 DEF Creating, Backed, Funded, Debited
    <3>3. Inserted(s)
      BY <1>2, <2>2, <2>4 DEF Creating, Inserted
    <3> QED
      BY <2>4, <3>1, <3>2, <3>3 DEF Sane, Creating, Backed, Received, Reached, Erasing
  <2>5. CASE Founding(old)
    <3>1. Founding(s) /\ s.pc = "sign"
      BY <2>1, <2>2, <2>5, Names DEF Founding, Accounts, Signed
    <3>2. WalletOf(s.from) \notin s.held
      BY <2>1, <2>5, <2>6 DEF Founding
    <3> QED
      BY <1>2, <2>1, <2>2, <2>5, <3>1, <3>2
      DEF Sane, Founding, Backed, Funded, Debited, Received, Reached, Inserted, Placed, Erasing
  <2> QED
    BY <2>1, <2>4, <2>5
<1> QED
  BY <1>1, <1>2 DEF InsertAccount, Written, Signed, ShareOf

LEMMA InsertWalletKeeps ==
  ASSUME IInv, NEW r \in Requests, InsertWallet(r)
  PROVE  IInv'
<1> DEFINE old == req[r]
<1>1. CASE Rollback(r)
  BY <1>1, RollbackKeeps
<1>2. CASE /\ ~wallet[old.to].open /\ (old.to \in Accounts => account[old.to] \in Present)
           /\ (Step(r, "commit") /\ Signed(old)) \/ (Step(r, "sign") /\ ~Signed(old))
  <2>1. old.pc = "open" /\ Opening(old) /\ Backed(old) /\ Granted(r)
    BY DEF InsertWallet, IInv, LocksInv, Sane, Idle, Adding, Transferring, Creating, Founding,
       Booking, RemovingUser, RemovingCompany, RemovingAdmin
  <2>2. Wants(r) = {WalletOf(old.to)} \cup IF old.to \in Accounts THEN {ShareOf(old.to)} ELSE {}
    BY <1>2, <2>1 DEF Wants, WalletOf, ShareOf
  <2> SUFFICES ASSUME NEW s \in Request,
                      s.op = old.op, s.by = old.by, s.from = old.from, s.to = old.to, s.n = old.n,
                      s.of = old.of, s.left = old.left, s.seen = old.seen,
                      s.pc \in {"sign", "commit"}, s.held = old.held \cup Wants(r)
               PROVE  Sane(s) /\ Backed(s)
    BY <1>2, <2>1, WrittenKeeps DEF Pcs
  <2>3. Opening(s)
    BY <2>1, <2>2 DEF Opening
  <2>4. Received(s)
    BY <1>2, <2>2 DEF Received
  <2> QED
    BY <2>1, <2>3, <2>4
    DEF Sane, Opening, Backed, Funded, Debited, Inserted, Placed, Erasing
<1> QED
  BY <1>1, <1>2 DEF InsertWallet, Present, Written, Signed, ShareOf

LEMMA InsertSessionKeeps ==
  ASSUME IInv, NEW r \in Requests, InsertSession(r)
  PROVE  IInv'
<1> DEFINE old == req[r]
<1>1. old.pc = "session" /\ Booking(old) /\ Backed(old) /\ Granted(r) /\ Step(r, "commit")
  BY DEF InsertSession, IInv, LocksInv, Sane, Idle, Adding, Transferring, Creating, Founding,
     Opening, RemovingAdmin, RemovingUser, RemovingCompany
<1>2. Wants(r) = {ShareOf(old.from)}
  BY <1>1 DEF Wants, ShareOf
<1> SUFFICES ASSUME NEW s \in Request,
                    s.op = old.op, s.by = old.by, s.from = old.from, s.to = old.to, s.n = old.n,
                    s.of = old.of, s.left = old.left, s.seen = old.seen,
                    s.pc = "commit", s.held = old.held \cup Wants(r)
             PROVE  Sane(s) /\ Backed(s)
  BY <1>1, StepKeeps DEF Pcs
<1>3. Booking(s)
  BY <1>1, <1>2 DEF Booking
<1> QED
  BY <1>1, <1>2, <1>3 DEF Sane, Booking, Backed, Funded, Debited, Received, Reached, Inserted, Placed, Erasing

-----------------------------------------------------------------------------
(* The steps that end a transaction and write its rows.                     *)

LEMMA EndKeeps ==
  ASSUME IInv, NEW r \in Requests, req' = [req EXCEPT ![r] = Idle]
  PROVE  /\ req' \in [Requests -> Request]
         /\ req'[r] = Idle /\ \A q \in Requests \ {r} : req'[q] = req[q]
         /\ Exclusive' /\ \A q \in Requests : Sane(req[q])'
<1> USE DEF IInv, LocksInv
<1>1. req \in [Requests -> Request]
  BY DEF TypeOK, Request, Ops, Pcs
<1>2. req'[r] = Idle /\ \A q \in Requests \ {r} : req'[q] = req[q]
  BY <1>1
<1>3. req' \in [Requests -> Request]
  BY <1>1, IdleSane
<1>4. Exclusive'
  BY <1>2, IdleSane DEF Exclusive
<1>5. ASSUME NEW q \in Requests PROVE Sane(req[q])'
  <2>1. Sane(req'[q])
    BY <1>2, IdleSane
  <2> QED
    BY <2>1 DEF Sane, Idle, NoRows, Adding, Transferring, Creating, Founding, Booking, Opening, RemovingAdmin,
       RemovingUser, RemovingCompany
<1> QED
  BY <1>2, <1>3, <1>4, <1>5

\* Locks that exclude each other are not held by two requests.
LEMMA Apart ==
  ASSUME Exclusive, NEW r \in Requests, NEW q \in Requests, r # q, NEW o
  PROVE  /\ ~(WalletOf(o) \in req[r].held /\ WalletOf(o) \in req[q].held)
         /\ ~(RowOf(o) \in req[r].held /\ RowOf(o) \in req[q].held)
         /\ ~(RowOf(o) \in req[r].held /\ ShareOf(o) \in req[q].held)
  BY DEF Exclusive, Conflict, WalletOf, RowOf, ShareOf

\* What a commit does to the wallets of the two sides.
LEMMA Shares ==
  ASSUME IInv, NEW s \in Request, Sane(s), Backed(s), s.pc = "commit"
  PROVE  /\ s.from # s.to /\ s.from \in Owners \cup {Nobody} /\ s.to \in Owners \cup {Nobody}
         /\ ~(s.from = Nobody /\ s.to = Nobody)
         /\ s.n # 0 /\ s.from # Nobody => wallet[s.from].open /\ wallet[s.from].credit >= s.n
         /\ s.n # 0 /\ s.to \in Owners => wallet[s.to].open \/ s.to \in Opened(s)
         /\ s.to = Nobody => s.n # 0
         /\ Opened(s) \subseteq {s.to} /\ Opened(s) \subseteq Owners
         /\ s.op \in {"create", "company"} => s.to \in Accounts
         /\ s.n = 0 \/ s.n > 0
<1>1. CASE Adding(s)
  BY <1>1, Names DEF Backed, Funded, Debited, Adding, Opened, Request
<1>2. CASE Transferring(s)
  BY <1>2, Names DEF Backed, Funded, Debited, Transferring, Opened, Request, Accounts
<1>3. CASE Creating(s)
  BY <1>3, Names DEF Backed, Funded, Debited, Creating, Opened, Request, Accounts
<1>4. CASE Founding(s)
  BY <1>4, Names DEF Backed, Funded, Debited, Founding, Opened, Request, Accounts
<1>5. CASE Booking(s)
  BY <1>5, Names DEF Backed, Funded, Debited, Booking, Opened, Request, Accounts
<1>6. CASE Opening(s)
  BY <1>6, Names DEF Opening, Opened, Request, Accounts, Owners
<1> QED
  BY <1>1, <1>2, <1>3, <1>4, <1>5, <1>6
  DEF Sane, Idle, RemovingAdmin, RemovingUser, RemovingCompany

LEMMA CommitKeeps ==
  ASSUME IInv, NEW r \in Requests, Commit(r)
  PROVE  IInv'
<1> DEFINE s == req[r]
<1> USE DEF IInv, LocksInv
<1>1. /\ s.pc = "commit" /\ wallet' = Balances(s) /\ ledger' = Recorded(s)
      /\ account' = IF s.op \in {"create", "company"} THEN [account EXCEPT ![s.to] = "live"]
                    ELSE account
      /\ employer' = IF s.op = "create" THEN [employer EXCEPT ![s.to] = s.of] ELSE employer
      /\ granted' = IF s.from = Nobody THEN granted + s.n ELSE granted
      /\ spent' = IF s.to = Nobody THEN spent + s.n ELSE spent
      /\ erased' = erased /\ req' = [req EXCEPT ![r] = Idle] /\ admin' = admin
  BY DEF Commit
<1>2. s \in Request /\ Sane(s) /\ Backed(s)
  BY DEF TypeOK, Request, Ops, Pcs
<1>3. /\ s.from # s.to /\ s.from \in Owners \cup {Nobody} /\ s.to \in Owners \cup {Nobody}
      /\ ~(s.from = Nobody /\ s.to = Nobody)
      /\ s.n # 0 /\ s.from # Nobody => wallet[s.from].open /\ wallet[s.from].credit >= s.n
      /\ s.n # 0 /\ s.to \in Owners => wallet[s.to].open \/ s.to \in Opened(s)
      /\ s.to = Nobody => s.n # 0
      /\ Opened(s) \subseteq {s.to} /\ Opened(s) \subseteq Owners
      /\ s.op \in {"create", "company"} => s.to \in Accounts
      /\ s.n = 0 \/ s.n > 0
  BY <1>1, <1>2, Shares
<1>4. s.n \in Nat
  BY <1>2 DEF Request
<1> HIDE DEF s
<1>5. /\ wallet \in [Owners -> [open : BOOLEAN, credit : Nat]]
      /\ ledger \in [Owners -> [rows : Nat, net : Int]]
  BY DEF TypeOK
<1>6. \A o \in Owners :
        /\ wallet'[o].open = (wallet[o].open \/ o \in Opened(s))
        /\ wallet'[o].credit = wallet[o].credit + Share(s, o)
        /\ Share(s, o) = IF o = s.to THEN s.n ELSE IF o = s.from THEN 0 - s.n ELSE 0
        /\ wallet'[o].credit \in Nat
  BY <1>1, <1>3, <1>4, <1>5, Names DEF Balances, Share
<1>7. wallet' \in [Owners -> [open : BOOLEAN, credit : Nat]]
  BY <1>1, <1>5, <1>6 DEF Balances
<1>8. \A o \in Owners :
        IF s.n > 0 /\ o \in {s.from, s.to}
        THEN ledger'[o].rows = ledger[o].rows + 1 /\ ledger'[o].net = ledger[o].net + Share(s, o)
        ELSE ledger'[o] = ledger[o]
  BY <1>1 DEF Recorded
<1>9. ledger' \in [Owners -> [rows : Nat, net : Int]]
  <2>1. \A o \in Owners : Share(s, o) \in Int
    BY <1>4, <1>6
  <2>2. \A o \in Owners : ledger[o] \in [rows : Nat, net : Int]
    BY <1>5
  <2>3. \A o \in Owners :
          [rows |-> ledger[o].rows + 1, net |-> ledger[o].net + Share(s, o)] \in [rows : Nat, net : Int]
    BY <2>1, <2>2
  <2> QED
    BY <1>1, <2>2, <2>3 DEF Recorded
<1>10. /\ account' \in [Accounts -> {"none", "live", "deleted", "gone"}]
       /\ \A a \in Accounts :
            /\ account[a] \in Present => account'[a] \in Present
            /\ a # s.to \/ s.op \notin {"create", "company"} => account'[a] = account[a]
       /\ s.op \in {"create", "company"} => account'[s.to] = "live"
  BY <1>1, <1>3 DEF TypeOK, Present
<1>11. \A a \in Opened(s) \cap Accounts : account'[a] \in Present
  BY <1>1, <1>2, <1>3, <1>10 DEF Opened, Backed, Received, Reached, Present
<1>12. /\ employer' \in [Users -> Companies \cup {Nobody}]
       /\ granted' \in Nat /\ spent' \in Nat /\ erased' \in Nat
  <2>1. s.op = "create" => s.of \in Companies \cup {Nobody}
    BY <1>2 DEF Sane, Idle, Adding, Transferring, Creating, Founding, Booking, Opening, RemovingAdmin,
       RemovingUser, RemovingCompany
  <2>2. employer' \in [Users -> Companies \cup {Nobody}]
    BY <1>1, <2>1 DEF TypeOK
  <2>3. granted \in Nat /\ spent \in Nat /\ erased \in Nat
    BY DEF TypeOK
  <2> QED
    BY <1>1, <1>4, <2>2, <2>3
<1>13. TypeOK'
  BY <1>1, <1>7, <1>9, <1>10, <1>12, EndKeeps DEF TypeOK, Request, Ops, Pcs
<1>14. NoOrphans'
  <2> SUFFICES ASSUME NEW o \in Owners
               PROVE  /\ wallet'[o].open /\ o \in Accounts => account'[o] \in Present
                      /\ ledger'[o].rows > 0 => wallet'[o].open
    BY DEF NoOrphans, Present
  <2>1. /\ wallet[o].open /\ o \in Accounts => account[o] \in Present
        /\ ledger[o].rows > 0 => wallet[o].open
    BY DEF NoOrphans, Present
  <2>2. wallet'[o].open /\ o \in Accounts => account'[o] \in Present
    BY <1>6, <1>10, <1>11, <2>1
  <2>3. CASE s.n > 0 /\ o \in {s.from, s.to}
    <3>1. wallet[o].open \/ o \in Opened(s)
      BY <1>3, <2>3, Names
    <3> QED
      BY <1>6, <2>2, <3>1
  <2>4. CASE ~(s.n > 0 /\ o \in {s.from, s.to})
    <3>1. ledger'[o] = ledger[o]
      BY <1>8, <2>4
    <3> QED
      BY <1>6, <2>1, <2>2, <3>1
  <2> QED
    BY <2>3, <2>4
<1>15. UsersRecorded'
  <2> SUFFICES ASSUME NEW u \in Users, wallet'[u].open PROVE ledger'[u].rows > 0
    BY DEF UsersRecorded
  <2>1. u \in Owners /\ ledger[u].rows \in Nat
    BY <1>5 DEF Owners, Accounts
  <2>2. CASE wallet[u].open
    BY <1>8, <2>1, <2>2 DEF UsersRecorded
  <2>3. CASE u \in Opened(s)
    <3>1. s.n > 0 /\ u = s.to
      BY <1>2, <2>3, Names DEF Opened, Sane, Idle, Adding, Transferring, Creating, Founding,
         Booking, Opening, RemovingAdmin, RemovingUser, RemovingCompany, Accounts
    <3> QED
      BY <1>8, <2>1, <3>1
  <2> QED
    BY <1>6, <2>1, <2>2, <2>3
<1>16. Explained'
  BY <1>3, <1>5, <1>6, <1>8 DEF Explained
<1>17. Conserved'
  <2> DEFINE mid == [o \in Owners |-> [credit |-> wallet[o].credit + IF o = s.to THEN s.n ELSE 0]]
  <2>1. Counted(wallet, Owners) /\ Counted(mid, Owners) /\ Counted(wallet', Owners)
    BY <1>4, <1>5, <1>7 DEF Counted
  <2>2. Credit(mid, Owners) = Credit(wallet, Owners) + IF s.to \in Owners THEN s.n ELSE 0
    <3>1. \A o \in Owners : o # s.to => mid[o].credit = wallet[o].credit
      BY <1>5
    <3>2. s.to \in Owners => mid[s.to].credit = wallet[s.to].credit + s.n
      OBVIOUS
    <3> HIDE DEF mid
    <3>3. CASE s.to \in Owners
      <4>1. Credit(mid, Owners) = Credit(wallet, Owners) + mid[s.to].credit - wallet[s.to].credit
        BY <2>1, <3>1, <3>3, Names, CreditChanged
      <4>2. Credit(wallet, Owners) \in Int /\ wallet[s.to].credit \in Int
        BY <1>5, <2>1, <3>3, Names, CreditInt
      <4> QED
        BY <1>4, <3>2, <3>3, <4>1, <4>2
    <3>4. CASE s.to \notin Owners
      <4>1. Credit(mid, Owners) = Credit(wallet, Owners)
        BY <3>1, <3>4, Names, CreditSame
      <4>2. Credit(wallet, Owners) \in Int
        BY <2>1, Names, CreditInt
      <4> QED
        BY <3>4, <4>1, <4>2
    <3> QED
      BY <3>3, <3>4
  <2>3. Credit(wallet', Owners) = Credit(mid, Owners) - IF s.from \in Owners THEN s.n ELSE 0
    <3>1. \A o \in Owners : o # s.from => wallet'[o].credit = mid[o].credit
      BY <1>4, <1>5, <1>6
    <3>2. s.from \in Owners => wallet'[s.from].credit = mid[s.from].credit - s.n
      BY <1>3, <1>4, <1>5, <1>6
    <3> HIDE DEF mid
    <3>3. CASE s.from \in Owners
      <4>1. Credit(wallet', Owners) = Credit(mid, Owners) + wallet'[s.from].credit - mid[s.from].credit
        BY <2>1, <3>1, <3>3, Names, CreditChanged
      <4>2. Credit(mid, Owners) \in Int /\ mid[s.from].credit \in Int
        BY <2>1, <3>3, Names, CreditInt DEF Counted
      <4> QED
        BY <1>4, <3>2, <3>3, <4>1, <4>2
    <3>4. CASE s.from \notin Owners
      <4>1. Credit(wallet', Owners) = Credit(mid, Owners)
        BY <3>1, <3>4, Names, CreditSame
      <4>2. Credit(mid, Owners) \in Int
        BY <2>1, Names, CreditInt
      <4> QED
        BY <3>4, <4>1, <4>2
    <3> QED
      BY <3>3, <3>4
  <2>4. Credit(wallet, Owners) \in Int
    BY <2>1, Names, CreditInt
  <2> HIDE DEF mid
  <2>5. granted \in Nat /\ spent \in Nat /\ erased \in Nat
    BY DEF TypeOK
  <2>6. granted' = granted + IF s.to \in Owners /\ s.from \notin Owners THEN s.n ELSE 0
    BY <1>1, <1>3, <1>4, <2>5, Names
  <2>7. spent' = spent + IF s.to \in Owners THEN 0 ELSE s.n
    BY <1>1, <1>3, <1>4, <2>5, Names
  <2>8. granted = spent + erased + Credit(wallet, Owners)
    BY DEF Conserved
  <2>9. granted' = spent' + erased' + Credit(wallet', Owners)
    BY <1>1, <1>3, <1>4, <2>2, <2>3, <2>4, <2>5, <2>6, <2>7, <2>8, Names
  <2> QED
    BY <2>9 DEF Conserved
<1>18. ASSUME NEW q \in Requests PROVE Backed(req[q])'
  <2>1. CASE q = r
    BY <1>1, <2>1, EndKeeps, IdleBackedNext DEF Backed, Funded, Debited, Received, Reached, Inserted, Placed, Erasing
  <2>2. CASE q # r
    <3> DEFINE t == req[q]
    <3>1. /\ req'[q] = t /\ Backed(t) /\ Sane(t) /\ t \in Request
          /\ t.from \in Owners \cup {Nobody} /\ t.to \in Owners \cup {Nobody} /\ t.n \in Nat
      BY <1>1, <2>2, EndKeeps DEF TypeOK, Request, Ops, Pcs, Someone
    <3>2. Funded(t)'
      <4> SUFFICES ASSUME Debited(t)
                   PROVE  WalletOf(t.from) \in t.held /\ wallet'[t.from].open /\ wallet'[t.from].credit >= t.n
        BY <3>1 DEF Funded, Debited
      <4>1. /\ WalletOf(t.from) \in t.held /\ wallet[t.from].open /\ wallet[t.from].credit >= t.n
            /\ t.from \in Owners
        BY <3>1 DEF Backed, Funded, Debited
      <4>2. s.n > 0 => t.from # s.from
        <5> SUFFICES ASSUME s.n > 0, t.from = s.from PROVE FALSE
          OBVIOUS
        <5>1. WalletOf(s.from) \in s.held
          BY <1>1, <1>2, <4>1, Names DEF Backed, Funded, Debited
        <5> QED
          BY <2>2, <4>1, <5>1, Apart DEF s
      <4> HIDE DEF t
      <4> QED
        BY <1>3, <1>4, <1>5, <1>6, <3>1, <4>1, <4>2
    <3>3. Received(t)'
      <4> SUFFICES ASSUME Reached(t)
                   PROVE  /\ WalletOf(t.to) \in t.held
                          /\ t.to \in Accounts =>
                               /\ account'[t.to] \in Present
                               /\ wallet'[t.to].open \/ ShareOf(t.to) \in t.held
        BY <3>1 DEF Received, Reached
      <4> SUFFICES ASSUME t.to \in Accounts
                   PROVE  /\ account'[t.to] \in Present
                          /\ wallet'[t.to].open \/ ShareOf(t.to) \in t.held
        BY <3>1 DEF Backed, Received
      <4>2. /\ WalletOf(t.to) \in t.held /\ account[t.to] \in Present
            /\ wallet[t.to].open \/ ShareOf(t.to) \in t.held
        BY <3>1 DEF Backed, Received
      <4> QED
        BY <1>6, <1>10, <4>2, Names
    <3>4. Inserted(t)'
      <4> SUFFICES ASSUME Placed(t)
                   PROVE  RowOf(t.to) \in t.held /\ account'[t.to] = "none"
        BY <3>1 DEF Inserted, Placed
      <4>1. RowOf(t.to) \in t.held /\ account[t.to] = "none"
        BY <3>1 DEF Backed, Inserted
      <4>2. t.to \in Accounts
        BY <3>1 DEF Placed, Sane, Idle, Adding, Transferring, Creating, Founding, Booking, Opening,
           RemovingAdmin, RemovingUser, RemovingCompany, Accounts
      <4>3. t.to # s.to \/ s.op \notin {"create", "company"}
        <5>1. s.op \in {"create", "company"} => RowOf(s.to) \in s.held
          BY <1>1, <1>2 DEF Backed, Inserted, Placed
        <5> QED
          BY <2>2, <4>1, <5>1, Apart DEF s
      <4> QED
        BY <1>10, <4>1, <4>2, <4>3
    <3>5. Erasing(t)'
      <4> SUFFICES ASSUME t.op \in {"removeUser", "removeCompany"}
                   PROVE  \A a \in Accounts :
                            RowOf(a) \in t.held /\ wallet'[a].open
                            => \/ WalletOf(a) \in t.held
                               \/ a = t.to /\ t.pc \in {"eraseUser", "erase"}
        BY <3>1 DEF Erasing, Backed
      <4> SUFFICES ASSUME NEW a \in Accounts, RowOf(a) \in t.held, wallet'[a].open
                   PROVE  wallet[a].open
        BY <3>1 DEF Erasing, Backed
      <4>1. wallet[a].open \/ a \in Opened(s)
        BY <1>6, Names
      <4>2. ASSUME a \in Opened(s) PROVE wallet[a].open
        <5>1. /\ a = s.to
              /\ s.op \in {"transfer", "open"} \/ s.op \in {"create", "company"}
          BY <1>3, <4>2 DEF Opened
        <5>2. CASE s.op \in {"transfer", "open"}
          BY <1>1, <1>2, <2>2, <5>1, <5>2, Apart DEF Backed, Received, Reached, s
        <5>3. CASE s.op \in {"create", "company"}
          BY <1>1, <1>2, <2>2, <5>1, <5>3, Apart DEF Backed, Inserted, Placed, s
        <5> QED
          BY <5>1, <5>2, <5>3
      <4> QED
        BY <4>1, <4>2
    <3>6. t.op = "add" => wallet'[Ikyomm].open
      BY <1>6, <3>1, Names DEF Backed
    <3> QED
      BY <3>1, <3>2, <3>3, <3>4, <3>5, <3>6 DEF Backed
  <2> QED
    BY <2>1, <2>2
<1> QED
  BY <1>1, <1>13, <1>14, <1>15, <1>16, <1>17, <1>18, EndKeeps

-----------------------------------------------------------------------------
(* Removals.                                                                *)

LEMMA CollectKeeps ==
  ASSUME IInv, NEW r \in Requests, Collect(r)
  PROVE  IInv'
<1> DEFINE s == req[r]
           company == s.op = "removeCompany" /\ s.left # {}
           rows == [o \in Owners |-> IF o \in s.left \cup {s.of} THEN ledger[o].rows ELSE 0]
           pc == IF company THEN "deleteUser" ELSE IF WalletFirst(s) THEN "erase" ELSE "delete"
<1>1. /\ s.pc = "collect" /\ (RemovingUser(s) \/ RemovingCompany(s)) /\ s \in Request /\ Granted(r)
      /\ s.held = {} /\ UNCHANGED <<tables, history>>
  BY DEF Collect, IInv, LocksInv, TypeOK, Request, Ops, Pcs, Sane, Idle, Adding, Transferring,
     Creating, Founding, Booking, Opening, RemovingAdmin, RemovingUser, RemovingCompany
<1>2. PICK first \in IF company THEN s.left ELSE {s.of} :
        req' = [req EXCEPT ![r] = [s EXCEPT !.pc = pc, !.to = first, !.seen = rows,
                                            !.held = s.held \cup Wants(r)]]
  BY DEF Collect
<1>3. Wants(r) \subseteq {LedgerOf(o) : o \in s.left \cup {s.of}} /\ Wants(r) \in SUBSET Locks
  <2>1. Wants(r) = {<<"ledger", o>> : o \in {p \in s.left \cup {s.of} : ledger[p].rows > 0}}
    BY <1>1 DEF Wants
  <2> QED
    BY <1>1, <2>1, WantsLocks DEF LedgerOf, IInv, LocksInv
<1>4. rows \in [Owners -> Nat] /\ first \in Someone /\ pc \in Pcs
  <2>1. \A o \in Owners : ledger[o].rows \in Nat
    BY DEF IInv, LocksInv, TypeOK
  <2>2. rows \in [Owners -> Nat]
    BY <2>1
  <2>3. first \in Someone
    BY <1>1 DEF Request, Someone, Owners, Accounts
  <2> QED
    BY <2>2, <2>3 DEF Pcs
<1> DEFINE t == [s EXCEPT !.pc = pc, !.to = first, !.seen = rows, !.held = s.held \cup Wants(r)]
<1> HIDE DEF rows, pc
<1>5. /\ t \in Request /\ t.op = s.op /\ t.from = s.from /\ t.n = s.n /\ t.of = s.of
      /\ t.left = s.left /\ t.seen = rows /\ t.pc = pc /\ t.to = first /\ t.held = Wants(r)
  BY <1>1, <1>3, <1>4 DEF Request
<1>6. req' = [req EXCEPT ![r] = t]
  BY <1>2
<1> HIDE DEF t
<1>7. Sane(t)
  <2>1. CASE RemovingUser(s)
    <3>1. pc = "erase" /\ first = s.of
      BY <1>2, <2>1 DEF pc, RemovingUser, WalletFirst
    <3> QED
      BY <1>3, <1>5, <2>1, <3>1 DEF Sane, RemovingUser
  <2>2. CASE RemovingCompany(s)
    <3>1. IF s.left # {} THEN pc = "deleteUser" /\ first \in s.left ELSE pc = "delete" /\ first = s.of
      BY <1>2, <2>2 DEF pc, RemovingCompany, WalletFirst
    <3> QED
      BY <1>5, <2>2, <3>1 DEF Sane, RemovingCompany
  <2> QED
    BY <1>1, <2>1, <2>2
<1>8. Backed(t)
  <2>1. \A a : RowOf(a) \notin t.held
    BY <1>3, <1>5 DEF RowOf, LedgerOf
  <2>2. t.op \in {"removeUser", "removeCompany"} /\ t.pc \in {"deleteUser", "erase", "delete"}
    BY <1>1, <1>5 DEF RemovingUser, RemovingCompany, pc
  <2>3. t.op = "removeUser" => t.pc # "delete"
    BY <1>5 DEF pc, WalletFirst
  <2> QED
    BY <2>1, <2>2, <2>3 DEF Backed, Funded, Debited, Received, Reached, Inserted, Placed, Erasing
<1> QED
  BY <1>1, <1>5, <1>6, <1>7, <1>8, MoveKeeps DEF Granted

LEMMA DeleteUserKeeps ==
  ASSUME IInv, NEW r \in Requests, DeleteUser(r)
  PROVE  IInv'
<1> DEFINE old == req[r]
<1>1. /\ old.pc = "deleteUser" /\ RemovingCompany(old) /\ Backed(old) /\ Granted(r)
      /\ Step(r, "eraseUser")
  BY DEF DeleteUser, IInv, LocksInv, Sane, Idle, Adding, Transferring, Creating, Founding,
     Booking, Opening, RemovingAdmin, RemovingUser
<1>2. Wants(r) = {RowOf(old.to)}
  BY <1>1 DEF Wants, RowOf
<1> SUFFICES ASSUME NEW s \in Request,
                    s.op = old.op, s.by = old.by, s.from = old.from, s.to = old.to, s.n = old.n,
                    s.of = old.of, s.left = old.left, s.seen = old.seen,
                    s.pc = "eraseUser", s.held = old.held \cup Wants(r)
             PROVE  Sane(s) /\ Backed(s)
  BY <1>1, StepKeeps DEF Pcs
<1>3. RemovingCompany(s)
  BY <1>1 DEF RemovingCompany
<1>4. Erasing(s)
  BY <1>1, <1>2, <1>3 DEF RemovingCompany, Backed, Erasing, RowOf
<1> QED
  BY <1>3, <1>4 DEF Sane, RemovingCompany, Backed, Funded, Debited, Received, Reached, Inserted, Placed

LEMMA EraseUserKeeps ==
  ASSUME IInv, NEW r \in Requests, EraseUser(r)
  PROVE  IInv'
<1> DEFINE s == req[r]
<1>1. CASE Rollback(r)
  BY <1>1, RollbackKeeps
<1>2. ASSUME ~Rollback(r) PROVE IInv'
  <2>1. /\ s.pc = "eraseUser" /\ RemovingCompany(s) /\ Backed(s) /\ s \in Request /\ Granted(r)
        /\ UNCHANGED <<tables, history>>
    <3>1. s.pc = "eraseUser" /\ Granted(r) /\ UNCHANGED <<tables, history>>
      BY <1>2 DEF EraseUser
    <3>2. Sane(s) /\ Backed(s) /\ s \in Request
      BY DEF IInv, LocksInv, TypeOK, Request, Ops, Pcs
    <3> QED
      BY <3>1, <3>2 DEF Sane, Idle, Adding, Transferring, Creating, Founding, Booking, Opening, RemovingAdmin,
         RemovingUser
  <2>2. PICK next \in IF s.left = {s.to} THEN {s.of} ELSE s.left \ {s.to} :
          req' = [req EXCEPT ![r] =
            [s EXCEPT !.pc = IF next = s.of THEN "delete" ELSE "deleteUser",
                      !.to = next, !.left = @ \ {s.to}, !.held = @ \cup Wants(r)]]
    BY <1>2 DEF EraseUser
  <2> DEFINE pc == IF next = s.of THEN "delete" ELSE "deleteUser"
             t == [s EXCEPT !.pc = pc, !.to = next, !.left = s.left \ {s.to},
                            !.held = s.held \cup Wants(r)]
  <2>3. req' = [req EXCEPT ![r] = t]
    BY <2>2
  <2>4. Wants(r) = IF wallet[s.to].open THEN {WalletOf(s.to)} ELSE {}
    BY <2>1 DEF Wants, WalletOf
  <2>5. Wants(r) \in SUBSET Locks
    BY WantsLocks DEF IInv, LocksInv
  <2>6. next \in Someone
    BY <2>1, <2>2 DEF Request, Someone, Owners, Accounts
  <2>7. /\ t \in Request /\ t.op = s.op /\ t.from = s.from /\ t.n = s.n /\ t.of = s.of
        /\ t.left = s.left \ {s.to} /\ t.seen = s.seen /\ t.pc = pc /\ t.to = next
        /\ t.held = s.held \cup Wants(r)
    BY <2>1, <2>5, <2>6 DEF Request, Pcs
  <2> HIDE DEF t
  <2>8. RemovingCompany(t)
    <3>1. IF s.left = {s.to} THEN next = s.of ELSE next \in s.left \ {s.to} /\ next # s.of
      BY <2>1, <2>2, Names DEF RemovingCompany
    <3> QED
      BY <2>1, <2>7, <3>1 DEF RemovingCompany
  <2>9. Erasing(t)
    BY <2>1, <2>4, <2>7, <2>8 DEF RemovingCompany, Backed, Erasing, RowOf, WalletOf
  <2> QED
    BY <2>1, <2>3, <2>7, <2>8, <2>9, MoveKeeps
    DEF Granted, Sane, RemovingCompany, Backed, Funded, Debited, Received, Reached, Inserted, Placed
<1> QED
  BY <1>1, <1>2

LEMMA DeleteKeeps ==
  ASSUME IInv, NEW r \in Requests, Delete(r)
  PROVE  IInv'
<1> DEFINE old == req[r]
           pc == IF WalletFirst(old) THEN "removed" ELSE "erase"
<1>1. CASE Rollback(r)
  BY <1>1, RollbackKeeps
<1>2. CASE ~Restricted(r) /\ Step(r, pc)
  <2>1. /\ old.pc = "delete" /\ (RemovingUser(old) \/ RemovingCompany(old)) /\ Backed(old)
        /\ Granted(r) /\ old \in Request
    BY DEF Delete, IInv, LocksInv, TypeOK, Request, Ops, Pcs, Sane, Idle, Adding, Transferring,
       Creating, Founding, Booking, Opening, RemovingAdmin
  <2>2. Wants(r) = {RowOf(old.to)} /\ pc \in Pcs
    BY <2>1 DEF Wants, RowOf, Pcs
  <2> SUFFICES ASSUME NEW s \in Request,
                      s.op = old.op, s.by = old.by, s.from = old.from, s.to = old.to, s.n = old.n,
                      s.of = old.of, s.left = old.left, s.seen = old.seen,
                      s.pc = pc, s.held = old.held \cup Wants(r)
               PROVE  Sane(s) /\ Backed(s)
    BY <1>2, <2>1, <2>2, StepKeeps
  <2>3. CASE RemovingUser(old)
    <3>1. pc = "removed" /\ old.to = old.of /\ old.op = "removeUser" /\ old.of \in Users
      BY <2>1, <2>3 DEF RemovingUser, WalletFirst
    <3>2. RemovingUser(s)
      BY <2>1, <2>2, <2>3, <3>1 DEF RemovingUser
    <3>3. wallet[old.of].open => WalletOf(old.of) \in old.held
      <4>1. wallet[old.of].open => ledger[old.of].rows > 0
        BY <3>1 DEF IInv, LocksInv, UsersRecorded
      <4>2. ledger[old.of].rows = old.seen[old.of]
        BY <1>2, <3>1 DEF Restricted
      <4> QED
        BY <2>1, <3>1, <4>1, <4>2 DEF Backed, Erasing
    <3>4. Erasing(s)
      BY <2>1, <2>2, <3>1, <3>2, <3>3 DEF RemovingUser, Backed, Erasing, RowOf
    <3> QED
      BY <3>1, <3>2, <3>4 DEF Sane, Backed, Funded, Debited, Received, Reached, Inserted, Placed
  <2>4. CASE RemovingCompany(old)
    <3>1. pc = "erase" /\ old.to = old.of /\ old.op = "removeCompany"
      BY <2>1, <2>4 DEF RemovingCompany, WalletFirst
    <3>2. RemovingCompany(s)
      BY <2>1, <2>4, <3>1 DEF RemovingCompany
    <3>3. Erasing(s)
      BY <2>1, <2>2, <3>1, <3>2 DEF RemovingCompany, Backed, Erasing, RowOf
    <3> QED
      BY <3>1, <3>2, <3>3 DEF Sane, Backed, Funded, Debited, Received, Reached, Inserted, Placed
  <2> QED
    BY <2>1, <2>3, <2>4
<1> QED
  BY <1>1, <1>2 DEF Delete

LEMMA EraseKeeps ==
  ASSUME IInv, NEW r \in Requests, Erase(r)
  PROVE  IInv'
<1> DEFINE old == req[r]
           pc == IF WalletFirst(old) THEN "delete" ELSE "removed"
<1>1. CASE Rollback(r)
  BY <1>1, RollbackKeeps
<1>2. CASE ~Restricted(r) /\ Step(r, pc)
  <2>1. /\ old.pc = "erase" /\ (RemovingUser(old) \/ RemovingCompany(old)) /\ Backed(old)
        /\ Granted(r) /\ old \in Request
    BY DEF Erase, IInv, LocksInv, TypeOK, Request, Ops, Pcs, Sane, Idle, Adding, Transferring,
       Creating, Founding, Booking, Opening, RemovingAdmin
  <2>2. Wants(r) = (IF wallet[old.to].open THEN {WalletOf(old.to)} ELSE {}) /\ pc \in Pcs
    BY <2>1 DEF Wants, WalletOf, Pcs
  <2> SUFFICES ASSUME NEW s \in Request,
                      s.op = old.op, s.by = old.by, s.from = old.from, s.to = old.to, s.n = old.n,
                      s.of = old.of, s.left = old.left, s.seen = old.seen,
                      s.pc = pc, s.held = old.held \cup Wants(r)
               PROVE  Sane(s) /\ Backed(s)
    BY <1>2, <2>1, <2>2, StepKeeps
  <2>3. CASE RemovingUser(old)
    <3>1. pc = "delete" /\ old.to = old.of /\ old.op = "removeUser" /\ old.of \in Owners
      BY <2>1, <2>3, Names DEF RemovingUser, WalletFirst, Accounts
    <3>2. RemovingUser(s)
      BY <2>1, <2>2, <2>3, <3>1 DEF RemovingUser
    <3>3. old.seen[old.of] > 0 => wallet[old.of].open
      BY <1>2, <3>1 DEF Restricted, IInv, LocksInv, NoOrphans
    <3>4. \A a : RowOf(a) \notin s.held
      BY <2>1, <2>2, <2>3, <3>1 DEF RemovingUser, RowOf, WalletOf, LedgerOf
    <3>5. Erasing(s)
      BY <2>2, <3>1, <3>3, <3>4 DEF Erasing
    <3> QED
      BY <3>1, <3>2, <3>5 DEF Sane, Backed, Funded, Debited, Received, Reached, Inserted, Placed
  <2>4. CASE RemovingCompany(old)
    <3>1. pc = "removed" /\ old.to = old.of /\ old.op = "removeCompany"
      BY <2>1, <2>4 DEF RemovingCompany, WalletFirst
    <3>2. RemovingCompany(s)
      BY <2>1, <2>4, <3>1 DEF RemovingCompany
    <3>3. Erasing(s)
      BY <2>1, <2>2, <3>1, <3>2 DEF RemovingCompany, Backed, Erasing, RowOf, WalletOf
    <3> QED
      BY <3>1, <3>2, <3>3 DEF Sane, Backed, Funded, Debited, Received, Reached, Inserted, Placed
  <2> QED
    BY <2>1, <2>3, <2>4
<1> QED
  BY <1>1, <1>2 DEF Erase

\* An administrator's row is deleted, and the rows that name him: one more, or all done.
LEMMA ClearNextKeeps ==
  ASSUME IInv, NEW r \in Requests, RemovingAdmin(req[r]), Granted(r), ClearNext(r),
         \A a \in Accounts : RowOf(a) \notin Wants(r)
  PROVE  IInv'
<1> DEFINE old == req[r]
<1>0. old \in Request /\ Wants(r) \in SUBSET Locks
  BY WantsLocks DEF IInv, LocksInv, TypeOK, Request, Ops, Pcs
<1>1. ASSUME NEW s \in Request, s.op = old.op, s.by = old.by, s.from = old.from, s.of = old.of,
             s.pc = "removed" \/ (s.pc = "clear" /\ s.to \in Owners),
             s.held = old.held \cup Wants(r)
      PROVE  Sane(s) /\ Backed(s)
  <2>1. RemovingAdmin(s)
    BY <1>1 DEF RemovingAdmin
  <2> QED
    BY <1>1, <2>1
    DEF Sane, RemovingAdmin, Backed, Funded, Debited, Received, Reached, Inserted, Placed, Erasing
<1>2. CASE Step(r, "removed")
  BY <1>1, <1>2, StepKeeps DEF Pcs
<1>3. CASE ~Step(r, "removed")
  <2>1. PICK o \in Owners :
          req' = [req EXCEPT ![r] = [old EXCEPT !.pc = "clear", !.to = o, !.n = @ - 1,
                                                !.held = @ \cup Wants(r)]]
    BY <1>3 DEF ClearNext
  <2>4. old.n > 0 /\ UNCHANGED <<tables, history>>
    BY <1>3 DEF ClearNext
  <2>5. req' = [req EXCEPT ![r] = [old EXCEPT !.pc = "clear", !.to = o, !.n = old.n - 1,
                                              !.held = old.held \cup Wants(r)]]
    BY <2>1
  <2> DEFINE s == [old EXCEPT !.pc = "clear", !.to = o, !.n = old.n - 1,
                              !.held = old.held \cup Wants(r)]
  <2>2. /\ s \in Request /\ s.op = old.op /\ s.by = old.by /\ s.from = old.from /\ s.of = old.of
        /\ s.pc = "clear" /\ s.to = o /\ s.held = old.held \cup Wants(r)
    <3>1. old.n - 1 \in Nat /\ o \in Someone
      BY <1>0, <2>4 DEF Request, Someone
    <3> QED
      BY <1>0, <3>1 DEF Request, Pcs
  <2> HIDE DEF s, old
  <2>3. Sane(s) /\ Backed(s)
    BY <1>1, <2>2
  <2> QED
    BY <2>2, <2>3, <2>4, <2>5, MoveKeeps DEF Granted, s, old
<1> QED
  BY <1>2, <1>3

LEMMA DeleteAdminKeeps ==
  ASSUME IInv, NEW r \in Requests, DeleteAdmin(r)
  PROVE  IInv'
<1>1. CASE Rollback(r)
  BY <1>1, RollbackKeeps
<1>2. CASE ClearNext(r)
  <2>1. /\ req[r].pc = "deleteAdmin" /\ RemovingAdmin(req[r]) /\ Granted(r)
    BY DEF DeleteAdmin, IInv, LocksInv, Sane, Idle, Adding, Transferring, Creating, Founding,
       Booking, Opening, RemovingUser, RemovingCompany
  <2>2. \A a \in Accounts : RowOf(a) \notin Wants(r)
    BY <2>1, Names DEF Wants, RowOf, RemovingAdmin
  <2> QED
    BY <1>2, <2>1, <2>2, ClearNextKeeps
<1> QED
  BY <1>1, <1>2 DEF DeleteAdmin

LEMMA ClearKeeps ==
  ASSUME IInv, NEW r \in Requests, Clear(r)
  PROVE  IInv'
<1>1. req[r].pc = "clear" /\ RemovingAdmin(req[r]) /\ Granted(r) /\ ClearNext(r)
  BY DEF Clear, IInv, LocksInv, Sane, Idle, Adding, Transferring, Creating, Founding,
     Booking, Opening, RemovingUser, RemovingCompany
<1>2. \A a \in Accounts : RowOf(a) \notin Wants(r)
  BY <1>1 DEF Wants, RowsOf, RowOf
<1> QED
  BY <1>1, <1>2, ClearNextKeeps

LEMMA CommitRemovalKeeps ==
  ASSUME IInv, NEW r \in Requests, CommitRemoval(r)
  PROVE  IInv'
<1> DEFINE s == req[r]
           gone == {a \in Accounts : <<"row", a>> \in s.held}
<1> USE DEF IInv, LocksInv
<1>1. /\ s.pc = "removed"
      /\ account' = [a \in Accounts |-> IF a \notin gone THEN account[a]
                                        ELSE IF a \in Companies THEN "none" ELSE "gone"]
      /\ admin' = [a \in Admins |-> admin[a] /\ <<"row", a>> \notin s.held]
      /\ employer' = [u \in Users |-> IF u \in gone \/ employer[u] \in gone THEN Nobody
                                      ELSE employer[u]]
      /\ wallet' = [o \in Owners |-> IF o \in gone THEN [open |-> FALSE, credit |-> 0]
                                     ELSE wallet[o]]
      /\ ledger' = [o \in Owners |-> IF o \in gone THEN [rows |-> 0, net |-> 0] ELSE ledger[o]]
      /\ erased' = erased + MapThenSumSet(LAMBDA a : wallet[a].credit, gone)
      /\ UNCHANGED <<granted, spent>>
      /\ req' = [req EXCEPT ![r] = Idle]
  BY DEF CommitRemoval
<1>2. /\ s \in Request /\ Sane(s) /\ Backed(s)
      /\ s.op \in {"removeUser", "removeCompany"} \/ RemovingAdmin(s)
  BY <1>1 DEF TypeOK, Request, Ops, Pcs, Sane, Idle, Adding, Transferring, Creating, Founding,
     Booking, Opening, RemovingAdmin, RemovingUser, RemovingCompany
<1>3. \A a \in gone : RowOf(a) \in s.held /\ (wallet[a].open => WalletOf(a) \in s.held)
  BY <1>1, <1>2 DEF Backed, Erasing, RemovingAdmin, RowOf
<1>4. gone \subseteq Accounts /\ gone \subseteq Owners /\ Ikyomm \notin gone
  BY Names
<1> HIDE DEF s, gone
<1>5. /\ wallet \in [Owners -> [open : BOOLEAN, credit : Nat]]
      /\ ledger \in [Owners -> [rows : Nat, net : Int]]
  BY DEF TypeOK
<1>6. \A o \in Owners :
        IF o \in gone
        THEN /\ wallet'[o].open = FALSE /\ wallet'[o].credit = 0
             /\ ledger'[o].rows = 0 /\ ledger'[o].net = 0
        ELSE wallet'[o] = wallet[o] /\ ledger'[o] = ledger[o]
  BY <1>1
<1>7. \A a \in Accounts \ gone : account'[a] = account[a]
  BY <1>1
<1>8. Credit(wallet, gone) \in Nat /\ erased' = erased + Credit(wallet, gone)
      /\ Credit(wallet, Owners) = Credit(wallet, gone) + Credit(wallet', Owners)
  <2>1. erased' = erased + Credit(wallet, gone)
    BY <1>1 DEF Credit
  <2>2. Counted(wallet, Owners) /\ Counted(wallet, gone) /\ IsFiniteSet(gone)
    BY <1>4, <1>5, Names, FS_Subset DEF Counted
  <2>3. Credit(wallet, gone) \in Nat
    BY <1>4, <1>5, <2>2, CreditNat
  <2>4. /\ \A o \in gone : wallet'[o].credit = 0
        /\ \A o \in Owners \ gone : wallet'[o].credit = wallet[o].credit
    BY <1>4, <1>6
  <2> QED
    BY <1>4, <2>1, <2>2, <2>3, <2>4, Names, CreditCleared
<1>9. TypeOK'
  <2>1. account' \in [Accounts -> {"none", "live", "deleted", "gone"}]
    BY <1>1 DEF TypeOK
  <2>2. employer' \in [Users -> Companies \cup {Nobody}] /\ admin' \in [Admins -> BOOLEAN]
    BY <1>1 DEF TypeOK
  <2>3. wallet' \in [Owners -> [open : BOOLEAN, credit : Nat]]
    BY <1>1, <1>5
  <2>4. ledger' \in [Owners -> [rows : Nat, net : Int]]
    BY <1>1, <1>5
  <2>5. granted' \in Nat /\ spent' \in Nat /\ erased' \in Nat
    BY <1>1, <1>8 DEF TypeOK
  <2> QED
    BY <1>1, <2>1, <2>2, <2>3, <2>4, <2>5, EndKeeps DEF TypeOK, Request, Ops, Pcs
<1>10. NoOrphans' /\ UsersRecorded' /\ Explained'
  BY <1>6, <1>7, Names DEF NoOrphans, UsersRecorded, Explained, Accounts
<1>11. Conserved'
  <2>1. granted' = granted /\ spent' = spent /\ granted = spent + erased + Credit(wallet, Owners)
    BY <1>1 DEF Conserved
  <2>2. granted \in Nat /\ spent \in Nat /\ erased \in Nat
    BY DEF TypeOK
  <2>3. Credit(wallet', Owners) \in Int
    BY <1>9, Names, CreditInt DEF Counted, TypeOK
  <2>4. granted' = spent' + erased' + Credit(wallet', Owners)
    BY <1>8, <2>1, <2>2, <2>3
  <2> QED
    BY <2>4 DEF Conserved
<1>12. ASSUME NEW q \in Requests PROVE Backed(req[q])'
  <2>1. CASE q = r
    BY <1>1, <2>1, EndKeeps, IdleBackedNext DEF Backed, Funded, Debited, Received, Reached, Inserted, Placed, Erasing
  <2>2. CASE q # r
    <3> DEFINE t == req[q]
    <3>1. /\ req'[q] = t /\ Backed(t) /\ Sane(t) /\ t \in Request
          /\ t.from \in Owners \cup {Nobody} /\ t.to \in Owners \cup {Nobody}
      BY <1>1, <2>2, EndKeeps DEF TypeOK, Request, Ops, Pcs, Someone
    <3>2. \A a \in gone : RowOf(a) \notin t.held /\ ShareOf(a) \notin t.held
                          /\ (wallet[a].open => WalletOf(a) \notin t.held)
      BY <1>3, <2>2, Apart DEF s
    <3>3. Funded(t)'
      <4> SUFFICES ASSUME Debited(t)
                   PROVE  WalletOf(t.from) \in t.held /\ wallet'[t.from].open /\ wallet'[t.from].credit >= t.n
        BY <3>1 DEF Funded, Debited
      <4>1. /\ WalletOf(t.from) \in t.held /\ wallet[t.from].open /\ wallet[t.from].credit >= t.n
            /\ t.from \in Owners
        BY <3>1 DEF Backed, Funded, Debited
      <4> QED
        BY <1>6, <3>2, <4>1
    <3>4. Received(t)'
      <4> SUFFICES ASSUME Reached(t)
                   PROVE  /\ WalletOf(t.to) \in t.held
                          /\ t.to \in Accounts =>
                               /\ account'[t.to] \in Present
                               /\ wallet'[t.to].open \/ ShareOf(t.to) \in t.held
        BY <3>1 DEF Received, Reached
      <4> SUFFICES ASSUME t.to \in Accounts
                   PROVE  /\ account'[t.to] \in Present
                          /\ wallet'[t.to].open \/ ShareOf(t.to) \in t.held
        BY <3>1 DEF Backed, Received
      <4>2. /\ WalletOf(t.to) \in t.held /\ account[t.to] \in Present
            /\ wallet[t.to].open \/ ShareOf(t.to) \in t.held
        BY <3>1 DEF Backed, Received
      <4>3. t.to \notin gone
        BY <3>2, <4>2
      <4> QED
        BY <1>6, <1>7, <4>2, <4>3, Names
    <3>5. Inserted(t)'
      <4> SUFFICES ASSUME Placed(t)
                   PROVE  RowOf(t.to) \in t.held /\ account'[t.to] = "none"
        BY <3>1 DEF Inserted, Placed
      <4>1. RowOf(t.to) \in t.held /\ account[t.to] = "none"
        BY <3>1 DEF Backed, Inserted
      <4>2. t.to \in Accounts
        BY <3>1 DEF Placed, Sane, Idle, Adding, Transferring, Creating, Founding, Booking, Opening,
           RemovingAdmin, RemovingUser, RemovingCompany, Accounts
      <4> QED
        BY <1>7, <3>2, <4>1, <4>2
    <3>6. Erasing(t)'
      BY <1>6, <3>1, Names DEF Erasing, Backed
    <3>7. t.op = "add" => wallet'[Ikyomm].open
      BY <1>4, <1>6, <3>1, Names DEF Backed
    <3> QED
      BY <3>1, <3>3, <3>4, <3>5, <3>6, <3>7 DEF Backed
  <2> QED
    BY <2>1, <2>2
<1> QED
  BY <1>1, <1>9, <1>10, <1>11, <1>12, EndKeeps

-----------------------------------------------------------------------------
(* Soft deletion and restoration, and the whole.                            *)

LEMMA MarkKeeps ==
  ASSUME IInv, NEW a \in Accounts, NEW v \in Present, account[a] \in Present,
         account' = [account EXCEPT ![a] = v],
         UNCHANGED <<admin, employer, wallet, ledger, history, req>>
  PROVE  IInv'
<1> USE DEF IInv, LocksInv, history
<1>1. /\ account' \in [Accounts -> {"none", "live", "deleted", "gone"}]
      /\ \A b \in Accounts : /\ account[b] \in Present <=> account'[b] \in Present
                             /\ account[b] = "none" <=> account'[b] = "none"
  BY DEF TypeOK, Present
<1>2. TypeOK'
  BY <1>1 DEF TypeOK
<1>3. NoOrphans' /\ UsersRecorded' /\ Exclusive' /\ Explained'
  BY <1>1 DEF NoOrphans, UsersRecorded, Exclusive, Explained, Present
<1>4. Conserved'
  BY DEF Conserved
<1>5. ASSUME NEW r \in Requests PROVE Sane(req[r])' /\ Backed(req[r])'
  <2>1. Sane(req[r]) /\ Backed(req[r])
    OBVIOUS
  <2> HIDE DEF IInv, LocksInv
  <2>2. Sane(req[r])'
    BY <2>1 DEF Sane, Idle, NoRows, Adding, Transferring, Creating, Founding, Booking, Opening, RemovingAdmin,
       RemovingUser, RemovingCompany
  <2>3. req[r].op \in {"create", "company"} => req[r].to \in Accounts
    BY <2>1 DEF Sane, Idle, Adding, Transferring, Creating, Founding, Booking, Opening, RemovingAdmin,
       RemovingUser, RemovingCompany, Accounts
  <2> QED
    BY <1>1, <2>1, <2>2, <2>3 DEF Backed, Funded, Debited, Received, Reached, Inserted, Placed, Erasing
<1> QED
  BY <1>2, <1>3, <1>4, <1>5

\* Nothing of the invariant is about who the administrators are.
LEMMA SucceedKeeps ==
  ASSUME IInv, NEW a \in Admins, Succeed(a)
  PROVE  IInv'
<1>1. /\ admin' \in [Admins -> BOOLEAN]
      /\ UNCHANGED <<account, employer, wallet, ledger, granted, spent, erased, req>>
  BY DEF Succeed, history, IInv, LocksInv, TypeOK
<1>2. TypeOK' /\ NoOrphans' /\ UsersRecorded' /\ Exclusive' /\ Explained'
  BY <1>1 DEF IInv, LocksInv, TypeOK, NoOrphans, UsersRecorded, Exclusive, Explained
<1>3. Conserved'
  BY <1>1 DEF IInv, Conserved
<1>4. ASSUME NEW r \in Requests PROVE Sane(req[r])' /\ Backed(req[r])'
  <2>1. Sane(req[r]) /\ Backed(req[r])
    BY DEF IInv, LocksInv
  <2>2. Sane(req[r])'
    BY <1>1, <2>1 DEF Sane, Idle, NoRows, Adding, Transferring, Creating, Founding, Booking, Opening,
       RemovingUser, RemovingCompany, RemovingAdmin
  <2>3. Backed(req[r])'
    BY <1>1, <2>1 DEF Backed, Funded, Debited, Received, Reached, Inserted, Placed, Erasing
  <2> QED
    BY <2>2, <2>3
<1> QED
  BY <1>2, <1>3, <1>4 DEF IInv, LocksInv

LEMMA Initially == Init => IInv
<1> SUFFICES ASSUME Init PROVE IInv
  OBVIOUS
<1> USE DEF Init
<1>1. TypeOK
  BY IdleSane DEF TypeOK, Request, Ops, Pcs
<1>2. NoOrphans /\ UsersRecorded /\ Exclusive /\ Explained
  BY IdleSane, Names DEF NoOrphans, UsersRecorded, Exclusive, Explained, Accounts, Owners
<1>3. Conserved
  <2> DEFINE none == [o \in Owners |-> [credit |-> 0]]
  <2>1. \A o \in Owners : wallet[o].credit = 0
    OBVIOUS
  <2>2. Credit(wallet, Owners) = 0
    BY <2>1, Names, CreditZero
  <2> QED
    BY <2>2 DEF Conserved
<1>4. ASSUME NEW r \in Requests PROVE Sane(req[r]) /\ Backed(req[r])
  BY IdleSane, IdleBacked
<1> QED
  BY <1>1, <1>2, <1>3, <1>4 DEF IInv, LocksInv

LEMMA NextKeeps == IInv /\ [Next]_vars => IInv'
<1> SUFFICES ASSUME IInv, [Next]_vars PROVE IInv'
  OBVIOUS
<1>1. ASSUME NEW r \in Requests, Advance(r) PROVE IInv'
  BY <1>1, ReadSourceKeeps, UpsertKeeps, DebitKeeps, AdjustKeeps, InsertAccountKeeps,
     InsertSessionKeeps, InsertWalletKeeps, CommitKeeps, CollectKeeps, DeleteUserKeeps,
     EraseUserKeeps, DeleteKeeps, EraseKeeps, CommitRemovalKeeps, SignKeeps, DeleteAdminKeeps,
     ClearKeeps DEF Advance
<1>2. ASSUME NEW r \in Requests, Fail(r) \/ DetectDeadlock(r) PROVE IInv'
  BY <1>2, RollbackKeeps DEF Fail, DetectDeadlock
<1>3. ASSUME NEW a \in Marked, SoftRemove(a) \/ Restore(a) PROVE IInv'
  <2>1. a \in Accounts
    BY WalletsAssumption DEF Accounts
  <2> QED
    BY <1>3, <2>1, MarkKeeps DEF SoftRemove, Restore, Present
<1>4. CASE UNCHANGED vars
  <2>1. LocksInv' /\ Explained'
    BY <1>4 DEF IInv, LocksInv, vars, TypeOK, NoOrphans, UsersRecorded, Exclusive, Explained,
       Sane, Idle, NoRows, Adding, Transferring, Creating, Founding, Booking, Opening, RemovingAdmin,
       RemovingUser, RemovingCompany, Backed, Funded, Debited, Received, Reached, Inserted, Placed, Erasing
  <2>2. Conserved'
    BY <1>4 DEF IInv, vars, Conserved
  <2> QED
    BY <2>1, <2>2 DEF IInv
<1> QED
  BY <1>1, <1>2, <1>3, <1>4, StartKeeps, SucceedKeeps DEF Next

-----------------------------------------------------------------------------
(* Deadlocks: every request has a level, and one that waits has a higher level *)
(* than one it waits for that waits too.                                       *)

Level(s) ==
  CASE s.pc = "sign" -> 0
    [] s.pc = "session" \/ (s.pc = "insert" /\ s.op = "create" /\ s.from = Ikyomm) -> 1
    [] s.pc \in {"debit", "adjust"} /\ Ikyomm \in {s.from, s.to} -> 2
    [] s.pc = "insert" /\ s.op = "create" /\ s.from \in Companies -> 3
    [] s.pc = "debit" /\ s.from \in Companies -> 4
    [] s.pc = "delete" -> 5
    [] s.pc = "erase" -> 6
    [] OTHER -> 7

\* There are eight levels.
LEMMA Levels == \A s : Level(s) \in 0..7
  BY DEF Level

Record(s) ==
  /\ s.from \in Someone /\ s.to \in Someone /\ s.of \in Someone /\ s.n \in Nat
  /\ s.held \subseteq Locks /\ s.seen \in [Owners -> Nat]

\* What a request that waits may hold: everything it needs is not there yet.
LEMMA Holding ==
  ASSUME IInv, NEW q \in Requests, NEW h \in req[q].held, Wants(q) # {},
         req[q].op \notin {"removeCompany", "removeAdmin"}
  PROVE  \/ /\ req[q].op = "transfer" /\ h \in {WalletOf(req[q].to), ShareOf(req[q].to)}
            /\ req[q].to \in Accounts /\ account[req[q].to] \in Present
            /\ \/ Level(req[q]) = 2
               \/ Level(req[q]) = 4 /\ req[q].to \in Users
         \/ h = WalletOf(Ikyomm) /\ Level(req[q]) = 1
         \/ \E c \in Companies : h = WalletOf(c) /\ Level(req[q]) = 3
         \/ \E c \in Companies : h = RowOf(c) /\ Level(req[q]) = 2
         \/ \E u \in Users : h = WalletOf(u) /\ Level(req[q]) \in {1, 5}
         \/ \E u \in Users : h = LedgerOf(u) /\ Level(req[q]) \in {5, 6}
         \/ \E a \in Admins : h = ShareOf(a) /\ Level(req[q]) < 7
         \/ Level(req[q]) = 0 /\ \A a \in Admins : h # RowOf(a)
<1>1. Sane(req[q]) /\ Backed(req[q]) /\ Record(req[q])
  BY DEF IInv, LocksInv, TypeOK, Record
<1>2. req[q].pc \notin {"commit", "removed", "idle", "read"}
  BY DEF Wants
<1> DEFINE s == req[q]
<1> HIDE DEF s
<1>3. Sane(s) /\ Backed(s) /\ Record(s) /\ s.pc \notin {"commit", "removed", "idle", "read"}
      /\ h \in s.held /\ s.op \notin {"removeCompany", "removeAdmin"}
  BY <1>1, <1>2 DEF s
<1>4. /\ Users \cap Companies = {} /\ Ikyomm \notin Accounts /\ Nobody \notin Owners
      /\ Accounts = Users \cup Companies
  BY Names DEF Accounts
<1>10. CASE s.pc = "sign"
  <2>2. \A o, p : RowOf(o) # WalletOf(p) /\ RowOf(o) # ShareOf(p) /\ (RowOf(o) = RowOf(p) => o = p)
    BY DEF RowOf, WalletOf, ShareOf
  <2>3. \A a \in Admins : a \notin Users \cup Companies
    BY <1>4, Names
  <2>4. Adding(s) \/ Transferring(s) \/ Creating(s) \/ Founding(s) \/ Opening(s)
    BY <1>3, <1>10 DEF Sane, Idle, Booking, RemovingUser, RemovingCompany, RemovingAdmin
  <2>1. \A a \in Admins : RowOf(a) \notin s.held
    BY <2>2, <2>3, <2>4 DEF Adding, Transferring, Creating, Founding, Opening
  <2> QED
    BY <1>3, <1>10, <2>1 DEF s, Level
<1>11. CASE Adding(s) /\ s.pc # "sign"
  <2>1. s.pc \in {"adjust", "debit"} /\ h = ShareOf(s.by) /\ s.by \in Admins
    BY <1>3, <1>11 DEF Adding
  <2>3. Ikyomm \in {s.from, s.to} /\ s.op = "add" /\ s.from \notin Companies
    BY <1>4, <1>11, Names DEF Adding
  <2>2. Level(s) = 2
    BY <2>1, <2>3 DEF Level
  <2> QED
    BY <2>1, <2>2 DEF s
<1>5. CASE Transferring(s) /\ s.pc # "sign"
  <2>1. s.pc = "debit" /\ s.op = "transfer" /\ s.by \in Admins
        /\ h \in {WalletOf(s.to), ShareOf(s.to), ShareOf(s.by)}
    BY <1>3, <1>5 DEF Transferring
  <2>2. s.to \in Accounts /\ account[s.to] \in Present
    BY <1>3, <1>4, <1>5, <2>1 DEF Transferring, Backed, Received, Reached
  <2>3. Level(s) = 2 \/ (Level(s) = 4 /\ s.to \in Users)
    BY <1>4, <1>5, <2>1 DEF Transferring, Level
  <2> QED
    BY <2>1, <2>2, <2>3 DEF s
<1>6. CASE Creating(s) /\ s.pc # "sign"
  <2>1. s.pc = "insert" /\ h \in {WalletOf(s.from), ShareOf(s.by)} /\ s.op = "create" /\ s.n # 0
    BY <1>3, <1>6 DEF Creating
  <2>2. s.from \in Companies \cup {Ikyomm}
    BY <1>6, <2>1 DEF Creating
  <2>3. IF s.from = Ikyomm THEN Level(s) = 1 ELSE Level(s) = 3
    BY <1>4, <2>1, <2>2 DEF Level
  <2>4. h = ShareOf(s.by) => s.by \in Admins
    BY <1>3, <1>6, Names DEF Record, Locks, ShareOf, Creating
  <2> QED
    BY <2>1, <2>2, <2>3, <2>4 DEF s
<1>7. CASE Founding(s) /\ s.pc # "sign"
  <2>1. s.pc = "debit" /\ h \in {RowOf(s.to), ShareOf(s.by)} /\ s.to \in Companies
        /\ s.from = Ikyomm /\ s.by \in Admins
    BY <1>3, <1>7 DEF Founding
  <2>2. Level(s) = 2
    BY <1>4, <2>1 DEF Level
  <2> QED
    BY <2>1, <2>2 DEF s
<1>8. CASE Booking(s)
  <2>1. s.pc = "session" /\ h = WalletOf(s.from) /\ s.from \in Users
    BY <1>3, <1>8 DEF Booking
  <2>2. Level(s) = 1
    BY <2>1 DEF Level
  <2> QED
    BY <2>1, <2>2 DEF s
<1>9. CASE RemovingUser(s)
  <2>1. \/ s.pc = "erase" /\ h = LedgerOf(s.of)
        \/ s.pc = "delete" /\ h \in {LedgerOf(s.of), WalletOf(s.of)}
    BY <1>3, <1>9 DEF RemovingUser
  <2>2. IF s.pc = "delete" THEN Level(s) = 5 ELSE Level(s) = 6
    BY <2>1 DEF Level
  <2> QED
    BY <1>9, <2>1, <2>2 DEF s, RemovingUser
<1> QED
  BY <1>3, <1>5, <1>6, <1>7, <1>8, <1>9, <1>10, <1>11
  DEF Sane, Idle, Opening, RemovingAdmin, RemovingCompany

\* A request that waits for another one that waits is above it.
LEMMA Descends ==
  ASSUME IInv, NEW r \in Requests, NEW q \in Requests, Waits(r, q), Wants(q) # {},
         req[r].op \notin {"removeCompany", "removeAdmin"}, req[q].op \notin {"removeCompany", "removeAdmin"}
  PROVE  Level(req[q]) < Level(req[r])
<1>1. PICK l \in Wants(r), h \in req[q].held : Conflict(h, l)
  BY DEF Waits
<1>2. \/ /\ req[q].op = "transfer" /\ h \in {WalletOf(req[q].to), ShareOf(req[q].to)}
         /\ req[q].to \in Accounts /\ account[req[q].to] \in Present
         /\ \/ Level(req[q]) = 2
            \/ Level(req[q]) = 4 /\ req[q].to \in Users
      \/ h = WalletOf(Ikyomm) /\ Level(req[q]) = 1
      \/ \E c \in Companies : h = WalletOf(c) /\ Level(req[q]) = 3
      \/ \E c \in Companies : h = RowOf(c) /\ Level(req[q]) = 2
      \/ \E u \in Users : h = WalletOf(u) /\ Level(req[q]) \in {1, 5}
      \/ \E u \in Users : h = LedgerOf(u) /\ Level(req[q]) \in {5, 6}
      \/ \E a \in Admins : h = ShareOf(a) /\ Level(req[q]) < 7
      \/ Level(req[q]) = 0 /\ \A a \in Admins : h # RowOf(a)
  BY <1>1, Holding
<1>3. Sane(req[r]) /\ req[r].by \in Admins \cup {Nobody} /\ req[r].to \in Someone
  BY DEF IInv, LocksInv, TypeOK
<1> DEFINE s == req[r]
           k == Level(req[q])
<1>4. /\ Users \cap Companies = {} /\ Ikyomm \notin Accounts /\ Nobody \notin Owners
      /\ Accounts = Users \cup Companies /\ Accounts \subseteq Owners /\ Ikyomm \in Owners
  BY Names DEF Accounts
<1>14. \A a \in Admins : a \notin Users \cup Companies \cup Owners \cup {Ikyomm}
  BY Names, <1>4
<1>19. \E kind, o : h = <<kind, o>>
  BY <1>1 DEF IInv, LocksInv, TypeOK, Locks
<1>15. s.pc # "sign"
  <2> SUFFICES ASSUME s.pc = "sign" PROVE FALSE
    OBVIOUS
  <2>1. s.by \in Admins
    BY <1>3 DEF Sane, Idle, Adding, Transferring, Creating, Founding, Booking, Opening, RemovingAdmin,
       RemovingUser, RemovingCompany
  <2>2. l = ShareOf(s.by)
    BY <1>1 DEF Wants, ShareOf
  <2>3. h[1] = "row" /\ h[2] = s.by
    BY <1>1, <2>2 DEF Conflict, ShareOf
  <2>5. h = RowOf(s.by)
    BY <1>19, <2>3 DEF RowOf
  <2> QED
    BY <1>2, <1>14, <2>1, <2>5 DEF ShareOf, RowOf, WalletOf, LedgerOf
<1>16. \A a \in Admins : h # ShareOf(a)
  <2> SUFFICES ASSUME NEW a \in Admins, h = ShareOf(a) PROVE FALSE
    OBVIOUS
  <2>1. l[1] = "row" /\ l[2] = a
    BY <1>1 DEF Conflict, ShareOf
  <2>2. s.pc \in {"insert", "delete", "deleteUser"} /\ a = s.to
    BY <1>1, <1>3, <1>15, <2>1 DEF Wants, RowOf, RowsOf, Sane, Idle, Adding, Transferring, Creating,
       Founding, Booking, Opening, RemovingAdmin, RemovingUser, RemovingCompany
  <2> QED
    BY <1>3, <1>14, <2>2, Names DEF Someone
<1>17. CASE k = 0
  BY <1>15, <1>17, Levels DEF Level
<1>18. \/ /\ req[q].op = "transfer" /\ h \in {WalletOf(req[q].to), ShareOf(req[q].to)}
          /\ req[q].to \in Accounts /\ account[req[q].to] \in Present
          /\ \/ k = 2
             \/ k = 4 /\ req[q].to \in Users
       \/ h = WalletOf(Ikyomm) /\ k = 1
       \/ \E c \in Companies : h = WalletOf(c) /\ k = 3
       \/ \E c \in Companies : h = RowOf(c) /\ k = 2
       \/ \E u \in Users : h = WalletOf(u) /\ k \in {1, 5}
       \/ \E u \in Users : h = LedgerOf(u) /\ k \in {5, 6}
       \/ k = 0
  BY <1>2, <1>16
<1> SUFFICES ASSUME Level(s) # 7, k # 0 PROVE k < Level(s)
  BY <1>17, <1>18, Levels
<1>5. \/ s.pc = "adjust" /\ l = WalletOf(Ikyomm)
      \/ s.pc = "debit" /\ l = WalletOf(s.from)
      \/ s.pc = "insert" /\ s.op = "create" /\ l = <<"unique", s.to>>
      \/ s.pc = "insert" /\ s.op = "create" /\ account[s.to] = "none"
         /\ (l = RowOf(s.to) \/ (s.of \in Companies /\ l = ShareOf(s.of)))
      \/ s.pc = "session" /\ l = ShareOf(s.from)
      \/ s.pc = "delete" /\ l = RowOf(s.to)
      \/ s.pc = "erase" /\ l = WalletOf(s.to)
  <2>1. s.pc \in {"adjust", "debit", "session", "delete", "erase"} \/ (s.pc = "insert" /\ s.op = "create")
    BY <1>15 DEF Level
  <2>2. s.pc = "adjust" => s.to = Ikyomm
    BY <1>3 DEF Sane, Idle, Adding, Transferring, Creating, Founding, Booking, Opening, RemovingAdmin,
       RemovingUser, RemovingCompany
  <2> QED
    BY <1>1, <1>4, <2>1, <2>2 DEF Wants, WalletOf, RowOf, ShareOf
<1> HIDE DEF s, k
<1>6. Sane(s) /\ s.op \notin {"removeCompany", "removeAdmin"} /\ Level(s) # 7
  BY <1>3 DEF s
<1>7. h[1] \in {"wallet", "row", "share", "ledger"} /\ Conflict(h, l)
  BY <1>1, <1>18 DEF WalletOf, RowOf, ShareOf, LedgerOf
<1>8. CASE l = WalletOf(Ikyomm)
  <2>1. h = WalletOf(Ikyomm)
    BY <1>18, <1>7, <1>8 DEF Conflict, WalletOf, RowOf, ShareOf, LedgerOf
  <2>2. k = 1
    BY <1>18, <1>4, <2>1 DEF WalletOf, RowOf, ShareOf, LedgerOf, k
  <2>3. Level(s) \notin {0, 1} /\ Level(s) \in 0..7
    BY <1>4, <1>5, <1>8, <1>15, Levels DEF Level, WalletOf, RowOf, ShareOf
  <2> QED
    BY <2>2, <2>3
<1>9. CASE s.pc = "debit" /\ s.from # Ikyomm
  <2>1. s.from \in Companies /\ Level(s) = 4
    <3>1. s.from \in Users \cup Companies /\ s.to # Ikyomm
      BY <1>4, <1>6, <1>9 DEF Sane, Idle, Adding, Transferring, Creating, Founding, Booking,
         Opening, RemovingAdmin, RemovingUser, RemovingCompany
    <3>2. s.from \in Users => Level(s) = 7
      BY <1>4, <1>9, <3>1 DEF Level
    <3> QED
      BY <1>4, <1>6, <1>9, <3>1, <3>2 DEF Level
  <2>2. l = WalletOf(s.from)
    BY <1>5, <1>9
  <2>3. h = WalletOf(s.from)
    BY <1>18, <1>7, <2>2 DEF Conflict, WalletOf, RowOf, ShareOf, LedgerOf
  <2>4. k \in {2, 3}
    BY <1>18, <1>4, <2>1, <2>3 DEF WalletOf, RowOf, ShareOf, LedgerOf, k
  <2> QED
    BY <2>1, <2>4
<1>10. CASE s.pc = "insert"
  <2>1. s.to \in Users /\ s.op = "create" /\ (s.of \in Companies => Level(s) = 3)
    <3>1. s.op = "create"
      BY <1>5, <1>10
    <3>2. s.to \in Users /\ (s.of \in Companies => s.from \in Companies \cup {Nobody})
      BY <1>4, <1>6, <3>1 DEF Sane, Idle, Adding, Transferring, Creating, Founding, Booking,
         Opening, RemovingAdmin, RemovingUser, RemovingCompany
    <3>3. s.from = Nobody => Level(s) = 7
      BY <1>4, <1>10, <3>1, WalletsAssumption DEF Level
    <3> QED
      BY <1>4, <1>6, <1>10, <3>1, <3>2, <3>3 DEF Level
  <2>2. CASE l = ShareOf(s.of) /\ s.of \in Companies
    <3>1. h = RowOf(s.of)
      BY <1>18, <1>7, <2>2 DEF Conflict, WalletOf, RowOf, ShareOf, LedgerOf
    <3>2. k = 2
      BY <1>18, <3>1 DEF WalletOf, RowOf, ShareOf, LedgerOf, k
    <3> QED
      BY <2>1, <2>2, <3>2
  <2>3. CASE l = RowOf(s.to) /\ account[s.to] = "none"
    BY <1>18, <1>4, <1>7, <2>1, <2>3 DEF Conflict, WalletOf, RowOf, ShareOf, LedgerOf, Present
  <2>4. CASE l = <<"unique", s.to>>
    BY <1>18, <1>4, <1>7, <2>1, <2>4 DEF Conflict, WalletOf, RowOf, ShareOf, LedgerOf
  <2> QED
    BY <1>5, <1>10, <2>2, <2>3, <2>4
<1>11. CASE s.pc = "session"
  <2>1. s.from \in Users /\ l = ShareOf(s.from)
    BY <1>5, <1>6, <1>11 DEF Sane, Idle, Adding, Transferring, Creating, Founding, Booking, Opening, RemovingAdmin,
       RemovingUser, RemovingCompany
  <2> QED
    BY <1>18, <1>4, <1>7, <2>1 DEF Conflict, WalletOf, RowOf, ShareOf, LedgerOf
<1>12. CASE s.pc = "delete"
  <2>1. s.to \in Users /\ l = RowOf(s.to) /\ Level(s) = 5
    BY <1>5, <1>6, <1>12 DEF Sane, Idle, Adding, Transferring, Creating, Founding, Booking, Opening, RemovingAdmin,
       RemovingUser, RemovingCompany, Level
  <2> QED
    BY <1>18, <1>4, <1>7, <2>1 DEF Conflict, WalletOf, RowOf, ShareOf, LedgerOf, k
<1>13. CASE s.pc = "erase"
  <2>1. s.to \in Users /\ l = WalletOf(s.to) /\ Level(s) = 6
    BY <1>5, <1>6, <1>13 DEF Sane, Idle, Adding, Transferring, Creating, Founding, Booking, Opening, RemovingAdmin,
       RemovingUser, RemovingCompany, Level
  <2>2. h = WalletOf(s.to)
    BY <1>18, <1>7, <2>1 DEF Conflict, WalletOf, RowOf, ShareOf, LedgerOf
  <2>3. k \in {1, 2, 4, 5}
    BY <1>18, <1>4, <2>1, <2>2 DEF WalletOf, RowOf, ShareOf, LedgerOf, k
  <2> QED
    BY <2>1, <2>3
<1> QED
  BY <1>5, <1>8, <1>9, <1>10, <1>11, <1>12, <1>13 DEF k, s

\* Nobody among requests that wait for each other is the lowest.
LEMMA NoneStuck ==
  ASSUME IInv, NEW D \in SUBSET Requests, \A r \in D : req[r].op \notin {"removeCompany", "removeAdmin"}
  PROVE  ~Stuck(D)
<1> SUFFICES ASSUME Stuck(D) PROVE FALSE
  OBVIOUS
<1>1. \A r \in D : Wants(r) # {}
  BY DEF Stuck, Waits
<1>2. \A r \in D : \E q \in D : Level(req[q]) < Level(req[r])
  BY <1>1, Descends DEF Stuck
<1>3. \A r \in D : Level(req[r]) \in 0..7
  BY Levels
<1> DEFINE L(r) == Level(req[r])
<1> HIDE DEF L
<1>4. \A r \in D : L(r) \in 0..7 /\ \E q \in D : L(q) < L(r)
  BY <1>2, <1>3 DEF L
<1>12. \A r \in D : L(r) >= 1
  BY <1>4
<1>5. \A r \in D : L(r) >= 2
  BY <1>4, <1>12
<1>6. \A r \in D : L(r) >= 3
  BY <1>4, <1>5
<1>7. \A r \in D : L(r) >= 4
  BY <1>4, <1>6
<1>8. \A r \in D : L(r) >= 5
  BY <1>4, <1>7
<1>9. \A r \in D : L(r) >= 6
  BY <1>4, <1>8
<1>10. \A r \in D : L(r) >= 7
  BY <1>4, <1>9
<1>11. D = {}
  BY <1>4, <1>10
<1> QED
  BY <1>11 DEF Stuck

-----------------------------------------------------------------------------
(* The theorems.                                                            *)

\* What the requests in progress hold and what they may rely on, the ledger and the sum of
\* all credit, in every state (kernel wallets, auth's sign-up, company, booking).
THEOREM WalletsInvariant == Spec => []IInv
<1> QED
  BY Initially, NextKeeps, PTL DEF Spec

\* Rows, ledger and requests have their types; no balance is negative, although two
\* transactions debit one wallet (UPDATE ... WHERE credit_minute >= n).
THEOREM WalletsTypeCorrect == Spec => []TypeOK
<1>1. IInv => TypeOK
  BY DEF IInv, LocksInv
<1> QED
  BY <1>1, WalletsInvariant, PTL

\* Every balance is what its ledger adds up to, and all that was granted is in a wallet,
\* spent, or was removed with a wallet.
THEOREM LedgerAlwaysBalances == Spec => []LedgerBalances
<1>1. IInv => LedgerBalances
  BY DEF IInv, LedgerBalances, Explained, Conserved, Credit
<1> QED
  BY <1>1, WalletsInvariant, PTL

\* No wallet without its owner, no ledger row without its wallet, whatever races a removal.
THEOREM NothingOrphaned == Spec => []NoOrphans
<1>1. IInv => NoOrphans
  BY DEF IInv, LocksInv
<1> QED
  BY <1>1, WalletsInvariant, PTL

\* Requests that wait for each other include the removal of a company or of an administrator
\* (company/main/handler.ts:458-541, ikyomm/users/handler.ts:292): all the other transactions
\* lock in one order.
THEOREM OthersNeverDeadlock == Spec => []OnlyRemovalsDeadlock
<1>1. IInv => OnlyRemovalsDeadlock
  BY NoneStuck DEF OnlyRemovalsDeadlock, Deadlocked
<1> QED
  BY <1>1, WalletsInvariant, PTL
=============================================================================
