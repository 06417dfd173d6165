-------------------------- MODULE DirectoryProofs --------------------------
(***************************************************************************)
(* Members stay in step with their companies, users with the passwords     *)
(* they were told, failures have an explanation and removals take only     *)
(* their own, for any numbers of requests, users and companies under way   *)
(* at once.  Nothing but the indexes and foreign keys keeps what a request *)
(* has read: the invariant says what a request still may rely on, and that *)
(* it met the one that changed it otherwise.                               *)
(***************************************************************************)
EXTENDS Directory, FiniteSetTheorems, WellFoundedInduction, TLAPS

USE DirectoryAssumption DEF DirectoryAssumption

Answered == [stage : {"done"}, op : Ops \cup {"restoreCompany"}, answer : Answers]
Creating == {"createCompany", "createMember", "createUser", "createAgent"}
Addressed == Creating \cup {"updateMember", "updateUser", "updateAgent"}

\* A removal for good that has begun to read whom to delete, and one that has read all.
Gathering == {"members", "assigned", "collected"}
Gathered == {"assigned", "collected"}

\* What the checks leave a request with.
Proper(w) ==
  /\ w \in Calls
  /\ w.op \in Addressed => w.email \in Emails
  /\ w.op \in Removing \cup {"createCompany", "createMember"} => w.company \in Companies
  /\ w.op = "createCompany" => w.slug \in Slugs
  /\ w.op \notin Removing => w.user \in Users
  /\ w.stage = "mailing" => w.op \notin Removing
  /\ w.stage \in Gathering => w.op = "removeCompanyPermanently"

RowsTyped ==
  /\ company \in [Companies -> CompanyRow \cup {None}]
  /\ user \in [Users -> UserRow \cup {None}]
  /\ member \in [Users -> MemberRow \cup {None}]
  /\ password \in [Users -> Passwords]

AddressesDiffer ==
  \A u, v \in Users : Exists(u) /\ Exists(v) /\ u # v => user[u].email # user[v].email

HistoryTyped ==
  /\ told \in [Users -> SUBSET Passwords] /\ used \subseteq Users
  /\ home \in [Users -> Companies \cup {None}]
  /\ contested \subseteq Requests /\ crossed \subseteq Companies

RequestsTyped ==
  /\ request \in [Requests -> {Ready} \cup Calls \cup Answered]
  /\ \A r \in Requests : request[r] \in Calls => Proper(request[r])

Typed == RowsTyped /\ AddressesDiffer /\ HistoryTyped /\ RequestsTyped

LEMMA TypedIs == Typed => TypeOK
  BY DEF Typed, RowsTyped, AddressesDiffer, HistoryTyped, RequestsTyped, TypeOK, Answered

\* A request under way is a call, and its stage tells.
LEMMA BusyIs ==
  ASSUME RequestsTyped, NEW r \in Requests
  PROVE  /\ r \in Busy <=> request[r] \in Calls
         /\ request[r].stage \in {"checked", "mailing"} \cup Gathering => r \in Busy
         /\ r \in Busy => Proper(request[r])
<1>1. request[r] \in {Ready} \cup Calls \cup Answered
  BY DEF RequestsTyped
<1>2. CASE request[r] = Ready
  BY <1>2 DEF Busy, Ready, Calls, Gathering
<1>3. CASE request[r] \in Answered
  <2>1. request[r].stage = "done"
    BY <1>3 DEF Answered
  <2> QED
    BY <2>1 DEF Busy, Calls, Gathering
<1>4. CASE request[r] \in Calls
  <2>1. request[r].stage \in {"checked", "mailing"} \cup Gathering
    BY <1>4 DEF Calls, Gathering
  <2> QED
    BY <1>4, <2>1 DEF Busy, RequestsTyped, Gathering
<1> QED
  BY <1>1, <1>2, <1>3, <1>4

LEMMA RowsAreRows ==
  ASSUME RowsTyped, NEW u \in Users
  PROVE  /\ Exists(u) => user[u] \in UserRow
         /\ member[u] # None => member[u] \in MemberRow
  BY DEF RowsTyped, Exists

\* Whatever request r turns into, if it is an answer or a proper call.
LEMMA RequestMoves ==
  ASSUME RequestsTyped, NEW r \in Requests, NEW x, x \in Answered \/ Proper(x),
         request' = [request EXCEPT ![r] = x]
  PROVE  RequestsTyped'
<1>1. x \in Answered \/ x \in Calls
  BY DEF Proper
<1>2. request' \in [Requests -> {Ready} \cup Calls \cup Answered]
  BY <1>1 DEF RequestsTyped
<1>3. x \in Calls => Proper(x)
  <2>1. x \in Answered => x.stage = "done"
    BY DEF Answered
  <2>2. x \in Calls => x.stage # "done"
    BY DEF Calls
  <2> QED
    BY <2>1, <2>2
<1>4. \A q \in Requests : request'[q] = IF q = r THEN x ELSE request[q]
  BY DEF RequestsTyped
<1>5. \A q \in Requests : request'[q] \in Calls => Proper(request'[q])
  BY <1>3, <1>4 DEF RequestsTyped
<1> QED
  BY <1>2, <1>5 DEF RequestsTyped

LEMMA AnswerMoves ==
  ASSUME RequestsTyped, NEW r \in Requests, r \in Busy, NEW a \in Answers, Answer(r, a)
  PROVE  RequestsTyped' /\ request' = [request EXCEPT ![r] = Done(request[r].op, a)]
<1>1. request[r].op \in Ops
  BY BusyIs DEF Calls
<1>2. Done(request[r].op, a) \in Answered
  BY <1>1 DEF Done, Answered
<1>3. request' = [request EXCEPT ![r] = Done(request[r].op, a)]
  BY DEF Answer
<1> QED
  BY <1>2, <1>3, RequestMoves

\* What is observed are requests and companies.
LEMMA ObserveTyped ==
  ASSUME RequestsTyped, contested \subseteq Requests, crossed \subseteq Companies,
         NEW r \in Requests, NEW w, w.op \in Removing => w.company \in Companies, Observe(r, w)
  PROVE  contested' \subseteq Requests /\ crossed' \subseteq Companies /\ crossed \subseteq crossed'
<1>1. \A q \in Busy : q \in Requests
  BY DEF Busy
<1>2. \A q \in Busy : Crossing(request[q], w) \subseteq Companies
  <2> SUFFICES ASSUME NEW q \in Busy PROVE Crossing(request[q], w) \subseteq Companies
    OBVIOUS
  <2>1. Proper(request[q])
    BY <1>1, BusyIs
  <2>2. request[q].op \in Removing => request[q].company \in Companies
    BY <2>1 DEF Proper
  <2> QED
    BY <2>2 DEF Crossing, Removes
<1> QED
  BY <1>1, <1>2 DEF Observe

----------------------------------------------------------------------------
(* The checks with which requests begin *)

\* What the checks of a request find: its address is free, or only deleted users hold it;
\* what it writes is there, what it creates is not.
Sound(w) ==
  /\ w.op \in {"createCompany", "createMember"} => HeldBy(w.email) = {}
  /\ w.op \in {"createUser", "createAgent", "updateUser", "updateAgent"} =>
       LiveHolders(w.email) \subseteq {w.user}
  /\ w.op \in {"updateUser", "updateAgent", "removeUser", "removeUserPermanently"} =>
       Exists(w.user)
  /\ w.op \in {"createMember", "createAgent", "updateAgent"} /\ w.company # None =>
       company[w.company] # None
  /\ w.op = "createCompany" => company[w.company] = None /\ SlugFree(w.slug)

\* How it begins: the refusals of checks are not those of a transaction.
Admitted(w, refusal) ==
  /\ Proper(w) /\ w.stage = "checked" /\ w.linked = {}
  /\ w.op \in Creating => w.user \in Fresh
  /\ w.op = "createMember" /\ refusal = None => LiveCompany(w.company)
  /\ w.op = "updateAgent" /\ refusal = None => AnyUser(w.user, "app")
  /\ refusal \notin {"failed", "held"} /\ (refusal = None => Sound(w))

\* A set of ids that is not empty has a greatest.
LEMMA GreatestId ==
  ASSUME NEW ids \in SUBSET Companies, ids # {}
  PROVE  \E c \in ids : \A d \in ids : d <= c
<1> DEFINE Bad == {T \in SUBSET Companies : T # {} /\ ~ \E c \in T : \A d \in T : d <= c}
<1> SUFFICES ASSUME Bad # {} PROVE FALSE
  OBVIOUS
<1>1. \E T \in Bad : \A U \in Bad : <<U, T>> \notin StrictSubsetOrdering(Companies)
  <2>1. IsFiniteSet(Companies)
    BY FS_Interval DEF Companies
  <2>2. IsWellFoundedOn(StrictSubsetOrdering(Companies), FiniteSubsetsOf(Companies))
    BY FS_StrictSubsetOrderingWellFounded
  <2>3. Bad \subseteq FiniteSubsetsOf(Companies)
    BY <2>1, FS_FiniteSubsetsOfFinite
  <2> HIDE DEF Bad
  <2> QED
    BY <2>2, <2>3, WFMin
<1>2. PICK T \in Bad : \A U \in Bad : <<U, T>> \notin StrictSubsetOrdering(Companies)
  BY <1>1
<1>3. PICK c \in T : TRUE
  OBVIOUS
<1> DEFINE U == T \ {c}
<1>4. U \in SUBSET Companies /\ <<U, T>> \in StrictSubsetOrdering(Companies)
  BY <1>3 DEF StrictSubsetOrdering
<1>5. U \notin Bad
  BY <1>2, <1>4
<1>6. \A d \in T : d \in Nat
  BY DEF Companies
<1>7. CASE U = {}
  <2>1. \A d \in T : d <= c
    BY <1>3, <1>6, <1>7
  <2> QED
    BY <1>2, <2>1
<1>8. CASE U # {}
  <2>1. PICK e \in U : \A d \in U : d <= e
    BY <1>4, <1>5, <1>8
  <2>2. CASE e <= c
    <3>1. \A d \in T : d <= c
      BY <1>3, <1>6, <2>1, <2>2
    <3> QED
      BY <1>2, <3>1
  <2>3. CASE ~(e <= c)
    <3>1. \A d \in T : d <= e
      BY <1>3, <1>6, <2>1, <2>3
    <3> QED
      BY <1>2, <2>1, <3>1
  <2> QED
    BY <2>2, <2>3
<1> QED
  BY <1>7, <1>8

LEMMA NextIsNew == NextCompanyId \in Companies => company[NextCompanyId] = None
<1> DEFINE ids == {c \in Companies : company[c] # None}
           n == CHOOSE c \in ids : \A d \in ids : d <= c
<1>1. NextCompanyId = IF ids = {} THEN 1 ELSE 1 + n
  BY DEF NextCompanyId
<1>2. ids # {} => n \in ids /\ \A d \in ids : d <= n
  BY GreatestId
<1>3. \A d \in ids : d \in Nat
  BY DEF Companies
<1> HIDE DEF n
<1>4. NextCompanyId \notin ids
  BY <1>1, <1>2, <1>3
<1> QED
  BY <1>4

LEMMA WorkIs ==
  ASSUME NEW op \in Ops, NEW c \in Companies \cup {None}, NEW u \in Users \cup {None},
         NEW e \in Emails \cup {None}, NEW s \in Slugs \cup {None},
         op \in Addressed => e \in Emails,
         op \in Removing \cup {"createCompany", "createMember"} => c \in Companies,
         op = "createCompany" => s \in Slugs,
         op \notin Removing => u \in Users
  PROVE  /\ Proper(Work(op, c, u, e, s)) /\ Work(op, c, u, e, s).op = op
         /\ Work(op, c, u, e, s).stage = "checked" /\ Work(op, c, u, e, s).company = c
         /\ Work(op, c, u, e, s).user = u /\ Work(op, c, u, e, s).email = e
         /\ Work(op, c, u, e, s).slug = s /\ Work(op, c, u, e, s).linked = {}
<1>1. Work(op, c, u, e, s) \in Calls
  BY DEF Work, Calls
<1> QED
  BY <1>1 DEF Work, Proper, Gathering

LEMMA Operations ==
  /\ Creating \subseteq Ops /\ Removing \subseteq Ops /\ Addressed \subseteq Ops
  /\ {"updateMember", "removeMember", "removeMemberAndUser", "resendCredentials", "updateUser",
      "updateAgent", "removeUser", "restoreUser", "removeUserPermanently"} \subseteq Ops
  /\ Creating \cap Removing = {} /\ Addressed \cap Removing = {}
  /\ {"removeMember", "removeMemberAndUser", "resendCredentials", "removeUser", "restoreUser",
      "removeUserPermanently"} \cap (Removing \cup Addressed) = {}
  BY DEF Creating, Removing, Addressed, Ops, Adding

LEMMA CreationsAre ==
  ASSUME NEW r \in Requests, CreateCompany(r) \/ CreateMember(r) \/ CreateUser(r) \/ CreateAgent(r)
  PROVE  \E w : \E refusal \in Answers \cup {None} : Check(r, refusal, w) /\ Admitted(w, refusal)
<1>0. Fresh \subseteq Users
  BY DEF Fresh
<1>1. CASE CreateCompany(r)
  <2>1. PICK e \in Emails, s \in Slugs, u \in Fresh :
          /\ NextCompanyId \in Companies
          /\ Check(r, IF SlugFree(s) /\ HeldBy(e) = {} THEN None ELSE "conflict",
                   Work("createCompany", NextCompanyId, u, e, s))
    BY <1>1 DEF CreateCompany
  <2> DEFINE w == Work("createCompany", NextCompanyId, u, e, s)
             refusal == IF SlugFree(s) /\ HeldBy(e) = {} THEN None ELSE "conflict"
  <2>2. /\ Proper(w) /\ w.op = "createCompany" /\ w.stage = "checked" /\ w.user = u
        /\ w.company = NextCompanyId /\ w.email = e /\ w.slug = s /\ w.linked = {}
    BY <1>0, <2>1, WorkIs, Operations DEF Creating
  <2>3. /\ refusal \in Answers \cup {None} /\ refusal \notin {"failed", "held"}
        /\ refusal = None => SlugFree(s) /\ HeldBy(e) = {}
    <3>1. CASE SlugFree(s) /\ HeldBy(e) = {}
      BY <3>1 DEF Answers
    <3>2. CASE ~(SlugFree(s) /\ HeldBy(e) = {})
      BY <3>2 DEF Answers
    <3> QED
      BY <3>1, <3>2
  <2> HIDE DEF w, refusal
  <2>4. Admitted(w, refusal)
    BY <2>1, <2>2, <2>3, NextIsNew DEF Admitted, Sound
  <2> QED
    BY <2>1, <2>3, <2>4 DEF w, refusal
<1>2. CASE CreateMember(r)
  <2>1. PICK c \in Companies, e \in Emails, u \in Fresh :
          Check(r, IF ~LiveCompany(c) THEN "not found"
                   ELSE IF HeldBy(e) # {} THEN "conflict" ELSE None,
                Work("createMember", c, u, e, None))
    BY <1>2 DEF CreateMember
  <2> DEFINE w == Work("createMember", c, u, e, None)
             refusal == IF ~LiveCompany(c) THEN "not found"
                        ELSE IF HeldBy(e) # {} THEN "conflict" ELSE None
  <2>2. /\ Proper(w) /\ w.op = "createMember" /\ w.stage = "checked" /\ w.user = u
        /\ w.company = c /\ w.email = e /\ w.linked = {}
    <3>1. "createMember" \in Ops /\ u \in Users
      BY <1>0, Operations DEF Creating
    <3> QED
      BY <3>1, WorkIs
  <2>3. /\ refusal \in Answers \cup {None} /\ refusal \notin {"failed", "held"}
        /\ refusal = None => LiveCompany(c) /\ HeldBy(e) = {}
    <3>1. CASE LiveCompany(c) /\ HeldBy(e) = {}
      BY <3>1 DEF Answers
    <3>2. CASE LiveCompany(c) /\ HeldBy(e) # {}
      BY <3>2 DEF Answers
    <3>3. CASE ~LiveCompany(c)
      BY <3>3 DEF Answers
    <3> QED
      BY <3>1, <3>2, <3>3
  <2> HIDE DEF w, refusal
  <2>4. Admitted(w, refusal)
    BY <2>2, <2>3 DEF Admitted, Sound, LiveCompany
  <2> QED
    BY <2>1, <2>3, <2>4 DEF w, refusal
<1>3. CASE CreateUser(r)
  <2>1. PICK e \in Emails, u \in Fresh :
          Check(r, IF LiveHolders(e) # {} THEN "conflict" ELSE None,
                Work("createUser", None, u, e, None))
    BY <1>3 DEF CreateUser
  <2> DEFINE w == Work("createUser", None, u, e, None)
             refusal == IF LiveHolders(e) # {} THEN "conflict" ELSE None
  <2>2. /\ Proper(w) /\ w.op = "createUser" /\ w.stage = "checked" /\ w.user = u
        /\ w.email = e /\ w.linked = {}
    <3>1. "createUser" \in Ops /\ u \in Users /\ "createUser" \notin Removing
      BY <1>0, Operations DEF Creating, Removing
    <3> QED
      BY <3>1, WorkIs
  <2>3. /\ refusal \in Answers \cup {None} /\ refusal \notin {"failed", "held"}
        /\ refusal = None => LiveHolders(e) = {}
    <3>1. CASE LiveHolders(e) = {}
      BY <3>1 DEF Answers
    <3>2. CASE LiveHolders(e) # {}
      BY <3>2 DEF Answers
    <3> QED
      BY <3>1, <3>2
  <2> HIDE DEF w, refusal
  <2>4. Admitted(w, refusal)
    BY <2>2, <2>3 DEF Admitted, Sound
  <2> QED
    BY <2>1, <2>3, <2>4 DEF w, refusal
<1>4. CASE CreateAgent(r)
  <2>1. PICK e \in Emails, u \in Fresh, c \in Companies \cup {None} :
          Check(r, IF LiveHolders(e) # {} THEN "conflict"
                   ELSE IF c # None /\ ~LiveCompany(c) THEN "bad request" ELSE None,
                Work("createAgent", c, u, e, None))
    BY <1>4 DEF CreateAgent
  <2> DEFINE w == Work("createAgent", c, u, e, None)
             refusal == IF LiveHolders(e) # {} THEN "conflict"
                        ELSE IF c # None /\ ~LiveCompany(c) THEN "bad request" ELSE None
  <2>2. /\ Proper(w) /\ w.op = "createAgent" /\ w.stage = "checked" /\ w.user = u
        /\ w.company = c /\ w.email = e /\ w.linked = {}
    <3>1. "createAgent" \in Ops /\ u \in Users /\ "createAgent" \notin Removing
      BY <1>0, Operations DEF Creating, Removing
    <3> QED
      BY <3>1, WorkIs
  <2>3. /\ refusal \in Answers \cup {None} /\ refusal \notin {"failed", "held"}
        /\ refusal = None => /\ LiveHolders(e) = {}
                             /\ c # None => LiveCompany(c)
    <3>1. CASE LiveHolders(e) # {}
      BY <3>1 DEF Answers
    <3>2. CASE LiveHolders(e) = {} /\ c # None /\ ~LiveCompany(c)
      BY <3>2 DEF Answers
    <3>3. CASE LiveHolders(e) = {} /\ (c # None => LiveCompany(c))
      BY <3>3 DEF Answers
    <3> QED
      BY <3>1, <3>2, <3>3
  <2> HIDE DEF w, refusal
  <2>4. Admitted(w, refusal)
    BY <2>2, <2>3 DEF Admitted, Sound, LiveCompany
  <2> QED
    BY <2>1, <2>3, <2>4 DEF w, refusal
<1> QED
  BY <1>1, <1>2, <1>3, <1>4

LEMMA UpdatesAre ==
  ASSUME RowsTyped, NEW r \in Requests, UpdateMember(r) \/ UpdateUser(r) \/ UpdateAgent(r)
  PROVE  \E w : \E refusal \in Answers \cup {None} : Check(r, refusal, w) /\ Admitted(w, refusal)
<1>1. CASE UpdateMember(r)
  <2>1. PICK u \in Users, e \in Emails :
          Check(r, IF LiveMember(u) THEN None ELSE "not found",
                Work("updateMember", IF member[u] = None THEN None ELSE member[u].company, u, e, None))
    BY <1>1 DEF UpdateMember
  <2> DEFINE c == IF member[u] = None THEN None ELSE member[u].company
             w == Work("updateMember", c, u, e, None)
             refusal == IF LiveMember(u) THEN None ELSE "not found"
  <2>2. c \in Companies \cup {None}
    BY RowsAreRows DEF MemberRow
  <2>3. Proper(w) /\ w.op = "updateMember" /\ w.stage = "checked" /\ w.linked = {}
    BY <2>2, WorkIs, Operations DEF Removing
  <2>4. refusal \in Answers \cup {None} /\ refusal \notin {"failed", "held"}
    BY DEF Answers
  <2>5. Admitted(w, refusal)
    BY <2>3, <2>4 DEF Admitted, Sound, Creating
  <2> QED
    BY <2>1, <2>4, <2>5
<1>2. CASE UpdateUser(r)
  <2>1. PICK u \in Users, e \in Emails :
          Check(r, IF ~LiveUser(u, "ikyomm") THEN "not found"
                   ELSE IF LiveHolders(e) \ {u} # {} THEN "conflict" ELSE None,
                Work("updateUser", None, u, e, None))
    BY <1>2 DEF UpdateUser
  <2> DEFINE w == Work("updateUser", None, u, e, None)
             refusal == IF ~LiveUser(u, "ikyomm") THEN "not found"
                        ELSE IF LiveHolders(e) \ {u} # {} THEN "conflict" ELSE None
  <2>2. /\ Proper(w) /\ w.op = "updateUser" /\ w.stage = "checked" /\ w.user = u
        /\ w.email = e /\ w.linked = {}
    BY WorkIs, Operations DEF Removing
  <2>3. /\ refusal \in Answers \cup {None} /\ refusal \notin {"failed", "held"}
        /\ refusal = None => LiveUser(u, "ikyomm") /\ LiveHolders(e) \ {u} = {}
    <3>1. CASE ~LiveUser(u, "ikyomm")
      BY <3>1 DEF Answers
    <3>2. CASE LiveUser(u, "ikyomm") /\ LiveHolders(e) \ {u} # {}
      BY <3>2 DEF Answers
    <3>3. CASE LiveUser(u, "ikyomm") /\ LiveHolders(e) \ {u} = {}
      BY <3>3 DEF Answers
    <3> QED
      BY <3>1, <3>2, <3>3
  <2> HIDE DEF w, refusal
  <2>4. Admitted(w, refusal)
    BY <2>2, <2>3 DEF Admitted, Sound, Creating, LiveUser
  <2> QED
    BY <2>1, <2>3, <2>4 DEF w, refusal
<1>3. CASE UpdateAgent(r)
  <2>1. PICK u \in Users, e \in Emails, c \in Companies \cup {None} :
          Check(r, IF ~LiveUser(u, "app") THEN "not found"
                   ELSE IF LiveHolders(e) \ {u} # {} THEN "conflict"
                   ELSE IF c # None /\ ~LiveCompany(c) THEN "bad request" ELSE None,
                Work("updateAgent", c, u, e, None))
    BY <1>3 DEF UpdateAgent
  <2> DEFINE w == Work("updateAgent", c, u, e, None)
             refusal == IF ~LiveUser(u, "app") THEN "not found"
                        ELSE IF LiveHolders(e) \ {u} # {} THEN "conflict"
                        ELSE IF c # None /\ ~LiveCompany(c) THEN "bad request" ELSE None
  <2>2. /\ Proper(w) /\ w.op = "updateAgent" /\ w.stage = "checked" /\ w.user = u
        /\ w.company = c /\ w.email = e /\ w.linked = {}
    BY WorkIs, Operations DEF Removing
  <2>3. /\ refusal \in Answers \cup {None} /\ refusal \notin {"failed", "held"}
        /\ refusal = None => /\ LiveUser(u, "app") /\ LiveHolders(e) \ {u} = {}
                             /\ c # None => LiveCompany(c)
    <3>1. CASE ~LiveUser(u, "app")
      BY <3>1 DEF Answers
    <3>2. CASE LiveUser(u, "app") /\ LiveHolders(e) \ {u} # {}
      BY <3>2 DEF Answers
    <3>3. CASE LiveUser(u, "app") /\ LiveHolders(e) \ {u} = {} /\ c # None /\ ~LiveCompany(c)
      BY <3>3 DEF Answers
    <3>4. CASE /\ LiveUser(u, "app") /\ LiveHolders(e) \ {u} = {}
               /\ c # None => LiveCompany(c)
      BY <3>4 DEF Answers
    <3> QED
      BY <3>1, <3>2, <3>3, <3>4
  <2> HIDE DEF w, refusal
  <2>4. Admitted(w, refusal)
    BY <2>2, <2>3 DEF Admitted, Sound, Creating, LiveUser, LiveCompany, AnyUser
  <2> QED
    BY <2>1, <2>3, <2>4 DEF w, refusal
<1> QED
  BY <1>1, <1>2, <1>3

\* The requests about one user that need no more than to find it.
LEMMA FindsAre ==
  ASSUME NEW r \in Requests,
         NEW op \in {"removeMember", "removeMemberAndUser", "removeUser", "restoreUser",
                     "removeUserPermanently"},
         NEW u \in Users, NEW found \in BOOLEAN,
         found => op \in {"removeMember", "removeMemberAndUser"} \/ Exists(u),
         Check(r, IF found THEN None ELSE "not found", Work(op, None, u, None, None))
  PROVE  \E w : \E refusal \in Answers \cup {None} : Check(r, refusal, w) /\ Admitted(w, refusal)
<1> DEFINE w == Work(op, None, u, None, None)
           refusal == IF found THEN None ELSE "not found"
<1>1. op \in Ops /\ op \notin Removing /\ op \notin Addressed /\ op \notin Creating
      /\ op \notin {"createCompany", "createMember"}
  BY Operations DEF Addressed, Creating
<1>2. Proper(w) /\ w.op = op /\ w.stage = "checked" /\ w.user = u /\ w.linked = {}
  <2>1. op \notin Removing \cup {"createCompany", "createMember"}
    BY <1>1
  <2>2. None \in Companies \cup {None} /\ None \in Emails \cup {None} /\ None \in Slugs \cup {None}
    OBVIOUS
  <2> QED
    BY <1>1, <2>1, <2>2 DEF Work, Proper, Calls, Gathering
<1>3. /\ refusal \in Answers \cup {None} /\ refusal \notin {"failed", "held"}
      /\ refusal = None => found
  <2>1. CASE found
    BY <2>1 DEF Answers
  <2>2. CASE ~found
    BY <2>2 DEF Answers
  <2> QED
    BY <2>1, <2>2
<1> HIDE DEF w, refusal
<1>4. refusal = None => Sound(w)
  BY <1>1, <1>2, <1>3 DEF Sound
<1>5. Admitted(w, refusal)
  BY <1>1, <1>2, <1>3, <1>4 DEF Admitted
<1> QED
  BY <1>3, <1>5 DEF w, refusal

LEMMA RemovalsAre ==
  ASSUME NEW r \in Requests, RemoveCompany(r) \/ RemoveCompanyPermanently(r)
  PROVE  \E w : \E refusal \in Answers \cup {None} : Check(r, refusal, w) /\ Admitted(w, refusal)
<1>1. PICK c \in Companies, op \in Removing, refusal \in {None, "not found"} :
        Check(r, refusal, Work(op, c, None, None, None))
  BY DEF RemoveCompany, RemoveCompanyPermanently, Removing
<1> DEFINE w == Work(op, c, None, None, None)
<1>2. op \in Ops /\ op \notin Addressed /\ op \notin Creating /\ op # "createCompany"
      /\ op # "createMember"
  BY Operations DEF Creating
<1>3. Proper(w) /\ w.op = op /\ w.stage = "checked" /\ w.linked = {}
  <2>1. None \in Users \cup {None} /\ None \in Emails \cup {None} /\ None \in Slugs \cup {None}
    OBVIOUS
  <2> QED
    BY <1>2, <2>1 DEF Work, Proper, Calls, Gathering
<1>4. refusal \in Answers \cup {None} /\ Admitted(w, refusal)
  BY <1>2, <1>3 DEF Admitted, Sound, Answers, Removing
<1> QED
  BY <1>1, <1>4

LEMMA BeginIs ==
  ASSUME RowsTyped, NEW r \in Requests, Begin(r)
  PROVE  \/ \E w : \E refusal \in Answers \cup {None} : Check(r, refusal, w) /\ Admitted(w, refusal)
         \/ \E candidates \in SUBSET Users : Resend(r, candidates)
         \/ \E all \in BOOLEAN : Restored(r, all)
<1>1. CASE CreateCompany(r) \/ CreateMember(r) \/ CreateUser(r) \/ CreateAgent(r)
  BY <1>1, CreationsAre
<1>2. CASE UpdateMember(r) \/ UpdateUser(r) \/ UpdateAgent(r)
  BY <1>2, UpdatesAre
<1>3. CASE RemoveCompany(r) \/ RemoveCompanyPermanently(r)
  BY <1>3, RemovalsAre
<1>4. CASE ResendCompany(r) \/ ResendMember(r) \/ ResendUser(r) \/ ResendAgent(r)
  <2>1. \A c \in Companies : OwnerMember(c) \in SUBSET Users
    BY DEF OwnerMember
  <2> QED
    BY <1>4, <2>1 DEF ResendCompany, ResendMember, ResendUser, ResendAgent
<1>5. CASE RestoreCompany(r) \/ RestoreCompanyOnly(r)
  BY <1>5 DEF RestoreCompany, RestoreCompanyOnly
<1>6. CASE RemoveMember(r) \/ RemoveMemberAndUser(r)
  <2>1. PICK u \in Users, op \in {"removeMember", "removeMemberAndUser"} :
          Check(r, IF LiveMember(u) THEN None ELSE "not found", Work(op, None, u, None, None))
    BY <1>6 DEF RemoveMember, RemoveMemberAndUser, FindMember
  <2>2. LiveMember(u) \in BOOLEAN
    BY DEF LiveMember
  <2> QED
    BY <2>1, <2>2, FindsAre DEF Exists
<1>7. CASE RemoveUser(r) \/ RemoveAgent(r) \/ RestoreUser(r) \/ RestoreAgent(r)
           \/ RemoveUserPermanently(r) \/ RemoveAgentPermanently(r)
  <2>1. PICK u \in Users, op \in {"removeUser", "restoreUser", "removeUserPermanently"},
             found \in BOOLEAN :
          /\ found => Exists(u)
          /\ Check(r, IF found THEN None ELSE "not found", Work(op, None, u, None, None))
    <3>1. \A u, p : /\ LiveUser(u, p) \in BOOLEAN /\ AnyUser(u, p) \in BOOLEAN
                    /\ (LiveUser(u, p) => Exists(u)) /\ (AnyUser(u, p) => Exists(u))
      BY DEF LiveUser, AnyUser
    <3> QED
      BY <1>7, <3>1 DEF RemoveUser, RemoveAgent, RestoreUser, RestoreAgent,
                        RemoveUserPermanently, RemoveAgentPermanently, Find
  <2> QED
    BY <2>1, FindsAre
<1> QED
  BY <1>1, <1>2, <1>3, <1>4, <1>5, <1>6, <1>7 DEF Begin

----------------------------------------------------------------------------
(* Types *)

LEMMA InitTyped == Init => Typed
<1> SUFFICES ASSUME Init PROVE Typed
  OBVIOUS
<1>1. RowsTyped /\ AddressesDiffer /\ HistoryTyped
  BY DEF Init, RowsTyped, AddressesDiffer, HistoryTyped, Exists, Passwords
<1>2. RequestsTyped
  <2>1. Ready \notin Calls
    BY DEF Ready, Calls
  <2> QED
    BY <2>1 DEF Init, RequestsTyped
<1> QED
  BY <1>1, <1>2 DEF Typed

LEMMA CheckTyped ==
  ASSUME Typed, NEW r \in Requests, NEW w, NEW refusal \in Answers \cup {None},
         Check(r, refusal, w), Admitted(w, refusal)
  PROVE  Typed' /\ crossed \subseteq crossed'
<1>1. Proper(w) /\ w.op \in Ops
  BY DEF Admitted, Proper, Calls
<1>2. /\ UNCHANGED <<Rows, told, used, home>> /\ Observe(r, w)
      /\ request' = [request EXCEPT ![r] = IF refusal # None THEN Done(w.op, refusal) ELSE w]
  BY DEF Check
<1>3. RequestsTyped'
  <2>1. refusal # None => Done(w.op, refusal) \in Answered
    BY <1>1 DEF Done, Answered
  <2> QED
    BY <1>1, <1>2, <2>1, RequestMoves DEF Typed
<1>4. contested' \subseteq Requests /\ crossed' \subseteq Companies /\ crossed \subseteq crossed'
  BY <1>1, <1>2, ObserveTyped DEF Typed, HistoryTyped, Proper
<1>5. RowsTyped' /\ AddressesDiffer'
  BY <1>2 DEF Typed, Rows, RowsTyped, AddressesDiffer, Exists
<1>6. HistoryTyped'
  BY <1>2, <1>4 DEF Typed, HistoryTyped
<1> QED
  BY <1>3, <1>4, <1>5, <1>6 DEF Typed

LEMMA ResendTyped ==
  ASSUME Typed, NEW r \in Requests, NEW candidates \in SUBSET Users, Resend(r, candidates)
  PROVE  /\ Typed' /\ crossed \subseteq crossed'
         /\ \/ UNCHANGED password
            \/ \E u \in Users : password' = [password EXCEPT ![u] = "issued"]
         /\ \E x : request' = [request EXCEPT ![r] = x] /\ x.stage \in {"done", "mailing"}
<1>1. UNCHANGED <<company, user, member, told, used, home>>
  BY DEF Resend
<1>2. RowsTyped /\ HistoryTyped /\ RequestsTyped
  BY DEF Typed
<1>3. CASE candidates = {}
  <2>1. /\ request' = [request EXCEPT ![r] = Done("resendCredentials", "not found")]
        /\ UNCHANGED <<password, History>>
    BY <1>3 DEF Resend
  <2>2. Done("resendCredentials", "not found") \in Answered
    BY Operations DEF Done, Answered, Answers
  <2>3. RequestsTyped'
    BY <1>2, <2>1, <2>2, RequestMoves
  <2>4. RowsTyped' /\ AddressesDiffer' /\ HistoryTyped'
    BY <1>1, <2>1 DEF Typed, History, RowsTyped, AddressesDiffer, Exists, HistoryTyped
  <2>5. Done("resendCredentials", "not found").stage = "done"
    BY DEF Done
  <2>6. crossed' = crossed
    BY <2>1 DEF History
  <2> QED
    BY <2>1, <2>3, <2>4, <2>5, <2>6 DEF Typed
<1>4. CASE candidates # {}
  <2>1. PICK u \in candidates :
          LET w == Work("resendCredentials", None, u, None, None) IN
            /\ Reset(u)
            /\ request' = [request EXCEPT ![r] = [w EXCEPT !.stage = "mailing"]]
            /\ Observe(r, w)
    BY <1>4 DEF Resend
  <2> DEFINE w == Work("resendCredentials", None, u, None, None)
             x == [w EXCEPT !.stage = "mailing"]
  <2>2. u \in Users /\ "resendCredentials" \in Ops /\ "resendCredentials" \notin Removing \cup Addressed
        /\ "resendCredentials" \notin Removing \cup {"createCompany", "createMember"}
    BY Operations DEF Addressed, Creating
  <2>3. w.op = "resendCredentials" /\ x.stage = "mailing" /\ Proper(x)
    BY <2>2 DEF Work, Proper, Calls, Gathering
  <2>4. RequestsTyped'
    BY <1>2, <2>1, <2>3, RequestMoves
  <2>5. contested' \subseteq Requests /\ crossed' \subseteq Companies /\ crossed \subseteq crossed'
    <3>1. w.op \notin Removing
      BY <2>2, <2>3
    <3> QED
      BY <1>2, <2>1, <3>1, ObserveTyped DEF HistoryTyped
  <2>6. password' = [password EXCEPT ![u] = "issued"]
    BY <2>1 DEF Reset
  <2>7. RowsTyped' /\ AddressesDiffer' /\ HistoryTyped'
    BY <1>1, <2>5, <2>6 DEF Typed, RowsTyped, AddressesDiffer, Exists, HistoryTyped, Passwords
  <2> QED
    BY <2>1, <2>2, <2>3, <2>4, <2>5, <2>6, <2>7 DEF Typed
<1> QED
  BY <1>3, <1>4

LEMMA MarkedTyped ==
  ASSUME RowsTyped, NEW c \in Companies, NEW d \in BOOLEAN
  PROVE  /\ Marked(c, d) \in [Users -> MemberRow \cup {None}]
         /\ \A u \in Users :
              /\ Marked(c, d)[u] # None <=> member[u] # None
              /\ member[u] # None =>
                   /\ Marked(c, d)[u].company = member[u].company
                   /\ Marked(c, d)[u].deleted =
                        IF member[u].company = c THEN d ELSE member[u].deleted
<1>1. \A m \in MemberRow : /\ [m EXCEPT !.deleted = d] \in MemberRow
                           /\ [m EXCEPT !.deleted = d].company = m.company
                           /\ [m EXCEPT !.deleted = d].deleted = d
  BY DEF MemberRow
<1>2. \A u \in Users : member[u] # None => member[u] \in MemberRow
  BY RowsAreRows
<1>3. \A u \in Users : Marked(c, d)[u] = IF member[u] # None /\ member[u].company = c
                                         THEN [member[u] EXCEPT !.deleted = d] ELSE member[u]
  BY DEF Marked
<1>4. \A m \in MemberRow : m # None
  OBVIOUS
<1>5. Marked(c, d) \in [Users -> MemberRow \cup {None}]
  <2>1. \A u \in Users : Marked(c, d)[u] \in MemberRow \cup {None}
    BY <1>1, <1>2, <1>3
  <2> QED
    BY <2>1 DEF Marked
<1>6. ASSUME NEW u \in Users
      PROVE  /\ Marked(c, d)[u] # None <=> member[u] # None
             /\ member[u] # None =>
                  /\ Marked(c, d)[u].company = member[u].company
                  /\ Marked(c, d)[u].deleted =
                       IF member[u].company = c THEN d ELSE member[u].deleted
  <2>1. CASE member[u] # None /\ member[u].company = c
    <3>1. Marked(c, d)[u] = [member[u] EXCEPT !.deleted = d] /\ member[u] \in MemberRow
      BY <1>2, <1>3, <2>1
    <3> QED
      BY <1>1, <1>4, <2>1, <3>1
  <2>2. CASE ~(member[u] # None /\ member[u].company = c)
    <3>1. Marked(c, d)[u] = member[u]
      BY <1>3, <2>2
    <3> QED
      BY <2>2, <3>1
  <2> QED
    BY <2>1, <2>2
<1> QED
  BY <1>5, <1>6

\* company' differs at c at most, and there by the mark, if there is a row.
CompanyMarked(c, d) ==
  company' = IF company[c] = None THEN company ELSE [company EXCEPT ![c].deleted = d]

LEMMA CompanyMarkedTyped ==
  ASSUME RowsTyped, NEW c \in Companies, NEW d \in BOOLEAN, CompanyMarked(c, d)
  PROVE  /\ company' \in [Companies -> CompanyRow \cup {None}]
         /\ \A b \in Companies : b # c => company'[b] = company[b]
         /\ company'[c] # None <=> company[c] # None
         /\ company[c] # None => company'[c].deleted = d
<1>1. company[c] # None => /\ [company[c] EXCEPT !.deleted = d] \in CompanyRow
                           /\ [company[c] EXCEPT !.deleted = d].deleted = d
  BY DEF RowsTyped, CompanyRow
<1> QED
  BY <1>1 DEF RowsTyped, CompanyMarked

LEMMA RestoredTyped ==
  ASSUME Typed, NEW r \in Requests, NEW all \in BOOLEAN, Restored(r, all)
  PROVE  /\ Typed' /\ crossed \subseteq crossed'
         /\ UNCHANGED <<user, password, told, used, home>>
         /\ \E x : request' = [request EXCEPT ![r] = x] /\ x.stage = "done"
         /\ \E c \in Companies : /\ CompanyMarked(c, FALSE)
                                 /\ member' = IF all THEN Marked(c, FALSE) ELSE member
<1>1. PICK c \in Companies :
        /\ request' = [request EXCEPT ![r] =
                         Done("restoreCompany", IF company[c] = None THEN "not found" ELSE "ok")]
        /\ CompanyMarked(c, FALSE)
        /\ member' = IF all THEN Marked(c, FALSE) ELSE member
        /\ Observe(r, Work("restoreCompany", c, None, None, None))
        /\ UNCHANGED <<user, password, told, used, home>>
  BY DEF Restored, CompanyMarked
<1> DEFINE x == Done("restoreCompany", IF company[c] = None THEN "not found" ELSE "ok")
           w == Work("restoreCompany", c, None, None, None)
<1>2. RowsTyped /\ HistoryTyped /\ RequestsTyped
  BY DEF Typed
<1>3. x \in Answered /\ x.stage = "done"
  BY DEF Done, Answered, Answers
<1>4. RequestsTyped'
  BY <1>1, <1>2, <1>3, RequestMoves
<1>5. contested' \subseteq Requests /\ crossed' \subseteq Companies /\ crossed \subseteq crossed'
  <2>1. w.op \notin Removing
    BY DEF Work, Removing
  <2> QED
    BY <1>1, <1>2, <2>1, ObserveTyped DEF HistoryTyped
<1>6. RowsTyped'
  <2>1. company' \in [Companies -> CompanyRow \cup {None}]
    BY <1>1, <1>2, CompanyMarkedTyped
  <2>2. member' \in [Users -> MemberRow \cup {None}]
    BY <1>1, <1>2, MarkedTyped DEF RowsTyped
  <2> QED
    BY <1>1, <1>2, <2>1, <2>2 DEF RowsTyped
<1>7. AddressesDiffer' /\ HistoryTyped'
  BY <1>1, <1>2, <1>5 DEF Typed, AddressesDiffer, Exists, HistoryTyped
<1>8. \E y : request' = [request EXCEPT ![r] = y] /\ y.stage = "done"
  <2>1. request' = [request EXCEPT ![r] = x]
    BY <1>1
  <2> HIDE DEF x
  <2> QED
    BY <1>3, <2>1
<1>9. Typed' /\ crossed \subseteq crossed'
  BY <1>4, <1>5, <1>6, <1>7 DEF Typed
<1> QED
  BY <1>1, <1>8, <1>9

\* A request answers, the rows and what was observed stay.
LEMMA AnswerTyped ==
  ASSUME Typed, NEW r \in Requests, r \in Busy, NEW a \in Answers, Answer(r, a),
         UNCHANGED <<Rows, used, home, History>>, told' \in [Users -> SUBSET Passwords]
  PROVE  Typed'
<1>1. RequestsTyped'
  BY AnswerMoves DEF Typed
<1>2. RowsTyped' /\ AddressesDiffer' /\ HistoryTyped'
  BY DEF Typed, Rows, History, RowsTyped, AddressesDiffer, Exists, HistoryTyped
<1> QED
  BY <1>1, <1>2 DEF Typed

\* Every request moves on or stays; none goes back.
Later(r) ==
  /\ \A q \in Requests : q # r => request'[q] = request[q]
  /\ request'[r].stage \in {"done", "mailing"}

LEMMA AnswersLater ==
  ASSUME RequestsTyped, NEW r \in Requests, NEW a, Answer(r, a)
  PROVE  Later(r)
  BY DEF RequestsTyped, Answer, Later, Done

LEMMA RefuseTyped ==
  ASSUME Typed, NEW r \in Requests, r \in Busy, Refuse(r)
  PROVE  Typed' /\ Later(r) /\ UNCHANGED <<Rows, told, used, home, History>>
<1>1. PICK a \in {"held", "failed"} : Answer(r, a)
  BY DEF Refuse
<1>2. UNCHANGED <<Rows, told, used, home, History>>
  BY DEF Refuse
<1>3. a \in Answers
  BY DEF Answers
<1>4. told' \in [Users -> SUBSET Passwords]
  BY <1>2 DEF Typed, HistoryTyped
<1>5. Typed'
  BY <1>1, <1>2, <1>3, <1>4, AnswerTyped
<1>6. Later(r)
  BY <1>1, AnswersLater DEF Typed
<1> QED
  BY <1>2, <1>5, <1>6

\* A row of user that is new, or changed, where the index lets it.
LEMMA UserWritten ==
  ASSUME RowsTyped, AddressesDiffer, NEW u \in Users, NEW x \in UserRow,
         user' = [user EXCEPT ![u] = x],
         HeldBy(x.email) \subseteq {u} \/ (Exists(u) /\ x.email = user[u].email)
  PROVE  user' \in [Users -> UserRow \cup {None}] /\ AddressesDiffer'
<1>1. user' \in [Users -> UserRow \cup {None}]
  BY DEF RowsTyped
<1>2. user'[u] = x /\ \A v \in Users : v # u => user'[v] = user[v]
  BY DEF RowsTyped
<1>3. \A v \in Users : v # u /\ Exists(v) => user[v].email # x.email
  BY DEF HeldBy, AddressesDiffer
<1>4. AddressesDiffer'
  <2> SUFFICES ASSUME NEW v \in Users, NEW w \in Users, user'[v] # None, user'[w] # None, v # w
               PROVE  user'[v].email # user'[w].email
    BY DEF AddressesDiffer, Exists
  <2>1. CASE v = u
    BY <1>2, <1>3, <2>1 DEF Exists
  <2>2. CASE w = u
    BY <1>2, <1>3, <2>2 DEF Exists
  <2>3. CASE v # u /\ w # u
    BY <1>2, <2>3 DEF AddressesDiffer, Exists
  <2> QED
    BY <2>1, <2>2, <2>3
<1> QED
  BY <1>1, <1>4

\* What an insertion does, beside the rows of company and member.
Inserted(r) ==
  LET w == request[r]
      u == request[r].user IN
  /\ Later(r) /\ UNCHANGED <<told, crossed>>
  /\ user'[u] # None /\ password'[u] = "issued" /\ used' = used \cup {u}
  /\ \A v \in Users \ {u} : /\ user'[v] = user[v] /\ member'[v] = member[v]
                            /\ home'[v] = home[v] /\ password'[v] = password[v]
  /\ w.op \in {"createCompany", "createMember"} =>
       /\ member'[u] = [company |-> w.company, owner |-> (w.op = "createCompany"), deleted |-> FALSE]
       /\ home'[u] = w.company
  /\ w.op \in {"createUser", "createAgent"} =>
       member' = member /\ user'[u].panel # "company"
  /\ w.op = "createCompany" =>
       /\ company[w.company] = None
       /\ company' = [company EXCEPT ![w.company] = [slug |-> w.slug, deleted |-> FALSE]]
  /\ w.op # "createCompany" => company' = company
  /\ w.op = "createMember" => company[w.company] # None

Starts(r) == r \in Busy /\ request[r].stage = "checked" /\ request[r].op \in Creating

LEMMA MailMoves ==
  ASSUME RequestsTyped, NEW r \in Requests, r \in Busy, request[r].op \notin Removing,
         Mail(r, request[r].user)
  PROVE  RequestsTyped' /\ Later(r)
<1> DEFINE x == [request[r] EXCEPT !.stage = "mailing", !.user = request[r].user]
<1>1. Proper(request[r])
  BY BusyIs
<1>2. request[r] \in Calls /\ request[r].user \in Users
  BY <1>1 DEF Proper
<1>3. x \in Calls /\ x.stage = "mailing" /\ x.op = request[r].op /\ x.email = request[r].email
      /\ x.company = request[r].company /\ x.slug = request[r].slug /\ x.user = request[r].user
  BY <1>2 DEF Calls
<1>4. Proper(x)
  BY <1>1, <1>3 DEF Proper, Gathering
<1>5. request' = [request EXCEPT ![r] = x]
  BY DEF Mail, RequestsTyped
<1> HIDE DEF x
<1>6. request' = [request EXCEPT ![r] = x] /\ request'[r].stage = "mailing"
  BY <1>3, <1>5 DEF RequestsTyped
<1>7. Later(r)
  BY <1>6 DEF RequestsTyped, Later
<1> QED
  BY <1>4, <1>6, <1>7, RequestMoves

LEMMA InsertTyped ==
  ASSUME Typed, NEW r \in Requests, r \in Busy, request[r].stage = "checked",
         request[r].op \in Creating,
         NEW panel \in Panels, NEW c \in Companies \cup {None},
         NewUser(request[r].user, panel, request[r].email, c), EmailFree(r),
         Mail(r, request[r].user),
         company' \in [Companies -> CompanyRow \cup {None}],
         member' \in [Users -> MemberRow \cup {None}],
         home' \in [Users -> Companies \cup {None}], UNCHANGED <<told, History>>
  PROVE  /\ Typed' /\ Later(r) /\ UNCHANGED <<told, crossed>>
         /\ user'[request[r].user] # None /\ user'[request[r].user].panel = panel
         /\ password'[request[r].user] = "issued"
         /\ used' = used \cup {request[r].user}
         /\ \A v \in Users \ {request[r].user} :
              user'[v] = user[v] /\ password'[v] = password[v]
<1> DEFINE u == request[r].user
           x == [panel |-> panel, email |-> request[r].email, company |-> c, deleted |-> FALSE]
<1>1. Proper(request[r]) /\ request[r].op \notin Removing
  BY BusyIs, Operations DEF Typed
<1>2. u \in Users /\ request[r].email \in Emails
  BY <1>1 DEF Proper, Addressed
<1>3. x \in UserRow /\ x.email = request[r].email /\ x.panel = panel
  BY <1>2 DEF UserRow
<1>4. HeldBy(x.email) \subseteq {u}
  BY <1>2, <1>3 DEF EmailFree
<1>5. /\ user' = [user EXCEPT ![u] = x] /\ password' = [password EXCEPT ![u] = "issued"]
      /\ used' = used \cup {u}
  BY DEF NewUser
<1> HIDE DEF x
<1>6. user' \in [Users -> UserRow \cup {None}] /\ AddressesDiffer'
  BY <1>2, <1>3, <1>4, <1>5, UserWritten DEF Typed
<1>7. RowsTyped'
  BY <1>2, <1>5, <1>6 DEF Typed, RowsTyped, Passwords
<1>8. HistoryTyped' /\ UNCHANGED <<told, crossed>>
  BY <1>2, <1>5 DEF Typed, HistoryTyped, History
<1>9. RequestsTyped' /\ Later(r)
  BY <1>1, MailMoves DEF Typed
<1>10. user'[u] = x /\ x # None
  BY <1>2, <1>3, <1>5 DEF Typed, RowsTyped
<1> QED
  BY <1>2, <1>3, <1>5, <1>6, <1>7, <1>8, <1>9, <1>10 DEF Typed, RowsTyped

LEMMA InsertIs ==
  ASSUME Typed, NEW r \in Requests,
         InsertCompany(r) \/ InsertMember(r) \/ InsertUser(r) \/ InsertAgent(r)
  PROVE  /\ Starts(r)
         /\ \/ Refuse(r)
            \/ Typed' /\ Inserted(r)
<1> DEFINE w == request[r]
           u == request[r].user
<1>1. Starts(r)
  BY BusyIs DEF Typed, InsertCompany, InsertMember, InsertUser, InsertAgent, At, Creating, Starts
<1>2. Proper(w) /\ u \in Users /\ r \in Busy /\ w.stage = "checked" /\ w.op \in Creating
  <2>1. Proper(w)
    BY <1>1, BusyIs DEF Typed, Starts
  <2> QED
    BY <1>1, <2>1, Operations DEF Proper, Starts
<1>3. RowsTyped /\ HistoryTyped
  BY DEF Typed
<1>4. ASSUME InsertCompany(r), ~Refuse(r)
      PROVE  Typed' /\ Inserted(r)
  <2>1. /\ w.op = "createCompany" /\ EmailFree(r) /\ company[w.company] = None
        /\ company' = [company EXCEPT ![w.company] = [slug |-> w.slug, deleted |-> FALSE]]
        /\ NewUser(u, "company", w.email, None)
        /\ member' = [member EXCEPT ![u] = [company |-> w.company, owner |-> TRUE, deleted |-> FALSE]]
        /\ home' = [home EXCEPT ![u] = w.company]
        /\ Mail(r, u) /\ UNCHANGED <<told, History>>
    BY <1>4 DEF InsertCompany, At
  <2>2. w.company \in Companies /\ w.slug \in Slugs
    BY <1>2, <2>1 DEF Proper
  <2>3. /\ company' \in [Companies -> CompanyRow \cup {None}]
        /\ member' \in [Users -> MemberRow \cup {None}]
        /\ home' \in [Users -> Companies \cup {None}]
        /\ member'[u] = [company |-> w.company, owner |-> TRUE, deleted |-> FALSE]
        /\ home'[u] = w.company
        /\ \A v \in Users \ {u} : member'[v] = member[v] /\ home'[v] = home[v]
    BY <1>2, <1>3, <2>1, <2>2 DEF RowsTyped, HistoryTyped, CompanyRow, MemberRow
  <2>4. /\ Typed' /\ Later(r) /\ UNCHANGED <<told, crossed>>
        /\ user'[u] # None /\ password'[u] = "issued" /\ used' = used \cup {u}
        /\ \A v \in Users \ {u} : user'[v] = user[v] /\ password'[v] = password[v]
    BY <1>2, <2>1, <2>3, InsertTyped DEF Panels
  <2> QED
    BY <2>1, <2>3, <2>4 DEF Inserted
<1>5. ASSUME InsertMember(r), ~Refuse(r)
      PROVE  Typed' /\ Inserted(r)
  <2>1. /\ w.op = "createMember" /\ EmailFree(r) /\ company[w.company] # None
        /\ NewUser(u, "company", w.email, None)
        /\ member' = [member EXCEPT ![u] = [company |-> w.company, owner |-> FALSE, deleted |-> FALSE]]
        /\ home' = [home EXCEPT ![u] = w.company]
        /\ Mail(r, u) /\ UNCHANGED <<company, told, History>>
    BY <1>5 DEF InsertMember, At
  <2>2. w.company \in Companies
    BY <1>2, <2>1 DEF Proper
  <2>3. /\ company' \in [Companies -> CompanyRow \cup {None}]
        /\ member' \in [Users -> MemberRow \cup {None}]
        /\ home' \in [Users -> Companies \cup {None}]
        /\ member'[u] = [company |-> w.company, owner |-> FALSE, deleted |-> FALSE]
        /\ home'[u] = w.company
        /\ \A v \in Users \ {u} : member'[v] = member[v] /\ home'[v] = home[v]
    BY <1>2, <1>3, <2>1, <2>2 DEF RowsTyped, HistoryTyped, MemberRow
  <2>4. /\ Typed' /\ Later(r) /\ UNCHANGED <<told, crossed>>
        /\ user'[u] # None /\ password'[u] = "issued" /\ used' = used \cup {u}
        /\ \A v \in Users \ {u} : user'[v] = user[v] /\ password'[v] = password[v]
    BY <1>2, <2>1, <2>3, InsertTyped DEF Panels
  <2> QED
    BY <2>1, <2>3, <2>4 DEF Inserted
<1>6. ASSUME InsertUser(r), ~Refuse(r)
      PROVE  Typed' /\ Inserted(r)
  <2>1. /\ w.op = "createUser" /\ EmailFree(r)
        /\ NewUser(u, "ikyomm", w.email, None)
        /\ Mail(r, u) /\ UNCHANGED <<company, member, told, home, History>>
    BY <1>6 DEF InsertUser, At
  <2>2. /\ company' \in [Companies -> CompanyRow \cup {None}]
        /\ member' \in [Users -> MemberRow \cup {None}]
        /\ home' \in [Users -> Companies \cup {None}]
    BY <1>3, <2>1 DEF RowsTyped, HistoryTyped
  <2>3. /\ Typed' /\ Later(r) /\ UNCHANGED <<told, crossed>>
        /\ user'[u] # None /\ password'[u] = "issued" /\ used' = used \cup {u}
        /\ user'[u].panel = "ikyomm"
        /\ \A v \in Users \ {u} : user'[v] = user[v] /\ password'[v] = password[v]
    BY <1>2, <2>1, <2>2, InsertTyped DEF Panels
  <2> QED
    BY <2>1, <2>3 DEF Inserted
<1>7. ASSUME InsertAgent(r), ~Refuse(r)
      PROVE  Typed' /\ Inserted(r)
  <2>1. /\ w.op = "createAgent" /\ EmailFree(r)
        /\ NewUser(u, "app", w.email, w.company)
        /\ home' = [home EXCEPT ![u] = w.company]
        /\ Mail(r, u) /\ UNCHANGED <<company, member, told, History>>
    BY <1>7 DEF InsertAgent, At
  <2>2. w.company \in Companies \cup {None}
    BY <1>2 DEF Proper, Calls
  <2>3. /\ company' \in [Companies -> CompanyRow \cup {None}]
        /\ member' \in [Users -> MemberRow \cup {None}]
        /\ home' \in [Users -> Companies \cup {None}]
        /\ \A v \in Users \ {u} : home'[v] = home[v]
    BY <1>2, <1>3, <2>1, <2>2 DEF RowsTyped, HistoryTyped
  <2>4. /\ Typed' /\ Later(r) /\ UNCHANGED <<told, crossed>>
        /\ user'[u] # None /\ password'[u] = "issued" /\ used' = used \cup {u}
        /\ user'[u].panel = "app"
        /\ \A v \in Users \ {u} : user'[v] = user[v] /\ password'[v] = password[v]
    BY <1>2, <2>1, <2>2, <2>3, InsertTyped DEF Panels
  <2> QED
    BY <2>1, <2>3, <2>4 DEF Inserted
<1> QED
  BY <1>1, <1>4, <1>5, <1>6, <1>7

\* Steps that change rows of user: none comes, and the panel stays.
UsersEdited ==
  \A v \in Users : /\ user'[v] # None <=> user[v] # None
                   /\ user[v] # None => user'[v].panel = user[v].panel

\* Steps that change rows of member: none comes, none leaves its company.
MembersEdited ==
  \A v \in Users : /\ member'[v] # None <=> member[v] # None
                   /\ member[v] # None => member'[v].company = member[v].company

EditTail == <<password, told, used, home, History>>

LEMMA HistoryStays ==
  ASSUME HistoryTyped, UNCHANGED <<told, used, home, History>>
  PROVE  HistoryTyped' /\ crossed' = crossed
  BY DEF HistoryTyped, History

LEMMA SaveIs ==
  ASSUME Typed, \A u \in Users : member[u] # None => user[u] # None, NEW r \in Requests,
         SaveMember(r) \/ SaveUser(r) \/ SaveAgent(r)
  PROVE  \/ r \in Busy /\ Refuse(r)
         \/ Typed' /\ Later(r) /\ UsersEdited /\ UNCHANGED <<company, member, EditTail>>
<1> DEFINE w == request[r]
           u == request[r].user
<1>1. /\ w.stage = "checked" /\ w.op \in {"updateMember", "updateUser", "updateAgent"}
  BY DEF SaveMember, SaveUser, SaveAgent, At
<1>2. r \in Busy /\ Proper(w)
  BY <1>1, BusyIs DEF Typed
<1>3. u \in Users /\ w.email \in Emails /\ w.company \in Companies \cup {None}
  BY <1>1, <1>2 DEF Proper, Addressed, Removing, Calls
<1>4. SUFFICES ASSUME ~Refuse(r)
               PROVE  Typed' /\ Later(r) /\ UsersEdited /\ UNCHANGED <<company, member, EditTail>>
  BY <1>2
<1>5. /\ EmailFree(r) /\ Exists(u) /\ Answer(r, "ok")
      /\ UNCHANGED <<company, member, password, told, used, home, History>>
      /\ \/ user' = [user EXCEPT ![u].email = w.email]
         \/ user' = [user EXCEPT ![u].email = w.email, ![u].company = w.company]
  BY <1>3, <1>4 DEF SaveMember, SaveUser, SaveAgent, Exists
<1>6. user[u] \in UserRow
  BY <1>3, <1>5, RowsAreRows DEF Typed
<1>7. PICK x \in UserRow : /\ x.email = w.email /\ x.panel = user[u].panel
                           /\ user' = [user EXCEPT ![u] = x]
  <2>1. CASE user' = [user EXCEPT ![u].email = w.email]
    <3>1. /\ [user[u] EXCEPT !.email = w.email] \in UserRow
          /\ [user[u] EXCEPT !.email = w.email].email = w.email
          /\ [user[u] EXCEPT !.email = w.email].panel = user[u].panel
      BY <1>3, <1>6 DEF UserRow
    <3>2. user' = [user EXCEPT ![u] = [user[u] EXCEPT !.email = w.email]]
      BY <2>1
    <3> QED
      BY <3>1, <3>2
  <2>2. CASE user' = [user EXCEPT ![u].email = w.email, ![u].company = w.company]
    <3> DEFINE y == [user[u] EXCEPT !.email = w.email, !.company = w.company]
    <3>1. y \in UserRow /\ y.email = w.email /\ y.panel = user[u].panel
      BY <1>3, <1>6 DEF UserRow
    <3>2. user' = [user EXCEPT ![u] = y]
      BY <1>3, <2>2 DEF Typed, RowsTyped
    <3> HIDE DEF y
    <3> QED
      BY <3>1, <3>2
  <2> QED
    BY <1>5, <2>1, <2>2
<1>8. HeldBy(x.email) \subseteq {u}
  BY <1>3, <1>5, <1>7 DEF EmailFree
<1>9. user' \in [Users -> UserRow \cup {None}] /\ AddressesDiffer'
  BY <1>3, <1>7, <1>8, UserWritten DEF Typed
<1>10. "ok" \in Answers
  BY DEF Answers
<1>11. RequestsTyped' /\ Later(r)
  BY <1>2, <1>5, <1>10, AnswerMoves, AnswersLater DEF Typed
<1>12. UsersEdited
  <2>1. x # None /\ user[u] # None
    BY <1>5, <1>7 DEF Exists
  <2> QED
    BY <1>3, <1>7, <2>1 DEF Typed, RowsTyped, UsersEdited
<1>13. RowsTyped' /\ HistoryTyped'
  BY <1>5, <1>9, HistoryStays DEF Typed, RowsTyped
<1> QED
  BY <1>5, <1>9, <1>11, <1>12, <1>13 DEF Typed, EditTail

LEMMA UserMarked ==
  ASSUME RowsTyped, AddressesDiffer, NEW u \in Users, user[u] # None, NEW d \in BOOLEAN,
         user' = [user EXCEPT ![u].deleted = d]
  PROVE  user' \in [Users -> UserRow \cup {None}] /\ AddressesDiffer' /\ UsersEdited
<1> DEFINE x == [user[u] EXCEPT !.deleted = d]
<1>1. user[u] \in UserRow
  BY RowsAreRows DEF Exists
<1>2. x \in UserRow /\ x.email = user[u].email /\ x.panel = user[u].panel /\ x # None
  BY <1>1 DEF UserRow
<1>3. user' = [user EXCEPT ![u] = x]
  OBVIOUS
<1> HIDE DEF x
<1>4. user' \in [Users -> UserRow \cup {None}] /\ AddressesDiffer'
  BY <1>2, <1>3, UserWritten DEF Exists
<1>5. UsersEdited
  BY <1>2, <1>3 DEF RowsTyped, UsersEdited
<1> QED
  BY <1>4, <1>5

LEMMA MemberMarked ==
  ASSUME RowsTyped, NEW u \in Users,
         member' = IF member[u] = None THEN member ELSE [member EXCEPT ![u].deleted = TRUE]
  PROVE  /\ member' \in [Users -> MemberRow \cup {None}] /\ MembersEdited
         /\ \A v \in Users : member[v] # None =>
              member'[v].deleted = member[v].deleted \/ member'[v].deleted = TRUE
<1> DEFINE x == [member[u] EXCEPT !.deleted = TRUE]
<1>1. CASE member[u] = None
  BY <1>1 DEF RowsTyped, MembersEdited
<1>2. CASE member[u] # None
  <2>1. x \in MemberRow /\ x.company = member[u].company /\ x.deleted = TRUE
    BY <1>2, RowsAreRows DEF MemberRow
  <2>2. member' = [member EXCEPT ![u] = x] /\ x # None
    BY <1>2, <2>1
  <2> HIDE DEF x
  <2> QED
    BY <1>2, <2>1, <2>2 DEF RowsTyped, MembersEdited
<1> QED
  BY <1>1, <1>2

LEMMA DropIs ==
  ASSUME Typed, NEW r \in Requests, DropMember(r) \/ DropMemberAndUser(r)
  PROVE  /\ Typed' /\ Later(r) /\ UsersEdited /\ MembersEdited /\ UNCHANGED <<company, EditTail>>
         /\ \A v \in Users : member[v] # None =>
              member'[v].deleted = member[v].deleted \/ member'[v].deleted = TRUE
<1> DEFINE u == request[r].user
<1>1. /\ request[r].stage = "checked" /\ request[r].op \in {"removeMember", "removeMemberAndUser"}
      /\ Answer(r, "ok") /\ UNCHANGED <<company, password, told, used, home, History>>
      /\ member' = IF member[u] = None THEN member ELSE [member EXCEPT ![u].deleted = TRUE]
      /\ UNCHANGED user \/ user' = IF Exists(u) THEN [user EXCEPT ![u].deleted = TRUE] ELSE user
  BY DEF DropMember, DropMemberAndUser, At
<1>2. r \in Busy /\ Proper(request[r])
  BY <1>1, BusyIs DEF Typed
<1>3. u \in Users
  BY <1>1, <1>2 DEF Proper, Removing
<1>4. "ok" \in Answers
  BY DEF Answers
<1>5. RequestsTyped' /\ Later(r)
  BY <1>1, <1>2, <1>4, AnswerMoves, AnswersLater DEF Typed
<1>6. /\ member' \in [Users -> MemberRow \cup {None}] /\ MembersEdited
      /\ \A v \in Users : member[v] # None =>
           member'[v].deleted = member[v].deleted \/ member'[v].deleted = TRUE
  BY <1>1, <1>3, MemberMarked DEF Typed
<1>7. user' \in [Users -> UserRow \cup {None}] /\ AddressesDiffer' /\ UsersEdited
  <2>1. CASE UNCHANGED user
    BY <2>1 DEF Typed, RowsTyped, AddressesDiffer, Exists, UsersEdited
  <2>2. CASE user[u] # None /\ user' = [user EXCEPT ![u].deleted = TRUE]
    BY <1>3, <2>2, UserMarked DEF Typed
  <2> QED
    BY <1>1, <2>1, <2>2 DEF Exists
<1>8. RowsTyped' /\ HistoryTyped'
  BY <1>1, <1>6, <1>7, HistoryStays DEF Typed, RowsTyped
<1> QED
  BY <1>1, <1>5, <1>6, <1>7, <1>8 DEF Typed, EditTail

LEMMA MarkIs ==
  ASSUME Typed, NEW r \in Requests, Mark(r)
  PROVE  Typed' /\ Later(r) /\ UsersEdited /\ UNCHANGED <<company, member, EditTail>>
<1> DEFINE w == request[r]
           u == request[r].user
<1>1. w.stage = "checked" /\ w.op \in {"removeUser", "restoreUser"}
  BY DEF Mark, At
<1>2. r \in Busy /\ Proper(w)
  BY <1>1, BusyIs DEF Typed
<1>3. u \in Users
  BY <1>1, <1>2 DEF Proper, Removing
<1>4. PICK a \in {"ok", "failed"} : Answer(r, a)
  BY DEF Mark
<1>5. a \in Answers
  BY DEF Answers
<1>6. RequestsTyped' /\ Later(r)
  BY <1>2, <1>4, <1>5, AnswerMoves, AnswersLater DEF Typed
<1>7. UNCHANGED <<company, member, password, told, used, home, History>>
  BY DEF Mark, Rows
<1>8. user' \in [Users -> UserRow \cup {None}] /\ AddressesDiffer' /\ UsersEdited
  <2>1. CASE Exists(u)
    <3>1. user' = [user EXCEPT ![u].deleted = (w.op = "removeUser")]
      BY <2>1 DEF Mark
    <3> QED
      BY <1>3, <2>1, <3>1, UserMarked DEF Typed, Exists
  <2>2. CASE ~Exists(u)
    <3>1. UNCHANGED user
      BY <2>2 DEF Mark, Rows
    <3> QED
      BY <3>1 DEF Typed, RowsTyped, AddressesDiffer, Exists, UsersEdited
  <2> QED
    BY <2>1, <2>2
<1>9. RowsTyped' /\ HistoryTyped'
  BY <1>7, <1>8, HistoryStays DEF Typed, RowsTyped
<1> QED
  BY <1>6, <1>7, <1>8, <1>9 DEF Typed, EditTail

LEMMA DropCompanyIs ==
  ASSUME Typed, NEW r \in Requests, DropCompany(r)
  PROVE  /\ Typed' /\ Later(r) /\ UNCHANGED <<user, EditTail>>
         /\ r \in Busy /\ request[r].op \in Removing /\ request[r].company \in Companies
         /\ CompanyMarked(request[r].company, TRUE)
         /\ member' = Marked(request[r].company, TRUE)
<1> DEFINE c == request[r].company
<1>1. request[r].stage = "checked" /\ request[r].op = "removeCompany" /\ Answer(r, "ok")
  BY DEF DropCompany, At
<1>2. r \in Busy /\ Proper(request[r])
  BY <1>1, BusyIs DEF Typed
<1>3. request[r].op \in Removing /\ c \in Companies
  BY <1>1, <1>2 DEF Proper, Removing
<1>4. /\ CompanyMarked(c, TRUE) /\ member' = Marked(c, TRUE)
      /\ UNCHANGED <<user, password, told, used, home, History>>
  BY DEF DropCompany, CompanyMarked
<1>5. "ok" \in Answers
  BY DEF Answers
<1>6. RequestsTyped' /\ Later(r)
  BY <1>1, <1>2, <1>5, AnswerMoves, AnswersLater DEF Typed
<1>7. /\ company' \in [Companies -> CompanyRow \cup {None}]
      /\ member' \in [Users -> MemberRow \cup {None}]
  BY <1>3, <1>4, CompanyMarkedTyped, MarkedTyped DEF Typed
<1>8. RowsTyped' /\ AddressesDiffer' /\ HistoryTyped'
  BY <1>4, <1>7, HistoryStays DEF Typed, RowsTyped, AddressesDiffer, Exists
<1> QED
  BY <1>2, <1>3, <1>4, <1>6, <1>8 DEF Typed, EditTail

\* What becomes of user u when the users in gone and company c are erased.
Erasure(u, gone, c) ==
  /\ u \in gone => user'[u] = None /\ member'[u] = None /\ told'[u] = {}
  /\ u \notin gone =>
       /\ user'[u] # None <=> user[u] # None
       /\ user[u] # None => /\ user'[u].panel = user[u].panel
                            /\ user'[u].email = user[u].email
       /\ member'[u] = IF member[u] # None /\ member[u].company = c THEN None ELSE member[u]
       /\ told'[u] = told[u]

\* ON DELETE: who is gone has no row, who stays keeps what is not of company c.
LEMMA ErasedIs ==
  ASSUME RowsTyped, AddressesDiffer, HistoryTyped, NEW gone \in SUBSET Users,
         NEW c \in Companies \cup {None}, Erased(gone, c)
  PROVE  /\ user' \in [Users -> UserRow \cup {None}] /\ member' \in [Users -> MemberRow \cup {None}]
         /\ told' \in [Users -> SUBSET Passwords] /\ AddressesDiffer'
         /\ \A u \in Users : Erasure(u, gone, c)
<1>1. ASSUME NEW u \in Users
      PROVE  /\ user'[u] \in UserRow \cup {None}
             /\ u \in gone => user'[u] = None
             /\ u \notin gone => /\ user'[u] # None <=> user[u] # None
                                 /\ user[u] # None => /\ user'[u].panel = user[u].panel
                                                      /\ user'[u].email = user[u].email
  <2>1. user'[u] = IF u \in gone THEN None
                   ELSE IF c # None /\ Exists(u) /\ user[u].company = c
                        THEN [user[u] EXCEPT !.company = None] ELSE user[u]
    BY DEF Erased
  <2>2. Exists(u) => /\ user[u] \in UserRow /\ [user[u] EXCEPT !.company = None] \in UserRow
                     /\ [user[u] EXCEPT !.company = None].panel = user[u].panel
                     /\ [user[u] EXCEPT !.company = None].email = user[u].email
    BY RowsAreRows DEF UserRow
  <2>3. \A x \in UserRow : x # None
    OBVIOUS
  <2>4. user[u] \in UserRow \cup {None}
    BY DEF RowsTyped
  <2>5. CASE u \in gone
    BY <2>1, <2>5
  <2>6. CASE u \notin gone /\ c # None /\ Exists(u) /\ user[u].company = c
    BY <2>1, <2>2, <2>3, <2>6 DEF Exists
  <2>7. CASE u \notin gone /\ ~(c # None /\ Exists(u) /\ user[u].company = c)
    BY <2>1, <2>4, <2>7
  <2> QED
    BY <2>5, <2>6, <2>7
<1>2. user' \in [Users -> UserRow \cup {None}]
  BY <1>1 DEF Erased
<1>3. AddressesDiffer'
  BY <1>1 DEF AddressesDiffer, Exists
<1>4. ASSUME NEW u \in Users
      PROVE  /\ member'[u] \in MemberRow \cup {None}
             /\ u \in gone => member'[u] = None
             /\ u \notin gone => member'[u] = IF member[u] # None /\ member[u].company = c THEN None
                                              ELSE member[u]
  <2>1. member'[u] = IF member[u] # None /\ (u \in gone \/ member[u].company = c) THEN None
                     ELSE member[u]
    BY DEF Erased
  <2>2. member[u] \in MemberRow \cup {None}
    BY DEF RowsTyped
  <2> QED
    BY <2>1, <2>2
<1>5. member' \in [Users -> MemberRow \cup {None}]
  BY <1>4 DEF Erased
<1>6. /\ told' \in [Users -> SUBSET Passwords]
      /\ \A u \in Users : told'[u] = IF u \in gone THEN {} ELSE told[u]
  BY DEF Erased, HistoryTyped
<1>7. \A u \in Users : Erasure(u, gone, c)
  BY <1>1, <1>4, <1>6 DEF Erasure
<1> QED
  BY <1>2, <1>3, <1>5, <1>6, <1>7

LEMMA EraseCompanyIs ==
  ASSUME Typed, NEW r \in Requests, EraseCompany(r)
  PROVE  /\ Typed' /\ Later(r) /\ UNCHANGED <<password, used, home, History>>
         /\ r \in Busy /\ request[r].op \in Removing /\ request[r].company \in Companies
         /\ request[r].stage = "collected" /\ request[r].linked \in SUBSET Users
         /\ Erased(request[r].linked, request[r].company)
         /\ company' = [company EXCEPT ![request[r].company] = None]
<1>1. /\ request[r].stage = "collected" /\ Answer(r, "ok")
      /\ Erased(request[r].linked, request[r].company)
      /\ company' = [company EXCEPT ![request[r].company] = None]
      /\ UNCHANGED <<password, used, home, History>>
  BY DEF EraseCompany
<1>2. r \in Busy /\ Proper(request[r])
  BY <1>1, BusyIs DEF Typed, Gathering
<1>3. request[r].op \in Removing /\ request[r].company \in Companies
      /\ request[r].linked \in SUBSET Users
  BY <1>1, <1>2 DEF Proper, Removing, Calls, Gathering
<1>4. "ok" \in Answers
  BY DEF Answers
<1>5. RequestsTyped' /\ Later(r)
  BY <1>1, <1>2, <1>4, AnswerMoves, AnswersLater DEF Typed
<1>6. /\ user' \in [Users -> UserRow \cup {None}] /\ member' \in [Users -> MemberRow \cup {None}]
      /\ told' \in [Users -> SUBSET Passwords] /\ AddressesDiffer'
  BY <1>1, <1>3, ErasedIs DEF Typed
<1>7. RowsTyped' /\ HistoryTyped'
  BY <1>1, <1>3, <1>6 DEF Typed, RowsTyped, HistoryTyped, History
<1> QED
  BY <1>1, <1>2, <1>3, <1>5, <1>6, <1>7 DEF Typed

LEMMA EraseUserIs ==
  ASSUME Typed, NEW r \in Requests, EraseUser(r)
  PROVE  /\ Typed' /\ Later(r) /\ UNCHANGED <<company, password, used, home, History>>
         /\ request[r].user \in Users /\ Erased({request[r].user}, None)
<1>1. /\ request[r].stage = "checked" /\ request[r].op = "removeUserPermanently"
      /\ Erased({request[r].user}, None) /\ UNCHANGED <<company, password, used, home, History>>
  BY DEF EraseUser, At
<1>2. PICK a \in {"ok", "failed"} : Answer(r, a)
  BY DEF EraseUser
<1>3. r \in Busy /\ Proper(request[r]) /\ a \in Answers
  BY <1>1, BusyIs DEF Typed, Answers
<1>4. request[r].user \in Users
  BY <1>1, <1>3 DEF Proper, Removing
<1>5. RequestsTyped' /\ Later(r)
  BY <1>2, <1>3, AnswerMoves, AnswersLater DEF Typed
<1>6. /\ user' \in [Users -> UserRow \cup {None}] /\ member' \in [Users -> MemberRow \cup {None}]
      /\ told' \in [Users -> SUBSET Passwords] /\ AddressesDiffer'
  BY <1>1, <1>4, ErasedIs DEF Typed
<1>7. RowsTyped' /\ HistoryTyped'
  BY <1>1, <1>6 DEF Typed, RowsTyped, HistoryTyped, History
<1> QED
  BY <1>1, <1>4, <1>5, <1>6, <1>7 DEF Typed

\* The three reads of a removal for good: each goes on to its next stage, and changes
\* whom it has found only.
Reads(r) == ReadMembers(r) \/ ReadAssigned(r) \/ Collect(r)

LEMMA ReadIs ==
  ASSUME Typed, NEW r \in Requests, NEW stage \in {"checked"} \cup Gathering,
         NEW next \in Gathering, NEW found \in SUBSET Users, Read(r, stage, next, found)
  PROVE  /\ Typed' /\ UNCHANGED <<Rows, told, used, home, History>>
         /\ r \in Busy /\ request[r].stage = stage /\ Proper(request[r])
         /\ request[r].op = "removeCompanyPermanently"
         /\ \A q \in Requests : q # r => request'[q] = request[q]
         /\ request'[r].op = request[r].op /\ request'[r].company = request[r].company
         /\ request'[r].user = request[r].user /\ request'[r].email = request[r].email
         /\ request'[r].stage = next /\ request'[r].linked = found
<1>1. request[r].stage = stage /\ request[r].op = "removeCompanyPermanently"
  BY DEF Read
<1>2. r \in Busy /\ Proper(request[r]) /\ request[r] \in Calls
  BY <1>1, BusyIs DEF Typed
<1>3. PICK x : x = [request[r] EXCEPT !.stage = next, !.linked = found]
  OBVIOUS
<1>4. request' = [request EXCEPT ![r] = x] /\ UNCHANGED <<Rows, told, used, home, History>>
  BY <1>3 DEF Read
<1>5. /\ x \in Calls /\ x.op = request[r].op /\ x.company = request[r].company
      /\ x.user = request[r].user /\ x.email = request[r].email /\ x.slug = request[r].slug
      /\ x.stage = next /\ x.linked = found
  BY <1>2, <1>3 DEF Calls, Gathering
<1>6. Proper(x)
  BY <1>1, <1>2, <1>5 DEF Proper, Gathering
<1>7. RequestsTyped'
  BY <1>4, <1>6, RequestMoves DEF Typed
<1>8. request'[r] = x /\ \A q \in Requests : q # r => request'[q] = request[q]
  BY <1>4 DEF Typed, RequestsTyped
<1>9. RowsTyped' /\ AddressesDiffer' /\ HistoryTyped'
  BY <1>4 DEF Typed, RowsTyped, AddressesDiffer, Exists, HistoryTyped, Rows, History
<1> QED
  BY <1>1, <1>2, <1>4, <1>5, <1>7, <1>8, <1>9 DEF Typed

\* What a removal has found after each of its reads.
LEMMA ReadsAre ==
  ASSUME Typed, NEW r \in Requests, Reads(r)
  PROVE  \E stage \in {"checked"} \cup Gathering, next \in Gathering, found \in SUBSET Users :
           /\ Read(r, stage, next, found)
           /\ \/ /\ stage = "checked" /\ next = "members"
                 /\ found = MembersOf(request[r].company)
              \/ /\ stage = "members" /\ next = "assigned"
                 /\ found = request[r].linked \cup AssignedTo(request[r].company)
              \/ /\ stage = "assigned" /\ next = "collected"
                 /\ found = {u \in request[r].linked :
                               member[u] # None => member[u].company = request[r].company}
<1>1. PICK w : w = request[r]
  OBVIOUS
<1>2. CASE ReadMembers(r)
  BY <1>2 DEF ReadMembers, MembersOf, Gathering
<1>3. CASE ReadAssigned(r) \/ Collect(r)
  <2>1. w.stage \in Gathering
    BY <1>1, <1>3 DEF ReadAssigned, Collect, Read, Gathering
  <2>2. w \in Calls
    BY <1>1, <2>1, BusyIs DEF Typed
  <2>3. w.linked \in SUBSET Users
    BY <2>2 DEF Calls
  <2>4. CASE ReadAssigned(r)
    BY <1>1, <2>3, <2>4 DEF ReadAssigned, AssignedTo, Gathering
  <2>5. CASE Collect(r)
    BY <1>1, <2>3, <2>5 DEF Collect, Gathering
  <2> QED
    BY <1>3, <2>4, <2>5
<1> QED
  BY <1>2, <1>3 DEF Reads

\* Nobody who is a member of the company is forgotten by a read.
LEMMA ReadsKeep ==
  ASSUME Typed, NEW r \in Requests, Reads(r)
  PROVE  /\ Typed' /\ UNCHANGED <<Rows, told, used, home, History>>
         /\ r \in Busy /\ request[r].op \in Removing
         /\ request[r].stage \in {"checked"} \cup Gathering
         /\ \A q \in Requests : q # r => request'[q] = request[q]
         /\ request'[r].op = request[r].op /\ request'[r].company = request[r].company
         /\ request'[r].stage \in Gathering
         /\ \A u \in Users : member[u] # None /\ member[u].company = request[r].company
              => u \in request'[r].linked \/ (request[r].stage # "checked" /\ u \notin request[r].linked)
<1>1. PICK stage \in {"checked"} \cup Gathering, next \in Gathering, found \in SUBSET Users :
        /\ Read(r, stage, next, found)
        /\ \/ /\ stage = "checked" /\ next = "members"
              /\ found = MembersOf(request[r].company)
           \/ /\ stage = "members" /\ next = "assigned"
              /\ found = request[r].linked \cup AssignedTo(request[r].company)
           \/ /\ stage = "assigned" /\ next = "collected"
              /\ found = {u \in request[r].linked :
                            member[u] # None => member[u].company = request[r].company}
  BY ReadsAre
<1>2. ASSUME NEW u \in Users, member[u] # None, member[u].company = request[r].company
      PROVE  u \in found \/ (stage # "checked" /\ u \notin request[r].linked)
  BY <1>1, <1>2 DEF MembersOf
<1>3. Removing = {"removeCompany", "removeCompanyPermanently"}
  BY DEF Removing
<1> QED
  BY <1>1, <1>2, <1>3, ReadIs

LEMMA EndIs ==
  ASSUME Typed, NEW r \in Requests, Deliver(r) \/ Lose(r) \/ Fail(r)
  PROVE  /\ Typed' /\ Later(r) /\ UNCHANGED <<Rows, used, home, History>>
         /\ \A v \in Users : \/ told'[v] = told[v]
                             \/ Exists(v) /\ told'[v] = told[v] \cup {"issued"}
<1>1. r \in Busy /\ Proper(request[r])
  BY BusyIs DEF Typed, Deliver, Lose, Fail
<1>2. PICK a \in Answers : Answer(r, a)
  BY DEF Deliver, Lose, Fail, Answers
<1>3. UNCHANGED <<Rows, used, home, History>>
  BY DEF Deliver, Lose, Fail
<1>4. /\ told' \in [Users -> SUBSET Passwords]
      /\ \A v \in Users : \/ told'[v] = told[v]
                          \/ Exists(v) /\ told'[v] = told[v] \cup {"issued"}
  <2>1. CASE Deliver(r)
    <3>1. told' = [told EXCEPT ![request[r].user] = IF Exists(request[r].user)
                                                    THEN @ \cup {"issued"} ELSE @]
      BY <2>1 DEF Deliver
    <3> QED
      BY <3>1 DEF Typed, HistoryTyped, Passwords
  <2>2. CASE UNCHANGED told
    BY <2>2 DEF Typed, HistoryTyped
  <2> QED
    BY <2>1, <2>2 DEF Lose, Fail
<1> QED
  BY <1>1, <1>2, <1>3, <1>4, AnswerTyped, AnswersLater DEF Typed

LEMMA ChangePasswordIs ==
  ASSUME Typed, NEW u \in Users, ChangePassword(u)
  PROVE  /\ Typed' /\ UNCHANGED <<company, user, member, request, used, home, History>>
         /\ told[u] # {} /\ password' = [password EXCEPT ![u] = "own"]
         /\ told' = [told EXCEPT ![u] = told[u] \cup {"own"}]
<1>1. /\ UNCHANGED <<company, user, member, request, used, home, History>>
      /\ told[u] # {} /\ password' = [password EXCEPT ![u] = "own"]
      /\ told' = [told EXCEPT ![u] = told[u] \cup {"own"}]
  BY DEF ChangePassword
<1>2. RowsTyped' /\ AddressesDiffer' /\ RequestsTyped'
  BY <1>1 DEF Typed, RowsTyped, AddressesDiffer, Exists, RequestsTyped, Passwords
<1>3. HistoryTyped'
  BY <1>1 DEF Typed, HistoryTyped, History, Passwords
<1> QED
  BY <1>1, <1>2, <1>3 DEF Typed

----------------------------------------------------------------------------
(* Passwords *)

\* The issued password is the first anyone is told, and an account accepts it until its
\* user, who was told it, chooses another.
Known ==
  \A u \in Users :
    /\ told[u] # {} => "issued" \in told[u]
    /\ user[u] # None => IF told[u] = {} THEN password[u] = "issued" ELSE password[u] \in told[u]

\* Ids are new, and each is of one request.
Births ==
  /\ \A u \in Users : u \notin used => user[u] = None /\ member[u] = None
  /\ \A r \in Requests : Starts(r) => request[r].user \notin used
  /\ \A q, r \in Requests : Starts(q) /\ Starts(r) /\ q # r => request[q].user # request[r].user

\* A member is a user, of a company that has a row, the one it came to.
Keys ==
  \A u \in Users : member[u] # None =>
    /\ user[u] # None /\ company[member[u].company] # None /\ home[u] = member[u].company

\* Request q removes company c.
Leaves(q, c) == q \in Busy /\ request[q].op \in Removing /\ request[q].company = c

\* Who is let into a company finds it as it was checked, unless it met a removal.
Joins ==
  \A r \in Requests :
    Starts(r) /\ request[r].op \in {"createCompany", "createMember"} =>
      LET c == request[r].company IN
      \/ c \in crossed
      \/ /\ \A q \in Requests : ~Leaves(q, c)
         /\ request[r].op = "createMember" => LiveCompany(c)

\* A removal for good has found every member once it has read them, unless one came
\* meanwhile.
Lefts ==
  \A q \in Requests : request[q].stage \in Gathering =>
    \A u \in Users : member[u] # None /\ member[u].company = request[q].company =>
      u \in request[q].linked \/ request[q].company \in crossed

Steady ==
  \A u \in Users : LiveMember(u) =>
    LiveCompany(member[u].company) \/ member[u].company \in crossed

Orphans ==
  \A u \in Users : user[u] # None /\ user[u].panel = "company" /\ member[u] = None =>
    home[u] \in crossed

Rest == Births /\ Keys /\ Joins /\ Lefts /\ Steady /\ Orphans

LEMMA InStep == Typed /\ Rest => MembershipsInStep
  BY DEF Rest, Steady, Orphans, MembershipsInStep, Exists

LEMMA KnownIs == Known => PasswordKnown
  BY DEF Known, PasswordKnown, Exists

LEMMA InitRest == Init => Rest /\ Known
<1> SUFFICES ASSUME Init PROVE Rest /\ Known
  OBVIOUS
<1>1. \A r \in Requests : ~Starts(r) /\ request[r].stage = "ready"
  BY DEF Init, Starts, Ready
<1>2. Births /\ Joins /\ Lefts
  BY <1>1 DEF Init, Births, Joins, Lefts
<1>3. Keys /\ Steady /\ Orphans /\ Known
  BY DEF Init, Keys, Steady, LiveMember, Orphans, Known
<1> QED
  BY <1>2, <1>3 DEF Rest

\* A step that leaves the users there are, and what each was told and accepts.
LEMMA KnownStays ==
  ASSUME Known, UNCHANGED <<password, told>>, \A v \in Users : user'[v] # None => user[v] # None
  PROVE  Known'
  BY DEF Known

LEMMA KnownStep ==
  ASSUME Typed, Rest, Known, [Next]_vars
  PROVE  Known'
<1>0. \A u \in Users : member[u] # None => user[u] # None
  BY DEF Rest, Keys
<1>1. CASE UNCHANGED vars
  BY <1>1 DEF vars, Known
<1>2. ASSUME NEW u \in Users, ChangePassword(u) PROVE Known'
  <2>1. /\ UNCHANGED user /\ told[u] # {} /\ password' = [password EXCEPT ![u] = "own"]
        /\ told' = [told EXCEPT ![u] = told[u] \cup {"own"}]
    BY <1>2, ChangePasswordIs
  <2> QED
    BY <2>1 DEF Known, Typed, RowsTyped, HistoryTyped
<1>3. ASSUME NEW r \in Requests, Begin(r) PROVE Known'
  <2>1. CASE \E w : \E refusal \in Answers \cup {None} : Check(r, refusal, w) /\ Admitted(w, refusal)
    <3>1. UNCHANGED <<user, password, told>>
      BY <2>1 DEF Check, Rows
    <3> QED
      BY <3>1, KnownStays
  <2>2. ASSUME NEW cs \in SUBSET Users, Resend(r, cs) PROVE Known'
    <3>1. UNCHANGED <<user, told>>
      BY <2>2 DEF Resend
    <3>2. CASE UNCHANGED password
      BY <3>1, <3>2, KnownStays
    <3>3. ASSUME NEW u \in Users, password' = [password EXCEPT ![u] = "issued"] PROVE Known'
      BY <3>1, <3>3 DEF Known, Typed, RowsTyped
    <3> QED
      BY <2>2, <3>2, <3>3, ResendTyped
  <2>3. ASSUME NEW all \in BOOLEAN, Restored(r, all) PROVE Known'
    <3>1. UNCHANGED <<user, password, told>>
      BY <2>3 DEF Restored
    <3> QED
      BY <3>1, KnownStays
  <2> QED
    BY <1>3, <2>1, <2>2, <2>3, BeginIs DEF Typed
<1>4. ASSUME NEW r \in Requests, Finish(r) PROVE Known'
  <2>1. ASSUME r \in Busy, Refuse(r) PROVE Known'
    <3>1. UNCHANGED <<user, password, told>>
      BY <2>1, RefuseTyped DEF Rows
    <3> QED
      BY <3>1, KnownStays
  <2>2. CASE InsertCompany(r) \/ InsertMember(r) \/ InsertUser(r) \/ InsertAgent(r)
    <3>1. CASE Inserted(r)
      <4>1. /\ UNCHANGED told /\ password'[request[r].user] = "issued"
            /\ \A v \in Users \ {request[r].user} : user'[v] = user[v] /\ password'[v] = password[v]
        BY <3>1 DEF Inserted
      <4> QED
        BY <4>1 DEF Known
    <3> QED
      BY <2>1, <2>2, <3>1, InsertIs DEF Starts
  <2>3. CASE SaveMember(r) \/ SaveUser(r) \/ SaveAgent(r)
    <3>1. CASE UsersEdited /\ UNCHANGED EditTail
      BY <3>1, KnownStays DEF UsersEdited, EditTail
    <3> QED
      BY <1>0, <2>1, <2>3, <3>1, SaveIs
  <2>4. CASE DropMember(r) \/ DropMemberAndUser(r) \/ Mark(r)
    <3>1. UsersEdited /\ UNCHANGED EditTail
      BY <2>4, DropIs, MarkIs
    <3> QED
      BY <3>1, KnownStays DEF UsersEdited, EditTail
  <2>5. CASE DropCompany(r) \/ Reads(r)
    <3>1. UNCHANGED <<user, password, told>>
      BY <2>5 DEF DropCompany, Reads, ReadMembers, ReadAssigned, Collect, Read, Rows
    <3> QED
      BY <3>1, KnownStays
  <2>6. CASE EraseCompany(r) \/ EraseUser(r)
    <3>1. PICK gone \in SUBSET Users, c \in Companies \cup {None} :
            Erased(gone, c) /\ UNCHANGED password
      BY <2>6, EraseCompanyIs, EraseUserIs
    <3>2. \A u \in Users : Erasure(u, gone, c)
      BY <3>1, ErasedIs DEF Typed
    <3>3. \A u \in Users : /\ u \in gone => user'[u] = None /\ told'[u] = {}
                           /\ u \notin gone => /\ user'[u] # None <=> user[u] # None
                                               /\ told'[u] = told[u]
      BY <3>2 DEF Erasure
    <3> QED
      BY <3>1, <3>3 DEF Known
  <2>7. CASE Deliver(r) \/ Lose(r) \/ Fail(r)
    <3>1. /\ UNCHANGED <<user, password>>
          /\ \A v \in Users : \/ told'[v] = told[v]
                              \/ user[v] # None /\ told'[v] = told[v] \cup {"issued"}
      BY <2>7, EndIs DEF Rows, Exists
    <3> QED
      BY <3>1 DEF Known
  <2> QED
    BY <1>4, <2>2, <2>3, <2>4, <2>5, <2>6, <2>7 DEF Finish, Reads
<1> QED
  BY <1>1, <1>2, <1>3, <1>4 DEF Next

----------------------------------------------------------------------------
(* Types, in every step *)

LEMMA StepTyped ==
  ASSUME Typed, Rest, [Next]_vars
  PROVE  Typed'
<1>0. \A u \in Users : member[u] # None => user[u] # None
  BY DEF Rest, Keys
<1>1. CASE UNCHANGED vars
  BY <1>1 DEF vars, Typed, RowsTyped, AddressesDiffer, Exists, HistoryTyped, RequestsTyped
<1>2. ASSUME NEW u \in Users, ChangePassword(u) PROVE Typed'
  BY <1>2, ChangePasswordIs
<1>3. ASSUME NEW r \in Requests, Begin(r) PROVE Typed'
  <2>1. ASSUME NEW w, NEW refusal \in Answers \cup {None}, Check(r, refusal, w), Admitted(w, refusal)
        PROVE  Typed'
    BY <2>1, CheckTyped
  <2>2. ASSUME NEW cs \in SUBSET Users, Resend(r, cs) PROVE Typed'
    BY <2>2, ResendTyped
  <2>3. ASSUME NEW all \in BOOLEAN, Restored(r, all) PROVE Typed'
    BY <2>3, RestoredTyped
  <2> QED
    BY <1>3, <2>1, <2>2, <2>3, BeginIs DEF Typed
<1>4. ASSUME NEW r \in Requests, Finish(r) PROVE Typed'
  <2>1. ASSUME r \in Busy, Refuse(r) PROVE Typed'
    BY <2>1, RefuseTyped
  <2>2. CASE InsertCompany(r) \/ InsertMember(r) \/ InsertUser(r) \/ InsertAgent(r)
    BY <2>1, <2>2, InsertIs DEF Starts
  <2>3. CASE SaveMember(r) \/ SaveUser(r) \/ SaveAgent(r)
    BY <1>0, <2>1, <2>3, SaveIs
  <2>4. CASE DropMember(r) \/ DropMemberAndUser(r)
    BY <2>4, DropIs
  <2>5. CASE Mark(r)
    BY <2>5, MarkIs
  <2>6. CASE DropCompany(r)
    BY <2>6, DropCompanyIs
  <2>7. CASE Reads(r)
    BY <2>7, ReadsKeep
  <2>8. CASE EraseCompany(r)
    BY <2>8, EraseCompanyIs
  <2>9. CASE EraseUser(r)
    BY <2>9, EraseUserIs
  <2>10. CASE Deliver(r) \/ Lose(r) \/ Fail(r)
    BY <2>10, EndIs
  <2> QED
    BY <1>4, <2>2, <2>3, <2>4, <2>5, <2>6, <2>7, <2>8, <2>9, <2>10 DEF Finish, Reads
<1> QED
  BY <1>1, <1>2, <1>3, <1>4 DEF Next

----------------------------------------------------------------------------
(* Members *)

\* No request starts, reads whom to delete or comes to remove a company.
Quiet ==
  /\ \A q \in Requests : Starts(q)' => Starts(q) /\ request'[q] = request[q]
  /\ \A q \in Requests : request'[q].stage \in Gathering => request'[q] = request[q]
  /\ \A q \in Requests, c \in Companies : Leaves(q, c)' => Leaves(q, c)

LEMMA SameIsQuiet == RequestsTyped /\ UNCHANGED request => Quiet
  BY DEF Quiet, Starts, Leaves, Busy

LEMMA LaterIsQuiet ==
  ASSUME RequestsTyped, RequestsTyped', NEW r \in Requests, Later(r)
  PROVE  Quiet
<1>1. \A q \in Requests : q # r => request'[q] = request[q]
  BY DEF Later
<1>2. request'[r].stage # "checked" /\ request'[r].stage \notin Gathering
  BY DEF Later, Gathering
<1>3. \A q \in Requests : q # r => (q \in Busy' <=> q \in Busy)
  BY <1>1 DEF Busy
<1>4. r \in Busy' => request'[r].op \notin Removing
  <2>1. SUFFICES ASSUME r \in Busy' PROVE request'[r].op \notin Removing
    OBVIOUS
  <2>2. request'[r].stage = "mailing"
    BY <2>1 DEF Later, Busy
  <2>3. request'[r] \in Calls
    BY <2>1, <2>2 DEF RequestsTyped, Answered, Ready
  <2>4. Proper(request'[r])
    BY <2>3 DEF RequestsTyped
  <2> QED
    BY <2>2, <2>4 DEF Proper
<1>5. ASSUME NEW q \in Requests, Starts(q)' PROVE Starts(q) /\ request'[q] = request[q]
  <2>1. q # r
    BY <1>2, <1>5 DEF Starts
  <2> QED
    BY <1>1, <1>3, <1>5, <2>1 DEF Starts
<1>6. ASSUME NEW q \in Requests, NEW c \in Companies, Leaves(q, c)' PROVE Leaves(q, c)
  <2>1. q # r
    BY <1>4, <1>6 DEF Leaves
  <2> QED
    BY <1>1, <1>3, <1>6, <2>1 DEF Leaves
<1>7. \A q \in Requests : request'[q].stage \in Gathering => request'[q] = request[q]
  BY <1>1, <1>2
<1> QED
  BY <1>5, <1>6, <1>7 DEF Quiet

LEMMA JoinsStay ==
  ASSUME Typed, Joins, Quiet, crossed \subseteq crossed',
         \A c \in Companies : LiveCompany(c) =>
           LiveCompany(c)' \/ \E q \in Requests : Leaves(q, c)
  PROVE  Joins'
<1> SUFFICES ASSUME NEW r \in Requests, Starts(r)',
                    request'[r].op \in {"createCompany", "createMember"},
                    request'[r].company \notin crossed'
             PROVE  \E c : /\ c = request'[r].company /\ \A q \in Requests : ~Leaves(q, c)'
                           /\ request'[r].op = "createMember" => LiveCompany(c)'
  BY DEF Joins
<1>1. Starts(r) /\ request'[r] = request[r]
  BY DEF Quiet
<1>2. request[r].company \in Companies
  <2>1. Proper(request[r])
    BY <1>1, BusyIs DEF Typed, Starts
  <2> QED
    BY <1>1, <2>1 DEF Proper
<1>3. PICK c \in Companies : c = request[r].company
  BY <1>2
<1>4. /\ \A q \in Requests : ~Leaves(q, c)
      /\ request[r].op = "createMember" => LiveCompany(c)
  BY <1>1, <1>3 DEF Joins
<1>5. \A q \in Requests : ~Leaves(q, c)'
  BY <1>4 DEF Quiet
<1>6. request[r].op = "createMember" => LiveCompany(c)'
  BY <1>4
<1> QED
  BY <1>1, <1>3, <1>5, <1>6

\* Nobody comes; who stays a member, stays in step.
LEMMA EditedRest ==
  ASSUME Typed, Rest, Quiet, crossed \subseteq crossed', UNCHANGED <<used, home>>,
         \A u \in Users : user'[u] # None => user[u] # None /\ user'[u].panel = user[u].panel,
         \A u \in Users : member'[u] # None =>
           /\ member[u] # None /\ member'[u].company = member[u].company
           /\ user'[u] # None /\ company'[member[u].company] # None,
         \A u \in Users : user'[u] # None /\ member'[u] = None =>
           member[u] = None \/ home[u] \in crossed,
         \A u \in Users : LiveMember(u)' => LiveMember(u) \/ LiveCompany(member[u].company)',
         \A c \in Companies : LiveCompany(c) =>
           \/ LiveCompany(c)'
           \/ /\ \E q \in Requests : Leaves(q, c)
              /\ \A u \in Users : LiveMember(u)' => member[u].company # c
  PROVE  Rest'
<1>1. Births'
  BY DEF Rest, Births, Quiet
<1>2. Keys'
  BY DEF Rest, Keys
<1>3. Joins'
  BY JoinsStay DEF Rest
<1>4. Lefts'
  BY DEF Rest, Lefts, Quiet
<1>5. Steady'
  <2> SUFFICES ASSUME NEW u \in Users, LiveMember(u)', member'[u].company \notin crossed'
               PROVE  \E c : c = member'[u].company /\ LiveCompany(c)'
    BY DEF Steady
  <2>1. member[u] # None /\ member'[u].company = member[u].company
    BY DEF LiveMember
  <2>2. PICK c \in Companies : c = member[u].company
    BY <2>1, RowsAreRows DEF Typed, MemberRow
  <2>3. ASSUME LiveMember(u) PROVE LiveCompany(c)'
    <3>1. LiveCompany(c)
      BY <2>1, <2>2, <2>3 DEF Rest, Steady
    <3> QED
      BY <2>2, <3>1
  <2>4. ASSUME LiveCompany(member[u].company)' PROVE LiveCompany(c)'
    BY <2>1, <2>2, <2>4 DEF LiveCompany
  <2> QED
    BY <2>1, <2>2, <2>3, <2>4
<1>6. Orphans'
  BY DEF Rest, Orphans
<1> QED
  BY <1>1, <1>2, <1>3, <1>4, <1>5, <1>6 DEF Rest

\* Steps that leave companies and members as they are.
LEMMA SameRest ==
  ASSUME Typed, Rest, Quiet, crossed \subseteq crossed', UNCHANGED <<company, member, used, home>>,
         \A u \in Users : /\ user'[u] # None <=> user[u] # None
                          /\ user[u] # None => user'[u].panel = user[u].panel
  PROVE  Rest'
<1>1. \A u \in Users : member[u] # None =>
        user[u] # None /\ company[member[u].company] # None
  BY DEF Rest, Keys
<1>2. \A u \in Users : LiveMember(u)' <=> LiveMember(u)
  BY DEF LiveMember
<1>3. \A c \in Companies : LiveCompany(c)' <=> LiveCompany(c)
  BY DEF LiveCompany
<1> QED
  BY <1>1, <1>2, <1>3, EditedRest

LEMMA MembersDropped ==
  ASSUME Typed, Rest, Quiet, UNCHANGED <<company, used, home, crossed>>, UsersEdited, MembersEdited,
         \A v \in Users : member[v] # None =>
           member'[v].deleted = member[v].deleted \/ member'[v].deleted = TRUE
  PROVE  Rest'
<1>1. \A u \in Users : member[u] # None =>
        user[u] # None /\ company[member[u].company] # None
  BY DEF Rest, Keys
<1>2. \A u \in Users : LiveMember(u)' => LiveMember(u)
  BY DEF LiveMember, MembersEdited
<1>3. \A c \in Companies : LiveCompany(c)' <=> LiveCompany(c)
  BY DEF LiveCompany
<1>4. \A u \in Users : user'[u] # None => user[u] # None /\ user'[u].panel = user[u].panel
  BY DEF UsersEdited
<1>5. \A u \in Users : member'[u] # None =>
        /\ member[u] # None /\ member'[u].company = member[u].company
        /\ user'[u] # None /\ company'[member[u].company] # None
  BY <1>1 DEF UsersEdited, MembersEdited
<1>6. \A u \in Users : member'[u] = None => member[u] = None
  BY DEF MembersEdited
<1> QED
  BY <1>2, <1>3, <1>4, <1>5, <1>6, EditedRest

\* A removal that is checked while someone is let in meets it, whichever was first.
LEMMA CheckRest ==
  ASSUME Typed, Rest, NEW r \in Requests, NEW w, NEW refusal \in Answers \cup {None},
         Check(r, refusal, w), Admitted(w, refusal)
  PROVE  Rest'
<1> DEFINE x == IF refusal # None THEN Done(w.op, refusal) ELSE w
<1>1. /\ UNCHANGED <<company, user, member, used, home>> /\ Observe(r, w)
      /\ request' = [request EXCEPT ![r] = x]
  BY DEF Check, Rows
<1>2. Typed' /\ crossed \subseteq crossed'
  BY CheckTyped
<1>3. request'[r] = x /\ \A q \in Requests : q # r => request'[q] = request[q]
  BY <1>1 DEF Typed, RequestsTyped
<1>4. r \notin Busy
  BY DEF Check, Start, Ready, Busy
<1>5. \A q \in Requests : q # r => /\ Starts(q)' <=> Starts(q)
                                   /\ \A c : Leaves(q, c)' <=> Leaves(q, c)
  BY <1>3 DEF Starts, Leaves, Busy
<1>6. r \in Busy' => refusal = None /\ request'[r] = w
  BY <1>3 DEF Busy, Done
<1>7. Proper(w) /\ w.stage = "checked" /\ (w.op \in Creating => w.user \in Fresh)
      /\ (w.op = "createMember" /\ refusal = None => LiveCompany(w.company))
  BY DEF Admitted
<1>8. \A q \in Busy : Crossing(request[q], w) \subseteq crossed'
  BY <1>1, <1>4 DEF Observe
<1>9. \A c : LiveCompany(c)' <=> LiveCompany(c)
  BY <1>1 DEF LiveCompany
<1> HIDE DEF x
<1>10. Births'
  <2>1. ASSUME Starts(r)' PROVE /\ request'[r].user \notin used
                                /\ \A q \in Busy : request[q].user # request'[r].user
    BY <1>6, <1>7, <2>1 DEF Starts, Fresh
  <2>2. \A q \in Requests : q # r /\ Starts(q)' => Starts(q) /\ q \in Busy
    BY <1>5 DEF Starts
  <2> QED
    BY <1>1, <1>3, <2>1, <2>2 DEF Rest, Births
<1>11. Keys' /\ Orphans' /\ Steady'
  BY <1>1, <1>2 DEF Rest, Keys, Orphans, Steady, LiveMember, LiveCompany
<1>12. Lefts'
  <2>1. request'[r].stage \notin Gathering
    BY <1>3, <1>7 DEF x, Done, Gathering
  <2> QED
    BY <1>1, <1>2, <1>3, <2>1 DEF Rest, Lefts
<1>13. Joins'
  <2> SUFFICES ASSUME NEW q \in Requests, Starts(q)',
                      request'[q].op \in {"createCompany", "createMember"},
                      request'[q].company \notin crossed'
               PROVE  \E c : /\ c = request'[q].company /\ \A p \in Requests : ~Leaves(p, c)'
                             /\ request'[q].op = "createMember" => LiveCompany(c)'
    BY DEF Joins
  <2>1. PICK c : c = request'[q].company
    OBVIOUS
  <2>2. request'[q].op \in Adding
    BY DEF Adding
  <2>3. CASE q = r
    <3>1. refusal = None /\ request'[q] = w
      BY <1>6, <2>3 DEF Starts
    <3>2. ASSUME NEW p \in Requests, p # r, Leaves(p, c) PROVE FALSE
      <4>1. p \in Busy /\ request[p].op \in Removing /\ request[p].company = c
        BY <3>2 DEF Leaves
      <4>2. Removes(request[p], w)
        BY <2>1, <3>1, <4>1 DEF Removes, Involved
      <4>3. c \in Crossing(request[p], w)
        BY <2>2, <3>1, <4>1, <4>2 DEF Crossing
      <4> QED
        BY <1>8, <2>1, <4>1, <4>3
    <3>3. ~Leaves(r, c)'
      BY <2>3, <3>1 DEF Leaves, Removing
    <3>4. request'[q].op = "createMember" => LiveCompany(c)
      BY <1>7, <2>1, <3>1
    <3> QED
      BY <1>5, <1>9, <2>1, <3>2, <3>3, <3>4
  <2>4. CASE q # r
    <3>1. Starts(q) /\ request'[q] = request[q] /\ q \in Busy
      BY <1>3, <1>5, <2>4 DEF Starts
    <3>2. c \notin crossed
      BY <1>2, <2>1
    <3>3. /\ \A p \in Requests : ~Leaves(p, c)
          /\ request[q].op = "createMember" => LiveCompany(c)
      BY <2>1, <3>1, <3>2 DEF Rest, Joins
    <3>4. ASSUME Leaves(r, c)' PROVE FALSE
      <4>1. request'[r] = w /\ w.op \in Removing /\ w.company = c
        BY <1>6, <3>4 DEF Leaves
      <4>2. Removes(w, request[q])
        BY <2>1, <3>1, <4>1 DEF Removes, Involved
      <4>3. c \in Crossing(request[q], w)
        BY <2>2, <3>1, <4>1, <4>2 DEF Crossing
      <4> QED
        BY <1>8, <2>1, <3>1, <4>3
    <3> QED
      BY <1>5, <1>9, <2>1, <3>1, <3>3, <3>4
  <2> QED
    BY <2>3, <2>4
<1> QED
  BY <1>10, <1>11, <1>12, <1>13 DEF Rest

LEMMA RestoredRest ==
  ASSUME Typed, Rest, NEW r \in Requests, NEW all \in BOOLEAN, Restored(r, all)
  PROVE  Rest'
<1>1. /\ Typed' /\ crossed \subseteq crossed' /\ UNCHANGED <<user, password, told, used, home>>
      /\ \E x : request' = [request EXCEPT ![r] = x] /\ x.stage = "done"
  BY RestoredTyped
<1>2. PICK c \in Companies : /\ CompanyMarked(c, FALSE)
                             /\ member' = IF all THEN Marked(c, FALSE) ELSE member
  BY RestoredTyped
<1>3. Quiet
  <2>1. Later(r)
    BY <1>1 DEF Later, Typed, RequestsTyped
  <2> QED
    BY <1>1, <2>1, LaterIsQuiet DEF Typed
<1>4. /\ \A b \in Companies : b # c => company'[b] = company[b]
      /\ company'[c] # None <=> company[c] # None
      /\ company[c] # None => company'[c].deleted = FALSE
  BY <1>2, CompanyMarkedTyped DEF Typed
<1>5. \A u \in Users : /\ member'[u] # None <=> member[u] # None
                       /\ member[u] # None =>
                            /\ member'[u].company = member[u].company
                            /\ member'[u].deleted = member[u].deleted \/ member[u].company = c
  <2>1. \A u \in Users :
          /\ Marked(c, FALSE)[u] # None <=> member[u] # None
          /\ member[u] # None =>
               /\ Marked(c, FALSE)[u].company = member[u].company
               /\ Marked(c, FALSE)[u].deleted =
                    IF member[u].company = c THEN FALSE ELSE member[u].deleted
    BY MarkedTyped DEF Typed
  <2>2. CASE member' = Marked(c, FALSE)
    BY <2>1, <2>2
  <2>3. CASE member' = member
    BY <2>3
  <2> QED
    BY <1>2, <2>2, <2>3
<1>6. \A u \in Users : member[u] # None =>
        member[u].company \in Companies /\ user[u] # None /\ company[member[u].company] # None
  BY RowsAreRows DEF Typed, MemberRow, Rest, Keys
<1>7. \A b \in Companies : LiveCompany(b) => LiveCompany(b)'
  BY <1>4 DEF LiveCompany
<1>8. ASSUME NEW u \in Users, LiveMember(u)' PROVE LiveMember(u) \/ LiveCompany(member[u].company)'
  <2>1. member[u] # None /\ ~member'[u].deleted /\ member'[u].company = member[u].company
    BY <1>5, <1>8 DEF LiveMember
  <2>2. CASE member[u].company = c
    BY <1>4, <1>6, <2>1, <2>2 DEF LiveCompany
  <2>3. CASE member[u].company # c
    BY <1>5, <2>1, <2>3 DEF LiveMember
  <2> QED
    BY <2>2, <2>3
<1>9. \A u \in Users : member'[u] # None =>
        /\ member[u] # None /\ member'[u].company = member[u].company
        /\ user'[u] # None /\ company'[member[u].company] # None
  BY <1>1, <1>4, <1>5, <1>6
<1> QED
  BY <1>1, <1>3, <1>5, <1>7, <1>8, <1>9, EditedRest

LEMMA InsertedRest ==
  ASSUME Typed, Rest, NEW r \in Requests, Starts(r), Typed', Inserted(r)
  PROVE  Rest'
<1> DEFINE w == request[r]
<1>1. PICK u \in Users : u = w.user
  <2>1. Proper(w)
    BY BusyIs DEF Typed, Starts
  <2> QED
    BY <2>1, Operations DEF Proper, Starts
<1>2. PICK c : c = w.company
  OBVIOUS
<1>3. /\ Later(r) /\ crossed' = crossed /\ user'[u] # None /\ used' = used \cup {u}
      /\ \A v \in Users \ {u} : user'[v] = user[v] /\ member'[v] = member[v] /\ home'[v] = home[v]
      /\ w.op \in {"createCompany", "createMember"} =>
           /\ member'[u] = [company |-> c, owner |-> (w.op = "createCompany"), deleted |-> FALSE]
           /\ home'[u] = c
      /\ w.op \in {"createUser", "createAgent"} => member' = member /\ user'[u].panel # "company"
      /\ w.op = "createCompany" =>
           /\ company[c] = None
           /\ company' = [company EXCEPT ![c] = [slug |-> w.slug, deleted |-> FALSE]]
      /\ w.op # "createCompany" => company' = company
      /\ w.op = "createMember" => company[c] # None
  BY <1>1, <1>2 DEF Inserted
<1>4. Quiet
  BY <1>3, LaterIsQuiet DEF Typed
<1>5. w.op \in Creating
  BY DEF Starts
<1>6. w.op \in {"createCompany", "createMember"} => c \in Companies
  <2>1. Proper(w)
    BY BusyIs DEF Typed, Starts
  <2> QED
    BY <1>2, <2>1 DEF Proper
<1>7. user[u] = None /\ member[u] = None
  BY <1>1 DEF Rest, Births
<1>8. /\ \A b \in Companies : company[b] # None => company'[b] = company[b]
      /\ w.op = "createCompany" => company'[c] # None /\ ~company'[c].deleted
  <2>1. CASE w.op = "createCompany"
    <3>1. [slug |-> w.slug, deleted |-> FALSE] # None
      <4>1. Proper(w)
        BY BusyIs DEF Typed, Starts
      <4>2. w.slug \in Slugs
        BY <2>1, <4>1 DEF Proper
      <4>3. [slug |-> w.slug, deleted |-> FALSE] \in CompanyRow
        BY <4>2 DEF CompanyRow
      <4> QED
        BY <4>3
    <3> QED
      BY <1>3, <1>6, <2>1, <3>1 DEF Typed, RowsTyped
  <2>2. CASE w.op # "createCompany"
    BY <1>3, <2>2
  <2> QED
    BY <2>1, <2>2
<1>9. Births'
  <2>1. ASSUME NEW q \in Requests, Starts(q)' PROVE /\ Starts(q) /\ request'[q] = request[q]
                                                     /\ request[q].user \notin used'
    <3>1. q # r
      BY <1>3, <2>1 DEF Later, Starts
    <3>2. Starts(q) /\ request'[q] = request[q]
      BY <1>4, <2>1 DEF Quiet
    <3> QED
      BY <1>1, <1>3, <3>1, <3>2 DEF Rest, Births
  <2>2. \A v \in Users : v \notin used' => user'[v] = None /\ member'[v] = None
    BY <1>3 DEF Rest, Births
  <2> QED
    BY <2>1, <2>2 DEF Rest, Births
<1>10. ASSUME NEW v \in Users, member[v] # None, v # u
       PROVE  /\ member[v].company \in Companies /\ member'[v] = member[v] /\ user'[v] # None
              /\ company[member[v].company] # None
              /\ company'[member[v].company] = company[member[v].company]
              /\ home'[v] = member[v].company
  BY <1>3, <1>8, <1>10, RowsAreRows DEF Typed, MemberRow, Rest, Keys
<1>11. Keys'
  <2>1. ASSUME member'[u] # None
        PROVE  user'[u] # None /\ company'[member'[u].company] # None /\ home'[u] = member'[u].company
    <3>1. w.op \in {"createCompany", "createMember"}
      BY <1>3, <1>5, <1>7, <2>1 DEF Creating
    <3>2. member'[u].company = c /\ home'[u] = c /\ user'[u] # None
      BY <1>3, <3>1
    <3>3. company'[c] # None
      BY <1>3, <1>8, <3>1
    <3> QED
      BY <3>2, <3>3
  <2>2. ASSUME NEW v \in Users, v # u, member'[v] # None
        PROVE  user'[v] # None /\ company'[member'[v].company] # None /\ home'[v] = member'[v].company
    <3>1. member[v] # None
      BY <1>3, <2>2
    <3> QED
      BY <1>10, <2>2, <3>1
  <2> QED
    BY <2>1, <2>2 DEF Keys
<1>12. \A b \in Companies : LiveCompany(b) => LiveCompany(b)'
  BY <1>8 DEF LiveCompany
<1>13. Joins'
  BY <1>3, <1>4, <1>12, JoinsStay DEF Rest
<1>14. w.op \in {"createCompany", "createMember"} =>
         \/ c \in crossed
         \/ /\ \A q \in Requests : ~Leaves(q, c)
            /\ w.op = "createMember" => LiveCompany(c)
  BY <1>2 DEF Rest, Joins
<1>15. Lefts'
  <2> SUFFICES ASSUME NEW q \in Requests, request'[q].stage \in Gathering, NEW v \in Users,
                      member'[v] # None, member'[v].company = request'[q].company
               PROVE  v \in request'[q].linked \/ request'[q].company \in crossed'
    BY DEF Lefts
  <2>1. request'[q] = request[q]
    BY <1>4 DEF Quiet
  <2>2. CASE v # u
    BY <1>3, <2>1, <2>2 DEF Rest, Lefts
  <2>3. CASE v = u
    <3>1. w.op \in {"createCompany", "createMember"} /\ request[q].company = c
      BY <1>3, <1>5, <1>7, <2>1, <2>3 DEF Creating
    <3>2. q \in Busy /\ Proper(request[q])
      BY <2>1, BusyIs DEF Typed
    <3>3. Leaves(q, c)
      BY <2>1, <3>1, <3>2 DEF Leaves, Proper, Removing
    <3> QED
      BY <1>3, <1>14, <2>1, <3>1, <3>3
  <2> QED
    BY <2>2, <2>3
<1>16. Steady'
  <2> SUFFICES ASSUME NEW v \in Users, LiveMember(v)', member'[v].company \notin crossed
               PROVE  \E b : b = member'[v].company /\ LiveCompany(b)'
    BY <1>3 DEF Steady
  <2>1. CASE v # u
    <3>1. LiveMember(v) /\ member'[v] = member[v]
      BY <1>3, <2>1 DEF LiveMember
    <3>2. PICK b \in Companies : b = member[v].company
      BY <1>10, <2>1, <3>1 DEF LiveMember
    <3>3. LiveCompany(b)
      BY <3>1, <3>2 DEF Rest, Steady
    <3> QED
      BY <1>12, <3>1, <3>2, <3>3
  <2>2. CASE v = u
    <3>1. w.op \in {"createCompany", "createMember"} /\ member'[v].company = c
      BY <1>3, <1>5, <1>7, <2>2 DEF Creating, LiveMember
    <3>2. CASE w.op = "createCompany"
      BY <1>8, <3>1, <3>2 DEF LiveCompany
    <3>3. CASE w.op = "createMember"
      BY <1>6, <1>12, <1>14, <3>1, <3>3
    <3> QED
      BY <3>1, <3>2, <3>3
  <2> QED
    BY <2>1, <2>2
<1>17. Orphans'
  <2>1. ASSUME user'[u].panel = "company" PROVE member'[u] # None
    <3>1. w.op \in {"createCompany", "createMember"}
      BY <1>3, <1>5, <2>1 DEF Creating
    <3>2. member'[u] = [company |-> c, owner |-> (w.op = "createCompany"), deleted |-> FALSE]
      BY <1>3, <3>1
    <3>3. member'[u] \in MemberRow
      BY <1>6, <3>1, <3>2 DEF MemberRow
    <3> QED
      BY <3>3
  <2>2. \A v \in Users : v # u => /\ user'[v] = user[v] /\ member'[v] = member[v]
                                  /\ home'[v] = home[v]
    BY <1>3
  <2> QED
    BY <1>3, <2>1, <2>2 DEF Rest, Orphans
<1> QED
  BY <1>9, <1>11, <1>13, <1>15, <1>16, <1>17 DEF Rest

LEMMA DropCompanyRest ==
  ASSUME Typed, Rest, NEW r \in Requests, DropCompany(r)
  PROVE  Rest'
<1>1. PICK c \in Companies : c = request[r].company
  BY DropCompanyIs
<1>2. /\ Typed' /\ Later(r) /\ UNCHANGED <<user, used, home, crossed>> /\ Leaves(r, c)
      /\ CompanyMarked(c, TRUE) /\ member' = Marked(c, TRUE)
  BY <1>1, DropCompanyIs DEF EditTail, History, Leaves
<1>3. Quiet
  BY <1>2, LaterIsQuiet DEF Typed
<1>4. /\ \A b \in Companies : b # c => company'[b] = company[b]
      /\ company'[c] # None <=> company[c] # None
  BY <1>2, CompanyMarkedTyped DEF Typed
<1>5. \A u \in Users : /\ member'[u] # None <=> member[u] # None
                       /\ member[u] # None =>
                            /\ member'[u].company = member[u].company
                            /\ member'[u].deleted = IF member[u].company = c THEN TRUE
                                                    ELSE member[u].deleted
  <2>1. TRUE \in BOOLEAN /\ RowsTyped
    BY DEF Typed
  <2>2. \A u \in Users :
          /\ Marked(c, TRUE)[u] # None <=> member[u] # None
          /\ member[u] # None =>
               /\ Marked(c, TRUE)[u].company = member[u].company
               /\ Marked(c, TRUE)[u].deleted =
                    IF member[u].company = c THEN TRUE ELSE member[u].deleted
    BY <2>1, MarkedTyped
  <2> QED
    BY <1>2, <2>2
<1>6. \A u \in Users : member[u] # None =>
        member[u].company \in Companies /\ user[u] # None /\ company[member[u].company] # None
  BY RowsAreRows DEF Typed, MemberRow, Rest, Keys
<1>7. \A b \in Companies : b # c => (LiveCompany(b) => LiveCompany(b)')
  BY <1>4 DEF LiveCompany
<1>8. \A u \in Users : LiveMember(u)' => LiveMember(u) /\ member[u].company # c
  BY <1>5 DEF LiveMember
<1>9. \A u \in Users : member'[u] # None =>
        /\ member[u] # None /\ member'[u].company = member[u].company
        /\ user'[u] # None /\ company'[member[u].company] # None
  BY <1>2, <1>4, <1>5, <1>6
<1>10. \A b \in Companies : LiveCompany(b) =>
         \/ LiveCompany(b)'
         \/ /\ \E q \in Requests : Leaves(q, b)
            /\ \A u \in Users : LiveMember(u)' => member[u].company # b
  BY <1>2, <1>7, <1>8
<1> QED
  BY <1>2, <1>3, <1>5, <1>8, <1>9, <1>10, EditedRest

\* ON DELETE CASCADE takes the members of a company that goes for good.
LEMMA EraseCompanyRest ==
  ASSUME Typed, Rest, NEW r \in Requests, EraseCompany(r)
  PROVE  Rest'
<1>1. PICK c \in Companies : c = request[r].company
  BY EraseCompanyIs
<1>2. PICK gone \in SUBSET Users : gone = request[r].linked
  BY EraseCompanyIs
<1>3. /\ Typed' /\ Later(r) /\ UNCHANGED <<used, home, crossed>> /\ Leaves(r, c)
      /\ Erased(gone, c) /\ company' = [company EXCEPT ![c] = None]
      /\ request[r].stage = "collected"
  BY <1>1, <1>2, EraseCompanyIs DEF History, Leaves
<1>4. Quiet
  BY <1>3, LaterIsQuiet DEF Typed
<1>5. \A u \in Users :
        /\ u \in gone => user'[u] = None /\ member'[u] = None
        /\ u \notin gone =>
             /\ user'[u] # None <=> user[u] # None
             /\ user[u] # None => user'[u].panel = user[u].panel
             /\ member'[u] = IF member[u] # None /\ member[u].company = c THEN None ELSE member[u]
  <2>1. RowsTyped /\ AddressesDiffer /\ HistoryTyped /\ c \in Companies \cup {None}
    BY DEF Typed
  <2>2. Erased(gone, c)
    BY <1>3
  <2>3. \A u \in Users : Erasure(u, gone, c)
    BY <2>1, <2>2, ErasedIs
  <2> QED
    BY <2>3 DEF Erasure
<1>6. \A b \in Companies : b # c => company'[b] = company[b]
  BY <1>3 DEF Typed, RowsTyped
<1>7. \A u \in Users : member[u] # None =>
        /\ member[u].company \in Companies /\ user[u] # None /\ company[member[u].company] # None
        /\ home[u] = member[u].company
  BY RowsAreRows DEF Typed, MemberRow, Rest, Keys
<1>8. \A u \in Users : member'[u] # None =>
        u \notin gone /\ member[u] # None /\ member'[u] = member[u] /\ member[u].company # c
  BY <1>5
<1>9. \A u \in Users : member'[u] # None =>
        /\ member[u] # None /\ member'[u].company = member[u].company
        /\ user'[u] # None /\ company'[member[u].company] # None
  BY <1>5, <1>6, <1>7, <1>8
<1>10. ASSUME NEW u \in Users, user'[u] # None, member'[u] = None, member[u] # None
       PROVE  home[u] \in crossed
  <2>1. u \notin gone /\ member[u].company = c
    BY <1>5, <1>10
  <2>2. c \in crossed
    BY <1>1, <1>2, <1>3, <1>10, <2>1 DEF Rest, Lefts, Gathering
  <2> QED
    BY <1>7, <1>10, <2>1, <2>2
<1>11. \A u \in Users : LiveMember(u)' => LiveMember(u) /\ member[u].company # c
  BY <1>8 DEF LiveMember
<1>12. \A b \in Companies : b # c => (LiveCompany(b) => LiveCompany(b)')
  BY <1>6 DEF LiveCompany
<1>13. \A b \in Companies : LiveCompany(b) =>
         \/ LiveCompany(b)'
         \/ /\ \E q \in Requests : Leaves(q, b)
            /\ \A u \in Users : LiveMember(u)' => member[u].company # b
  BY <1>3, <1>11, <1>12
<1>14. \A u \in Users : user'[u] # None => user[u] # None /\ user'[u].panel = user[u].panel
  BY <1>5
<1> QED
  BY <1>3, <1>4, <1>9, <1>10, <1>11, <1>13, <1>14, EditedRest

LEMMA EraseUserRest ==
  ASSUME Typed, Rest, NEW r \in Requests, EraseUser(r)
  PROVE  Rest'
<1>1. PICK gone \in SUBSET Users : Erased(gone, None)
  BY EraseUserIs
<1>2. Typed' /\ Later(r) /\ UNCHANGED <<company, used, home, crossed>>
  BY EraseUserIs DEF History
<1>3. Quiet
  BY <1>2, LaterIsQuiet DEF Typed
<1>4. \A u \in Users : member[u] # None =>
        /\ member[u].company \in Companies /\ user[u] # None /\ company[member[u].company] # None
  BY RowsAreRows DEF Typed, MemberRow, Rest, Keys
<1>5. \A u \in Users :
        /\ u \in gone => user'[u] = None /\ member'[u] = None
        /\ u \notin gone =>
             /\ user'[u] # None <=> user[u] # None
             /\ user[u] # None => user'[u].panel = user[u].panel
             /\ member'[u] = IF member[u] # None /\ member[u].company = None THEN None ELSE member[u]
  <2>1. \A u \in Users : Erasure(u, gone, None)
    BY <1>1, ErasedIs DEF Typed
  <2> QED
    BY <2>1 DEF Erasure
<1>6. \A u \in Users : u \notin gone => member'[u] = member[u]
  <2>1. None \notin Companies
    BY DEF Companies
  <2> QED
    BY <1>4, <1>5, <2>1
<1>7. \A u \in Users : member'[u] # None =>
        /\ member[u] # None /\ member'[u].company = member[u].company
        /\ user'[u] # None /\ company'[member[u].company] # None
  BY <1>2, <1>4, <1>5, <1>6
<1>8. \A u \in Users : LiveMember(u)' => LiveMember(u)
  BY <1>5, <1>6 DEF LiveMember
<1>9. \A b \in Companies : LiveCompany(b) => LiveCompany(b)'
  BY <1>2 DEF LiveCompany
<1>10. \A u \in Users : user'[u] # None /\ member'[u] = None => member[u] = None
  BY <1>5, <1>6
<1>11. \A u \in Users : user'[u] # None => user[u] # None /\ user'[u].panel = user[u].panel
  BY <1>5
<1> QED
  BY <1>2, <1>3, <1>7, <1>8, <1>9, <1>10, <1>11, EditedRest

LEMMA ReadsRest ==
  ASSUME Typed, Rest, NEW r \in Requests, Reads(r)
  PROVE  Rest'
<1>1. /\ UNCHANGED <<company, user, member, used, home, crossed>>
      /\ r \in Busy /\ request[r].op \in Removing
      /\ \A q \in Requests : q # r => request'[q] = request[q]
      /\ request'[r].op = request[r].op /\ request'[r].company = request[r].company
      /\ request[r].stage \in {"checked"} \cup Gathering /\ request'[r].stage \in Gathering
      /\ \A u \in Users : member[u] # None /\ member[u].company = request[r].company
           => u \in request'[r].linked \/ (request[r].stage # "checked" /\ u \notin request[r].linked)
  BY ReadsKeep DEF Rows, History
<1>2. ASSUME NEW q \in Requests, Starts(q)' PROVE Starts(q) /\ request'[q] = request[q]
  BY <1>1, <1>2 DEF Starts, Busy, Gathering
<1>3. \A q \in Requests, c \in Companies : Leaves(q, c)' => Leaves(q, c)
  BY <1>1 DEF Leaves, Busy
<1>4. \A c : LiveCompany(c)' <=> LiveCompany(c)
  BY <1>1 DEF LiveCompany
<1>5. Births' /\ Keys' /\ Orphans' /\ Steady'
  BY <1>1, <1>2 DEF Rest, Births, Keys, Orphans, Steady, LiveMember, LiveCompany
<1>6. Joins'
  <2> SUFFICES ASSUME NEW q \in Requests, Starts(q)',
                      request'[q].op \in {"createCompany", "createMember"},
                      request'[q].company \notin crossed'
               PROVE  \E c : /\ c = request'[q].company /\ \A p \in Requests : ~Leaves(p, c)'
                             /\ request'[q].op = "createMember" => LiveCompany(c)'
    BY DEF Joins
  <2>1. Starts(q) /\ request'[q] = request[q]
    BY <1>2
  <2>2. Proper(request[q])
    BY <2>1, BusyIs DEF Typed, Starts
  <2>3. PICK c \in Companies : c = request[q].company
    BY <2>1, <2>2 DEF Proper
  <2>4. /\ \A p \in Requests : ~Leaves(p, c)
        /\ request[q].op = "createMember" => LiveCompany(c)
    BY <1>1, <2>1, <2>3 DEF Rest, Joins
  <2> QED
    BY <1>3, <1>4, <2>1, <2>3, <2>4
<1>7. Lefts'
  <2>1. ASSUME NEW u \in Users, member[u] # None, member[u].company = request[r].company
        PROVE  u \in request'[r].linked \/ request[r].company \in crossed
    BY <1>1, <2>1 DEF Rest, Lefts
  <2> QED
    BY <1>1, <2>1 DEF Rest, Lefts
<1> QED
  BY <1>5, <1>6, <1>7 DEF Rest

LEMMA StepRest ==
  ASSUME Typed, Rest, [Next]_vars
  PROVE  Rest'
<1>0. Typed' /\ \A u \in Users : member[u] # None => user[u] # None
  BY StepTyped DEF Rest, Keys
<1>1. ASSUME UNCHANGED <<company, member, request, used, home, crossed>>, UNCHANGED user
      PROVE  Rest'
  <2>1. Quiet
    BY <1>1, SameIsQuiet DEF Typed
  <2> QED
    BY <1>1, <2>1, SameRest
<1>2. ASSUME NEW r \in Requests, Later(r) PROVE Quiet
  BY <1>0, <1>2, LaterIsQuiet DEF Typed
<1>3. CASE UNCHANGED vars
  BY <1>1, <1>3 DEF vars
<1>4. ASSUME NEW u \in Users, ChangePassword(u) PROVE Rest'
  BY <1>1, <1>4, ChangePasswordIs DEF History
<1>5. ASSUME NEW r \in Requests, Begin(r) PROVE Rest'
  <2>1. ASSUME NEW w, NEW refusal \in Answers \cup {None}, Check(r, refusal, w), Admitted(w, refusal)
        PROVE  Rest'
    BY <2>1, CheckRest
  <2>2. ASSUME NEW cs \in SUBSET Users, Resend(r, cs) PROVE Rest'
    <3>1. crossed \subseteq crossed' /\ UNCHANGED <<company, user, member, used, home>>
      BY <2>2, ResendTyped DEF Resend
    <3>2. Later(r)
      BY <2>2, ResendTyped DEF Later, Typed, RequestsTyped
    <3> QED
      BY <1>2, <3>1, <3>2, SameRest
  <2>3. ASSUME NEW all \in BOOLEAN, Restored(r, all) PROVE Rest'
    BY <2>3, RestoredRest
  <2> QED
    BY <1>5, <2>1, <2>2, <2>3, BeginIs DEF Typed
<1>6. ASSUME NEW r \in Requests, Finish(r) PROVE Rest'
  <2>1. ASSUME r \in Busy, Refuse(r) PROVE Rest'
    BY <1>2, <2>1, RefuseTyped, SameRest DEF Rows, History
  <2>2. CASE InsertCompany(r) \/ InsertMember(r) \/ InsertUser(r) \/ InsertAgent(r)
    BY <1>0, <2>1, <2>2, InsertIs, InsertedRest DEF Starts
  <2>3. CASE SaveMember(r) \/ SaveUser(r) \/ SaveAgent(r)
    <3>1. CASE Later(r) /\ UsersEdited /\ UNCHANGED <<company, member, EditTail>>
      BY <1>2, <3>1, SameRest DEF UsersEdited, EditTail, History
    <3> QED
      BY <1>0, <2>1, <2>3, <3>1, SaveIs
  <2>4. CASE DropMember(r) \/ DropMemberAndUser(r)
    <3>1. /\ Later(r) /\ UsersEdited /\ MembersEdited /\ UNCHANGED <<company, EditTail>>
          /\ \A v \in Users : member[v] # None =>
               member'[v].deleted = member[v].deleted \/ member'[v].deleted = TRUE
      BY <2>4, DropIs
    <3> QED
      BY <1>2, <3>1, MembersDropped DEF EditTail, History
  <2>5. CASE Mark(r)
    <3>1. Later(r) /\ UsersEdited /\ UNCHANGED <<company, member, EditTail>>
      BY <2>5, MarkIs
    <3> QED
      BY <1>2, <3>1, SameRest DEF UsersEdited, EditTail, History
  <2>6. CASE DropCompany(r)
    BY <2>6, DropCompanyRest
  <2>7. CASE Reads(r)
    BY <2>7, ReadsRest
  <2>8. CASE EraseCompany(r)
    BY <2>8, EraseCompanyRest
  <2>9. CASE EraseUser(r)
    BY <2>9, EraseUserRest
  <2>10. CASE Deliver(r) \/ Lose(r) \/ Fail(r)
    <3>1. Later(r) /\ UNCHANGED <<company, user, member, used, home, crossed>>
      BY <2>10, EndIs DEF Rows, History
    <3> QED
      BY <1>2, <3>1, SameRest
  <2> QED
    BY <1>6, <2>2, <2>3, <2>4, <2>5, <2>6, <2>7, <2>8, <2>9, <2>10 DEF Finish, Reads
<1> QED
  BY <1>3, <1>4, <1>5, <1>6 DEF Next

----------------------------------------------------------------------------
(* Requests that overlap *)

\* The companies and the address of a user.
Places(u) ==
  IF u = None \/ ~Exists(u) THEN {}
  ELSE {user[u].company} \cup (IF member[u] = None THEN {} ELSE {member[u].company})
Mailbox(u) == IF u = None \/ ~Exists(u) THEN {} ELSE {user[u].email}

\* A request that met nobody is about other things than all others,
Apart ==
  \A q, r \in Requests : q \in Busy /\ r \in Busy /\ q # r /\ r \notin contested =>
    ~SameThing(request[q], request[r])

\* so what its checks found is true until it writes.
Reliable ==
  \A r \in Requests : r \in Busy /\ r \notin contested /\ request[r].stage = "checked" =>
    Sound(request[r])

\* Who is let into a company that is being removed has met the removal.
Met ==
  \A q, r \in Requests :
    /\ q \in Busy /\ r \in Busy /\ q # r /\ request[r].op \in Adding
    /\ Removes(request[q], request[r])
    => request[q].company \in crossed

\* Whom a removal has found is of its company still, unless he was moved meanwhile,
Linked ==
  \A r \in Requests : r \in Busy =>
    \A u \in request[r].linked :
      /\ u \in used /\ request[r].op \in Removing
      /\ Exists(u) => request[r].company \in crossed \cup Places(u)

\* and once it has read all it has found all that are, unless one came meanwhile.
Swept ==
  \A r \in Requests : request[r].stage \in Gathered =>
    \A u \in Users : request[r].company \in Places(u) =>
      u \in request[r].linked \/ request[r].company \in crossed

\* A user is of a company by its own row, in the app, or by that of its member.
Panel ==
  /\ \A u \in Users : member[u] # None => user[u].panel = "company" /\ user[u].company = None
  /\ \A r \in Requests : r \in Busy /\ request[r].op = "updateAgent" =>
       request[r].user \in used /\ member[request[r].user] = None

Overlap == Apart /\ Reliable /\ Met /\ Linked /\ Swept /\ Panel /\ FailuresExplained

LEMMA AboutIs ==
  \A w : /\ Involved(w) = {w.company} \cup Places(w.user)
         /\ Addresses(w) = {w.email} \cup Mailbox(w.user)
  BY DEF Involved, Addresses, Places, Mailbox

LEMMA AboutIsNext ==
  \A w : /\ Involved(w)' = {w.company} \cup Places(w.user)'
         /\ Addresses(w)' = {w.email} \cup Mailbox(w.user)'
  BY DEF Involved, Addresses, Places, Mailbox

\* Two works that differ in their stages only.
SameWork(v, w) ==
  /\ v.op = w.op /\ v.company = w.company /\ v.user = w.user /\ v.email = w.email
  /\ v.slug = w.slug /\ v.linked = w.linked

LEMMA SameWorkIs ==
  ASSUME NEW v, NEW w, SameWork(v, w)
  PROVE  /\ Involved(v) = Involved(w) /\ Addresses(v) = Addresses(w)
         /\ \A x : /\ SameThing(x, v) <=> SameThing(x, w)
                   /\ SameThing(v, x) <=> SameThing(w, x)
                   /\ Removes(x, v) <=> Removes(x, w)
                   /\ Removes(v, x) <=> Removes(w, x)
<1>1. Involved(v) = Involved(w) /\ Addresses(v) = Addresses(w)
  BY AboutIs DEF SameWork
<1>2. \A x : /\ Removes(x, v) <=> Removes(x, w)
             /\ Removes(v, x) <=> Removes(w, x)
  BY <1>1 DEF SameWork, Removes
<1>3. \A x : /\ SameThing(x, v) <=> SameThing(x, w)
             /\ SameThing(v, x) <=> SameThing(w, x)
  BY <1>1, <1>2 DEF SameWork, SameThing
<1> QED
  BY <1>1, <1>2, <1>3

LEMMA SameThingIsMutual == \A v, w : SameThing(v, w) <=> SameThing(w, v)
<1> SUFFICES ASSUME NEW v, NEW w PROVE SameThing(v, w) => SameThing(w, v)
  OBVIOUS
<1> QED
  BY DEF SameThing

----------------------------------------------------------------------------
(* Requests that begin *)

\* The rows a beginning leaves: passwords and what is deleted may change.
Still ==
  /\ UNCHANGED <<user, used>>
  /\ \A u \in Users : /\ member'[u] # None <=> member[u] # None
                      /\ member[u] # None => member'[u].company = member[u].company
  /\ \A c \in Companies : /\ company'[c] # None <=> company[c] # None
                          /\ company[c] # None => company'[c].slug = company[c].slug

LEMMA StillPlaces ==
  ASSUME Still, NEW u \in Users \cup {None}
  PROVE  Places(u)' = Places(u) /\ Mailbox(u)' = Mailbox(u)
  BY DEF Still, Places, Mailbox, Exists

LEMMA StillAbout ==
  ASSUME Still, NEW v, v.user \in Users \cup {None}
  PROVE  Involved(v)' = Involved(v) /\ Addresses(v)' = Addresses(v)
  BY StillPlaces, AboutIs, AboutIsNext

LEMMA StillThing ==
  ASSUME Still, NEW v, v.user \in Users \cup {None}, NEW w, w.user \in Users \cup {None}
  PROVE  /\ SameThing(v, w)' <=> SameThing(v, w)
         /\ Removes(v, w)' <=> Removes(v, w)
<1>1. /\ Involved(v)' = Involved(v) /\ Addresses(v)' = Addresses(v)
      /\ Involved(w)' = Involved(w) /\ Addresses(w)' = Addresses(w)
  BY StillAbout
<1> QED
  BY <1>1 DEF SameThing, Removes

LEMMA StillSound ==
  ASSUME Still, NEW w, Proper(w), Sound(w)
  PROVE  Sound(w)'
<1>1. \A e : HeldBy(e)' = HeldBy(e) /\ LiveHolders(e)' = LiveHolders(e)
  BY DEF Still, HeldBy, LiveHolders, Exists
<1>2. \A u : Exists(u)' <=> Exists(u)
  BY DEF Still, Exists
<1>3. \A s : SlugFree(s)' <=> SlugFree(s)
  BY DEF Still, SlugFree
<1>4. w.company # None => w.company \in Companies
  BY DEF Proper, Calls
<1>5. w.op = "createCompany" => w.company \in Companies
  BY DEF Proper
<1> QED
  BY <1>1, <1>2, <1>3, <1>4, <1>5 DEF Still, Sound

\* A request is refused at once, or is under way and has met its rivals.
Opens(r) ==
  /\ r \notin Busy /\ \A q \in Requests : q # r => request'[q] = request[q]
  /\ Still /\ contested \subseteq contested' /\ crossed \subseteq crossed'
  /\ \/ request'[r].stage = "done" /\ request'[r].answer \notin {"failed", "held"}
     \/ \E w : /\ Observe(r, w) /\ Proper(w) /\ w.linked = {} /\ SameWork(request'[r], w)
               /\ request'[r].stage \in {"checked", "mailing"}
               /\ request'[r].stage = "checked" => Sound(w)
               /\ w.op = "updateAgent" => AnyUser(w.user, "app")

LEMMA ContestedGrows ==
  ASSUME NEW r, NEW w, Observe(r, w)
  PROVE  contested \subseteq contested' /\ crossed \subseteq crossed'
  BY DEF Observe

LEMMA StartsIdle == \A r \in Requests : Start(r) => r \notin Busy
  BY DEF Start, Busy, Ready

LEMMA CheckOpens ==
  ASSUME Typed, NEW r \in Requests, NEW w, NEW refusal \in Answers \cup {None},
         Check(r, refusal, w), Admitted(w, refusal)
  PROVE  Opens(r)
<1>1. r \notin Busy /\ UNCHANGED <<company, user, member, used>> /\ Observe(r, w)
  BY DEF Check, Start, Busy, Ready, Rows
<1>2. /\ request'[r] = IF refusal # None THEN Done(w.op, refusal) ELSE w
      /\ \A q \in Requests : q # r => request'[q] = request[q]
  BY DEF Check, Typed, RequestsTyped
<1>3. Still
  BY <1>1 DEF Still
<1>4. contested \subseteq contested' /\ crossed \subseteq crossed'
  BY <1>1, ContestedGrows
<1>5. CASE refusal # None
  BY <1>1, <1>2, <1>3, <1>4, <1>5 DEF Opens, Done, Admitted
<1>6. CASE refusal = None
  <2>1. request'[r] = w
    BY <1>2, <1>6
  <2>2. SameWork(request'[r], w)
    BY <2>1 DEF SameWork
  <2> QED
    BY <1>1, <1>2, <1>3, <1>4, <1>6, <2>1, <2>2 DEF Opens, Admitted
<1> QED
  BY <1>5, <1>6

LEMMA ResendOpens ==
  ASSUME Typed, NEW r \in Requests, NEW candidates \in SUBSET Users, Resend(r, candidates)
  PROVE  Opens(r)
<1>1. r \notin Busy /\ UNCHANGED <<company, user, member, used>>
  BY StartsIdle DEF Resend
<1>2. Still
  BY <1>1 DEF Still
<1>3. CASE candidates = {}
  <2>1. /\ request' = [request EXCEPT ![r] = Done("resendCredentials", "not found")]
        /\ contested' = contested /\ crossed' = crossed
    BY <1>3 DEF Resend, History
  <2>2. /\ request'[r] = Done("resendCredentials", "not found")
        /\ \A q \in Requests : q # r => request'[q] = request[q]
    BY <2>1 DEF Typed, RequestsTyped
  <2>3. request'[r].stage = "done" /\ request'[r].answer \notin {"failed", "held"}
    <3>1. PICK x : x = Done("resendCredentials", "not found")
      OBVIOUS
    <3>2. x.stage = "done" /\ x.answer = "not found"
      BY <3>1 DEF Done
    <3>3. request'[r] = x
      BY <2>2, <3>1
    <3> QED
      BY <3>2, <3>3
  <2>4. contested \subseteq contested' /\ crossed \subseteq crossed'
    BY <2>1
  <2> QED
    BY <1>1, <1>2, <2>2, <2>3, <2>4 DEF Opens
<1>4. CASE candidates # {}
  <2>1. PICK u \in candidates :
          LET w == Work("resendCredentials", None, u, None, None) IN
            /\ request' = [request EXCEPT ![r] = [w EXCEPT !.stage = "mailing"]]
            /\ Observe(r, w)
    BY <1>4 DEF Resend
  <2> DEFINE w == Work("resendCredentials", None, u, None, None)
             x == [w EXCEPT !.stage = "mailing"]
  <2>2. u \in Users /\ "resendCredentials" \in Ops /\ "resendCredentials" \notin Removing \cup Addressed
        /\ "resendCredentials" \notin Removing \cup {"createCompany", "createMember"}
    BY Operations DEF Addressed, Creating
  <2>3. Proper(w) /\ w.linked = {} /\ w.op = "resendCredentials"
    BY <2>2 DEF Work, Proper, Calls, Gathering
  <2>4. SameWork(x, w) /\ x.stage = "mailing"
    BY DEF SameWork, Work
  <2> HIDE DEF w
  <2>5. request'[r] = x /\ (\A q \in Requests : q # r => request'[q] = request[q]) /\ Observe(r, w)
    BY <2>1 DEF Typed, RequestsTyped, w
  <2> HIDE DEF x
  <2>6. contested \subseteq contested' /\ crossed \subseteq crossed'
    BY <2>5, ContestedGrows
  <2> QED
    BY <1>1, <1>2, <2>3, <2>4, <2>5, <2>6 DEF Opens
<1> QED
  BY <1>3, <1>4

LEMMA RestoredOpens ==
  ASSUME Typed, NEW r \in Requests, NEW all \in BOOLEAN, Restored(r, all)
  PROVE  Opens(r)
<1>1. PICK c \in Companies :
        /\ request' = [request EXCEPT ![r] =
                         Done("restoreCompany", IF company[c] = None THEN "not found" ELSE "ok")]
        /\ CompanyMarked(c, FALSE)
        /\ member' = IF all THEN Marked(c, FALSE) ELSE member
        /\ Observe(r, Work("restoreCompany", c, None, None, None))
        /\ UNCHANGED <<user, used>> /\ Start(r)
  BY DEF Restored, CompanyMarked
<1>2. r \notin Busy
  BY <1>1, StartsIdle
<1>3. /\ request'[r].stage = "done" /\ request'[r].answer \notin {"failed", "held"}
      /\ \A q \in Requests : q # r => request'[q] = request[q]
  BY <1>1 DEF Typed, RequestsTyped, Done
<1>4. Still
  <2>1. \A u \in Users : /\ member'[u] # None <=> member[u] # None
                         /\ member[u] # None => member'[u].company = member[u].company
    <3>1. RowsTyped /\ FALSE \in BOOLEAN
      BY DEF Typed
    <3>2. \A u \in Users :
            /\ Marked(c, FALSE)[u] # None <=> member[u] # None
            /\ member[u] # None => Marked(c, FALSE)[u].company = member[u].company
      BY <3>1, MarkedTyped
    <3> QED
      BY <1>1, <3>2
  <2>2. ASSUME NEW b \in Companies
        PROVE  /\ company'[b] # None <=> company[b] # None
               /\ company[b] # None => company'[b].slug = company[b].slug
    <3>1. \A x \in CompanyRow : /\ [x EXCEPT !.deleted = FALSE] \in CompanyRow
                                 /\ [x EXCEPT !.deleted = FALSE].slug = x.slug
      BY DEF CompanyRow
    <3>2. company[c] \in CompanyRow \cup {None} /\ company[b] \in CompanyRow \cup {None}
      BY DEF Typed, RowsTyped
    <3>3. company'[b] = IF company[c] # None /\ b = c
                        THEN [company[c] EXCEPT !.deleted = FALSE] ELSE company[b]
      BY <1>1 DEF Typed, RowsTyped, CompanyMarked
    <3> QED
      BY <3>1, <3>2, <3>3
  <2> QED
    BY <1>1, <2>1, <2>2 DEF Still
<1>5. contested \subseteq contested' /\ crossed \subseteq crossed'
  BY <1>1, ContestedGrows
<1> QED
  BY <1>2, <1>3, <1>4, <1>5 DEF Opens

LEMMA BeginOpens ==
  ASSUME Typed, NEW r \in Requests, Begin(r)
  PROVE  Opens(r)
  BY BeginIs, CheckOpens, ResendOpens, RestoredOpens DEF Typed

----------------------------------------------------------------------------
(* Requests that write *)

\* A statement of work w lets nobody in but its own user, to what it is about,
Reach(w) ==
  \A u \in Users :
    /\ Places(u)' \subseteq Places(u) \cup {None}
                      \cup (IF u = w.user /\ w.op \in Adding THEN {w.company} ELSE {})
    /\ Mailbox(u)' \subseteq Mailbox(u) \cup (IF u = w.user THEN {w.email} ELSE {})
    /\ Exists(u)' /\ ~user'[u].deleted =>
         \/ Exists(u) /\ ~user[u].deleted /\ user'[u].email = user[u].email
         \/ user'[u].email \in Addresses(w)

\* removes nobody but its user or whom it has found, takes nobody out of a company but its
\* own user or whom it has not found, and removes no company but its own,
Losses(w) ==
  /\ \A u \in Users : Exists(u) =>
       \/ ~Exists(u)' /\ (u = w.user \/ (w.op \in Removing /\ u \in w.linked))
       \/ /\ Exists(u)'
          /\ \A c \in Places(u) \ {None} :
               \/ c \in Places(u)' \/ (u = w.user /\ w.op = "updateAgent")
               \/ w.stage = "collected" /\ c = w.company /\ u \notin w.linked
  /\ \A c \in Companies : company[c] # None /\ company'[c] = None =>
       w.op \in Removing /\ w.company = c

\* and makes no row for an id that had one.
Gains(w) ==
  /\ \A u \in Users : Exists(u)' => Exists(u) \/ u \notin used
  /\ \A u \in Users : member'[u] # None =>
       /\ user'[u].panel = "company" /\ user'[u].company = None
       /\ member[u] # None \/ u \notin used
  /\ \A c \in Companies : company'[c] # None =>
       w.op = "createCompany" \/ (company[c] # None /\ company'[c].slug = company[c].slug)

Writes(w) == Reach(w) /\ Losses(w) /\ Gains(w)

\* Only what is deleted changes; of what comes back, work w is about the address.
Flagged(w) ==
  /\ \A u \in Users :
       /\ user'[u] # None <=> user[u] # None
       /\ user[u] # None =>
            /\ user'[u].email = user[u].email /\ user'[u].company = user[u].company
            /\ user'[u].panel = user[u].panel
            /\ user'[u].deleted = user[u].deleted \/ user'[u].deleted = TRUE \/ u = w.user
       /\ member'[u] # None <=> member[u] # None
       /\ member[u] # None => member'[u].company = member[u].company
  /\ \A c \in Companies : /\ company'[c] # None <=> company[c] # None
                          /\ company[c] # None => company'[c].slug = company[c].slug

LEMMA FlaggedWrites ==
  ASSUME Rest, Panel, NEW w, Flagged(w)
  PROVE  Writes(w)
<1>1. \A u \in Users : Places(u)' = Places(u) /\ Mailbox(u)' = Mailbox(u)
  BY DEF Flagged, Places, Mailbox, Exists
<1>2. ASSUME NEW u \in Users, Exists(u)', ~user'[u].deleted
      PROVE  \/ Exists(u) /\ ~user[u].deleted /\ user'[u].email = user[u].email
             \/ user'[u].email \in Addresses(w)
  <2>1. Exists(u) /\ user'[u].email = user[u].email
    BY <1>2 DEF Flagged, Exists
  <2>2. CASE user'[u].deleted = user[u].deleted
    BY <1>2, <2>1, <2>2
  <2>3. CASE u = w.user
    <3>1. user[u].email \in Mailbox(u)
      BY <2>1 DEF Mailbox
    <3> QED
      BY <2>1, <2>3, <3>1, AboutIs
  <2> QED
    BY <1>2, <2>1, <2>2, <2>3 DEF Flagged, Exists
<1>3. Reach(w)
  BY <1>1, <1>2 DEF Reach
<1>4. Losses(w)
  BY <1>1 DEF Flagged, Losses, Exists
<1>5. Gains(w)
  <2>1. \A u \in Users : member[u] # None => user[u] # None
    BY DEF Rest, Keys
  <2> QED
    BY <2>1 DEF Flagged, Gains, Exists, Panel
<1> QED
  BY <1>3, <1>4, <1>5 DEF Writes

LEMMA SameWrites ==
  ASSUME Rest, Panel, NEW w, UNCHANGED <<company, user, member>>
  PROVE  Writes(w)
<1>1. Flagged(w)
  BY DEF Flagged
<1> QED
  BY <1>1, FlaggedWrites

\* A row of user that an update wrote.
LEMMA SavedWrites ==
  ASSUME Typed, Rest, Panel, NEW w, w.user \in Users, user[w.user] # None, w.email # None,
         NEW x, x # None, user' = [user EXCEPT ![w.user] = x], UNCHANGED <<company, member>>,
         x.email = w.email, x.panel = user[w.user].panel,
         \/ x.company = user[w.user].company
         \/ w.op = "updateAgent" /\ x.company = w.company /\ member[w.user] = None
  PROVE  Writes(w)
<1>1. PICK m \in Users : m = w.user
  OBVIOUS
<1>2. user'[m] = x /\ \A u \in Users : u # m => user'[u] = user[u]
  BY <1>1 DEF Typed, RowsTyped
<1>3. \A u \in Users : u # m => /\ Places(u)' = Places(u) /\ Mailbox(u)' = Mailbox(u)
                                /\ Exists(u)' <=> Exists(u)
  BY <1>2 DEF Places, Mailbox, Exists
<1>4. Exists(m) /\ Exists(m)' /\ Mailbox(m)' = {w.email}
  BY <1>1, <1>2 DEF Mailbox, Exists
<1>5. CASE x.company = user[m].company
  <2>1. Places(m)' = Places(m)
    BY <1>2, <1>4, <1>5 DEF Places
  <2>2. Reach(w)
    BY <1>1, <1>2, <1>3, <1>4, <2>1, AboutIs DEF Reach
  <2>3. Losses(w)
    BY <1>1, <1>3, <1>4, <2>1 DEF Losses
  <2>4. Gains(w)
    BY <1>1, <1>2, <1>3, <1>4, <1>5 DEF Gains, Panel
  <2> QED
    BY <2>2, <2>3, <2>4 DEF Writes
<1>6. CASE w.op = "updateAgent" /\ x.company = w.company /\ member[m] = None
  <2>1. Places(m)' = {w.company} /\ w.op \in Adding
    BY <1>2, <1>4, <1>6 DEF Places, Adding
  <2>2. Reach(w)
    BY <1>1, <1>2, <1>3, <1>4, <2>1, AboutIs DEF Reach
  <2>3. Losses(w)
    BY <1>1, <1>3, <1>4, <1>6 DEF Losses
  <2>4. Gains(w)
    BY <1>1, <1>2, <1>3, <1>4, <1>6 DEF Gains, Panel
  <2> QED
    BY <2>2, <2>3, <2>4 DEF Writes
<1> QED
  BY <1>1, <1>5, <1>6

\* The rows of an insertion.
LEMMA InsertedWrites ==
  ASSUME Typed, Rest, Panel, NEW w, Proper(w), w.op \in Creating, w.user \notin used,
         NEW panel \in Panels, NEW c,
         NewUser(w.user, panel, w.email, c),
         \/ c = None
         \/ c = w.company /\ w.op = "createAgent",
         \/ UNCHANGED member
         \/ /\ w.op \in {"createCompany", "createMember"} /\ panel = "company" /\ c = None
            /\ \E o \in BOOLEAN :
                 member' = [member EXCEPT ![w.user] =
                              [company |-> w.company, owner |-> o, deleted |-> FALSE]],
         \/ UNCHANGED company
         \/ /\ w.op = "createCompany" /\ company[w.company] = None
            /\ \E x \in CompanyRow : company' = [company EXCEPT ![w.company] = x]
  PROVE  Writes(w)
<1>0. w.user \in Users /\ w.email \in Emails
  BY Operations DEF Proper, Addressed
<1>1. PICK m \in Users : m = w.user
  BY <1>0
<1>2. user[m] = None /\ member[m] = None
  BY <1>1 DEF Rest, Births
<1>3. PICK x : x = [panel |-> panel, email |-> w.email, company |-> c, deleted |-> FALSE]
  OBVIOUS
<1>4. /\ x.panel = panel /\ x.email = w.email /\ x.company = c
      /\ user' = [user EXCEPT ![m] = x]
  BY <1>1, <1>3 DEF NewUser
<1>5. x # None
  <2>1. c \in Companies \cup {None}
    BY DEF Proper, Calls
  <2>2. x \in UserRow
    BY <1>0, <1>3, <2>1 DEF UserRow
  <2> QED
    BY <2>2
<1>6. user'[m] = x /\ \A u \in Users : u # m => user'[u] = user[u]
  BY <1>4 DEF Typed, RowsTyped
<1>7. \A u \in Users : u # m => member'[u] = member[u]
  BY <1>1 DEF Typed, RowsTyped
<1>8. \A u \in Users : u # m => /\ Places(u)' = Places(u) /\ Mailbox(u)' = Mailbox(u)
                                /\ Exists(u)' <=> Exists(u)
  BY <1>6, <1>7 DEF Places, Mailbox, Exists
<1>9. ~Exists(m) /\ Exists(m)' /\ Mailbox(m)' = {w.email}
  BY <1>2, <1>4, <1>5, <1>6 DEF Exists, Mailbox
<1>10. \/ member'[m] = None
       \/ /\ w.op \in {"createCompany", "createMember"} /\ panel = "company" /\ c = None
          /\ member'[m].company = w.company
  <2>1. CASE UNCHANGED member
    BY <1>2, <2>1
  <2>2. ASSUME NEW o \in BOOLEAN,
               member' = [member EXCEPT ![w.user] =
                            [company |-> w.company, owner |-> o, deleted |-> FALSE]]
        PROVE  member'[m].company = w.company
    BY <1>1, <2>2 DEF Typed, RowsTyped
  <2> QED
    BY <2>1, <2>2
<1>11. Places(m)' \subseteq {None} \cup (IF w.op \in Adding THEN {w.company} ELSE {})
  <2>1. Places(m)' = {c} \cup (IF member'[m] = None THEN {} ELSE {member'[m].company})
    BY <1>4, <1>6, <1>9 DEF Places
  <2> QED
    BY <1>10, <2>1 DEF Adding
<1>12. Reach(w)
  <2>1. ASSUME NEW u \in Users
        PROVE  /\ Places(u)' \subseteq Places(u) \cup {None}
                      \cup (IF u = w.user /\ w.op \in Adding THEN {w.company} ELSE {})
               /\ Mailbox(u)' \subseteq Mailbox(u) \cup (IF u = w.user THEN {w.email} ELSE {})
               /\ Exists(u)' /\ ~user'[u].deleted =>
                    \/ Exists(u) /\ ~user[u].deleted /\ user'[u].email = user[u].email
                    \/ user'[u].email \in Addresses(w)
    <3>1. CASE u = m
      BY <1>1, <1>4, <1>6, <1>9, <1>11, <3>1, AboutIs
    <3>2. CASE u # m
      BY <1>6, <1>8, <3>2
    <3> QED
      BY <3>1, <3>2
  <2> QED
    BY <2>1 DEF Reach
<1>13. \A b \in Companies : company'[b] # None =>
         w.op = "createCompany" \/ (company[b] # None /\ company'[b].slug = company[b].slug)
  OBVIOUS
<1>14. \A b \in Companies : company[b] # None => company'[b] # None
  BY DEF Typed, RowsTyped
<1>15. Losses(w)
  BY <1>8, <1>9, <1>14 DEF Losses
<1>16. Gains(w)
  <2>1. \A u \in Users : Exists(u)' => Exists(u) \/ u \notin used
    BY <1>1, <1>8
  <2>2. ASSUME NEW u \in Users, member'[u] # None
        PROVE  /\ user'[u].panel = "company" /\ user'[u].company = None
               /\ member[u] # None \/ u \notin used
    <3>1. CASE u = m
      BY <1>1, <1>4, <1>6, <1>10, <2>2, <3>1
    <3>2. CASE u # m
      BY <1>6, <1>7, <2>2, <3>2 DEF Panel
    <3> QED
      BY <3>1, <3>2
  <2> QED
    BY <1>13, <2>1, <2>2 DEF Gains
<1> QED
  BY <1>12, <1>15, <1>16 DEF Writes

\* ON DELETE.
LEMMA ErasedWrites ==
  ASSUME Typed, Rest, Panel, NEW w, NEW gone \in SUBSET Users, NEW c \in Companies \cup {None},
         Erased(gone, c),
         \A u \in gone : u = w.user \/ (w.op \in Removing /\ u \in w.linked),
         \/ c = None /\ UNCHANGED company
         \/ /\ w.op \in Removing /\ w.stage = "collected" /\ c = w.company /\ gone = w.linked
            /\ company' = [company EXCEPT ![c] = None]
  PROVE  Writes(w)
<1>0. None \notin Companies
  BY DEF Companies
<1>1. \A u \in Users :
        member'[u] = IF member[u] # None /\ (u \in gone \/ member[u].company = c) THEN None
                     ELSE member[u]
  BY DEF Erased
<1>2. ASSUME NEW u \in Users, Exists(u)'
      PROVE  /\ u \notin gone /\ Exists(u)
             /\ user'[u].email = user[u].email /\ user'[u].deleted = user[u].deleted
             /\ user'[u].panel = user[u].panel
             /\ user'[u].company = IF c # None /\ user[u].company = c THEN None
                                   ELSE user[u].company
  <2>1. user'[u] = IF u \in gone THEN None
                   ELSE IF c # None /\ Exists(u) /\ user[u].company = c
                        THEN [user[u] EXCEPT !.company = None] ELSE user[u]
    BY DEF Erased
  <2>2. user'[u] # None /\ u \notin gone
    BY <1>2, <2>1 DEF Exists
  <2>3. user[u] \in UserRow \cup {None} /\ \A x \in UserRow :
          /\ [x EXCEPT !.company = None].email = x.email
          /\ [x EXCEPT !.company = None].deleted = x.deleted
          /\ [x EXCEPT !.company = None].panel = x.panel
          /\ [x EXCEPT !.company = None].company = None
    BY DEF Typed, RowsTyped, UserRow
  <2>4. CASE c # None /\ Exists(u) /\ user[u].company = c
    BY <2>1, <2>2, <2>3, <2>4 DEF Exists
  <2>5. CASE ~(c # None /\ Exists(u) /\ user[u].company = c)
    BY <2>1, <2>2, <2>5 DEF Exists
  <2> QED
    BY <2>4, <2>5
<1>3. \A u \in Users : Exists(u) /\ u \notin gone => Exists(u)'
  <2>1. \A u \in Users : Erasure(u, gone, c)
    BY ErasedIs DEF Typed
  <2> QED
    BY <2>1 DEF Erasure, Exists
<1>4. ASSUME NEW u \in Users, Exists(u)'
      PROVE  /\ Places(u)' \subseteq Places(u) \cup {None}
             /\ \A b \in Places(u) \ {None} : b \in Places(u)' \/ b = c
             /\ Mailbox(u)' = Mailbox(u)
  <2>1. /\ Places(u) = {user[u].company}
                         \cup (IF member[u] = None THEN {} ELSE {member[u].company})
        /\ Places(u)' = {user'[u].company}
                         \cup (IF member'[u] = None THEN {} ELSE {member'[u].company})
    BY <1>2, <1>4 DEF Places
  <2>2. Mailbox(u)' = Mailbox(u)
    BY <1>2, <1>4 DEF Mailbox
  <2>3. u \notin gone /\ (user'[u].company = IF c # None /\ user[u].company = c THEN None
                                             ELSE user[u].company)
    BY <1>2, <1>4
  <2>4. member'[u] = IF member[u] # None /\ member[u].company = c THEN None ELSE member[u]
    BY <1>1, <2>3
  <2> QED
    BY <2>1, <2>2, <2>3, <2>4
<1>5. \A u \in Users : ~Exists(u)' => Places(u)' = {} /\ Mailbox(u)' = {}
  BY DEF Places, Mailbox
<1>6. Reach(w)
  BY <1>2, <1>4, <1>5 DEF Reach
<1>7. ASSUME NEW u \in Users, Exists(u)
      PROVE  \/ ~Exists(u)' /\ (u = w.user \/ (w.op \in Removing /\ u \in w.linked))
             \/ /\ Exists(u)'
                /\ \A b \in Places(u) \ {None} :
                     \/ b \in Places(u)'
                     \/ w.stage = "collected" /\ b = w.company /\ u \notin w.linked
  <2>1. CASE u \in gone
    <3>1. ~Exists(u)'
      BY <1>2, <2>1
    <3> QED
      BY <2>1, <3>1
  <2>2. CASE u \notin gone
    BY <1>3, <1>4, <1>7, <2>2
  <2> QED
    BY <2>1, <2>2
<1>8. \A b \in Companies : company[b] # None /\ company'[b] = None =>
        w.op \in Removing /\ w.company = b
  BY DEF Typed, RowsTyped
<1>9. Losses(w)
  BY <1>7, <1>8 DEF Losses
<1>10. Gains(w)
  <2>1. \A u \in Users : member'[u] # None =>
          /\ member[u] # None /\ Exists(u)' /\ user[u].company = None /\ user[u].panel = "company"
    <3>1. \A u \in Users : member[u] # None => Exists(u)
      BY DEF Rest, Keys, Exists
    <3> QED
      BY <1>1, <1>3, <3>1 DEF Panel
  <2>2. \A u \in Users : member'[u] # None =>
          /\ user'[u].panel = "company" /\ user'[u].company = None
          /\ member[u] # None \/ u \notin used
    BY <1>2, <2>1
  <2>3. \A b \in Companies : company'[b] # None => company'[b] = company[b]
    BY DEF Typed, RowsTyped
  <2> QED
    BY <1>2, <2>2, <2>3 DEF Gains
<1> QED
  BY <1>6, <1>9, <1>10 DEF Writes

\* What a read of a removal for good adds to whom it has found: users of its company, and
\* in the end all of them, unless one came meanwhile.
Finds(x, y) ==
  /\ x.op \in Removing /\ y.stage \in Gathering
  /\ \A u \in Users : u \in y.linked => u \in x.linked \/ x.company \in Places(u)
  /\ y.stage \in Gathered => \A u \in Users : x.company \in Places(u) =>
       u \in y.linked \/ x.company \in crossed

\* A statement of a request under way; then it is answered, mails, or reads on.
Moves(r) ==
  LET w == request[r] IN
  /\ r \in Busy /\ \A q \in Requests : q # r => request'[q] = request[q]
  /\ UNCHANGED <<contested, crossed>> /\ used \subseteq used' /\ Writes(w)
  /\ \/ request'[r].stage = "done"
     \/ request'[r].stage = "mailing" /\ SameWork(request'[r], w)
     \/ /\ Finds(w, request'[r])
        /\ request'[r].op = w.op /\ request'[r].company = w.company
        /\ request'[r].user = w.user /\ request'[r].email = w.email

LEMMA AnswerEnds ==
  ASSUME RequestsTyped, NEW r \in Requests, NEW a, Answer(r, a)
  PROVE  /\ request'[r] = Done(request[r].op, a)
         /\ request'[r].stage = "done" /\ request'[r].op = request[r].op /\ request'[r].answer = a
         /\ \A q \in Requests : q # r => request'[q] = request[q]
<1>1. /\ request'[r] = Done(request[r].op, a)
      /\ \A q \in Requests : q # r => request'[q] = request[q]
  BY DEF RequestsTyped, Answer
<1>2. PICK x : x = Done(request[r].op, a)
  OBVIOUS
<1>3. x.stage = "done" /\ x.op = request[r].op /\ x.answer = a
  BY <1>2 DEF Done
<1>4. request'[r] = x
  BY <1>1, <1>2
<1> QED
  BY <1>1, <1>3, <1>4

LEMMA AnswerIsMove ==
  ASSUME Typed, NEW r \in Requests, r \in Busy, NEW a, Answer(r, a), UNCHANGED <<used, History>>,
         Writes(request[r])
  PROVE  Moves(r)
<1>1. /\ request'[r].stage = "done"
      /\ \A q \in Requests : q # r => request'[q] = request[q]
  BY AnswerEnds DEF Typed
<1> QED
  BY <1>1 DEF Moves, History

LEMMA RefuseIsMove ==
  ASSUME Typed, Rest, Panel, NEW r \in Requests, r \in Busy, Refuse(r)
  PROVE  Moves(r)
<1>1. PICK a : Answer(r, a)
  BY DEF Refuse
<1>2. UNCHANGED <<company, user, member>> /\ UNCHANGED <<used, History>>
  BY DEF Refuse, Rows
<1>3. Writes(request[r])
  BY <1>2, SameWrites
<1> QED
  BY <1>1, <1>2, <1>3, AnswerIsMove

LEMMA MailIsMove ==
  ASSUME Typed, NEW r \in Requests, r \in Busy, Mail(r, request[r].user),
         UNCHANGED History, used \subseteq used', Writes(request[r])
  PROVE  Moves(r)
<1>1. PICK w : w = request[r]
  OBVIOUS
<1>2. w \in Calls
  BY <1>1, BusyIs DEF Typed
<1>3. PICK x : x = [w EXCEPT !.stage = "mailing", !.user = w.user]
  OBVIOUS
<1>4. x.stage = "mailing" /\ SameWork(x, w)
  BY <1>2, <1>3 DEF Calls, SameWork
<1>5. request'[r] = x /\ \A q \in Requests : q # r => request'[q] = request[q]
  BY <1>1, <1>3 DEF Mail, Typed, RequestsTyped
<1> QED
  BY <1>1, <1>4, <1>5 DEF Moves, History

LEMMA InsertIsMove ==
  ASSUME Typed, Rest, Panel, NEW r \in Requests,
         InsertCompany(r) \/ InsertMember(r) \/ InsertUser(r) \/ InsertAgent(r)
  PROVE  Moves(r)
<1>1. PICK w : w = request[r]
  OBVIOUS
<1>2. Starts(r)
  BY BusyIs DEF Typed, InsertCompany, InsertMember, InsertUser, InsertAgent, At, Creating, Starts
<1>3. /\ r \in Busy /\ Proper(w) /\ w.op \in Creating /\ w.user \notin used
      /\ w.company \in Companies \cup {None}
  <2>1. r \in Busy /\ Proper(w) /\ w.op \in Creating
    BY <1>1, <1>2, BusyIs DEF Typed, Starts
  <2>2. w.user \notin used
    BY <1>1, <1>2 DEF Rest, Births
  <2> QED
    BY <2>1, <2>2 DEF Proper, Calls
<1>4. SUFFICES ASSUME ~Refuse(r) PROVE Moves(r)
  BY <1>3, RefuseIsMove
<1>5. SUFFICES ASSUME NEW panel \in Panels, NEW c,
                      NewUser(w.user, panel, w.email, c), Mail(r, w.user), UNCHANGED History,
                      Writes(w)
               PROVE  Moves(r)
  <2>1. ASSUME InsertCompany(r)
        PROVE  \E panel \in Panels : \E c : /\ NewUser(w.user, panel, w.email, c)
                                            /\ Mail(r, w.user) /\ UNCHANGED History /\ Writes(w)
    <3>1. /\ w.op = "createCompany" /\ company[w.company] = None
          /\ company' = [company EXCEPT ![w.company] = [slug |-> w.slug, deleted |-> FALSE]]
          /\ NewUser(w.user, "company", w.email, None)
          /\ member' = [member EXCEPT ![w.user] =
                          [company |-> w.company, owner |-> TRUE, deleted |-> FALSE]]
          /\ Mail(r, w.user) /\ UNCHANGED History
      BY <1>1, <1>4, <2>1 DEF InsertCompany, At
    <3>2. [slug |-> w.slug, deleted |-> FALSE] \in CompanyRow
      BY <1>3, <3>1 DEF Proper, CompanyRow
    <3>3. "company" \in Panels
      BY DEF Panels
    <3>4. Writes(w)
      BY <1>3, <3>1, <3>2, <3>3, InsertedWrites
    <3> QED
      BY <3>1, <3>3, <3>4
  <2>2. ASSUME InsertMember(r)
        PROVE  \E panel \in Panels : \E c : /\ NewUser(w.user, panel, w.email, c)
                                            /\ Mail(r, w.user) /\ UNCHANGED History /\ Writes(w)
    <3>1. /\ w.op = "createMember" /\ UNCHANGED company
          /\ NewUser(w.user, "company", w.email, None)
          /\ member' = [member EXCEPT ![w.user] =
                          [company |-> w.company, owner |-> FALSE, deleted |-> FALSE]]
          /\ Mail(r, w.user) /\ UNCHANGED History
      BY <1>1, <1>4, <2>2 DEF InsertMember, At
    <3>2. "company" \in Panels
      BY DEF Panels
    <3>3. Writes(w)
      BY <1>3, <3>1, <3>2, InsertedWrites
    <3> QED
      BY <3>1, <3>2, <3>3
  <2>3. ASSUME InsertUser(r)
        PROVE  \E panel \in Panels : \E c : /\ NewUser(w.user, panel, w.email, c)
                                            /\ Mail(r, w.user) /\ UNCHANGED History /\ Writes(w)
    <3>1. /\ NewUser(w.user, "ikyomm", w.email, None)
          /\ Mail(r, w.user) /\ UNCHANGED <<company, member, History>>
      BY <1>1, <1>4, <2>3 DEF InsertUser, At
    <3>2. "ikyomm" \in Panels
      BY DEF Panels
    <3>3. Writes(w)
      BY <1>3, <3>1, <3>2, InsertedWrites
    <3> QED
      BY <3>1, <3>2, <3>3
  <2>4. ASSUME InsertAgent(r)
        PROVE  \E panel \in Panels : \E c : /\ NewUser(w.user, panel, w.email, c)
                                            /\ Mail(r, w.user) /\ UNCHANGED History /\ Writes(w)
    <3>1. /\ w.op = "createAgent" /\ NewUser(w.user, "app", w.email, w.company)
          /\ Mail(r, w.user) /\ UNCHANGED <<company, member, History>>
      BY <1>1, <1>4, <2>4 DEF InsertAgent, At
    <3>2. "app" \in Panels
      BY DEF Panels
    <3>3. Writes(w)
      BY <1>3, <3>1, <3>2, InsertedWrites
    <3> QED
      BY <3>1, <3>2, <3>3
  <2> QED
    BY <2>1, <2>2, <2>3, <2>4
<1>6. used \subseteq used'
  BY <1>5 DEF NewUser
<1> QED
  BY <1>1, <1>3, <1>5, <1>6, MailIsMove

LEMMA SaveIsMove ==
  ASSUME Typed, Rest, Panel, NEW r \in Requests, SaveMember(r) \/ SaveUser(r) \/ SaveAgent(r)
  PROVE  Moves(r)
<1>1. PICK w : w = request[r]
  OBVIOUS
<1>2. w.stage = "checked" /\ w.op \in {"updateMember", "updateUser", "updateAgent"}
  BY <1>1 DEF SaveMember, SaveUser, SaveAgent, At
<1>3. r \in Busy /\ Proper(w)
  BY <1>1, <1>2, BusyIs DEF Typed
<1>4. w.user \in Users /\ w.email \in Emails /\ w.company \in Companies \cup {None}
  BY <1>2, <1>3 DEF Proper, Addressed, Removing, Calls
<1>5. SUFFICES ASSUME ~Refuse(r) PROVE Moves(r)
  BY <1>3, RefuseIsMove
<1>6. /\ user[w.user] # None /\ Answer(r, "ok")
      /\ UNCHANGED <<company, member>> /\ UNCHANGED <<used, History>>
      /\ \/ user' = [user EXCEPT ![w.user].email = w.email]
         \/ /\ w.op = "updateAgent"
            /\ user' = [user EXCEPT ![w.user].email = w.email, ![w.user].company = w.company]
  <2>1. CASE SaveMember(r)
    <3>1. member[w.user] # None => user[w.user] # None
      BY <1>4 DEF Rest, Keys
    <3> QED
      BY <1>1, <1>5, <2>1, <3>1 DEF SaveMember
  <2>2. CASE SaveUser(r) \/ SaveAgent(r)
    BY <1>1, <1>5, <2>2 DEF SaveUser, SaveAgent, Exists, At
  <2> QED
    BY <2>1, <2>2
<1>7. user[w.user] \in UserRow
  BY <1>4, <1>6 DEF Typed, RowsTyped
<1>8. PICK x \in UserRow :
        /\ x.email = w.email /\ x.panel = user[w.user].panel
        /\ user' = [user EXCEPT ![w.user] = x]
        /\ \/ x.company = user[w.user].company
           \/ w.op = "updateAgent" /\ x.company = w.company
  <2>1. PICK y : y = user[w.user]
    OBVIOUS
  <2>2. CASE user' = [user EXCEPT ![w.user].email = w.email]
    <3>1. PICK x : x = [y EXCEPT !.email = w.email]
      OBVIOUS
    <3>2. x \in UserRow /\ x.email = w.email /\ x.panel = y.panel /\ x.company = y.company
      BY <1>4, <1>7, <2>1, <3>1 DEF UserRow
    <3>3. user' = [user EXCEPT ![w.user] = x]
      BY <2>1, <2>2, <3>1
    <3> QED
      BY <2>1, <3>2, <3>3
  <2>3. CASE /\ w.op = "updateAgent"
             /\ user' = [user EXCEPT ![w.user].email = w.email, ![w.user].company = w.company]
    <3>1. PICK x : x = [y EXCEPT !.email = w.email, !.company = w.company]
      OBVIOUS
    <3>2. x \in UserRow /\ x.email = w.email /\ x.panel = y.panel /\ x.company = w.company
      BY <1>4, <1>7, <2>1, <3>1 DEF UserRow
    <3>3. user' = [user EXCEPT ![w.user] = x]
      BY <1>4, <2>1, <2>3, <3>1 DEF Typed, RowsTyped
    <3> QED
      BY <2>1, <2>3, <3>2, <3>3
  <2> QED
    BY <1>6, <2>2, <2>3
<1>9. w.op = "updateAgent" => member[w.user] = None
  BY <1>1, <1>3 DEF Panel
<1>10. x # None /\ w.email # None
  BY <1>4
<1>11. Writes(w)
  BY <1>4, <1>6, <1>8, <1>9, <1>10, SavedWrites
<1> QED
  BY <1>1, <1>3, <1>6, <1>11, AnswerIsMove

\* A row of user whose flag is set.
LEMMA FlagSet ==
  ASSUME RowsTyped, NEW u \in Users, user[u] # None, NEW d, user' = [user EXCEPT ![u].deleted = d],
         d \in BOOLEAN
  PROVE  \A v \in Users :
           /\ user'[v] # None <=> user[v] # None
           /\ v # u => user'[v] = user[v]
           /\ user[v] # None =>
                /\ user'[v].email = user[v].email /\ user'[v].company = user[v].company
                /\ user'[v].panel = user[v].panel
           /\ user'[u].deleted = d
<1>1. PICK y : y = user[u]
  OBVIOUS
<1>2. PICK x : x = [y EXCEPT !.deleted = d]
  OBVIOUS
<1>3. y \in UserRow
  BY <1>1 DEF RowsTyped
<1>4. /\ x \in UserRow /\ x.email = y.email /\ x.company = y.company /\ x.panel = y.panel
      /\ x.deleted = d
  BY <1>2, <1>3 DEF UserRow
<1>5. user' = [user EXCEPT ![u] = x]
  BY <1>1, <1>2
<1>6. user'[u] = x /\ \A v \in Users : v # u => user'[v] = user[v]
  BY <1>5 DEF RowsTyped
<1>7. x # None
  BY <1>4
<1> QED
  BY <1>1, <1>4, <1>6, <1>7

LEMMA DropIsMove ==
  ASSUME Typed, Rest, Panel, NEW r \in Requests, DropMember(r) \/ DropMemberAndUser(r)
  PROVE  Moves(r)
<1>1. PICK w : w = request[r]
  OBVIOUS
<1>2. /\ w.stage = "checked" /\ w.op \in {"removeMember", "removeMemberAndUser"}
      /\ Answer(r, "ok") /\ UNCHANGED company /\ UNCHANGED <<used, History>>
      /\ member' = IF member[w.user] = None THEN member
                   ELSE [member EXCEPT ![w.user].deleted = TRUE]
      /\ UNCHANGED user \/ user' = IF Exists(w.user) THEN [user EXCEPT ![w.user].deleted = TRUE]
                                   ELSE user
  BY <1>1 DEF DropMember, DropMemberAndUser, At
<1>3. r \in Busy /\ Proper(w)
  BY <1>1, <1>2, BusyIs DEF Typed
<1>4. w.user \in Users
  BY <1>2, <1>3 DEF Proper, Removing
<1>5. MembersEdited
  BY <1>2, <1>4, MemberMarked DEF Typed
<1>6. \A v \in Users :
        /\ user'[v] # None <=> user[v] # None
        /\ user[v] # None =>
             /\ user'[v].email = user[v].email /\ user'[v].company = user[v].company
             /\ user'[v].panel = user[v].panel
             /\ user'[v].deleted = user[v].deleted \/ user'[v].deleted = TRUE
  <2>1. CASE UNCHANGED user
    BY <2>1
  <2>2. CASE user[w.user] # None /\ user' = [user EXCEPT ![w.user].deleted = TRUE]
    <3>1. \A v \in Users :
            /\ user'[v] # None <=> user[v] # None
            /\ v # w.user => user'[v] = user[v]
            /\ user[v] # None =>
                 /\ user'[v].email = user[v].email /\ user'[v].company = user[v].company
                 /\ user'[v].panel = user[v].panel
            /\ user'[w.user].deleted = TRUE
      BY <1>4, <2>2, FlagSet DEF Typed
    <3> QED
      BY <3>1
  <2> QED
    BY <1>2, <2>1, <2>2 DEF Exists
<1>7. Flagged(w)
  BY <1>2, <1>5, <1>6 DEF Flagged, MembersEdited
<1> QED
  BY <1>1, <1>2, <1>3, <1>7, FlaggedWrites, AnswerIsMove

LEMMA MarkIsMove ==
  ASSUME Typed, Rest, Panel, NEW r \in Requests, Mark(r)
  PROVE  Moves(r)
<1>1. PICK w : w = request[r]
  OBVIOUS
<1>2. w.stage = "checked" /\ w.op \in {"removeUser", "restoreUser"}
  BY <1>1 DEF Mark, At
<1>3. r \in Busy /\ Proper(w)
  BY <1>1, <1>2, BusyIs DEF Typed
<1>4. w.user \in Users
  BY <1>2, <1>3 DEF Proper, Removing
<1>5. PICK a : Answer(r, a)
  BY DEF Mark
<1>6. UNCHANGED <<company, member>> /\ UNCHANGED <<used, History>>
  BY DEF Mark, Rows
<1>7. CASE user[w.user] # None
  <2>1. user' = [user EXCEPT ![w.user].deleted = (w.op = "removeUser")]
    BY <1>1, <1>7 DEF Mark, Exists
  <2>d. PICK d \in BOOLEAN : d = (w.op = "removeUser")
    OBVIOUS
  <2>3. user' = [user EXCEPT ![w.user].deleted = d]
    BY <2>1, <2>d
  <2>2. \A v \in Users :
          /\ user'[v] # None <=> user[v] # None
          /\ v # w.user => user'[v] = user[v]
          /\ user[v] # None =>
               /\ user'[v].email = user[v].email /\ user'[v].company = user[v].company
               /\ user'[v].panel = user[v].panel
          /\ user'[w.user].deleted = d
    BY <1>4, <1>7, <2>3, FlagSet DEF Typed
  <2>4. Flagged(w)
    BY <1>6, <2>2 DEF Flagged
  <2> QED
    BY <1>1, <1>3, <1>5, <1>6, <2>4, FlaggedWrites, AnswerIsMove
<1>8. CASE user[w.user] = None
  <2>1. UNCHANGED user
    BY <1>1, <1>8 DEF Mark, Exists, Rows
  <2>2. Writes(w)
    BY <1>6, <2>1, SameWrites
  <2> QED
    BY <1>1, <1>3, <1>5, <1>6, <2>2, AnswerIsMove
<1> QED
  BY <1>7, <1>8

LEMMA DropCompanyIsMove ==
  ASSUME Typed, Rest, Panel, NEW r \in Requests, DropCompany(r)
  PROVE  Moves(r)
<1>1. PICK c \in Companies : c = request[r].company
  BY DropCompanyIs
<1>2. r \in Busy /\ CompanyMarked(c, TRUE) /\ member' = Marked(c, TRUE)
  BY <1>1, DropCompanyIs
<1>3. Answer(r, "ok") /\ UNCHANGED user /\ UNCHANGED <<used, History>>
  BY DEF DropCompany
<1>4. \A u \in Users : /\ member'[u] # None <=> member[u] # None
                       /\ member[u] # None => member'[u].company = member[u].company
  <2>1. RowsTyped /\ TRUE \in BOOLEAN
    BY DEF Typed
  <2>2. \A u \in Users :
          /\ Marked(c, TRUE)[u] # None <=> member[u] # None
          /\ member[u] # None => Marked(c, TRUE)[u].company = member[u].company
    BY <2>1, MarkedTyped
  <2> QED
    BY <1>2, <2>2
<1>5. ASSUME NEW b \in Companies
      PROVE  /\ company'[b] # None <=> company[b] # None
             /\ company[b] # None => company'[b].slug = company[b].slug
  <2>1. \A x \in CompanyRow : /\ [x EXCEPT !.deleted = TRUE] \in CompanyRow
                              /\ [x EXCEPT !.deleted = TRUE].slug = x.slug
    BY DEF CompanyRow
  <2>2. company[c] \in CompanyRow \cup {None} /\ company[b] \in CompanyRow \cup {None}
    BY DEF Typed, RowsTyped
  <2>3. company'[b] = IF company[c] # None /\ b = c
                      THEN [company[c] EXCEPT !.deleted = TRUE] ELSE company[b]
    BY <1>2 DEF Typed, RowsTyped, CompanyMarked
  <2> QED
    BY <2>1, <2>2, <2>3
<1>6. Flagged(request[r])
  BY <1>3, <1>4, <1>5 DEF Flagged
<1> QED
  BY <1>2, <1>3, <1>6, FlaggedWrites, AnswerIsMove

LEMMA ReadsFind ==
  ASSUME Typed, Rest, Panel, Swept, NEW r \in Requests, Reads(r)
  PROVE  Finds(request[r], request'[r])
<1>1. PICK w : w = request[r]
  OBVIOUS
<1>2. PICK stage \in {"checked"} \cup Gathering, next \in Gathering, found \in SUBSET Users :
        /\ Read(r, stage, next, found)
        /\ \/ stage = "checked" /\ next = "members" /\ found = MembersOf(w.company)
           \/ /\ stage = "members" /\ next = "assigned"
              /\ found = w.linked \cup AssignedTo(w.company)
           \/ /\ stage = "assigned" /\ next = "collected"
              /\ found = {u \in w.linked : member[u] # None => member[u].company = w.company}
  BY <1>1, ReadsAre
<1>3. /\ w.stage = stage /\ w.op = "removeCompanyPermanently" /\ Proper(w)
      /\ request'[r].stage = next /\ request'[r].linked = found
  BY <1>1, <1>2, ReadIs
<1>4. w.company \in Companies /\ None \notin Companies /\ w.op \in Removing
  BY <1>3 DEF Proper, Removing, Companies
<1>5. \A u \in Users : /\ u # None
                       /\ member[u] # None => Exists(u) /\ user[u].company = None
  BY DEF Rest, Keys, Exists, Panel
<1>6. \A u \in Users : w.company \in Places(u) <=> u \in MembersOf(w.company) \cup AssignedTo(w.company)
  BY <1>4, <1>5 DEF Places, MembersOf, AssignedTo
<1>7. ASSUME NEW u \in Users, u \in found PROVE u \in w.linked \/ w.company \in Places(u)
  BY <1>2, <1>6, <1>7
<1>8. ASSUME next \in Gathered, NEW u \in Users, w.company \in Places(u), w.company \notin crossed
      PROVE  u \in found
  <2>1. CASE next = "assigned"
    <3>1. u \in MembersOf(w.company) => u \in w.linked
      BY <1>1, <1>2, <1>3, <1>8, <2>1 DEF Rest, Lefts, MembersOf, Gathering
    <3> QED
      BY <1>2, <1>6, <1>8, <2>1, <3>1
  <2>2. CASE next = "collected"
    <3>1. u \in w.linked
      BY <1>1, <1>2, <1>3, <1>8, <2>2 DEF Swept, Gathered
    <3>2. member[u] # None => member[u].company = w.company
      BY <1>4, <1>5, <1>6, <1>8 DEF MembersOf, AssignedTo
    <3> QED
      BY <1>2, <2>2, <3>1, <3>2
  <2> QED
    BY <1>8, <2>1, <2>2 DEF Gathered
<1> QED
  BY <1>1, <1>3, <1>4, <1>7, <1>8 DEF Finds

LEMMA ReadsAreMoves ==
  ASSUME Typed, Rest, Panel, Swept, NEW r \in Requests, Reads(r)
  PROVE  Moves(r)
<1>1. PICK w : w = request[r]
  OBVIOUS
<1>2. PICK stage \in {"checked"} \cup Gathering, next \in Gathering, found \in SUBSET Users :
        Read(r, stage, next, found)
  BY ReadsAre
<1>3. /\ r \in Busy /\ \A q \in Requests : q # r => request'[q] = request[q]
      /\ request'[r].op = w.op /\ request'[r].company = w.company
      /\ request'[r].user = w.user /\ request'[r].email = w.email
      /\ UNCHANGED <<company, user, member>> /\ UNCHANGED <<used, contested, crossed>>
  BY <1>1, <1>2, ReadIs DEF Rows, History
<1>4. Writes(w)
  BY <1>3, SameWrites
<1>5. Finds(w, request'[r])
  BY <1>1, ReadsFind
<1> QED
  BY <1>1, <1>3, <1>4, <1>5 DEF Moves

LEMMA EraseIsMove ==
  ASSUME Typed, Rest, Panel, NEW r \in Requests, EraseCompany(r) \/ EraseUser(r)
  PROVE  Moves(r)
<1>1. PICK w : w = request[r]
  OBVIOUS
<1>2. CASE EraseCompany(r)
  <2>1. /\ r \in Busy /\ w.op \in Removing /\ w.company \in Companies
        /\ w.stage = "collected" /\ w.linked \in SUBSET Users
        /\ Erased(w.linked, w.company) /\ company' = [company EXCEPT ![w.company] = None]
    BY <1>1, <1>2, EraseCompanyIs
  <2>2. Answer(r, "ok") /\ UNCHANGED <<used, History>>
    BY <1>2 DEF EraseCompany
  <2>3. Writes(w)
    BY <2>1, ErasedWrites
  <2> QED
    BY <1>1, <2>1, <2>2, <2>3, AnswerIsMove
<1>3. CASE EraseUser(r)
  <2>1. w.user \in Users /\ Erased({w.user}, None) /\ UNCHANGED company
    BY <1>1, <1>3, EraseUserIs
  <2>2. UNCHANGED <<used, History>> /\ request[r].stage = "checked"
    BY <1>3 DEF EraseUser, At
  <2>3. PICK a : Answer(r, a)
    BY <1>3 DEF EraseUser
  <2>4. r \in Busy
    BY <2>2, BusyIs DEF Typed
  <2>5. {w.user} \in SUBSET Users /\ None \in Companies \cup {None}
    BY <2>1
  <2>6. Writes(w)
    BY <2>1, <2>5, ErasedWrites
  <2> QED
    BY <1>1, <2>2, <2>3, <2>4, <2>6, AnswerIsMove
<1> QED
  BY <1>2, <1>3

LEMMA EndIsMove ==
  ASSUME Typed, Rest, Panel, NEW r \in Requests, Deliver(r) \/ Lose(r) \/ Fail(r)
  PROVE  Moves(r)
<1>1. r \in Busy
  BY BusyIs DEF Typed, Deliver, Lose, Fail
<1>2. PICK a : Answer(r, a)
  BY DEF Deliver, Lose, Fail
<1>3. UNCHANGED <<company, user, member>> /\ UNCHANGED <<used, History>>
  BY DEF Deliver, Lose, Fail, Rows
<1> QED
  BY <1>1, <1>2, <1>3, SameWrites, AnswerIsMove

LEMMA FinishMoves ==
  ASSUME Typed, Rest, Panel, Swept, NEW r \in Requests, Finish(r)
  PROVE  Moves(r)
  BY InsertIsMove, SaveIsMove, DropIsMove, MarkIsMove, DropCompanyIsMove, ReadsAreMoves,
     EraseIsMove, EndIsMove DEF Finish, Reads

----------------------------------------------------------------------------
(* Answers *)

\* What a request is answered is explained by what has happened to it.
Explained(r) ==
  request'[r].stage = "done" =>
    /\ request'[r].answer = "failed" => r \in contested \/ request'[r].op = "updateMember"
    /\ request'[r].answer = "held" =>
         \/ r \in contested
         \/ request'[r].op \in {"createUser", "updateUser", "createAgent", "updateAgent",
                                "updateMember"}

LEMMA OtherwiseExplained ==
  ASSUME Typed, NEW r \in Requests, NEW a, Answer(r, a), a \notin {"failed", "held"}
  PROVE  Explained(r)
  BY AnswerEnds DEF Typed, Explained

\* A transaction is refused to whom its checks let in for an address only deleted users
\* hold.
LEMMA RefuseExplained ==
  ASSUME Typed, Reliable, NEW r \in Requests, Refuse(r),
         request[r].stage = "checked", request[r].op \in Addressed,
         Sound(request[r]) /\ request[r].op # "updateMember" => ~EmailFree(r)
  PROVE  Explained(r)
<1>1. PICK w : w = request[r]
  OBVIOUS
<1>2. PICK holders : holders = IF w.email = None THEN {} ELSE HeldBy(w.email) \ {w.user}
  OBVIOUS
<1>3. PICK a : a = IF holders # {} /\ holders \cap LiveHolders(w.email) = {}
                   THEN "held" ELSE "failed"
  OBVIOUS
<1>4. Answer(r, a)
  BY <1>1, <1>2, <1>3 DEF Refuse
<1>5. request'[r].op = w.op /\ request'[r].answer = a
  BY <1>1, <1>4, AnswerEnds DEF Typed
<1>6. CASE r \in contested \/ w.op = "updateMember"
  BY <1>5, <1>6 DEF Explained
<1>7. CASE r \notin contested /\ w.op # "updateMember"
  <2>1. r \in Busy
    BY <1>1, BusyIs DEF Typed
  <2>2. Sound(w) /\ ~EmailFree(r)
    BY <1>1, <1>7, <2>1 DEF Reliable
  <2>3. w.email # None /\ holders # {}
    BY <1>1, <1>2, <2>2 DEF EmailFree
  <2>4. w.op \in {"createUser", "createAgent", "updateUser", "updateAgent"}
    BY <1>1, <1>2, <1>7, <2>2, <2>3 DEF Sound, Addressed, Creating
  <2>5. LiveHolders(w.email) \subseteq {w.user}
    BY <2>2, <2>4 DEF Sound
  <2>6. a = "held"
    BY <1>2, <1>3, <2>3, <2>5
  <2> QED
    BY <1>5, <2>4, <2>6 DEF Explained
<1> QED
  BY <1>6, <1>7

LEMMA MailExplained ==
  ASSUME Typed, NEW r \in Requests, r \in Busy, NEW u, Mail(r, u)
  PROVE  Explained(r)
<1>1. PICK w : w = request[r]
  OBVIOUS
<1>2. PICK x : x = [w EXCEPT !.stage = "mailing", !.user = u]
  OBVIOUS
<1>3. w \in Calls
  BY <1>1, BusyIs DEF Typed
<1>4. x.stage = "mailing"
  BY <1>2, <1>3 DEF Calls
<1>5. request'[r] = x
  BY <1>1, <1>2 DEF Mail, Typed, RequestsTyped
<1> QED
  BY <1>4, <1>5 DEF Explained

LEMMA InsertExplained ==
  ASSUME Typed, Reliable, NEW r \in Requests,
         InsertCompany(r) \/ InsertMember(r) \/ InsertUser(r) \/ InsertAgent(r)
  PROVE  Explained(r)
<1>1. PICK w : w = request[r]
  OBVIOUS
<1>2. w.stage = "checked" /\ w.op \in Creating /\ r \in Busy
  BY <1>1, BusyIs DEF Typed, InsertCompany, InsertMember, InsertUser, InsertAgent, At, Creating
<1>3. \/ Mail(r, w.user)
      \/ Refuse(r) /\ (Sound(w) => ~EmailFree(r))
  <2>1. CASE InsertCompany(r)
    <3>1. w.op = "createCompany" /\ (Sound(w) => SlugFree(w.slug) /\ company[w.company] = None)
      BY <1>1, <2>1 DEF InsertCompany, At, Sound
    <3> QED
      BY <1>1, <2>1, <3>1 DEF InsertCompany
  <2>2. CASE InsertMember(r)
    <3>1. w.op = "createMember" /\ w.company # None
      BY <1>1, <1>2, <2>2, BusyIs DEF InsertMember, At, Typed, Proper, Companies
    <3>2. Sound(w) => company[w.company] # None
      BY <3>1 DEF Sound
    <3> QED
      BY <1>1, <2>2, <3>2 DEF InsertMember
  <2>3. CASE InsertUser(r)
    BY <1>1, <2>3 DEF InsertUser
  <2>4. CASE InsertAgent(r)
    <3>1. w.op = "createAgent"
      BY <1>1, <2>4 DEF InsertAgent, At
    <3>2. Sound(w) => (w.company # None => company[w.company] # None)
      BY <3>1 DEF Sound
    <3> QED
      BY <1>1, <2>4, <3>2 DEF InsertAgent
  <2> QED
    BY <2>1, <2>2, <2>3, <2>4
<1>4. w.op \in Addressed
  BY <1>2 DEF Addressed
<1> QED
  BY <1>1, <1>2, <1>3, <1>4, MailExplained, RefuseExplained

LEMMA SaveExplained ==
  ASSUME Typed, Reliable, NEW r \in Requests, SaveMember(r) \/ SaveUser(r) \/ SaveAgent(r)
  PROVE  Explained(r)
<1>1. PICK w : w = request[r]
  OBVIOUS
<1>2. w.stage = "checked" /\ w.op \in Addressed
  BY <1>1 DEF SaveMember, SaveUser, SaveAgent, At, Addressed
<1>3. \/ Answer(r, "ok")
      \/ Refuse(r) /\ (Sound(w) /\ w.op # "updateMember" => ~EmailFree(r))
  <2>1. CASE SaveMember(r)
    BY <1>1, <2>1 DEF SaveMember, At
  <2>2. CASE SaveUser(r)
    <3>1. Sound(w) => Exists(w.user)
      BY <1>1, <2>2 DEF SaveUser, At, Sound
    <3> QED
      BY <1>1, <2>2, <3>1 DEF SaveUser
  <2>3. CASE SaveAgent(r)
    <3>1. w.op = "updateAgent"
      BY <1>1, <2>3 DEF SaveAgent, At
    <3>2. Sound(w) => Exists(w.user) /\ (w.company # None => company[w.company] # None)
      BY <3>1 DEF Sound
    <3> QED
      BY <1>1, <2>3, <3>2 DEF SaveAgent
  <2> QED
    BY <2>1, <2>2, <2>3
<1> QED
  BY <1>1, <1>2, <1>3, OtherwiseExplained, RefuseExplained

LEMMA FinishExplained ==
  ASSUME Typed, Reliable, NEW r \in Requests, Finish(r)
  PROVE  Explained(r)
<1>1. CASE InsertCompany(r) \/ InsertMember(r) \/ InsertUser(r) \/ InsertAgent(r)
  BY <1>1, InsertExplained
<1>2. CASE SaveMember(r) \/ SaveUser(r) \/ SaveAgent(r)
  BY <1>2, SaveExplained
<1>3. CASE Reads(r)
  <2>1. request'[r].stage \in Gathering
    BY <1>3, ReadsKeep
  <2> QED
    BY <2>1 DEF Explained, Gathering
<1>4. CASE Mark(r)
  <2>1. PICK w : w = request[r]
    OBVIOUS
  <2>2. w.stage = "checked" /\ r \in Busy
    BY <1>4, <2>1, BusyIs DEF Mark, At, Typed
  <2>3. Answer(r, "ok") \/ (Answer(r, "failed") /\ w.op = "removeUser" /\ ~Exists(w.user))
    BY <1>4, <2>1 DEF Mark
  <2>4. Answer(r, "failed") /\ w.op = "removeUser" /\ ~Exists(w.user) => r \in contested
    BY <2>1, <2>2 DEF Reliable, Sound
  <2> QED
    BY <2>3, <2>4, OtherwiseExplained, AnswerEnds DEF Explained, Typed
<1>5. CASE EraseUser(r)
  <2>1. PICK w : w = request[r]
    OBVIOUS
  <2>2. w.stage = "checked" /\ w.op = "removeUserPermanently" /\ r \in Busy
    BY <1>5, <2>1, BusyIs DEF EraseUser, At, Typed
  <2>3. Answer(r, "ok") \/ (Answer(r, "failed") /\ ~Exists(w.user))
    BY <1>5, <2>1 DEF EraseUser
  <2>4. Answer(r, "failed") /\ ~Exists(w.user) => r \in contested
    BY <2>1, <2>2 DEF Reliable, Sound
  <2> QED
    BY <2>3, <2>4, OtherwiseExplained, AnswerEnds DEF Explained, Typed
<1>6. CASE Deliver(r) \/ Lose(r) \/ Fail(r) \/ DropMember(r) \/ DropMemberAndUser(r)
           \/ DropCompany(r) \/ EraseCompany(r)
  <2>1. \E a \in {"ok", "unsent", "aborted"} : Answer(r, a)
    BY <1>6 DEF Deliver, Lose, Fail, DropMember, DropMemberAndUser, DropCompany, EraseCompany
  <2> QED
    BY <2>1, OtherwiseExplained
<1> QED
  BY <1>1, <1>2, <1>3, <1>4, <1>5, <1>6 DEF Finish, Reads

----------------------------------------------------------------------------
(* What others rely on while a request writes *)

\* What a formula about the next request says, of a request named beforehand.
LEMMA NextThing ==
  ASSUME NEW q \in Requests, NEW r \in Requests, NEW x, NEW y, x = request'[q], y = request'[r]
  PROVE  /\ SameThing(request[q], request[r])' <=> SameThing(x, y)'
         /\ Removes(request[q], request[r])' <=> Removes(x, y)'
         /\ Sound(request[q])' <=> Sound(x)'
<1>1. Removes(request[q], request[r])' <=> Removes(x, y)'
  BY DEF Removes, Involved, Exists
<1>2. SameThing(request[q], request[r])' <=> SameThing(x, y)'
  BY DEF SameThing, Addresses, Removes, Involved, Exists
<1>3. Sound(request[q])' <=> Sound(x)'
  BY DEF Sound, HeldBy, LiveHolders, SlugFree, Exists
<1> QED
  BY <1>1, <1>2, <1>3

\* A request under way is the one it was, but for whom it may just have found.
Continues(q) ==
  LET x == request[q]
      y == request'[q]
  IN  /\ q \in Busy /\ y.op = x.op /\ y.company = x.company /\ y.user = x.user /\ y.email = x.email
      /\ \/ y.linked = x.linked
         \/ Finds(x, y)
      /\ y.stage = "checked" => y = x

LEMMA AllContinue ==
  ASSUME Typed, Typed', NEW r \in Requests, Moves(r), NEW q \in Requests, q \in Busy'
  PROVE  Continues(q) /\ (q # r => request'[q] = request[q]) /\ (q = r => request'[q].stage # "checked")
<1>1. PICK x : x = request[q]
  OBVIOUS
<1>2. PICK y : y = request'[q]
  OBVIOUS
<1>3. CASE q # r
  <2>1. y = x
    BY <1>1, <1>2, <1>3 DEF Moves
  <2>2. q \in Busy
    BY <1>1, <1>2, <2>1 DEF Busy
  <2> QED
    BY <1>1, <1>2, <1>3, <2>1, <2>2 DEF Continues
<1>4. CASE q = r
  <2>1. y.stage # "done" /\ q \in Busy
    BY <1>2, <1>4 DEF Busy, Moves
  <2>2. \/ y.stage = "mailing" /\ SameWork(y, x)
        \/ /\ Finds(x, y) /\ y.stage \in Gathering
           /\ y.op = x.op /\ y.company = x.company /\ y.user = x.user /\ y.email = x.email
    BY <1>1, <1>2, <1>4, <2>1 DEF Moves, Finds
  <2> QED
    BY <1>1, <1>2, <1>4, <2>1, <2>2 DEF Continues, SameWork, Gathering
<1> QED
  BY <1>3, <1>4

\* After a statement of work w, request y is about what it was about, and about what
\* w let its user in to.
LEMMA InvolvedBefore ==
  ASSUME NEW w, Reach(w), NEW x, x.user \in Users \cup {None}, NEW y,
         y.company = x.company, y.user = x.user, y.email = x.email
  PROVE  /\ Involved(y)' \subseteq Involved(x) \cup {None}
                \cup (IF x.user = w.user /\ x.user # None /\ w.op \in Adding THEN {w.company} ELSE {})
         /\ Addresses(y)' \subseteq Addresses(x)
                \cup (IF x.user = w.user /\ x.user # None THEN {w.email} ELSE {})
<1>1. CASE x.user = None
  <2>1. Places(None)' = {} /\ Mailbox(None)' = {}
    BY DEF Places, Mailbox
  <2>2. Involved(y)' = {x.company} /\ Addresses(y)' = {x.email}
    BY <1>1, <2>1, AboutIsNext
  <2> QED
    BY <2>2, AboutIs
<1>2. CASE x.user \in Users
  <2>1. PICK u \in Users : u = x.user
    BY <1>2
  <2>2. /\ Involved(y)' = {x.company} \cup Places(u)' /\ Addresses(y)' = {x.email} \cup Mailbox(u)'
        /\ Involved(x) = {x.company} \cup Places(u) /\ Addresses(x) = {x.email} \cup Mailbox(u)
    BY <2>1, AboutIs, AboutIsNext
  <2>3. /\ Places(u)' \subseteq Places(u) \cup {None}
                      \cup (IF u = w.user /\ w.op \in Adding THEN {w.company} ELSE {})
        /\ Mailbox(u)' \subseteq Mailbox(u) \cup (IF u = w.user THEN {w.email} ELSE {})
    BY DEF Reach
  <2> QED
    BY <2>1, <2>2, <2>3
<1> QED
  BY <1>1, <1>2

LEMMA WorkersAre ==
  ASSUME Typed, NEW q \in Requests, q \in Busy
  PROVE  /\ Proper(request[q]) /\ request[q].user \in Users \cup {None}
         /\ request[q].op \in Removing => request[q].company \in Companies /\ request[q].company # None
         /\ request[q].linked \in SUBSET Users /\ request[q].email \in Emails \cup {None}
         /\ request[q].company \in Companies \cup {None}
<1>1. PICK w : w = request[q]
  OBVIOUS
<1>2. Proper(w) /\ w \in Calls
  BY <1>1, BusyIs DEF Typed
<1>3. None \notin Companies
  BY DEF Companies
<1> QED
  BY <1>1, <1>2, <1>3 DEF Proper, Calls

\* A removal that concerns a request now did before, or concerns the one that wrote.
LEMMA RemovesBefore ==
  ASSUME Typed, Typed', NEW r \in Requests, Moves(r), NEW w, w = request[r],
         NEW p \in Requests, p \in Busy', NEW q \in Requests, q \in Busy', p # q,
         NEW v, v = request'[p], NEW y, y = request'[q], Removes(v, y)'
  PROVE  \/ Removes(request[p], request[q])
         \/ /\ p # r /\ w.op \in Adding /\ Removes(request[p], w)
            /\ request[q].user = w.user /\ w.user # None
<1>1. PICK a : a = request[p]
  OBVIOUS
<1>2. PICK b : b = request[q]
  OBVIOUS
<1>3. Continues(p) /\ Continues(q) /\ Reach(w)
  BY AllContinue DEF Moves, Writes
<1>4. /\ p \in Busy /\ v.op = a.op /\ v.company = a.company
      /\ \/ v.linked = a.linked
         \/ Finds(a, v)
      /\ q \in Busy /\ y.company = b.company /\ y.user = b.user /\ y.email = b.email
  BY <1>1, <1>2, <1>3 DEF Continues
<1>5. /\ v.op \in Removing /\ v.linked \in SUBSET Users
      /\ v.company \in Involved(y)' \/ y.user \in v.linked
  <2>1. v.linked \in SUBSET Users
    <3>1. v \in Calls
      BY DEF Typed, RequestsTyped, Busy, Ready, Answered
    <3> QED
      BY <3>1 DEF Calls
  <2> QED
    BY <2>1 DEF Removes
<1>6. a.company # None /\ b.user \in Users \cup {None}
  BY <1>1, <1>2, <1>4, <1>5, WorkersAre
<1>7. CASE v.company \in Involved(y)'
  <2>1. \/ a.company \in Involved(b)
        \/ b.user = w.user /\ b.user # None /\ w.op \in Adding /\ a.company = w.company
    BY <1>3, <1>4, <1>6, <1>7, InvolvedBefore
  <2>2. CASE a.company \in Involved(b)
    BY <1>1, <1>2, <1>4, <1>5, <2>2 DEF Removes
  <2>3. CASE b.user = w.user /\ b.user # None /\ w.op \in Adding /\ a.company = w.company
    <3>1. p # r
      BY <1>1, <1>4, <1>5, <2>3 DEF Adding, Removing
    <3>2. w.company \in Involved(w)
      BY AboutIs
    <3> QED
      BY <1>1, <1>2, <1>4, <1>5, <2>3, <3>1, <3>2 DEF Removes
  <2> QED
    BY <2>1, <2>2, <2>3
<1>8. CASE y.user \in v.linked
  <2>1. CASE v.linked = a.linked
    BY <1>1, <1>2, <1>4, <1>5, <1>8, <2>1 DEF Removes
  <2>2. CASE Finds(a, v)
    <3>1. b.user \in a.linked \/ a.company \in Places(b.user)
      BY <1>4, <1>5, <1>8, <2>2 DEF Finds
    <3>2. b.user \in a.linked \/ a.company \in Involved(b)
      BY <3>1, AboutIs
    <3> QED
      BY <1>1, <1>2, <1>4, <1>5, <3>2 DEF Removes
  <2> QED
    BY <1>4, <2>1, <2>2
<1> QED
  BY <1>5, <1>7, <1>8

LEMMA MovesMet ==
  ASSUME Typed, Typed', Met, NEW r \in Requests, Moves(r)
  PROVE  Met'
<1> SUFFICES ASSUME NEW p \in Requests, NEW q \in Requests, p \in Busy', q \in Busy', p # q,
                    request'[q].op \in Adding, Removes(request[p], request[q])'
             PROVE  request'[p].company \in crossed'
  BY DEF Met
<1>1. PICK v : v = request'[p]
  OBVIOUS
<1>2. PICK y : y = request'[q]
  OBVIOUS
<1>3. PICK w : w = request[r]
  OBVIOUS
<1>4. Removes(v, y)'
  BY <1>1, <1>2, NextThing
<1>5. \/ Removes(request[p], request[q])
      \/ p # r /\ w.op \in Adding /\ Removes(request[p], w)
  BY <1>1, <1>2, <1>3, <1>4, RemovesBefore
<1>6. /\ p \in Busy /\ v.company = request[p].company
      /\ q \in Busy /\ request[q].op \in Adding
  BY <1>1, <1>2, AllContinue DEF Continues
<1>7. r \in Busy /\ crossed' = crossed
  BY DEF Moves
<1>8. request[p].company \in crossed
  BY <1>3, <1>5, <1>6, <1>7 DEF Met
<1> QED
  BY <1>1, <1>6, <1>7, <1>8

LEMMA MovesApart ==
  ASSUME Typed, Typed', Apart, NEW r \in Requests, Moves(r)
  PROVE  Apart'
<1> SUFFICES ASSUME NEW p \in Requests, NEW q \in Requests, p \in Busy', q \in Busy', p # q,
                    q \notin contested', SameThing(request[p], request[q])'
             PROVE  FALSE
  BY DEF Apart
<1>1. PICK v : v = request'[p]
  OBVIOUS
<1>2. PICK y : y = request'[q]
  OBVIOUS
<1>3. PICK w : w = request[r]
  OBVIOUS
<1>4. PICK a : a = request[p]
  OBVIOUS
<1>5. PICK b : b = request[q]
  OBVIOUS
<1>6. /\ p \in Busy /\ v.op = a.op /\ v.company = a.company /\ v.user = a.user /\ v.email = a.email
      /\ q \in Busy /\ y.op = b.op /\ y.company = b.company /\ y.user = b.user /\ y.email = b.email
  BY <1>1, <1>2, <1>4, <1>5, AllContinue DEF Continues
<1>7. r \in Busy /\ q \notin contested /\ Reach(w)
  BY <1>3 DEF Moves, Writes
<1>8. ~SameThing(a, b) /\ (q # r => ~SameThing(w, b))
  BY <1>3, <1>4, <1>5, <1>6, <1>7 DEF Apart
<1>9. a.user \in Users \cup {None} /\ b.user \in Users \cup {None}
  BY <1>4, <1>5, <1>6, WorkersAre
<1>10. ~(b.user = w.user /\ b.user # None /\ q # r)
  BY <1>8 DEF SameThing
<1>11. q = r => b = w
  BY <1>3, <1>5
<1>12. ~(a.user = b.user /\ a.user # None)
  BY <1>8 DEF SameThing
<1>13. ~((Addresses(v)' \cap Addresses(y)') \ {None} # {})
  <2> SUFFICES ASSUME NEW e \in Addresses(v)' \cap Addresses(y)', e # None PROVE FALSE
    OBVIOUS
  <2>1. w.email \in Addresses(w)
    BY AboutIs
  <2>2. e \in Addresses(b)
    <3>1. e \in Addresses(b) \cup (IF b.user = w.user /\ b.user # None THEN {w.email} ELSE {})
      BY <1>6, <1>7, <1>9, InvolvedBefore
    <3> QED
      BY <1>10, <1>11, <2>1, <3>1
  <2>3. e \in Addresses(a) \cup (IF a.user = w.user /\ a.user # None THEN {w.email} ELSE {})
    BY <1>6, <1>7, <1>9, InvolvedBefore
  <2>4. e \notin Addresses(a)
    BY <1>8, <2>2 DEF SameThing
  <2>5. a.user = w.user /\ a.user # None /\ e \in Addresses(w)
    BY <2>1, <2>3, <2>4
  <2>6. q # r
    BY <1>11, <1>12, <2>5
  <2> QED
    BY <1>8, <2>2, <2>5, <2>6 DEF SameThing
<1>14. ~Removes(v, y)'
  <2> SUFFICES ASSUME Removes(v, y)' PROVE FALSE
    OBVIOUS
  <2>1. \/ Removes(a, b)
        \/ p # r /\ Removes(a, w) /\ b.user = w.user /\ w.user # None
    BY <1>1, <1>2, <1>3, <1>4, <1>5, RemovesBefore
  <2>2. ~Removes(a, b)
    BY <1>8 DEF SameThing
  <2> QED
    BY <1>10, <1>11, <2>1, <2>2
<1>15. ~Removes(y, v)'
  <2> SUFFICES ASSUME Removes(y, v)' PROVE FALSE
    OBVIOUS
  <2>1. \/ Removes(b, a)
        \/ q # r /\ Removes(b, w)
    BY <1>1, <1>2, <1>3, <1>4, <1>5, RemovesBefore
  <2> QED
    BY <1>8, <2>1 DEF SameThing
<1>16. SameThing(v, y)'
  BY <1>1, <1>2, NextThing
<1>17. ~(v.op = "createCompany" /\ y.op = "createCompany")
  BY <1>6, <1>8 DEF SameThing
<1> QED
  BY <1>6, <1>12, <1>13, <1>14, <1>15, <1>16, <1>17 DEF SameThing

LEMMA MovesReliable ==
  ASSUME Typed, Typed', Apart, Reliable, NEW r \in Requests, Moves(r)
  PROVE  Reliable'
<1> SUFFICES ASSUME NEW q \in Requests, q \in Busy', q \notin contested',
                    request'[q].stage = "checked"
             PROVE  Sound(request[q])'
  BY DEF Reliable
<1>1. PICK y : y = request'[q]
  OBVIOUS
<1>2. PICK w : w = request[r]
  OBVIOUS
<1>3. q # r /\ y = request[q] /\ q \in Busy
  BY <1>1, AllContinue DEF Continues
<1>4. r \in Busy /\ q \notin contested /\ Reach(w) /\ Losses(w) /\ Gains(w)
  BY <1>2 DEF Moves, Writes
<1>5. Sound(y) /\ ~SameThing(w, y)
  BY <1>1, <1>2, <1>3, <1>4 DEF Reliable, Apart
<1>6. Proper(y) /\ y.company \in Companies \cup {None}
  BY <1>3, WorkersAre
<1>7. y.op \in Addressed => y.email \in Emails /\ y.email # None /\ y.email \notin Addresses(w)
  <2>1. y.email \in Addresses(y)
    BY AboutIs
  <2>2. y.op \in Addressed => y.email \in Emails
    BY <1>6 DEF Proper
  <2> QED
    BY <1>5, <2>1, <2>2 DEF SameThing
<1>8. ASSUME y.op \in {"createCompany", "createMember"}
      PROVE  HeldBy(y.email)' = {}
  <2> SUFFICES ASSUME NEW u \in Users, Exists(u)', user'[u].email = y.email PROVE FALSE
    BY DEF HeldBy
  <2>1. HeldBy(y.email) = {} /\ y.email \notin Addresses(w)
    BY <1>5, <1>7, <1>8 DEF Sound, Addressed, Creating
  <2>2. y.email \in Mailbox(u)'
    BY DEF Mailbox
  <2>3. y.email \in Mailbox(u) \cup (IF u = w.user THEN {w.email} ELSE {})
    BY <1>4, <2>2 DEF Reach
  <2>4. y.email \notin Mailbox(u)
    BY <2>1 DEF HeldBy, Mailbox
  <2> QED
    BY <2>1, <2>3, <2>4, AboutIs
<1>9. ASSUME y.op \in {"createUser", "createAgent", "updateUser", "updateAgent"}
      PROVE  LiveHolders(y.email)' \subseteq {y.user}
  <2> SUFFICES ASSUME NEW u \in Users, Exists(u)', user'[u].email = y.email, ~user'[u].deleted
               PROVE  u = y.user
    BY DEF LiveHolders, HeldBy
  <2>1. LiveHolders(y.email) \subseteq {y.user} /\ y.email \notin Addresses(w)
    BY <1>5, <1>7, <1>9 DEF Sound, Addressed, Creating
  <2>2. Exists(u) /\ ~user[u].deleted /\ user'[u].email = user[u].email
    BY <1>4, <2>1 DEF Reach
  <2> QED
    BY <2>1, <2>2 DEF LiveHolders, HeldBy
<1>10. ASSUME y.op \in {"updateUser", "updateAgent", "removeUser", "removeUserPermanently"}
       PROVE  Exists(y.user)'
  <2>1. Exists(y.user) /\ y.user \in Users
    BY <1>5, <1>6, <1>10 DEF Sound, Proper, Removing
  <2>2. y.user # None /\ y.user # w.user /\ ~(w.op \in Removing /\ y.user \in w.linked)
    BY <1>5, <2>1 DEF SameThing, Removes
  <2> QED
    BY <1>4, <2>1, <2>2 DEF Losses
<1>11. ~(w.op \in Removing /\ w.company = y.company)
  <2>1. y.company \in Involved(y)
    BY AboutIs
  <2> QED
    BY <1>5, <2>1 DEF SameThing, Removes
<1>12. ASSUME y.op \in {"createMember", "createAgent", "updateAgent"}, y.company # None
       PROVE  company'[y.company] # None
  <2>1. company[y.company] # None
    BY <1>5, <1>12 DEF Sound
  <2> QED
    BY <1>4, <1>6, <1>11, <1>12, <2>1 DEF Losses
<1>13. ASSUME y.op = "createCompany"
       PROVE  company'[y.company] = None /\ SlugFree(y.slug)'
  <2>1. w.op # "createCompany" /\ y.company \in Companies
    BY <1>5, <1>6, <1>13 DEF SameThing, Proper
  <2>2. company[y.company] = None /\ SlugFree(y.slug)
    BY <1>5, <1>13 DEF Sound
  <2> QED
    BY <1>4, <2>1, <2>2 DEF Gains, SlugFree
<1>14. Sound(y)'
  BY <1>8, <1>9, <1>10, <1>12, <1>13 DEF Sound
<1> QED
  BY <1>1, <1>14, NextThing

LEMMA MovesLinked ==
  ASSUME Typed, Typed', Births, Met, Linked, Swept, NEW r \in Requests, Moves(r)
  PROVE  Linked'
<1> SUFFICES ASSUME NEW q \in Requests, q \in Busy', NEW u \in request'[q].linked
             PROVE  /\ u \in used' /\ request'[q].op \in Removing
                    /\ Exists(u)' => request'[q].company \in crossed' \cup Places(u)'
  BY DEF Linked
<1>1. PICK x : x = request[q]
  OBVIOUS
<1>2. PICK y : y = request'[q]
  OBVIOUS
<1>3. PICK w : w = request[r]
  OBVIOUS
<1>4. /\ q \in Busy /\ y.op = x.op /\ y.company = x.company /\ (q = r => x = w)
      /\ \/ y.linked = x.linked
         \/ Finds(x, y) /\ q = r
  <2>1. Continues(q) /\ (q # r => request'[q] = request[q])
    BY AllContinue
  <2> QED
    BY <1>1, <1>2, <1>3, <2>1 DEF Continues
<1>5. r \in Busy /\ crossed' = crossed /\ used \subseteq used' /\ Losses(w) /\ Gains(w)
  BY <1>3 DEF Moves, Writes
<1>6. y.linked \in SUBSET Users
  <2>1. y \in Calls
    BY <1>2 DEF Typed, RequestsTyped, Busy, Ready, Answered
  <2> QED
    BY <2>1 DEF Calls
<1>7. u \in Users
  BY <1>2, <1>6
<1>8. /\ x.op \in Removing /\ u \in used
      /\ Exists(u) => x.company \in crossed \cup Places(u)
  <2>1. CASE y.linked = x.linked
    BY <1>1, <1>2, <1>4, <2>1 DEF Linked
  <2>2. CASE Finds(x, y)
    <3>1. x.op \in Removing /\ (u \in x.linked \/ x.company \in Places(u))
      BY <1>2, <1>7, <2>2 DEF Finds
    <3>2. CASE u \in x.linked
      BY <1>1, <1>4, <3>1, <3>2 DEF Linked
    <3>3. CASE x.company \in Places(u)
      <4>1. user[u] # None
        BY <3>3 DEF Places, Exists
      <4> QED
        BY <1>7, <3>1, <3>3, <4>1 DEF Births
    <3> QED
      BY <3>1, <3>2, <3>3
  <2> QED
    BY <1>4, <2>1, <2>2
<1>9. x.company # None
  BY <1>1, <1>4, <1>8, WorkersAre
<1>10. ASSUME Exists(u)', x.company \notin crossed PROVE x.company \in Places(u)'
  <2>1. Exists(u) /\ x.company \in Places(u) \ {None}
    BY <1>5, <1>7, <1>8, <1>9, <1>10 DEF Gains
  <2>2. \/ x.company \in Places(u)'
        \/ u = w.user /\ w.op = "updateAgent"
        \/ w.stage = "collected" /\ x.company = w.company /\ u \notin w.linked
    BY <1>5, <1>7, <1>10, <2>1 DEF Losses
  <2>3. ~(u = w.user /\ w.op = "updateAgent")
    <3> SUFFICES ASSUME u = w.user, w.op = "updateAgent" PROVE FALSE
      OBVIOUS
    <3>1. q # r /\ w.op \in Adding
      BY <1>4, <1>8 DEF Removing, Adding
    <3>2. u \in x.linked
      BY <1>2, <1>4, <3>1
    <3>3. Removes(x, w)
      BY <1>8, <3>2 DEF Removes
    <3> QED
      BY <1>1, <1>3, <1>4, <1>5, <1>10, <3>1, <3>3 DEF Met
  <2>4. ~(w.stage = "collected" /\ x.company = w.company /\ u \notin w.linked)
    BY <1>3, <1>7, <1>10, <2>1 DEF Swept, Gathered
  <2> QED
    BY <2>2, <2>3, <2>4
<1> QED
  BY <1>2, <1>4, <1>5, <1>8, <1>10

LEMMA MovesSwept ==
  ASSUME Typed, Typed', Met, Swept, NEW r \in Requests, Moves(r)
  PROVE  Swept'
<1> SUFFICES ASSUME NEW q \in Requests, request'[q].stage \in Gathered, NEW u \in Users,
                    request'[q].company \in Places(u)'
             PROVE  u \in request'[q].linked \/ request'[q].company \in crossed'
  BY DEF Swept
<1>1. PICK x : x = request[q]
  OBVIOUS
<1>2. PICK y : y = request'[q]
  OBVIOUS
<1>3. PICK w : w = request[r]
  OBVIOUS
<1>4. r \in Busy /\ crossed' = crossed /\ Reach(w)
  BY <1>3 DEF Moves, Writes
<1>5. \/ q # r /\ y = x
      \/ q = r /\ x = w /\ y.company = x.company /\ x.op \in Removing /\ Finds(x, y)
  BY <1>1, <1>2, <1>3 DEF Moves, Finds, Gathered
<1>6. q \in Busy /\ x.op \in Removing
  <2>1. CASE q = r
    BY <1>4, <1>5, <2>1
  <2>2. CASE q # r
    <3>1. x.stage \in Gathering
      BY <1>2, <1>5, <2>2 DEF Gathered, Gathering
    <3> QED
      BY <1>1, <3>1, BusyIs DEF Typed, Proper, Removing
  <2> QED
    BY <2>1, <2>2
<1>7. x.company # None /\ y.company = x.company
  BY <1>1, <1>5, <1>6, WorkersAre
<1>8. \/ x.company \in Places(u)
      \/ u = w.user /\ w.op \in Adding /\ x.company = w.company
  BY <1>2, <1>4, <1>7 DEF Reach
<1>9. CASE x.company \in Places(u)
  BY <1>1, <1>2, <1>4, <1>5, <1>9 DEF Swept, Finds
<1>10. CASE w.op \in Adding /\ x.company = w.company
  <2>1. q # r
    BY <1>5, <1>6, <1>10 DEF Adding, Removing
  <2>2. Removes(x, w)
    BY <1>6, <1>10, AboutIs DEF Removes
  <2>3. x.company \in crossed
    BY <1>1, <1>3, <1>4, <1>6, <1>10, <2>1, <2>2 DEF Met
  <2> QED
    BY <1>2, <1>4, <1>7, <2>3
<1> QED
  BY <1>8, <1>9, <1>10

LEMMA MovesPanel ==
  ASSUME Typed, Typed', Panel, NEW r \in Requests, Moves(r)
  PROVE  Panel'
<1>1. used \subseteq used' /\ Gains(request[r])
  BY DEF Moves, Writes
<1>2. \A u \in Users : member'[u] # None => user'[u].panel = "company" /\ user'[u].company = None
  BY <1>1 DEF Gains
<1>3. ASSUME NEW q \in Requests, q \in Busy', request'[q].op = "updateAgent"
      PROVE  request'[q].user \in used' /\ member'[request'[q].user] = None
  <2>1. PICK u : u = request[q].user
    OBVIOUS
  <2>2. q \in Busy /\ request[q].op = "updateAgent" /\ request'[q].user = u
    BY <1>3, <2>1, AllContinue DEF Continues
  <2>3. u \in used /\ member[u] = None /\ u \in Users
    BY <2>1, <2>2 DEF Panel, Typed, HistoryTyped
  <2> QED
    BY <1>1, <2>2, <2>3 DEF Gains
<1> QED
  BY <1>2, <1>3 DEF Panel

----------------------------------------------------------------------------
(* What others rely on when a request begins *)

\* Who is not the one that begins goes on as before.
LEMMA OthersStay ==
  ASSUME NEW r \in Requests, Opens(r), NEW q \in Requests, q \in Busy', q # r
  PROVE  q \in Busy /\ request'[q] = request[q]
  BY DEF Opens, Busy

\* The one that begins is the work with which it has met the others.
LEMMA OpenerIs ==
  ASSUME NEW r \in Requests, Opens(r), r \in Busy'
  PROVE  \E w : /\ Observe(r, w) /\ Proper(w) /\ w.linked = {} /\ SameWork(request'[r], w)
                /\ request'[r].stage \in {"checked", "mailing"}
                /\ request'[r].stage = "checked" => Sound(w)
                /\ w.op = "updateAgent" => AnyUser(w.user, "app")
<1>1. request'[r].stage # "done"
  BY DEF Busy
<1> QED
  BY <1>1 DEF Opens

LEMMA ProperUser ==
  ASSUME NEW w, Proper(w)
  PROVE  w.user \in Users \cup {None} /\ w.company \in Companies \cup {None}
  BY DEF Proper, Calls

LEMMA OpensApart ==
  ASSUME Typed, Apart, NEW r \in Requests, Opens(r)
  PROVE  Apart'
<1> SUFFICES ASSUME NEW p \in Requests, NEW q \in Requests, p \in Busy', q \in Busy', p # q,
                    q \notin contested'
             PROVE  ~SameThing(request[p], request[q])'
  BY DEF Apart
<1>1. PICK v : v = request'[p]
  OBVIOUS
<1>2. PICK y : y = request'[q]
  OBVIOUS
<1>3. Still /\ q \notin contested
  BY DEF Opens
<1>4. SUFFICES ~SameThing(v, y)'
  BY <1>1, <1>2, NextThing
<1>5. CASE p # r /\ q # r
  <2>1. p \in Busy /\ v = request[p] /\ q \in Busy /\ y = request[q]
    BY <1>1, <1>2, <1>5, OthersStay
  <2>2. ~SameThing(v, y)
    BY <1>3, <2>1 DEF Apart
  <2> QED
    BY <1>3, <2>1, <2>2, StillThing, WorkersAre
<1>6. CASE p = r
  <2>1. q \in Busy /\ y = request[q]
    BY <1>2, <1>6, OthersStay
  <2>2. PICK w : Observe(r, w) /\ Proper(w) /\ SameWork(v, w)
    BY <1>1, <1>6, OpenerIs
  <2>3. ~SameThing(y, w)
    BY <1>6, <2>1, <2>2 DEF Observe
  <2>4. ~SameThing(v, y)
    BY <2>2, <2>3, SameWorkIs, SameThingIsMutual
  <2>5. v.user \in Users \cup {None}
    BY <2>2, ProperUser DEF SameWork
  <2> QED
    BY <1>3, <2>1, <2>4, <2>5, StillThing, WorkersAre
<1>7. CASE q = r
  <2>1. p \in Busy /\ v = request[p]
    BY <1>1, <1>7, OthersStay
  <2>2. PICK w : Observe(r, w) /\ Proper(w) /\ SameWork(y, w)
    BY <1>2, <1>7, OpenerIs
  <2>3. ~SameThing(v, w)
    BY <1>7, <2>1, <2>2 DEF Observe
  <2>4. ~SameThing(v, y)
    BY <2>2, <2>3, SameWorkIs
  <2>5. y.user \in Users \cup {None}
    BY <2>2, ProperUser DEF SameWork
  <2> QED
    BY <1>3, <2>1, <2>4, <2>5, StillThing, WorkersAre
<1> QED
  BY <1>5, <1>6, <1>7

LEMMA OpensReliable ==
  ASSUME Typed, Reliable, NEW r \in Requests, Opens(r)
  PROVE  Reliable'
<1> SUFFICES ASSUME NEW q \in Requests, q \in Busy', q \notin contested',
                    request'[q].stage = "checked"
             PROVE  Sound(request[q])'
  BY DEF Reliable
<1>1. PICK y : y = request'[q]
  OBVIOUS
<1>2. Still /\ q \notin contested
  BY DEF Opens
<1>3. SUFFICES Sound(y)'
  BY <1>1, NextThing
<1>4. CASE q # r
  <2>1. q \in Busy /\ y = request[q]
    BY <1>1, <1>4, OthersStay
  <2>2. Sound(y) /\ Proper(y)
    BY <1>1, <1>2, <2>1, WorkersAre DEF Reliable
  <2> QED
    BY <1>2, <2>2, StillSound
<1>5. CASE q = r
  <2>1. PICK w : Proper(w) /\ SameWork(y, w) /\ Sound(w)
    BY <1>1, <1>5, OpenerIs
  <2>2. Sound(w)'
    BY <1>2, <2>1, StillSound
  <2> QED
    BY <2>1, <2>2 DEF SameWork, Sound, HeldBy, LiveHolders, SlugFree, Exists
<1> QED
  BY <1>4, <1>5

LEMMA OpensMet ==
  ASSUME Typed, Met, NEW r \in Requests, Opens(r)
  PROVE  Met'
<1> SUFFICES ASSUME NEW p \in Requests, NEW q \in Requests, p \in Busy', q \in Busy', p # q,
                    request'[q].op \in Adding, Removes(request[p], request[q])'
             PROVE  request'[p].company \in crossed'
  BY DEF Met
<1>1. PICK v : v = request'[p]
  OBVIOUS
<1>2. PICK y : y = request'[q]
  OBVIOUS
<1>3. Still /\ crossed \subseteq crossed'
  BY DEF Opens
<1>4. Removes(v, y)'
  BY <1>1, <1>2, NextThing
<1>5. CASE p # r /\ q # r
  <2>1. p \in Busy /\ v = request[p] /\ q \in Busy /\ y = request[q]
    BY <1>1, <1>2, <1>5, OthersStay
  <2>2. Removes(v, y)
    BY <1>3, <1>4, <2>1, StillThing, WorkersAre
  <2> QED
    BY <1>1, <1>2, <1>3, <2>1, <2>2 DEF Met
<1>6. CASE p = r
  <2>1. q \in Busy /\ y = request[q]
    BY <1>2, <1>6, OthersStay
  <2>2. PICK w : Observe(r, w) /\ Proper(w) /\ SameWork(v, w)
    BY <1>1, <1>6, OpenerIs
  <2>3. v.user \in Users \cup {None}
    BY <2>2, ProperUser DEF SameWork
  <2>4. Removes(v, y)
    BY <1>3, <1>4, <2>1, <2>3, StillThing, WorkersAre
  <2>5. Removes(w, y) /\ y.op \in Adding
    BY <1>2, <2>2, <2>4, SameWorkIs
  <2>6. w.company \in Crossing(y, w)
    BY <2>5 DEF Crossing
  <2>7. w.company \in crossed'
    BY <1>6, <2>1, <2>2, <2>6 DEF Observe
  <2> QED
    BY <1>1, <2>2, <2>7 DEF SameWork
<1>7. CASE q = r
  <2>1. p \in Busy /\ v = request[p]
    BY <1>1, <1>7, OthersStay
  <2>2. PICK w : Observe(r, w) /\ Proper(w) /\ SameWork(y, w)
    BY <1>2, <1>7, OpenerIs
  <2>3. y.user \in Users \cup {None}
    BY <2>2, ProperUser DEF SameWork
  <2>4. Removes(v, y)
    BY <1>3, <1>4, <2>1, <2>3, StillThing, WorkersAre
  <2>5. Removes(v, w) /\ w.op \in Adding
    BY <1>2, <2>2, <2>4, SameWorkIs DEF SameWork
  <2>6. v.company \in Crossing(v, w)
    BY <2>5 DEF Crossing
  <2>7. v.company \in crossed'
    BY <1>7, <2>1, <2>2, <2>6 DEF Observe
  <2> QED
    BY <1>1, <2>7
<1> QED
  BY <1>5, <1>6, <1>7

LEMMA OpensLinked ==
  ASSUME Typed, Linked, Swept, NEW r \in Requests, Opens(r)
  PROVE  Linked' /\ Swept'
<1>1. Still /\ crossed \subseteq crossed'
  BY DEF Opens
<1>2. \A u \in Users : Places(u)' = Places(u) /\ (Exists(u)' <=> Exists(u)) /\ used' = used
  BY <1>1, StillPlaces DEF Still, Exists
<1>3. ASSUME NEW q \in Requests, q \in Busy', NEW u \in request'[q].linked
      PROVE  /\ u \in used' /\ request'[q].op \in Removing
             /\ Exists(u)' => request'[q].company \in crossed' \cup Places(u)'
  <2>1. q # r
    BY <1>3, OpenerIs DEF SameWork
  <2>2. q \in Busy /\ request'[q] = request[q]
    BY <1>3, <2>1, OthersStay
  <2>3. u \in used /\ u \in Users
    BY <1>3, <2>2, WorkersAre DEF Linked
  <2> QED
    BY <1>1, <1>2, <1>3, <2>2, <2>3 DEF Linked
<1>4. ASSUME NEW q \in Requests, request'[q].stage \in Gathered, NEW u \in Users,
             request'[q].company \in Places(u)'
      PROVE  u \in request'[q].linked \/ request'[q].company \in crossed'
  <2>1. q # r
    BY <1>4 DEF Opens, Gathered
  <2>2. request'[q] = request[q]
    BY <2>1 DEF Opens
  <2> QED
    BY <1>1, <1>2, <1>4, <2>2 DEF Swept
<1> QED
  BY <1>3, <1>4 DEF Linked, Swept

LEMMA OpensPanel ==
  ASSUME Typed, Births, Panel, NEW r \in Requests, Opens(r)
  PROVE  Panel'
<1>1. Still
  BY DEF Opens
<1>2. \A u \in Users : member'[u] # None => user'[u].panel = "company" /\ user'[u].company = None
  BY <1>1 DEF Still, Panel
<1>3. ASSUME NEW q \in Requests, q \in Busy', request'[q].op = "updateAgent"
      PROVE  request'[q].user \in used' /\ member'[request'[q].user] = None
  <2>1. PICK y : y = request'[q]
    OBVIOUS
  <2>2. CASE q # r
    <3>1. q \in Busy /\ y = request[q]
      BY <1>3, <2>1, <2>2, OthersStay
    <3>2. y.user \in used /\ member[y.user] = None /\ y.user \in Users
      BY <1>3, <2>1, <3>1 DEF Panel, Typed, HistoryTyped
    <3> QED
      BY <1>1, <2>1, <3>2 DEF Still
  <2>3. CASE q = r
    <3>1. PICK w : Proper(w) /\ SameWork(y, w) /\ (w.op = "updateAgent" => AnyUser(w.user, "app"))
      BY <1>3, <2>1, <2>3, OpenerIs
    <3>2. y.user = w.user /\ w.op = "updateAgent"
      BY <1>3, <2>1, <3>1 DEF SameWork
    <3>3. w.user \in Users /\ user[w.user] # None /\ user[w.user].panel = "app"
      BY <3>1, <3>2 DEF Proper, Removing, AnyUser, Exists
    <3>4. w.user \in used /\ member[w.user] = None
      BY <3>3 DEF Births, Panel
    <3> QED
      BY <1>1, <2>1, <3>2, <3>3, <3>4 DEF Still
  <2> QED
    BY <2>2, <2>3
<1> QED
  BY <1>2, <1>3 DEF Panel

----------------------------------------------------------------------------
(* Overlaps, in every state *)

LEMMA InitOverlap == Init => Overlap
<1> SUFFICES ASSUME Init PROVE Overlap
  OBVIOUS
<1>1. \A r \in Requests : request[r] = Ready /\ request[r].stage = "ready" /\ r \notin Busy
  BY DEF Init, Ready, Busy
<1>2. Apart /\ Reliable /\ Met /\ Linked
  BY <1>1 DEF Apart, Reliable, Met, Linked
<1>3. Swept /\ FailuresExplained
  BY <1>1 DEF Swept, FailuresExplained, Gathered
<1>4. Panel
  BY <1>1 DEF Init, Panel
<1> QED
  BY <1>2, <1>3, <1>4 DEF Overlap

LEMMA MovesOverlap ==
  ASSUME Typed, Typed', Births, Overlap, NEW r \in Requests, Moves(r), Explained(r)
  PROVE  Overlap'
<1>1. Apart /\ Reliable /\ Met /\ Linked /\ Swept /\ Panel /\ FailuresExplained
  BY DEF Overlap
<1>2. Apart' /\ Reliable' /\ Met' /\ Linked' /\ Swept' /\ Panel'
  BY <1>1, MovesApart, MovesReliable, MovesMet, MovesLinked, MovesSwept, MovesPanel
<1>3. contested' = contested /\ \A q \in Requests : q # r => request'[q] = request[q]
  BY DEF Moves
<1>4. FailuresExplained'
  BY <1>1, <1>3 DEF FailuresExplained, Explained
<1> QED
  BY <1>2, <1>4 DEF Overlap

LEMMA OpensOverlap ==
  ASSUME Typed, Births, Overlap, NEW r \in Requests, Opens(r)
  PROVE  Overlap'
<1>1. Apart /\ Reliable /\ Met /\ Linked /\ Swept /\ Panel /\ FailuresExplained
  BY DEF Overlap
<1>2. Apart' /\ Reliable' /\ Met' /\ Linked' /\ Swept' /\ Panel'
  BY <1>1, OpensApart, OpensReliable, OpensMet, OpensLinked, OpensPanel
<1>3. /\ contested \subseteq contested' /\ \A q \in Requests : q # r => request'[q] = request[q]
      /\ request'[r].stage = "done" => request'[r].answer \notin {"failed", "held"}
  BY DEF Opens
<1>4. FailuresExplained'
  BY <1>1, <1>3 DEF FailuresExplained
<1> QED
  BY <1>2, <1>4 DEF Overlap

LEMMA SameOverlap ==
  ASSUME Overlap, UNCHANGED <<company, user, member, request, used, contested, crossed>>
  PROVE  Overlap'
<1>1. Apart' /\ Met'
  BY DEF Overlap, Apart, Met, Busy, SameThing, Removes, Involved, Addresses, Exists
<1>2. Reliable'
  BY DEF Overlap, Reliable, Busy, Sound, HeldBy, LiveHolders, SlugFree, Exists
<1>3. Linked' /\ Swept'
  BY DEF Overlap, Linked, Swept, Busy, Places, Exists
<1>4. Panel' /\ FailuresExplained'
  BY DEF Overlap, Panel, Busy, FailuresExplained
<1> QED
  BY <1>1, <1>2, <1>3, <1>4 DEF Overlap

LEMMA StepOverlap ==
  ASSUME Typed, Rest, Overlap, [Next]_vars
  PROVE  Overlap'
<1>1. Typed'
  BY StepTyped DEF Rest
<1>2. Births /\ Panel /\ Reliable /\ Swept
  BY DEF Rest, Overlap
<1>3. CASE \E r \in Requests : Begin(r)
  BY <1>2, <1>3, BeginOpens, OpensOverlap
<1>4. CASE \E r \in Requests : Finish(r)
  BY <1>1, <1>2, <1>4, FinishMoves, FinishExplained, MovesOverlap
<1>5. CASE \E u \in Users : ChangePassword(u)
  BY <1>5, ChangePasswordIs, SameOverlap DEF History
<1>6. CASE UNCHANGED vars
  BY <1>6, SameOverlap DEF vars
<1> QED
  BY <1>3, <1>4, <1>5, <1>6 DEF Next

\* Users go for good with the company they are of.
LEMMA OwnUsersGo ==
  ASSUME Typed, Linked, NEW r \in Requests, request[r].stage = "collected", Finish(r),
         NEW u \in Users, Exists(u), user'[u] = None
  PROVE  \/ request[r].company \in crossed \/ user[u].company = request[r].company
         \/ member[u] # None /\ member[u].company = request[r].company
<1>1. EraseCompany(r) \/ Fail(r)
  BY DEF Finish, InsertCompany, InsertMember, InsertUser, InsertAgent, Deliver, Lose, SaveMember,
         DropMember, DropMemberAndUser, DropCompany, ReadMembers, ReadAssigned, Collect, Read,
         SaveUser, SaveAgent, Mark,
         EraseUser, At
<1>2. EraseCompany(r)
  BY <1>1 DEF Fail, Rows, Exists
<1>3. PICK w : w = request[r]
  OBVIOUS
<1>4. /\ r \in Busy /\ w.linked \in SUBSET Users /\ w.company \in Companies \cup {None}
      /\ Erased(w.linked, w.company)
  BY <1>2, <1>3, EraseCompanyIs
<1>5. u \in w.linked
  <2>1. u \notin w.linked => (user'[u] # None <=> user[u] # None)
    <3>1. PICK gone \in SUBSET Users, c \in Companies \cup {None} : gone = w.linked /\ c = w.company
      BY <1>4
    <3>2. Erased(gone, c) /\ RowsTyped /\ AddressesDiffer /\ HistoryTyped
      BY <1>4, <3>1 DEF Typed
    <3>3. Erasure(u, gone, c)
      BY <3>1, <3>2, ErasedIs
    <3> QED
      BY <3>1, <3>3 DEF Erasure
  <2> QED
    BY <2>1 DEF Exists
<1>6. w.company \in crossed \cup Places(u)
  BY <1>3, <1>4, <1>5 DEF Linked
<1> QED
  BY <1>3, <1>6 DEF Places

LEMMA StepOwnUsers ==
  ASSUME Typed, Rest, Overlap, [Next]_vars, NEW r \in Requests, request[r].stage = "collected",
         request'[r] # request[r], NEW u \in Users, Exists(u), user'[u] = None
  PROVE  \/ request[r].company \in crossed \/ user[u].company = request[r].company
         \/ member[u] # None /\ member[u].company = request[r].company
<1>1. \A q \in Requests : ~Begin(q)
  BY BeginOpens DEF Opens, Still, Exists
<1>2. ~UNCHANGED user
  BY DEF Exists
<1>3. PICK q \in Requests : Finish(q)
  BY <1>1, <1>2 DEF Next, vars, ChangePassword
<1>4. q = r
  BY <1>3, FinishMoves DEF Moves, Overlap
<1> QED
  BY <1>3, <1>4, OwnUsersGo DEF Overlap

----------------------------------------------------------------------------
(* Theorems *)

IInv == Typed /\ Rest /\ Known /\ Overlap

\* What is proved of every state: the rows' types, what requests under way rely on, what
\* every user was told, and what overlaps can do to a request.
THEOREM DirectoryInvariant == Spec => []IInv
<1>1. Init => IInv
  BY InitTyped, InitRest, InitOverlap DEF IInv
<1>2. IInv /\ [Next]_vars => IInv'
  BY StepTyped, StepRest, KnownStep, StepOverlap DEF IInv
<1> QED
  BY <1>1, <1>2, PTL DEF Spec

\* The shape of every variable, and no two users share an e-mail, whatever requests
\* overlap: the unique index of user.email, and what inserts and updates do at it.
THEOREM DirectoryTypeCorrect == Spec => []TypeOK
<1>1. IInv => TypeOK
  BY TypedIs DEF IInv
<1> QED
  BY <1>1, DirectoryInvariant, PTL

\* Members are in step with their companies unless they came while the company was
\* removed: createMember, softDeleteCompanyById, restoreCompanyById and the permanent
\* removal of companies and users, in any interleaving.
THEOREM MembersInStep == Spec => []MembershipsInStep
<1>1. IInv => MembershipsInStep
  BY InStep DEF IInv
<1> QED
  BY <1>1, DirectoryInvariant, PTL

\* Whoever was mailed the issued password once knows the one the account accepts:
\* resendCredentials stores it again, in any overlap and with mails lost.
THEOREM PasswordsKnown == Spec => []PasswordKnown
<1>1. IInv => PasswordKnown
  BY KnownIs DEF IInv
<1> QED
  BY <1>1, DirectoryInvariant, PTL

\* No request is answered 500 that met no other about the same row, e-mail or slug, but
\* where the code leaves it to the index: what checks find holds until the transaction of
\* a request that met nobody, for the handlers of company/main, company/members and
\* ikyomm/users in any interleaving, and the mails and crashes between.
THEOREM FailuresAreExplained == Spec => []FailuresExplained
<1>1. IInv => FailuresExplained
  BY DEF IInv, Overlap
<1> QED
  BY <1>1, DirectoryInvariant, PTL

\* The permanent removal of a company takes with it only users that are of it when it
\* deletes them, or some that it met on their way in or out: it deletes a list it read
\* some statements before.
THEOREM RemovalsTakeTheirOwn == Spec => RemovalTakesOwnUsers
<1>1. IInv /\ [Next]_vars =>
        [\A r \in Requests : request[r].stage = "collected" /\ request'[r] # request[r] =>
           \A u \in Users : Exists(u) /\ user'[u] = None =>
             LET c == request[r].company IN
             \/ c \in crossed \/ user[u].company = c
             \/ member[u] # None /\ member[u].company = c]_vars
  BY StepOwnUsers DEF IInv
<1> QED
  BY <1>1, DirectoryInvariant, PTL DEF Spec, RemovalTakesOwnUsers
=============================================================================
