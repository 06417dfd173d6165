----------------------------- MODULE Directory -----------------------------
(***************************************************************************)
(* Companies, their members, the users of the administration and of the    *)
(* app, and the passwords issued to them: the routers company/main and     *)
(* company/members of the kernel and company services, and ikyomm/users of *)
(* the kernel service.  A handler reads, decides and writes in one         *)
(* transaction; nothing keeps what it read from changing before it writes  *)
(* but the unique indexes and foreign keys of the schema.                  *)
(***************************************************************************)
EXTENDS Naturals, FiniteSets

CONSTANTS
  Requests,     \* calls of a handler, each made at most once
  Users,        \* ids: generateUID never repeats one
  Emails, Slugs,
  MaxCompanies, \* bound: ids of companies
  MaxBusy,      \* bound: requests under way at once
  None

Companies == 1..MaxCompanies
Panels == {"ikyomm", "company", "app"}

\* Rows of organization, user and member.
CompanyRow == [slug : Slugs, deleted : BOOLEAN]
UserRow == [panel : Panels, email : Emails, company : Companies \cup {None}, deleted : BOOLEAN]
MemberRow == [company : Companies, owner : BOOLEAN, deleted : BOOLEAN]

Answers == {"ok", "conflict", "not found", "bad request", "held", "failed", "unsent", "aborted"}

ASSUME DirectoryAssumption ==
  /\ MaxCompanies \in Nat /\ MaxBusy \in Nat
  /\ None \notin Users \cup Emails \cup Slugs \cup Nat
  /\ None \notin CompanyRow \cup UserRow \cup MemberRow \cup Answers

VARIABLES
  company,  \* rows of organization
  user,     \* rows of user
  member,   \* rows of member, by user: no handler makes a second one
  password, \* what a user's account accepts
  request,
  (* history variables, read by properties only *)
  told,      \* passwords a user has chosen or was mailed
  used,      \* ids that have had a row
  home,      \* the company a user was created in
  contested, \* requests that overlapped one about the same row, e-mail or slug
  crossed    \* companies removed for good, or removed, while users came or left

vars == <<company, user, member, password, request, told, used, home, contested, crossed>>

Passwords == {"issued", "own"}

Adding == {"createCompany", "createMember", "createAgent", "updateAgent"}
Removing == {"removeCompany", "removeCompanyPermanently"}
Ops == Adding \cup Removing \cup
  {"updateMember", "removeMember", "removeMemberAndUser", "resendCredentials",
   "createUser", "updateUser", "removeUser", "restoreUser", "removeUserPermanently"}

Ready == [stage |-> "ready"]
Done(op, answer) == [stage |-> "done", op |-> op, answer |-> answer]
\* A request between its checks and its answer: what it is about, and the users it
\* has found linked to a company it removes for good.
Work(op, c, u, e, s) == [stage |-> "checked", op |-> op, company |-> c, user |-> u,
                         email |-> e, slug |-> s, linked |-> {}]

Init ==
  /\ company = [c \in Companies |-> None]
  /\ user = [u \in Users |-> None]
  /\ member = [u \in Users |-> None]
  /\ password = [u \in Users |-> "issued"]
  /\ request = [r \in Requests |-> Ready]
  /\ told = [u \in Users |-> {}]
  /\ used = {}
  /\ home = [u \in Users |-> None]
  /\ contested = {} /\ crossed = {}

Exists(u) == user[u] # None
LiveUser(u, panel) == Exists(u) /\ user[u].panel = panel /\ ~user[u].deleted
AnyUser(u, panel) == Exists(u) /\ user[u].panel = panel
LiveCompany(c) == company[c] # None /\ ~company[c].deleted
\* findMemberById: the user may be deleted, and the company.
LiveMember(u) == member[u] # None /\ ~member[u].deleted

\* The unique index of user.email counts every row; the checks of kernel users and
\* agents count those not deleted.
HeldBy(e) == {u \in Users : Exists(u) /\ user[u].email = e}
LiveHolders(e) == {u \in HeldBy(e) : ~user[u].deleted}

-----------------------------------------------------------------------------
\* Requests.

Busy == {r \in Requests : request[r].stage \notin {"ready", "done"}}

\* The companies and e-mails a request is about, its own or its user's.
Involved(w) ==
  LET u == w.user IN
  {w.company} \cup (IF u = None \/ ~Exists(u) THEN {}
                    ELSE {user[u].company} \cup (IF member[u] = None THEN {} ELSE {member[u].company}))

Addresses(w) ==
  {w.email} \cup (IF w.user = None \/ ~Exists(w.user) THEN {} ELSE {user[w.user].email})

Removes(v, w) == v.op \in Removing /\ (v.company \in Involved(w) \/ w.user \in v.linked)

\* Two requests are about the same row, e-mail or slug, or the same next id.
SameThing(v, w) ==
  \/ v.user # None /\ v.user = w.user
  \/ (Addresses(v) \cap Addresses(w)) \ {None} # {}
  \/ v.op = "createCompany" /\ w.op = "createCompany"
  \/ Removes(v, w) \/ Removes(w, v)

Crossing(v, w) == (IF w.op \in Adding /\ Removes(v, w) THEN {v.company} ELSE {})
                  \cup (IF v.op \in Adding /\ Removes(w, v) THEN {w.company} ELSE {})

\* The checks of request r are passed, or its only statement is made.
Observe(r, w) ==
  LET rivals == {q \in Busy \ {r} : SameThing(request[q], w)} IN
  /\ contested' = contested \cup rivals \cup (IF rivals = {} THEN {} ELSE {r})
  /\ crossed' = crossed \cup UNION {Crossing(request[q], w) : q \in Busy \ {r}}

Start(r) == request[r] = Ready /\ Cardinality(Busy) < MaxBusy
Answer(r, answer) == request' = [request EXCEPT ![r] = Done(@.op, answer)]
Rows == <<company, user, member, password>>
History == <<contested, crossed>>

\* The outcome of a handler's checks: an early answer, or the work that follows.
Check(r, refusal, w) ==
  /\ Start(r)
  /\ request' = [request EXCEPT ![r] = IF refusal # None THEN Done(w.op, refusal) ELSE w]
  /\ Observe(r, w)
  /\ UNCHANGED <<Rows, told, used, home>>

At(r, op) == request[r].stage = "checked" /\ request[r].op = op

\* A transaction that violates an index or a foreign key, or whose UPDATE returns no
\* row, is answered 500. "held": a row that is deleted holds the e-mail.
Refuse(r) ==
  LET e == request[r].email
      holders == IF e = None THEN {} ELSE HeldBy(e) \ {request[r].user} IN
  /\ Answer(r, IF holders # {} /\ holders \cap LiveHolders(e) = {} THEN "held" ELSE "failed")
  /\ UNCHANGED <<Rows, told, used, home, History>>

EmailFree(r) ==
  LET w == request[r] IN w.email = None \/ HeldBy(w.email) \subseteq {w.user}

\* generateUID
Fresh == {u \in Users : u \notin used /\ \A r \in Busy : request[r].user # u}

-----------------------------------------------------------------------------
\* Creation.

NewUser(u, panel, e, c) ==
  /\ user' = [user EXCEPT ![u] = [panel |-> panel, email |-> e, company |-> c, deleted |-> FALSE]]
  /\ password' = [password EXCEPT ![u] = "issued"]
  /\ used' = used \cup {u}

\* The credentials are on their way: the handler has answered, or waits for the mail.
Mail(r, u) == request' = [request EXCEPT ![r].stage = "mailing", ![r].user = u]

\* findNextCompanyId: the greatest id and one more.
NextCompanyId ==
  LET ids == {c \in Companies : company[c] # None} IN
  IF ids = {} THEN 1 ELSE 1 + CHOOSE c \in ids : \A d \in ids : d <= c

SlugFree(s) == \A c \in Companies : company[c] # None => company[c].slug # s

CreateCompany(r) ==
  \E e \in Emails, s \in Slugs, u \in Fresh :
    /\ NextCompanyId \in Companies
    /\ Check(r, IF SlugFree(s) /\ HeldBy(e) = {} THEN None ELSE "conflict",
             Work("createCompany", NextCompanyId, u, e, s))

\* The transaction: user, account, organization, member. Wallets has its credit.
InsertCompany(r) ==
  LET w == request[r] IN
  /\ At(r, "createCompany")
  /\ IF EmailFree(r) /\ SlugFree(w.slug) /\ company[w.company] = None
     THEN /\ company' = [company EXCEPT ![w.company] = [slug |-> w.slug, deleted |-> FALSE]]
          /\ NewUser(w.user, "company", w.email, None)
          /\ member' = [member EXCEPT ![w.user] =
                          [company |-> w.company, owner |-> TRUE, deleted |-> FALSE]]
          /\ home' = [home EXCEPT ![w.user] = w.company]
          /\ Mail(r, w.user)
          /\ UNCHANGED <<told, History>>
     ELSE Refuse(r)

CreateMember(r) ==
  \E c \in Companies, e \in Emails, u \in Fresh :
    Check(r, IF ~LiveCompany(c) THEN "not found"
             ELSE IF HeldBy(e) # {} THEN "conflict" ELSE None,
          Work("createMember", c, u, e, None))

\* The company may be deleted by now; its row must be there.
InsertMember(r) ==
  LET w == request[r] IN
  /\ At(r, "createMember")
  /\ IF EmailFree(r) /\ company[w.company] # None
     THEN /\ NewUser(w.user, "company", w.email, None)
          /\ member' = [member EXCEPT ![w.user] =
                          [company |-> w.company, owner |-> FALSE, deleted |-> FALSE]]
          /\ home' = [home EXCEPT ![w.user] = w.company]
          /\ Mail(r, w.user)
          /\ UNCHANGED <<company, told, History>>
     ELSE Refuse(r)

\* Mutant: the e-mail is not checked.
CreateUserUnchecked(r) ==
  \E e \in Emails, u \in Fresh : Check(r, None, Work("createUser", None, u, e, None))

CreateUser(r) ==
  \E e \in Emails, u \in Fresh :
    Check(r, IF LiveHolders(e) # {} THEN "conflict" ELSE None,
          Work("createUser", None, u, e, None))

InsertUser(r) ==
  LET w == request[r] IN
  /\ At(r, "createUser")
  /\ IF EmailFree(r)
     THEN /\ NewUser(w.user, "ikyomm", w.email, None)
          /\ Mail(r, w.user)
          /\ UNCHANGED <<company, member, told, home, History>>
     ELSE Refuse(r)

\* An app user, of a company or of none.
CreateAgent(r) ==
  \E e \in Emails, u \in Fresh, c \in Companies \cup {None} :
    Check(r, IF LiveHolders(e) # {} THEN "conflict"
             ELSE IF c # None /\ ~LiveCompany(c) THEN "bad request" ELSE None,
          Work("createAgent", c, u, e, None))

InsertAgent(r) ==
  LET w == request[r] IN
  /\ At(r, "createAgent")
  /\ IF EmailFree(r) /\ (w.company # None => company[w.company] # None)
     THEN /\ NewUser(w.user, "app", w.email, w.company)
          /\ home' = [home EXCEPT ![w.user] = w.company]
          /\ Mail(r, w.user)
          /\ UNCHANGED <<company, member, told, History>>
     ELSE Refuse(r)

-----------------------------------------------------------------------------
\* Credentials. The password issued at creation can be recovered from the account's
\* id: to resend is to store it again and to mail it.

\* Mutant: a new password is made for every mail.
ResetAnew(u) == password' = [password EXCEPT ![u] = "new"]

Reset(u) == password' = [password EXCEPT ![u] = "issued"]

Resend(r, candidates) ==
  /\ Start(r)
  /\ IF candidates = {}
     THEN /\ request' = [request EXCEPT ![r] = Done("resendCredentials", "not found")]
          /\ UNCHANGED <<password, History>>
     ELSE \E u \in candidates :
            LET w == Work("resendCredentials", None, u, None, None) IN
            /\ Reset(u)
            /\ request' = [request EXCEPT ![r] = [w EXCEPT !.stage = "mailing"]]
            /\ Observe(r, w)
  /\ UNCHANGED <<company, user, member, told, used, home>>

\* findOwnerMemberByOrganizationId: the owner, or the first member if there is none.
OwnerMember(c) ==
  LET members == {u \in Users : /\ LiveMember(u) /\ member[u].company = c
                                /\ ~user[u].deleted}
      owners == {u \in members : member[u].owner}
  IN  IF owners # {} THEN owners ELSE members

ResendCompany(r) ==
  \E c \in Companies : Resend(r, IF LiveCompany(c) THEN OwnerMember(c) ELSE {})

ResendMember(r) ==
  \E u \in Users :
    Resend(r, IF LiveMember(u) /\ ~user[u].deleted /\ LiveCompany(member[u].company)
              THEN {u} ELSE {})

ResendUser(r) == \E u \in Users : Resend(r, IF LiveUser(u, "ikyomm") THEN {u} ELSE {})
ResendAgent(r) == \E u \in Users : Resend(r, IF LiveUser(u, "app") THEN {u} ELSE {})

\* The mail arrives; or it is lost, which only those who resend and wait are told.
Deliver(r) ==
  LET u == request[r].user IN
  /\ request[r].stage = "mailing"
  /\ Answer(r, "ok")
  /\ told' = [told EXCEPT ![u] = IF Exists(u) THEN @ \cup {"issued"} ELSE @]
  /\ UNCHANGED <<Rows, used, home, History>>

Lose(r) ==
  /\ request[r].stage = "mailing"
  /\ Answer(r, IF /\ request[r].op = "resendCredentials"
                  /\ ~AnyUser(request[r].user, "ikyomm") THEN "unsent" ELSE "ok")
  /\ UNCHANGED <<Rows, told, used, home, History>>

\* Better Auth: users choose passwords of their own.
ChangePassword(u) ==
  /\ Exists(u) /\ told[u] # {}
  /\ password' = [password EXCEPT ![u] = "own"]
  /\ told' = [told EXCEPT ![u] = @ \cup {"own"}]
  /\ UNCHANGED <<company, user, member, request, used, home, History>>

-----------------------------------------------------------------------------
\* Members.

\* Nothing checks the new e-mail. Neither user nor member need be there any more.
UpdateMember(r) ==
  \E u \in Users, e \in Emails :
    Check(r, IF LiveMember(u) THEN None ELSE "not found",
          Work("updateMember", IF member[u] = None THEN None ELSE member[u].company, u, e, None))

SaveMember(r) ==
  LET w == request[r] IN
  /\ At(r, "updateMember")
  /\ IF EmailFree(r) /\ member[w.user] # None
     THEN /\ user' = [user EXCEPT ![w.user].email = w.email]
          /\ Answer(r, "ok")
          /\ UNCHANGED <<company, member, password, told, used, home, History>>
     ELSE Refuse(r)

FindMember(r, op) ==
  \E u \in Users : Check(r, IF LiveMember(u) THEN None ELSE "not found",
                         Work(op, None, u, None, None))

\* remove and softDelete do the same.
RemoveMember(r) == FindMember(r, "removeMember")
RemoveMemberAndUser(r) == FindMember(r, "removeMemberAndUser")

DropMember(r) ==
  LET u == request[r].user IN
  /\ At(r, "removeMember")
  /\ member' = IF member[u] = None THEN member ELSE [member EXCEPT ![u].deleted = TRUE]
  /\ Answer(r, "ok")
  /\ UNCHANGED <<company, user, password, told, used, home, History>>

DropMemberAndUser(r) ==
  LET u == request[r].user IN
  /\ At(r, "removeMemberAndUser")
  /\ member' = IF member[u] = None THEN member ELSE [member EXCEPT ![u].deleted = TRUE]
  /\ user' = IF Exists(u) THEN [user EXCEPT ![u].deleted = TRUE] ELSE user
  /\ Answer(r, "ok")
  /\ UNCHANGED <<company, password, told, used, home, History>>

-----------------------------------------------------------------------------
\* Companies.

RemoveCompany(r) ==
  \E c \in Companies :
    Check(r, IF LiveCompany(c) THEN None ELSE "not found",
          Work("removeCompany", c, None, None, None))

\* All rows of member that point to company c.
Marked(c, deleted) ==
  [u \in Users |-> IF member[u] # None /\ member[u].company = c
                   THEN [member[u] EXCEPT !.deleted = deleted] ELSE member[u]]

\* Mutant: what is related stays.
DropCompanyOnly(r) ==
  LET c == request[r].company IN
  /\ At(r, "removeCompany")
  /\ company' = IF company[c] = None THEN company ELSE [company EXCEPT ![c].deleted = TRUE]
  /\ Answer(r, "ok")
  /\ UNCHANGED <<user, member, password, told, used, home, History>>

\* softDeleteCompanyById, with what is related.
DropCompany(r) ==
  LET c == request[r].company IN
  /\ At(r, "removeCompany")
  /\ company' = IF company[c] = None THEN company ELSE [company EXCEPT ![c].deleted = TRUE]
  /\ member' = Marked(c, TRUE)
  /\ Answer(r, "ok")
  /\ UNCHANGED <<user, password, told, used, home, History>>

\* restoreCompanyById: nothing is checked.
Restored(r, all) ==
  \E c \in Companies :
    /\ Start(r)
    /\ request' = [request EXCEPT ![r] =
                     Done("restoreCompany", IF company[c] = None THEN "not found" ELSE "ok")]
    /\ company' = IF company[c] = None THEN company ELSE [company EXCEPT ![c].deleted = FALSE]
    /\ member' = IF all THEN Marked(c, FALSE) ELSE member
    /\ Observe(r, Work("restoreCompany", c, None, None, None))
    /\ UNCHANGED <<user, password, told, used, home>>

\* restore brings back every member, those who were removed one by one too.
RestoreCompany(r) == Restored(r, TRUE)
RestoreCompanyOnly(r) == Restored(r, FALSE)

RemoveCompanyPermanently(r) ==
  \E c \in Companies :
    Check(r, IF company[c] # None THEN None ELSE "not found",
          Work("removeCompanyPermanently", c, None, None, None))

MembersOf(c) == {u \in Users : member[u] # None /\ member[u].company = c}

\* Mutant: the users of any company are read.
AnyAssigned(c) == {u \in Users : Exists(u) /\ user[u].company # None}

AssignedTo(c) == {u \in Users : Exists(u) /\ user[u].company = c}

\* The transaction reads whom to delete in three statements, each of what is committed
\* when it runs,
Read(r, stage, next, found) ==
  /\ request[r].stage = stage /\ request[r].op = "removeCompanyPermanently"
  /\ request' = [request EXCEPT ![r].stage = next, ![r].linked = found]
  /\ UNCHANGED <<Rows, told, used, home, History>>

\* the members of the company,
ReadMembers(r) == Read(r, "checked", "members", MembersOf(request[r].company))

\* the users assigned to it,
ReadAssigned(r) ==
  LET w == request[r] IN Read(r, "members", "assigned", w.linked \cup AssignedTo(w.company))

\* and which of both are members of another. It deletes the rest a few statements later.
Collect(r) ==
  LET w == request[r] IN
  Read(r, "assigned", "collected",
       {u \in w.linked : member[u] # None => member[u].company = w.company})

\* ON DELETE: a user's member and account go with it; a company's members do, and its
\* users of the app stay with no company.
Erased(gone, c) ==
  /\ user' = [u \in Users |-> IF u \in gone THEN None
                              ELSE IF c # None /\ Exists(u) /\ user[u].company = c
                                   THEN [user[u] EXCEPT !.company = None] ELSE user[u]]
  /\ member' = [u \in Users |-> IF member[u] # None /\ (u \in gone \/ member[u].company = c)
                                THEN None ELSE member[u]]
  /\ told' = [u \in Users |-> IF u \in gone THEN {} ELSE told[u]]

EraseCompany(r) ==
  LET w == request[r] IN
  /\ request[r].stage = "collected"
  /\ Erased(w.linked, w.company)
  /\ company' = [company EXCEPT ![w.company] = None]
  /\ Answer(r, "ok")
  /\ UNCHANGED <<password, used, home, History>>

-----------------------------------------------------------------------------
\* Users of the administration (panel "ikyomm") and of the app.

UpdateUser(r) ==
  \E u \in Users, e \in Emails :
    Check(r, IF ~LiveUser(u, "ikyomm") THEN "not found"
             ELSE IF LiveHolders(e) \ {u} # {} THEN "conflict" ELSE None,
          Work("updateUser", None, u, e, None))

SaveUser(r) ==
  LET w == request[r] IN
  /\ At(r, "updateUser")
  /\ IF EmailFree(r) /\ Exists(w.user)
     THEN /\ user' = [user EXCEPT ![w.user].email = w.email]
          /\ Answer(r, "ok")
          /\ UNCHANGED <<company, member, password, told, used, home, History>>
     ELSE Refuse(r)

\* The company is the one asked for, or the one the user was read with.
UpdateAgent(r) ==
  \E u \in Users, e \in Emails, c \in Companies \cup {None} :
    Check(r, IF ~LiveUser(u, "app") THEN "not found"
             ELSE IF LiveHolders(e) \ {u} # {} THEN "conflict"
             ELSE IF c # None /\ ~LiveCompany(c) THEN "bad request" ELSE None,
          Work("updateAgent", c, u, e, None))

SaveAgent(r) ==
  LET w == request[r] IN
  /\ At(r, "updateAgent")
  /\ IF EmailFree(r) /\ Exists(w.user) /\ (w.company # None => company[w.company] # None)
     THEN /\ user' = [user EXCEPT ![w.user].email = w.email, ![w.user].company = w.company]
          /\ Answer(r, "ok")
          /\ UNCHANGED <<company, member, password, told, used, home, History>>
     ELSE Refuse(r)

Find(r, op, panel, found(_, _)) ==
  \E u \in Users : Check(r, IF found(u, panel) THEN None ELSE "not found",
                         Work(op, None, u, None, None))

RemoveUser(r) == Find(r, "removeUser", "ikyomm", LiveUser)
RemoveAgent(r) == Find(r, "removeUser", "app", LiveUser)
RestoreUser(r) == Find(r, "restoreUser", "ikyomm", AnyUser)
RestoreAgent(r) == Find(r, "restoreUser", "app", AnyUser)
RemoveUserPermanently(r) == Find(r, "removeUserPermanently", "ikyomm", AnyUser)
RemoveAgentPermanently(r) == Find(r, "removeUserPermanently", "app", AnyUser)

\* A removal that finds no row any more is answered 500, a restoration is not.
Mark(r) ==
  LET w == request[r] IN
  /\ At(r, "removeUser") \/ At(r, "restoreUser")
  /\ IF Exists(w.user)
     THEN /\ user' = [user EXCEPT ![w.user].deleted = (w.op = "removeUser")]
          /\ Answer(r, "ok")
          /\ UNCHANGED <<company, member, password, told, used, home, History>>
     ELSE /\ Answer(r, IF w.op = "removeUser" THEN "failed" ELSE "ok")
          /\ UNCHANGED <<Rows, told, used, home, History>>

EraseUser(r) ==
  LET w == request[r] IN
  /\ At(r, "removeUserPermanently")
  /\ Answer(r, IF Exists(w.user) THEN "ok" ELSE "failed")
  /\ Erased({w.user}, None)
  /\ UNCHANGED <<company, password, used, home, History>>

-----------------------------------------------------------------------------
\* A statement or the process fails: nothing is written, or no mail is sent.
Fail(r) ==
  /\ r \in Busy
  /\ Answer(r, "aborted")
  /\ UNCHANGED <<Rows, told, used, home, History>>

Begin(r) ==
  \/ CreateCompany(r) \/ CreateMember(r) \/ CreateUser(r) \/ CreateAgent(r)
  \/ ResendCompany(r) \/ ResendMember(r) \/ ResendUser(r) \/ ResendAgent(r)
  \/ UpdateMember(r) \/ RemoveMember(r) \/ RemoveMemberAndUser(r)
  \/ RemoveCompany(r) \/ RestoreCompany(r) \/ RestoreCompanyOnly(r)
  \/ RemoveCompanyPermanently(r)
  \/ UpdateUser(r) \/ UpdateAgent(r) \/ RemoveUser(r) \/ RemoveAgent(r)
  \/ RestoreUser(r) \/ RestoreAgent(r) \/ RemoveUserPermanently(r) \/ RemoveAgentPermanently(r)

Finish(r) ==
  \/ InsertCompany(r) \/ InsertMember(r) \/ InsertUser(r) \/ InsertAgent(r)
  \/ Deliver(r) \/ Lose(r) \/ SaveMember(r) \/ DropMember(r) \/ DropMemberAndUser(r)
  \/ DropCompany(r) \/ ReadMembers(r) \/ ReadAssigned(r) \/ Collect(r)
  \/ EraseCompany(r) \/ SaveUser(r) \/ SaveAgent(r) \/ Mark(r) \/ EraseUser(r) \/ Fail(r)

Next ==
  \/ \E r \in Requests : Begin(r) \/ Finish(r)
  \/ \E u \in Users : ChangePassword(u)

Spec == Init /\ [][Next]_vars

-----------------------------------------------------------------------------
Calls == [stage : {"checked", "mailing", "members", "assigned", "collected"}, op : Ops,
          company : Companies \cup {None}, user : Users \cup {None},
          email : Emails \cup {None}, slug : Slugs \cup {None}, linked : SUBSET Users]

\* The shape of every variable; an e-mail and a slug are used once, whoever was first.
TypeOK ==
  /\ company \in [Companies -> CompanyRow \cup {None}]
  /\ user \in [Users -> UserRow \cup {None}]
  /\ member \in [Users -> MemberRow \cup {None}]
  /\ password \in [Users -> Passwords]
  /\ request \in [Requests -> {Ready} \cup Calls
                              \cup [stage : {"done"}, op : Ops \cup {"restoreCompany"},
                                    answer : Answers]]
  /\ told \in [Users -> SUBSET Passwords] /\ used \subseteq Users
  /\ home \in [Users -> Companies \cup {None}]
  /\ contested \subseteq Requests /\ crossed \subseteq Companies
  /\ \A u, v \in Users : Exists(u) /\ Exists(v) /\ u # v => user[u].email # user[v].email

\* A user of the company panel is a member of a company; its company went for good
\* while it was created if it is not (company/main/handler.ts:459). A member that is not
\* deleted is in a company that is not, unless it came while the company was removed.
MembershipsInStep ==
  \A u \in Users :
    /\ Exists(u) /\ user[u].panel = "company" /\ member[u] = None => home[u] \in crossed
    /\ LiveMember(u) => \/ LiveCompany(member[u].company)
                        \/ member[u].company \in crossed

\* A company removed for good takes with it the users linked to it and no others,
\* unless they were moved to another company meanwhile (company/main/handler.ts:538).
RemovalTakesOwnUsers ==
  [][\A r \in Requests : request[r].stage = "collected" /\ request'[r] # request[r] =>
       \A u \in Users : Exists(u) /\ user'[u] = None =>
         LET c == request[r].company IN
         \/ c \in crossed \/ user[u].company = c
         \/ member[u] # None /\ member[u].company = c]_vars

\* A request is answered 500 only if another about the same row, e-mail or slug came
\* between its checks and its transaction; or it does not check (members/handler.ts:196),
\* or checks no deleted user (users/handler.ts:93), and the e-mail is taken.
FailuresExplained ==
  \A r \in Requests : request[r].stage = "done" =>
    /\ request[r].answer = "failed" => r \in contested \/ request[r].op = "updateMember"
    /\ request[r].answer = "held" =>
         \/ r \in contested
         \/ request[r].op \in {"createUser", "updateUser", "createAgent", "updateAgent",
                               "updateMember"}

\* Whoever was mailed the issued password once knows the one the account accepts,
\* however resends overlap and whichever of their mails are lost (members/utils.ts:150).
PasswordKnown ==
  \A u \in Users : Exists(u) /\ told[u] # {} => password[u] \in told[u]
=============================================================================
