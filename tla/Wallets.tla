------------------------------- MODULE Wallets -------------------------------
\* Credit minutes: the Ikyomm wallet, a wallet for a company and one for a user,
\* and the ledger wallet_transactions. Transactions of the kernel, the auth
\* service and the pods service move credit between them at READ COMMITTED; what
\* keeps them apart is the lock of a row, taken by an UPDATE, an upsert, a DELETE
\* or the check of a foreign key: of a wallet's owner, and of the administrator whom the
\* audit columns of a written row name (reference-columns.ts).
\*
\* A transaction's writes are applied when it commits: the rows it wrote are
\* locked until then. An account is one row of user or organization; the id of a
\* removed company may be given again (the next id is the highest one plus one),
\* that of a removed user is not.
EXTENDS Integers, FiniteSets, FiniteSetsExt

CONSTANTS
  Users, Companies,
  Admins,        \* Ikyomm administrators, who act and own no wallet
  Ikyomm,        \* the owner of the only row of ikyomm_wallet
  Nobody,
  Requests,      \* requests handled at the same time
  Watched,       \* bound: requests whose end is looked at; each is like the others
  Credits,       \* amounts a request may name
  SignUpCredit,  \* APP_SIGNUP_INITIAL_CREDIT_MINUTE
  MaxGrant,      \* bound: credit added to the Ikyomm wallet in a behaviour
  MaxNamed,      \* bound: owners whose rows name an administrator who is removed
  Marked         \* bound: accounts that are soft-deleted and restored

ASSUME WalletsAssumption ==
  /\ IsFiniteSet(Users \cup Companies) /\ Users \cap Companies = {}
  /\ Ikyomm \notin Users \cup Companies /\ Nobody \notin Users \cup Companies \cup {Ikyomm}
  /\ Admins \cap (Users \cup Companies \cup {Ikyomm, Nobody}) = {}
  /\ Credits \subseteq Nat \ {0} /\ SignUpCredit \in Nat \ {0} /\ MaxGrant \in Nat
  /\ Watched \subseteq Requests
  /\ MaxNamed \in Nat /\ Marked \subseteq Users \cup Companies

VARIABLES
  account,   \* rows of user and organization
  admin,     \* whether an administrator's row of user is there
  employer,  \* user.company
  wallet,    \* the three wallet tables
  ledger,    \* rows of wallet_transactions of a wallet and what they add up to
  granted,   \* history: credit added to the Ikyomm wallet
  spent,     \* history: credit deducted from it or spent on sessions
  erased,    \* history: credit of wallets that were removed
  req        \* transactions in progress

vars == <<account, admin, employer, wallet, ledger, granted, spent, erased, req>>
history == <<granted, spent, erased>>
tables == <<account, admin, employer, wallet, ledger>>

Accounts == Users \cup Companies
Owners == Accounts \cup {Ikyomm}
Someone == Owners \cup {Nobody}

\* Locks: a wallet row, the row of an account (to delete or insert it), an update
\* of that row, a share of it (FOR KEY SHARE, by a foreign key), the wait of a unique
\* index for who inserts or deletes a row with the same key, the ledger rows of a wallet.
Locks == {"wallet", "row", "edit", "share", "unique", "ledger"} \X (Owners \cup Admins)
Conflict(a, b) ==
  /\ a[2] = b[2]
  /\ \/ a[1] = b[1] /\ a[1] \notin {"share", "unique"}
     \/ {a[1], b[1]} \in {{"row", "edit"}, {"row", "share"}, {"row", "unique"}}

NoRows == [o \in Owners |-> 0]
Idle == [op |-> "none", pc |-> "idle", by |-> Nobody, from |-> Nobody, to |-> Nobody, n |-> 0,
         of |-> Nobody, held |-> {}, left |-> {}, seen |-> NoRows]

Init ==
  /\ account = [a \in Accounts |-> "none"]
  /\ admin = [a \in Admins |-> TRUE]
  /\ employer = [u \in Users |-> Nobody]
  /\ wallet = [o \in Owners |-> [open |-> FALSE, credit |-> 0]]
  /\ ledger = [o \in Owners |-> [rows |-> 0, net |-> 0]]
  /\ granted = 0 /\ spent = 0 /\ erased = 0
  /\ req = [r \in Requests |-> Idle]

Free(r, lock) == \A q \in Requests \ {r} : \A h \in req[q].held : ~Conflict(h, lock)
Goto(r, pc, locks) == req' = [req EXCEPT ![r].pc = pc, ![r].held = @ \cup locks]

-----------------------------------------------------------------------------
\* The handlers: what each checks before its transaction, and the transaction.

Begin(r, s) ==
  /\ req[r] = Idle
  /\ req' = [req EXCEPT ![r] = s]
  /\ UNCHANGED <<tables, history>>

\* An administrator asks, and signs what the transaction writes (created_by_user,
\* updated_by_user).
BeginSigned(r, s) == \E a \in Admins : admin[a] /\ Begin(r, [s EXCEPT !.by = a])

Pull(from, to, n) == [Idle EXCEPT !.op = "transfer", !.pc = "read", !.from = from,
                                  !.to = to, !.n = n]

\* The Ikyomm wallet is credited or debited by hand; the ledger's row is the first.
AddCredits(r, n) ==
  /\ wallet[Ikyomm].open
  /\ \/ /\ granted + n <= MaxGrant
        /\ BeginSigned(r, [Idle EXCEPT !.op = "add", !.pc = "sign", !.to = Ikyomm, !.n = n])
     \/ BeginSigned(r, [Idle EXCEPT !.op = "add", !.pc = "sign", !.from = Ikyomm, !.n = n])

\* From the Ikyomm wallet to a user without a company.
TransferUserCredits(r, u, n) ==
  /\ account[u] = "live" /\ employer[u] = Nobody
  /\ BeginSigned(r, Pull(Ikyomm, u, n))

\* From the Ikyomm wallet to a company's.
AddCompanyCredits(r, c, n) ==
  /\ account[c] = "live"
  /\ BeginSigned(r, Pull(Ikyomm, c, n))

\* From a company's wallet to a user it employs or that is a member of it; members
\* are not kept here (Directory), any user may be one.
TransferCompanyCredits(r, c, u, n) ==
  /\ account[u] = "live"
  /\ BeginSigned(r, Pull(c, u, n))

\* The app's sign-up: the initial credit is debited, then the user is inserted.
SignUp(r, u) ==
  /\ account[u] = "none"
  /\ Begin(r, [Idle EXCEPT !.op = "create", !.pc = "read", !.from = Ikyomm, !.to = u,
                           !.n = SignUpCredit])

\* The administration creates an app user, of a company or direct, with or
\* without credit; c is Nobody for a direct user. Only a user that is not
\* soft-deleted counts as a conflict.
CreateUser(r, u, c, n) ==
  /\ account[u] \in {"none", "deleted"}
  /\ c # Nobody => account[c] = "live"
  /\ BeginSigned(r, [Idle EXCEPT !.op = "create", !.to = u, !.n = n, !.of = c,
                           !.pc = IF n > 0 THEN "read" ELSE "insert",
                           !.from = IF n = 0 THEN Nobody ELSE IF c = Nobody THEN Ikyomm ELSE c])

\* The administration creates a company, whose wallet is inserted before the
\* initial credit is debited.
CreateCompany(r, c, n) ==
  /\ account[c] = "none"
  /\ BeginSigned(r, [Idle EXCEPT !.op = "company", !.to = c, !.n = n,
                           !.pc = IF n > 0 THEN "read" ELSE "insert",
                           !.from = IF n = 0 THEN Nobody ELSE Ikyomm])

\* A booking debits the user's wallet (PodSessions tells the rest).
Book(r, u, n) ==
  /\ account[u] \in {"live", "deleted"}
  /\ Begin(r, [Idle EXCEPT !.op = "book", !.pc = "read", !.from = u, !.n = n])

\* A wallet is asked for and is missing; it is inserted in a statement of its own.
CreateWallet(r, o) ==
  /\ o # Ikyomm => account[o] = "live"
  /\ ~wallet[o].open
  /\ BeginSigned(r, [Idle EXCEPT !.op = "open", !.pc = "open", !.to = o])

RemoveUser(r, u) ==
  /\ account[u] \in {"live", "deleted"}
  /\ Begin(r, [Idle EXCEPT !.op = "removeUser", !.pc = "collect", !.of = u, !.left = {u}])

\* With the company go the users it employs or has as members, unless another company
\* has them as members too: any users.
RemoveCompany(r, c) ==
  /\ account[c] \in {"live", "deleted"}
  /\ \E own \in SUBSET {u \in Users : account[u] \in {"live", "deleted"}} :
       Begin(r, [Idle EXCEPT !.op = "removeCompany", !.pc = "collect", !.of = c, !.left = own])

\* An administrator's row is deleted in a statement of its own.
RemoveAdmin(r, a) ==
  /\ admin[a]
  /\ Begin(r, [Idle EXCEPT !.op = "removeAdmin", !.pc = "deleteAdmin", !.by = a,
                           !.n = MaxNamed])

\* Soft deletion and restoration update the row alone.
Unlocked(a) == \A r \in Requests : {<<"row", a>>, <<"edit", a>>} \cap req[r].held = {}

SoftRemove(a) ==
  /\ account[a] = "live" /\ Unlocked(a)
  /\ account' = [account EXCEPT ![a] = "deleted"]
  /\ UNCHANGED <<admin, employer, wallet, ledger, history, req>>

Restore(a) ==
  /\ account[a] = "deleted" /\ Unlocked(a)
  /\ account' = [account EXCEPT ![a] = "live"]
  /\ UNCHANGED <<admin, employer, wallet, ledger, history, req>>

\* Another takes the place of an administrator whose requests are over; his row has an
\* id of its own.
Succeed(a) ==
  /\ ~admin[a] /\ \A r \in Requests : req[r].by # a
  /\ admin' = [admin EXCEPT ![a] = TRUE]
  /\ UNCHANGED <<account, employer, wallet, ledger, history, req>>

-----------------------------------------------------------------------------
\* The steps of a transaction. Wants: the locks the next step must get, all at
\* once: a row no other transaction can see yet makes nobody wait. The audit columns
\* of a row are checked when it is written and locked already, in a step of their own.

\* The rows of an owner, whose audit columns may name an administrator.
RowsOf(o) ==
       (IF wallet[o].open THEN {<<"wallet", o>>} ELSE {})
  \cup (IF ledger[o].rows > 0 THEN {<<"ledger", o>>} ELSE {})
  \cup (IF o \in Accounts /\ account[o] \in {"live", "deleted"} THEN {<<"edit", o>>} ELSE {})

Wants(r) ==
  LET s == req[r] IN
  CASE s.pc = "sign" -> {<<"share", s.by>>}
    [] s.pc = "deleteAdmin" -> {<<"row", s.by>>}
    [] s.pc = "clear" -> RowsOf(s.to)
    [] s.pc \in {"adjust", "upsert", "open"} ->
         {<<"wallet", s.to>>} \cup
         IF s.to \in Accounts /\ ~wallet[s.to].open THEN {<<"share", s.to>>} ELSE {}
    [] s.pc = "debit" -> {<<"wallet", s.from>>}
    [] s.pc = "insert" ->
         IF account[s.to] # "none" THEN {<<"unique", s.to>>}
         ELSE {<<"row", s.to>>} \cup IF s.of \in Companies THEN {<<"share", s.of>>} ELSE {}
    [] s.pc = "session" -> {<<"share", s.from>>}
    [] s.pc = "collect" ->
         {<<"ledger", o>> : o \in {p \in s.left \cup {s.of} : ledger[p].rows > 0}}
    [] s.pc \in {"deleteUser", "delete"} -> {<<"row", s.to>>}
    [] s.pc \in {"eraseUser", "erase"} ->
         IF wallet[s.to].open THEN {<<"wallet", s.to>>} ELSE {}
    [] OTHER -> {}

Granted(r) == \A l \in Wants(r) : Free(r, l)

\* Mutant: a failed transaction is not rolled back, its connection is left open.
RollbackKeepingLocks(r) ==
  /\ req' = [req EXCEPT ![r] = [Idle EXCEPT !.held = req[r].held]]
  /\ UNCHANGED <<tables, history>>

\* Rolled back: nothing was written, the locks are released.
Rollback(r) ==
  /\ req' = [req EXCEPT ![r] = Idle]
  /\ UNCHANGED <<tables, history>>

\* Anything fails at any step: a statement's timeout, the connection, the process.
Fail(r) == req[r].pc # "idle" /\ Rollback(r)

Step(r, pc) ==
  /\ Goto(r, pc, Wants(r))
  /\ UNCHANGED <<tables, history>>

\* A row was written. Its audit columns are checked, unless they name who is known to
\* be there, or `kept`: an update that finds its administrator named already.
Written(r, pc, kept) ==
  LET signed == req[r].by = Nobody \/ <<"share", req[r].by>> \in req[r].held IN
  \/ ~signed /\ Step(r, "sign")
  \/ (signed \/ kept) /\ Step(r, pc)

\* The administrator is there, and the transaction goes on; or is gone by now.
Sign(r) ==
  LET s == req[r] IN
  /\ s.pc = "sign" /\ Granted(r)
  /\ IF ~admin[s.by] THEN Rollback(r)
     ELSE Step(r, CASE s.op = "add"      -> IF s.from = Nobody THEN "adjust" ELSE "debit"
                    [] s.op = "transfer" ->
                         IF <<"wallet", s.from>> \in s.held THEN "commit" ELSE "debit"
                    [] s.op = "create"   ->
                         IF <<"row", s.to>> \in s.held THEN "commit" ELSE "insert"
                    [] s.op = "company"  -> IF s.n > 0 THEN "debit" ELSE "commit"
                    [] OTHER             -> "commit")

\* The source wallet is read; without one the answer is 404.
ReadSource(r) ==
  /\ req[r].pc = "read"
  /\ IF ~wallet[req[r].from].open THEN Rollback(r)
     ELSE Step(r, CASE req[r].op = "transfer" -> "upsert"
                    [] req[r].op = "company"  -> "insert"
                    [] OTHER                  -> "debit")

\* The destination is inserted or revived; the owner's row may be gone.
Upsert(r) ==
  /\ req[r].pc = "upsert" /\ Granted(r)
  /\ IF account[req[r].to] \in {"live", "deleted"}
     THEN Written(r, "debit", wallet[req[r].to].open) ELSE Rollback(r)

\* UPDATE ... WHERE credit_minute >= n; no row means the limit is reached (400),
\* or the wallet is gone.
Debit(r) ==
  /\ req[r].pc = "debit" /\ Granted(r)
  /\ IF wallet[req[r].from].open /\ wallet[req[r].from].credit >= req[r].n
     THEN CASE req[r].op = "book"   -> Step(r, "session")
            [] req[r].op = "create" -> Written(r, "insert", TRUE)
            [] OTHER                -> Written(r, "commit", FALSE)
     ELSE Rollback(r)

Adjust(r) == req[r].pc = "adjust" /\ Granted(r) /\ Step(r, "commit")

\* The account is inserted, unless its email, slug or id is taken by now or its
\* company is gone; then its wallet.
InsertAccount(r) ==
  /\ req[r].pc = "insert" /\ Granted(r)
  /\ IF \/ account[req[r].to] # "none"
        \/ req[r].of \in Companies /\ account[req[r].of] \notin {"live", "deleted"}
     THEN Rollback(r)
     ELSE Written(r, IF req[r].op = "company" /\ req[r].n > 0 THEN "debit" ELSE "commit", FALSE)

\* The session of a booking refers to its user.
InsertSession(r) == req[r].pc = "session" /\ Granted(r) /\ Step(r, "commit")

\* The wallet is inserted, unless it is there by now, or its owner gone.
InsertWallet(r) ==
  /\ req[r].pc = "open" /\ Granted(r)
  /\ IF \/ wallet[req[r].to].open
        \/ req[r].to \in Accounts /\ account[req[r].to] \notin {"live", "deleted"}
     THEN Rollback(r)
     ELSE Written(r, "commit", FALSE)

\* Wallets a transaction inserted.
Opened(s) == IF s.op \in {"transfer", "company", "open"} \/ (s.op = "create" /\ s.n > 0)
             THEN {s.to} ELSE {}
Share(s, o) == (IF o = s.to THEN s.n ELSE 0) - (IF o = s.from THEN s.n ELSE 0)

\* Mutant: the row of the source is not inserted.
RecordedOnce(s) ==
  [o \in Owners |->
     IF s.n > 0 /\ o = s.to
     THEN [rows |-> ledger[o].rows + 1, net |-> ledger[o].net + Share(s, o)] ELSE ledger[o]]

\* The ledger's rows: one for each wallet, out of it or into it.
Recorded(s) ==
  [o \in Owners |->
     IF s.n > 0 /\ o \in {s.from, s.to}
     THEN [rows |-> ledger[o].rows + 1, net |-> ledger[o].net + Share(s, o)] ELSE ledger[o]]

Balances(s) ==
  [o \in Owners |-> [open |-> wallet[o].open \/ o \in Opened(s),
                     credit |-> wallet[o].credit + Share(s, o)]]

Commit(r) ==
  LET s == req[r] IN
  /\ s.pc = "commit"
  /\ wallet' = Balances(s)
  /\ ledger' = Recorded(s)
  /\ account' = IF s.op \in {"create", "company"} THEN [account EXCEPT ![s.to] = "live"]
                ELSE account
  /\ employer' = IF s.op = "create" THEN [employer EXCEPT ![s.to] = s.of] ELSE employer
  /\ UNCHANGED admin
  /\ granted' = IF s.from = Nobody THEN granted + s.n ELSE granted
  /\ spent' = IF s.to = Nobody THEN spent + s.n ELSE spent
  /\ UNCHANGED erased
  /\ req' = [req EXCEPT ![r] = Idle]

-----------------------------------------------------------------------------
\* Permanent removal. The ledger rows found at first are deleted; a row that
\* appears later refers to the wallet and its deletion fails (ON DELETE RESTRICT).
\* A user's own removal deletes the wallet and then the user; a company's deletes
\* its users, then itself, and each wallet goes with its owner (ON DELETE CASCADE).

\* Mutant: a user's row is deleted first, its wallet goes with it.
WalletFirstNever(s) == FALSE

WalletFirst(s) == s.op = "removeUser"

Collect(r) ==
  LET s == req[r]
      company == s.op = "removeCompany" /\ s.left # {} IN
  /\ s.pc = "collect" /\ Granted(r)
  /\ \E first \in IF company THEN s.left ELSE {s.of} :
       req' = [req EXCEPT ![r] =
         [s EXCEPT !.pc = IF company THEN "deleteUser"
                          ELSE IF WalletFirst(s) THEN "erase" ELSE "delete",
                   !.to = first,
                   !.seen = [o \in Owners |-> IF o \in s.left \cup {s.of}
                                              THEN ledger[o].rows ELSE 0],
                   !.held = @ \cup Wants(r)]]
  /\ UNCHANGED <<tables, history>>

\* Mutant: the ledger's foreign key cascades.
RestrictedNever(r) == FALSE

Restricted(r) == ledger[req[r].to].rows # req[r].seen[req[r].to]

\* DELETE FROM user WHERE id IN ..., one row after the other, and their wallets.
DeleteUser(r) ==
  /\ req[r].pc = "deleteUser" /\ Granted(r)
  /\ Step(r, "eraseUser")

EraseUser(r) ==
  LET s == req[r] IN
  /\ s.pc = "eraseUser" /\ Granted(r)
  /\ IF Restricted(r) THEN Rollback(r)
     ELSE /\ \E next \in IF s.left = {s.to} THEN {s.of} ELSE s.left \ {s.to} :
               req' = [req EXCEPT ![r] =
                 [s EXCEPT !.pc = IF next = s.of THEN "delete" ELSE "deleteUser",
                           !.to = next, !.left = @ \ {s.to}, !.held = @ \cup Wants(r)]]
          /\ UNCHANGED <<tables, history>>

\* The last row, of the user or the company, and the wallet before or after it.
Delete(r) ==
  /\ req[r].pc = "delete" /\ Granted(r)
  /\ IF Restricted(r) \/ account[req[r].to] \notin {"live", "deleted"} THEN Rollback(r)
     ELSE Step(r, IF WalletFirst(req[r]) THEN "removed" ELSE "erase")

Erase(r) ==
  /\ req[r].pc = "erase" /\ Granted(r)
  /\ IF Restricted(r) THEN Rollback(r)
     ELSE Step(r, IF WalletFirst(req[r]) THEN "delete" ELSE "removed")

\* DELETE FROM user, and the rows that name the administrator as who created, updated
\* or deleted them, where his name is set to null: those of any owners, in any order.
ClearNext(r) ==
  LET s == req[r] IN
  \/ Step(r, "removed")
  \/ /\ s.n > 0
     /\ \E o \in Owners :
          /\ RowsOf(o) \ (s.held \cup Wants(r)) # {}
          /\ req' = [req EXCEPT ![r] = [s EXCEPT !.pc = "clear", !.to = o, !.n = @ - 1,
                                                 !.held = @ \cup Wants(r)]]
     /\ UNCHANGED <<tables, history>>

DeleteAdmin(r) ==
  /\ req[r].pc = "deleteAdmin" /\ Granted(r)
  /\ IF admin[req[r].by] THEN ClearNext(r) ELSE Rollback(r)

Clear(r) == req[r].pc = "clear" /\ Granted(r) /\ ClearNext(r)

CommitRemoval(r) ==
  LET gone == {a \in Accounts : <<"row", a>> \in req[r].held} IN
  /\ req[r].pc = "removed"
  /\ account' = [a \in Accounts |-> IF a \notin gone THEN account[a]
                                   ELSE IF a \in Companies THEN "none" ELSE "gone"]
  /\ admin' = [a \in Admins |-> admin[a] /\ <<"row", a>> \notin req[r].held]
  /\ employer' = [u \in Users |-> IF u \in gone \/ employer[u] \in gone THEN Nobody
                                  ELSE employer[u]]
  /\ wallet' = [o \in Owners |-> IF o \in gone THEN [open |-> FALSE, credit |-> 0]
                                 ELSE wallet[o]]
  /\ ledger' = [o \in Owners |-> IF o \in gone THEN [rows |-> 0, net |-> 0] ELSE ledger[o]]
  /\ erased' = erased + MapThenSumSet(LAMBDA a : wallet[a].credit, gone)
  /\ UNCHANGED <<granted, spent>>
  /\ req' = [req EXCEPT ![r] = Idle]

Advance(r) ==
  \/ ReadSource(r) \/ Sign(r) \/ Upsert(r) \/ Debit(r) \/ Adjust(r) \/ InsertAccount(r)
  \/ InsertSession(r) \/ InsertWallet(r) \/ Commit(r)
  \/ Collect(r) \/ DeleteUser(r) \/ EraseUser(r) \/ Delete(r) \/ Erase(r)
  \/ DeleteAdmin(r) \/ Clear(r) \/ CommitRemoval(r)

\* Requests that wait for each other, and nobody else.
Waits(r, q) == r # q /\ \E l \in Wants(r) : \E h \in req[q].held : Conflict(h, l)
Stuck(D) == D # {} /\ \A r \in D : \E q \in D : Waits(r, q)
Deadlocked(D) == Stuck(D) /\ \A E \in SUBSET D : Stuck(E) => E = D

\* PostgreSQL aborts one of them.
DetectDeadlock(r) ==
  /\ \E D \in SUBSET Requests : r \in D /\ Deadlocked(D)
  /\ Rollback(r)

Start(r) ==
  \/ \E n \in Credits : AddCredits(r, n)
  \/ \E u \in Users, n \in Credits : TransferUserCredits(r, u, n) \/ Book(r, u, n)
  \/ \E c \in Companies, n \in Credits : AddCompanyCredits(r, c, n)
  \/ \E c \in Companies, u \in Users, n \in Credits : TransferCompanyCredits(r, c, u, n)
  \/ \E u \in Users : SignUp(r, u) \/ RemoveUser(r, u)
  \/ \E u \in Users, c \in Companies \cup {Nobody}, n \in Credits \cup {0} :
       CreateUser(r, u, c, n)
  \/ \E c \in Companies, n \in Credits \cup {0} : CreateCompany(r, c, n)
  \/ \E o \in Companies \cup {Ikyomm} : CreateWallet(r, o)
  \/ \E c \in Companies : RemoveCompany(r, c)
  \/ \E a \in Admins : RemoveAdmin(r, a)

Next ==
  \/ \E r \in Requests : Start(r) \/ Advance(r) \/ Fail(r) \/ DetectDeadlock(r)
  \/ \E a \in Marked : SoftRemove(a) \/ Restore(a)
  \/ \E a \in Admins : Succeed(a)

Spec == Init /\ [][Next]_vars

\* A transaction goes on when it has its locks, which PostgreSQL grants in the
\* order they were asked for, and deadlocks are looked for.
FairSpec ==
  Spec /\ \A r \in Requests : SF_vars(Advance(r)) /\ WF_vars(DetectDeadlock(r))

-----------------------------------------------------------------------------
TypeOK ==
  /\ account \in [Accounts -> {"none", "live", "deleted", "gone"}]
  /\ admin \in [Admins -> BOOLEAN]
  /\ employer \in [Users -> Companies \cup {Nobody}]
  /\ wallet \in [Owners -> [open : BOOLEAN, credit : Nat]]
  /\ ledger \in [Owners -> [rows : Nat, net : Int]]
  /\ granted \in Nat /\ spent \in Nat /\ erased \in Nat
  /\ req \in [Requests ->
       [op : {"none", "transfer", "add", "create", "company", "book", "open",
              "removeUser", "removeCompany", "removeAdmin"},
        pc : {"idle", "read", "sign", "upsert", "debit", "adjust", "insert", "session",
              "open", "commit", "collect", "deleteUser", "eraseUser", "delete", "erase",
              "deleteAdmin", "clear", "removed"},
        by : Admins \cup {Nobody}, from : Someone, to : Someone, n : Nat, of : Someone,
        held : SUBSET Locks, left : SUBSET Users, seen : [Owners -> Nat]]]

\* The ledger explains every balance, after a removal too; and credit is neither
\* made nor lost: what was granted is in the wallets, spent, or was in a wallet
\* that was removed, although transfers, creations, bookings and removals
\* interleave and roll back.
LedgerBalances ==
  /\ \A o \in Owners : wallet[o].credit = ledger[o].net
  /\ granted = spent + erased + MapThenSumSet(LAMBDA o : wallet[o].credit, Owners)

\* No wallet outlives its owner, and no ledger row its wallet: a transfer that
\* races the removal of its user or company is undone, or undoes the removal.
NoOrphans ==
  \A o \in Owners :
    /\ wallet[o].open /\ o \in Accounts => account[o] \in {"live", "deleted"}
    /\ ledger[o].rows > 0 => wallet[o].open

\* Transfers, creations, bookings and removals of app users lock in one order: a
\* deadlock takes the removal of a company, which locks the rows of its users and its
\* own before their wallets (company/main/handler.ts:458-541), or that of an
\* administrator, whose row is locked before the wallets that name him, while his own
\* transfer locks a wallet before his row (ikyomm/users/handler.ts:292).
OnlyRemovalsDeadlock ==
  \A D \in SUBSET Requests :
    Deadlocked(D) => \E r \in D : req[r].op \in {"removeCompany", "removeAdmin"}

\* Every request ends.
RequestsAnswered == \A r \in Watched : req[r].pc # "idle" ~> req[r].pc = "idle"

=============================================================================
