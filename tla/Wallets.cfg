SPECIFICATION FairSpec
CONSTANTS
  Users = {u1}
  Companies = {c1}
  Admins = {a1}
  Ikyomm = Ikyomm
  Nobody = Nobody
  Requests = {r1, r2}
  Watched = {r1}
  Credits = {1}
  SignUpCredit = 1
  MaxGrant = 1
  MaxNamed = 1
  Marked = {u1}
INVARIANTS LedgerBalances NoOrphans OnlyRemovalsDeadlock
PROPERTY RequestsAnswered
