--------------------------- MODULE AuthContextMC ---------------------------
\* Small instances of AuthContext.
EXTENDS AuthContext, TLC


Sym == Permutations(Processes) \cup Permutations(Requests) \cup Permutations(Handlers)
=============================================================================
