----------------------------- MODULE WalletsMC -----------------------------
\* Small instances of Wallets.
EXTENDS Wallets, TLC

Sym == Permutations(Requests) \cup Permutations(Users)
=============================================================================
