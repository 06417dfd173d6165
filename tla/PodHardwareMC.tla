---------------------------- MODULE PodHardwareMC ----------------------------
\* Small instances of PodHardware.
EXTENDS PodHardware, TLC

Sym == Permutations(Updates) \cup Permutations(Colors) \cup Permutations(Sessions)

\* Nothing is said of a disturbed pod any more, a behaviour ends there.
Claimed == \E p \in Pods : Undisturbed(p)
=============================================================================
