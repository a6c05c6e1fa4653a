--------------------------- MODULE MCStratumJobs ---------------------------
(* StratumJobs on small instances.                                          *)
EXTENDS StratumJobs, TLC

\* Every tip is one higher than the one before.
GrowingHeights == [n \in Tip |-> n]

\* Sessions, addresses and spellings are interchangeable.
Symmetry ==
    Permutations(Session) \cup Permutations(Address) \cup Permutations(Spelling)
=============================================================================
