------------------------------- MODULE MCTier2 -------------------------------
EXTENDS Tier2, TLC
CONSTANTS f1, f2, m1, m2, m3, resp
Sym == Permutations({f1, f2}) \cup Permutations({m1, m2, m3})
=============================================================================
