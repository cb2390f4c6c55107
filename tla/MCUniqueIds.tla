----------------------------- MODULE MCUniqueIds -----------------------------
\* Ids of two bits, three threads; the threads are interchangeable.
EXTENDS UniqueIds, TLC
CONSTANTS t1, t2, t3
Sym == Permutations(Threads)
=============================================================================
