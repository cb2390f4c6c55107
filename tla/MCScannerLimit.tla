---------------------------- MODULE MCScannerLimit ----------------------------
EXTENDS ScannerLimit, TLC
CONSTANTS r1, r2, r3, r4
Sym == Permutations(Requests)
=============================================================================
