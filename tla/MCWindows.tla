----------------------------- MODULE MCWindows -----------------------------
(* TLC instance of Windows: threads and delegates may be exchanged.        *)
EXTENDS Windows, TLC

Symmetry == Permutations(Threads) \cup Permutations(Delegates)
=============================================================================
