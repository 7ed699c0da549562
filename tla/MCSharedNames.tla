--------------------------- MODULE MCSharedNames ---------------------------
(* TLC instance of SharedNames: a process with two threads, one with one.  *)
EXTENDS SharedNames, TLC

CONSTANTS a1, a2, b1
MCProcessOf == [c \in {a1, a2, b1} |-> IF c = b1 THEN "b" ELSE "a"]
Symmetry == Permutations({a1, a2}) \cup Permutations(Addresses)
=============================================================================
