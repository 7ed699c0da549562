----------------------------- MODULE MCShmRing -----------------------------
(* TLC instance of ShmRing: frames and the callers of each kind may be     *)
(* exchanged for one another in safety runs.                               *)
EXTENDS ShmRing, TLC

Symmetry == Permutations(Writers) \cup Permutations(Readers)
            \cup Permutations(Frames)
=============================================================================
