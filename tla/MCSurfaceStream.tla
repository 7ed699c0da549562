-------------------------- MODULE MCSurfaceStream --------------------------
(* TLC instances of SurfaceStream: one process with two threads and one    *)
(* with a single thread, or only the former.                               *)
EXTENDS SurfaceStream

CONSTANTS a, b, a1, a2, b1
MCProcesses == {a, b}
MCThreads == {a1, a2, b1}
MCProcessOf == [c \in MCThreads |-> IF c = b1 THEN b ELSE a]

MCOne == {a}
MCTwoThreads == {a1, a2}
MCOneOf == [c \in MCTwoThreads |-> a]
=============================================================================
