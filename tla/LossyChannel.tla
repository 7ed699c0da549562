---------------------------- MODULE LossyChannel ----------------------------
(***************************************************************************)
(* What the path from client_send_surface to pop_frame promises: frames    *)
(* come out in the order they went in, each at most once, and any of them  *)
(* may be lost on the way.  Frames are numbered as they go in, so a set    *)
(* of numbers says all there is to say.  SurfaceStream implements this     *)
(* module.                                                                 *)
(***************************************************************************)
EXTENDS Naturals

VARIABLES transit,     \* the frames under way
          delivered,   \* those that have come out
          last         \* the number given out last, a frame's or another right's

vars == <<transit, delivered, last>>

Init == transit = {} /\ delivered = {} /\ last = 0

Put == /\ last' = last + 1
       /\ transit' = transit \cup {last + 1}
       /\ UNCHANGED delivered

\* A number that is not a frame's.
Skip == /\ last' = last + 1
        /\ UNCHANGED <<transit, delivered>>

\* The oldest frame under way comes out.
Take == /\ \E f \in transit : /\ \A g \in transit : f <= g
                              /\ transit' = transit \ {f}
                              /\ delivered' = delivered \cup {f}
        /\ UNCHANGED last

Lose == /\ transit' \subseteq transit
        /\ UNCHANGED <<delivered, last>>

Next == Put \/ Skip \/ Take \/ Lose

Spec == Init /\ [][Next]_vars
=============================================================================
