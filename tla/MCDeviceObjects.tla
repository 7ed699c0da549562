-------------------------- MODULE MCDeviceObjects --------------------------
(* TLC instance of GlBuffers and GpuImages.  They share no state, so their  *)
(* products would show nothing that they do not show alone: one of them     *)
(* acts, while the other stays as it begins.                                *)
EXTENDS GlBuffers, GpuImages, TLC

Init == GlInit /\ ImagesInit

Next == \/ ImagesInit /\ GlNext /\ UNCHANGED imageVars
        \/ GlInit /\ ImagesNext /\ UNCHANGED glVars

Spec == Init /\ [][Next]_<<glVars, imageVars>>

Symmetry == Permutations(Threads) \cup Permutations(Handles)
            \cup Permutations(Calls) \cup Permutations(Places) \cup Permutations(Surfaces)
=============================================================================
