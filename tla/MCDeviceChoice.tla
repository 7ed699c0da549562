-------------------------- MODULE MCDeviceChoice ---------------------------
(* TLC instance of DeviceChoice: one device with any of the lists of up to *)
(* three families, and up to three devices that differ in everything else. *)
EXTENDS DeviceChoice

Family(g, p, c, t) == [graphics |-> g, present |-> p, compute |-> c, transfer |-> t]
All == Family(TRUE, TRUE, TRUE, TRUE)
Render == Family(TRUE, FALSE, FALSE, TRUE)
Compute == Family(FALSE, FALSE, TRUE, TRUE)
Transfer == Family(FALSE, FALSE, FALSE, TRUE)
Kinds == {All, Render, Compute, Transfer}

Heap(local, size) == [local |-> local, size |-> size]
Plain == [unlisted |-> FALSE, families |-> <<Render, All, Transfer>>, type |-> "integrated",
          extensions |-> Required, heaps |-> <<Heap(TRUE, 4096), Heap(FALSE, 65536)>>,
          dimension |-> 16384, features |-> {"anisotropy", "formats"}]

Various == {Plain,
            [Plain EXCEPT !.type = "discrete", !.extensions = Required \cup {"memory"}],
            [Plain EXCEPT !.type = "discrete", !.families = <<Compute, Render>>],
            [Plain EXCEPT !.type = "discrete", !.extensions = {"memory_fd"}],
            [Plain EXCEPT !.type = "discrete", !.unlisted = TRUE],
            [Plain EXCEPT !.type = "virtual", !.extensions = Required \cup Preferred,
                          !.heaps = <<Heap(TRUE, 192 * 1024), Heap(TRUE, 1024)>>,
                          !.features = DOMAIN FeatureWorth],
            [Plain EXCEPT !.type = "virtual", !.dimension = 4096,
                          !.features = DOMAIN FeatureWorth],
            [Plain EXCEPT !.type = "cpu", !.families = <<Transfer, Compute>>],
            [Plain EXCEPT !.type = "other", !.families = <<All>>]}

MCMachines == BoundedSeq(Various, 3)
              \cup {<<[Plain EXCEPT !.families = fams]>> : fams \in BoundedSeq(Kinds, 3)}
=============================================================================
