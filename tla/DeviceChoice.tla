---------------------------- MODULE DeviceChoice ----------------------------
(***************************************************************************)
(* The choice of a physical device and of its queue families, and the      *)
(* making of the logical device: select_physical_device,                   *)
(* pick_queue_families, score_candidate, create_logical_device and         *)
(* build_shared_device of src/src/vulkan_backend/mod.rs.                   *)
(*                                                                         *)
(* One turn of each loop is a step.  What the machine has (the devices, in *)
(* the order in which Vulkan enumerates them, and whether there is a       *)
(* surface to present to) is chosen once; any call of Vulkan may fail.     *)
(* Families and devices are numbered from 1, and 0 is no family.           *)
(***************************************************************************)
EXTENDS Integers, Sequences, FiniteSets, SequencesExt

CONSTANT Machines    \* the lists of devices there may be

VARIABLES
    devices,     \* the devices of this machine
    surface,     \* is there a surface to present to?
    pc,
    dev,         \* the device that is looked at
    family,      \* the next family of it to look at
    best,        \* best_graphics: family and whether it can present
    dedicated,   \* dedicated_transfer
    candidates,
    chosen,      \* the candidate that won
    logical,     \* the logical device: its families, extensions, features
    outcome      \* what build_shared_device returns

loopVars == <<dev, family, best, dedicated, candidates>>
vars == <<devices, surface, pc, dev, family, best, dedicated, candidates,
          chosen, logical, outcome>>

Required == {"swapchain"}
Preferred == {"memory", "memory_fd", "memory_host", "metal"}
TypeWorth == [discrete |-> 100000, integrated |-> 10000, virtual |-> 1000,
              cpu |-> 100, other |-> 0]
FeatureWorth == [anisotropy |-> 500, formats |-> 200, geometry |-> 100,
                 tessellation |-> 100]

\* What Vulkan says of a machine: its devices, and the families of each.
Families == [graphics : BOOLEAN, present : BOOLEAN, compute : BOOLEAN, transfer : BOOLEAN]
Devices == [unlisted : BOOLEAN, families : Seq(Families), type : DOMAIN TypeWorth,
            extensions : SUBSET STRING, heaps : Seq([local : BOOLEAN, size : Nat]),
            dimension : Nat, features : SUBSET DOMAIN FeatureWorth]

ASSUME MachinesAreTyped == Machines \subseteq Seq(Devices)

NoGraphics == [family |-> 0, present |-> FALSE]
NoCandidate == [device |-> 0, score |-> 0,
                queues |-> [graphics |-> 0, transfer |-> 0, present |-> FALSE]]
NoDevice == [families |-> <<>>, extensions |-> {}, features |-> {}]

Init ==
    /\ devices \in Machines
    /\ surface \in BOOLEAN
    /\ pc = "enumerate"
    /\ dev = 1 /\ family = 1 /\ best = NoGraphics /\ dedicated = 0
    /\ candidates = <<>> /\ chosen = NoCandidate /\ logical = NoDevice
    /\ outcome = "none"

Returns(how) == pc' = "done" /\ outcome' = how

Enumerates ==
    /\ pc = "enumerate"
    /\ \/ Returns("vulkan error")
       \/ devices = <<>> /\ Returns("no devices")
       \/ devices # <<>> /\ pc' = "device" /\ UNCHANGED outcome
    /\ UNCHANGED <<devices, surface, loopVars, chosen, logical>>

-----------------------------------------------------------------------------
(* One device: its extensions, then its families, then its score           *)

\* The loop goes on with the next device.
NextDevice == pc' = "device" /\ dev' = dev + 1

Rejects ==
    /\ NextDevice
    /\ UNCHANGED <<devices, surface, family, best, dedicated, candidates, chosen,
                   logical, outcome>>

LooksAtDevice == pc = "device" /\ dev <= Len(devices)
HasRequired == Required \subseteq devices[dev].extensions

\* Its extensions cannot be listed.
ExtensionsFail == LooksAtDevice /\ devices[dev].unlisted /\ Rejects

LacksRequired == LooksAtDevice /\ ~devices[dev].unlisted /\ ~HasRequired /\ Rejects

LooksInto ==
    /\ LooksAtDevice /\ ~devices[dev].unlisted /\ HasRequired
    /\ pc' = "family" /\ family' = 1 /\ best' = NoGraphics /\ dedicated' = 0
    /\ UNCHANGED <<devices, surface, dev, candidates, chosen, logical, outcome>>

\* mutant: the last family that can present instead of the first
BetterLast(present) == best = NoGraphics \/ present

\* is_better
Better(present) == best = NoGraphics \/ (present /\ ~best.present)

\* The query of the surface may fail, which counts as FALSE.
SupportsPresent(fam) == surface => fam.present

LooksAtFamily ==
    LET fam == devices[dev].families[family] IN
    /\ pc = "family" /\ family <= Len(devices[dev].families)
    /\ best' = IF fam.graphics /\ Better(SupportsPresent(fam))
               THEN [family |-> family, present |-> SupportsPresent(fam)]
               ELSE best
    /\ dedicated' = IF /\ fam.transfer /\ ~fam.graphics /\ ~fam.compute
                       /\ dedicated = 0
                    THEN family ELSE dedicated
    /\ family' = family + 1
    /\ UNCHANGED <<devices, surface, pc, dev, candidates, chosen, logical, outcome>>

FamiliesSeen == pc = "family" /\ family > Len(devices[dev].families)

\* mutant: whether it can present does not count
CanPresentAlways == TRUE

CanPresent == surface => best.present

RejectsFamilies == FamiliesSeen /\ (best = NoGraphics \/ ~CanPresent) /\ Rejects

\* score_candidate; sizes are in MiB
LocalMemory(d) ==
    FoldLeft(LAMBDA sum, heap : sum + IF heap.local THEN heap.size ELSE 0, 0, d.heaps)
Score(d) ==
    TypeWorth[d.type] + LocalMemory(d) \div 64 + d.dimension \div 64
    + MapThenSumSet(LAMBDA x : FeatureWorth[x], d.features)
    + 1500 * Cardinality(d.extensions \cap Preferred)

\* That a discrete device outscores any other needs sizes below some 5 TiB.
ASSUME ScoresAreBounded ==
    \A m \in Machines : \A i, j \in DOMAIN m :
        /\ Score(m[i]) \in Nat
        /\ m[i].type = "discrete" /\ m[j].type # "discrete" => Score(m[j]) < Score(m[i])

Accepts ==
    /\ FamiliesSeen
    /\ best # NoGraphics /\ CanPresent
    /\ candidates' = Append(candidates,
          [device |-> dev, score |-> Score(devices[dev]),
           queues |-> [graphics |-> best.family, present |-> best.present,
                       transfer |-> IF dedicated # 0 THEN dedicated ELSE best.family]])
    /\ NextDevice
    /\ UNCHANGED <<devices, surface, family, best, dedicated, chosen, logical, outcome>>

-----------------------------------------------------------------------------
(* The winner, and the logical device                                      *)

\* max_by_key keeps the last of those with the greatest key.
Winner == candidates[CHOOSE i \in DOMAIN candidates : \A j \in DOMAIN candidates :
                        \/ candidates[j].score < candidates[i].score
                        \/ candidates[j].score = candidates[i].score /\ j <= i]

Chooses ==
    /\ pc = "device" /\ dev > Len(devices)
    /\ IF candidates = <<>> THEN Returns("no suitable device") /\ UNCHANGED chosen
       ELSE chosen' = Winner /\ pc' = "create" /\ UNCHANGED outcome
    /\ UNCHANGED <<devices, surface, loopVars, logical>>

Requested(q) == IF q.transfer = q.graphics THEN <<q.graphics>>
                ELSE <<q.graphics, q.transfer>>

CreatesDevice ==
    LET d == devices[chosen.device] IN
    /\ pc = "create"
    /\ logical' = [families |-> Requested(chosen.queues),
                   extensions |-> Required \cup (Preferred \cap d.extensions),
                   features |-> {"anisotropy", "formats"} \cap d.features]
    /\ pc' = "pool"
    /\ UNCHANGED <<devices, surface, loopVars, chosen, outcome>>

\* create_device fails, or create_command_pool: then the device stays.
CreationFails ==
    /\ pc \in {"create", "pool"}
    /\ Returns("vulkan error")
    /\ UNCHANGED <<devices, surface, loopVars, chosen, logical>>

CreatesPool ==
    /\ pc = "pool"
    /\ Returns("ready")
    /\ UNCHANGED <<devices, surface, loopVars, chosen, logical>>

Next == \/ Enumerates
        \/ ExtensionsFail \/ LacksRequired \/ LooksInto \/ LooksAtFamily
        \/ RejectsFamilies \/ Accepts \/ Chooses
        \/ CreatesDevice \/ CreationFails \/ CreatesPool

Spec == Init /\ [][Next]_vars

-----------------------------------------------------------------------------
(* Properties *)

\* What makes a device usable, said without the loops.
Graphics(d) == {i \in DOMAIN d.families : d.families[i].graphics}
Presenting(d) == {i \in Graphics(d) : surface => d.families[i].present}
Usable(d) == ~d.unlisted /\ Required \subseteq d.extensions /\ Presenting(d) # {}

\* The device that is chosen is usable, has the greatest score of all usable ones,
\* is the last of those with this score, and is a discrete one if a usable one is;
\* and select_physical_device says that there is none, or no usable one, exactly
\* when that is so.  A device that fails any test never hides a usable one.
ChoiceIsBest ==
    LET usable == {i \in DOMAIN devices : Usable(devices[i])}
        d == chosen.device
    IN /\ outcome = "no devices" => devices = <<>>
       /\ outcome = "no suitable device" => devices # <<>> /\ usable = {}
       /\ chosen # NoCandidate =>
             /\ d \in usable
             /\ \A i \in usable : \/ Score(devices[i]) < Score(devices[d])
                                  \/ Score(devices[i]) = Score(devices[d]) /\ i <= d
             /\ (\E i \in usable : devices[i].type = "discrete") =>
                   devices[d].type = "discrete"

\* The queues of a finished device: graphics of the first family that has graphics
\* and can present; transfer of the first family that can do nothing else, and of
\* the graphics family where there is none.  Both families were asked for, and none
\* twice (Vulkan forbids it), and only what the device has is enabled.
QueuesServe ==
    outcome = "ready" =>
        LET d == devices[chosen.device]
            q == chosen.queues
            transferOnly == {i \in DOMAIN d.families : LET fam == d.families[i] IN
                                fam.transfer /\ ~fam.graphics /\ ~fam.compute}
        IN /\ q.graphics = Min(Presenting(d))
           /\ q.transfer = IF transferOnly = {} THEN q.graphics ELSE Min(transferOnly)
           /\ ToSet(logical.families) = {q.graphics, q.transfer}
           /\ Len(logical.families) = Cardinality(ToSet(logical.families))
           /\ logical.extensions \subseteq d.extensions
           /\ logical.features \subseteq d.features
=============================================================================
