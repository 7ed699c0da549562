-------------------------- MODULE DeviceChoiceProof --------------------------
(***************************************************************************)
(* Theorems about DeviceChoice, for machines of any number of devices and  *)
(* devices of any number of queue families.                                *)
(***************************************************************************)
EXTENDS DeviceChoice, SequenceTheorems, FiniteSetTheorems, WellFoundedInduction, TLAPS

TransferOnly(d) == {i \in DOMAIN d.families : LET fam == d.families[i] IN
                        fam.transfer /\ ~fam.graphics /\ ~fam.compute}

IsFirst(S, x) == x \in S /\ \A y \in S : x <= y

Queues == [graphics : Nat, transfer : Nat, present : BOOLEAN]
Candidates == [device : Nat, score : Nat, queues : Queues]

ChoiceTypes ==
    /\ devices \in Machines
    /\ surface \in BOOLEAN
    /\ pc \in {"enumerate", "device", "family", "create", "pool", "done"}
    /\ dev \in 1 .. Len(devices) + 1
    /\ family \in Nat \ {0}
    /\ best \in [family : Nat, present : BOOLEAN]
    /\ dedicated \in Nat
    /\ candidates \in Seq(Candidates)
    /\ chosen \in Candidates

-----------------------------------------------------------------------------
(* The loop over families                                                  *)

Seen(d) == {i \in DOMAIN d.families : i < family}

\* best and dedicated are the first of their kind among the families seen.
BestSoFar(d) ==
    /\ IF best.present THEN IsFirst(Presenting(d) \cap Seen(d), best.family)
       ELSE Presenting(d) \cap Seen(d) = {}
    /\ best # NoGraphics /\ ~surface => best.present

DedicatedSoFar(d) ==
    IF dedicated = 0 THEN TransferOnly(d) \cap Seen(d) = {}
    ELSE IsFirst(TransferOnly(d) \cap Seen(d), dedicated)

FamilyLoop ==
    pc = "family" =>
        LET d == devices[dev] IN
        /\ dev <= Len(devices) /\ ~d.unlisted /\ Required \subseteq d.extensions
        /\ BestSoFar(d) /\ DedicatedSoFar(d)

-----------------------------------------------------------------------------
(* The loop over devices                                                   *)

QueuesAreRight(q, d) ==
    /\ IsFirst(Presenting(d), q.graphics)
    /\ IF TransferOnly(d) = {} THEN q.transfer = q.graphics
       ELSE IsFirst(TransferOnly(d), q.transfer)

UsableDevices == {i \in DOMAIN devices : Usable(devices[i])}

RightCandidates ==
    {c \in Candidates : /\ c.device \in UsableDevices
                        /\ c.score = Score(devices[c.device])
                        /\ QueuesAreRight(c.queues, devices[c.device])}

\* The candidates are the usable ones of the devices seen, in their order.
DeviceLoop ==
    /\ \A k \in DOMAIN candidates :
          candidates[k] \in RightCandidates /\ candidates[k].device < dev
    /\ \A j, k \in DOMAIN candidates : j < k => candidates[j].device < candidates[k].device
    /\ \A i \in UsableDevices : i < dev =>
          \E k \in DOMAIN candidates : candidates[k].device = i

-----------------------------------------------------------------------------
(* What comes after                                                        *)

ChosenIsBest ==
    chosen # NoCandidate =>
        /\ chosen \in RightCandidates
        /\ \A i \in UsableDevices :
              \/ Score(devices[i]) < Score(devices[chosen.device])
              \/ Score(devices[i]) = Score(devices[chosen.device]) /\ i <= chosen.device

LogicalIsRight ==
    LET d == devices[chosen.device] IN
    logical = [families |-> Requested(chosen.queues),
               extensions |-> Required \cup (Preferred \cap d.extensions),
               features |-> {"anisotropy", "formats"} \cap d.features]

Outcomes ==
    /\ pc # "done" => outcome = "none"
    /\ pc \notin {"enumerate", "done"} => devices # <<>>
    /\ pc \in {"create", "pool"} \/ outcome = "ready" => chosen # NoCandidate
    /\ pc = "pool" \/ outcome = "ready" => LogicalIsRight
    /\ outcome = "no devices" => devices = <<>>
    /\ outcome = "no suitable device" =>
          devices # <<>> /\ UsableDevices = {}

ChoiceInv == ChoiceTypes /\ FamilyLoop /\ DeviceLoop /\ ChosenIsBest /\ Outcomes

-----------------------------------------------------------------------------
LEMMA DevicesAreTyped ==
    ASSUME ChoiceTypes
    PROVE  /\ devices \in Seq(Devices) /\ Len(devices) \in Nat
           /\ DOMAIN devices = 1 .. Len(devices)
           /\ \A i \in DOMAIN devices :
                 /\ devices[i] \in Devices
                 /\ devices[i].families \in Seq(Families)
                 /\ Len(devices[i].families) \in Nat
                 /\ DOMAIN devices[i].families = 1 .. Len(devices[i].families)
                 /\ \A f \in DOMAIN devices[i].families : devices[i].families[f] \in Families
<1>1. devices \in Seq(Devices)
    BY MachinesAreTyped DEF ChoiceTypes
<1>2. /\ Len(devices) \in Nat /\ DOMAIN devices = 1 .. Len(devices)
      /\ \A i \in DOMAIN devices : devices[i] \in Devices
    BY <1>1, LenProperties, ElementOfSeq
<1>3. \A i \in DOMAIN devices : devices[i].families \in Seq(Families)
    BY <1>2 DEF Devices
<1>4. ASSUME NEW s \in Seq(Families)
      PROVE  /\ Len(s) \in Nat /\ DOMAIN s = 1 .. Len(s)
             /\ \A f \in DOMAIN s : s[f] \in Families
    BY LenProperties, ElementOfSeq
<1>5. QED
    BY <1>1, <1>2, <1>3, <1>4

LEMMA CandidatesAreTyped ==
    ASSUME ChoiceTypes
    PROVE  /\ Len(candidates) \in Nat /\ DOMAIN candidates = 1 .. Len(candidates)
           /\ \A k \in DOMAIN candidates : candidates[k] \in Candidates
BY LenProperties, ElementOfSeq DEF ChoiceTypes

LEMMA ScoresAreNatural ==
    ASSUME ChoiceTypes, NEW i \in DOMAIN devices
    PROVE  Score(devices[i]) \in Nat
BY ScoresAreBounded DEF ChoiceTypes

LEMMA ChoiceInit == Init => ChoiceInv
<1> SUFFICES ASSUME Init PROVE ChoiceInv
    OBVIOUS
<1>1. devices \in Seq(Devices) /\ Len(devices) \in Nat
    BY MachinesAreTyped, LenProperties DEF Init
<1>2. candidates = <<>> /\ candidates \in Seq(Candidates) /\ DOMAIN candidates = {}
    BY EmptySeq DEF Init
<1>3. ChoiceTypes
    BY <1>1, <1>2 DEF Init, ChoiceTypes, NoGraphics, NoCandidate, Candidates, Queues
<1>4. DeviceLoop
    BY <1>1, <1>2, LenProperties DEF Init, DeviceLoop, UsableDevices
<1>5. QED
    BY <1>3, <1>4 DEF Init, ChoiceInv, FamilyLoop, ChosenIsBest, Outcomes

-----------------------------------------------------------------------------
(* What a step leaves alone                                                *)

\* What is usable and what a right candidate is depends on the machine only.
LEMMA SameMachine ==
    ASSUME UNCHANGED <<devices, surface>>
    PROVE  UsableDevices' = UsableDevices /\ RightCandidates' = RightCandidates
<1>1. UsableDevices' = UsableDevices
    BY DEF UsableDevices, Usable, Presenting, Graphics
<1>2. RightCandidates' = RightCandidates
    BY <1>1 DEF RightCandidates, QueuesAreRight, Presenting, Graphics
<1>3. QED
    BY <1>1, <1>2

LEMMA DeviceLoopFrame ==
    ASSUME DeviceLoop, UNCHANGED <<devices, surface, candidates, dev>>
    PROVE  DeviceLoop'
BY SameMachine DEF DeviceLoop

LEMMA ChosenFrame ==
    ASSUME ChosenIsBest, UNCHANGED <<devices, surface, chosen>>
    PROVE  ChosenIsBest'
BY SameMachine DEF ChosenIsBest

LEMMA OutcomesFrame ==
    ASSUME Outcomes, UNCHANGED <<devices, surface, chosen, logical, outcome>>,
           pc \notin {"enumerate", "create", "pool", "done"},
           pc' \notin {"create", "pool", "done"}
    PROVE  Outcomes'
BY SameMachine DEF Outcomes, LogicalIsRight

\* A device that is not usable is passed over.
LEMMA RejectsKeeps ==
    ASSUME ChoiceInv, pc \in {"device", "family"}, dev <= Len(devices),
           dev \notin UsableDevices, Rejects
    PROVE  ChoiceInv'
<1>1. ChoiceTypes' /\ FamilyLoop'
    BY DevicesAreTyped DEF ChoiceInv, ChoiceTypes, FamilyLoop, Rejects, NextDevice
<1>2. DeviceLoop'
  <2>1. \A i \in UsableDevices : i < dev' => i < dev
      BY DevicesAreTyped DEF ChoiceInv, ChoiceTypes, Rejects, NextDevice, UsableDevices
  <2>2. \A k \in DOMAIN candidates : candidates[k].device < dev'
      BY CandidatesAreTyped, DevicesAreTyped
         DEF ChoiceInv, ChoiceTypes, DeviceLoop, Rejects, NextDevice, Candidates
  <2>3. UNCHANGED <<devices, surface, candidates>>
      BY DEF Rejects
  <2>4. QED
      BY <2>1, <2>2, <2>3, SameMachine DEF ChoiceInv, DeviceLoop
<1>3. ChosenIsBest' /\ Outcomes'
    BY ChosenFrame, OutcomesFrame DEF ChoiceInv, Rejects, NextDevice
<1>4. QED
    BY <1>1, <1>2, <1>3 DEF ChoiceInv

-----------------------------------------------------------------------------
(* The steps                                                               *)

LEMMA EnumeratesKeeps ==
    ASSUME ChoiceInv, Enumerates
    PROVE  ChoiceInv'
<1>1. /\ UNCHANGED <<devices, surface, dev, family, best, dedicated, candidates,
                     chosen, logical>>
      /\ pc = "enumerate"
    BY DEF Enumerates, loopVars
<1>2. ChoiceTypes' /\ FamilyLoop'
    BY <1>1 DEF ChoiceInv, ChoiceTypes, FamilyLoop, Enumerates, Returns
<1>3. Outcomes'
    BY <1>1, SameMachine DEF ChoiceInv, Outcomes, Enumerates, Returns, LogicalIsRight
<1>4. QED
    BY <1>1, <1>2, <1>3, DeviceLoopFrame, ChosenFrame DEF ChoiceInv

LEMMA LooksIntoKeeps ==
    ASSUME ChoiceInv, LooksInto
    PROVE  ChoiceInv'
<1>1. /\ UNCHANGED <<devices, surface, dev, candidates, chosen, logical, outcome>>
      /\ pc = "device" /\ pc' = "family" /\ family' = 1 /\ best' = NoGraphics
      /\ dedicated' = 0 /\ dev <= Len(devices)
      /\ ~devices[dev].unlisted /\ Required \subseteq devices[dev].extensions
    BY DEF LooksInto, LooksAtDevice, HasRequired
<1>2. ChoiceTypes'
    BY <1>1 DEF ChoiceInv, ChoiceTypes, NoGraphics
<1>3. FamilyLoop'
  <2>1. dev \in DOMAIN devices
      BY <1>1, DevicesAreTyped DEF ChoiceInv, ChoiceTypes
  <2>2. Seen(devices[dev])' = {}
      BY <1>1, <2>1, DevicesAreTyped DEF Seen, ChoiceInv
  <2>3. (BestSoFar(devices[dev]) /\ DedicatedSoFar(devices[dev]))'
      BY <1>1, <2>2 DEF BestSoFar, DedicatedSoFar, NoGraphics
  <2>4. QED
      BY <1>1, <2>3 DEF FamilyLoop
<1>4. QED
    BY <1>1, <1>2, <1>3, DeviceLoopFrame, ChosenFrame, OutcomesFrame DEF ChoiceInv

LEMMA LooksAtFamilyKeeps ==
    ASSUME ChoiceInv, LooksAtFamily
    PROVE  ChoiceInv'
<1> DEFINE d == devices[dev]
           fam == d.families[family]
<1>1. /\ UNCHANGED <<devices, surface, pc, dev, candidates, chosen, logical, outcome>>
      /\ pc = "family" /\ family <= Len(d.families) /\ family' = family + 1
      /\ best' = IF fam.graphics /\ Better(SupportsPresent(fam))
                 THEN [family |-> family, present |-> SupportsPresent(fam)] ELSE best
      /\ dedicated' = IF fam.transfer /\ ~fam.graphics /\ ~fam.compute /\ dedicated = 0
                      THEN family ELSE dedicated
    BY DEF LooksAtFamily
<1>2. /\ dev \in DOMAIN devices /\ dev <= Len(devices)
      /\ ~d.unlisted /\ Required \subseteq d.extensions
      /\ BestSoFar(d) /\ DedicatedSoFar(d)
    BY <1>1, DevicesAreTyped DEF ChoiceInv, ChoiceTypes, FamilyLoop
<1>3. /\ family \in DOMAIN d.families /\ family \in Nat \ {0}
      /\ DOMAIN d.families = 1 .. Len(d.families) /\ Len(d.families) \in Nat
      /\ fam \in Families
    BY <1>1, <1>2, DevicesAreTyped DEF ChoiceInv, ChoiceTypes
<1>4. /\ SupportsPresent(fam) \in BOOLEAN
      /\ family \in Presenting(d) <=> fam.graphics /\ SupportsPresent(fam)
      /\ family \in TransferOnly(d) <=> fam.transfer /\ ~fam.graphics /\ ~fam.compute
    BY <1>3 DEF SupportsPresent, Presenting, Graphics, TransferOnly, Families, ChoiceInv,
                ChoiceTypes
<1>5. ChoiceTypes'
    BY <1>1, <1>3, <1>4 DEF ChoiceInv, ChoiceTypes
<1> DEFINE seen == {i \in DOMAIN d.families : i < family}
           seenNow == {i \in DOMAIN d.families : i < family + 1}
<1>6. /\ seenNow = seen \cup {family} /\ seenNow \subseteq Nat
      /\ \A i \in seen : i < family /\ i \in Nat
    BY <1>3
<1>7. Seen(d) = seen /\ Seen(d)' = seenNow /\ Presenting(d)' = Presenting(d)
      /\ d' = d
    BY <1>1 DEF Seen, Presenting, Graphics
<1> HIDE DEF d, fam, seen, seenNow
<1>8. BestSoFar(d)'
  <2>1. /\ IF best'.present THEN IsFirst(Presenting(d) \cap seenNow, best'.family)
           ELSE Presenting(d) \cap seenNow = {}
        /\ best' # NoGraphics /\ ~surface => best'.present
    <3>1. CASE fam.graphics /\ Better(SupportsPresent(fam))
      <4>1. best'.family = family /\ best'.present = SupportsPresent(fam)
          BY <1>1, <3>1
      <4>2. Presenting(d) \cap seen = {}
          BY <1>2, <1>7, <3>1 DEF BestSoFar, Better, NoGraphics
      <4>3. ~surface => SupportsPresent(fam)
          BY DEF SupportsPresent
      <4>4. QED
          BY <1>3, <1>4, <1>6, <3>1, <4>1, <4>2, <4>3 DEF IsFirst
    <3>2. CASE ~(fam.graphics /\ Better(SupportsPresent(fam)))
      <4>1. best' = best
          BY <1>1, <3>2
      <4>2. ~best.present => family \notin Presenting(d)
          BY <1>4, <3>2 DEF Better
      <4>3. CASE best.present
          BY <1>2, <1>3, <1>6, <1>7, <4>1, <4>3 DEF BestSoFar, IsFirst
      <4>4. CASE ~best.present
          BY <1>2, <1>6, <1>7, <4>1, <4>2, <4>4 DEF BestSoFar
      <4>5. QED
          BY <4>3, <4>4
    <3>3. QED
        BY <3>1, <3>2
  <2>2. QED
      BY <1>1, <1>7, <2>1 DEF BestSoFar
<1>9. DedicatedSoFar(d)'
  <2>1. IF dedicated' = 0 THEN TransferOnly(d) \cap seenNow = {}
        ELSE IsFirst(TransferOnly(d) \cap seenNow, dedicated')
    <3>1. CASE dedicated = 0 /\ family \in TransferOnly(d)
        BY <1>1, <1>2, <1>3, <1>4, <1>6, <1>7, <3>1 DEF DedicatedSoFar, IsFirst
    <3>2. CASE dedicated = 0 /\ family \notin TransferOnly(d)
        BY <1>1, <1>2, <1>4, <1>6, <1>7, <3>2 DEF DedicatedSoFar
    <3>3. CASE dedicated # 0
        BY <1>1, <1>2, <1>3, <1>4, <1>6, <1>7, <3>3 DEF DedicatedSoFar, IsFirst
    <3>4. QED
        BY <3>1, <3>2, <3>3
  <2>2. QED
      BY <1>7, <2>1 DEF DedicatedSoFar
<1>10. FamilyLoop'
    BY <1>1, <1>2, <1>8, <1>9 DEF FamilyLoop, d
<1>11. QED
    BY <1>1, <1>5, <1>10, DeviceLoopFrame, ChosenFrame, OutcomesFrame DEF ChoiceInv

LEMMA ExtensionsReject ==
    ASSUME ChoiceInv, ExtensionsFail \/ LacksRequired
    PROVE  ChoiceInv'
<1>1. pc = "device" /\ dev <= Len(devices) /\ Rejects
    BY DEF ExtensionsFail, LacksRequired, LooksAtDevice
<1>2. dev \notin UsableDevices
    BY DEF ExtensionsFail, LacksRequired, HasRequired, UsableDevices, Usable
<1>3. QED
    BY <1>1, <1>2, RejectsKeeps

\* All families have been seen.
LEMMA AllSeen ==
    ASSUME ChoiceInv, FamiliesSeen
    PROVE  /\ pc = "family" /\ dev \in DOMAIN devices /\ dev <= Len(devices)
           /\ ~devices[dev].unlisted /\ Required \subseteq devices[dev].extensions
           /\ Presenting(devices[dev]) \cap Seen(devices[dev]) = Presenting(devices[dev])
           /\ TransferOnly(devices[dev]) \cap Seen(devices[dev]) = TransferOnly(devices[dev])
           /\ BestSoFar(devices[dev]) /\ DedicatedSoFar(devices[dev])
<1>1. /\ pc = "family" /\ family > Len(devices[dev].families) /\ dev <= Len(devices)
      /\ dev \in DOMAIN devices
      /\ ~devices[dev].unlisted /\ Required \subseteq devices[dev].extensions
      /\ BestSoFar(devices[dev]) /\ DedicatedSoFar(devices[dev])
    BY DevicesAreTyped DEF FamiliesSeen, ChoiceInv, ChoiceTypes, FamilyLoop
<1>2. Seen(devices[dev]) = DOMAIN devices[dev].families
    BY <1>1, DevicesAreTyped DEF Seen, ChoiceInv, ChoiceTypes
<1>3. QED
    BY <1>1, <1>2 DEF Presenting, Graphics, TransferOnly

LEMMA FamiliesReject ==
    ASSUME ChoiceInv, RejectsFamilies
    PROVE  ChoiceInv'
<1>1. ~best.present
    BY DEF RejectsFamilies, CanPresent, NoGraphics, ChoiceInv, ChoiceTypes
<1>2. Presenting(devices[dev]) = {}
    BY <1>1, AllSeen DEF RejectsFamilies, BestSoFar
<1>3. dev \notin UsableDevices
    BY <1>2 DEF UsableDevices, Usable
<1>4. QED
    BY <1>3, AllSeen, RejectsKeeps DEF RejectsFamilies

LEMMA AcceptsKeeps ==
    ASSUME ChoiceInv, Accepts
    PROVE  ChoiceInv'
<1> DEFINE d == devices[dev]
           q == [graphics |-> best.family, present |-> best.present,
                 transfer |-> IF dedicated # 0 THEN dedicated ELSE best.family]
           c == [device |-> dev, score |-> Score(d), queues |-> q]
<1>1. /\ UNCHANGED <<devices, surface, family, best, dedicated, chosen, logical, outcome>>
      /\ candidates' = Append(candidates, c) /\ pc' = "device" /\ dev' = dev + 1
      /\ best # NoGraphics /\ (surface => best.present) /\ FamiliesSeen
    BY DEF Accepts, NextDevice, CanPresent
<1>2. /\ pc = "family" /\ dev \in DOMAIN devices /\ dev <= Len(devices) /\ dev \in Nat
      /\ Len(devices) \in Nat
      /\ ~d.unlisted /\ Required \subseteq d.extensions
    BY <1>1, AllSeen, DevicesAreTyped DEF ChoiceInv, ChoiceTypes
<1>3. best.present /\ IsFirst(Presenting(d), best.family)
    BY <1>1, AllSeen DEF BestSoFar
<1>4. QueuesAreRight(q, d)
    BY <1>1, <1>3, AllSeen DEF DedicatedSoFar, QueuesAreRight, IsFirst
<1>5. dev \in UsableDevices
    BY <1>2, <1>3 DEF UsableDevices, Usable, IsFirst
<1>6. q \in Queues /\ c \in Candidates
    BY <1>2, ScoresAreNatural DEF ChoiceInv, ChoiceTypes, Queues, Candidates
<1>7. c \in RightCandidates
  <2>1. c.device = dev /\ c.score = Score(d) /\ c.queues = q
      OBVIOUS
  <2> HIDE DEF c, q
  <2>2. QED
      BY <1>4, <1>5, <1>6, <2>1 DEF RightCandidates
<1>8. c.device = dev
    OBVIOUS
<1> DEFINE n == Len(candidates)
<1> HIDE DEF c, q, d
<1>9. /\ candidates' \in Seq(Candidates) /\ n \in Nat /\ DOMAIN candidates = 1 .. n
      /\ DOMAIN candidates' = 1 .. n + 1
      /\ \A k \in 1 .. n : candidates'[k] = candidates[k]
      /\ candidates'[n + 1] = c
  <2>1. candidates \in Seq(Candidates) /\ n \in Nat /\ DOMAIN candidates = 1 .. n
      BY CandidatesAreTyped DEF ChoiceInv, ChoiceTypes
  <2>2. /\ candidates' \in Seq(Candidates) /\ Len(candidates') = n + 1
        /\ \A k \in 1 .. n : candidates'[k] = candidates[k]
        /\ candidates'[n + 1] = c
      BY <1>1, <1>6, <2>1, AppendProperties
  <2>3. DOMAIN candidates' = 1 .. n + 1
      BY <2>2, LenProperties
  <2>4. QED
      BY <2>1, <2>2, <2>3
<1> HIDE DEF n
<1>10. ChoiceTypes' /\ FamilyLoop'
    BY <1>1, <1>2, <1>9 DEF ChoiceInv, ChoiceTypes, FamilyLoop
<1>11. \A k \in 1 .. n : candidates[k].device < dev /\ candidates[k].device \in Nat
                         /\ candidates[k] \in RightCandidates
    BY <1>9, CandidatesAreTyped DEF ChoiceInv, DeviceLoop, Candidates
<1>12. DeviceLoop'
  <2>1. \A k \in DOMAIN candidates' :
           candidates'[k] \in RightCandidates /\ candidates'[k].device < dev'
      BY <1>1, <1>2, <1>7, <1>8, <1>9, <1>11
  <2>2. \A j, k \in DOMAIN candidates' :
           j < k => candidates'[j].device < candidates'[k].device
      BY <1>8, <1>9, <1>11 DEF ChoiceInv, DeviceLoop
  <2>3. ASSUME NEW i \in UsableDevices, i < dev'
        PROVE  \E k \in DOMAIN candidates' : candidates'[k].device = i
    <3>1. i \in Nat /\ (i < dev \/ i = dev)
        BY <1>1, <1>2, <2>3, DevicesAreTyped DEF UsableDevices, ChoiceInv
    <3>2. CASE i = dev
        BY <1>8, <1>9, <3>2
    <3>3. CASE i < dev
      <4>1. PICK k \in DOMAIN candidates : candidates[k].device = i
          BY <3>3 DEF ChoiceInv, DeviceLoop
      <4>2. QED
          BY <1>9, <4>1
    <3>4. QED
        BY <3>1, <3>2, <3>3
  <2>4. QED
      BY <1>1, <2>1, <2>2, <2>3, SameMachine DEF DeviceLoop
<1>13. QED
    BY <1>1, <1>2, <1>10, <1>12, ChosenFrame, OutcomesFrame DEF ChoiceInv

-----------------------------------------------------------------------------
(* The winner                                                              *)

LEMMA LeastOfNaturals ==
    ASSUME NEW S, S \subseteq Nat, S # {}
    PROVE  \E m \in S : \A k \in S : m <= k
<1> DEFINE R == OpToRel(<, Nat)
<1>1. IsWellFoundedOn(R, Nat)
    BY NatLessThanWellFounded
<1>2. \A j, k \in Nat : j < k => <<j, k>> \in R
    BY DEF OpToRel
<1> HIDE DEF R
<1>3. PICK m \in S : \A k \in S : ~(<<k, m>> \in R)
    BY <1>1, WFMin
<1>4. \A k \in S : m <= k
  <2> SUFFICES ASSUME NEW k \in S PROVE m <= k
      OBVIOUS
  <2>1. k \in Nat /\ m \in Nat
      BY <1>3
  <2>2. ~(<<k, m>> \in R)
      BY <1>3
  <2>3. ~(k < m)
      BY <1>2, <2>1, <2>2, Zenon
  <2>4. QED
      BY <2>1, <2>3
<1>5. QED
    BY <1>3, <1>4

\* The candidate i is the last of the greatest of the first m.
Wins(i, m) == /\ i \in 1 .. m
              /\ \A j \in 1 .. m :
                    \/ candidates[j].score < candidates[i].score
                    \/ candidates[j].score = candidates[i].score /\ j <= i

LEMMA SomeoneWins ==
    ASSUME ChoiceTypes, candidates # <<>>
    PROVE  \E i : Wins(i, Len(candidates))
<1> DEFINE n == Len(candidates)
           Undecided == {m \in 1 .. n : ~ \E i : Wins(i, m)}
<1>1. /\ n \in Nat \ {0} /\ DOMAIN candidates = 1 .. n
      /\ \A k \in 1 .. n : candidates[k].score \in Nat
    BY CandidatesAreTyped, EmptySeq DEF ChoiceTypes, Candidates
<1> HIDE DEF n
<1>2. Undecided = {}
  <2> SUFFICES ASSUME Undecided # {} PROVE FALSE
      OBVIOUS
  <2>1. PICK m \in Undecided : \A k \in Undecided : m <= k
    <3>1. Undecided \subseteq Nat
        BY <1>1
    <3> HIDE DEF Undecided
    <3>2. QED
        BY <3>1, LeastOfNaturals
  <2>2. m \in 1 .. n /\ ~ \E i : Wins(i, m)
      BY <2>1
  <2>3. CASE m = 1
    <3>1. Wins(1, m)
        BY <2>3 DEF Wins
    <3>2. QED
        BY <2>2, <3>1
  <2>4. CASE m # 1
    <3>1. m - 1 \in 1 .. n /\ m - 1 \notin Undecided
        BY <1>1, <2>1, <2>2, <2>4
    <3>2. PICK i : Wins(i, m - 1)
        BY <3>1
    <3>3. i \in 1 .. m - 1 /\ \A j \in 1 .. m : j \in 1 .. m - 1 \/ j = m
        BY <1>1, <2>2, <3>2 DEF Wins
    <3>4. CASE candidates[m].score < candidates[i].score
      <4>1. Wins(i, m)
          BY <1>1, <2>2, <3>2, <3>3, <3>4 DEF Wins
      <4>2. QED
          BY <2>2, <4>1
    <3>5. CASE ~(candidates[m].score < candidates[i].score)
      <4>1. candidates[i].score <= candidates[m].score
          BY <1>1, <2>2, <3>3, <3>5
      <4>2. ASSUME NEW j \in 1 .. m
            PROVE  candidates[j].score <= candidates[m].score /\ j <= m
        <5>1. CASE j = m
            BY <1>1, <2>2, <5>1
        <5>2. CASE j \in 1 .. m - 1
          <6>1. candidates[j].score <= candidates[i].score
              BY <1>1, <2>2, <3>2, <3>3, <5>2 DEF Wins
          <6>2. QED
              BY <1>1, <2>2, <3>3, <4>1, <5>2, <6>1
        <5>3. QED
            BY <3>3, <5>1, <5>2
      <4>3. Wins(m, m)
          BY <1>1, <2>2, <4>2 DEF Wins
      <4>4. QED
          BY <2>2, <4>3
    <3>6. QED
        BY <3>4, <3>5
  <2>5. QED
      BY <2>3, <2>4
<1>3. n \in 1 .. n
    BY <1>1
<1>4. QED
    BY <1>2, <1>3 DEF n

LEMMA WinnerWins ==
    ASSUME ChoiceTypes, candidates # <<>>
    PROVE  \E i \in DOMAIN candidates :
               Winner = candidates[i] /\ Wins(i, Len(candidates))
<1> DEFINE Best(i) == \A j \in DOMAIN candidates :
                        \/ candidates[j].score < candidates[i].score
                        \/ candidates[j].score = candidates[i].score /\ j <= i
           w == CHOOSE i \in DOMAIN candidates : Best(i)
<1>1. DOMAIN candidates = 1 .. Len(candidates)
    BY CandidatesAreTyped
<1>2. \A i : Wins(i, Len(candidates)) <=> i \in DOMAIN candidates /\ Best(i)
    BY <1>1 DEF Wins
<1>3. w \in DOMAIN candidates /\ Best(w)
    BY <1>2, SomeoneWins
<1>4. Winner = candidates[w]
    BY DEF Winner
<1> HIDE DEF w, Best
<1>5. QED
    BY <1>2, <1>3, <1>4

LEMMA ChoosesKeeps ==
    ASSUME ChoiceInv, Chooses
    PROVE  ChoiceInv'
<1>1. /\ UNCHANGED <<devices, surface, dev, family, best, dedicated, candidates, logical>>
      /\ pc = "device" /\ dev > Len(devices)
    BY DEF Chooses, loopVars
<1>2. \A i \in UsableDevices : i < dev /\ i \in Nat
    BY <1>1, DevicesAreTyped DEF UsableDevices, ChoiceInv, ChoiceTypes
<1>3. devices # <<>> /\ outcome = "none"
    BY <1>1 DEF ChoiceInv, Outcomes
<1>4. CASE candidates = <<>>
  <2>1. pc' = "done" /\ outcome' = "no suitable device" /\ chosen' = chosen
      BY <1>4 DEF Chooses, Returns
  <2>2. UsableDevices = {}
    <3>1. DOMAIN candidates = {}
        BY <1>4
    <3>2. QED
        BY <1>2, <3>1 DEF ChoiceInv, DeviceLoop
  <2>3. Outcomes'
      BY <1>1, <1>3, <2>1, <2>2, SameMachine DEF Outcomes
  <2>4. ChoiceTypes' /\ FamilyLoop'
      BY <1>1, <2>1 DEF ChoiceInv, ChoiceTypes, FamilyLoop
  <2>5. QED
      BY <1>1, <2>1, <2>3, <2>4, DeviceLoopFrame, ChosenFrame DEF ChoiceInv
<1>5. CASE candidates # <<>>
  <2>1. chosen' = Winner /\ pc' = "create" /\ outcome' = outcome
      BY <1>5 DEF Chooses
  <2>2. PICK w \in DOMAIN candidates : Winner = candidates[w] /\ Wins(w, Len(candidates))
      BY <1>5, WinnerWins DEF ChoiceInv
  <2>3. chosen' = candidates[w] /\ chosen' \in RightCandidates /\ chosen' \in Candidates
      BY <2>1, <2>2 DEF ChoiceInv, DeviceLoop, RightCandidates
  <2>4. chosen'.device \in Nat \ {0} /\ chosen'.device \in DOMAIN devices
      BY <2>3, DevicesAreTyped DEF ChoiceInv, RightCandidates, UsableDevices
  <2>5. \A i \in UsableDevices :
           \/ Score(devices[i]) < Score(devices[chosen'.device])
           \/ Score(devices[i]) = Score(devices[chosen'.device]) /\ i <= chosen'.device
    <3> SUFFICES ASSUME NEW i \in UsableDevices
                 PROVE  \/ Score(devices[i]) < Score(devices[chosen'.device])
                        \/ /\ Score(devices[i]) = Score(devices[chosen'.device])
                           /\ i <= chosen'.device
        OBVIOUS
    <3>1. PICK k \in DOMAIN candidates : candidates[k].device = i
        BY <1>2 DEF ChoiceInv, DeviceLoop
    <3>2. /\ candidates[k].score = Score(devices[i])
          /\ candidates[w].score = Score(devices[chosen'.device])
        BY <2>3, <3>1 DEF ChoiceInv, DeviceLoop, RightCandidates
    <3>3. \/ candidates[k].score < candidates[w].score
          \/ candidates[k].score = candidates[w].score /\ k <= w
        BY <2>2, CandidatesAreTyped DEF Wins, ChoiceInv
    <3>4. k < w => candidates[k].device < candidates[w].device
        BY DEF ChoiceInv, DeviceLoop
    <3>5. k \in Nat /\ w \in Nat /\ candidates[k].device \in Nat
          /\ candidates[w].device \in Nat
        BY CandidatesAreTyped DEF ChoiceInv, Candidates
    <3>6. k <= w => i <= chosen'.device
        BY <2>3, <3>1, <3>4, <3>5
    <3>7. QED
        BY <3>2, <3>3, <3>6
  <2>6. chosen' # NoCandidate
      BY <2>4 DEF NoCandidate
  <2>7. ChosenIsBest'
      BY <1>1, <2>3, <2>5, SameMachine DEF ChosenIsBest
  <2>8. Outcomes'
      BY <1>1, <1>3, <2>1, <2>6 DEF Outcomes
  <2>9. ChoiceTypes' /\ FamilyLoop'
      BY <1>1, <2>1, <2>3 DEF ChoiceInv, ChoiceTypes, FamilyLoop
  <2>10. QED
      BY <1>1, <2>7, <2>8, <2>9, DeviceLoopFrame DEF ChoiceInv
<1>6. QED
    BY <1>4, <1>5

\* The logical device is made, or Vulkan fails.
LEMMA CreationKeeps ==
    ASSUME ChoiceInv, CreatesDevice \/ CreationFails \/ CreatesPool
    PROVE  ChoiceInv'
<1>1. /\ UNCHANGED <<devices, surface, dev, family, best, dedicated, candidates, chosen>>
      /\ pc \in {"create", "pool"} /\ pc' \in {"pool", "done"}
    BY DEF CreatesDevice, CreationFails, CreatesPool, Returns, loopVars
<1>2. ChoiceTypes' /\ FamilyLoop'
    BY <1>1 DEF ChoiceInv, ChoiceTypes, FamilyLoop
<1>3. Outcomes'
  <2>1. CASE CreatesDevice
      BY <1>1, <2>1 DEF ChoiceInv, Outcomes, CreatesDevice, LogicalIsRight
  <2>2. CASE CreationFails
      BY <1>1, <2>2 DEF ChoiceInv, Outcomes, CreationFails, Returns
  <2>3. CASE CreatesPool
      BY <1>1, <2>3 DEF ChoiceInv, Outcomes, CreatesPool, Returns, LogicalIsRight
  <2>4. QED
      BY <2>1, <2>2, <2>3
<1>4. QED
    BY <1>1, <1>2, <1>3, DeviceLoopFrame, ChosenFrame DEF ChoiceInv

LEMMA ChoiceNext == ChoiceInv /\ [Next]_vars => ChoiceInv'
<1> SUFFICES ASSUME ChoiceInv, [Next]_vars PROVE ChoiceInv'
    OBVIOUS
<1>1. CASE UNCHANGED vars
  <2>1. UNCHANGED <<devices, surface, pc, dev, family, best, dedicated, candidates,
                    chosen, logical, outcome>>
      BY <1>1 DEF vars
  <2>2. ChoiceTypes' /\ Outcomes'
      BY <2>1, SameMachine DEF ChoiceInv, ChoiceTypes, Outcomes, LogicalIsRight
  <2>3. FamilyLoop'
      BY <2>1 DEF ChoiceInv, FamilyLoop, BestSoFar, DedicatedSoFar, Seen, Presenting,
                  Graphics
  <2>4. QED
      BY <2>1, <2>2, <2>3, DeviceLoopFrame, ChosenFrame DEF ChoiceInv
<1>2. QED
    BY <1>1, EnumeratesKeeps, ExtensionsReject, LooksIntoKeeps, LooksAtFamilyKeeps,
       FamiliesReject, AcceptsKeeps, ChoosesKeeps, CreationKeeps DEF Next

-----------------------------------------------------------------------------
(* The theorems                                                            *)

LEMMA ChoiceSuffices == ChoiceInv => ChoiceIsBest
<1> SUFFICES ASSUME ChoiceInv PROVE ChoiceIsBest
    OBVIOUS
<1>1. UsableDevices = {i \in DOMAIN devices : Usable(devices[i])}
    BY DEF UsableDevices
<1>2. ASSUME chosen # NoCandidate, NEW i \in UsableDevices, devices[i].type = "discrete"
      PROVE  devices[chosen.device].type = "discrete"
  <2>1. /\ chosen.device \in DOMAIN devices /\ i \in DOMAIN devices
        /\ devices \in Machines
        /\ \/ Score(devices[i]) < Score(devices[chosen.device])
           \/ Score(devices[i]) = Score(devices[chosen.device])
      BY <1>2 DEF ChoiceInv, ChosenIsBest, RightCandidates, UsableDevices, ChoiceTypes
  <2>2. Score(devices[i]) \in Nat /\ Score(devices[chosen.device]) \in Nat
      BY <2>1, ScoresAreNatural DEF ChoiceInv
  <2>3. devices[chosen.device].type # "discrete" =>
            Score(devices[chosen.device]) < Score(devices[i])
      BY <1>2, <2>1, ScoresAreBounded
  <2>4. QED
      BY <2>1, <2>2, <2>3
<1>3. chosen # NoCandidate => chosen.device \in UsableDevices
    BY DEF ChoiceInv, ChosenIsBest, RightCandidates
<1>4. QED
    BY <1>1, <1>2, <1>3 DEF ChoiceInv, ChosenIsBest, Outcomes, ChoiceIsBest

LEMMA FirstIsMin ==
    ASSUME NEW S, S \subseteq Nat, NEW x, IsFirst(S, x)
    PROVE  x = Min(S)
<1>1. x \in S /\ \A y \in S : x <= y
    BY DEF IsFirst
<1>2. Min(S) \in S /\ \A y \in S : Min(S) <= y
    BY <1>1 DEF Min
<1>3. x <= Min(S) /\ Min(S) <= x
    BY <1>1, <1>2
<1>4. x \in Nat /\ Min(S) \in Nat
    BY <1>1, <1>2
<1>5. QED
    BY <1>3, <1>4

LEMMA QueuesSuffice == ChoiceInv => QueuesServe
<1> SUFFICES ASSUME ChoiceInv, outcome = "ready" PROVE QueuesServe
    BY DEF QueuesServe
<1> DEFINE d == devices[chosen.device]
           q == chosen.queues
<1>1. /\ chosen \in RightCandidates /\ LogicalIsRight /\ chosen.device \in DOMAIN devices
      /\ Required \subseteq d.extensions
    BY DEF ChoiceInv, Outcomes, ChosenIsBest, RightCandidates, UsableDevices, Usable
<1>2. QueuesAreRight(q, d)
    BY <1>1 DEF RightCandidates
<1>3. Presenting(d) \subseteq Nat /\ TransferOnly(d) \subseteq Nat
    BY <1>1, DevicesAreTyped DEF Presenting, Graphics, TransferOnly, ChoiceInv
<1>4. q.graphics = Min(Presenting(d))
    BY <1>2, <1>3, FirstIsMin DEF QueuesAreRight
<1>5. q.transfer = IF TransferOnly(d) = {} THEN q.graphics ELSE Min(TransferOnly(d))
    BY <1>2, <1>3, FirstIsMin DEF QueuesAreRight
<1>6. /\ logical.families = Requested(q)
      /\ logical.extensions \subseteq d.extensions /\ logical.features \subseteq d.features
    BY <1>1 DEF LogicalIsRight
<1>7. /\ ToSet(Requested(q)) = {q.graphics, q.transfer}
      /\ Len(Requested(q)) = Cardinality(ToSet(Requested(q)))
  <2> DEFINE a == q.graphics
             b == q.transfer
  <2> HIDE DEF q
  <2>1. CASE a = b
    <3>1. Requested(q) = <<a>> /\ ToSet(<<a>>) = {a} /\ Len(<<a>>) = 1
        BY <2>1 DEF Requested, ToSet
    <3>2. Cardinality({a}) = 1
        BY FS_Singleton
    <3>3. QED
        BY <2>1, <3>1, <3>2
  <2>2. CASE a # b
    <3>1. Requested(q) = <<a, b>> /\ ToSet(<<a, b>>) = {a, b} /\ Len(<<a, b>>) = 2
        BY <2>2 DEF Requested, ToSet
    <3>2. Cardinality({a, b}) = 2
      <4>1. IsFiniteSet({a}) /\ Cardinality({a}) = 1
          BY FS_Singleton
      <4>2. Cardinality({a} \cup {b}) = Cardinality({a}) + 1
          BY <2>2, <4>1, FS_AddElement
      <4>3. {a} \cup {b} = {a, b}
          OBVIOUS
      <4>4. QED
          BY <4>1, <4>2, <4>3
    <3>3. QED
        BY <3>1, <3>2
  <2>3. QED
      BY <2>1, <2>2
<1>8. QED
    BY <1>4, <1>5, <1>6, <1>7 DEF QueuesServe, TransferOnly

\* The device that is chosen is usable, and the best and last of the best, on every
\* machine with any number of devices; and an error that says that there is none is
\* true.
THEOREM ChoiceIsRight == Spec => []ChoiceIsBest
BY ChoiceInit, ChoiceNext, ChoiceSuffices, PTL DEF Spec

\* The queues of a finished device are of the first families that serve, whatever
\* families the device has and in whatever order.
THEOREM QueuesAreOfUse == Spec => []QueuesServe
BY ChoiceInit, ChoiceNext, QueuesSuffice, PTL DEF Spec
=============================================================================
