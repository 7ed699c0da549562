--------------------------- MODULE SwapchainProof ---------------------------
(***************************************************************************)
(* Theorems about Swapchain, for any number of frames in flight, images,   *)
(* sizes, surfaces and drawables, and whatever Vulkan returns.             *)
(***************************************************************************)
EXTENDS Swapchain, SequenceTheorems, TLAPS

Drawables == [image : Nat, fresh : BOOLEAN]
Submissions == [frame : Frames, image : Nat, starts : BOOLEAN,
                cut : BOOLEAN]

-----------------------------------------------------------------------------
(* Sequences of drawables                                                  *)

LEMMA StaleDrawables ==
    ASSUME NEW ds \in Seq(Drawables)
    PROVE  /\ Stale(ds) \in Seq(Drawables)
           /\ Len(Stale(ds)) = Len(ds) /\ DOMAIN Stale(ds) = DOMAIN ds
           /\ \A k \in DOMAIN ds : ~Stale(ds)[k].fresh
<1> DEFINE s == Stale(ds)
           n == Len(ds)
<1>1. n \in Nat /\ DOMAIN ds = 1 .. n /\ \A k \in 1 .. n : ds[k] \in Drawables
    BY LenProperties, ElementOfSeq
<1>2. s = [k \in 1 .. n |-> [ds[k] EXCEPT !.fresh = FALSE]]
    BY <1>1 DEF Stale
<1>3. \A k \in 1 .. n : s[k] \in Drawables /\ ~s[k].fresh
    BY <1>1, <1>2 DEF Drawables
<1>4. s \in [1 .. n -> Drawables]
    BY <1>2, <1>3
<1> HIDE DEF s
<1>5. s \in Seq(Drawables) /\ Len(s) = n /\ DOMAIN s = 1 .. n
    BY <1>1, <1>4, SeqDef, LenProperties
<1>6. QED
    BY <1>1, <1>3, <1>5 DEF s

LEMMA WithoutOne ==
    ASSUME NEW S, NEW s \in Seq(S), NEW k \in DOMAIN s
    PROVE  /\ Without(s, k) \in Seq(S)
           /\ Len(Without(s, k)) = Len(s) - 1
           /\ DOMAIN Without(s, k) = 1 .. Len(s) - 1
           /\ \A j \in 1 .. Len(s) - 1 :
                 Without(s, k)[j] = IF j < k THEN s[j] ELSE s[j + 1]
<1> DEFINE n == Len(s)
           a == SubSeq(s, 1, k - 1)
           b == SubSeq(s, k + 1, n)
<1>1. n \in Nat /\ k \in 1 .. n /\ DOMAIN s = 1 .. n
    BY LenProperties
<1>2. /\ a \in Seq(S) /\ Len(a) = k - 1
      /\ \A j \in 1 .. k - 1 : a[j] = s[j]
    BY <1>1, SubSeqProperties, ElementOfSeq
<1>3. /\ b \in Seq(S) /\ Len(b) = n - k
      /\ \A j \in 1 .. n - k : b[j] = s[k + j]
    BY <1>1, SubSeqProperties, ElementOfSeq
<1> HIDE DEF a, b
<1>4. /\ a \o b \in Seq(S) /\ Len(a \o b) = n - 1
      /\ \A j \in 1 .. n - 1 : (a \o b)[j] = IF j < k THEN s[j] ELSE s[j + 1]
  <2>1. /\ a \o b \in Seq(S) /\ Len(a \o b) = Len(a) + Len(b)
        /\ \A j \in 1 .. Len(a) + Len(b) :
              (a \o b)[j] = IF j <= Len(a) THEN a[j] ELSE b[j - Len(a)]
      BY <1>2, <1>3, ConcatProperties
  <2>2. Len(a) + Len(b) = n - 1
      BY <1>1, <1>2, <1>3
  <2>3. ASSUME NEW j \in 1 .. n - 1
        PROVE  (a \o b)[j] = IF j < k THEN s[j] ELSE s[j + 1]
    <3>1. CASE j < k
        BY <1>1, <1>2, <2>1, <2>2, <3>1
    <3>2. CASE ~(j < k)
      <4>1. (a \o b)[j] = b[j - (k - 1)] /\ j - (k - 1) \in 1 .. n - k
          BY <1>1, <1>2, <2>1, <2>2, <3>2
      <4>2. b[j - (k - 1)] = s[k + (j - (k - 1))] /\ k + (j - (k - 1)) = j + 1
          BY <1>1, <1>3, <4>1
      <4>3. QED
          BY <1>1, <3>2, <4>1, <4>2
    <3>3. QED
        BY <3>1, <3>2
  <2>4. QED
      BY <2>1, <2>2, <2>3
<1>5. DOMAIN (a \o b) = 1 .. n - 1
    BY <1>1, <1>4, LenProperties
<1>6. QED
    BY <1>4, <1>5 DEF Without, a, b

-----------------------------------------------------------------------------
(* Types, and which drawables hold which images                            *)

\* A fresh drawable has an image that is taken, and no other has the same.
FreshHoldTaken ==
    /\ \A k \in DOMAIN held : held[k].fresh => held[k].image \in taken
    /\ \A j, k \in DOMAIN held :
          held[j].fresh /\ held[k].fresh /\ held[j].image = held[k].image => j = k

RebuildHasSize == pc \in {"rebuild", "build"} => want \in Nat

\* The parts of a swapchain are all there, and its command buffers with them.
CommandsComeLast == commands = IF Intact THEN images ELSE 0

\* When it is built nothing is left of the one before.
BuildsAnew == pc = "build" => built = {}

SwapTypes == /\ TypeOK /\ FreshHoldTaken /\ RebuildHasSize /\ CommandsComeLast
             /\ BuildsAnew

LEMMA AllIsMadeLast ==
    /\ Len(Parts) = 4 /\ Made(4) = All
    /\ \A k \in 1 .. 3 : Made(k) \subseteq All /\ Made(k) # All
    /\ {} # All
<1>1. /\ Parts[1] = "swapchain" /\ Parts[2] = "images" /\ Parts[3] = "framebuffers"
      /\ Parts[4] = "commands" /\ Len(Parts) = 4
    BY DEF Parts
<1>2. "commands" \in All /\ All = Made(4)
    BY <1>1 DEF All, Made
<1>3. ASSUME NEW k \in 1 .. 3
      PROVE  Made(k) \subseteq All /\ "commands" \notin Made(k)
    BY <1>1, <1>3 DEF All, Made
<1>4. QED
    BY <1>1, <1>2, <1>3

LEMMA ImageCountBounds ==
    ASSUME NEW c \in Surfaces
    PROVE  /\ ImageCount(c) \in 1 .. FramesInFlight
           /\ AtLeast(ImageCount(c), c.min) \in Nat \ {0}
           /\ \A n \in ImageCounts(c) : n \in Nat \ {0}
<1>1. /\ c.min \in Nat \ {0} /\ c.max \in Nat /\ c.mailbox \in BOOLEAN
      /\ FramesInFlight \in Nat \ {0} /\ SpareImages \in Nat
    BY SwapchainAssumption DEF Caps
<1>2. ImageCount(c) \in 1 .. FramesInFlight
    BY <1>1 DEF ImageCount, AtLeast, AtMost
<1>3. QED
    BY <1>1, <1>2 DEF ImageCounts, AtLeast

LEMMA ExtentIsNatural ==
    ASSUME NEW c \in Surfaces, NEW size \in Nat
    PROVE  ExtentFor(c, size) \in Nat
BY SwapchainAssumption DEF Caps, ExtentFor, AtLeast

LEMMA NextFrameIsFrame ==
    ASSUME TypeOK
    PROVE  NextFrame \in Frames
BY SwapchainAssumption DEF TypeOK, Frames, NextFrame

LEMMA SwapTypesInit == Init => SwapTypes
<1> SUFFICES ASSUME Init PROVE SwapTypes
    OBVIOUS
<1>1. PICK c \in Surfaces, size \in Sizes :
          /\ ExtentFor(c, size) > 0 /\ extent = ExtentFor(c, size)
          /\ asked = [count |-> ImageCount(c), caps |-> c]
          /\ \E spare \in 0 .. SpareImages :
                images = AtLeast(ImageCount(c), c.min) + spare
          /\ commands = CommandCount(c, images)
    BY DEF Init
<1>2. images \in Nat /\ commands = images /\ extent \in Nat \ {0}
    BY <1>1, ImageCountBounds, ExtentIsNatural, SwapchainAssumption DEF CommandCount
<1>3. asked \in [count : 1 .. FramesInFlight, caps : Surfaces]
    BY <1>1, ImageCountBounds
<1>4. 0 \in Frames /\ work \in Seq(Submissions) /\ held \in Seq(Drawables)
    BY SwapchainAssumption, EmptySeq DEF Init, Frames
<1>5. TypeOK
    BY <1>2, <1>3, <1>4 DEF Init, TypeOK, Submissions, Drawables, Images
<1>6. QED
    BY <1>2, <1>5 DEF Init, SwapTypes, FreshHoldTaken, RebuildHasSize, BuildsAnew, CommandsComeLast,
                      Intact

LEMMA HeldIsTyped ==
    ASSUME TypeOK
    PROVE  /\ held \in Seq(Drawables) /\ Len(held) \in Nat /\ DOMAIN held = 1 .. Len(held)
           /\ \A k \in DOMAIN held : held[k] \in Drawables /\ held[k].image \in Nat
<1>1. held \in Seq(Drawables)
    BY DEF TypeOK, Drawables
<1>2. Len(held) \in Nat /\ DOMAIN held = 1 .. Len(held)
      /\ \A k \in DOMAIN held : held[k] \in Drawables
    BY <1>1, LenProperties, ElementOfSeq
<1>3. QED
    BY <1>1, <1>2 DEF Drawables

LEMMA WorkIsTyped ==
    ASSUME TypeOK
    PROVE  /\ work \in Seq(Submissions) /\ Len(work) \in Nat /\ DOMAIN work = 1 .. Len(work)
           /\ \A k \in DOMAIN work : work[k] \in Submissions /\ work[k].frame \in Frames
<1>1. work \in Seq(Submissions)
    BY DEF TypeOK, Submissions
<1>2. Len(work) \in Nat /\ DOMAIN work = 1 .. Len(work)
      /\ \A k \in DOMAIN work : work[k] \in Submissions
    BY <1>1, LenProperties, ElementOfSeq
<1>3. QED
    BY <1>1, <1>2 DEF Submissions

\* Steps of a call that only set what is simple.
LEMMA TypesOfSimpleSteps ==
    ASSUME SwapTypes,
           \/ \E size \in Sizes : RequestResize(size)
           \/ TickResizes \/ TickBegins \/ FenceIsSignalled \/ AcquiresNothing
           \/ AcquireOutOfDate \/ AcquireFails \/ WaitFails
           \/ \E k \in DOMAIN held : PresentPanics(k)
    PROVE  SwapTypes'
<1>1. UNCHANGED <<images, built, commands, extent, asked, semaphore, work, taken, shown,
                  held, seen, misused>>
    BY DEF RequestResize, TickResizes, TickBegins, FenceIsSignalled, AcquiresNothing,
           AcquireOutOfDate, AcquireFails, WaitFails, PresentPanics, resources, sync, call
<1>2. /\ state' \in {"Ready", "Recreating"} /\ frame' \in Frames
      /\ fence' \in [Frames -> BOOLEAN] /\ pending' \in Sizes \cup {NoSize}
      /\ pc' \in {"free", "wait", "acquire", "rebuild", "panic"}
      /\ why' \in {"new", "resize", "suboptimal", "outdated", "present"}
      /\ want' \in Nat \cup {NoSize} /\ index' \in Nat
      /\ pc' \in {"rebuild", "build"} => want' \in Nat
  <2> USE DEF SwapTypes, TypeOK, RebuildHasSize, resources, sync, call
  <2>1. CASE \E size \in Sizes : RequestResize(size)
      BY <2>1 DEF RequestResize
  <2>2. CASE TickResizes
      BY <2>2, SwapchainAssumption DEF TickResizes, RebuildFor, ResizePending
  <2>3. CASE TickBegins
      BY <2>3 DEF TickBegins
  <2>4. CASE FenceIsSignalled
      BY <2>4 DEF FenceIsSignalled, FenceAfterWait
  <2>5. CASE AcquiresNothing
      BY <2>5, NextFrameIsFrame DEF AcquiresNothing
  <2>6. CASE AcquireOutOfDate
      BY <2>6 DEF AcquireOutOfDate, RebuildFor
  <2>7. CASE AcquireFails
      BY <2>7 DEF AcquireFails
  <2>8. CASE \E k \in DOMAIN held : PresentPanics(k)
      BY <2>8 DEF PresentPanics
  <2>9. CASE WaitFails
      BY <2>9 DEF WaitFails
  <2>10. QED
      BY <2>1, <2>2, <2>3, <2>4, <2>5, <2>6, <2>7, <2>8, <2>9
<1>3. TypeOK'
    BY <1>1, <1>2 DEF SwapTypes, TypeOK, Images
<1>4. QED
    BY <1>1, <1>2, <1>3
       DEF SwapTypes, FreshHoldTaken, RebuildHasSize, BuildsAnew, CommandsComeLast, Intact

LEMMA TypesOfAcquires ==
    ASSUME SwapTypes, NEW i \in Images,
           Acquires(i) \/ AcquiresSuboptimal(i) \/ ResetFails(i)
    PROVE  SwapTypes'
<1>1. /\ UNCHANGED <<images, built, commands, extent, asked, frame, pending, work, shown>>
      /\ taken' = taken \cup {i} /\ i \notin taken /\ i \in Nat
      /\ semaphore' = [semaphore EXCEPT ![frame] = TRUE]
      /\ misused' = (misused \/ semaphore[frame])
    BY DEF Acquires, AcquiresSuboptimal, ResetFails, Gets, resources, Images
<1>2. /\ state' \in {"Ready", "Recreating"} /\ fence' \in [Frames -> BOOLEAN]
      /\ pc' \in {"free", "rebuild", "panic"}
      /\ why' \in {"new", "resize", "suboptimal", "outdated", "present"}
      /\ want' \in Nat \cup {NoSize} /\ index' \in Nat
      /\ pc' \in {"rebuild", "build"} => want' \in Nat
      /\ seen' \in SUBSET AllSurprises
    BY <1>1 DEF Acquires, AcquiresSuboptimal, ResetFails, ResetFence, RebuildFor,
                resources, SwapTypes, TypeOK, AllSurprises
<1>3. \/ held' = held
      \/ held' = Append(held, [image |-> i, fresh |-> TRUE])
    BY DEF Acquires, AcquiresSuboptimal, ResetFails
<1>4. held' \in Seq(Drawables) /\ FreshHoldTaken'
  <2>1. CASE held' = held
      BY <1>1, <2>1, HeldIsTyped DEF SwapTypes, FreshHoldTaken
  <2>2. CASE held' = Append(held, [image |-> i, fresh |-> TRUE])
    <3> DEFINE e == [image |-> i, fresh |-> TRUE]
               n == Len(held)
    <3>1. e \in Drawables /\ e.image = i
        BY <1>1 DEF Drawables
    <3> HIDE DEF e
    <3>2. /\ held' \in Seq(Drawables) /\ Len(held') = n + 1 /\ n \in Nat
          /\ DOMAIN held = 1 .. n
          /\ \A k \in 1 .. n : held'[k] = held[k]
          /\ held'[n + 1] = e
        BY <2>2, <3>1, HeldIsTyped, AppendProperties DEF SwapTypes, e
    <3>3. DOMAIN held' = 1 .. n + 1
        BY <3>2, LenProperties
    <3>4. \A k \in 1 .. n : held[k].fresh => held[k].image \in taken
        BY <3>2 DEF SwapTypes, FreshHoldTaken
    <3>5. FreshHoldTaken'
        BY <1>1, <3>1, <3>2, <3>3, <3>4 DEF SwapTypes, FreshHoldTaken
    <3>6. QED
        BY <3>2, <3>5
  <2>3. QED
      BY <1>3, <2>1, <2>2
<1>5. TypeOK'
    BY <1>1, <1>2, <1>4 DEF SwapTypes, TypeOK, Images, Drawables
<1>6. QED
    BY <1>1, <1>2, <1>4, <1>5
       DEF SwapTypes, RebuildHasSize, BuildsAnew, CommandsComeLast, Intact

LEMMA TypesOfRebuilds ==
    ASSUME SwapTypes, NEW c \in Surfaces,
           RebuildRefused(c) \/ \E n \in ImageCounts(c), k \in 1 .. Len(Parts) : Rebuild(c, n, k)
    PROVE  SwapTypes'
<1>1. CASE RebuildRefused(c)
  <2>1. /\ UNCHANGED <<state, images, built, commands, extent, asked, frame, fence, semaphore,
                       pending, why, work, taken, shown, held, seen, misused>>
        /\ pc' = "free" /\ want' = NoSize /\ index' = 0
      BY <1>1 DEF RebuildRefused, resources, sync
  <2>2. TypeOK'
      BY <2>1 DEF SwapTypes, TypeOK, Images
  <2>3. QED
      BY <2>1, <2>2, AllIsMadeLast
         DEF SwapTypes, FreshHoldTaken, RebuildHasSize, BuildsAnew, CommandsComeLast, Intact
<1>2. ASSUME NEW n \in ImageCounts(c), NEW k \in 1 .. 4, Rebuild(c, n, k)
      PROVE  SwapTypes'
  <2>1. /\ UNCHANGED <<frame, fence, semaphore, pending, why, work, seen, misused>>
        /\ extent' = ExtentFor(c, want) /\ ExtentFor(c, want) > 0 /\ want \in Nat
        /\ asked' = [count |-> ImageCount(c), caps |-> c]
        /\ images' = n /\ built' = Made(k) /\ built = {} /\ pc' # "build"
        /\ want' = NoSize /\ index' = 0 /\ taken' = {} /\ shown' = {}
      BY <1>2 DEF Rebuild, HandOut, sync, SwapTypes, RebuildHasSize, BuildsAnew
  <2>2. commands' = (IF k = 4 THEN n ELSE 0) /\ n \in Nat \ {0}
    <3>1. n \in Nat \ {0} /\ Len(Parts) = 4
        BY ImageCountBounds, AllIsMadeLast
    <3>2. CASE k = 4
        BY <1>2, <3>1, <3>2 DEF Rebuild, CommandCount
    <3>3. CASE k < 4
      <4>1. commands' = commands
          BY <1>2, <3>1, <3>3 DEF Rebuild
      <4>2. commands = 0
          BY <2>1, AllIsMadeLast DEF SwapTypes, CommandsComeLast, Intact
      <4>3. QED
          BY <3>1, <3>3, <4>1, <4>2
    <3>4. QED
        BY <3>1, <3>2, <3>3
  <2>3. extent' \in Nat \ {0} /\ asked' \in [count : 1 .. FramesInFlight, caps : Surfaces]
      BY <2>1, ExtentIsNatural, ImageCountBounds
  <2>4. /\ pc' \in {"free", "panic"} /\ state' \in {"Ready", "Recreating"}
        /\ \/ held' = Stale(held)
           \/ held' = Append(Stale(held), [image |-> index, fresh |-> FALSE])
      BY <1>2 DEF Rebuild, HandOut, SwapTypes, TypeOK
  <2>5. held' \in Seq(Drawables) /\ \A j \in DOMAIN held' : ~held'[j].fresh
    <3> DEFINE s == Stale(held)
               e == [image |-> index, fresh |-> FALSE]
    <3>1. /\ s \in Seq(Drawables) /\ DOMAIN s = 1 .. Len(s) /\ Len(s) \in Nat
          /\ \A j \in DOMAIN s : ~s[j].fresh
        BY HeldIsTyped, StaleDrawables, LenProperties DEF SwapTypes
    <3>2. e \in Drawables /\ ~e.fresh
        BY DEF SwapTypes, TypeOK, Drawables
    <3> HIDE DEF s, e
    <3>3. CASE held' = s
        BY <3>1, <3>3
    <3>4. CASE held' = Append(s, e)
      <4>1. /\ held' \in Seq(Drawables) /\ Len(held') = Len(s) + 1
            /\ \A j \in 1 .. Len(s) : held'[j] = s[j]
            /\ held'[Len(s) + 1] = e
          BY <3>1, <3>2, <3>4, AppendProperties
      <4>2. DOMAIN held' = 1 .. Len(s) + 1
          BY <4>1, LenProperties
      <4>3. QED
          BY <3>1, <3>2, <4>1, <4>2
    <3>5. QED
        BY <2>4, <3>3, <3>4 DEF s, e
  <2>6. built' \in SUBSET All /\ (built' = All <=> k = 4)
      BY <2>1, AllIsMadeLast
  <2>7. TypeOK'
      BY <2>1, <2>2, <2>3, <2>4, <2>5, <2>6 DEF SwapTypes, TypeOK, Images, Drawables
  <2>8. QED
      BY <2>1, <2>2, <2>4, <2>5, <2>6, <2>7
         DEF SwapTypes, FreshHoldTaken, RebuildHasSize, BuildsAnew, CommandsComeLast, Intact
<1>3. QED
    BY <1>1, <1>2, AllIsMadeLast

\* Nothing of a submission but its mark changes when device_wait_idle fails.
LEMMA CutWork ==
    ASSUME NEW s \in Seq(Submissions)
    PROVE  /\ Cut(s) \in Seq(Submissions) /\ DOMAIN Cut(s) = DOMAIN s
           /\ \A k \in DOMAIN s : /\ Cut(s)[k].cut
                                  /\ Cut(s)[k].frame = s[k].frame
                                  /\ Cut(s)[k].image = s[k].image
                                  /\ Cut(s)[k].starts = s[k].starts
<1> DEFINE c == Cut(s)
           n == Len(s)
<1>1. n \in Nat /\ DOMAIN s = 1 .. n /\ \A k \in 1 .. n : s[k] \in Submissions
    BY LenProperties, ElementOfSeq
<1>2. c = [k \in 1 .. n |-> [s[k] EXCEPT !.cut = TRUE]]
    BY <1>1 DEF Cut
<1>3. \A k \in 1 .. n : /\ c[k] \in Submissions /\ c[k].cut
                         /\ c[k].frame = s[k].frame /\ c[k].image = s[k].image
                         /\ c[k].starts = s[k].starts
    BY <1>1, <1>2 DEF Submissions
<1>4. c \in [1 .. n -> Submissions]
    BY <1>2, <1>3
<1> HIDE DEF c
<1>5. c \in Seq(Submissions) /\ DOMAIN c = 1 .. n
    BY <1>1, <1>4, SeqDef, LenProperties
<1>6. QED
    BY <1>1, <1>3, <1>5 DEF c

LEMMA TypesOfDestroys ==
    ASSUME SwapTypes, DestroysResources
    PROVE  SwapTypes'
<1>1. /\ UNCHANGED <<state, images, extent, asked, frame, fence, semaphore, pending,
                     why, want, index, taken, shown, held, seen, misused>>
      /\ built' = {} /\ commands' = 0 /\ pc' = "build" /\ pc = "rebuild"
    BY DEF DestroysResources, sync
<1>2. work' \in Seq(Submissions)
    BY WorkIsTyped, CutWork DEF DestroysResources, SwapTypes
<1>3. TypeOK'
    BY <1>1, <1>2 DEF SwapTypes, TypeOK, Submissions, Images
<1>4. QED
    BY <1>1, <1>3, AllIsMadeLast
       DEF SwapTypes, FreshHoldTaken, RebuildHasSize, BuildsAnew, CommandsComeLast, Intact

LEMMA TypesOfSubmits ==
    ASSUME SwapTypes, NEW k \in DOMAIN held,
           Present(k) \/ PresentOutOfDate(k) \/ SubmitFails(k)
    PROVE  SwapTypes'
<1> DEFINE n == Len(held)
           i == held[k].image
<1>1. /\ UNCHANGED <<images, built, commands, extent, asked, fence, pending>>
      /\ held' = Without(held, k) /\ i < commands
    BY DEF Present, PresentOutOfDate, SubmitFails, Submits, resources, sync
<1>2. /\ n \in Nat /\ k \in 1 .. n /\ i \in Nat /\ held \in Seq(Drawables)
      /\ \A j \in 1 .. n : held[j] \in Drawables
    BY HeldIsTyped DEF SwapTypes
<1>3. /\ held' \in Seq(Drawables) /\ DOMAIN held' = 1 .. n - 1
      /\ \A j \in 1 .. n - 1 : held'[j] = IF j < k THEN held[j] ELSE held[j + 1]
    BY <1>1, <1>2, WithoutOne
<1>4. \/ taken' = taken /\ shown' = shown
      \/ held[k].fresh /\ taken' = taken \ {i} /\ shown' = shown \cup {i}
    BY DEF Present, PresentOutOfDate, SubmitFails, Submits
<1>5. held[k].fresh => i \in taken
    BY DEF SwapTypes, FreshHoldTaken
<1>6. FreshHoldTaken'
  <2> DEFINE was(j) == IF j < k THEN j ELSE j + 1
  <2>1. \A j \in DOMAIN held' :
           was(j) \in DOMAIN held /\ was(j) # k /\ held'[j] = held[was(j)]
      BY <1>2, <1>3, HeldIsTyped DEF SwapTypes
  <2>2. \A j, m \in DOMAIN held' : was(j) = was(m) => j = m
      BY <1>2, <1>3
  <2> HIDE DEF was, n
  <2>3. \A j, m \in DOMAIN held' :
           held'[j].fresh /\ held'[m].fresh /\ held'[j].image = held'[m].image => j = m
      BY <2>1, <2>2 DEF SwapTypes, FreshHoldTaken
  <2>4. \A j \in DOMAIN held' : held'[j].fresh => held'[j].image \in taken'
    <3> SUFFICES ASSUME NEW j \in DOMAIN held', held'[j].fresh
                 PROVE  held'[j].image \in taken'
        OBVIOUS
    <3>1. /\ was(j) \in DOMAIN held /\ was(j) # k
          /\ held[was(j)].fresh /\ held'[j].image = held[was(j)].image
        BY <2>1
    <3>2. held[was(j)].image \in taken
        BY <3>1 DEF SwapTypes, FreshHoldTaken
    <3>3. held[k].fresh => held[was(j)].image # i
        BY <3>1 DEF SwapTypes, FreshHoldTaken
    <3>4. QED
        BY <1>4, <3>1, <3>2, <3>3
  <2>5. QED
      BY <2>3, <2>4 DEF FreshHoldTaken
<1>7. work' \in Seq(Submissions)
  <2>1. frame \in Frames /\ semaphore[frame] \in BOOLEAN
      BY DEF SwapTypes, TypeOK
  <2>2. [frame |-> frame, image |-> i, starts |-> semaphore[frame], cut |-> FALSE]
        \in Submissions
      BY <1>2, <2>1 DEF Submissions
  <2>3. CASE Submits(k)
      BY <2>2, <2>3, WorkIsTyped, AppendProperties DEF Submits, SwapTypes
  <2>4. CASE work' = work
      BY <2>4, WorkIsTyped DEF SwapTypes
  <2>5. QED
      BY <2>3, <2>4 DEF Present, PresentOutOfDate, SubmitFails
<1>8. /\ state' \in {"Ready", "Recreating"} /\ frame' \in Frames
      /\ semaphore' \in [Frames -> BOOLEAN]
      /\ pc' \in {"free", "rebuild"}
      /\ why' \in {"new", "resize", "suboptimal", "outdated", "present"}
      /\ want' \in Nat \cup {NoSize} /\ index' \in Nat
      /\ pc' \in {"rebuild", "build"} => want' \in Nat
      /\ seen' \in SUBSET AllSurprises /\ misused' \in BOOLEAN
  <2> USE DEF SwapTypes, TypeOK, sync, call, resources, RebuildFor, Presents
  <2>1. CASE Present(k)
      BY <2>1, NextFrameIsFrame DEF Present, Submits
  <2>2. CASE PresentOutOfDate(k)
      BY <2>2, NextFrameIsFrame DEF PresentOutOfDate, Submits
  <2>3. CASE SubmitFails(k)
      BY <2>3 DEF SubmitFails, AllSurprises
  <2>4. QED
      BY <2>1, <2>2, <2>3
<1>9. taken' \in SUBSET Images' /\ shown' \in SUBSET Images'
    BY <1>1, <1>4, <1>5 DEF SwapTypes, TypeOK, Images
<1>10. TypeOK'
    BY <1>1, <1>3, <1>7, <1>8, <1>9 DEF SwapTypes, TypeOK, Drawables, Submissions
<1>11. QED
    BY <1>1, <1>6, <1>8, <1>10
       DEF SwapTypes, RebuildHasSize, BuildsAnew, CommandsComeLast, Intact

LEMMA TypesOfDevice ==
    ASSUME SwapTypes, Complete \/ \E i \in Images : Shown(i)
    PROVE  SwapTypes'
<1>1. UNCHANGED <<state, images, built, commands, extent, asked, frame, semaphore, pending,
                  pc, why, want, index, taken, held, seen, misused>>
    BY DEF Complete, Shown, resources, sync, call
<1>2. /\ fence' \in [Frames -> BOOLEAN] /\ work' \in Seq(Submissions)
      /\ shown' \subseteq shown
  <2>1. CASE Complete
    <3>1. Tail(work) \in Seq(Submissions)
        BY <2>1, WorkIsTyped, HeadTailProperties DEF Complete, SwapTypes
    <3>2. QED
        BY <2>1, <3>1 DEF Complete, SwapTypes, TypeOK
  <2>2. CASE \E i \in Images : Shown(i)
      BY <2>2, WorkIsTyped DEF Shown, sync, SwapTypes, TypeOK
  <2>3. QED
      BY <2>1, <2>2
<1>3. TypeOK'
    BY <1>1, <1>2 DEF SwapTypes, TypeOK, Submissions, Images
<1>4. QED
    BY <1>1, <1>3 DEF SwapTypes, FreshHoldTaken, RebuildHasSize, BuildsAnew, CommandsComeLast, Intact

LEMMA SwapTypesNext == SwapTypes /\ [Next]_vars => SwapTypes'
<1> SUFFICES ASSUME SwapTypes, [Next]_vars PROVE SwapTypes'
    OBVIOUS
<1>1. CASE UNCHANGED vars
    BY <1>1 DEF vars, SwapTypes, TypeOK, FreshHoldTaken, RebuildHasSize, BuildsAnew, CommandsComeLast,
                Intact, Images
<1>2. QED
    BY <1>1, TypesOfSimpleSteps, TypesOfAcquires, TypesOfRebuilds, TypesOfDestroys,
       TypesOfSubmits, TypesOfDevice
       DEF Next, NextDrawable, TickGoesOn, RebuildGoesOn, PresentDrawable, Device

\* The work after a submission of the k-th drawable, and after a completion.
LEMMA SubmittedWork ==
    ASSUME SwapTypes, NEW k \in DOMAIN held, Submits(k)
    PROVE  /\ Len(work) \in Nat /\ DOMAIN work = 1 .. Len(work)
           /\ DOMAIN work' = 1 .. Len(work) + 1
           /\ \A j \in DOMAIN work : work'[j] = work[j]
           /\ work'[Len(work) + 1].frame = frame
           /\ work'[Len(work) + 1].image = held[k].image
           /\ work'[Len(work) + 1].starts = semaphore[frame]
<1> DEFINE e == [frame |-> frame, image |-> held[k].image, starts |-> semaphore[frame],
                 cut |-> FALSE]
           n == Len(work)
<1>1. /\ e \in Submissions /\ e.frame = frame /\ e.image = held[k].image
      /\ e.starts = semaphore[frame]
    BY HeldIsTyped DEF SwapTypes, TypeOK, Submissions
<1>2. work' = Append(work, e)
    BY DEF Submits
<1> HIDE DEF e
<1>3. /\ n \in Nat /\ DOMAIN work = 1 .. n /\ Len(work') = n + 1
      /\ work' \in Seq(Submissions)
      /\ \A j \in 1 .. n : work'[j] = work[j]
      /\ work'[n + 1] = e
    BY <1>1, <1>2, WorkIsTyped, AppendProperties DEF SwapTypes
<1>4. DOMAIN work' = 1 .. n + 1
    BY <1>3, LenProperties
<1>5. QED
    BY <1>1, <1>3, <1>4

LEMMA CompletedWork ==
    ASSUME SwapTypes, Complete
    PROVE  /\ 1 \in DOMAIN work /\ Head(work) = work[1]
           /\ \A j \in DOMAIN work' : j + 1 \in DOMAIN work /\ work'[j] = work[j + 1]
           /\ \A j \in DOMAIN work : j # 1 => j - 1 \in DOMAIN work' /\ work'[j - 1] = work[j]
           /\ DOMAIN work \subseteq Nat /\ DOMAIN work' \subseteq Nat \ {0}
<1>1. work # <<>> /\ work' = Tail(work) /\ work \in Seq(Submissions)
    BY WorkIsTyped DEF Complete, SwapTypes
<1>2. /\ Len(work) \in Nat /\ DOMAIN work = 1 .. Len(work)
      /\ work' \in Seq(Submissions) /\ Len(work') = Len(work) - 1
      /\ \A j \in 1 .. Len(work') : work'[j] = work[j + 1]
    BY <1>1, LenProperties, HeadTailProperties
<1>3. DOMAIN work' = 1 .. Len(work) - 1 /\ Len(work) # 0
    BY <1>1, <1>2, LenProperties, EmptySeq
<1>4. Head(work) = work[1]
    BY <1>1
<1>5. QED
    BY <1>2, <1>3, <1>4

-----------------------------------------------------------------------------
(* The device and the resources                                            *)

\* From the destruction to the new swapchain the device has only work for which
\* device_wait_idle failed.
DeviceInv == /\ DeviceUsesWhatIsThere
             /\ pc = "build" => \A k \in DOMAIN work : work[k].cut

LEMMA DeviceUsesNext == SwapTypes /\ DeviceInv /\ [Next]_vars => DeviceInv'
<1> SUFFICES ASSUME SwapTypes, DeviceInv, [Next]_vars PROVE DeviceInv'
    OBVIOUS
<1> USE DEF DeviceInv
<1>1. CASE UNCHANGED <<work, built, images>> /\ (pc' = "build" => pc = "build")
    BY <1>1 DEF DeviceUsesWhatIsThere, Intact, Images
<1>2. CASE DestroysResources
  <2>1. CASE DeviceIdle /\ UNCHANGED work
      BY <2>1, EmptySeq DEF DeviceIdle, DeviceUsesWhatIsThere
  <2>2. CASE work' = Cut(work)
      BY <2>2, CutWork, WorkIsTyped DEF DeviceUsesWhatIsThere, SwapTypes
  <2>3. QED
      BY <1>2, <2>1, <2>2 DEF DestroysResources
<1>3. CASE \E c \in Surfaces :
              RebuildRefused(c)
              \/ \E n \in ImageCounts(c), k \in 1 .. Len(Parts) : Rebuild(c, n, k)
  <2>1. pc = "build" /\ pc' # "build" /\ work' = work
      BY <1>3 DEF RebuildRefused, Rebuild, HandOut
  <2>2. QED
      BY <2>1 DEF DeviceUsesWhatIsThere
<1>4. ASSUME NEW k \in DOMAIN held, Present(k) \/ PresentOutOfDate(k)
      PROVE  DeviceInv'
  <2>1. /\ Submits(k) /\ UNCHANGED <<built, images>> /\ held[k].image < commands
        /\ pc' # "build"
      BY <1>4 DEF Present, PresentOutOfDate, Submits, Presents, RebuildFor, call,
                  resources
  <2>2. held[k].image \in Nat /\ commands \in Nat /\ images \in Nat
      BY HeldIsTyped DEF SwapTypes, TypeOK
  <2>3. Intact /\ held[k].image \in Images
      BY <2>1, <2>2 DEF SwapTypes, CommandsComeLast, Images
  <2>4. \A j \in DOMAIN work' : ~work'[j].cut => work'[j].image \in Images
      BY <2>1, <2>3, SubmittedWork DEF DeviceUsesWhatIsThere
  <2>5. QED
      BY <2>1, <2>3, <2>4 DEF DeviceUsesWhatIsThere, Intact, Images
<1>5. CASE Complete
    BY <1>5, CompletedWork
       DEF Complete, resources, call, DeviceUsesWhatIsThere, Intact, Images
<1>6. CASE UNCHANGED vars
    BY <1>1, <1>6 DEF vars
<1>7. CASE \/ \E size \in Sizes : RequestResize(size)
           \/ NextDrawable \/ TickGoesOn \/ WaitFails
           \/ \E k \in DOMAIN held : SubmitFails(k) \/ PresentPanics(k)
           \/ \E i \in Images : Shown(i)
    BY <1>1, <1>7
       DEF RequestResize, NextDrawable, TickResizes, TickBegins, TickGoesOn,
           FenceIsSignalled, WaitFails, AcquiresNothing, AcquireOutOfDate, AcquireFails,
           Acquires, AcquiresSuboptimal, ResetFails, RebuildFor, SubmitFails,
           PresentPanics, Shown, resources, call
<1>8. QED
    BY <1>2, <1>3, <1>4, <1>5, <1>6, <1>7 DEF Next, RebuildGoesOn, PresentDrawable, Device

-----------------------------------------------------------------------------
(* Fences                                                                  *)

\* A fence is unsignalled for a submission, started or not, or for a drawable.
FencesHaveCauses ==
    \A i \in Frames : ~fence[i] =>
        \/ \E k \in DOMAIN work : work[k].frame = i
        \/ i = frame /\ (held # <<>> \/ "submit" \in seen)
        \/ pc = "panic"

\* From the wait to the acquire the fence stays signalled.
FenceInv == (pc = "acquire" => fence[frame]) /\ FencesHaveCauses

LEMMA FencesNext == SwapTypes /\ FenceInv /\ [Next]_vars => FenceInv'
<1> SUFFICES ASSUME SwapTypes, FenceInv, [Next]_vars PROVE FenceInv'
    OBVIOUS
<1> USE DEF FenceInv
<1>1. CASE /\ UNCHANGED <<frame, fence, work>>
           /\ pc' = "acquire" => pc = "acquire"
           /\ pc = "panic" => pc' = "panic"
           /\ held = <<>> \/ held' # <<>> \/ "submit" \in seen'
           /\ seen \subseteq seen'
    BY <1>1 DEF FencesHaveCauses
<1>2. CASE \/ \E size \in Sizes : RequestResize(size)
           \/ NextDrawable \/ AcquireOutOfDate \/ AcquireFails \/ WaitFails
           \/ \E i \in Images : AcquiresSuboptimal(i) \/ ResetFails(i)
           \/ \E k \in DOMAIN held : SubmitFails(k) \/ PresentPanics(k)
           \/ \E i \in Images : Shown(i)
    BY <1>1, <1>2
       DEF RequestResize, NextDrawable, TickResizes, TickBegins, AcquireOutOfDate,
           AcquireFails, WaitFails, AcquiresSuboptimal, ResetFails, Gets, SubmitFails, PresentPanics,
           Shown, RebuildFor, Presents, sync, call
<1>3. CASE FenceIsSignalled
    BY <1>3 DEF FenceIsSignalled, FenceAfterWait, FencesHaveCauses
<1>4. CASE AcquiresNothing
    BY <1>4 DEF AcquiresNothing, FencesHaveCauses
<1>5. ASSUME NEW i \in Images, Acquires(i) PROVE FenceInv'
  <2>1. /\ UNCHANGED <<frame, work, seen>> /\ pc = "acquire" /\ pc' # "acquire"
        /\ fence' = [fence EXCEPT ![frame] = FALSE]
      BY <1>5 DEF Acquires, Gets, ResetFence
  <2>2. pc' = "panic" \/ held' # <<>>
      BY <1>5, HeldIsTyped, AppendProperties, EmptySeq DEF Acquires, SwapTypes
  <2>3. \A j \in Frames : j # frame => fence'[j] = fence[j]
      BY <2>1 DEF SwapTypes, TypeOK
  <2>4. QED
      BY <2>1, <2>2, <2>3 DEF FencesHaveCauses
<1>6. CASE \E c \in Surfaces :
              RebuildRefused(c)
              \/ \E n \in ImageCounts(c), k \in 1 .. Len(Parts) : Rebuild(c, n, k)
  <2>1. /\ UNCHANGED <<frame, fence, work, seen>> /\ pc = "build" /\ pc' # "acquire"
      BY <1>6 DEF RebuildRefused, Rebuild, HandOut, sync
  <2>2. held = <<>> \/ held' # <<>>
    <3>1. \/ held' = held \/ held' = Stale(held)
          \/ held' = Append(Stale(held), [image |-> index, fresh |-> FALSE])
        BY <1>6 DEF RebuildRefused, Rebuild, HandOut
    <3>2. Stale(held) \in Seq(Drawables) /\ Len(Stale(held)) = Len(held)
        BY HeldIsTyped, StaleDrawables DEF SwapTypes
    <3>3. held # <<>> => Stale(held) # <<>>
        BY <3>2, HeldIsTyped, EmptySeq DEF SwapTypes
    <3>4. Append(Stale(held), [image |-> index, fresh |-> FALSE]) # <<>>
      <4>1. [image |-> index, fresh |-> FALSE] \in Drawables
          BY DEF SwapTypes, TypeOK, Drawables
      <4>2. Len(Append(Stale(held), [image |-> index, fresh |-> FALSE])) = Len(held) + 1
          BY <3>2, <4>1, AppendProperties
      <4>3. QED
          BY <4>2, HeldIsTyped DEF SwapTypes
    <3>5. QED
        BY <3>1, <3>3, <3>4
  <2>3. QED
      BY <1>1, <2>1, <2>2
<1>7. ASSUME NEW k \in DOMAIN held, Present(k) \/ PresentOutOfDate(k)
      PROVE  FenceInv'
  <2>1. Submits(k) /\ UNCHANGED <<fence, seen>> /\ pc = "free" /\ pc' \in {"free", "rebuild"}
      BY <1>7 DEF Present, PresentOutOfDate, Submits, Presents, RebuildFor, call
  <2>2. /\ \E j \in DOMAIN work' : work'[j].frame = frame
        /\ \A j \in DOMAIN work : j \in DOMAIN work' /\ work'[j] = work[j]
    <3>1. /\ Len(work) \in Nat /\ DOMAIN work = 1 .. Len(work)
          /\ DOMAIN work' = 1 .. Len(work) + 1
          /\ \A j \in DOMAIN work : work'[j] = work[j]
          /\ work'[Len(work) + 1].frame = frame
        BY <2>1, SubmittedWork
    <3>2. QED
        BY <3>1
  <2>3. QED
      BY <2>1, <2>2 DEF FencesHaveCauses
<1>8. CASE Complete
  <2>1. /\ UNCHANGED <<frame, pc, held, seen>>
        /\ fence' = [fence EXCEPT ![Head(work).frame] = TRUE]
        /\ Head(work) = work[1]
      BY <1>8, CompletedWork DEF Complete, call
  <2>2. \A i \in Frames : ~fence'[i] => ~fence[i] /\ i # work[1].frame
      BY <2>1 DEF SwapTypes, TypeOK
  <2>3. ASSUME NEW i \in Frames, ~fence'[i], NEW j \in DOMAIN work, work[j].frame = i
        PROVE  \E m \in DOMAIN work' : work'[m].frame = i
      BY <1>8, <2>2, <2>3, CompletedWork
  <2>4. FencesHaveCauses'
      BY <2>1, <2>2, <2>3 DEF FencesHaveCauses
  <2>5. pc' = "acquire" => fence'[frame']
      BY <2>1, <2>2 DEF SwapTypes, TypeOK
  <2>6. QED
      BY <2>4, <2>5
<1>9. CASE DestroysResources
  <2>1. /\ UNCHANGED <<frame, fence, held, seen>> /\ pc = "rebuild" /\ pc' = "build"
        /\ work' = work \/ work' = Cut(work)
      BY <1>9 DEF DestroysResources, sync
  <2>2. /\ DOMAIN work' = DOMAIN work
        /\ \A k \in DOMAIN work : work'[k].frame = work[k].frame
      BY <2>1, CutWork, WorkIsTyped DEF SwapTypes
  <2>3. QED
      BY <2>1, <2>2 DEF FencesHaveCauses
<1>10. CASE UNCHANGED vars
    BY <1>1, <1>10 DEF vars
<1>11. QED
    BY <1>2, <1>3, <1>4, <1>5, <1>6, <1>7, <1>8, <1>9, <1>10
       DEF Next, TickGoesOn, RebuildGoesOn, PresentDrawable, Device

-----------------------------------------------------------------------------
(* Semaphores and fences in pairs                                          *)

\* Whatever else fails: without a suboptimal acquire.
Orderly == "suboptimal" \notin seen

Quiet == seen \cap {"suboptimal", "reset", "submit"} = {}

SuboptimalWasSeen == why = "suboptimal" => "suboptimal" \in seen

\* Submissions are of different frames, whose fences are unsignalled, and start.
WorkIsPaired == /\ \A k \in DOMAIN work : work[k].starts /\ ~fence[work[k].frame]
                /\ \A j, k \in DOMAIN work : work[j].frame = work[k].frame => j = k

\* There is one drawable at most, and it is of the current frame.
HeldIsPaired ==
    pc # "panic" =>
        /\ Len(held) <= 1
        /\ held # <<>> => /\ semaphore[frame] /\ ~fence[frame]
                          /\ \A k \in DOMAIN work : work[k].frame # frame

\* No other semaphore is signalled.
SemaphoresArePaired ==
    pc # "panic" => \A i \in Frames : semaphore[i] => i = frame /\ held # <<>>

SyncInv == /\ SuboptimalWasSeen
           /\ Orderly => WorkIsPaired /\ HeldIsPaired
           /\ Quiet => SemaphoresArePaired /\ ~misused

LEMMA QuietIsOrderly == (Quiet => Orderly) /\ (Quiet' => Orderly')
BY DEF Quiet, Orderly

LEMMA SyncFrame ==
    ASSUME SyncInv, UNCHANGED <<semaphore, fence, work, frame, misused, seen>>,
           pc = "panic" => pc' = "panic", Len(held') = Len(held),
           held = <<>> <=> held' = <<>>,
           why' = why \/ why' # "suboptimal"
    PROVE  SyncInv'
BY DEF SyncInv, SuboptimalWasSeen, Orderly, Quiet, WorkIsPaired, HeldIsPaired,
       SemaphoresArePaired

\* A drawable and image_available of the frame, whether or not it is ready.
LEMMA SyncOfAcquires ==
    ASSUME SwapTypes, FenceInv, SyncInv, NEW i \in Images, Acquires(i)
    PROVE  SyncInv'
<1> DEFINE e == [image |-> i, fresh |-> TRUE]
<1>1. /\ UNCHANGED <<frame, work, seen, why>> /\ pc = "acquire"
      /\ fence' = [fence EXCEPT ![frame] = FALSE]
      /\ semaphore' = [semaphore EXCEPT ![frame] = TRUE]
      /\ misused' = (misused \/ semaphore[frame])
      /\ frame \in Frames /\ fence[frame]
      /\ pc' = "panic" \/ held' = Append(held, e)
    BY DEF Acquires, Gets, ResetFence, FenceInv, SwapTypes, TypeOK
<1>2. \A j \in Frames : j # frame => semaphore'[j] = semaphore[j] /\ fence'[j] = fence[j]
    BY <1>1 DEF SwapTypes, TypeOK
<1>3. semaphore'[frame] /\ ~fence'[frame]
    BY <1>1 DEF SwapTypes, TypeOK
<1>4. pc' # "panic" => Len(held') = Len(held) + 1 /\ held' # <<>> /\ Len(held) \in Nat
  <2>1. e \in Drawables
      BY DEF Drawables, Images, SwapTypes, TypeOK
  <2> HIDE DEF e
  <2>2. Len(Append(held, e)) = Len(held) + 1 /\ Len(held) \in Nat
      BY <2>1, HeldIsTyped, AppendProperties DEF SwapTypes
  <2>3. SUFFICES ASSUME held' = Append(held, e)
                 PROVE  Len(held') = Len(held) + 1 /\ held' # <<>>
      BY <1>1, <2>2
  <2>4. Len(held') = Len(held) + 1
      BY <2>2, <2>3
  <2>5. QED
      BY <2>2, <2>4, EmptySeq
<1> HIDE DEF e
<1>5. Orderly => held = <<>> /\ Len(held) = 0
    BY <1>1, EmptySeq DEF SyncInv, HeldIsPaired
<1>6. Orderly => \A k \in DOMAIN work : work[k].frame # frame
    BY <1>1 DEF SyncInv, WorkIsPaired
<1>7. ASSUME Orderly PROVE WorkIsPaired'
    BY <1>1, <1>2, <1>6, <1>7, WorkIsTyped DEF SyncInv, WorkIsPaired, SwapTypes
<1>8. ASSUME Orderly PROVE HeldIsPaired'
  <2>1. SUFFICES ASSUME pc' # "panic"
                 PROVE  /\ Len(held') <= 1
                        /\ semaphore'[frame'] /\ ~fence'[frame']
                        /\ \A k \in DOMAIN work' : work'[k].frame # frame'
      BY DEF HeldIsPaired
  <2>2. Len(held') <= 1
    <3>1. Len(held') = Len(held) + 1
        BY <1>4, <2>1, Zenon
    <3>2. QED
        BY <1>5, <1>8, <3>1
  <2>3. frame' = frame /\ work' = work
      BY <1>1
  <2>4. QED
      BY <1>3, <1>6, <1>8, <2>2, <2>3
<1>9. ASSUME Quiet PROVE (SemaphoresArePaired /\ ~misused)'
  <2>1. \A j \in Frames : ~semaphore[j]
      BY <1>1, <1>5, <1>9, QuietIsOrderly DEF SyncInv, SemaphoresArePaired
  <2>2. ~misused'
      BY <1>1, <1>9, <2>1 DEF SyncInv
  <2>3. pc' # "panic" => \A j \in Frames : semaphore'[j] => j = frame' /\ held' # <<>>
    <3>1. SUFFICES ASSUME pc' # "panic"
                   PROVE  \A j \in Frames : semaphore'[j] => j = frame' /\ held' # <<>>
        OBVIOUS
    <3>2. held' # <<>>
        BY <1>4, <3>1
    <3>3. frame' = frame
        BY <1>1
    <3>4. QED
        BY <1>2, <2>1, <3>2, <3>3
  <2>4. QED
      BY <2>2, <2>3 DEF SemaphoresArePaired
<1>10. (Orderly' <=> Orderly) /\ (Quiet' <=> Quiet) /\ SuboptimalWasSeen'
    BY <1>1 DEF Orderly, Quiet, SyncInv, SuboptimalWasSeen
<1>11. QED
    BY <1>7, <1>8, <1>9, <1>10 DEF SyncInv

LEMMA SyncOfSubmits ==
    ASSUME SwapTypes, FenceInv, SyncInv, NEW k \in DOMAIN held,
           Present(k) \/ PresentOutOfDate(k)
    PROVE  SyncInv'
<1>1. /\ Submits(k) /\ UNCHANGED <<fence, seen>> /\ pc = "free" /\ pc' # "panic"
      /\ why' = why \/ why' # "suboptimal"
      /\ held' = Without(held, k)
      /\ semaphore' = [semaphore EXCEPT ![frame] = FALSE]
      /\ misused' = (misused \/ ~semaphore[frame] \/ fence[frame])
      /\ frame' \in Frames /\ frame \in Frames
    BY NextFrameIsFrame
       DEF Present, PresentOutOfDate, Submits, Presents, RebuildFor, call, SwapTypes, TypeOK
<1>2. held # <<>>
    BY HeldIsTyped, EmptySeq DEF SwapTypes
<1>3. \A i \in Frames : semaphore'[i] => semaphore[i] /\ i # frame
    BY <1>1 DEF SwapTypes, TypeOK
<1>4. ASSUME Orderly PROVE (WorkIsPaired /\ HeldIsPaired)'
  <2>1. WorkIsPaired /\ HeldIsPaired
      BY <1>4 DEF SyncInv
  <2>2. /\ Len(held) = 1 /\ semaphore[frame] /\ ~fence[frame]
        /\ \A j \in DOMAIN work : work[j].frame # frame
      BY <1>1, <1>2, <2>1, HeldIsTyped DEF HeldIsPaired, SwapTypes
  <2>3. held' = <<>> /\ Len(held') = 0
      BY <1>1, <2>2, HeldIsTyped, WithoutOne, EmptySeq DEF SwapTypes
  <2>4. /\ Len(work) \in Nat /\ DOMAIN work = 1 .. Len(work)
        /\ DOMAIN work' = 1 .. Len(work) + 1
        /\ \A j \in DOMAIN work : work'[j] = work[j]
        /\ work'[Len(work) + 1].frame = frame
        /\ work'[Len(work) + 1].starts
      BY <1>1, <2>2, SubmittedWork
  <2>5. WorkIsPaired'
      BY <1>1, <2>1, <2>2, <2>4 DEF WorkIsPaired
  <2>6. HeldIsPaired'
      BY <2>3 DEF HeldIsPaired
  <2>7. QED
      BY <2>5, <2>6
<1>5. ASSUME Quiet PROVE (SemaphoresArePaired /\ ~misused)'
  <2>1. semaphore[frame] /\ ~fence[frame]
      BY <1>1, <1>2, <1>5, QuietIsOrderly DEF SyncInv, HeldIsPaired
  <2>2. \A i \in Frames : ~semaphore'[i]
      BY <1>1, <1>3, <1>5 DEF SyncInv, SemaphoresArePaired
  <2>3. QED
      BY <1>1, <1>5, <2>1, <2>2 DEF SyncInv, SemaphoresArePaired
<1>6. (Orderly' <=> Orderly) /\ (Quiet' <=> Quiet) /\ SuboptimalWasSeen'
    BY <1>1 DEF Orderly, Quiet, SyncInv, SuboptimalWasSeen
<1>7. QED
    BY <1>4, <1>5, <1>6 DEF SyncInv

LEMMA SyncOfComplete ==
    ASSUME SwapTypes, SyncInv, Complete
    PROVE  SyncInv'
<1>1. /\ UNCHANGED <<semaphore, frame, misused, seen, held, pc, why>>
      /\ fence' = [fence EXCEPT ![Head(work).frame] = TRUE]
      /\ Head(work) = work[1] /\ 1 \in DOMAIN work
    BY CompletedWork DEF Complete, call
<1>2. \A i \in Frames : i # work[1].frame => fence'[i] = fence[i]
    BY <1>1 DEF SwapTypes, TypeOK
<1>3. \A j \in DOMAIN work' :
         /\ j + 1 \in DOMAIN work /\ work'[j] = work[j + 1] /\ j + 1 # 1 /\ j \in Nat
    BY CompletedWork
<1>4. ASSUME Orderly PROVE (WorkIsPaired /\ HeldIsPaired)'
  <2>1. WorkIsPaired /\ HeldIsPaired
      BY <1>4 DEF SyncInv
  <2>2. \A j \in DOMAIN work' :
           /\ work'[j].frame # work[1].frame /\ ~fence[work'[j].frame]
           /\ work'[j].frame \in Frames /\ work'[j].starts
      BY <1>1, <1>3, <2>1, WorkIsTyped DEF WorkIsPaired, SwapTypes
  <2>3. \A j, k \in DOMAIN work' : work'[j].frame = work'[k].frame => j = k
    <3> SUFFICES ASSUME NEW j \in DOMAIN work', NEW k \in DOMAIN work',
                        work'[j].frame = work'[k].frame
                 PROVE  j = k
        OBVIOUS
    <3>1. j + 1 = k + 1
        BY <1>3, <2>1 DEF WorkIsPaired
    <3>2. QED
        BY <1>3, <3>1
  <2>4. WorkIsPaired'
      BY <1>2, <2>2, <2>3 DEF WorkIsPaired
  <2>5. HeldIsPaired'
      BY <1>1, <1>2, <1>3, <2>1 DEF HeldIsPaired, SwapTypes, TypeOK
  <2>6. QED
      BY <2>4, <2>5
<1>5. (Orderly' <=> Orderly) /\ (Quiet' <=> Quiet) /\ SuboptimalWasSeen'
    BY <1>1 DEF Orderly, Quiet, SyncInv, SuboptimalWasSeen
<1>6. Quiet => (SemaphoresArePaired /\ ~misused)'
    BY <1>1 DEF SyncInv, SemaphoresArePaired
<1>7. QED
    BY <1>4, <1>5, <1>6 DEF SyncInv

LEMMA SyncOfSubmitFails ==
    ASSUME SwapTypes, SyncInv, NEW k \in DOMAIN held, SubmitFails(k)
    PROVE  SyncInv'
<1>1. /\ UNCHANGED <<semaphore, fence, work, frame, pc, why>> /\ pc = "free"
      /\ "submit" \in seen' /\ seen \subseteq seen' /\ held' = Without(held, k)
      /\ (Orderly' => Orderly)
    BY DEF SubmitFails, Presents, sync, call, Orderly
<1>2. Orderly => held' = <<>> /\ Len(held') = 0
  <2>1. SUFFICES ASSUME Orderly PROVE held' = <<>> /\ Len(held') = 0
      OBVIOUS
  <2>2. Len(held) <= 1 /\ Len(held) >= 1
      BY <1>1, <2>1, HeldIsTyped DEF SyncInv, HeldIsPaired, SwapTypes
  <2>3. QED
      BY <1>1, <2>2, HeldIsTyped, WithoutOne, EmptySeq DEF SwapTypes
<1>3. Orderly' => WorkIsPaired'
    BY <1>1 DEF SyncInv, WorkIsPaired
<1>4. Orderly' => HeldIsPaired'
    BY <1>1, <1>2 DEF HeldIsPaired
<1>5. ~Quiet' /\ SuboptimalWasSeen'
    BY <1>1 DEF Quiet, SyncInv, SuboptimalWasSeen
<1>6. QED
    BY <1>3, <1>4, <1>5 DEF SyncInv

LEMMA SyncNext == SwapTypes /\ FenceInv /\ SyncInv /\ [Next]_vars => SyncInv'
<1> SUFFICES ASSUME SwapTypes, FenceInv, SyncInv, [Next]_vars PROVE SyncInv'
    OBVIOUS
<1>1. CASE \/ \E size \in Sizes : RequestResize(size)
           \/ NextDrawable \/ FenceIsSignalled \/ WaitFails \/ AcquireOutOfDate
           \/ AcquireFails
           \/ \E k \in DOMAIN held : PresentPanics(k)
           \/ \E i \in Images : Shown(i)
  <2>1. /\ UNCHANGED <<semaphore, fence, work, frame, misused, seen, held>>
        /\ pc = "panic" => pc' = "panic"
        /\ why' = why \/ why' # "suboptimal"
      BY <1>1
         DEF RequestResize, NextDrawable, TickResizes, TickBegins, FenceIsSignalled,
             FenceAfterWait, WaitFails, AcquireOutOfDate, AcquireFails, PresentPanics,
             Presents, Shown, RebuildFor, sync, call
  <2>2. QED
      BY <2>1, SyncFrame
<1>2. CASE AcquiresNothing
  <2>1. /\ UNCHANGED <<semaphore, fence, work, misused, seen, held, why>>
        /\ pc = "acquire" /\ fence[frame]
      BY <1>2 DEF AcquiresNothing, FenceInv
  <2>2. Orderly => held = <<>>
      BY <2>1 DEF SyncInv, HeldIsPaired
  <2>3. Quiet => SemaphoresArePaired' /\ ~misused'
      BY <2>1, <2>2, QuietIsOrderly DEF SyncInv, SemaphoresArePaired
  <2>4. QED
      BY <2>1, <2>2, <2>3
         DEF SyncInv, SuboptimalWasSeen, Orderly, Quiet, WorkIsPaired, HeldIsPaired
<1>3. ASSUME NEW i \in Images, AcquiresSuboptimal(i) PROVE SyncInv'
    BY <1>3 DEF AcquiresSuboptimal, SyncInv, SuboptimalWasSeen, Orderly, Quiet
<1>4. ASSUME NEW i \in Images, ResetFails(i) PROVE SyncInv'
  <2>1. /\ UNCHANGED <<fence, work, frame, held, why>> /\ pc = "acquire"
        /\ fence[frame] /\ "reset" \in seen' /\ seen \subseteq seen'
        /\ (Orderly' => Orderly)
      BY <1>4 DEF ResetFails, Gets, FenceInv, Orderly
  <2>2. Orderly => held = <<>>
      BY <2>1 DEF SyncInv, HeldIsPaired
  <2>3. (Orderly' => WorkIsPaired' /\ HeldIsPaired') /\ ~Quiet'
      BY <2>1, <2>2, EmptySeq DEF SyncInv, WorkIsPaired, HeldIsPaired, Quiet
  <2>4. QED
      BY <1>4, <2>1, <2>3 DEF ResetFails, SyncInv, SuboptimalWasSeen
<1>5. CASE DestroysResources
  <2>1. /\ UNCHANGED <<semaphore, fence, frame, misused, seen, held, why>>
        /\ pc = "rebuild" /\ pc' = "build" /\ (work' = work \/ work' = Cut(work))
      BY <1>5 DEF DestroysResources, sync
  <2>2. /\ DOMAIN work' = DOMAIN work
        /\ \A k \in DOMAIN work : work'[k].frame = work[k].frame
                                  /\ work'[k].starts = work[k].starts
      BY <2>1, CutWork, WorkIsTyped DEF SwapTypes
  <2>3. QED
      BY <2>1, <2>2 DEF SyncInv, SuboptimalWasSeen, Orderly, Quiet, WorkIsPaired,
                        HeldIsPaired, SemaphoresArePaired
<1>6. CASE \E c \in Surfaces :
              RebuildRefused(c)
              \/ \E n \in ImageCounts(c), k \in 1 .. Len(Parts) : Rebuild(c, n, k)
  <2>1. /\ UNCHANGED <<semaphore, fence, work, frame, misused, seen, why>>
        /\ pc = "build"
      BY <1>6 DEF RebuildRefused, Rebuild, sync
  <2>2. CASE why = "suboptimal"
      BY <2>1, <2>2 DEF SyncInv, SuboptimalWasSeen, Orderly, Quiet
  <2>3. CASE why # "suboptimal"
    <3>1. held' = held \/ held' = Stale(held)
        BY <1>6, <2>3 DEF RebuildRefused, Rebuild
    <3>2. Len(held') = Len(held) /\ (held = <<>> <=> held' = <<>>)
        BY <3>1, HeldIsTyped, StaleDrawables, EmptySeq DEF SwapTypes
    <3>3. QED
        BY <2>1, <3>2, SyncFrame
  <2>4. QED
      BY <2>2, <2>3
<1>7. CASE UNCHANGED vars
    BY <1>7, SyncFrame DEF vars
<1>8. QED
    BY <1>1, <1>2, <1>3, <1>4, <1>5, <1>6, <1>7, SyncOfAcquires, SyncOfSubmits,
       SyncOfComplete, SyncOfSubmitFails
       DEF Next, TickGoesOn, RebuildGoesOn, PresentDrawable, Device

\* While no submission waits for ever, every one on the device completes.
LEMMA FencesSuffice == SwapTypes /\ FenceInv /\ SyncInv => FencesComeBack
<1> SUFFICES ASSUME SwapTypes, FenceInv, SyncInv PROVE FencesComeBack
    OBVIOUS
<1>1. Orderly => Stuck = {}
    BY WorkIsTyped DEF SyncInv, WorkIsPaired, Stuck, SwapTypes
<1>2. QED
    BY <1>1 DEF FenceInv, FencesHaveCauses, FencesComeBack, Orderly

-----------------------------------------------------------------------------
(* Panics                                                                  *)

LEMMA PanicsNext == SwapTypes /\ PanicsHaveCauses /\ [Next]_vars => PanicsHaveCauses'
<1> SUFFICES ASSUME SwapTypes, PanicsHaveCauses, [Next]_vars PROVE PanicsHaveCauses'
    OBVIOUS
<1>1. CASE pc' # "panic"
    BY <1>1 DEF PanicsHaveCauses
<1>2. CASE UNCHANGED <<pc, built, why, held>>
    BY <1>2 DEF PanicsHaveCauses, Intact
<1>3. CASE \/ \E size \in Sizes : RequestResize(size)
           \/ NextDrawable \/ FenceIsSignalled \/ AcquiresNothing \/ AcquireOutOfDate
           \/ AcquireFails \/ WaitFails \/ DestroysResources
           \/ \E i \in Images : AcquiresSuboptimal(i) \/ ResetFails(i)
           \/ \E k \in DOMAIN held : Present(k) \/ PresentOutOfDate(k) \/ SubmitFails(k)
    BY <1>1, <1>3
       DEF RequestResize, NextDrawable, TickResizes, TickBegins, FenceIsSignalled,
           AcquiresNothing, AcquireOutOfDate, AcquireFails, WaitFails, DestroysResources,
           AcquiresSuboptimal, ResetFails, Present, PresentOutOfDate, SubmitFails, Submits,
           Presents, RebuildFor, call
<1>4. CASE Device
    BY <1>2, <1>4 DEF Device, Complete, Shown, resources, call
<1>5. ASSUME NEW i \in Images, Acquires(i), pc' = "panic" PROVE PanicsHaveCauses'
  <2>1. ~(i < commands) /\ built' = built
      BY <1>5 DEF Acquires, resources, SwapTypes, TypeOK
  <2>2. ~Intact
      BY <2>1 DEF SwapTypes, CommandsComeLast, TypeOK, Images
  <2>3. QED
      BY <2>1, <2>2 DEF PanicsHaveCauses, Intact
<1>6. CASE RebuildGoesOn /\ pc' = "panic"
  <2>1. why = "suboptimal" /\ why' = why
      BY <1>6 DEF RebuildGoesOn, DestroysResources, RebuildRefused, Rebuild
  <2>2. QED
      BY <2>1 DEF PanicsHaveCauses
<1>7. ASSUME NEW k \in DOMAIN held, PresentPanics(k) PROVE PanicsHaveCauses'
  <2>1. held[k].image >= commands /\ UNCHANGED <<built, held, why>>
      BY <1>7 DEF PresentPanics, resources
  <2>2. /\ held[k].image \in Nat /\ images \in Nat /\ taken \subseteq Images
        /\ held[k].fresh \in BOOLEAN
      BY HeldIsTyped DEF SwapTypes, TypeOK, Drawables
  <2>3. Intact => ~held[k].fresh
      BY <2>1, <2>2 DEF SwapTypes, CommandsComeLast, FreshHoldTaken, Images
  <2>4. QED
      BY <2>1, <2>3 DEF PanicsHaveCauses, Intact
<1>8. CASE UNCHANGED vars
    BY <1>2, <1>8 DEF vars
<1>9. QED
    BY <1>1, <1>3, <1>4, <1>5, <1>6, <1>7, <1>8 DEF Next, TickGoesOn, PresentDrawable

-----------------------------------------------------------------------------
(* The state                                                               *)

StateInv ==
    IF pc \in {"rebuild", "build"} THEN state = IF MarksState(why) THEN "Recreating" ELSE "Ready"
    ELSE /\ state = "Recreating" => ~Intact
         /\ state = "Ready" => Intact \/ why = "present"

LEMMA StateNext == SwapTypes /\ StateInv /\ [Next]_vars => StateInv'
<1> SUFFICES ASSUME SwapTypes, StateInv, [Next]_vars PROVE StateInv'
    OBVIOUS
<1>1. CASE /\ UNCHANGED <<state, built, why>>
           /\ pc \in {"rebuild", "build"} <=> pc' \in {"rebuild", "build"}
    BY <1>1 DEF StateInv, Intact
<1>2. CASE \/ \E size \in Sizes : RequestResize(size)
           \/ TickBegins \/ FenceIsSignalled \/ AcquiresNothing \/ AcquireFails
           \/ WaitFails
           \/ \E i \in Images : ResetFails(i) \/ Acquires(i)
           \/ \E k \in DOMAIN held : Present(k) \/ SubmitFails(k) \/ PresentPanics(k)
           \/ Device
    BY <1>1, <1>2
       DEF RequestResize, TickBegins, FenceIsSignalled, AcquiresNothing, AcquireFails,
           WaitFails, ResetFails, Acquires, Gets, Present, SubmitFails, PresentPanics, Presents,
           Submits, Device, Complete, Shown, resources, call
<1>3. CASE \/ TickResizes \/ AcquireOutOfDate \/ \E i \in Images : AcquiresSuboptimal(i)
  <2>1. pc' = "rebuild" /\ why' # "present" /\ state' = "Recreating"
      BY <1>3 DEF TickResizes, AcquireOutOfDate, AcquiresSuboptimal, RebuildFor, MarksState
  <2>2. QED
      BY <2>1 DEF StateInv, MarksState
<1>4. ASSUME NEW k \in DOMAIN held, PresentOutOfDate(k) PROVE StateInv'
  <2>1. /\ pc = "free" /\ held[k].image < commands
        /\ pc' = "rebuild" /\ why' = "present" /\ state' = state
      BY <1>4 DEF PresentOutOfDate, Submits, Presents, RebuildFor, MarksState
  <2>2. Intact
      BY <2>1, HeldIsTyped DEF SwapTypes, CommandsComeLast
  <2>3. state = "Ready"
      BY <2>1, <2>2 DEF StateInv, SwapTypes, TypeOK
  <2>4. QED
      BY <2>1, <2>3 DEF StateInv, MarksState
<1>5. CASE RebuildGoesOn
  <2> DEFINE builds(c) == RebuildRefused(c)
                          \/ \E n \in ImageCounts(c), k \in 1 .. Len(Parts) : Rebuild(c, n, k)
  <2>0. CASE DestroysResources
      BY <2>0 DEF DestroysResources, StateInv
  <2>1. SUFFICES ASSUME NEW c \in Surfaces, builds(c) PROVE StateInv'
      BY <1>5, <2>0 DEF RebuildGoesOn
  <2>2. CASE RebuildRefused(c)
    <3>1. /\ pc = "build" /\ pc' = "free" /\ UNCHANGED <<state, why, built>> /\ built = {}
        BY <2>2 DEF RebuildRefused, resources, SwapTypes, BuildsAnew
    <3>2. QED
        BY <3>1, AllIsMadeLast DEF StateInv, Intact, MarksState
  <2>3. ASSUME NEW n \in ImageCounts(c), NEW k \in 1 .. 4, Rebuild(c, n, k)
        PROVE  StateInv'
    <3>1. /\ pc = "build" /\ pc' \notin {"rebuild", "build"}
          /\ why' = why /\ built' = Made(k)
        BY <2>3 DEF Rebuild, HandOut
    <3>2. CASE k = 4
      <4>1. state' = "Ready" /\ built' = All
          BY <2>3, <3>1, <3>2, AllIsMadeLast DEF Rebuild, StateInv
      <4>2. QED
          BY <3>1, <4>1 DEF StateInv, Intact
    <3>3. CASE k # 4
      <4>1. k \in 1 .. 3 /\ k < 4
          BY <3>3
      <4>2. built' # All
          BY <3>1, <4>1, AllIsMadeLast
      <4>3. k < Len(Parts)
          BY <4>1, AllIsMadeLast
      <4>4. state' = state
          BY <2>3, <4>3 DEF Rebuild
      <4>5. QED
          BY <3>1, <4>2, <4>4 DEF StateInv, Intact, MarksState
    <3>4. QED
        BY <3>2, <3>3
  <2>4. QED
      BY <2>1, <2>2, <2>3, AllIsMadeLast
<1>6. CASE UNCHANGED vars
    BY <1>1, <1>6 DEF vars
<1>7. QED
    BY <1>2, <1>3, <1>4, <1>5, <1>6 DEF Next, NextDrawable, TickGoesOn, PresentDrawable

-----------------------------------------------------------------------------
(* The number of images                                                    *)

CountIsRight == asked.count = ImageCount(asked.caps)

LEMMA CountNext == CountIsRight /\ [Next]_vars => CountIsRight'
<1> SUFFICES ASSUME CountIsRight, [Next]_vars PROVE CountIsRight'
    OBVIOUS
<1>1. CASE UNCHANGED asked
    BY <1>1 DEF CountIsRight
<1>2. ASSUME NEW c, NEW n, NEW k, Rebuild(c, n, k) PROVE CountIsRight'
    BY <1>2 DEF Rebuild, CountIsRight
<1>3. CASE RebuildGoesOn
    BY <1>1, <1>2, <1>3 DEF RebuildGoesOn, DestroysResources, RebuildRefused, resources
<1>4. CASE TickGoesOn \/ WaitFails \/ NextDrawable \/ Device \/ PresentDrawable \/ UNCHANGED vars
           \/ \E size \in Sizes : RequestResize(size)
    BY <1>1, <1>4
       DEF TickGoesOn, NextDrawable, Device, PresentDrawable, vars, resources,
           RequestResize, TickResizes, TickBegins, FenceIsSignalled, WaitFails,
           AcquiresNothing, AcquireOutOfDate, AcquireFails, Acquires, AcquiresSuboptimal,
           ResetFails, Present, PresentOutOfDate, SubmitFails, PresentPanics, Complete, Shown
<1>5. QED
    BY <1>3, <1>4 DEF Next

LEMMA CountSuffices == SwapTypes /\ CountIsRight => CountIsSupported
<1> SUFFICES ASSUME SwapTypes, CountIsRight PROVE CountIsSupported
    OBVIOUS
<1> DEFINE c == asked.caps
<1>1. c \in Surfaces
    BY DEF SwapTypes, TypeOK
<1>2. /\ c.min \in Nat \ {0} /\ c.max \in Nat /\ c.mailbox \in BOOLEAN
      /\ FramesInFlight \in Nat \ {0} /\ (c.max = 0 \/ c.min <= c.max)
    BY <1>1, SwapchainAssumption DEF Caps
<1> HIDE DEF c
<1>3. c.min <= FramesInFlight => ImageCount(c) >= c.min
    BY <1>2 DEF ImageCount, AtLeast, AtMost
<1>4. c.max >= (IF c.mailbox THEN 3 ELSE 2) => ImageCount(c) <= c.max
    BY <1>2 DEF ImageCount, AtLeast, AtMost
<1>5. QED
    BY <1>3, <1>4 DEF CountIsSupported, CountIsRight, c

-----------------------------------------------------------------------------
(* The theorems                                                            *)

LEMMA SwapInit ==
    Init => /\ SwapTypes /\ DeviceInv /\ FenceInv /\ SyncInv
            /\ PanicsHaveCauses /\ StateInv /\ CountIsRight
<1> SUFFICES ASSUME Init
             PROVE  /\ SwapTypes /\ DeviceInv /\ FenceInv /\ SyncInv
                    /\ PanicsHaveCauses /\ StateInv /\ CountIsRight
    OBVIOUS
<1>1. /\ work = <<>> /\ held = <<>> /\ Len(held) = 0 /\ DOMAIN work = {} /\ pc = "free"
    BY EmptySeq DEF Init
<1>2. SyncInv
    BY <1>1 DEF Init, SyncInv, SuboptimalWasSeen, WorkIsPaired, HeldIsPaired,
                     SemaphoresArePaired
<1>3. FenceInv /\ DeviceInv /\ PanicsHaveCauses
    BY <1>1 DEF Init, FenceInv, FencesHaveCauses, DeviceInv, DeviceUsesWhatIsThere,
                PanicsHaveCauses
<1>4. StateInv
    BY <1>1 DEF Init, StateInv, Intact
<1>5. CountIsRight
    BY DEF Init, CountIsRight
<1>6. QED
    BY <1>2, <1>3, <1>4, <1>5, SwapTypesInit

\* The types of every reachable state, for any number of frames in flight and any
\* surfaces.
THEOREM SwapchainIsTyped == Spec => []TypeOK
<1>1. SwapTypes => TypeOK
    BY DEF SwapTypes
<1>2. QED
    BY <1>1, SwapTypesInit, SwapTypesNext, PTL DEF Spec

\* The device never works on resources of a swapchain that is gone, except with what
\* was submitted before a device_wait_idle that failed: any other rebuild finds it
\* idle, and none is submitted before the next swapchain is whole.
THEOREM DeviceIsSafe == Spec => []DeviceUsesWhatIsThere
<1>1. DeviceInv => DeviceUsesWhatIsThere
    BY DEF DeviceInv
<1>2. QED
    BY <1>1, SwapInit, SwapTypesNext, DeviceUsesNext, PTL DEF Spec

\* A fence is unsignalled only while the device has work of its frame that it will
\* complete, while a drawable of the current frame is kept, after a submission that
\* failed or a panic, or, once an acquire was suboptimal, with a submission on the
\* device that waits for a semaphore nobody signals.
THEOREM FencesReturn == Spec => []FencesComeBack
<1>1. SwapTypes /\ FenceInv /\ SyncInv /\ [Next]_vars => (SwapTypes /\ FenceInv /\ SyncInv)'
    BY SwapTypesNext, FencesNext, SyncNext
<1>2. QED
    BY <1>1, SwapInit, FencesSuffice, PTL DEF Spec

\* Without a suboptimal acquire, a failed reset or a failed submission, semaphores
\* and fences are used in pairs, however many frames are in flight.
THEOREM SyncStaysPaired == Spec => []SyncIsPaired
<1>1. SyncInv => SyncIsPaired
    BY DEF SyncInv, SyncIsPaired, Quiet
<1>2. SwapTypes /\ FenceInv /\ SyncInv /\ [Next]_vars => (SwapTypes /\ FenceInv /\ SyncInv)'
    BY SwapTypesNext, FencesNext, SyncNext
<1>3. QED
    BY <1>1, <1>2, SwapInit, PTL DEF Spec

\* A command buffer is looked up out of range only after a failed rebuild or with
\* the image of a former swapchain.
THEOREM PanicsAreExplained == Spec => []PanicsHaveCauses
BY SwapInit, SwapTypesNext, PanicsNext, PTL DEF Spec

\* Between calls state() is right, except after a rebuild of submit_and_present.
THEOREM StateIsTrue == Spec => []StateTellsTheTruth
<1>1. StateInv => StateTellsTheTruth
    BY DEF StateInv, StateTellsTheTruth
<1>2. QED
    BY <1>1, SwapInit, SwapTypesNext, StateNext, PTL DEF Spec

\* The number of images asked for is supported by every surface whose limits leave
\* room for it.
THEOREM CountsAreSupported == Spec => []CountIsSupported
BY SwapInit, SwapTypesNext, CountNext, CountSuffices, PTL DEF Spec
=============================================================================
