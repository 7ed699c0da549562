------------------------- MODULE SharedMemoryProof -------------------------
(***************************************************************************)
(* Theorems about what processes share: ShmRing, for every number of       *)
(* writers and readers, every slot_count, every cursor width and every     *)
(* number of deaths; and SharedNames, for any processes with any number of *)
(* threads, any names, addresses and objects.  The two share no state.     *)
(***************************************************************************)
EXTENDS ShmRing, SharedNames, TLAPS, FiniteSetTheorems

-----------------------------------------------------------------------------
(*                                 The ring                                *)

USE DEF Attempts, IterationsLeft, ScanBegin, ScanEnd, AllStored, AfterReading

(***************************************************************************)
(* The two halves of the inductive invariant.  LoopCounts: a writer inside *)
(* its loop has an iteration left.  OneWriter, OneReader: a slot is held   *)
(* by one caller of a kind; that no writer and reader share one follows    *)
(* from HolderKeepsSlot, the state being Writing for one and Reading for   *)
(* the other.                                                              *)
(***************************************************************************)
LoopCounts == \A w \in Writers : wpc[w] \in {"probe", "cas"} => wleft[w] > 0

OneWriter == \A v, w \in Writers :
                wpc[v] = "fill" /\ wpc[w] = "fill" /\ widx[v] = widx[w] => v = w
OneReader == \A q, r \in Readers :
                rpc[q] = "hold" /\ rpc[r] = "hold" /\ ridx[q] = ridx[r] => q = r

RingInv == TypeOK /\ LoopCounts /\ HolderKeepsSlot /\ OneWriter /\ OneReader

LEMMA SlotArithmetic ==
    ASSUME NEW c \in Nat
    PROVE  c % SlotCount \in Slots /\ Advance(c) \in 0 .. CursorModulus - 1
BY RingAssumption DEF Slots, Advance

\* The invariant holds at the start: nobody holds anything.
LEMMA InitRing == Init => RingInv
<1> SUFFICES ASSUME Init PROVE RingInv
    OBVIOUS
<1>1. TypeOK
    BY RingAssumption DEF Init, TypeOK, Slots, Metadata, Blank, Actors
<1>2. QED
    BY <1>1 DEF Init, RingInv, LoopCounts, HolderKeepsSlot, OneWriter, OneReader

\* Every step of a writer, its death included, keeps the variables in their
\* types.
LEMMA WriterTypes ==
    ASSUME TypeOK, LoopCounts, NEW w \in Writers, WriterStep(w) \/ WriterDies(w)
    PROVE  TypeOK'
<1> USE DEF TypeOK, Actors
<1>1. CASE BeginWrite(w)
    BY <1>1, RingAssumption DEF BeginWrite, Suiting, ringVars, readerVars
<1>2. CASE FetchCursor(w)
    BY <1>2, SlotArithmetic DEF FetchCursor, readerVars
<1>3. CASE ClaimSlot(w)
    BY <1>3, RingAssumption DEF ClaimSlot, TryTransition, SteadyAfter, readerVars
<1>4. CASE SkipSlot(w)
    BY <1>4, RingAssumption DEF SkipSlot, LoopCounts, Slots, ringVars, readerVars
<1>5. CASE DropFrame(w)
    BY <1>5 DEF DropFrame, ringVars, readerVars
<1>6. CASE \E f \in Frames : Publish(w, f)
    BY <1>6 DEF Publish, TryTransition, SteadyAfter, readerVars
<1>7. CASE \E fld \in Fields : Stamp(w, fld)
    BY <1>7 DEF Stamp, Metadata, ringVars, readerVars
<1>8. CASE PublishReturns(w)
    BY <1>8, RingAssumption DEF PublishReturns, Slots, ringVars, readerVars
<1>9. CASE WriterDies(w)
    BY <1>9, RingAssumption DEF WriterDies, Slots, ringVars, readerVars
<1>10. QED
    BY <1>1, <1>2, <1>3, <1>4, <1>5, <1>6, <1>7, <1>8, <1>9 DEF WriterStep

LEMMA ReaderTypes ==
    ASSUME TypeOK, NEW r \in Readers, ReaderStep(r) \/ ReaderDies(r)
    PROVE  TypeOK'
<1> USE DEF TypeOK, Actors
<1>1. CASE BeginRead(r)
    BY <1>1, RingAssumption DEF BeginRead, Suiting, Slots, ringVars, writerVars
<1>2. CASE TakeSlot(r)
    BY <1>2 DEF TakeSlot, TryTransition, SteadyAfter, writerVars
<1>3. CASE PassSlot(r)
  <2>1. rpc' \in [Readers -> {"idle", "scan", "hold", "none"}]
    BY <1>3 DEF PassSlot
  <2>2. ridx' \in [Readers -> Slots]
    <3>1. ridx[r] \in Slots /\ 0 \in Slots
      BY RingAssumption DEF Slots
    <3>2. ridx[r] # SlotCount - 1 => ridx[r] + 1 \in Slots
      BY <3>1, RingAssumption DEF Slots
    <3>3. QED
      BY <1>3, <3>1, <3>2 DEF PassSlot
  <2>3. QED
    BY <1>3, <2>1, <2>2 DEF PassSlot, ringVars, writerVars
<1>4. CASE GiveUp(r)
    BY <1>4 DEF GiveUp, ringVars, writerVars
<1>5. CASE ScanAgain(r)
    BY <1>5 DEF ScanAgain, Suiting, ringVars, writerVars
<1>6. CASE \E fld \in Fields : LoadInfo(r, fld)
    BY <1>6 DEF LoadInfo, Metadata, ringVars, writerVars
<1>7. CASE Release(r)
    BY <1>7, RingAssumption
       DEF Release, TryTransition, SteadyAfter, Slots, Metadata, Blank, writerVars
<1>8. CASE ReaderDies(r)
    BY <1>8, RingAssumption
       DEF ReaderDies, Slots, Metadata, Blank, ringVars, writerVars
<1>9. QED
    BY <1>1, <1>2, <1>3, <1>4, <1>5, <1>6, <1>7, <1>8 DEF ReaderStep

\* What a writer's step does to the control part of the invariant.  Only
\* ClaimSlot makes a holder and only Publish changes a slot somebody holds,
\* the publisher's own.
LEMMA WriterKeepsRing ==
    ASSUME RingInv, NEW w \in Writers, WriterStep(w) \/ WriterDies(w)
    PROVE  /\ LoopCounts'
           /\ HolderKeepsSlot'
           /\ OneWriter'
           /\ OneReader'
<1> USE DEF RingInv, TypeOK, LoopCounts, HolderKeepsSlot, OneWriter, OneReader
<1>1. CASE BeginWrite(w)
    BY <1>1, RingAssumption DEF BeginWrite, ringVars, readerVars
<1>2. CASE FetchCursor(w)
    BY <1>2 DEF FetchCursor, readerVars
<1>3. CASE ClaimSlot(w)
    BY <1>3 DEF ClaimSlot, TryTransition, readerVars
<1>4. CASE SkipSlot(w)
    BY <1>4, RingAssumption DEF SkipSlot, ringVars, readerVars
<1>5. CASE DropFrame(w)
    BY <1>5 DEF DropFrame, ringVars, readerVars
<1>6. CASE \E f \in Frames : Publish(w, f)
    BY <1>6 DEF Publish, TryTransition, readerVars
<1>7. CASE \E fld \in Fields : Stamp(w, fld)
    BY <1>7 DEF Stamp, ringVars, readerVars
<1>8. CASE PublishReturns(w)
    BY <1>8 DEF PublishReturns, ringVars, readerVars
<1>9. CASE WriterDies(w)
    BY <1>9 DEF WriterDies, ringVars, readerVars
<1>10. QED
    BY <1>1, <1>2, <1>3, <1>4, <1>5, <1>6, <1>7, <1>8, <1>9 DEF WriterStep

LEMMA ReaderKeepsRing ==
    ASSUME RingInv, NEW r \in Readers, ReaderStep(r) \/ ReaderDies(r)
    PROVE  /\ LoopCounts'
           /\ HolderKeepsSlot'
           /\ OneWriter'
           /\ OneReader'
<1> USE DEF RingInv, TypeOK, LoopCounts, HolderKeepsSlot, OneWriter, OneReader
<1>1. CASE BeginRead(r)
    BY <1>1 DEF BeginRead, ringVars, writerVars
<1>2. CASE TakeSlot(r)
    BY <1>2 DEF TakeSlot, TryTransition, writerVars
<1>3. CASE PassSlot(r)
    BY <1>3 DEF PassSlot, ringVars, writerVars
<1>4. CASE GiveUp(r)
    BY <1>4 DEF GiveUp, ringVars, writerVars
<1>5. CASE ScanAgain(r)
    BY <1>5 DEF ScanAgain, ringVars, writerVars
<1>6. CASE \E fld \in Fields : LoadInfo(r, fld)
    BY <1>6 DEF LoadInfo, ringVars, writerVars
<1>7. CASE Release(r)
    BY <1>7 DEF Release, TryTransition, writerVars
<1>8. CASE ReaderDies(r)
    BY <1>8 DEF ReaderDies, ringVars, writerVars
<1>9. QED
    BY <1>1, <1>2, <1>3, <1>4, <1>5, <1>6, <1>7, <1>8 DEF ReaderStep

LEMMA StepKeepsRing == RingInv /\ [Next]_vars => RingInv'
<1> SUFFICES ASSUME RingInv, [Next]_vars PROVE RingInv'
    OBVIOUS
<1>1. ASSUME NEW w \in Writers, WriterStep(w) \/ WriterDies(w)
      PROVE  RingInv'
    BY <1>1, WriterTypes, WriterKeepsRing DEF RingInv
<1>2. ASSUME NEW r \in Readers, ReaderStep(r) \/ ReaderDies(r)
      PROVE  RingInv'
    BY <1>2, ReaderTypes, ReaderKeepsRing DEF RingInv
<1>3. CASE UNCHANGED vars
    BY <1>3 DEF vars, RingInv, TypeOK, LoopCounts, HolderKeepsSlot, OneWriter,
                OneReader
<1>4. QED
    BY <1>1, <1>2, <1>3 DEF Next

\* The strengthening that the theorems about slots rest on.
THEOREM RingInvariant == Spec => []RingInv
BY InitRing, StepKeepsRing, PTL DEF Spec

\* Every reachable state is well typed: in particular no cursor value leads
\* outside the slots, whatever the width of the cursor.
THEOREM RingTypes == Spec => []TypeOK
<1>1. RingInv => TypeOK
    BY DEF RingInv
<1>2. QED
    BY <1>1, RingInvariant, PTL

\* A caller that acquired a slot finds it as it left it (publish_slot and
\* release_read_slot succeed).
THEOREM RingHolders == Spec => []HolderKeepsSlot
<1>1. RingInv => HolderKeepsSlot
    BY DEF RingInv
<1>2. QED
    BY <1>1, RingInvariant, PTL

\* The compare_exchange protocol gives every slot to one caller at a time.
THEOREM RingExclusive == Spec => []Exclusive
<1>1. RingInv => Exclusive
  <2> SUFFICES ASSUME RingInv, NEW s \in Slots,
                      NEW a \in Holders(s), NEW b \in Holders(s)
               PROVE  a = b
      BY DEF Exclusive
  <2>1. ~(\E w \in Writers, r \in Readers : WriterHolds(w, s) /\ ReaderHolds(r, s))
      BY DEF RingInv, HolderKeepsSlot, WriterHolds, ReaderHolds
  <2>2. QED
      BY <2>1 DEF Holders, WriterHolds, ReaderHolds, RingInv, OneWriter, OneReader
<1>2. QED
    BY <1>1, RingInvariant, PTL

-----------------------------------------------------------------------------
(***************************************************************************)
(* A reader overlooks nothing.  While it scans, the slots that have been   *)
(* Ready since it began all lie ahead of it.                               *)
(***************************************************************************)
Ahead == \A r \in Readers :
            /\ rpc[r] = "scan" =>
                  \A s \in steady[r] : state[s] = "Ready" /\ ridx[r] <= s
            /\ rpc[r] = "none" => steady[r] = {} /\ ridx[r] = 0

LEMMA StepKeepsAhead == RingInv /\ Ahead /\ [Next]_vars => Ahead'
<1> SUFFICES ASSUME RingInv, Ahead, [Next]_vars,
                    NEW q \in Readers
             PROVE  /\ rpc'[q] = "scan" => \A s \in steady'[q] :
                          state'[s] = "Ready" /\ ridx'[q] <= s
                    /\ rpc'[q] = "none" => steady'[q] = {} /\ ridx'[q] = 0
    BY DEF Ahead
<1>0. TypeOK
    BY DEF RingInv
<1>00. q \in Actors /\ q \notin Writers /\ Wanted(q) = "Ready"
    BY ActorsAssumption DEF Actors, Wanted
<1>1. ASSUME NEW w \in Writers, WriterStep(w) \/ WriterDies(w)
      PROVE  /\ rpc'[q] = rpc[q] /\ ridx'[q] = ridx[q]
             /\ steady'[q] \subseteq steady[q]
             /\ \A s \in steady'[q] : state[s] = "Ready" => state'[s] = "Ready"
  <2>1. w # q
      BY <1>00
  <2>2. CASE ClaimSlot(w) \/ \E f \in Frames : Publish(w, f)
      BY <2>1, <2>2, <1>00 DEF ClaimSlot, Publish, SteadyAfter, readerVars
  <2>3. CASE ~(ClaimSlot(w) \/ \E f \in Frames : Publish(w, f))
    <3>1. state' = state /\ rpc' = rpc /\ ridx' = ridx
        BY <1>1, <2>3 DEF WriterStep, WriterDies, BeginWrite, FetchCursor,
           SkipSlot, DropFrame, Stamp, PublishReturns, ringVars, readerVars
    <3>2. steady'[q] = steady[q]
        BY <1>1, <2>1, <2>3, <1>0, <1>00 DEF TypeOK, WriterStep, WriterDies,
           BeginWrite, FetchCursor, SkipSlot, DropFrame, Stamp, PublishReturns
    <3>3. QED
        BY <3>1, <3>2
  <2>4. QED
      BY <2>2, <2>3
<1>2. ASSUME NEW r \in Readers, ReaderStep(r) \/ ReaderDies(r)
      PROVE  /\ rpc'[q] = "scan" => \A s \in steady'[q] :
                   state'[s] = "Ready" /\ ridx'[q] <= s
             /\ rpc'[q] = "none" => steady'[q] = {} /\ ridx'[q] = 0
  <2> USE <1>0, <1>00
  <2>1. CASE BeginRead(r)
      BY <2>1 DEF Ahead, BeginRead, Suiting, Slots, TypeOK, ringVars
  <2>2. CASE TakeSlot(r)
      BY <2>2 DEF Ahead, TakeSlot, SteadyAfter, TypeOK
  <2>3. CASE PassSlot(r)
    <3>1. CASE r # q
        BY <2>3, <3>1 DEF Ahead, PassSlot, TypeOK, ringVars
    <3>2. CASE r = q
      <4>1. \A s \in steady[q] : ridx[q] < s /\ s <= SlotCount - 1
        <5>1. \A s \in steady[q] : s \in Slots /\ ridx[q] \in Slots /\ s # ridx[q]
            BY <2>3, <3>2 DEF Ahead, PassSlot, TypeOK
        <5>2. \A s \in steady[q] : ridx[q] <= s
            BY <2>3, <3>2 DEF Ahead, PassSlot
        <5>3. QED
            BY <5>1, <5>2, RingAssumption DEF Slots
      <4>2. steady' = steady /\ state' = state
          BY <2>3 DEF PassSlot, ringVars
      <4>3. CASE ridx[q] = SlotCount - 1
        <5>1. steady[q] = {} /\ rpc'[q] = "none" /\ ridx'[q] = 0
          <6>1. \A s \in steady[q] : FALSE
              BY <4>1, <4>3, RingAssumption DEF TypeOK, Slots
          <6>2. QED
              BY <6>1, <4>3, <2>3, <3>2 DEF PassSlot, TypeOK
        <5>2. QED
            BY <5>1, <4>2
      <4>4. CASE ridx[q] # SlotCount - 1
        <5>1. rpc'[q] = "scan" /\ ridx'[q] = ridx[q] + 1
            BY <2>3, <3>2, <4>4 DEF PassSlot, TypeOK
        <5>2. \A s \in steady[q] : state[s] = "Ready" /\ ridx[q] + 1 <= s
            BY <4>1, <2>3, <3>2, RingAssumption DEF Ahead, PassSlot, TypeOK, Slots
        <5>3. QED
            BY <4>2, <5>1, <5>2
      <4>5. QED
          BY <4>3, <4>4
    <3>3. QED
        BY <3>1, <3>2
  <2>4. CASE GiveUp(r)
      BY <2>4 DEF Ahead, GiveUp, TypeOK, ringVars
  <2>5. CASE ScanAgain(r)
    <3>1. CASE r # q
        BY <2>5, <3>1 DEF Ahead, ScanAgain, TypeOK, ringVars
    <3>2. CASE r = q
      <4>1. steady'[q] = Suiting(q) /\ ridx'[q] = ridx[q] /\ state' = state
            /\ rpc'[q] = "scan" /\ ridx[q] = 0
          BY <2>5, <3>2 DEF Ahead, ScanAgain, TypeOK, ringVars
      <4>2. QED
          BY <4>1, RingAssumption DEF Suiting, Slots
    <3>3. QED
        BY <3>1, <3>2
  <2>6. CASE \E fld \in Fields : LoadInfo(r, fld)
      BY <2>6 DEF Ahead, LoadInfo, ringVars
  <2>7. CASE Release(r)
      BY <2>7 DEF Ahead, Release, SteadyAfter, TypeOK
  <2>8. CASE ReaderDies(r)
      BY <2>8 DEF Ahead, ReaderDies, TypeOK, ringVars
  <2>9. QED
      BY <1>2, <2>1, <2>2, <2>3, <2>4, <2>5, <2>6, <2>7, <2>8 DEF ReaderStep
<1>3. CASE UNCHANGED vars
    BY <1>3 DEF vars, Ahead
<1>4. QED
    BY <1>1, <1>2, <1>3 DEF Next, Ahead

\* A frame that waits all through a reader's scan is not overlooked.
THEOREM ReaderOverlooksNothing == Spec => []ReadMissIsHonest
<1>1. Init => Ahead
    BY DEF Init, Ahead
<1>2. Ahead => ReadMissIsHonest
    BY DEF Ahead, ReadMissIsHonest
<1>3. QED
    BY <1>1, <1>2, RingInvariant, StepKeepsAhead, PTL DEF Spec

-----------------------------------------------------------------------------
(***************************************************************************)
(* A writer alone on the cursor overlooks nothing either.  Its probes go   *)
(* round the ring, one slot after the other: that takes the arithmetic of  *)
(* a remainder that is counted up.                                         *)
(***************************************************************************)
LEMMA Division ==
    ASSUME NEW n \in Nat \ {0}, NEW c \in Nat
    PROVE  /\ c = n * (c \div n) + (c % n)
           /\ c % n \in 0 .. n - 1 /\ c \div n \in Int
OBVIOUS

LEMMA SmallMultiple ==
    ASSUME NEW n \in Nat \ {0}, NEW d \in Int, n * d < n, n * d > 0 - n
    PROVE  d = 0
<1>1. CASE d >= 1
  <2>1. n * d >= n
      BY <1>1
  <2>2. QED
      BY <2>1
<1>2. CASE d <= -1
  <2>1. n * d <= 0 - n
      BY <1>2
  <2>2. QED
      BY <2>1
<1>3. QED
    BY <1>1, <1>2

\* Quotient and remainder are the only ones.
LEMMA OneRemainder ==
    ASSUME NEW n \in Nat \ {0}, NEW q \in Int, NEW p \in Int,
           NEW r \in 0 .. n - 1, NEW s \in 0 .. n - 1, n * q + r = n * p + s
    PROVE  r = s
<1>1. n * (q - p) = s - r
    OBVIOUS
<1>2. q - p = 0
    BY <1>1, SmallMultiple
<1>3. QED
    BY <1>1, <1>2

LEMMA RemainderCarries ==
    ASSUME NEW n \in Nat \ {0}, NEW q \in Int, NEW p \in Int,
           NEW r \in 0 .. n - 1, NEW s \in 0 .. n - 1, (n * q + r) + 1 = n * p + s
    PROVE  s = IF r = n - 1 THEN 0 ELSE r + 1
<1>1. CASE r = n - 1
  <2>1. n * (q + 1) + 0 = n * p + s
      BY <1>1
  <2>2. 0 \in 0 .. n - 1 /\ q + 1 \in Int
      OBVIOUS
  <2>3. 0 = s
      BY <2>1, <2>2, OneRemainder
  <2>4. QED
      BY <2>3, <1>1
<1>2. CASE r # n - 1
  <2>1. n * q + (r + 1) = n * p + s
      OBVIOUS
  <2>2. r + 1 \in 0 .. n - 1
      BY <1>2
  <2>3. r + 1 = s
      BY <2>1, <2>2, OneRemainder
  <2>4. QED
      BY <2>3, <1>2
<1>3. QED
    BY <1>1, <1>2

\* Counting up by one goes to the next slot, and from the last one to slot 0.
LEMMA NextRemainder ==
    ASSUME NEW n \in Nat \ {0}, NEW c \in Nat
    PROVE  (c + 1) % n = IF c % n = n - 1 THEN 0 ELSE (c % n) + 1
<1> DEFINE q == c \div n
           r == c % n
           p == (c + 1) \div n
           s == (c + 1) % n
<1>1. c = n * q + r /\ r \in 0 .. n - 1 /\ q \in Int
    BY Division
<1>2. c + 1 \in Nat
    OBVIOUS
<1>3. c + 1 = n * p + s /\ s \in 0 .. n - 1 /\ p \in Int
    BY <1>2, Division
<1>4. (n * q + r) + 1 = n * p + s
    BY <1>1, <1>3
<1>5. s = IF r = n - 1 THEN 0 ELSE r + 1
  <2> HIDE DEF q, r, p, s
  <2>1. QED
      BY <1>1, <1>3, <1>4, RemainderCarries
<1>6. QED
    BY <1>5

\* Where write_cursor points to in the ring, and how far a slot is ahead.
Turn(p) == IF p = SlotCount - 1 THEN 0 ELSE p + 1
Gap(p, s) == IF s >= p THEN s - p ELSE (s - p) + SlotCount

LEMMA CursorTurns ==
    ASSUME NEW c \in 0 .. CursorModulus - 1, ~WrapsAskew(c)
    PROVE  Advance(c) % SlotCount = Turn(c % SlotCount)
<1>0. c \in Nat /\ SlotCount \in Nat \ {0}
    BY RingAssumption
<1>1. (c + 1) % SlotCount = Turn(c % SlotCount)
    BY <1>0, NextRemainder DEF Turn
<1>2. CASE c + 1 < CursorModulus
  <2>1. Advance(c) = c + 1
      BY <1>2, RingAssumption DEF Advance
  <2>2. QED
      BY <1>1, <2>1
<1>3. CASE c + 1 = CursorModulus
  <2>1. Advance(c) = 0
      BY <1>3, RingAssumption DEF Advance
  <2>2. (c + 1) % SlotCount = 0
      BY <1>3, <2>1 DEF WrapsAskew
  <2>3. 0 % SlotCount = 0
      BY RingAssumption
  <2>4. QED
      BY <1>1, <2>1, <2>2, <2>3
<1>4. QED
    BY <1>0, <1>2, <1>3, RingAssumption

LEMMA Gaps ==
    ASSUME NEW p \in Slots, NEW s \in Slots
    PROVE  /\ Gap(p, s) \in 0 .. SlotCount - 1
           /\ s # p => Gap(Turn(p), s) = Gap(p, s) - 1
BY RingAssumption DEF Slots, Gap, Turn

(***************************************************************************)
(* While its loop is its own, the slots that have been Free since a writer *)
(* began are as many probes ahead as it has iterations left.               *)
(***************************************************************************)
Point == writeCursor % SlotCount

WriteAhead ==
    \A w \in Writers : ~rival[w] =>
        /\ wpc[w] = "probe" => \A s \in steady[w] :
              state[s] = "Free" /\ Gap(Point, s) < wleft[w]
        /\ wpc[w] = "cas" => \A s \in steady[w] :
              state[s] = "Free" /\ (s = widx[w] \/ Gap(Point, s) < wleft[w] - 1)
        /\ wpc[w] = "none" => steady[w] = {}

\* What the step of another caller, or another call's, leaves of a writer's.
Undisturbed(w) ==
    /\ wpc'[w] = wpc[w] /\ widx'[w] = widx[w] /\ wleft'[w] = wleft[w]
    /\ rival'[w] = rival[w] /\ steady'[w] \subseteq steady[w]
    /\ \A s \in steady'[w] : state[s] = "Free" => state'[s] = "Free"

LEMMA UndisturbedStaysAhead ==
    ASSUME WriteAhead, NEW w \in Writers, Undisturbed(w), UNCHANGED writeCursor
    PROVE  ~rival'[w] =>
              /\ wpc'[w] = "probe" => \A s \in steady'[w] :
                    state'[s] = "Free" /\ Gap(Point', s) < wleft'[w]
              /\ wpc'[w] = "cas" => \A s \in steady'[w] :
                    state'[s] = "Free" /\ (s = widx'[w] \/ Gap(Point', s) < wleft'[w] - 1)
              /\ wpc'[w] = "none" => steady'[w] = {}
<1>1. Point' = Point
    BY DEF Point
<1>2. QED
    BY <1>1 DEF WriteAhead, Undisturbed

\* A writer's own step.
LEMMA WriterStaysAhead ==
    ASSUME RingInv, WriteAhead, NEW w \in Writers, WriterStep(w) \/ WriterDies(w), ~rival'[w]
    PROVE  /\ wpc'[w] = "probe" => \A s \in steady'[w] :
                 state'[s] = "Free" /\ Gap(Point', s) < wleft'[w]
           /\ wpc'[w] = "cas" => \A s \in steady'[w] :
                 state'[s] = "Free" /\ (s = widx'[w] \/ Gap(Point', s) < wleft'[w] - 1)
           /\ wpc'[w] = "none" => steady'[w] = {}
<1>0. TypeOK /\ w \in Actors /\ Wanted(w) = "Free"
    BY DEF RingInv, Actors, Wanted
<1>00. Point \in Slots /\ steady[w] \subseteq Slots /\ writeCursor \in 0 .. CursorModulus - 1
       /\ wleft[w] \in Int
  <2>1. /\ steady[w] \subseteq Slots /\ writeCursor \in 0 .. CursorModulus - 1
        /\ wleft[w] \in Int
      BY <1>0, RingAssumption DEF TypeOK
  <2>2. writeCursor \in Nat
      BY <2>1, RingAssumption
  <2>3. QED
      BY <2>1, <2>2, SlotArithmetic DEF Point
<1>1. CASE BeginWrite(w)
  <2>1. /\ wpc'[w] = "probe" /\ wleft'[w] = SlotCount /\ state' = state /\ Point' = Point
        /\ steady'[w] = Suiting(w)
      BY <1>0, <1>1 DEF BeginWrite, TypeOK, ringVars, Point
  <2>2. \A s \in Suiting(w) : s \in Slots /\ state[s] = "Free" /\ Gap(Point, s) < SlotCount
      BY <1>0, <1>00, RingAssumption, Gaps DEF Suiting
  <2>3. QED
      BY <2>1, <2>2
<1>2. CASE FetchCursor(w)
  <2>1. /\ wpc[w] = "probe" /\ wpc'[w] = "cas" /\ widx'[w] = Point /\ wleft'[w] = wleft[w]
        /\ state' = state /\ steady'[w] = steady[w] /\ writeCursor' = Advance(writeCursor)
      BY <1>0, <1>2 DEF FetchCursor, TypeOK, Point
  <2>2. ~rival[w] /\ ~WrapsAskew(writeCursor)
      BY <1>2, <2>1 DEF FetchCursor
  <2>3. Point' = Turn(Point)
      BY <1>00, <2>1, <2>2, CursorTurns DEF Point
  <2>4. ASSUME NEW s \in steady[w]
        PROVE  state[s] = "Free" /\ (s = Point \/ Gap(Turn(Point), s) < wleft[w] - 1)
    <3>1. state[s] = "Free" /\ Gap(Point, s) < wleft[w] /\ s \in Slots
        BY <1>00, <2>1, <2>2 DEF WriteAhead
    <3>2. Gap(Point, s) \in Int /\ (s # Point => Gap(Turn(Point), s) = Gap(Point, s) - 1)
        BY <1>00, <3>1, Gaps
    <3>3. QED
        BY <1>00, <3>1, <3>2
  <2>5. QED
      BY <2>1, <2>3, <2>4
<1>3. CASE SkipSlot(w)
  <2>1. /\ wpc[w] = "cas" /\ state[widx[w]] # "Free" /\ wleft'[w] = wleft[w] - 1
        /\ wpc'[w] \in {"none", "probe"} /\ (wpc'[w] = "none" => wleft[w] - 1 = 0)
        /\ state' = state /\ steady' = steady /\ rival' = rival /\ Point' = Point
      BY <1>0, <1>3 DEF SkipSlot, TypeOK, ringVars, Point
  <2>2. \A s \in steady[w] : state[s] = "Free" /\ Gap(Point, s) < wleft[w] - 1
      BY <2>1 DEF WriteAhead
  <2>3. \A s \in steady[w] : Gap(Point, s) \in 0 .. SlotCount - 1
      BY <1>00, Gaps
  <2>4. CASE wpc'[w] = "none"
    <3>1. \A s \in steady[w] : FALSE
        BY <2>1, <2>2, <2>3, <2>4, RingAssumption
    <3>2. QED
        BY <2>1, <2>4, <3>1
  <2>5. QED
      BY <2>1, <2>2, <2>4
<1>4. CASE ~(BeginWrite(w) \/ FetchCursor(w) \/ SkipSlot(w))
  <2>1. wpc'[w] \notin {"probe", "cas", "none"}
      BY <1>0, <1>4 DEF WriterStep, WriterDies, ClaimSlot, DropFrame, Publish, Stamp,
         PublishReturns, TypeOK
  <2>2. QED
      BY <2>1
<1>5. QED
    BY <1>1, <1>2, <1>3, <1>4

LEMMA StepKeepsWriteAhead == RingInv /\ WriteAhead /\ [Next]_vars => WriteAhead'
<1> SUFFICES ASSUME RingInv, WriteAhead, [Next]_vars, NEW w \in Writers, ~rival'[w]
             PROVE  /\ wpc'[w] = "probe" => \A s \in steady'[w] :
                          state'[s] = "Free" /\ Gap(Point', s) < wleft'[w]
                    /\ wpc'[w] = "cas" => \A s \in steady'[w] :
                          state'[s] = "Free"
                          /\ (s = widx'[w] \/ Gap(Point', s) < wleft'[w] - 1)
                    /\ wpc'[w] = "none" => steady'[w] = {}
    BY DEF WriteAhead, Gap
<1>0. TypeOK /\ w \in Actors /\ w \notin Readers /\ Wanted(w) = "Free"
    BY ActorsAssumption DEF RingInv, Actors, Wanted
<1>1. CASE WriterStep(w) \/ WriterDies(w)
    BY <1>1, WriterStaysAhead
<1>2. ASSUME NEW v \in Writers \ {w}, FetchCursor(v)
      PROVE  /\ wpc'[w] = wpc[w] /\ wpc[w] \notin {"probe", "cas"}
             /\ ~rival[w] /\ steady' = steady
    BY <1>0, <1>2 DEF FetchCursor, TypeOK
<1>3. ASSUME NEW v \in Writers \ {w}, WriterStep(v) \/ WriterDies(v), ~FetchCursor(v)
      PROVE  Undisturbed(w) /\ UNCHANGED writeCursor
  <2>1. CASE ClaimSlot(v) \/ \E f \in Frames : Publish(v, f)
    <3>1. /\ wpc'[w] = wpc[w] /\ widx'[w] = widx[w] /\ wleft'[w] = wleft[w]
          /\ rival'[w] = rival[w] /\ UNCHANGED writeCursor
        BY <1>0, <2>1 DEF ClaimSlot, Publish, TypeOK
    <3>2. /\ steady'[w] \subseteq steady[w]
          /\ \A s \in steady'[w] : state[s] = "Free" => state'[s] = "Free"
        BY <1>0, <2>1 DEF ClaimSlot, Publish, SteadyAfter
    <3>3. QED
        BY <3>1, <3>2 DEF Undisturbed
  <2>2. CASE ~(ClaimSlot(v) \/ \E f \in Frames : Publish(v, f))
    <3>1. /\ wpc'[w] = wpc[w] /\ widx'[w] = widx[w] /\ wleft'[w] = wleft[w]
          /\ state' = state /\ UNCHANGED writeCursor
        BY <1>0, <1>3, <2>2 DEF WriterStep, WriterDies, BeginWrite, SkipSlot, DropFrame,
           Stamp, PublishReturns, ringVars, TypeOK
    <3>2. rival'[w] = rival[w] /\ steady'[w] = steady[w]
        BY <1>0, <1>3, <2>2 DEF WriterStep, WriterDies, BeginWrite, SkipSlot, DropFrame,
           Stamp, PublishReturns, TypeOK
    <3>3. QED
        BY <3>1, <3>2 DEF Undisturbed
  <2>3. QED
      BY <2>1, <2>2
<1>4. ASSUME NEW r \in Readers, ReaderStep(r) \/ ReaderDies(r)
      PROVE  Undisturbed(w) /\ UNCHANGED writeCursor
  <2>1. CASE TakeSlot(r) \/ Release(r)
      BY <1>0, <2>1 DEF TakeSlot, Release, SteadyAfter, writerVars, Undisturbed
  <2>2. CASE ~(TakeSlot(r) \/ Release(r))
    <3>1. UNCHANGED <<ringVars, writerVars, rival>>
        BY <1>4, <2>2 DEF ReaderStep, ReaderDies, BeginRead, PassSlot, GiveUp, ScanAgain,
           LoadInfo
    <3>2. steady'[w] = steady[w]
        BY <1>0, <1>4, <2>2 DEF ReaderStep, ReaderDies, BeginRead, PassSlot, GiveUp,
           ScanAgain, LoadInfo, TypeOK
    <3>3. QED
        BY <3>1, <3>2 DEF ringVars, writerVars, Undisturbed
  <2>3. QED
      BY <2>1, <2>2
<1>5. CASE UNCHANGED vars
    BY <1>5, UndisturbedStaysAhead DEF vars, Undisturbed
<1>6. QED
  <2>1. CASE \E v \in Writers \ {w} : FetchCursor(v)
      BY <1>2, <2>1 DEF WriteAhead
  <2>2. CASE Undisturbed(w) /\ UNCHANGED writeCursor
      BY <2>2, UndisturbedStaysAhead
  <2>3. QED
      BY <1>1, <1>3, <1>4, <1>5, <2>1, <2>2 DEF Next

\* A writer whom no other writer and no wrap disturbs finds every slot that is
\* Free all through its loop: None means there was none.
THEOREM WriterOverlooksNothing == Spec => []WriteMissIsHonest
<1>1. Init => WriteAhead
    BY DEF Init, WriteAhead
<1>2. WriteAhead => WriteMissIsHonest
    BY DEF WriteAhead, WriteMissIsHonest
<1>3. QED
    BY <1>1, <1>2, StepKeepsWriteAhead, RingInvariant, PTL DEF Spec

-----------------------------------------------------------------------------
(***************************************************************************)
(* Metadata.  PublisherIsLast: unless the slot is marked, whoever still    *)
(* stores metadata into a published slot published its frame.  SettledHeld:*)
(* what a reader finds settled when it takes the slot stays so.            *)
(***************************************************************************)
PublisherIsLast ==
    \A s \in Slots : \A w \in Stamping(s) :
        state[s] \in {"Ready", "Reading"} /\ ~overtaken[s]
            => wframe[w] = frame[s]

SettledHeld ==
    \A r \in Readers : rpc[r] = "hold" /\ ~raced[r] =>
        ~overtaken[ridx[r]] /\ Stamping(ridx[r]) = {}

MetadataInv == PublisherIsLast /\ SettledHeld /\ InfoSettles /\ UnracedReadIsTrue

LEMMA WriterKeepsMetadata ==
    ASSUME RingInv, MetadataInv, NEW w \in Writers, WriterStep(w) \/ WriterDies(w)
    PROVE  MetadataInv'
<1>0. TypeOK
    BY DEF RingInv
<1> USE <1>0 DEF MetadataInv, PublisherIsLast, SettledHeld, InfoSettles,
           UnracedReadIsTrue, Stamping
<1>1. CASE BeginWrite(w) \/ FetchCursor(w) \/ SkipSlot(w) \/ DropFrame(w)
  <2>1. UNCHANGED <<state, frame, info, overtaken, wframe, wtodo, readerVars, raced>>
      BY <1>1 DEF BeginWrite, FetchCursor, SkipSlot, DropFrame, ringVars
  <2>2. \A s \in Slots : Stamping(s)' = Stamping(s)
      BY <1>1 DEF BeginWrite, FetchCursor, SkipSlot, DropFrame, TypeOK
  <2>3. QED
      BY <2>1, <2>2 DEF readerVars, TypeOK
<1>2. CASE ClaimSlot(w)
    BY <1>2 DEF ClaimSlot, TryTransition, readerVars, TypeOK, RingInv, HolderKeepsSlot
<1>3. ASSUME NEW f \in Frames, Publish(w, f)
      PROVE  MetadataInv'
  <2> DEFINE t == widx[w]
  <2>1. /\ state' = [state EXCEPT ![t] = "Ready"] /\ state[t] = "Writing"
        /\ frame' = [frame EXCEPT ![t] = f] /\ info' = info
        /\ overtaken' = [overtaken EXCEPT ![t] = Stamping(t) # {}]
        /\ UNCHANGED <<readerVars, raced, widx>>
        /\ wframe' = [wframe EXCEPT ![w] = f]
        /\ wtodo' = [wtodo EXCEPT ![w] = Fields]
      BY <1>3 DEF Publish, TryTransition
  <2>2. Stamping(t)' = Stamping(t) \cup {w} /\ w \notin Stamping(t) /\ t \in Slots
      BY <1>3 DEF Publish, TypeOK
  <2>3. \A s \in Slots : s # t => Stamping(s)' = Stamping(s) /\ w \notin Stamping(s)
      BY <1>3 DEF Publish, TypeOK
  <2>4. PublisherIsLast'
    <3> SUFFICES ASSUME NEW s \in Slots, NEW v \in Stamping(s)',
                        state'[s] \in {"Ready", "Reading"}, ~overtaken'[s]
                 PROVE  wframe'[v] = frame'[s]
        BY DEF PublisherIsLast
    <3>1. CASE s = t
        BY <2>1, <2>2, <3>1 DEF TypeOK
    <3>2. CASE s # t
        BY <2>1, <2>2, <2>3, <3>2 DEF TypeOK
    <3>3. QED
        BY <3>1, <3>2
  <2>5. \A r \in Readers : rpc[r] = "hold" => ridx[r] # t /\ ridx[r] \in Slots
      BY <2>1 DEF RingInv, HolderKeepsSlot, TypeOK
  <2>6. SettledHeld'
    <3> SUFFICES ASSUME NEW r \in Readers, rpc'[r] = "hold", ~raced'[r]
                 PROVE  ~overtaken'[ridx'[r]] /\ Stamping(ridx[r])' = {}
        BY <2>1 DEF SettledHeld, readerVars
    <3>1. rpc[r] = "hold" /\ ~raced[r] /\ ridx'[r] = ridx[r]
        BY <2>1 DEF readerVars
    <3>2. QED
        BY <2>1, <2>3, <2>5, <3>1 DEF TypeOK
  <2>7. InfoSettles'
    <3> SUFFICES ASSUME NEW s \in Slots, NEW fld \in Fields,
                        state'[s] \in {"Ready", "Reading"}, ~overtaken'[s],
                        \A v \in Stamping(s)' : fld \notin wtodo'[v]
                 PROVE  info'[s][fld] = frame'[s]
        BY DEF InfoSettles
    <3>1. s # t
        BY <2>1, <2>2 DEF TypeOK
    <3>2. \A v \in Stamping(s) : v # w /\ fld \notin wtodo[v]
        BY <2>1, <2>3, <3>1 DEF TypeOK
    <3>3. state[s] \in {"Ready", "Reading"} /\ ~overtaken[s]
          /\ frame'[s] = frame[s]
        BY <2>1, <3>1 DEF TypeOK
    <3>4. QED
        BY <2>1, <3>2, <3>3
  <2>8. UnracedReadIsTrue'
      BY <2>1, <2>5 DEF readerVars, TypeOK
  <2>9. QED
      BY <2>4, <2>6, <2>7, <2>8
<1>4. ASSUME NEW fld \in Fields, Stamp(w, fld)
      PROVE  MetadataInv'
    BY <1>4 DEF Stamp, ringVars, readerVars, TypeOK, Metadata
<1>5. CASE PublishReturns(w)
    BY <1>5 DEF PublishReturns, ringVars, readerVars, TypeOK
<1>6. CASE WriterDies(w)
  <2>1. UNCHANGED <<state, frame, info, readerVars, raced>>
      BY <1>6 DEF WriterDies, ringVars
  <2>2. \A s \in Slots : /\ Stamping(s)' = Stamping(s) \ {w}
                         /\ overtaken'[s] = (overtaken[s] \/ w \in Stamping(s))
      BY <1>6 DEF WriterDies, TypeOK
  <2>3. \A v \in Writers : v # w => wframe'[v] = wframe[v] /\ wtodo'[v] = wtodo[v]
      BY <1>6 DEF WriterDies, TypeOK
  <2> HIDE DEF Stamping
  <2>4. PublisherIsLast'
    <3> SUFFICES ASSUME NEW s \in Slots, NEW v \in Stamping(s)',
                        state[s] \in {"Ready", "Reading"}, ~overtaken'[s]
                 PROVE  wframe'[v] = frame[s]
        BY <2>1 DEF PublisherIsLast
    <3>1. v \in Stamping(s) /\ v # w /\ v \in Writers /\ ~overtaken[s]
      <4>1. Stamping(s) \subseteq Writers
          BY DEF Stamping
      <4>2. v \in Stamping(s) \ {w}
          BY <2>2
      <4>3. (overtaken')[s] = (overtaken[s] \/ w \in Stamping(s))
          BY <2>2
      <4>4. ~overtaken[s]
          BY <4>3
      <4>5. QED
          BY <4>1, <4>2, <4>4
    <3>2. QED
        BY <2>3, <3>1 DEF PublisherIsLast
  <2>5. SettledHeld'
    <3> SUFFICES ASSUME NEW r \in Readers, NEW s \in Slots, ridx[r] = s,
                        rpc[r] = "hold", ~raced[r]
                 PROVE  ~overtaken'[s] /\ Stamping(s)' = {}
        BY <2>1 DEF SettledHeld, readerVars, TypeOK, Stamping
    <3>1. ~overtaken[s] /\ Stamping(s) = {}
        BY DEF SettledHeld
    <3>2. QED
        BY <2>2, <3>1
  <2>6. InfoSettles'
    <3> SUFFICES ASSUME NEW s \in Slots, NEW fld \in Fields,
                        state[s] \in {"Ready", "Reading"}, ~overtaken'[s],
                        \A v \in Stamping(s)' : fld \notin wtodo'[v]
                 PROVE  info[s][fld] = frame[s]
        BY <2>1 DEF InfoSettles
    <3>1. ~overtaken[s] /\ w \notin Stamping(s)
        BY <2>2
    <3>2. \A v \in Stamping(s) : v \in Stamping(s)' /\ wtodo'[v] = wtodo[v]
      <4>1. Stamping(s) \subseteq Writers
          BY DEF Stamping
      <4>2. QED
          BY <2>2, <2>3, <3>1, <4>1
    <3>3. \A v \in Stamping(s) : fld \notin wtodo[v]
        BY <3>2
    <3>4. QED
        BY <3>1, <3>3 DEF InfoSettles
  <2>7. UnracedReadIsTrue'
      BY <2>1 DEF readerVars
  <2>8. QED
      BY <2>4, <2>5, <2>6, <2>7
<1>7. QED
    BY <1>1, <1>2, <1>3, <1>4, <1>5, <1>6 DEF WriterStep

LEMMA ReaderKeepsMetadata ==
    ASSUME RingInv, MetadataInv, NEW r \in Readers, ReaderStep(r) \/ ReaderDies(r)
    PROVE  MetadataInv'
<1>0. TypeOK
    BY DEF RingInv
<1> USE <1>0 DEF MetadataInv, PublisherIsLast, SettledHeld, InfoSettles,
           UnracedReadIsTrue, Stamping
<1>1. CASE BeginRead(r) \/ PassSlot(r) \/ GiveUp(r) \/ ScanAgain(r)
  <2>1. UNCHANGED <<state, frame, info, writerVars, overtaken, raced, rinfo, rtodo>>
      BY <1>1 DEF BeginRead, PassSlot, GiveUp, ScanAgain, ringVars
  <2>2. \A q \in Readers : rpc'[q] = "hold" => rpc[q] = "hold" /\ ridx'[q] = ridx[q]
      BY <1>1 DEF BeginRead, PassSlot, GiveUp, ScanAgain, TypeOK
  <2>3. QED
      BY <2>1, <2>2 DEF writerVars
<1>2. CASE TakeSlot(r)
    BY <1>2 DEF TakeSlot, TryTransition, writerVars, TypeOK
<1>3. ASSUME NEW fld \in Fields, LoadInfo(r, fld)
      PROVE  MetadataInv'
    BY <1>3 DEF LoadInfo, ringVars, writerVars, TypeOK, Metadata, RingInv, HolderKeepsSlot
<1>4. CASE Release(r)
    BY <1>4 DEF Release, TryTransition, writerVars, TypeOK
<1>5. CASE ReaderDies(r)
    BY <1>5 DEF ReaderDies, ringVars, writerVars, TypeOK
<1>6. QED
    BY <1>1, <1>2, <1>3, <1>4, <1>5 DEF ReaderStep

LEMMA StepKeepsMetadata == RingInv /\ MetadataInv /\ [Next]_vars => MetadataInv'
<1> SUFFICES ASSUME RingInv, MetadataInv, [Next]_vars PROVE MetadataInv'
    OBVIOUS
<1>1. CASE UNCHANGED vars
    BY <1>1 DEF vars, MetadataInv, PublisherIsLast, SettledHeld, InfoSettles,
                UnracedReadIsTrue, Stamping
<1>2. QED
    BY <1>1, WriterKeepsMetadata, ReaderKeepsMetadata DEF Next

\* Metadata settle on those of the slot's own frame, and a holder that found
\* them settled reads nothing else.
THEOREM RingMetadata == Spec => [](InfoSettles /\ UnracedReadIsTrue)
<1>1. Init => MetadataInv
    BY DEF Init, MetadataInv, PublisherIsLast, SettledHeld, InfoSettles,
           UnracedReadIsTrue, Stamping
<1>2. MetadataInv => InfoSettles /\ UnracedReadIsTrue
    BY DEF MetadataInv
<1>3. QED
    BY <1>1, <1>2, RingInvariant, StepKeepsMetadata, PTL DEF Spec

-----------------------------------------------------------------------------
(***************************************************************************)
(* Lost slots.  The sets of holders change only by the steps of the callers*)
(* that acquire, hand over or die.                                         *)
(***************************************************************************)
LEMMA LeakedNow ==
    ASSUME NEW s \in Slots
    PROVE  Leaked(s) <=> /\ state[s] \in {"Writing", "Reading"}
                         /\ \A w \in Writers : ~WriterHolds(w, s)
                         /\ \A r \in Readers : ~ReaderHolds(r, s)
BY DEF Leaked, Holders

LEMMA LeakedNext ==
    ASSUME NEW s \in Slots
    PROVE  Leaked(s)' <=> /\ state'[s] \in {"Writing", "Reading"}
                          /\ \A w \in Writers : ~(wpc'[w] = "fill" /\ widx'[w] = s)
                          /\ \A r \in Readers : ~(rpc'[r] = "hold" /\ ridx'[r] = s)
BY DEF Leaked, Holders, WriterHolds, ReaderHolds

\* A living caller leaves the set of lost slots as it is; a dying one adds at
\* most the slot it holds.
LEMMA WriterLeaks ==
    ASSUME RingInv, NEW w \in Writers, NEW s \in Slots
    PROVE  /\ WriterStep(w) => (Leaked(s)' <=> Leaked(s))
           /\ WriterDies(w) => (Leaked(s)' => Leaked(s) \/ s = widx[w])
           /\ WriterDies(w) => (Leaked(s) => Leaked(s)')
<1>0. TypeOK /\ HolderKeepsSlot
    BY DEF RingInv
<1> USE <1>0, LeakedNow, LeakedNext DEF WriterHolds, ReaderHolds
<1>1. ASSUME BeginWrite(w) \/ FetchCursor(w) \/ SkipSlot(w) \/ DropFrame(w)
             \/ (\E fld \in Fields : Stamp(w, fld)) \/ PublishReturns(w)
      PROVE  Leaked(s)' <=> Leaked(s)
  <2>1. state' = state /\ rpc' = rpc /\ ridx' = ridx
      BY <1>1 DEF BeginWrite, FetchCursor, SkipSlot, DropFrame, Stamp,
                  PublishReturns, ringVars, readerVars
  <2>2. \A v \in Writers : /\ wpc'[v] = "fill" <=> wpc[v] = "fill"
                           /\ wpc[v] = "fill" => widx'[v] = widx[v]
      BY <1>1 DEF BeginWrite, FetchCursor, SkipSlot, DropFrame, Stamp,
                  PublishReturns, TypeOK
  <2>3. QED
      BY <2>1, <2>2
<1>2. ASSUME ClaimSlot(w)
      PROVE  Leaked(s)' <=> Leaked(s)
    BY <1>2 DEF ClaimSlot, TryTransition, readerVars, TypeOK
<1>3. ASSUME NEW f \in Frames, Publish(w, f)
      PROVE  Leaked(s)' <=> Leaked(s)
    BY <1>3 DEF Publish, TryTransition, readerVars, TypeOK
<1>4. ASSUME WriterDies(w)
      PROVE  (Leaked(s)' => Leaked(s) \/ s = widx[w]) /\ (Leaked(s) => Leaked(s)')
    BY <1>4 DEF WriterDies, ringVars, readerVars, TypeOK
<1>5. QED
    BY <1>1, <1>2, <1>3, <1>4 DEF WriterStep

LEMMA ReaderLeaks ==
    ASSUME RingInv, NEW r \in Readers, NEW s \in Slots
    PROVE  /\ ReaderStep(r) => (Leaked(s)' <=> Leaked(s))
           /\ ReaderDies(r) => (Leaked(s)' => Leaked(s) \/ s = ridx[r])
           /\ ReaderDies(r) => (Leaked(s) => Leaked(s)')
<1>0. TypeOK /\ HolderKeepsSlot
    BY DEF RingInv
<1> USE <1>0, LeakedNow, LeakedNext DEF WriterHolds, ReaderHolds
<1>1. ASSUME BeginRead(r) \/ PassSlot(r) \/ GiveUp(r) \/ ScanAgain(r)
             \/ (\E fld \in Fields : LoadInfo(r, fld))
      PROVE  Leaked(s)' <=> Leaked(s)
  <2>1. state' = state /\ wpc' = wpc /\ widx' = widx
      BY <1>1 DEF BeginRead, PassSlot, GiveUp, ScanAgain, LoadInfo, ringVars, writerVars
  <2>2. \A q \in Readers : /\ rpc'[q] = "hold" <=> rpc[q] = "hold"
                           /\ rpc[q] = "hold" => ridx'[q] = ridx[q]
      BY <1>1 DEF BeginRead, PassSlot, GiveUp, ScanAgain, LoadInfo, TypeOK
  <2>3. QED
      BY <2>1, <2>2
<1>2. ASSUME TakeSlot(r)
      PROVE  Leaked(s)' <=> Leaked(s)
    BY <1>2 DEF TakeSlot, TryTransition, writerVars, TypeOK
<1>3. ASSUME Release(r)
      PROVE  Leaked(s)' <=> Leaked(s)
    BY <1>3 DEF Release, TryTransition, writerVars, TypeOK
<1>4. ASSUME ReaderDies(r)
      PROVE  (Leaked(s)' => Leaked(s) \/ s = ridx[r]) /\ (Leaked(s) => Leaked(s)')
    BY <1>4 DEF ReaderDies, ringVars, writerVars, TypeOK
<1>5. QED
    BY <1>1, <1>2, <1>3, <1>4 DEF ReaderStep

\* No step of anybody gives a lost slot back.
THEOREM LostIsLost == Spec => LeakIsForever
<1>1. RingInv /\ [Next]_vars => [\A s \in Slots : Leaked(s) => Leaked(s)']_vars
  <2> SUFFICES ASSUME RingInv, Next, NEW s \in Slots, Leaked(s)
               PROVE  Leaked(s)'
      OBVIOUS
  <2>1. QED
      BY WriterLeaks, ReaderLeaks DEF Next
<1>2. QED
    BY <1>1, RingInvariant, PTL DEF Spec, LeakIsForever

\* As many slots are lost as callers died, at most.
Lost == {s \in Slots : Leaked(s)}

LEMMA StepCountsLeaks ==
    ASSUME RingInv, LeaksAreCrashes, [Next]_vars
    PROVE  LeaksAreCrashes'
<1>0. IsFiniteSet(Lost) /\ IsFiniteSet(Lost') /\ crashes \in Nat
      /\ Cardinality(Lost) \in Nat /\ Cardinality(Lost) <= crashes
  <2>1. IsFiniteSet(Slots)
      BY FS_Interval, RingAssumption DEF Slots
  <2>2. Lost \subseteq Slots /\ Lost' \subseteq Slots
      BY DEF Lost
  <2>3. crashes \in Nat
      BY RingAssumption DEF RingInv, TypeOK
  <2>4. QED
      BY <2>1, <2>2, <2>3, FS_Subset, FS_CardinalityType DEF LeaksAreCrashes, Lost
<1>1. ASSUME Lost' \subseteq Lost, crashes' = crashes
      PROVE  LeaksAreCrashes'
    BY <1>0, <1>1, FS_Subset, FS_CardinalityType DEF LeaksAreCrashes, Lost
<1>2. ASSUME NEW t, Lost' \subseteq Lost \cup {t}, crashes' = crashes + 1
      PROVE  LeaksAreCrashes'
  <2>1. IsFiniteSet(Lost \cup {t}) /\ Cardinality(Lost \cup {t}) <= Cardinality(Lost) + 1
      BY <1>0, FS_AddElement
  <2>2. Cardinality(Lost') <= Cardinality(Lost \cup {t})
        /\ Cardinality(Lost') \in Nat /\ Cardinality(Lost \cup {t}) \in Nat
      BY <1>0, <1>2, <2>1, FS_Subset, FS_CardinalityType
  <2>3. Cardinality(Lost') <= crashes + 1
      BY <1>0, <2>1, <2>2
  <2>4. QED
      BY <1>2, <2>3 DEF LeaksAreCrashes, Lost
<1>3. ASSUME NEW w \in Writers, WriterStep(w) \/ WriterDies(w)
      PROVE  LeaksAreCrashes'
  <2>1. CASE WriterStep(w)
    <3>1. crashes' = crashes
        BY <2>1 DEF WriterStep, BeginWrite, FetchCursor, ClaimSlot, SkipSlot,
                    DropFrame, Publish, Stamp, PublishReturns
    <3>2. Lost' \subseteq Lost
        BY <2>1, WriterLeaks DEF Lost
    <3>3. QED
        BY <1>1, <3>1, <3>2
  <2>2. CASE WriterDies(w)
    <3>1. Lost' \subseteq Lost \cup {widx[w]}
        BY <2>2, WriterLeaks DEF Lost
    <3>2. QED
        BY <1>2, <2>2, <3>1 DEF WriterDies
  <2>3. QED
      BY <1>3, <2>1, <2>2
<1>4. ASSUME NEW r \in Readers, ReaderStep(r) \/ ReaderDies(r)
      PROVE  LeaksAreCrashes'
  <2>1. CASE ReaderStep(r)
    <3>1. crashes' = crashes
        BY <2>1 DEF ReaderStep, BeginRead, TakeSlot, PassSlot, GiveUp,
                    ScanAgain, LoadInfo, Release
    <3>2. Lost' \subseteq Lost
        BY <2>1, ReaderLeaks DEF Lost
    <3>3. QED
        BY <1>1, <3>1, <3>2
  <2>2. CASE ReaderDies(r)
    <3>1. Lost' \subseteq Lost \cup {ridx[r]}
        BY <2>2, ReaderLeaks DEF Lost
    <3>2. QED
        BY <1>2, <2>2, <3>1 DEF ReaderDies
  <2>3. QED
      BY <1>4, <2>1, <2>2
<1>5. CASE UNCHANGED vars
    BY <1>1, <1>5 DEF vars, Lost, Leaked, Holders, WriterHolds, ReaderHolds
<1>6. QED
    BY <1>3, <1>4, <1>5 DEF Next

\* A slot is lost for no other reason than a death.
THEOREM LossesAreDeaths == Spec => []LeaksAreCrashes
<1>1. Init => LeaksAreCrashes
  <2> SUFFICES ASSUME Init PROVE LeaksAreCrashes
      OBVIOUS
  <2>1. Lost = {}
    <3>1. \A s \in Slots : ~Leaked(s)
        BY DEF Init, Leaked
    <3>2. QED
        BY <3>1 DEF Lost
  <2>2. Cardinality(Lost) = 0 /\ crashes = 0
      BY <2>1, FS_EmptySet DEF Init
  <2>3. QED
      BY <2>2 DEF LeaksAreCrashes, Lost
<1>2. RingInv /\ LeaksAreCrashes /\ [Next]_vars => LeaksAreCrashes'
    BY StepCountsLeaks
<1>3. QED
    BY <1>1, <1>2, RingInvariant, PTL DEF Spec

-----------------------------------------------------------------------------
(***************************************************************************)
(* ShmRing implements FrameCells: a step that moves a slot between states, *)
(* and the death of a holder, is the step of the cell of that slot; every  *)
(* other step changes no cell.                                             *)
(***************************************************************************)
LEMMA HoldersNow ==
    ASSUME NEW s \in Slots, NEW a
    PROVE  a \in Holders(s) <=>
               \/ a \in Writers /\ wpc[a] = "fill" /\ widx[a] = s
               \/ a \in Readers /\ rpc[a] = "hold" /\ ridx[a] = s
<1>1. Holders(s) = {w \in Writers : wpc[w] = "fill" /\ widx[w] = s}
                   \cup {r \in Readers : rpc[r] = "hold" /\ ridx[r] = s}
    BY Zenon DEF Holders, WriterHolds, ReaderHolds
<1>2. QED
    BY <1>1

LEMMA HoldersNext ==
    ASSUME NEW s \in Slots, NEW a
    PROVE  a \in Holders(s)' <=>
               \/ a \in Writers /\ wpc'[a] = "fill" /\ widx'[a] = s
               \/ a \in Readers /\ rpc'[a] = "hold" /\ ridx'[a] = s
<1>1. Holders(s)' = {w \in Writers : wpc'[w] = "fill" /\ widx'[w] = s}
                    \cup {r \in Readers : rpc'[r] = "hold" /\ ridx'[r] = s}
    BY Zenon DEF Holders, WriterHolds, ReaderHolds
<1>2. QED
    BY <1>1

\* How a change at one slot shows in the mapped holders.
LEMMA OneCellMoves ==
    ASSUME NEW t \in Slots, NEW H, Holders(t)' = H,
           \A s \in Slots : s # t => Holders(s)' = Holders(s)
    PROVE  CellHolders' = [CellHolders EXCEPT ![t] = H]
BY DEF CellHolders

LEMMA NoCellMoves ==
    ASSUME state' = state, frame' = frame, \A s \in Slots : Holders(s)' = Holders(s)
    PROVE  UNCHANGED Promise!vars
BY DEF CellHolders, Promise!vars

LEMMA WriterRefines ==
    ASSUME RingInv, NEW w \in Writers, WriterStep(w) \/ WriterDies(w)
    PROVE  [Promise!Next]_(Promise!vars)
<1>0. TypeOK /\ HolderKeepsSlot /\ OneWriter /\ w \notin Readers
    BY ActorsAssumption DEF RingInv
<1>t. PICK t \in Slots : t = widx[w]
    BY <1>0 DEF TypeOK
<1>1. CASE BeginWrite(w) \/ FetchCursor(w) \/ SkipSlot(w) \/ DropFrame(w)
             \/ (\E fld \in Fields : Stamp(w, fld)) \/ PublishReturns(w)
  <2>1. state' = state /\ frame' = frame /\ rpc' = rpc /\ ridx' = ridx
      BY <1>1 DEF BeginWrite, FetchCursor, SkipSlot, DropFrame, Stamp,
                  PublishReturns, ringVars, readerVars
  <2>2. \A v \in Writers : /\ wpc'[v] = "fill" <=> wpc[v] = "fill"
                           /\ wpc[v] = "fill" => widx'[v] = widx[v]
      BY <1>0, <1>1 DEF BeginWrite, FetchCursor, SkipSlot, DropFrame, Stamp,
                  PublishReturns, TypeOK
  <2>3. ASSUME NEW s \in Slots PROVE Holders(s)' = Holders(s)
    <3>1. \A a : a \in Holders(s)' <=> a \in Holders(s)
        BY <2>1, <2>2, HoldersNow, HoldersNext
    <3>2. QED
        BY <3>1
  <2>4. QED
      BY <2>1, <2>3, NoCellMoves
<1>2. CASE ClaimSlot(w)
  <2>1. /\ state[t] = "Free" /\ state' = [state EXCEPT ![t] = "Writing"]
        /\ wpc' = [wpc EXCEPT ![w] = "fill"] /\ wpc[w] = "cas"
        /\ UNCHANGED <<frame, widx, rpc, ridx>>
      BY <1>t, <1>2 DEF ClaimSlot, TryTransition, readerVars
  <2>2. Holders(t) = {}
    <3>1. \A a : a \notin Holders(t)
        BY <1>0, <1>t, <2>1, HoldersNow DEF HolderKeepsSlot
    <3>2. QED
        BY <3>1
  <2>3. Holders(t)' = {w}
    <3>1. \A a : a \in Holders(t)' <=> a = w \/ a \in Holders(t)
        BY <1>0, <1>t, <2>1, HoldersNow, HoldersNext DEF TypeOK
    <3>2. QED
        BY <2>2, <3>1
  <2>4. ASSUME NEW s \in Slots, s # t PROVE Holders(s)' = Holders(s)
    <3>1. \A a : a \in Holders(s)' <=> a \in Holders(s)
        BY <1>0, <1>t, <2>1, <2>4, HoldersNow, HoldersNext DEF TypeOK
    <3>2. QED
        BY <3>1
  <2>5. CellHolders' = [CellHolders EXCEPT ![t] = {w}] /\ CellHolders[t] = {}
      BY <1>t, <2>2, <2>3, <2>4, OneCellMoves DEF CellHolders
  <2>6. Promise!Claim(w, t)
      BY <2>1, <2>5 DEF Promise!Claim
  <2>7. QED
      BY <1>t, <2>6 DEF Promise!Next
<1>3. ASSUME NEW f \in Frames, Publish(w, f)
      PROVE  Promise!Next
  <2>1. /\ state[t] = "Writing" /\ state' = [state EXCEPT ![t] = "Ready"]
        /\ wpc' = [wpc EXCEPT ![w] = "stamp"] /\ wpc[w] = "fill"
        /\ frame' = [frame EXCEPT ![t] = f]
        /\ UNCHANGED <<widx, rpc, ridx>>
      BY <1>t, <1>3 DEF Publish, TryTransition, readerVars
  <2>2. Holders(t) = {w}
    <3>1. \A a : a \in Holders(t) <=> a = w
        BY <1>0, <1>t, <2>1, HoldersNow DEF HolderKeepsSlot, OneWriter
    <3>2. QED
        BY <3>1
  <2>3. Holders(t)' = {}
    <3>1. \A a : a \in Holders(t)' <=> a \in Holders(t) /\ a # w
        BY <1>0, <1>t, <2>1, HoldersNow, HoldersNext DEF TypeOK
    <3>2. QED
        BY <2>2, <3>1
  <2>4. ASSUME NEW s \in Slots, s # t PROVE Holders(s)' = Holders(s)
    <3>1. \A a : a \in Holders(s)' <=> a \in Holders(s)
        BY <1>0, <1>t, <2>1, <2>4, HoldersNow, HoldersNext DEF TypeOK
    <3>2. QED
        BY <3>1
  <2>5. CellHolders' = [CellHolders EXCEPT ![t] = {}] /\ CellHolders[t] = {w}
      BY <1>t, <2>2, <2>3, <2>4, OneCellMoves DEF CellHolders
  <2>6. Promise!Offer(w, t, f)
      BY <2>1, <2>5 DEF Promise!Offer
  <2>7. QED
      BY <1>t, <2>6 DEF Promise!Next
<1>4. CASE WriterDies(w)
  <2>1. /\ wpc' = [wpc EXCEPT ![w] = "idle"]
        /\ widx' = [widx EXCEPT ![w] = 0]
        /\ UNCHANGED <<state, frame, rpc, ridx>>
      BY <1>4 DEF WriterDies, ringVars, readerVars
  <2>2. ASSUME NEW s \in Slots PROVE Holders(s)' = Holders(s) \ {w}
    <3>1. \A a : a \in Holders(s)' <=> a \in Holders(s) /\ a # w
        BY <1>0, <2>1, HoldersNow, HoldersNext DEF TypeOK
    <3>2. QED
        BY <3>1
  <2>3. CASE wpc[w] = "fill"
    <3>1. \A a : a \in Holders(t) <=> a = w
        BY <1>0, <1>t, <2>3, HoldersNow DEF HolderKeepsSlot, OneWriter
    <3>2. Holders(t) = {w}
        BY <3>1
    <3>3. Holders(t)' = {}
        BY <2>2, <3>2
    <3>4. ASSUME NEW s \in Slots, s # t PROVE Holders(s)' = Holders(s)
      <4>1. w \notin Holders(s)
          BY <1>0, <1>t, <3>4, HoldersNow
      <4>2. QED
          BY <2>2, <4>1
    <3>5. CellHolders' = [CellHolders EXCEPT ![t] = {}] /\ CellHolders[t] = {w}
        BY <3>2, <3>3, <3>4, OneCellMoves DEF CellHolders
    <3>6. Promise!Abandon(w, t)
        BY <2>1, <3>5 DEF Promise!Abandon
    <3>7. QED
        BY <1>t, <3>6 DEF Promise!Next
  <2>4. CASE wpc[w] # "fill"
    <3>1. \A s \in Slots : w \notin Holders(s)
        BY <1>0, <2>4, HoldersNow
    <3>2. \A s \in Slots : Holders(s)' = Holders(s)
        BY <2>2, <3>1
    <3>3. QED
        BY <2>1, <3>2, NoCellMoves
  <2>5. QED
      BY <2>3, <2>4
<1>5. QED
    BY <1>1, <1>2, <1>3, <1>4 DEF WriterStep

LEMMA ReaderRefines ==
    ASSUME RingInv, NEW r \in Readers, ReaderStep(r) \/ ReaderDies(r)
    PROVE  [Promise!Next]_(Promise!vars)
<1>0. TypeOK /\ HolderKeepsSlot /\ OneReader /\ r \notin Writers
    BY ActorsAssumption DEF RingInv
<1>t. PICK t \in Slots : t = ridx[r]
    BY <1>0 DEF TypeOK
<1>1. CASE BeginRead(r) \/ PassSlot(r) \/ GiveUp(r) \/ ScanAgain(r)
             \/ (\E fld \in Fields : LoadInfo(r, fld))
  <2>1. state' = state /\ frame' = frame /\ wpc' = wpc /\ widx' = widx
      BY <1>1 DEF BeginRead, PassSlot, GiveUp, ScanAgain, LoadInfo, ringVars, writerVars
  <2>2. \A q \in Readers : /\ rpc'[q] = "hold" <=> rpc[q] = "hold"
                           /\ rpc[q] = "hold" => ridx'[q] = ridx[q]
      BY <1>0, <1>1 DEF BeginRead, PassSlot, GiveUp, ScanAgain, LoadInfo, TypeOK
  <2>3. ASSUME NEW s \in Slots PROVE Holders(s)' = Holders(s)
    <3>1. \A a : a \in Holders(s)' <=> a \in Holders(s)
        BY <2>1, <2>2, HoldersNow, HoldersNext
    <3>2. QED
        BY <3>1
  <2>4. QED
      BY <2>1, <2>3, NoCellMoves
<1>2. CASE TakeSlot(r)
  <2>1. /\ state[t] = "Ready" /\ state' = [state EXCEPT ![t] = "Reading"]
        /\ rpc' = [rpc EXCEPT ![r] = "hold"] /\ rpc[r] = "scan"
        /\ UNCHANGED <<frame, ridx, wpc, widx>>
      BY <1>t, <1>2 DEF TakeSlot, TryTransition, writerVars
  <2>2. Holders(t) = {}
    <3>1. \A a : a \notin Holders(t)
        BY <1>0, <1>t, <2>1, HoldersNow DEF HolderKeepsSlot
    <3>2. QED
        BY <3>1
  <2>3. Holders(t)' = {r}
    <3>1. \A a : a \in Holders(t)' <=> a = r \/ a \in Holders(t)
        BY <1>0, <1>t, <2>1, HoldersNow, HoldersNext DEF TypeOK
    <3>2. QED
        BY <2>2, <3>1
  <2>4. ASSUME NEW s \in Slots, s # t PROVE Holders(s)' = Holders(s)
    <3>1. \A a : a \in Holders(s)' <=> a \in Holders(s)
        BY <1>0, <1>t, <2>1, <2>4, HoldersNow, HoldersNext DEF TypeOK
    <3>2. QED
        BY <3>1
  <2>5. CellHolders' = [CellHolders EXCEPT ![t] = {r}] /\ CellHolders[t] = {}
      BY <1>t, <2>2, <2>3, <2>4, OneCellMoves DEF CellHolders
  <2>6. Promise!Take(r, t)
      BY <2>1, <2>5 DEF Promise!Take
  <2>7. QED
      BY <1>t, <2>6 DEF Promise!Next
<1>3. CASE Release(r)
  <2>1. /\ state[t] = "Reading" /\ state' = [state EXCEPT ![t] = "Free"]
        /\ rpc' = [rpc EXCEPT ![r] = "idle"] /\ rpc[r] = "hold"
        /\ ridx' = [ridx EXCEPT ![r] = 0]
        /\ UNCHANGED <<frame, wpc, widx>>
      BY <1>t, <1>3 DEF Release, TryTransition, writerVars
  <2>2. Holders(t) = {r}
    <3>1. \A a : a \in Holders(t) <=> a = r
        BY <1>0, <1>t, <2>1, HoldersNow DEF HolderKeepsSlot, OneReader
    <3>2. QED
        BY <3>1
  <2>3. Holders(t)' = {}
    <3>1. \A a : a \in Holders(t)' <=> a \in Holders(t) /\ a # r
        BY <1>0, <1>t, <2>1, HoldersNow, HoldersNext DEF TypeOK
    <3>2. QED
        BY <2>2, <3>1
  <2>4. ASSUME NEW s \in Slots, s # t PROVE Holders(s)' = Holders(s)
    <3>1. \A a : a \in Holders(s)' <=> a \in Holders(s)
        BY <1>0, <1>t, <2>1, <2>4, HoldersNow, HoldersNext DEF TypeOK
    <3>2. QED
        BY <3>1
  <2>5. CellHolders' = [CellHolders EXCEPT ![t] = {}] /\ CellHolders[t] = {r}
      BY <1>t, <2>2, <2>3, <2>4, OneCellMoves DEF CellHolders
  <2>6. Promise!Return(r, t)
      BY <2>1, <2>5 DEF Promise!Return
  <2>7. QED
      BY <1>t, <2>6 DEF Promise!Next
<1>4. CASE ReaderDies(r)
  <2>1. /\ rpc' = [rpc EXCEPT ![r] = "idle"]
        /\ ridx' = [ridx EXCEPT ![r] = 0]
        /\ UNCHANGED <<state, frame, wpc, widx>>
      BY <1>4 DEF ReaderDies, ringVars, writerVars
  <2>2. ASSUME NEW s \in Slots PROVE Holders(s)' = Holders(s) \ {r}
    <3>1. \A a : a \in Holders(s)' <=> a \in Holders(s) /\ a # r
        BY <1>0, <2>1, HoldersNow, HoldersNext DEF TypeOK
    <3>2. QED
        BY <3>1
  <2>3. CASE rpc[r] = "hold"
    <3>1. \A a : a \in Holders(t) <=> a = r
        BY <1>0, <1>t, <2>3, HoldersNow DEF HolderKeepsSlot, OneReader
    <3>2. Holders(t) = {r}
        BY <3>1
    <3>3. Holders(t)' = {}
        BY <2>2, <3>2
    <3>4. ASSUME NEW s \in Slots, s # t PROVE Holders(s)' = Holders(s)
      <4>1. r \notin Holders(s)
          BY <1>0, <1>t, <3>4, HoldersNow
      <4>2. QED
          BY <2>2, <4>1
    <3>5. CellHolders' = [CellHolders EXCEPT ![t] = {}] /\ CellHolders[t] = {r}
        BY <3>2, <3>3, <3>4, OneCellMoves DEF CellHolders
    <3>6. Promise!Abandon(r, t)
        BY <2>1, <3>5 DEF Promise!Abandon
    <3>7. QED
        BY <1>t, <3>6 DEF Promise!Next
  <2>4. CASE rpc[r] # "hold"
    <3>1. \A s \in Slots : r \notin Holders(s)
        BY <1>0, <2>4, HoldersNow
    <3>2. \A s \in Slots : Holders(s)' = Holders(s)
        BY <2>2, <3>1
    <3>3. QED
        BY <2>1, <3>2, NoCellMoves
  <2>5. QED
      BY <2>3, <2>4
<1>5. QED
    BY <1>1, <1>2, <1>3, <1>4 DEF ReaderStep

\* The ring keeps the promise of FrameCells: one holder per slot, and a frame
\* that is published is taken once, with the content it was given.
THEOREM RingImplementsFrameCells == Spec => ImplementsFrameCells
<1>1. Init => Promise!Init
  <2> SUFFICES ASSUME Init PROVE Promise!Init
      OBVIOUS
  <2>1. \A s \in Slots : Holders(s) = {}
    <3>1. \A s \in Slots : \A a : a \notin Holders(s)
        BY HoldersNow DEF Init
    <3>2. QED
        BY <3>1
  <2>2. CellHolders = [s \in Slots |-> {}]
      BY <2>1 DEF CellHolders
  <2>3. QED
      BY <2>2 DEF Init, Promise!Init
<1>2. RingInv /\ [Next]_vars => [Promise!Next]_(Promise!vars)
  <2> SUFFICES ASSUME RingInv, [Next]_vars
               PROVE  [Promise!Next]_(Promise!vars)
      OBVIOUS
  <2>1. CASE UNCHANGED vars
    <3>1. \A s \in Slots : Holders(s)' = Holders(s)
        BY <2>1 DEF vars, Holders, WriterHolds, ReaderHolds
    <3>2. QED
        BY <2>1, <3>1, NoCellMoves DEF vars
  <2>2. QED
      BY <2>1, WriterRefines, ReaderRefines DEF Next
<1>3. QED
    BY <1>1, <1>2, RingInvariant, PTL DEF Spec, ImplementsFrameCells, Promise!Spec

-----------------------------------------------------------------------------
(*                         Shared memory and its names                     *)

(***************************************************************************)
(* The invariant behind NamesHaveOwners.  That the owner of an object has  *)
(* its name needs two things more than the property says: the name is the  *)
(* owner's own (a failure or a Drop unlinks a name, not an object), and    *)
(* two creators of one name know of each other.                            *)
(***************************************************************************)
OwnersHaveObjects ==
    \A a \in Threads : /\ handle[a].owner => handle[a].object \in Objects
                       /\ pc[a] \in {"size", "unname"} => handle[a].owner
                       /\ pc[a] \in {"probe", "check"} => ~handle[a].owner

NamesAreOwned ==
    \A n \in Names : names[n] # Nothing =>
        \/ \E a \in Threads : /\ Owning(a) /\ handle[a].object = names[n]
                              /\ handle[a].name = n
        \/ names[n] \in orphans

CreatorsAreRivals ==
    \A a, b \in Threads :
        a # b /\ Creating(a) /\ Creating(b) /\ handle[a].name = handle[b].name
        => a \in rivals /\ b \in rivals

NameInv == OwnersHaveObjects /\ NamesAreOwned /\ CreatorsAreRivals /\ OwnersAreFound

(***************************************************************************)
(* The invariant behind TableTellsSurfaces.  Mappings of one process do    *)
(* not share an address, and a surface that is counted has none that a     *)
(* Drop is about to take out of the table; an entry stands for the surface *)
(* of the thread that made it.                                             *)
(***************************************************************************)
KindsFit ==
    \A a \in Threads : /\ pc[a] \in {"register", "unlist"} => handle[a].kind = "surface"
                       /\ pc[a] = "check" => handle[a].kind = "ring"

HasMapped(a) == pc[a] \in {"check", "fill", "register", "live"}
Leaving(a) == handle[a].kind = "surface" /\ pc[a] \in {"unname", "unlist"}

MappingsApart ==
    \A a \in Threads : HasMapped(a) =>
        /\ handle[a].base \in mapped[Mine(a)]
        /\ \A b \in Threads : b # a /\ HasMapped(b) /\ Mine(b) = Mine(a)
              => handle[b].base # handle[a].base

StaleApart ==
    \A a, b \in Threads : HasMapped(a) /\ a \notin uncounted /\ Leaving(b) /\ Mine(b) = Mine(a)
        => handle[b].base # handle[a].base

EntriesHaveSurfaces ==
    \A x \in Processes : \A e \in table[x] :
        e.by \in ListedSurfaces(x) /\ handle[e.by].base = e.at

SurfacesHaveEntries ==
    \A a \in Threads : pc[a] = "live" /\ handle[a].kind = "surface" /\ a \notin uncounted
        => Entry(a) \in table[Mine(a)]

TableInv == /\ KindsFit /\ MappingsApart /\ StaleApart
            /\ EntriesHaveSurfaces /\ SurfacesHaveEntries

USE NamesAssumption

Handles == [kind : Kinds, name : Names, object : Objects \cup {Nothing},
            base : Addresses \cup {Nothing}, owner : BOOLEAN]
Places == {"idle", "replace", "retry", "size", "map", "fill",
           "register", "probe", "check", "live", "unname", "unlist"}

LEMMA NoHandleTyped == NoHandle \in Handles
<1>1. (CHOOSE n \in Names : TRUE) \in Names
    OBVIOUS
<1>2. QED
    BY <1>1 DEF NoHandle, Handles, Kinds

\* A handle that create or open has just begun.
LEMMA NewHandleTyped ==
    ASSUME NamesTypeOK, NEW a \in Threads, NEW k \in Kinds, NEW n \in Names,
           NEW o \in Objects \cup {Nothing}, NewHandle(a, k, n, o)
    PROVE  /\ handle' \in [Threads -> Handles]
           /\ handle'[a].kind = k /\ handle'[a].name = n /\ handle'[a].object = o
           /\ handle'[a].owner <=> o # Nothing
           /\ \A b \in Threads \ {a} : handle'[b] = handle[b]
<1> DEFINE h == [NoHandle EXCEPT !.kind = k, !.name = n, !.object = o, !.owner = o # Nothing]
<1>1. h \in Handles /\ h.kind = k /\ h.name = n /\ h.object = o
    BY NoHandleTyped DEF Handles
<1>2. h.owner <=> o # Nothing
    BY NoHandleTyped, Zenon DEF Handles
<1>3. handle \in [Threads -> Handles] /\ handle' = [handle EXCEPT ![a] = h]
    BY DEF NamesTypeOK, NewHandle, Handles
<1> HIDE DEF h
<1>4. QED
    BY <1>1, <1>2, <1>3
LEMMA NamesInitTyped == NamesInit => NamesTypeOK
<1> SUFFICES ASSUME NamesInit PROVE NamesTypeOK
    OBVIOUS
<1>1. \A x \in Processes : table[x] = {} /\ IsFiniteSet(table[x]) /\ Cardinality(table[x]) <= MaxSurfaces
    BY FS_EmptySet DEF NamesInit
<1>2. handle \in [Threads -> Handles]
    BY NoHandleTyped DEF NamesInit
<1>3. QED
    BY <1>1, <1>2 DEF NamesInit, NamesTypeOK, Handles

\* What NamesTypeOK says of each variable.
Typed == /\ names \in [Names -> Objects \cup {Nothing}]
         /\ sized \subseteq Objects
         /\ magic \in [Objects -> Kinds \cup {Nothing}]
         /\ pc \in [Threads -> Places]
         /\ handle \in [Threads -> Handles]
         /\ mapped \in [Processes -> SUBSET Addresses]
         /\ deaths \in 0 .. MaxDeaths /\ orphans \subseteq Objects
         /\ rivals \subseteq Threads /\ uncounted \subseteq Threads

TableTyped == /\ table \in [Processes -> SUBSET [at : Addresses, by : Threads]]
              /\ \A x \in Processes : /\ IsFiniteSet(table[x])
                                      /\ Cardinality(table[x]) <= MaxSurfaces

LEMMA TypesSplit == NamesTypeOK <=> Typed /\ TableTyped
BY DEF NamesTypeOK, Typed, TableTyped, Handles, Places

LEMMA EndsTyped ==
    ASSUME Typed, NEW a \in Threads, Ends(a)
    PROVE  pc' \in [Threads -> Places] /\ handle' \in [Threads -> Handles]
BY NoHandleTyped DEF Typed, Ends, Goes, Places

LEMMA MakesTyped ==
    ASSUME NamesTypeOK, NEW a \in Threads, NEW k \in Kinds, NEW n \in Names, Makes(a, k, n)
    PROVE  /\ names' \in [Names -> Objects \cup {Nothing}] /\ sized' \subseteq Objects
           /\ magic' \in [Objects -> Kinds \cup {Nothing}] /\ orphans' \subseteq Objects
           /\ pc' \in [Threads -> Places] /\ handle' \in [Threads -> Handles]
<1> DEFINE o == CHOOSE o \in Unused : TRUE
<1>1. o \in Objects
    BY DEF Makes, Unused
<1>2. /\ NewHandle(a, k, n, o) /\ Goes(a, "size")
      /\ names' = [names EXCEPT ![n] = o]
      /\ sized' = sized \ {o} /\ magic' = [magic EXCEPT ![o] = Nothing]
      /\ orphans' = orphans \ {o}
    BY DEF Makes
<1>3. Typed
    BY TypesSplit
<1>4. handle' \in [Threads -> Handles]
    BY <1>1, <1>2, NewHandleTyped
<1> HIDE DEF o
<1>5. QED
    BY <1>1, <1>2, <1>3, <1>4 DEF Typed, Goes, Places

LEMMA CreateTyped ==
    ASSUME NamesTypeOK, OwnersHaveObjects, NEW a \in Threads, CreateStep(a)
    PROVE  Typed'
<1>1. Typed
    BY TypesSplit
<1>2. CASE \E k \in Kinds, n \in Names : Creates(a, k, n)
    <2> PICK k \in Kinds, n \in Names : Creates(a, k, n)
        BY <1>2
    <2> QED
        BY <1>1, MakesTyped DEF Creates, Contends, RivalsFor, Typed, Makes
<1>3. CASE \E k \in Kinds, n \in Names : FindsOld(a, k, n)
    <2> PICK k \in Kinds, n \in Names : FindsOld(a, k, n)
        BY <1>3
    <2>1. handle' \in [Threads -> Handles]
        BY NewHandleTyped DEF FindsOld
    <2> QED
        BY <1>1, <2>1 DEF FindsOld, Contends, RivalsFor, Typed, Goes, Places, objectVars
<1>4. CASE Replaces(a)
    BY <1>1, <1>4 DEF Replaces, Unlinked, Typed, Goes, Places, objectVars, history
<1>5. CASE Retries(a)
    <2>1. handle[a].kind \in Kinds /\ handle[a].name \in Names
        BY <1>1 DEF Typed, Handles
    <2> QED
        BY <1>1, <1>5, <2>1, MakesTyped DEF Retries, Typed, Makes
<1>6. CASE RetryFails(a)
    BY <1>1, <1>6, EndsTyped DEF RetryFails, Typed, objectVars
<1>7. CASE Sizes(a)
    <2>1. handle[a].object \in Objects
        BY <1>7 DEF Sizes, OwnersHaveObjects
    <2> QED
        BY <1>1, <1>7, <2>1 DEF Sizes, Typed, Goes, Places, objectVars, history
<1>8. CASE CreateFails(a)
    BY <1>1, <1>8, EndsTyped DEF CreateFails, AfterFailure, Unlinked, Typed, objectVars
<1>9. CASE \E p \in Addresses : Maps(a, p)
    <2> PICK p \in Addresses : Maps(a, p)
        BY <1>9
    <2>1. handle' \in [Threads -> Handles]
      <3> DEFINE h == [handle[a] EXCEPT !.base = p]
      <3>1. handle[a] \in Handles /\ handle' = [handle EXCEPT ![a] = h]
          BY <1>1 DEF Maps, Typed
      <3>2. h \in Handles
          BY <3>1 DEF Handles
      <3> HIDE DEF h
      <3> QED
          BY <1>1, <3>1, <3>2 DEF Typed
    <2>2. pc' \in [Threads -> Places]
        BY <1>1 DEF Maps, Typed, Goes, Places
    <2>3. mapped' \in [Processes -> SUBSET Addresses] /\ uncounted' \subseteq Threads
        BY <1>1 DEF Maps, Typed, Mine
    <2> QED
        BY <1>1, <2>1, <2>2, <2>3 DEF Maps, Typed, objectVars
<1>10. CASE Fills(a)
    <2>1. handle[a].kind \in Kinds
        BY <1>1 DEF Typed, Handles
    <2> QED
        BY <1>1, <1>10, <2>1 DEF Fills, Typed, Goes, Places, history
<1>11. CASE Registers(a)
    BY <1>1, <1>11 DEF Registers, Typed, Goes, Places, objectVars
<1>12. QED
    BY <1>2, <1>3, <1>4, <1>5, <1>6, <1>7, <1>8, <1>9, <1>10, <1>11 DEF CreateStep

\* A Drop's step ends it, or takes it to a place further on.
LEMMA LeavesTyped ==
    ASSUME Typed, NEW a \in Threads, NEW to \in Places, LeavesFor(a, to)
    PROVE  /\ pc' \in [Threads -> Places] /\ handle' \in [Threads -> Handles]
           /\ rivals' \subseteq Threads /\ uncounted' \subseteq Threads
<1>1. CASE Ends(a) /\ rivals' = rivals \ {a} /\ uncounted' = uncounted \ {a}
    BY <1>1, EndsTyped DEF Typed
<1>2. CASE Goes(a, to) /\ UNCHANGED <<handle, rivals, uncounted>>
    BY <1>2 DEF Typed, Goes
<1>3. QED
    BY <1>1, <1>2 DEF LeavesFor

LEMMA DropTyped ==
    ASSUME NamesTypeOK, NEW a \in Threads, DropStep(a)
    PROVE  Typed'
<1>1. Typed
    BY TypesSplit
<1>2. CASE Unmaps(a)
    <2>1. (IF Owns(a) THEN "unname" ELSE "unlist") \in Places
        BY DEF Places
    <2> QED
        BY <1>1, <1>2, <2>1, LeavesTyped DEF Unmaps, Typed, objectVars
<1>3. CASE Unnames(a)
    <2>1. "unlist" \in Places
        BY DEF Places
    <2> QED
        BY <1>1, <1>3, <2>1, LeavesTyped DEF Unnames, Unlinked, Typed, objectVars
<1>4. CASE Unregisters(a)
    BY <1>1, <1>4, EndsTyped DEF Unregisters, Typed, objectVars
<1>5. QED
    BY <1>2, <1>3, <1>4 DEF DropStep

LEMMA KillsTyped ==
    ASSUME NamesTypeOK, OwnersHaveObjects,
           NEW x \in Processes, Kills(x), deaths' \in 0 .. MaxDeaths
    PROVE  Typed'
<1>1. Typed
    BY TypesSplit
<1>2. orphans' \subseteq Objects
    BY <1>1 DEF Kills, Typed, OwnersHaveObjects, Owning
<1>3. pc' \in [Threads -> Places] /\ handle' \in [Threads -> Handles]
    BY <1>1, NoHandleTyped DEF Kills, Typed, Places
<1>4. QED
    BY <1>1, <1>2, <1>3 DEF Kills, Typed, objectVars

LEMMA OpenTyped ==
    ASSUME NamesTypeOK, OwnersHaveObjects, NEW a \in Threads, OpenStep(a)
    PROVE  Typed'
<1>1. Typed
    BY TypesSplit
<1>2. CASE \E k \in Kinds, n \in Names : Opens(a, k, n)
    <2> PICK k \in Kinds, n \in Names : Opens(a, k, n)
        BY <1>2
    <2>1. [NoHandle EXCEPT !.kind = k, !.name = n, !.object = names[n]] \in Handles
        BY <1>1, NoHandleTyped DEF Typed, Handles
    <2>2. handle' \in [Threads -> Handles]
        BY <1>1, <2>1 DEF Opens, Typed
    <2> QED
        BY <1>1, <2>2 DEF Opens, Typed, Goes, Places, objectVars, history
<1>3. CASE Probes(a)
    BY <1>1, <1>3 DEF Probes, Typed, Goes, Places, objectVars, history
<1>4. CASE OpenFails(a)
    BY <1>1, <1>4, EndsTyped DEF OpenFails, Typed, objectVars, history
<1>5. CASE Checks(a)
    <2>1. pc' \in [Threads -> Places] /\ handle' \in [Threads -> Handles]
        <3>1. CASE Goes(a, "live") /\ UNCHANGED <<handle, mapped>>
            BY <1>1, <3>1 DEF Typed, Goes, Places
        <3>2. CASE Ends(a)
            BY <1>1, <3>2, EndsTyped
        <3> QED
            BY <1>5, <3>1, <3>2 DEF Checks
    <2> QED
        BY <1>1, <1>5, <2>1 DEF Checks, Typed, objectVars
<1>6. CASE Faults(a)
    <2>1. Mine(a) \in Processes /\ deaths' \in 0 .. MaxDeaths
        BY <1>1, <1>6 DEF Faults, Mine, Typed
    <2> QED
        BY <1>6, <2>1, KillsTyped DEF Faults
<1>7. QED
    BY <1>2, <1>3, <1>4, <1>5, <1>6 DEF OpenStep

(***************************************************************************)
(* A step of one thread changes no other thread's place and handle.        *)
(***************************************************************************)
OnlyMoves(a) == \A b \in Threads \ {a} : pc'[b] = pc[b] /\ handle'[b] = handle[b]

LEMMA EndsMoves ==
    ASSUME Typed, NEW a \in Threads, Ends(a)
    PROVE  OnlyMoves(a) /\ pc'[a] = "idle" /\ handle'[a] = NoHandle
BY DEF Typed, Ends, Goes, OnlyMoves

LEMMA GoesMoves ==
    ASSUME Typed, NEW a \in Threads, NEW to, Goes(a, to), UNCHANGED handle
    PROVE  OnlyMoves(a) /\ pc'[a] = to /\ handle'[a] = handle[a]
BY DEF Typed, Goes, OnlyMoves

LEMMA MakesMoves ==
    ASSUME NamesTypeOK, NEW a \in Threads, NEW k \in Kinds, NEW n \in Names, Makes(a, k, n)
    PROVE  \E o \in Unused :
              /\ OnlyMoves(a) /\ pc'[a] = "size" /\ o \in Objects
              /\ handle'[a].owner /\ handle'[a].object = o /\ handle'[a].name = n
              /\ handle'[a].kind = k
              /\ names' = [names EXCEPT ![n] = o] /\ orphans' = orphans \ {o}
<1> DEFINE o == CHOOSE o \in Unused : TRUE
<1>1. o \in Unused /\ o \in Objects
    BY DEF Makes, Unused
<1>2. NewHandle(a, k, n, o) /\ Goes(a, "size")
      /\ names' = [names EXCEPT ![n] = o] /\ orphans' = orphans \ {o}
    BY DEF Makes
<1> HIDE DEF o
<1>3. o # Nothing
    BY <1>1
<1>4. /\ handle'[a].owner /\ handle'[a].object = o /\ handle'[a].name = n /\ handle'[a].kind = k
      /\ \A b \in Threads \ {a} : handle'[b] = handle[b]
    BY <1>1, <1>2, <1>3, NewHandleTyped
<1>5. pc'[a] = "size" /\ \A b \in Threads \ {a} : pc'[b] = pc[b]
    BY <1>2, TypesSplit DEF Goes, Typed
<1>6. QED
    BY <1>1, <1>2, <1>4, <1>5 DEF OnlyMoves

LEMMA FindsOldMoves ==
    ASSUME NamesTypeOK, NEW a \in Threads, NEW k \in Kinds, NEW n \in Names, FindsOld(a, k, n)
    PROVE  /\ OnlyMoves(a) /\ pc'[a] = "replace" /\ ~handle'[a].owner /\ handle'[a].name = n
<1>1. NewHandle(a, k, n, Nothing) /\ Goes(a, "replace")
    BY DEF FindsOld
<1>2. /\ ~handle'[a].owner /\ handle'[a].name = n
      /\ \A b \in Threads \ {a} : handle'[b] = handle[b]
    BY <1>1, NewHandleTyped
<1>3. pc'[a] = "replace" /\ \A b \in Threads \ {a} : pc'[b] = pc[b]
    BY <1>1, TypesSplit DEF Goes, Typed
<1>4. QED
    BY <1>2, <1>3 DEF OnlyMoves

LEMMA MapsMoves ==
    ASSUME Typed, NEW a \in Threads, NEW p \in Addresses, Maps(a, p)
    PROVE  /\ OnlyMoves(a) /\ pc'[a] \in {"fill", "check", "register"}
           /\ handle'[a].base = p /\ handle'[a].kind = handle[a].kind
           /\ handle'[a].name = handle[a].name /\ handle'[a].object = handle[a].object
           /\ handle'[a].owner = handle[a].owner
           /\ pc'[a] = "fill" <=> handle[a].owner
           /\ pc'[a] = "register" => handle[a].kind = "surface"
           /\ pc'[a] = "check" => handle[a].kind = "ring"
<1>1. handle' = [handle EXCEPT ![a].base = p] /\ handle \in [Threads -> Handles]
    BY DEF Maps, Typed
<1>2. /\ handle'[a] = [handle[a] EXCEPT !.base = p] /\ handle[a] \in Handles
      /\ \A b \in Threads \ {a} : handle'[b] = handle[b]
    BY <1>1
<1>3. /\ handle'[a].base = p /\ handle'[a].kind = handle[a].kind
      /\ handle'[a].name = handle[a].name /\ handle'[a].object = handle[a].object
    BY <1>2 DEF Handles
<1>4. handle'[a].owner = handle[a].owner
    BY <1>2, Zenon DEF Handles
<1>5. /\ pc'[a] = IF handle[a].owner THEN "fill"
                  ELSE IF handle[a].kind = "ring" THEN "check" ELSE "register"
      /\ \A b \in Threads \ {a} : pc'[b] = pc[b]
    BY DEF Maps, Goes, Typed
<1>6. handle[a].kind \in {"ring", "surface"}
    BY <1>2 DEF Handles, Kinds
<1>7. QED
    BY <1>2, <1>3, <1>4, <1>5, <1>6 DEF OnlyMoves

LEMMA OpensMoves ==
    ASSUME Typed, NEW a \in Threads, NEW k \in Kinds, NEW n \in Names, Opens(a, k, n)
    PROVE  /\ OnlyMoves(a) /\ pc'[a] \in {"map", "probe"} /\ ~handle'[a].owner
<1>1. handle' = [handle EXCEPT ![a] = [NoHandle EXCEPT !.kind = k, !.name = n, !.object = names[n]]]
    BY DEF Opens
<1>2. handle'[a].owner = NoHandle.owner /\ \A b \in Threads \ {a} : handle'[b] = handle[b]
    BY <1>1, NoHandleTyped DEF Typed, Handles
<1>3. ~NoHandle.owner
    BY DEF NoHandle
<1>4. pc'[a] \in {"map", "probe"} /\ \A b \in Threads \ {a} : pc'[b] = pc[b]
    BY DEF Opens, Goes, Typed
<1>5. QED
    BY <1>2, <1>3, <1>4 DEF OnlyMoves

(***************************************************************************)
(* Preservation of NameInv.  A step makes an object, or unlinks the name   *)
(* of a creator, or leaves the names alone.                                *)
(***************************************************************************)
\* The thread is entered as a rival of those who are at work on its name.
Meets(a) == Creating(a)' =>
    \A b \in Threads \ {a} : Creating(b) /\ handle[b].name = handle'[a].name
        => a \in rivals' /\ b \in rivals'

LEMMA CreatorsStay ==
    ASSUME CreatorsAreRivals, NEW a \in Threads, OnlyMoves(a),
           rivals \ {a} \subseteq rivals', Meets(a)
    PROVE  CreatorsAreRivals'
<1> SUFFICES ASSUME NEW b \in Threads, NEW c \in Threads, b # c, Creating(b)', Creating(c)',
                    handle'[b].name = handle'[c].name
             PROVE  b \in rivals' /\ c \in rivals'
    BY DEF CreatorsAreRivals
<1>1. CASE b # a /\ c # a
    <2>1. Creating(b) /\ Creating(c) /\ handle[b].name = handle[c].name
        BY <1>1 DEF OnlyMoves, Creating, Owning
    <2> QED
        BY <1>1, <2>1 DEF CreatorsAreRivals
<1>2. CASE b = a
    <2>1. Creating(c) /\ handle[c].name = handle'[a].name
        BY <1>2 DEF OnlyMoves, Creating, Owning
    <2> QED
        BY <1>2, <2>1 DEF Meets
<1>3. CASE c = a
    <2>1. Creating(b) /\ handle[b].name = handle'[a].name
        BY <1>3 DEF OnlyMoves, Creating, Owning
    <2> QED
        BY <1>3, <2>1 DEF Meets
<1>4. QED
    BY <1>1, <1>2, <1>3

LEMMA MakerKeepsNames ==
    ASSUME NamesTypeOK, NameInv, NEW a \in Threads, NEW k \in Kinds, NEW n \in Names,
           Makes(a, k, n), ~Owning(a), rivals \subseteq rivals', Meets(a)
    PROVE  NameInv'
<1>1. PICK o \in Unused :
              /\ OnlyMoves(a) /\ pc'[a] = "size" /\ o \in Objects
              /\ handle'[a].owner /\ handle'[a].object = o /\ handle'[a].name = n
              /\ names' = [names EXCEPT ![n] = o] /\ orphans' = orphans \ {o}
    BY MakesMoves
<1>2. OwnersHaveObjects'
    BY <1>1 DEF NameInv, OwnersHaveObjects, OnlyMoves
<1>3. names \in [Names -> Objects \cup {Nothing}] /\ names[n] = Nothing
    BY DEF NamesTypeOK, Makes
<1>4. \A m \in Names : names[m] # o
    BY <1>1 DEF Unused
<1>5. Owning(a)'
    BY <1>1 DEF Owning
<1>6. \A b \in Threads \ {a} : Owning(b)' <=> Owning(b)
    BY <1>1 DEF OnlyMoves, Owning
<1>7. NamesAreOwned'
    <2> SUFFICES ASSUME NEW m \in Names, names'[m] # Nothing
                 PROVE  \/ \E b \in Threads : /\ Owning(b)' /\ handle'[b].object = names'[m]
                                              /\ handle'[b].name = m
                        \/ names'[m] \in orphans'
        BY DEF NamesAreOwned
    <2>1. CASE m = n
        BY <1>1, <1>3, <1>5, <2>1
    <2>2. CASE m # n
        <3>1. names'[m] = names[m] /\ names[m] # o
            BY <1>1, <1>3, <1>4, <2>2
        <3>2. CASE names[m] \in orphans
            BY <1>1, <3>1, <3>2
        <3>3. CASE \E b \in Threads : /\ Owning(b) /\ handle[b].object = names[m]
                                      /\ handle[b].name = m
            <4> PICK b \in Threads : Owning(b) /\ handle[b].object = names[m] /\ handle[b].name = m
                BY <3>3
            <4>1. b # a
                OBVIOUS
            <4> QED
                BY <1>1, <1>6, <3>1, <4>1 DEF OnlyMoves
        <3> QED
            BY <3>1, <3>2, <3>3 DEF NameInv, NamesAreOwned
    <2> QED
        BY <2>1, <2>2
<1>8. CreatorsAreRivals'
    BY <1>1, CreatorsStay DEF NameInv
<1>9. OwnersAreFound'
    <2> SUFFICES ASSUME NEW b \in Threads, Owning(b)', b \notin rivals'
                 PROVE  names'[handle'[b].name] = handle'[b].object
        BY DEF OwnersAreFound
    <2>1. CASE b = a
        BY <1>1, <1>3, <2>1
    <2>2. CASE b # a
        <3>1. Owning(b) /\ b \notin rivals /\ handle'[b] = handle[b] /\ handle[b].name \in Names
            BY <1>1, <1>6, <2>2 DEF OnlyMoves, NamesTypeOK
        <3>2. handle[b].name # n
            BY <1>1, <1>5, <2>2, <3>1 DEF Meets, Creating
        <3> QED
            BY <1>1, <1>3, <3>1, <3>2 DEF NameInv, OwnersAreFound
    <2> QED
        BY <2>1, <2>2
<1>10. QED
    BY <1>2, <1>7, <1>8, <1>9 DEF NameInv

\* A creator's name goes, with its object or before it has one.
LEMMA UnlinkerKeepsNames ==
    ASSUME NamesTypeOK, NameInv, NEW a \in Threads, OnlyMoves(a), Creating(a), ~Owning(a)',
           names' = Unlinked(handle[a].name), orphans' = orphans,
           OwnersHaveObjects', rivals \ {a} \subseteq rivals', Meets(a)
    PROVE  NameInv'
<1>1. names \in [Names -> Objects \cup {Nothing}] /\ handle[a].name \in Names
    BY DEF NamesTypeOK
<1>2. \A b \in Threads : Owning(b)' => b # a /\ Owning(b) /\ handle'[b] = handle[b]
    BY DEF OnlyMoves, Owning
<1>3. NamesAreOwned'
    <2> SUFFICES ASSUME NEW m \in Names, names'[m] # Nothing
                 PROVE  \/ \E b \in Threads : /\ Owning(b)' /\ handle'[b].object = names'[m]
                                              /\ handle'[b].name = m
                        \/ names'[m] \in orphans'
        BY DEF NamesAreOwned
    <2>1. m # handle[a].name /\ names'[m] = names[m]
        BY <1>1 DEF Unlinked
    <2>2. CASE names[m] \in orphans
        BY <2>1, <2>2
    <2>3. CASE \E b \in Threads : /\ Owning(b) /\ handle[b].object = names[m]
                                  /\ handle[b].name = m
        <3> PICK b \in Threads : Owning(b) /\ handle[b].object = names[m] /\ handle[b].name = m
            BY <2>3
        <3>1. b # a
            BY <2>1
        <3>2. Owning(b)' /\ handle'[b] = handle[b]
            BY <3>1 DEF OnlyMoves, Owning
        <3> QED
            BY <2>1, <3>2
    <2> QED
        BY <2>1, <2>2, <2>3 DEF NameInv, NamesAreOwned
<1>4. CreatorsAreRivals'
    BY CreatorsStay DEF NameInv
<1>5. OwnersAreFound'
    <2> SUFFICES ASSUME NEW b \in Threads, Owning(b)', b \notin rivals'
                 PROVE  names'[handle'[b].name] = handle'[b].object
        BY DEF OwnersAreFound
    <2>1. b # a /\ Owning(b) /\ b \notin rivals /\ handle'[b] = handle[b] /\ handle[b].name \in Names
        BY <1>2 DEF NamesTypeOK
    <2>2. handle[b].name # handle[a].name
        BY <2>1 DEF NameInv, CreatorsAreRivals, Creating
    <2> QED
        BY <1>1, <2>1, <2>2 DEF NameInv, OwnersAreFound, Unlinked
<1>6. QED
    BY <1>3, <1>4, <1>5 DEF NameInv

\* No name changes, and the thread owns what it owned.
LEMMA NeutralKeepsNames ==
    ASSUME NamesTypeOK, NameInv, NEW a \in Threads, OnlyMoves(a),
           Owning(a)' <=> Owning(a),
           Owning(a) => /\ handle'[a].name = handle[a].name
                        /\ handle'[a].object = handle[a].object /\ rivals' = rivals,
           names' = names, orphans' = orphans,
           OwnersHaveObjects', rivals \ {a} \subseteq rivals', Meets(a)
    PROVE  NameInv'
<1>1. \A b \in Threads : /\ Owning(b)' <=> Owning(b)
                         /\ Owning(b) => /\ handle'[b].name = handle[b].name
                                         /\ handle'[b].object = handle[b].object
    BY DEF OnlyMoves, Owning
<1>2. NamesAreOwned'
    BY <1>1 DEF NameInv, NamesAreOwned
<1>3. CreatorsAreRivals'
    BY CreatorsStay DEF NameInv
<1>4. OwnersAreFound'
    BY <1>1 DEF NameInv, OwnersAreFound
<1>5. QED
    BY <1>2, <1>3, <1>4 DEF NameInv

\* A thread whose handle is gone, or still the same, in another place.
LEMMA EndsAsNobody ==
    ASSUME Typed, OwnersHaveObjects, NEW a \in Threads, Ends(a)
    PROVE  /\ OnlyMoves(a) /\ ~Owning(a)' /\ ~Creating(a)' /\ Meets(a)
           /\ OwnersHaveObjects'
<1>0. ~NoHandle.owner
    BY DEF NoHandle
<1>1. OnlyMoves(a) /\ pc'[a] = "idle" /\ ~handle'[a].owner
    BY <1>0, EndsMoves
<1>2. QED
    BY <1>1 DEF OnlyMoves, Owning, Creating, Meets, OwnersHaveObjects

\* Where it goes it owns what it owned, and the rest of create is no new creator.
LEMMA GoesAsBefore ==
    ASSUME Typed, NameInv, NEW a \in Threads, NEW to, Goes(a, to), UNCHANGED <<handle, rivals>>,
           to \in {"size", "unname"} => handle[a].owner, to \notin {"probe", "check"},
           Owning(a)' <=> Owning(a), Creating(a)' => Creating(a)
    PROVE  /\ OnlyMoves(a) /\ Meets(a) /\ OwnersHaveObjects'
           /\ handle'[a] = handle[a]
<1>1. OnlyMoves(a) /\ pc'[a] = to /\ handle'[a] = handle[a]
    BY GoesMoves
<1>2. OwnersHaveObjects'
    BY <1>1 DEF NameInv, OwnersHaveObjects, OnlyMoves
<1>3. Meets(a)
    BY <1>1 DEF Meets, NameInv, CreatorsAreRivals
<1>4. QED
    BY <1>1, <1>2, <1>3

LEMMA CreateKeepsNames ==
    ASSUME NamesTypeOK, NameInv, NEW a \in Threads, CreateStep(a)
    PROVE  NameInv'
<1>1. Typed /\ OwnersHaveObjects
    BY TypesSplit DEF NameInv
<1>2. CASE \E k \in Kinds, n \in Names : Creates(a, k, n)
    <2> PICK k \in Kinds, n \in Names : Creates(a, k, n)
        BY <1>2
    <2>1. handle'[a].name = n
        BY MakesMoves DEF Creates
    <2>2. Meets(a) /\ rivals \subseteq rivals'
        BY <2>1 DEF Creates, Contends, RivalsFor, Meets
    <2> QED
        BY <2>2, MakerKeepsNames DEF Creates, Owning
<1>3. CASE \E k \in Kinds, n \in Names : FindsOld(a, k, n)
    <2> PICK k \in Kinds, n \in Names : FindsOld(a, k, n)
        BY <1>3
    <2>1. OnlyMoves(a) /\ pc'[a] = "replace" /\ ~handle'[a].owner /\ handle'[a].name = n
        BY FindsOldMoves
    <2>2. Meets(a) /\ rivals \subseteq rivals'
        BY <2>1 DEF FindsOld, Contends, RivalsFor, Meets
    <2>3. OwnersHaveObjects'
        BY <1>1, <2>1 DEF OwnersHaveObjects, OnlyMoves
    <2> QED
        BY <2>1, <2>2, <2>3, NeutralKeepsNames DEF FindsOld, Owning
<1>4. CASE Replaces(a)
    <2>1. OnlyMoves(a) /\ pc'[a] = "retry" /\ handle'[a] = handle[a]
        BY <1>1, <1>4, GoesMoves DEF Replaces
    <2>2. Creating(a) /\ ~Owning(a) /\ ~Owning(a)'
        BY <1>4, <2>1 DEF Replaces, Creating, Owning
    <2>3. Meets(a) /\ OwnersHaveObjects'
        BY <1>1, <1>4, <2>1, <2>2 DEF Replaces, history, Meets, NameInv, CreatorsAreRivals,
              OwnersHaveObjects, OnlyMoves
    <2> QED
        BY <1>4, <2>1, <2>2, <2>3, UnlinkerKeepsNames DEF Replaces, history
<1>5. CASE Retries(a)
    <2>1. handle[a].kind \in Kinds /\ handle[a].name \in Names
        BY <1>1 DEF Typed, Handles
    <2>2. handle'[a].name = handle[a].name /\ Creating(a) /\ ~Owning(a) /\ rivals' = rivals
        BY <1>5, <2>1, MakesMoves DEF Retries, Creating, Owning
    <2>3. Meets(a)
        BY <2>2 DEF Meets, NameInv, CreatorsAreRivals
    <2> QED
        BY <1>5, <2>1, <2>2, <2>3, MakerKeepsNames DEF Retries
<1>6. CASE RetryFails(a)
    BY <1>1, <1>6, EndsAsNobody, NeutralKeepsNames DEF RetryFails, Owning
<1>7. CASE Sizes(a)
    <2>1. handle[a].owner
        BY <1>1, <1>7 DEF Sizes, OwnersHaveObjects
    <2>2. OnlyMoves(a) /\ pc'[a] = "map" /\ handle'[a] = handle[a]
        BY <1>1, <1>7, GoesMoves DEF Sizes
    <2>3. Owning(a) /\ Owning(a)'
        BY <1>7, <2>1, <2>2 DEF Sizes, Owning
    <2> QED
        BY <1>1, <1>7, <2>3, GoesAsBefore, NeutralKeepsNames DEF Sizes, history, Creating
<1>8. CASE CreateFails(a)
    <2>1. Creating(a)
        BY <1>8 DEF CreateFails, Creating, Owning
    <2> QED
        BY <1>1, <1>8, <2>1, EndsAsNobody, UnlinkerKeepsNames DEF CreateFails, AfterFailure
<1>9. CASE \E p \in Addresses : Maps(a, p)
    <2> PICK p \in Addresses : Maps(a, p)
        BY <1>9
    <2>1. /\ OnlyMoves(a) /\ pc'[a] \in {"fill", "check", "register"}
          /\ handle'[a].name = handle[a].name /\ handle'[a].object = handle[a].object
          /\ handle'[a].owner = handle[a].owner
          /\ pc'[a] = "fill" <=> handle[a].owner
        BY <1>1, MapsMoves
    <2>2. pc[a] = "map" /\ rivals' = rivals
        BY DEF Maps
    <2>3. Owning(a)' <=> Owning(a)
        BY <2>1, <2>2 DEF Owning
    <2>4. Creating(a)' => Creating(a)
        BY <2>1, <2>2, <2>3 DEF Creating
    <2>5. OwnersHaveObjects'
        BY <1>1, <2>1 DEF OwnersHaveObjects, OnlyMoves
    <2>6. Meets(a)
        BY <2>1, <2>2, <2>4 DEF Meets, NameInv, CreatorsAreRivals
    <2> QED
        BY <2>1, <2>2, <2>3, <2>5, <2>6, NeutralKeepsNames DEF Maps
<1>10. CASE Fills(a)
    <2>1. /\ OnlyMoves(a) /\ pc'[a] \in {"live", "register"} /\ handle'[a] = handle[a]
        BY <1>1, <1>10, GoesMoves DEF Fills
    <2>2. (Owning(a)' <=> Owning(a)) /\ (Creating(a)' => Creating(a))
        BY <1>10, <2>1 DEF Fills, Owning, Creating
    <2> QED
        BY <1>1, <1>10, <2>2, GoesAsBefore, NeutralKeepsNames DEF Fills, history
<1>11. CASE Registers(a)
    <2>1. /\ OnlyMoves(a) /\ pc'[a] = "live" /\ handle'[a] = handle[a]
        BY <1>1, <1>11, GoesMoves DEF Registers
    <2>2. (Owning(a)' <=> Owning(a)) /\ (Creating(a)' => Creating(a))
        BY <1>11, <2>1 DEF Registers, Owning, Creating
    <2> QED
        BY <1>1, <1>11, <2>2, GoesAsBefore, NeutralKeepsNames DEF Registers
<1>12. QED
    BY <1>2, <1>3, <1>4, <1>5, <1>6, <1>7, <1>8, <1>9, <1>10, <1>11 DEF CreateStep

LEMMA KillsKeepsNames ==
    ASSUME NamesTypeOK, NameInv, NEW x \in Processes, Kills(x)
    PROVE  NameInv'
<1> DEFINE dead == {a \in Threads : Mine(a) = x}
<1>1. \A a \in dead : pc'[a] = "idle" /\ ~handle'[a].owner
    BY DEF Kills, NoHandle
<1>2. \A a \in Threads \ dead : pc'[a] = pc[a] /\ handle'[a] = handle[a]
    BY DEF Kills
<1>3. /\ names' = names /\ rivals' = rivals \ dead
      /\ orphans' = orphans \cup {handle[a].object : a \in {b \in dead : Owning(b)}}
    BY DEF Kills
<1> HIDE DEF dead
<1>4. dead \subseteq Threads
    BY DEF dead
<1>5. \A a \in Threads : Creating(a)' => a \notin dead /\ Creating(a)
    BY <1>1, <1>2 DEF Creating, Owning
<1>6. \A a \in Threads : Owning(a)' <=> a \notin dead /\ Owning(a)
    BY <1>1, <1>2 DEF Owning
<1>7. OwnersHaveObjects'
    BY <1>1, <1>2 DEF NameInv, OwnersHaveObjects
<1>8. NamesAreOwned'
    BY <1>2, <1>3, <1>6 DEF NameInv, NamesAreOwned
<1>9. CreatorsAreRivals'
    BY <1>2, <1>3, <1>5 DEF NameInv, CreatorsAreRivals
<1>10. OwnersAreFound'
    BY <1>2, <1>3, <1>6 DEF NameInv, OwnersAreFound
<1>11. QED
    BY <1>7, <1>8, <1>9, <1>10 DEF NameInv

LEMMA OpenKeepsNames ==
    ASSUME NamesTypeOK, NameInv, NEW a \in Threads, OpenStep(a)
    PROVE  NameInv'
<1>1. Typed /\ OwnersHaveObjects
    BY TypesSplit DEF NameInv
<1>2. CASE \E k \in Kinds, n \in Names : Opens(a, k, n)
    <2> PICK k \in Kinds, n \in Names : Opens(a, k, n)
        BY <1>2
    <2>1. OnlyMoves(a) /\ pc'[a] \in {"map", "probe"} /\ ~handle'[a].owner
        BY <1>1, OpensMoves
    <2>2. ~Owning(a) /\ ~Owning(a)' /\ Meets(a)
        BY <2>1 DEF Opens, Owning, Creating, Meets
    <2>3. OwnersHaveObjects'
        BY <1>1, <2>1 DEF OwnersHaveObjects, OnlyMoves
    <2> QED
        BY <2>1, <2>2, <2>3, NeutralKeepsNames DEF Opens, history
<1>3. CASE Probes(a)
    <2>1. /\ OnlyMoves(a) /\ pc'[a] = "map" /\ handle'[a] = handle[a]
        BY <1>1, <1>3, GoesMoves DEF Probes
    <2>2. ~handle[a].owner
        BY <1>1, <1>3 DEF Probes, OwnersHaveObjects
    <2>3. (Owning(a)' <=> Owning(a)) /\ (Creating(a)' => Creating(a))
        BY <1>3, <2>1, <2>2 DEF Probes, Owning, Creating
    <2> QED
        BY <1>1, <1>3, <2>3, GoesAsBefore, NeutralKeepsNames DEF Probes, history
<1>4. CASE OpenFails(a)
    <2>1. ~Owning(a)
        BY <1>4 DEF OpenFails, Owning
    <2> QED
        BY <1>1, <1>4, <2>1, EndsAsNobody, NeutralKeepsNames DEF OpenFails, history
<1>5. CASE Checks(a)
    <2>1. ~Owning(a) /\ names' = names /\ rivals' = rivals /\ orphans' = orphans
        BY <1>5 DEF Checks, Owning
    <2>2. CASE Ends(a)
        BY <1>1, <2>1, <2>2, EndsAsNobody, NeutralKeepsNames
    <2>3. CASE Goes(a, "live") /\ UNCHANGED handle
        <3>1. /\ OnlyMoves(a) /\ pc'[a] = "live" /\ handle'[a] = handle[a]
            BY <1>1, <2>3, GoesMoves
        <3>2. ~handle[a].owner
            BY <1>1, <1>5 DEF Checks, OwnersHaveObjects
        <3>3. (Owning(a)' <=> Owning(a)) /\ (Creating(a)' => Creating(a))
            BY <2>1, <3>1, <3>2 DEF Owning, Creating
        <3> QED
            BY <1>1, <2>1, <2>3, <3>3, GoesAsBefore, NeutralKeepsNames
    <2> QED
        BY <1>5, <2>2, <2>3 DEF Checks
<1>6. CASE Faults(a)
    <2>1. Mine(a) \in Processes
        BY DEF Mine
    <2> QED
        BY <1>6, <2>1, KillsKeepsNames DEF Faults
<1>7. QED
    BY <1>2, <1>3, <1>4, <1>5, <1>6 DEF OpenStep

LEMMA DropKeepsNames ==
    ASSUME NamesTypeOK, NameInv, NEW a \in Threads, DropStep(a)
    PROVE  NameInv'
<1>1. Typed /\ OwnersHaveObjects
    BY TypesSplit DEF NameInv
<1>2. CASE Unmaps(a)
    <2> DEFINE to == IF Owns(a) THEN "unname" ELSE "unlist"
    <2>1. /\ LeavesFor(a, to) /\ pc[a] = "live" /\ names' = names /\ orphans' = orphans
        BY <1>2 DEF Unmaps
    <2>2. CASE Ends(a) /\ to = "unlist" /\ rivals' = rivals \ {a}
        <3>1. ~Owning(a)
            BY <2>2 DEF Owns, Owning
        <3> QED
            BY <1>1, <2>1, <2>2, <3>1, EndsAsNobody, NeutralKeepsNames
    <2>3. CASE Goes(a, to) /\ UNCHANGED <<handle, rivals>>
        <3>1. OnlyMoves(a) /\ pc'[a] = to /\ handle'[a] = handle[a]
            BY <1>1, <2>3, GoesMoves
        <3>2. Owning(a)' <=> Owning(a)
            BY <2>1, <3>1 DEF Owning, Owns
        <3>3. Creating(a)' => Creating(a)
            BY <2>1, <3>1, <3>2 DEF Creating
        <3>4. (to \in {"size", "unname"} => handle[a].owner) /\ to \notin {"probe", "check"}
            BY DEF Owns
        <3> HIDE DEF to
        <3> QED
            BY <1>1, <2>1, <2>3, <3>2, <3>3, <3>4, GoesAsBefore, NeutralKeepsNames
    <2> QED
        BY <2>1, <2>2, <2>3 DEF LeavesFor
<1>3. CASE Unnames(a)
    <2>1. Creating(a)
        BY <1>1, <1>3 DEF Unnames, Creating, Owning, OwnersHaveObjects
    <2>2. CASE Ends(a) /\ rivals' = rivals \ {a}
        BY <1>1, <1>3, <2>1, <2>2, EndsAsNobody, UnlinkerKeepsNames DEF Unnames
    <2>3. CASE Goes(a, "unlist") /\ UNCHANGED <<handle, rivals>>
        <3>1. OnlyMoves(a) /\ pc'[a] = "unlist" /\ handle'[a] = handle[a]
            BY <1>1, <2>3, GoesMoves
        <3>2. ~Owning(a)' /\ Meets(a) /\ OwnersHaveObjects'
            BY <1>1, <3>1 DEF Owning, Creating, Meets, OnlyMoves, OwnersHaveObjects
        <3> QED
            BY <1>3, <2>1, <2>3, <3>1, <3>2, UnlinkerKeepsNames DEF Unnames
    <2> QED
        BY <1>3, <2>2, <2>3 DEF Unnames, LeavesFor
<1>4. CASE Unregisters(a)
    <2>1. ~Owning(a)
        BY <1>4 DEF Unregisters, Owning
    <2> QED
        BY <1>1, <1>4, <2>1, EndsAsNobody, NeutralKeepsNames DEF Unregisters
<1>5. QED
    BY <1>2, <1>3, <1>4 DEF DropStep

(***************************************************************************)
(* Preservation of TableInv.  A handle counts for it once it has mapped.   *)
(***************************************************************************)
\* The thread neither has mapped nor is on its way out, before or after.
Unmapped(a) == ~HasMapped(a) /\ pc[a] \notin {"unname", "unlist"}

LEMMA OutsiderKeepsTable ==
    ASSUME NamesTypeOK, TableInv, NEW a \in Threads, OnlyMoves(a), Unmapped(a), Unmapped(a)',
           mapped' = mapped, table' = table,
           uncounted \ {a} \subseteq uncounted'
    PROVE  TableInv'
<1>1. \A b \in Threads : ~Unmapped(b)' => b # a /\ pc'[b] = pc[b] /\ handle'[b] = handle[b]
    BY DEF OnlyMoves
<1>2. KindsFit'
    BY <1>1 DEF TableInv, KindsFit, Unmapped, HasMapped
<1>3. MappingsApart'
    BY <1>1 DEF TableInv, MappingsApart, Unmapped, HasMapped, Mine
<1>4. StaleApart'
    BY <1>1 DEF TableInv, StaleApart, Leaving, Unmapped, HasMapped, Mine
<1>5. EntriesHaveSurfaces'
    BY DEF TableInv, EntriesHaveSurfaces, ListedSurfaces, Unmapped, HasMapped, OnlyMoves, Mine
<1>6. SurfacesHaveEntries'
    BY <1>1 DEF TableInv, SurfacesHaveEntries, Unmapped, HasMapped, Entry, Mine
<1>7. QED
    BY <1>2, <1>3, <1>4, <1>5, <1>6 DEF TableInv

\* mmap takes an address nothing is mapped at; whether a Drop has it still in
\* the table is what uncounted remembers.
LEMMA MapsKeepsTable ==
    ASSUME NamesTypeOK, TableInv, NEW a \in Threads, NEW p \in Addresses, Maps(a, p)
    PROVE  TableInv'
<1>0. Typed
    BY TypesSplit
<1>1. /\ OnlyMoves(a) /\ pc'[a] \in {"fill", "check", "register"}
      /\ handle'[a].base = p /\ handle'[a].kind = handle[a].kind
      /\ pc'[a] = "register" => handle[a].kind = "surface"
      /\ pc'[a] = "check" => handle[a].kind = "ring"
    BY <1>0, MapsMoves
<1>2. /\ pc[a] = "map" /\ p \notin mapped[Mine(a)] /\ Mine(a) \in Processes
      /\ mapped' = [mapped EXCEPT ![Mine(a)] = @ \cup {p}] /\ table' = table
      /\ uncounted \subseteq uncounted'
      /\ p \in Stale(Mine(a)) => a \in uncounted'
    BY DEF Maps, Mine
<1>3. \A b \in Threads \ {a} : /\ HasMapped(b)' <=> HasMapped(b)
                               /\ Leaving(b)' <=> Leaving(b)
    BY <1>1 DEF OnlyMoves, HasMapped, Leaving
<1>4. ~Leaving(a)'
    BY <1>1 DEF Leaving
<1>5. \A x \in Processes : mapped[x] \subseteq mapped'[x]
    BY <1>0, <1>2 DEF Typed
<1>6. KindsFit'
    BY <1>1 DEF TableInv, KindsFit, OnlyMoves
<1>7. MappingsApart'
    <2>1. p \in mapped'[Mine(a)]
        BY <1>0, <1>2 DEF Typed
    <2>2. \A b \in Threads \ {a} : HasMapped(b) /\ Mine(b) = Mine(a) => handle[b].base # p
        BY <1>2 DEF TableInv, MappingsApart
    <2>3. \A b \in Threads \ {a} : HasMapped(b) => handle[b].base \in mapped'[Mine(b)]
        BY <1>5 DEF TableInv, MappingsApart, Mine
    <2> QED
        BY <1>1, <1>3, <2>1, <2>2, <2>3 DEF TableInv, MappingsApart, OnlyMoves, Mine
<1>8. StaleApart'
    <2> SUFFICES ASSUME NEW b \in Threads, NEW c \in Threads, HasMapped(b)', b \notin uncounted',
                        Leaving(c)', Mine(c) = Mine(b)
                 PROVE  handle'[c].base # handle'[b].base
        BY DEF StaleApart, Mine
    <2>1. c # a /\ Leaving(c) /\ handle'[c] = handle[c]
        BY <1>1, <1>3, <1>4 DEF OnlyMoves
    <2>2. CASE b = a
        BY <1>1, <1>2, <2>1, <2>2 DEF Stale, Leaving
    <2>3. CASE b # a
        BY <1>1, <1>2, <1>3, <2>1, <2>3 DEF TableInv, StaleApart, OnlyMoves
    <2> QED
        BY <2>2, <2>3
<1>9. EntriesHaveSurfaces'
    BY <1>1, <1>2 DEF TableInv, EntriesHaveSurfaces, ListedSurfaces, OnlyMoves, Mine
<1>10. SurfacesHaveEntries'
    BY <1>1, <1>2 DEF TableInv, SurfacesHaveEntries, Entry, OnlyMoves, Mine
<1>11. QED
    BY <1>6, <1>7, <1>8, <1>9, <1>10 DEF TableInv

\* A mapped thread moves on: nothing is unmapped and it is not listed.
LEMMA StaysMapped ==
    ASSUME NamesTypeOK, TableInv, NEW a \in Threads, OnlyMoves(a), handle'[a] = handle[a],
           HasMapped(a), pc[a] # "live", HasMapped(a)', pc'[a] # "check",
           pc'[a] = "register" => handle[a].kind = "surface",
           pc'[a] = "live" => handle[a].kind = "ring",
           mapped' = mapped, table' = table, uncounted' = uncounted
    PROVE  TableInv'
<1>1. \A b \in Threads : /\ handle'[b] = handle[b] /\ (HasMapped(b)' <=> HasMapped(b))
                         /\ Leaving(b)' <=> Leaving(b)
    BY DEF OnlyMoves, HasMapped, Leaving
<1>2. KindsFit'
    BY DEF TableInv, KindsFit, OnlyMoves, HasMapped
<1>3. MappingsApart'
    BY <1>1 DEF TableInv, MappingsApart, Mine
<1>4. StaleApart'
    BY <1>1 DEF TableInv, StaleApart, Mine
<1>5. EntriesHaveSurfaces'
    BY DEF TableInv, EntriesHaveSurfaces, ListedSurfaces, OnlyMoves, HasMapped, Mine
<1>6. SurfacesHaveEntries'
    BY <1>1 DEF TableInv, SurfacesHaveEntries, OnlyMoves, Entry, Mine
<1>7. QED
    BY <1>2, <1>3, <1>4, <1>5, <1>6 DEF TableInv

LEMMA RegistersKeepsTable ==
    ASSUME NamesTypeOK, TableInv, NEW a \in Threads, Registers(a)
    PROVE  TableInv'
<1>0. Typed
    BY TypesSplit
<1>1. /\ OnlyMoves(a) /\ pc[a] = "register" /\ pc'[a] = "live" /\ handle' = handle
      /\ handle[a].kind = "surface"
    BY <1>0, GoesMoves DEF Registers, TableInv, KindsFit
<1>2. \A b \in Threads : /\ HasMapped(b)' <=> HasMapped(b)
                         /\ Leaving(b)' <=> Leaving(b)
    BY <1>1 DEF OnlyMoves, HasMapped, Leaving
<1>3. /\ Mine(a) \in Processes /\ mapped' = mapped /\ uncounted \subseteq uncounted'
      /\ table' = [table EXCEPT ![Mine(a)] = Listed(table[Mine(a)], a)]
      /\ a \notin uncounted' => HasRoom(table[Mine(a)])
    BY DEF Registers, Mine
<1>4. \A x \in Processes : table[x] \subseteq table'[x]
    BY <1>3 DEF Listed, NamesTypeOK
<1>5. \A x \in Processes : \A e \in table'[x] : e \in table[x] \/ (e = Entry(a) /\ x = Mine(a))
    BY <1>3 DEF Listed, NamesTypeOK
<1>6. KindsFit'
    BY <1>1 DEF TableInv, KindsFit, OnlyMoves
<1>7. MappingsApart'
    BY <1>1, <1>2, <1>3 DEF TableInv, MappingsApart, Mine
<1>8. StaleApart'
    BY <1>1, <1>2, <1>3 DEF TableInv, StaleApart, Mine
<1>9. EntriesHaveSurfaces'
    <2> SUFFICES ASSUME NEW x \in Processes, NEW e \in table'[x]
                 PROVE  e.by \in ListedSurfaces(x)' /\ handle'[e.by].base = e.at
        BY DEF EntriesHaveSurfaces
    <2>1. CASE e \in table[x]
        BY <1>1, <2>1 DEF TableInv, EntriesHaveSurfaces, ListedSurfaces, OnlyMoves, Mine
    <2>2. CASE e = Entry(a) /\ x = Mine(a)
        BY <1>1, <2>2 DEF Entry, ListedSurfaces, Mine
    <2> QED
        BY <1>5, <2>1, <2>2
<1>10. SurfacesHaveEntries'
    <2> SUFFICES ASSUME NEW b \in Threads, pc'[b] = "live", handle'[b].kind = "surface",
                        b \notin uncounted'
                 PROVE  Entry(b)' \in table'[Mine(b)]
        BY DEF SurfacesHaveEntries, Mine
    <2>1. Entry(b)' = Entry(b)
        BY <1>1 DEF Entry
    <2>2. CASE b = a
        BY <1>3, <2>1, <2>2 DEF Listed, NamesTypeOK
    <2>3. CASE b # a
        <3>1. Entry(b) \in table[Mine(b)] /\ Mine(b) \in Processes
            BY <1>1, <1>3, <2>3 DEF TableInv, SurfacesHaveEntries, OnlyMoves, Mine
        <3> QED
            BY <1>4, <2>1, <3>1
    <2> QED
        BY <2>2, <2>3
<1>11. QED
    BY <1>6, <1>7, <1>8, <1>9, <1>10 DEF TableInv

\* The address is unmapped; a surface's entry is still there.
LEMMA UnmapsKeepsTable ==
    ASSUME NamesTypeOK, TableInv, NEW a \in Threads, OnlyMoves(a), HasMapped(a), ~HasMapped(a)',
           mapped' = [mapped EXCEPT ![Mine(a)] = @ \ {handle[a].base}], table' = table,
           \/ /\ handle'[a] = handle[a] /\ pc'[a] \in {"unname", "unlist"}
              /\ pc'[a] = "unlist" => handle[a].kind = "surface"
           \/ pc'[a] = "idle" /\ (pc[a] = "live" => handle[a].kind # "surface"),
           uncounted \ {a} \subseteq uncounted'
    PROVE  TableInv'
<1>1. Mine(a) \in Processes
    BY DEF Mine
<1>2. \A b \in Threads : HasMapped(b)' => b # a /\ HasMapped(b) /\ handle'[b] = handle[b]
    BY DEF OnlyMoves, HasMapped
<1>3. \A b \in Threads : Leaving(b)' =>
          (b = a \/ Leaving(b)) /\ handle'[b] = handle[b]
    BY DEF OnlyMoves, Leaving
<1>4. KindsFit'
    BY DEF TableInv, KindsFit, OnlyMoves, HasMapped
<1>5. MappingsApart'
    <2> SUFFICES ASSUME NEW b \in Threads, HasMapped(b)'
                 PROVE  /\ handle'[b].base \in mapped'[Mine(b)]
                        /\ \A c \in Threads : c # b /\ HasMapped(c)' /\ Mine(c) = Mine(b)
                              => handle'[c].base # handle'[b].base
        BY DEF MappingsApart, Mine
    <2>1. b # a /\ HasMapped(b) /\ handle'[b] = handle[b]
        BY <1>2
    <2>2. /\ handle[b].base \in mapped[Mine(b)]
          /\ Mine(b) = Mine(a) => handle[b].base # handle[a].base
        BY <2>1 DEF TableInv, MappingsApart
    <2>3. handle'[b].base \in mapped'[Mine(b)]
        BY <1>1, <2>1, <2>2 DEF NamesTypeOK
    <2>4. \A c \in Threads : c # b /\ HasMapped(c)' /\ Mine(c) = Mine(b)
                              => handle'[c].base # handle'[b].base
        BY <1>2, <2>1 DEF TableInv, MappingsApart
    <2> QED
        BY <2>3, <2>4
<1>6. StaleApart'
    <2> SUFFICES ASSUME NEW b \in Threads, NEW c \in Threads, HasMapped(b)', b \notin uncounted',
                        Leaving(c)', Mine(c) = Mine(b)
                 PROVE  handle'[c].base # handle'[b].base
        BY DEF StaleApart, Mine
    <2>1. b # a /\ HasMapped(b) /\ handle'[b] = handle[b] /\ b \notin uncounted
        BY <1>2
    <2>2. CASE c = a
        BY <1>3, <2>1, <2>2 DEF TableInv, MappingsApart
    <2>3. CASE Leaving(c)
        BY <1>3, <2>1, <2>3 DEF TableInv, StaleApart
    <2> QED
        BY <1>3, <2>2, <2>3
<1>7. EntriesHaveSurfaces'
    <2> SUFFICES ASSUME NEW x \in Processes, NEW e \in table[x]
                 PROVE  e.by \in ListedSurfaces(x)' /\ handle'[e.by].base = e.at
        BY DEF EntriesHaveSurfaces
    <2>1. e.by \in ListedSurfaces(x) /\ handle[e.by].base = e.at
        BY DEF TableInv, EntriesHaveSurfaces
    <2> QED
        BY <2>1 DEF ListedSurfaces, OnlyMoves, HasMapped, Mine
<1>8. SurfacesHaveEntries'
    BY <1>2 DEF TableInv, SurfacesHaveEntries, Entry, HasMapped, OnlyMoves, Mine
<1>9. QED
    BY <1>4, <1>5, <1>6, <1>7, <1>8 DEF TableInv

\* A surface on its way out gives up its name, or a ring's Drop is over.
LEMMA UnnamesKeepsTable ==
    ASSUME NamesTypeOK, TableInv, NEW a \in Threads, OnlyMoves(a), pc[a] = "unname",
           mapped' = mapped, table' = table,
           \/ handle'[a] = handle[a] /\ pc'[a] = "unlist" /\ handle[a].kind = "surface"
           \/ pc'[a] = "idle" /\ handle[a].kind # "surface",
           uncounted \ {a} \subseteq uncounted'
    PROVE  TableInv'
<1>1. \A b \in Threads : HasMapped(b)' => b # a /\ HasMapped(b) /\ handle'[b] = handle[b]
    BY DEF OnlyMoves, HasMapped
<1>2. \A b \in Threads : Leaving(b)' => Leaving(b) /\ handle'[b] = handle[b]
    BY DEF OnlyMoves, Leaving
<1>3. KindsFit'
    BY DEF TableInv, KindsFit, OnlyMoves
<1>4. MappingsApart'
    BY <1>1 DEF TableInv, MappingsApart, Mine
<1>5. StaleApart'
    BY <1>1, <1>2 DEF TableInv, StaleApart, Mine
<1>6. EntriesHaveSurfaces'
    <2> SUFFICES ASSUME NEW x \in Processes, NEW e \in table[x]
                 PROVE  e.by \in ListedSurfaces(x)' /\ handle'[e.by].base = e.at
        BY DEF EntriesHaveSurfaces
    <2>1. e.by \in ListedSurfaces(x) /\ handle[e.by].base = e.at
        BY DEF TableInv, EntriesHaveSurfaces
    <2> QED
        BY <2>1 DEF ListedSurfaces, OnlyMoves, Mine
<1>7. SurfacesHaveEntries'
    BY DEF TableInv, SurfacesHaveEntries, OnlyMoves, Entry, Mine
<1>8. QED
    BY <1>3, <1>4, <1>5, <1>6, <1>7 DEF TableInv

\* Every entry with the address goes: the surface's own, and those of surfaces
\* that are not counted.
LEMMA UnregistersKeepsTable ==
    ASSUME NamesTypeOK, TableInv, NEW a \in Threads, Unregisters(a)
    PROVE  TableInv'
<1>0. Typed
    BY TypesSplit
<1>1. OnlyMoves(a) /\ pc'[a] = "idle" /\ pc[a] = "unlist" /\ Leaving(a)
    BY <1>0, EndsMoves DEF Unregisters, Leaving, TableInv, KindsFit
<1>2. /\ Mine(a) \in Processes /\ mapped' = mapped /\ uncounted' = uncounted \ {a}
      /\ table' = [table EXCEPT ![Mine(a)] = Unlisted(@, handle[a].base)]
    BY DEF Unregisters, Mine
<1>3. \A b \in Threads : HasMapped(b)' => b # a /\ HasMapped(b) /\ handle'[b] = handle[b]
    BY <1>1 DEF OnlyMoves, HasMapped
<1>4. \A b \in Threads : Leaving(b)' => Leaving(b) /\ handle'[b] = handle[b]
    BY <1>1 DEF OnlyMoves, Leaving
<1>5. KindsFit'
    BY <1>1 DEF TableInv, KindsFit, OnlyMoves
<1>6. MappingsApart'
    BY <1>2, <1>3 DEF TableInv, MappingsApart, Mine
<1>7. StaleApart'
    BY <1>2, <1>3, <1>4 DEF TableInv, StaleApart, Mine
<1>8. EntriesHaveSurfaces'
    <2> SUFFICES ASSUME NEW x \in Processes, NEW e \in table'[x]
                 PROVE  e.by \in ListedSurfaces(x)' /\ handle'[e.by].base = e.at
        BY DEF EntriesHaveSurfaces
    <2>1. e \in table[x] /\ (x = Mine(a) => e.at # handle[a].base)
        BY <1>2 DEF Unlisted, NamesTypeOK
    <2>2. e.by \in ListedSurfaces(x) /\ handle[e.by].base = e.at
        BY <2>1 DEF TableInv, EntriesHaveSurfaces
    <2>3. e.by # a
        BY <2>1, <2>2 DEF ListedSurfaces
    <2> QED
        BY <1>1, <2>2, <2>3 DEF ListedSurfaces, OnlyMoves, Mine
<1>9. SurfacesHaveEntries'
    <2> SUFFICES ASSUME NEW b \in Threads, pc'[b] = "live", handle'[b].kind = "surface",
                        b \notin uncounted'
                 PROVE  Entry(b)' \in table'[Mine(b)]
        BY DEF SurfacesHaveEntries, Mine
    <2>1. b # a /\ pc[b] = "live" /\ handle'[b] = handle[b] /\ b \notin uncounted
        BY <1>1, <1>2 DEF OnlyMoves
    <2>2. Entry(b)' = Entry(b) /\ Entry(b) \in table[Mine(b)] /\ Mine(b) \in Processes
        BY <2>1 DEF TableInv, SurfacesHaveEntries, Entry, Mine
    <2>3. Mine(b) = Mine(a) => Entry(b).at # handle[a].base
        BY <1>1, <2>1 DEF TableInv, StaleApart, HasMapped, Entry
    <2> QED
        BY <1>2, <2>2, <2>3 DEF Unlisted, NamesTypeOK
<1>10. QED
    BY <1>5, <1>6, <1>7, <1>8, <1>9 DEF TableInv

\* What a dead process had goes with its threads; the others see nothing of it.
LEMMA KillsKeepsTable ==
    ASSUME NamesTypeOK, TableInv, NEW x \in Processes, Kills(x)
    PROVE  TableInv'
<1>1. /\ \A a \in Threads : Mine(a) = x => pc'[a] = "idle"
      /\ \A a \in Threads : Mine(a) # x => pc'[a] = pc[a] /\ handle'[a] = handle[a]
    BY DEF Kills
<1>2. /\ mapped' = [mapped EXCEPT ![x] = {}] /\ table' = [table EXCEPT ![x] = {}]
      /\ uncounted' = uncounted \ {a \in Threads : Mine(a) = x}
    BY DEF Kills
<1>3. \A a \in Threads : HasMapped(a)' =>
          Mine(a) # x /\ HasMapped(a) /\ handle'[a] = handle[a] /\ Mine(a) \in Processes
    BY <1>1 DEF HasMapped, Mine
<1>4. \A a \in Threads : Leaving(a)' => Mine(a) # x /\ Leaving(a) /\ handle'[a] = handle[a]
    BY <1>1 DEF Leaving
<1>5. KindsFit'
    BY <1>1 DEF TableInv, KindsFit
<1>6. MappingsApart'
    <2> SUFFICES ASSUME NEW b \in Threads, HasMapped(b)'
                 PROVE  /\ handle'[b].base \in mapped'[Mine(b)]
                        /\ \A c \in Threads : c # b /\ HasMapped(c)' /\ Mine(c) = Mine(b)
                              => handle'[c].base # handle'[b].base
        BY DEF MappingsApart, Mine
    <2>1. handle'[b].base \in mapped'[Mine(b)]
        BY <1>2, <1>3 DEF TableInv, MappingsApart, NamesTypeOK
    <2>2. \A c \in Threads : c # b /\ HasMapped(c)' /\ Mine(c) = Mine(b)
                              => handle'[c].base # handle'[b].base
        BY <1>3 DEF TableInv, MappingsApart
    <2> QED
        BY <2>1, <2>2
<1>7. StaleApart'
    BY <1>2, <1>3, <1>4 DEF TableInv, StaleApart, Mine
<1>8. EntriesHaveSurfaces'
    <2> SUFFICES ASSUME NEW y \in Processes, NEW e \in table'[y]
                 PROVE  e.by \in ListedSurfaces(y)' /\ handle'[e.by].base = e.at
        BY DEF EntriesHaveSurfaces
    <2>1. y # x /\ e \in table[y]
        BY <1>2 DEF NamesTypeOK
    <2>2. e.by \in ListedSurfaces(y) /\ handle[e.by].base = e.at
        BY <2>1 DEF TableInv, EntriesHaveSurfaces
    <2> QED
        BY <1>1, <2>1, <2>2 DEF ListedSurfaces, Mine
<1>9. SurfacesHaveEntries'
    <2> SUFFICES ASSUME NEW b \in Threads, pc'[b] = "live", handle'[b].kind = "surface",
                        b \notin uncounted'
                 PROVE  Entry(b)' \in table'[Mine(b)]
        BY DEF SurfacesHaveEntries, Mine
    <2>1. Mine(b) # x /\ pc[b] = "live" /\ handle'[b] = handle[b] /\ b \notin uncounted
          /\ Mine(b) \in Processes
        BY <1>1, <1>2 DEF Mine
    <2>2. Entry(b)' = Entry(b) /\ Entry(b) \in table[Mine(b)]
        BY <2>1 DEF TableInv, SurfacesHaveEntries, Entry
    <2> QED
        BY <1>2, <2>1, <2>2 DEF NamesTypeOK
<1>10. QED
    BY <1>5, <1>6, <1>7, <1>8, <1>9 DEF TableInv

LEMMA CreateKeepsTable ==
    ASSUME NamesTypeOK, TableInv, NEW a \in Threads, CreateStep(a)
    PROVE  TableInv'
<1>1. Typed
    BY TypesSplit
<1>2. CASE \E k \in Kinds, n \in Names : Creates(a, k, n)
    <2> PICK k \in Kinds, n \in Names : Creates(a, k, n)
        BY <1>2
    <2>1. OnlyMoves(a) /\ pc'[a] = "size"
        BY MakesMoves DEF Creates
    <2> QED
        BY <2>1, OutsiderKeepsTable DEF Creates, Makes, Unmapped, HasMapped
<1>3. CASE \E k \in Kinds, n \in Names : FindsOld(a, k, n)
    <2> PICK k \in Kinds, n \in Names : FindsOld(a, k, n)
        BY <1>3
    <2>1. OnlyMoves(a) /\ pc'[a] = "replace"
        BY FindsOldMoves
    <2> QED
        BY <2>1, OutsiderKeepsTable DEF FindsOld, Unmapped, HasMapped
<1>4. CASE Replaces(a)
    <2>1. OnlyMoves(a) /\ pc'[a] = "retry"
        BY <1>1, <1>4, GoesMoves DEF Replaces
    <2> QED
        BY <1>4, <2>1, OutsiderKeepsTable DEF Replaces, history, Unmapped, HasMapped
<1>5. CASE Retries(a)
    <2>1. handle[a].kind \in Kinds /\ handle[a].name \in Names
        BY <1>1 DEF Typed, Handles
    <2>2. OnlyMoves(a) /\ pc'[a] = "size"
        BY <1>5, <2>1, MakesMoves DEF Retries
    <2> QED
        BY <1>5, <2>2, OutsiderKeepsTable DEF Retries, Makes, Unmapped, HasMapped
<1>6. CASE RetryFails(a)
    BY <1>1, <1>6, EndsMoves, OutsiderKeepsTable DEF RetryFails, Unmapped, HasMapped
<1>7. CASE Sizes(a)
    <2>1. OnlyMoves(a) /\ pc'[a] = "map"
        BY <1>1, <1>7, GoesMoves DEF Sizes
    <2> QED
        BY <1>7, <2>1, OutsiderKeepsTable DEF Sizes, history, Unmapped, HasMapped
<1>8. CASE CreateFails(a)
    BY <1>1, <1>8, EndsMoves, OutsiderKeepsTable DEF CreateFails, Unmapped, HasMapped
<1>9. CASE \E p \in Addresses : Maps(a, p)
    BY <1>9, MapsKeepsTable
<1>10. CASE Fills(a)
    <2>1. /\ OnlyMoves(a) /\ handle'[a] = handle[a] /\ pc[a] = "fill"
          /\ pc'[a] = IF handle[a].kind = "ring" THEN "live" ELSE "register"
        BY <1>1, <1>10, GoesMoves DEF Fills
    <2>2. handle[a].kind \in {"ring", "surface"}
        BY <1>1 DEF Typed, Handles, Kinds
    <2> QED
        BY <1>10, <2>1, <2>2, StaysMapped DEF Fills, history, HasMapped
<1>11. CASE Registers(a)
    BY <1>11, RegistersKeepsTable
<1>12. QED
    BY <1>2, <1>3, <1>4, <1>5, <1>6, <1>7, <1>8, <1>9, <1>10, <1>11 DEF CreateStep

LEMMA OpenKeepsTable ==
    ASSUME NamesTypeOK, TableInv, OwnersHaveObjects, NEW a \in Threads, OpenStep(a)
    PROVE  TableInv'
<1>1. Typed
    BY TypesSplit
<1>2. CASE \E k \in Kinds, n \in Names : Opens(a, k, n)
    <2> PICK k \in Kinds, n \in Names : Opens(a, k, n)
        BY <1>2
    <2>1. OnlyMoves(a) /\ pc'[a] \in {"map", "probe"}
        BY <1>1, OpensMoves
    <2> QED
        BY <2>1, OutsiderKeepsTable DEF Opens, history, Unmapped, HasMapped
<1>3. CASE Probes(a)
    <2>1. OnlyMoves(a) /\ pc'[a] = "map"
        BY <1>1, <1>3, GoesMoves DEF Probes
    <2> QED
        BY <1>3, <2>1, OutsiderKeepsTable DEF Probes, history, Unmapped, HasMapped
<1>4. CASE OpenFails(a)
    BY <1>1, <1>4, EndsMoves, OutsiderKeepsTable DEF OpenFails, history, Unmapped, HasMapped
<1>5. CASE Checks(a)
    <2>1. pc[a] = "check" /\ table' = table
        BY <1>5 DEF Checks
    <2>2. CASE Recognised(a)
        <3>1. OnlyMoves(a) /\ pc'[a] = "live" /\ handle'[a] = handle[a]
              /\ mapped' = mapped /\ uncounted' = uncounted
            BY <1>1, <1>5, <2>2, GoesMoves DEF Checks
        <3>2. handle[a].kind = "ring"
            BY <2>1 DEF TableInv, KindsFit
        <3> QED
            BY <2>1, <3>1, <3>2, StaysMapped DEF HasMapped
    <2>3. CASE ~Recognised(a)
        <3>1. OnlyMoves(a) /\ pc'[a] = "idle" /\ uncounted' = uncounted \ {a}
              /\ mapped' = [mapped EXCEPT ![Mine(a)] = @ \ {handle[a].base}]
            BY <1>1, <1>5, <2>3, EndsMoves DEF Checks
        <3> QED
            BY <2>1, <3>1, UnmapsKeepsTable DEF HasMapped
    <2> QED
        BY <2>2, <2>3
<1>6. CASE Faults(a)
    <2>1. Mine(a) \in Processes
        BY DEF Mine
    <2> QED
        BY <1>6, <2>1, KillsKeepsTable DEF Faults
<1>7. QED
    BY <1>2, <1>3, <1>4, <1>5, <1>6 DEF OpenStep

LEMMA DropKeepsTable ==
    ASSUME NamesTypeOK, TableInv, NEW a \in Threads, DropStep(a)
    PROVE  TableInv'
<1>1. Typed /\ handle[a].kind \in {"ring", "surface"}
    BY TypesSplit DEF Typed, Handles, Kinds
<1>2. CASE Unmaps(a)
    <2> DEFINE to == IF Owns(a) THEN "unname" ELSE "unlist"
    <2>1. /\ LeavesFor(a, to) /\ pc[a] = "live" /\ table' = table
          /\ mapped' = [mapped EXCEPT ![Mine(a)] = @ \ {handle[a].base}]
        BY <1>2 DEF Unmaps
    <2>2. to \in {"unname", "unlist"}
        OBVIOUS
    <2> HIDE DEF to
    <2>3. CASE to = "unlist" /\ handle[a].kind = "ring"
        <3>1. OnlyMoves(a) /\ pc'[a] = "idle" /\ uncounted' = uncounted \ {a}
            BY <1>1, <2>1, <2>3, EndsMoves DEF LeavesFor
        <3> QED
            BY <2>1, <2>3, <3>1, UnmapsKeepsTable DEF HasMapped
    <2>4. CASE ~(to = "unlist" /\ handle[a].kind = "ring")
        <3>1. Goes(a, to) /\ UNCHANGED <<handle, rivals, uncounted>>
            BY <2>1, <2>4 DEF LeavesFor
        <3>2. OnlyMoves(a) /\ pc'[a] = to /\ handle'[a] = handle[a]
            BY <1>1, <3>1, GoesMoves
        <3> QED
            BY <1>1, <2>1, <2>2, <2>4, <3>1, <3>2, UnmapsKeepsTable DEF HasMapped
    <2> QED
        BY <2>3, <2>4
<1>3. CASE Unnames(a)
    <2>1. LeavesFor(a, "unlist") /\ pc[a] = "unname" /\ table' = table /\ mapped' = mapped
        BY <1>3 DEF Unnames
    <2>2. CASE handle[a].kind = "ring"
        <3>1. OnlyMoves(a) /\ pc'[a] = "idle" /\ uncounted' = uncounted \ {a}
            BY <1>1, <2>1, <2>2, EndsMoves DEF LeavesFor
        <3> QED
            BY <2>1, <2>2, <3>1, UnnamesKeepsTable
    <2>3. CASE handle[a].kind = "surface"
        <3>1. Goes(a, "unlist") /\ UNCHANGED <<handle, rivals, uncounted>>
            BY <2>1, <2>3 DEF LeavesFor
        <3>2. OnlyMoves(a) /\ pc'[a] = "unlist" /\ handle'[a] = handle[a]
            BY <1>1, <3>1, GoesMoves
        <3> QED
            BY <2>1, <2>3, <3>1, <3>2, UnnamesKeepsTable
    <2> QED
        BY <1>1, <2>2, <2>3
<1>4. CASE Unregisters(a)
    BY <1>4, UnregistersKeepsTable
<1>5. QED
    BY <1>2, <1>3, <1>4 DEF DropStep

(***************************************************************************)
(* The table of a process never holds more than MAX_SURFACES entries.      *)
(***************************************************************************)
LEMMA ListedBound ==
    ASSUME NEW t, IsFiniteSet(t), Cardinality(t) <= MaxSurfaces, NEW a
    PROVE  IsFiniteSet(Listed(t, a)) /\ Cardinality(Listed(t, a)) <= MaxSurfaces
<1>1. CASE HasRoom(t)
    <2>1. /\ IsFiniteSet(t \cup {Entry(a)}) /\ Cardinality(t) \in Nat
          /\ Cardinality(t \cup {Entry(a)}) \in {Cardinality(t), Cardinality(t) + 1}
        BY FS_AddElement, FS_CardinalityType
    <2> QED
        BY <1>1, <2>1 DEF Listed, HasRoom
<1>2. CASE ~HasRoom(t)
    BY <1>2 DEF Listed
<1>3. QED
    BY <1>1, <1>2

LEMMA UnlistedBound ==
    ASSUME NEW t, IsFiniteSet(t), Cardinality(t) <= MaxSurfaces, NEW p
    PROVE  IsFiniteSet(Unlisted(t, p)) /\ Cardinality(Unlisted(t, p)) <= MaxSurfaces
<1>1. Unlisted(t, p) \in SUBSET t
    BY DEF Unlisted
<1>2. /\ IsFiniteSet(Unlisted(t, p)) /\ Cardinality(Unlisted(t, p)) <= Cardinality(t)
      /\ Cardinality(t) \in Nat /\ Cardinality(Unlisted(t, p)) \in Nat
    BY <1>1, FS_Subset, FS_CardinalityType
<1>3. QED
    BY <1>2

LEMMA TableStaysTyped ==
    ASSUME NamesTypeOK, TableInv, NamesNext
    PROVE  TableTyped'
<1>1. Typed /\ TableTyped
    BY TypesSplit
<1>2. \/ table' = table
      \/ \E a \in Threads : Registers(a) \/ Unregisters(a)
      \/ \E x \in Processes : table' = [table EXCEPT ![x] = {}]
    BY DEF NamesNext, CreateStep, OpenStep, DropStep, Dies, Kills, Faults, Mine,
           Creates, Makes, FindsOld, Replaces, Retries, RetryFails, Sizes, CreateFails,
           Maps, Fills, Opens, Probes, OpenFails, Checks, Unmaps, Unnames
<1>3. CASE table' = table
    BY <1>1, <1>3 DEF TableTyped
<1>4. ASSUME NEW a \in Threads, Registers(a) PROVE TableTyped'
    <2>1. Mine(a) \in Processes
          /\ table' = [table EXCEPT ![Mine(a)] = Listed(table[Mine(a)], a)]
        BY <1>4 DEF Registers, Mine
    <2>2. Entry(a) \in [at : Addresses, by : Threads]
        BY <1>4, <2>1 DEF Registers, TableInv, MappingsApart, HasMapped, Entry, NamesTypeOK
    <2>3. Listed(table[Mine(a)], a) \subseteq [at : Addresses, by : Threads]
        BY <1>1, <2>1, <2>2 DEF Listed, TableTyped
    <2> QED
        BY <1>1, <2>1, <2>3, ListedBound DEF TableTyped
<1>5. ASSUME NEW a \in Threads, Unregisters(a) PROVE TableTyped'
    <2>1. Mine(a) \in Processes
          /\ table' = [table EXCEPT ![Mine(a)] = Unlisted(table[Mine(a)], handle[a].base)]
        BY <1>5 DEF Unregisters, Mine
    <2>2. Unlisted(table[Mine(a)], handle[a].base) \subseteq [at : Addresses, by : Threads]
        BY <1>1, <2>1 DEF Unlisted, TableTyped
    <2> QED
        BY <1>1, <2>1, <2>2, UnlistedBound DEF TableTyped
<1>6. ASSUME NEW x \in Processes, table' = [table EXCEPT ![x] = {}] PROVE TableTyped'
    BY <1>1, <1>6, FS_EmptySet DEF TableTyped
<1>7. QED
    BY <1>2, <1>3, <1>4, <1>5, <1>6

(***************************************************************************)
(* The theorems.                                                           *)
(***************************************************************************)
NamesInv == NamesTypeOK /\ NameInv /\ TableInv

LEMMA InitNames == NamesInit => NamesInv
<1> SUFFICES ASSUME NamesInit PROVE NamesInv
    OBVIOUS
<1>1. \A a \in Threads : pc[a] = "idle" /\ ~handle[a].owner
    BY DEF NamesInit, NoHandle
<1>2. NameInv
    BY <1>1 DEF NamesInit, NameInv, OwnersHaveObjects, NamesAreOwned, CreatorsAreRivals,
          OwnersAreFound, Creating, Owning
<1>3. TableInv
    BY <1>1 DEF NamesInit, TableInv, KindsFit, MappingsApart, StaleApart, HasMapped,
          EntriesHaveSurfaces, SurfacesHaveEntries
<1>4. QED
    BY <1>2, <1>3, NamesInitTyped DEF NamesInv

LEMMA StepNames == NamesInv /\ [NamesNext]_nameVars => NamesInv'
<1> SUFFICES ASSUME NamesInv, [NamesNext]_nameVars PROVE NamesInv'
    OBVIOUS
<1>1. NamesTypeOK /\ NameInv /\ TableInv /\ OwnersHaveObjects
    BY DEF NamesInv, NameInv
<1>2. ASSUME NEW a \in Threads, CreateStep(a)
      PROVE  Typed' /\ NameInv' /\ TableInv'
    BY <1>1, <1>2, CreateTyped, CreateKeepsNames, CreateKeepsTable
<1>3. ASSUME NEW a \in Threads, OpenStep(a)
      PROVE  Typed' /\ NameInv' /\ TableInv'
    BY <1>1, <1>3, OpenTyped, OpenKeepsNames, OpenKeepsTable
<1>4. ASSUME NEW a \in Threads, DropStep(a)
      PROVE  Typed' /\ NameInv' /\ TableInv'
    BY <1>1, <1>4, DropTyped, DropKeepsNames, DropKeepsTable
<1>5. ASSUME NEW x \in Processes, Dies(x)
      PROVE  Typed' /\ NameInv' /\ TableInv'
    <2>1. Kills(x) /\ deaths' \in 0 .. MaxDeaths
        BY <1>1, <1>5 DEF Dies, NamesTypeOK
    <2> QED
        BY <1>1, <2>1, KillsTyped, KillsKeepsNames, KillsKeepsTable
<1>6. CASE NamesNext
    <2>1. Typed' /\ NameInv' /\ TableInv'
        BY <1>2, <1>3, <1>4, <1>5, <1>6 DEF NamesNext
    <2>2. TableTyped'
        BY <1>1, <1>6, TableStaysTyped
    <2> QED
        BY <2>1, <2>2, TypesSplit DEF NamesInv, Typed, TableTyped, NamesTypeOK, Handles, Places
<1>7. CASE UNCHANGED nameVars
    <2>1. NamesTypeOK'
        BY <1>1, <1>7 DEF nameVars, NamesTypeOK
    <2>2. NameInv'
        BY <1>1, <1>7 DEF nameVars, NameInv, OwnersHaveObjects, NamesAreOwned,
              CreatorsAreRivals, OwnersAreFound, Creating, Owning
    <2>3. TableInv'
        BY <1>1, <1>7 DEF nameVars, TableInv, KindsFit, MappingsApart, StaleApart, HasMapped,
              Leaving, EntriesHaveSurfaces, SurfacesHaveEntries, ListedSurfaces, Entry, Mine
    <2> QED
        BY <2>1, <2>2, <2>3 DEF NamesInv
<1>8. QED
    BY <1>6, <1>7

LEMMA NamesStay == NamesSpec => []NamesInv
BY InitNames, StepNames, PTL DEF NamesSpec

\* NamesTypeOK: every variable of SharedNames keeps its type, and the table of a
\* process holds at most MAX_SURFACES surfaces.
THEOREM NamesAreTyped == NamesSpec => []NamesTypeOK
<1>1. NamesInv => NamesTypeOK
    BY DEF NamesInv
<1>2. QED
    BY <1>1, NamesStay, PTL

\* NamesHaveOwners: however create, open, Drop and the deaths of processes are
\* interleaved, a name refers to an object that has an owner who will unlink it or
\* died, and an owner without rivals is found by its name.
THEOREM NamesKeepOwners == NamesSpec => []NamesHaveOwners
<1>1. NamesInv => NamesHaveOwners
    BY DEF NamesInv, NameInv, NamesAreOwned, NamesHaveOwners
<1>2. QED
    BY <1>1, NamesStay, PTL

LEMMA SurfaceIsListedOnce ==
    ASSUME NamesInv, NEW x \in Processes, NEW a \in ListedSurfaces(x), a \notin uncounted,
           pc[a] = "live"
    PROVE  {e \in table[x] : e.at = handle[a].base} = {Entry(a)}
<1>1. Entry(a) \in table[x] /\ Entry(a).at = handle[a].base
    BY DEF NamesInv, TableInv, SurfacesHaveEntries, ListedSurfaces, Entry
<1>2. ASSUME NEW e \in table[x], e.at = handle[a].base PROVE e = Entry(a)
    <2>1. e.by \in ListedSurfaces(x) /\ handle[e.by].base = e.at
        BY DEF NamesInv, TableInv, EntriesHaveSurfaces
    <2>2. ~Leaving(e.by)
        BY <1>2, <2>1 DEF NamesInv, TableInv, StaleApart, HasMapped, ListedSurfaces
    <2>3. e.by = a
        BY <1>2, <2>1, <2>2 DEF NamesInv, TableInv, MappingsApart, HasMapped, Leaving,
              ListedSurfaces
    <2> QED
        BY <1>2, <2>3 DEF Entry, NamesInv, NamesTypeOK
<1>3. QED
    BY <1>1, <1>2

\* TableTellsSurfaces: the table lists only surfaces whose Drop is not over, and
\* every counted live surface exactly once, for any number of threads and addresses.
THEOREM TablesTellSurfaces == NamesSpec => []TableTellsSurfaces
<1>1. NamesInv => TableTellsSurfaces
    <2> SUFFICES ASSUME NamesInv, NEW x \in Processes
                 PROVE  /\ \A e \in table[x] : \E a \in ListedSurfaces(x) : handle[a].base = e.at
                        /\ \A a \in ListedSurfaces(x) \ uncounted : pc[a] = "live" =>
                              Cardinality({e \in table[x] : e.at = handle[a].base}) = 1
        BY DEF TableTellsSurfaces
    <2>1. \A e \in table[x] : \E a \in ListedSurfaces(x) : handle[a].base = e.at
        BY DEF NamesInv, TableInv, EntriesHaveSurfaces
    <2>2. ASSUME NEW a \in ListedSurfaces(x) \ uncounted, pc[a] = "live"
          PROVE  Cardinality({e \in table[x] : e.at = handle[a].base}) = 1
        <3>1. {e \in table[x] : e.at = handle[a].base} = {Entry(a)}
            BY <2>2, SurfaceIsListedOnce
        <3>2. Cardinality({Entry(a)}) = 1
            BY FS_Singleton
        <3> QED
            BY <3>1, <3>2
    <2> QED
        BY <2>1, <2>2
<1>2. QED
    BY <1>1, NamesStay, PTL
=============================================================================
