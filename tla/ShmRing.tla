------------------------------ MODULE ShmRing ------------------------------
(***************************************************************************)
(* The frame ring in shared memory, src/src/platform/shm/sync_ring.rs.     *)
(*                                                                         *)
(* Several writers and readers, threads or processes, share one region.    *)
(* Every atomic access of the code is a step of its own: the fetch_add on  *)
(* the cursor, each compare_exchange on a slot, each store and load of a   *)
(* slot's metadata.  The metadata are plain memory: between the            *)
(* compare_exchange and the fetch_add that surround them, stores may take  *)
(* effect in any order, and so may the loads of slot_info.                 *)
(*                                                                         *)
(* Left out: read_cursor and generation, which the code writes and nothing *)
(* reads.                                                                  *)
(***************************************************************************)
EXTENDS Integers, FiniteSets

CONSTANTS Writers, Readers,   \* the callers
          SlotCount,          \* slot_count of the region
          CursorModulus,      \* 2^32 in the code: width of write_cursor
          Frames,             \* what a frame is identified by
          NoFrame,            \* the zeroes create() stores
          Fields,             \* a slot's metadata words: frame_index, width
                              \* and height in the code
          MaxCrashes          \* bound: how many callers may die

ASSUME ActorsAssumption == Writers \cap Readers = {}
ASSUME RingAssumption == /\ SlotCount \in Nat \ {0}
                         /\ CursorModulus \in Nat \ {0}
                         /\ MaxCrashes \in Nat
ASSUME FramesAssumption == NoFrame \notin Frames

Slots == 0 .. SlotCount - 1
Actors == Writers \cup Readers
Metadata == [Fields -> Frames \cup {NoFrame}]

VARIABLES
    state,       \* slots[s].state
    info,        \* slots[s].frame_index, width and height
    frame,       \* the frame that was put into the slot when it was published
    writeCursor, \* write_cursor
    wpc,         \* where each writer is in acquire_write_slot / publish_slot
    widx,        \* its local idx, later the slot_index it holds
    wleft,       \* iterations left of its loop
    wframe,      \* the frame it is publishing
    wtodo,       \* metadata it has still to store
    rpc,         \* where each reader is in acquire_read_slot / slot_info
    ridx,        \* its local i, later the slot_index it holds
    rinfo,       \* what slot_info has loaded
    rtodo,       \* what it has still to load
    crashes,     \* number of callers that died
    steady,      \* history: the slots that have suited an actor's call
                 \* ever since the call began
    rival,       \* history: a writer's loop was cut short on the ring by
                 \* another writer's fetch_add, or by the cursor's wrap
    overtaken,   \* history: metadata of the slot may belong to another frame
    raced        \* history: a reader took a slot with unsettled metadata

ringVars == <<state, frame, writeCursor>>
writerVars == <<wpc, widx, wleft, wframe, wtodo>>
readerVars == <<rpc, ridx, rinfo, rtodo>>
vars == <<state, info, frame, writeCursor, wpc, widx, wleft, wframe, wtodo,
          rpc, ridx, rinfo, rtodo, crashes, steady, rival, overtaken, raced>>

-----------------------------------------------------------------------------
Blank == [fld \in Fields |-> NoFrame]

Init ==
    /\ state = [s \in Slots |-> "Free"]
    /\ info = [s \in Slots |-> Blank]
    /\ frame = [s \in Slots |-> NoFrame]
    /\ writeCursor = 0
    /\ wpc = [w \in Writers |-> "idle"]
    /\ widx = [w \in Writers |-> 0]
    /\ wleft = [w \in Writers |-> 0]
    /\ wframe = [w \in Writers |-> NoFrame]
    /\ wtodo = [w \in Writers |-> {}]
    /\ rpc = [r \in Readers |-> "idle"]
    /\ ridx = [r \in Readers |-> 0]
    /\ rinfo = [r \in Readers |-> Blank]
    /\ rtodo = [r \in Readers |-> {}]
    /\ crashes = 0
    /\ steady = [a \in Actors |-> {}]
    /\ rival = [w \in Writers |-> FALSE]
    /\ overtaken = [s \in Slots |-> FALSE]
    /\ raced = [r \in Readers |-> FALSE]

(***************************************************************************)
(* The decisions the actions below are built from.  The definitions marked *)
(* mutant are what a bug would make of the one that follows them; no       *)
(* action uses them, they show that the properties notice.                 *)
(***************************************************************************)

\* mutant: the exchange tells only busy from free
TryTransitionIfBusy(s, expected, desired) ==
    /\ (expected = "Free") = (state[s] = "Free")
    /\ state' = [state EXCEPT ![s] = desired]

\* try_transition: one compare_exchange that succeeds.
TryTransition(s, expected, desired) ==
    /\ state[s] = expected
    /\ state' = [state EXCEPT ![s] = desired]

\* write_cursor.fetch_add(1)
Advance(c) == (c + 1) % CursorModulus

\* mutant: one iteration too few
AttemptsShort == SlotCount - 1

\* for _ in 0..region.slot_count
Attempts == SlotCount

\* mutant: the loop does not count
IterationsLeftStuck(w) == wleft[w]

IterationsLeft(w) == wleft[w] - 1

\* mutants: the scan begins late, or ends early
ScanBeginLate == SlotCount - 1
ScanEndEarly == SlotCount - 2

\* for i in 0..region.slot_count
ScanBegin == 0
ScanEnd == SlotCount - 1

\* mutant: publish_slot returns with stores still to do
AllStoredUnchecked(w) == TRUE

AllStored(w) == wtodo[w] = {}

\* mutants: the slot is not freed, or is offered once more
AfterReadingKept == "Reading"
AfterReadingRequeued == "Ready"

\* what release_read_slot makes of the slot
AfterReading == "Free"

\* The writers that are still storing metadata of slot s.
Stamping(s) == {w \in Writers : wpc[w] = "stamp" /\ widx[w] = s}

-----------------------------------------------------------------------------
(* History of the calls in progress.                                       *)

Wanted(a) == IF a \in Writers THEN "Free" ELSE "Ready"
Suiting(a) == {s \in Slots : state[s] = Wanted(a)}

\* Slots leave an actor's steady set when they change; only names the actor
\* whose call ends with this step.
SteadyAfter(done) ==
    steady' = [a \in Actors |-> IF a \in done THEN {}
                                ELSE {s \in steady[a] : state'[s] = Wanted(a)}]

-----------------------------------------------------------------------------
(* acquire_write_slot                                                      *)

BeginWrite(w) ==
    /\ wpc[w] = "idle"
    /\ wpc' = [wpc EXCEPT ![w] = "probe"]
    /\ wleft' = [wleft EXCEPT ![w] = Attempts]
    /\ steady' = [steady EXCEPT ![w] = Suiting(w)]
    /\ rival' = [rival EXCEPT ![w] = FALSE]
    /\ UNCHANGED <<ringVars, info, widx, wframe, wtodo, readerVars, crashes,
                   overtaken, raced>>

WrapsAskew(c) == Advance(c) = 0 /\ CursorModulus % SlotCount # 0

FetchCursor(w) ==
    /\ wpc[w] = "probe"
    /\ wpc' = [wpc EXCEPT ![w] = "cas"]
    /\ widx' = [widx EXCEPT ![w] = writeCursor % SlotCount]
    /\ writeCursor' = Advance(writeCursor)
    /\ rival' = [v \in Writers |->
                   \/ rival[v]
                   \/ v # w /\ wpc[v] \in {"probe", "cas"}
                   \/ wpc[v] \in {"probe", "cas"} /\ WrapsAskew(writeCursor)]
    /\ UNCHANGED <<state, info, frame, wleft, wframe, wtodo, readerVars,
                   crashes, steady, overtaken, raced>>

\* The slot is ours: Some(idx).
ClaimSlot(w) ==
    /\ wpc[w] = "cas"
    /\ TryTransition(widx[w], "Free", "Writing")
    /\ wpc' = [wpc EXCEPT ![w] = "fill"]
    /\ wleft' = [wleft EXCEPT ![w] = 0]
    /\ SteadyAfter({w})
    /\ UNCHANGED <<info, frame, writeCursor, widx, wframe, wtodo, readerVars,
                   crashes, rival, overtaken, raced>>

\* The compare_exchange failed: the next iteration, or None after the last.
SkipSlot(w) ==
    /\ wpc[w] = "cas"
    /\ state[widx[w]] # "Free"
    /\ wleft' = [wleft EXCEPT ![w] = IterationsLeft(w)]
    /\ wpc' = [wpc EXCEPT ![w] = IF IterationsLeft(w) = 0 THEN "none" ELSE "probe"]
    /\ widx' = [widx EXCEPT ![w] = 0]
    /\ UNCHANGED <<ringVars, info, wframe, wtodo, readerVars, crashes, steady,
                   rival, overtaken, raced>>

\* The caller got None and goes on without a slot.
DropFrame(w) ==
    /\ wpc[w] = "none"
    /\ wpc' = [wpc EXCEPT ![w] = "idle"]
    /\ steady' = [steady EXCEPT ![w] = {}]
    /\ rival' = [rival EXCEPT ![w] = FALSE]
    /\ UNCHANGED <<ringVars, info, widx, wleft, wframe, wtodo, readerVars,
                   crashes, overtaken, raced>>

-----------------------------------------------------------------------------
(* publish_slot: the slot is Ready first, its metadata follow.             *)

Publish(w, f) ==
    /\ wpc[w] = "fill"
    /\ TryTransition(widx[w], "Writing", "Ready")
    /\ frame' = [frame EXCEPT ![widx[w]] = f]
    /\ wpc' = [wpc EXCEPT ![w] = "stamp"]
    /\ wframe' = [wframe EXCEPT ![w] = f]
    /\ wtodo' = [wtodo EXCEPT ![w] = Fields]
    /\ SteadyAfter({})
    /\ rival' = [rival EXCEPT ![w] = FALSE]
    /\ overtaken' = [overtaken EXCEPT ![widx[w]] = Stamping(widx[w]) # {}]
    /\ UNCHANGED <<info, writeCursor, widx, wleft, readerVars, crashes, raced>>

\* One of the plain stores; after the last one the call returns true.
Stamp(w, fld) ==
    /\ wpc[w] = "stamp"
    /\ fld \in wtodo[w]
    /\ info' = [info EXCEPT ![widx[w]][fld] = wframe[w]]
    /\ wtodo' = [wtodo EXCEPT ![w] = @ \ {fld}]
    /\ UNCHANGED <<ringVars, wpc, widx, wleft, wframe, readerVars, crashes,
                   steady, rival, overtaken, raced>>

PublishReturns(w) ==
    /\ wpc[w] = "stamp"
    /\ AllStored(w)
    /\ wpc' = [wpc EXCEPT ![w] = "idle"]
    /\ widx' = [widx EXCEPT ![w] = 0]
    /\ wframe' = [wframe EXCEPT ![w] = NoFrame]
    /\ UNCHANGED <<ringVars, info, wleft, wtodo, readerVars, crashes, steady,
                   rival, overtaken, raced>>

-----------------------------------------------------------------------------
(* acquire_read_slot, and wait_for_ready which repeats it                  *)

BeginRead(r) ==
    /\ rpc[r] = "idle"
    /\ rpc' = [rpc EXCEPT ![r] = "scan"]
    /\ ridx' = [ridx EXCEPT ![r] = ScanBegin]
    /\ steady' = [steady EXCEPT ![r] = Suiting(r)]
    /\ UNCHANGED <<ringVars, info, writerVars, rinfo, rtodo, crashes, rival,
                   overtaken, raced>>

TakeSlot(r) ==
    /\ rpc[r] = "scan"
    /\ TryTransition(ridx[r], "Ready", "Reading")
    /\ rpc' = [rpc EXCEPT ![r] = "hold"]
    /\ rtodo' = [rtodo EXCEPT ![r] = Fields]
    /\ SteadyAfter({r})
    /\ raced' = [raced EXCEPT ![r] = \/ overtaken[ridx[r]]
                                     \/ Stamping(ridx[r]) # {}]
    /\ UNCHANGED <<info, frame, writeCursor, writerVars, ridx, rinfo, crashes,
                   rival, overtaken>>

PassSlot(r) ==
    /\ rpc[r] = "scan"
    /\ state[ridx[r]] # "Ready"
    /\ IF ridx[r] = ScanEnd
         THEN /\ rpc' = [rpc EXCEPT ![r] = "none"]
              /\ ridx' = [ridx EXCEPT ![r] = 0]
         ELSE /\ ridx' = [ridx EXCEPT ![r] = @ + 1]
              /\ UNCHANGED rpc
    /\ UNCHANGED <<ringVars, info, writerVars, rinfo, rtodo, crashes, steady,
                   rival, overtaken, raced>>

\* acquire_read_slot returns None, or wait_for_ready's timeout has elapsed.
GiveUp(r) ==
    /\ rpc[r] = "none"
    /\ rpc' = [rpc EXCEPT ![r] = "idle"]
    /\ steady' = [steady EXCEPT ![r] = {}]
    /\ UNCHANGED <<ringVars, info, writerVars, ridx, rinfo, rtodo, crashes,
                   rival, overtaken, raced>>

\* wait_for_ready has time left: it sleeps and scans again from slot 0.
ScanAgain(r) ==
    /\ rpc[r] = "none"
    /\ rpc' = [rpc EXCEPT ![r] = "scan"]
    /\ steady' = [steady EXCEPT ![r] = Suiting(r)]
    /\ UNCHANGED <<ringVars, info, writerVars, ridx, rinfo, rtodo, crashes,
                   rival, overtaken, raced>>

\* One of the plain loads of slot_info on the slot the reader holds.
LoadInfo(r, fld) ==
    /\ rpc[r] = "hold"
    /\ fld \in rtodo[r]
    /\ rinfo' = [rinfo EXCEPT ![r][fld] = info[ridx[r]][fld]]
    /\ rtodo' = [rtodo EXCEPT ![r] = @ \ {fld}]
    /\ UNCHANGED <<ringVars, info, writerVars, rpc, ridx, crashes, steady,
                   rival, overtaken, raced>>

\* release_read_slot; the reader may or may not have asked for slot_info.
Release(r) ==
    /\ rpc[r] = "hold"
    /\ TryTransition(ridx[r], "Reading", AfterReading)
    /\ rpc' = [rpc EXCEPT ![r] = "idle"]
    /\ ridx' = [ridx EXCEPT ![r] = 0]
    /\ rinfo' = [rinfo EXCEPT ![r] = Blank]
    /\ rtodo' = [rtodo EXCEPT ![r] = {}]
    /\ raced' = [raced EXCEPT ![r] = FALSE]
    /\ SteadyAfter({})
    /\ UNCHANGED <<info, frame, writeCursor, writerVars, crashes, rival,
                   overtaken>>

-----------------------------------------------------------------------------
(* A caller dies wherever it is, and its successor maps the region anew.   *)
(* Nothing in the code looks after the slot the dead caller held.          *)

WriterDies(w) ==
    /\ wpc[w] # "idle"
    /\ crashes < MaxCrashes
    /\ crashes' = crashes + 1
    /\ wpc' = [wpc EXCEPT ![w] = "idle"]
    /\ widx' = [widx EXCEPT ![w] = 0]
    /\ wleft' = [wleft EXCEPT ![w] = 0]
    /\ wframe' = [wframe EXCEPT ![w] = NoFrame]
    /\ wtodo' = [wtodo EXCEPT ![w] = {}]
    /\ overtaken' = [s \in Slots |-> overtaken[s] \/ w \in Stamping(s)]
    /\ rival' = [rival EXCEPT ![w] = FALSE]
    /\ steady' = [steady EXCEPT ![w] = {}]
    /\ UNCHANGED <<ringVars, info, readerVars, raced>>

ReaderDies(r) ==
    /\ rpc[r] # "idle"
    /\ crashes < MaxCrashes
    /\ crashes' = crashes + 1
    /\ rpc' = [rpc EXCEPT ![r] = "idle"]
    /\ ridx' = [ridx EXCEPT ![r] = 0]
    /\ rinfo' = [rinfo EXCEPT ![r] = Blank]
    /\ rtodo' = [rtodo EXCEPT ![r] = {}]
    /\ raced' = [raced EXCEPT ![r] = FALSE]
    /\ steady' = [steady EXCEPT ![r] = {}]
    /\ UNCHANGED <<ringVars, info, writerVars, rival, overtaken>>

-----------------------------------------------------------------------------
WriterStep(w) == \/ BeginWrite(w) \/ FetchCursor(w) \/ ClaimSlot(w)
                 \/ SkipSlot(w) \/ DropFrame(w)
                 \/ \E f \in Frames : Publish(w, f)
                 \/ \E fld \in Fields : Stamp(w, fld)
                 \/ PublishReturns(w)

ReaderStep(r) == \/ BeginRead(r) \/ TakeSlot(r) \/ PassSlot(r)
                 \/ GiveUp(r) \/ ScanAgain(r)
                 \/ \E fld \in Fields : LoadInfo(r, fld)
                 \/ Release(r)

Next == \/ \E w \in Writers : WriterStep(w) \/ WriterDies(w)
        \/ \E r \in Readers : ReaderStep(r) \/ ReaderDies(r)

Spec == Init /\ [][Next]_vars

\* Every living caller keeps running; which call it makes next is its own.
FairSpec == /\ Spec
            /\ \A w \in Writers : WF_vars(WriterStep(w))
            /\ \A r \in Readers : WF_vars(ReaderStep(r))

-----------------------------------------------------------------------------
(* Properties *)

TypeOK ==
    /\ state \in [Slots -> {"Free", "Writing", "Ready", "Reading"}]
    /\ info \in [Slots -> Metadata]
    /\ frame \in [Slots -> Frames \cup {NoFrame}]
    /\ writeCursor \in 0 .. CursorModulus - 1
    /\ wpc \in [Writers -> {"idle", "probe", "cas", "fill", "stamp", "none"}]
    /\ widx \in [Writers -> Slots]
    /\ wleft \in [Writers -> 0 .. SlotCount]
    /\ wframe \in [Writers -> Frames \cup {NoFrame}]
    /\ wtodo \in [Writers -> SUBSET Fields]
    /\ rpc \in [Readers -> {"idle", "scan", "hold", "none"}]
    /\ ridx \in [Readers -> Slots]
    /\ rinfo \in [Readers -> Metadata]
    /\ rtodo \in [Readers -> SUBSET Fields]
    /\ crashes \in 0 .. MaxCrashes
    /\ steady \in [Actors -> SUBSET Slots]
    /\ rival \in [Writers -> BOOLEAN]
    /\ overtaken \in [Slots -> BOOLEAN]
    /\ raced \in [Readers -> BOOLEAN]

WriterHolds(w, s) == wpc[w] = "fill" /\ widx[w] = s
ReaderHolds(r, s) == rpc[r] = "hold" /\ ridx[r] = s
Holders(s) == {w \in Writers : WriterHolds(w, s)}
              \cup {r \in Readers : ReaderHolds(r, s)}
Leaked(s) == state[s] \in {"Writing", "Reading"} /\ Holders(s) = {}

\* At most one caller, writer or reader, works on the frame of a slot at any
\* time: the four-state compare_exchange protocol is a lock on the slot.
Exclusive == \A s \in Slots : \A a, b \in Holders(s) : a = b

\* A slot stays in the state its holder left it in, whatever the others do: so
\* publish_slot and release_read_slot never return false to the caller that
\* acquired the slot (sync_ring.rs:203 and 230).
HolderKeepsSlot ==
    /\ \A w \in Writers : wpc[w] = "fill" => state[widx[w]] = "Writing"
    /\ \A r \in Readers : rpc[r] = "hold" => state[ridx[r]] = "Reading"

\* acquire_read_slot returns None only if no slot has been Ready all through
\* the call: a frame that waits is not overlooked.
ReadMissIsHonest == \A r \in Readers : rpc[r] = "none" => steady[r] = {}

\* acquire_write_slot returns None only if no slot has been Free all through
\* the call, unless another writer moved the cursor meanwhile or the cursor
\* wrapped at a modulus that slot_count does not divide: then the loop may
\* probe one slot twice and another never, and None is returned with a slot
\* free all along.
WriteMissIsHonest ==
    \A w \in Writers : wpc[w] = "none" /\ ~rival[w] => steady[w] = {}

\* The metadata of a published slot settle on those of its own frame once its
\* publisher is done, unless another publisher of the slot was still storing
\* or died while it stored.
InfoSettles ==
    \A s \in Slots : \A fld \in Fields :
        /\ state[s] \in {"Ready", "Reading"}
        /\ ~overtaken[s]
        /\ \A w \in Stamping(s) : fld \notin wtodo[w]
        => info[s][fld] = frame[s]

\* What slot_info tells the holder of a slot is about the frame it holds,
\* unless the slot was taken while a publisher was still storing metadata
\* or these were left over from such a race.
UnracedReadIsTrue ==
    \A r \in Readers : \A fld \in Fields \ rtodo[r] :
        rpc[r] = "hold" /\ ~raced[r] => rinfo[r][fld] = frame[ridx[r]]

\* Slots are lost only to dead callers, at most one for each.
LeaksAreCrashes == Cardinality({s \in Slots : Leaked(s)}) <= crashes

\* And a slot that is lost stays lost: no call of any other caller, and no
\* restart, gives it back.
LeakIsForever == [][\A s \in Slots : Leaked(s) => Leaked(s)']_vars

\* The ring implements the hand-over of cells: in particular each frame that is
\* published is taken by at most one reader, with the content it was given.
CellHolders == [s \in Slots |-> Holders(s)]
Promise == INSTANCE FrameCells WITH Cells <- Slots, stage <- state,
                                    holder <- CellHolders, content <- frame
ImplementsFrameCells == Promise!Spec

\* Wait-freedom: acquire_write_slot, publish_slot and acquire_read_slot return
\* however the other callers interleave with them.
CallsReturn ==
    /\ \A w \in Writers :
          /\ wpc[w] \in {"probe", "cas"} ~> wpc[w] \in {"fill", "none"}
          /\ wpc[w] = "stamp" ~> wpc[w] = "idle"
    /\ \A r \in Readers : rpc[r] = "scan" ~> rpc[r] \in {"hold", "none"}

\* Every scan begins at slot 0, so a frame in slot 0 is always taken in the
\* end.  (A frame in a later slot need not be: that is no promise of the code.)
FirstSlotIsServed == state[0] = "Ready" ~> state[0] # "Ready"

\* While all callers live and keep calling, frames never stop flowing from
\* writers to readers, although the writers may make one another miss; and slot
\* 0 is served.
FramesFlow ==
    /\ []<>(\E r \in Readers : rpc[r] = "hold")
    /\ FirstSlotIsServed
=============================================================================
