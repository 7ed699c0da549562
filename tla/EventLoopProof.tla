--------------------------- MODULE EventLoopProof ---------------------------
(***************************************************************************)
(* Theorems about EventLoop, for any number of callers, of loop threads,   *)
(* of timers and of places in the table.                                   *)
(***************************************************************************)
EXTENDS EventLoop, SequenceTheorems, FiniteSetTheorems, WellFoundedInduction, TLAPS

\* What a call that is under way is about.
CallsAreAbout ==
    \A c \in Callers :
        /\ cpc[c] \in {"store", "join"} => carg[c] \in Threads
        /\ cpc[c] \in {"register", "unlist"} => carg[c] \in Ids

LoopTypes == TypeOK /\ CallsAreAbout

-----------------------------------------------------------------------------
(* The table                                                               *)

Entries == [id : Ids, active : BOOLEAN]

LEMMA LeastOfNaturals ==
    ASSUME NEW S, S \subseteq Nat, S # {}
    PROVE  \E m \in S : \A k \in S : m <= k
<1> DEFINE R == OpToRel(<, Nat)
<1>1. IsWellFoundedOn(R, Nat)
    BY NatLessThanWellFounded
<1>2. \A j, k \in Nat : j < k => <<j, k>> \in R
    BY DEF OpToRel
<1> HIDE DEF R
<1>3. PICK m \in S : \A k \in S : ~(<<k, m>> \in R)
    BY <1>1, WFMin
<1>4. \A k \in S : m <= k
  <2> SUFFICES ASSUME NEW k \in S PROVE m <= k
      OBVIOUS
  <2>1. k \in Nat /\ m \in Nat
      BY <1>3
  <2>2. ~(<<k, m>> \in R)
      BY <1>3
  <2>3. ~(k < m)
      BY <1>2, <2>1, <2>2, Zenon
  <2>4. QED
      BY <2>1, <2>3
<1>5. QED
    BY <1>3, <1>4

LEMMA TableIsTyped ==
    ASSUME TypeOK
    PROVE  /\ timers \in Seq(Entries) /\ Len(timers) \in Nat /\ Len(timers) <= MaxTimers
           /\ DOMAIN timers = 1 .. Len(timers)
           /\ \A k \in DOMAIN timers : timers[k] \in Entries
<1>1. timers \in Seq(Entries) /\ Len(timers) <= MaxTimers
    BY DEF TypeOK, Entries
<1>2. QED
    BY <1>1, LenProperties, ElementOfSeq

\* A new entry takes the place of no active one.
LEMMA PlacedTable ==
    ASSUME TypeOK, NEW e \in Entries, ~(Len(timers) >= MaxTimers /\ Inactive = {})
    PROVE  /\ Placed(e) \in Seq(Entries) /\ Len(Placed(e)) <= MaxTimers
           /\ \E p \in DOMAIN Placed(e) :
                 /\ Placed(e)[p] = e
                 /\ \A k \in DOMAIN Placed(e) \ {p} :
                       k \in DOMAIN timers /\ Placed(e)[k] = timers[k]
                 /\ \A k \in DOMAIN timers : k # p => k \in DOMAIN Placed(e)
                 /\ p \in DOMAIN timers => ~timers[p].active
<1>1. CASE Inactive = {}
  <2> DEFINE n == Len(timers)
  <2>1. Placed(e) = Append(timers, e) /\ n < MaxTimers /\ n \in Nat
      BY <1>1, TableIsTyped, EventLoopAssumption DEF Placed
  <2>2. /\ Append(timers, e) \in Seq(Entries) /\ Len(Append(timers, e)) = n + 1
        /\ \A k \in 1 .. n : Append(timers, e)[k] = timers[k]
        /\ Append(timers, e)[n + 1] = e
      BY TableIsTyped, AppendProperties
  <2>3. DOMAIN Append(timers, e) = 1 .. n + 1 /\ DOMAIN timers = 1 .. n
      BY <2>2, TableIsTyped, LenProperties
  <2>4. QED
      BY <2>1, <2>2, <2>3, EventLoopAssumption
<1>2. CASE Inactive # {}
  <2>1. Inactive \subseteq Nat /\ Inactive \subseteq DOMAIN timers
      BY TableIsTyped DEF Inactive
  <2> DEFINE p == CHOOSE k \in Inactive : \A j \in Inactive : k <= j
  <2>2. p \in Inactive
      BY <1>2, <2>1, LeastOfNaturals
  <2> HIDE DEF p
  <2>3. Placed(e) = [timers EXCEPT ![p] = e] /\ p \in DOMAIN timers /\ ~timers[p].active
      BY <1>2, <2>1, <2>2 DEF Placed, p, Inactive
  <2>4. /\ [timers EXCEPT ![p] = e] \in Seq(Entries)
        /\ Len([timers EXCEPT ![p] = e]) = Len(timers)
      BY <2>3, TableIsTyped, ExceptSeq
  <2>5. QED
      BY <2>3, <2>4, TableIsTyped
<1>3. QED
    BY <1>1, <1>2

LEMMA DeactivatedTable ==
    ASSUME TypeOK, NEW id \in Ids
    PROVE  /\ Deactivated(id) \in Seq(Entries) /\ Len(Deactivated(id)) <= MaxTimers
           /\ DOMAIN Deactivated(id) = DOMAIN timers
           /\ \A k \in DOMAIN timers :
                 /\ Deactivated(id)[k].id = timers[k].id
                 /\ Deactivated(id)[k].active = (timers[k].active /\ timers[k].id # id)
<1> DEFINE s == Deactivated(id)
<1>1. /\ DOMAIN s = 1 .. Len(timers)
      /\ \A k \in DOMAIN timers :
            s[k] = IF timers[k].id = id THEN [timers[k] EXCEPT !.active = FALSE] ELSE timers[k]
    BY TableIsTyped DEF Deactivated
<1>2. \A k \in DOMAIN timers :
         /\ s[k] \in Entries /\ s[k].id = timers[k].id
         /\ s[k].active = (timers[k].active /\ timers[k].id # id)
    BY <1>1, TableIsTyped DEF Entries
<1>3. s \in Seq(Entries) /\ Len(s) = Len(timers)
  <2>1. s = [k \in 1 .. Len(timers) |-> s[k]]
      BY TableIsTyped DEF Deactivated
  <2>2. s \in [1 .. Len(timers) -> Entries]
      BY <1>2, <2>1, TableIsTyped
  <2>3. QED
      BY <2>1, <2>2, TableIsTyped, SeqDef, LenProperties
<1>4. QED
    BY <1>1, <1>2, <1>3, TableIsTyped

-----------------------------------------------------------------------------
(* Types                                                                   *)

LEMMA LoopTypesInit == Init => LoopTypes
<1> SUFFICES ASSUME Init PROVE LoopTypes
    OBVIOUS
<1>1. timers \in Seq(Entries) /\ Len(timers) = 0
    BY EmptySeq DEF Init
<1>2. 1 \in 1 .. MaxIds + 1 /\ 0 <= MaxTimers
    BY EventLoopAssumption
<1>3. QED
    BY <1>1, <1>2 DEF Init, LoopTypes, TypeOK, CallsAreAbout, Entries

LEMMA LoopTypesNext == LoopTypes /\ [Next]_vars => LoopTypes'
<1> SUFFICES ASSUME LoopTypes, [Next]_vars PROVE LoopTypes'
    OBVIOUS
<1> USE DEF LoopTypes, TypeOK, CallsAreAbout
<1>1. CASE \E c \in Callers : CallBegins(c)
  <2>1. PICK c \in Callers : CallBegins(c)
      BY <1>1
  <2>2. CASE StartSwaps(c)
      BY <2>2 DEF StartSwaps, Goes, Overlaps, timerVars
  <2>3. CASE StopSwaps(c)
      BY <2>3 DEF StopSwaps, Goes, Overlaps, timerVars
  <2>4. CASE Lists(c)
    <3>1. nextId \in Ids /\ nextId + 1 \in 1 .. MaxIds + 1
        BY <2>4, EventLoopAssumption DEF Lists, Ids
    <3>2. timers' \in Seq(Entries) /\ Len(timers') <= MaxTimers
        BY <2>4, <3>1, PlacedTable DEF Lists, Entries
    <3>3. QED
        BY <2>4, <3>1, <3>2 DEF Lists, Goes, loopVars, Entries
  <2>5. CASE \E id \in Ids : Unregisters(c, id)
      BY <2>5 DEF Unregisters, Unregistered, Goes, loopVars
  <2>6. QED
      BY <2>1, <2>2, <2>3, <2>4, <2>5 DEF CallBegins
<1>2. CASE \E c \in Callers : CallGoesOn(c)
  <2>1. PICK c \in Callers : CallGoesOn(c)
      BY <1>2
  <2>2. CASE \E t \in Threads : Spawns(c, t)
      BY <2>2 DEF Spawns, Goes, timerVars
  <2>3. CASE StoresHandle(c)
      BY <2>3 DEF StoresHandle, Goes, timerVars
  <2>4. CASE TakesNothing(c)
      BY <2>4 DEF TakesNothing, Goes, loopVars, timerVars
  <2>5. CASE TakesHandle(c)
      BY <2>5 DEF TakesHandle, Goes, timerVars
  <2>6. CASE Joins(c)
      BY <2>6 DEF Joins, Goes, timerVars
  <2>7. CASE Registers(c)
      BY <2>7 DEF Registers, Goes, loopVars
  <2>8. CASE RegisterFails(c)
    <3>1. carg[c] \in Ids /\ timers' = Deactivated(carg[c])
        BY <2>8 DEF RegisterFails, AfterRefusal
    <3>2. timers' \in Seq(Entries) /\ Len(timers') <= MaxTimers
        BY <3>1, DeactivatedTable
    <3>3. QED
        BY <2>8, <3>2 DEF RegisterFails, Goes, loopVars, Entries
  <2>9. CASE Unlists(c)
    <3>1. carg[c] \in Ids /\ timers' = Deactivated(carg[c])
        BY <2>9 DEF Unlists
    <3>2. timers' \in Seq(Entries) /\ Len(timers') <= MaxTimers
        BY <3>1, DeactivatedTable
    <3>3. QED
        BY <2>9, <3>1, <3>2 DEF Unlists, Goes, loopVars, Entries
  <2>10. QED
      BY <2>1, <2>2, <2>3, <2>4, <2>5, <2>6, <2>7, <2>8, <2>9 DEF CallGoesOn
<1>3. CASE \E t \in Threads : ThreadGoesOn(t)
  <2>1. PICK t \in Threads : ThreadGoesOn(t)
      BY <1>3
  <2>2. CASE ChecksFlag(t)
      BY <2>2 DEF ChecksFlag, GoesOn, timerVars
  <2>3. CASE Fetches(t)
      BY <2>3 DEF Fetches, After
  <2>4. CASE CallbackReturns(t)
      BY <2>4 DEF CallbackReturns, After, timerVars
  <2>5. CASE CallsBack(t)
      BY <2>5 DEF CallsBack, timerVars
  <2>6. CASE \E id \in Ids : Finds(t, id)
      BY <2>6 DEF Finds, timerVars
  <2>7. CASE \E id \in Ids : Ignores(t, id)
      BY <2>7 DEF Ignores, After, timerVars
  <2>8. QED
      BY <2>1, <2>2, <2>3, <2>4, <2>5, <2>6, <2>7 DEF ThreadGoesOn
<1>4. CASE \E id \in Ids : Fires(id)
    BY <1>4 DEF Fires, loopVars
<1>5. CASE UNCHANGED vars
    BY <1>5 DEF vars
<1>6. QED
    BY <1>1, <1>2, <1>3, <1>4, <1>5 DEF Next

\* The types of every reachable state; no constant is fixed.
THEOREM LoopIsTyped == Spec => []TypeOK
<1>1. LoopTypes => TypeOK
    BY DEF LoopTypes
<1>2. QED
    BY <1>1, LoopTypesInit, LoopTypesNext, PTL DEF Spec

-----------------------------------------------------------------------------
(* The thread: where a start or a stop is decides who is looping.          *)

OneSwitches == \A c, d \in Switching : c = d

AtRest ==
    Switching = {} =>
        /\ running => handle \in Looping /\ Looping \subseteq {handle}
        /\ ~running => handle = Nobody /\ Looping = {}

Starting ==
    \A c \in Callers :
        /\ cpc[c] = "spawn" => running /\ handle = Nobody /\ Looping = {}
        /\ cpc[c] = "store" => running /\ handle = Nobody /\ Looping = {carg[c]}

Stopping ==
    \A c \in Callers :
        /\ cpc[c] = "take" => ~running /\ handle # Nobody /\ Looping \subseteq {handle}
        /\ cpc[c] = "join" => ~running /\ handle = Nobody /\ Looping \subseteq {carg[c]}

LoopOrder == ~overlapped => OneSwitches /\ AtRest /\ Starting /\ Stopping

LEMMA LoopOrderInit == Init => LoopOrder
BY DEF Init, LoopOrder, OneSwitches, AtRest, Starting, Stopping, Switching, Looping

\* A timer call, and a loop thread that goes on looping, change nothing of it.
LEMMA LoopOrderFrame ==
    ASSUME LoopOrder, NEW c,
           UNCHANGED <<running, handle, overlapped>>,
           Looping' = Looping,
           \A d \in Callers : d # c => cpc'[d] = cpc[d] /\ carg'[d] = carg[d],
           cpc[c] \notin {"spawn", "store", "take", "join"},
           cpc'[c] \notin {"spawn", "store", "take", "join"}
    PROVE  LoopOrder'
<1>1. Switching' = Switching
    BY DEF Switching
<1>2. QED
    BY <1>1 DEF LoopOrder, OneSwitches, AtRest, Starting, Stopping

\* The same for steps that no caller takes.
LEMMA LoopOrderThreadFrame ==
    ASSUME LoopOrder, UNCHANGED <<running, handle, overlapped, cpc, carg>>,
           Looping' = Looping
    PROVE  LoopOrder'
BY DEF LoopOrder, OneSwitches, AtRest, Starting, Stopping, Switching

LEMMA LoopOrderNext == LoopTypes /\ LoopOrder /\ [Next]_vars => LoopOrder'
<1> SUFFICES ASSUME LoopTypes, LoopOrder, [Next]_vars PROVE LoopOrder'
    OBVIOUS
<1> DEFINE Order == OneSwitches /\ AtRest /\ Starting /\ Stopping
<1> USE EventLoopAssumption
<1>1. CASE \E c \in Callers : CallBegins(c)
  <2>1. PICK c \in Callers : CallBegins(c)
      BY <1>1
  <2>2. CASE StartSwaps(c)
    <3>1. SUFFICES ASSUME ~overlapped' PROVE Order'
        BY DEF LoopOrder
    <3>2. ~overlapped /\ Switching = {} /\ Order
        BY <2>2, <3>1 DEF StartSwaps, Overlaps, LoopOrder
    <3>3. Switching' = {c}
        BY <2>2, <3>2 DEF StartSwaps, Goes, Switching, LoopTypes, TypeOK
    <3>4. running' /\ handle' = Nobody /\ Looping' = {}
        BY <2>2, <3>2 DEF StartSwaps, AtRest, Looping
    <3>5. \A d \in Callers : cpc'[d] \in {"store", "take", "join"} => d \in Switching'
        BY DEF Switching
    <3>6. cpc'[c] = "spawn"
        BY <2>2 DEF StartSwaps, Goes, LoopTypes, TypeOK
    <3>7. QED
        BY <3>3, <3>4, <3>5, <3>6 DEF OneSwitches, AtRest, Starting, Stopping
  <2>3. CASE StopSwaps(c)
    <3>1. SUFFICES ASSUME ~overlapped' PROVE Order'
        BY DEF LoopOrder
    <3>2. ~overlapped /\ Switching = {} /\ Order
        BY <2>3, <3>1 DEF StopSwaps, Overlaps, LoopOrder
    <3>3. Switching' = {c}
        BY <2>3, <3>2 DEF StopSwaps, Goes, Switching, LoopTypes, TypeOK
    <3>4. ~running' /\ handle' \in Threads /\ Looping' \subseteq {handle'}
        BY <2>3, <3>2 DEF StopSwaps, AtRest, Looping
    <3>5. \A d \in Callers : cpc'[d] \in {"spawn", "store", "join"} => d \in Switching'
        BY DEF Switching
    <3>6. cpc'[c] = "take"
        BY <2>3 DEF StopSwaps, Goes, LoopTypes, TypeOK
    <3>7. QED
        BY <3>3, <3>4, <3>5, <3>6 DEF OneSwitches, AtRest, Starting, Stopping
  <2>4. CASE Lists(c) \/ \E id \in Ids : Unregisters(c, id)
    <3>1. /\ UNCHANGED <<running, handle, overlapped>> /\ Looping' = Looping
          /\ cpc[c] = "idle" /\ cpc'[c] \in {"register", "unlist"}
          /\ \A d \in Callers : d # c => cpc'[d] = cpc[d] /\ carg'[d] = carg[d]
        BY <2>4 DEF Lists, Unregisters, Goes, loopVars, Looping, LoopTypes, TypeOK
    <3>2. QED
        BY <3>1, LoopOrderFrame
  <2>5. QED
      BY <2>1, <2>2, <2>3, <2>4 DEF CallBegins
<1>2. CASE \E c \in Callers : CallGoesOn(c)
  <2>1. PICK c \in Callers : CallGoesOn(c)
      BY <1>2
  <2>2. CASE \E t \in Threads : Spawns(c, t)
    <3>1. PICK t \in Threads : Spawns(c, t)
        BY <2>2
    <3>2. SUFFICES ASSUME ~overlapped' PROVE Order'
        BY DEF LoopOrder
    <3>3. Order /\ cpc[c] = "spawn" /\ c \in Switching
        BY <3>1, <3>2 DEF Spawns, LoopOrder, Switching
    <3>4. cpc'[c] = "store" /\ carg'[c] = t
        BY <3>1 DEF Spawns, Goes, LoopTypes, TypeOK
    <3>5. \A d \in Callers : d # c => cpc'[d] = cpc[d] /\ d \notin Switching
        BY <3>1, <3>3 DEF Spawns, Goes, OneSwitches, LoopTypes, TypeOK
    <3>6. Switching' = {c}
        BY <3>4, <3>5 DEF Switching
    <3>7. running' /\ handle' = Nobody /\ Looping' = {t}
        BY <3>1, <3>3 DEF Spawns, Starting, Looping, LoopTypes, TypeOK
    <3>8. QED
        BY <3>4, <3>5, <3>6, <3>7 DEF OneSwitches, AtRest, Starting, Stopping, Switching
  <2>3. CASE StoresHandle(c)
    <3>2. SUFFICES ASSUME ~overlapped' PROVE Order'
        BY DEF LoopOrder
    <3>3. Order /\ cpc[c] = "store" /\ c \in Switching
        BY <2>3, <3>2 DEF StoresHandle, LoopOrder, Switching
    <3>4. cpc'[c] = "idle"
        BY <2>3 DEF StoresHandle, Goes, LoopTypes, TypeOK
    <3>5. \A d \in Callers : d # c => cpc'[d] = cpc[d] /\ d \notin Switching
        BY <2>3, <3>3 DEF StoresHandle, Goes, OneSwitches, LoopTypes, TypeOK
    <3>6. Switching' = {}
        BY <3>4, <3>5 DEF Switching
    <3>7. running' /\ handle' = carg[c] /\ Looping' = {carg[c]}
        BY <2>3, <3>3 DEF StoresHandle, Starting, Looping
    <3>8. QED
        BY <3>4, <3>5, <3>6, <3>7 DEF OneSwitches, AtRest, Starting, Stopping, Switching
  <2>4. CASE TakesNothing(c)
    <3>1. cpc[c] = "take" /\ handle = Nobody /\ overlapped' = overlapped
        BY <2>4 DEF TakesNothing
    <3>2. QED
        BY <3>1 DEF LoopOrder, Stopping
  <2>5. CASE TakesHandle(c)
    <3>2. SUFFICES ASSUME ~overlapped' PROVE Order'
        BY DEF LoopOrder
    <3>3. Order /\ cpc[c] = "take" /\ c \in Switching
        BY <2>5, <3>2 DEF TakesHandle, LoopOrder, Switching
    <3>4. cpc'[c] = "join" /\ carg'[c] = handle
        BY <2>5 DEF TakesHandle, Goes, LoopTypes, TypeOK
    <3>5. \A d \in Callers : d # c => cpc'[d] = cpc[d] /\ d \notin Switching
        BY <2>5, <3>3 DEF TakesHandle, Goes, OneSwitches, LoopTypes, TypeOK
    <3>6. Switching' = {c}
        BY <3>4, <3>5 DEF Switching
    <3>7. ~running' /\ handle' = Nobody /\ Looping' \subseteq {handle}
        BY <2>5, <3>3 DEF TakesHandle, Stopping, Looping
    <3>8. QED
        BY <3>4, <3>5, <3>6, <3>7 DEF OneSwitches, AtRest, Starting, Stopping, Switching
  <2>6. CASE Joins(c)
    <3>2. SUFFICES ASSUME ~overlapped' PROVE Order'
        BY DEF LoopOrder
    <3>3. Order /\ cpc[c] = "join" /\ c \in Switching
        BY <2>6, <3>2 DEF Joins, LoopOrder, Switching
    <3>4. cpc'[c] = "idle"
        BY <2>6 DEF Joins, Goes, LoopTypes, TypeOK
    <3>5. \A d \in Callers : d # c => cpc'[d] = cpc[d] /\ d \notin Switching
        BY <2>6, <3>3 DEF Joins, Goes, OneSwitches, LoopTypes, TypeOK
    <3>6. Switching' = {}
        BY <3>4, <3>5 DEF Switching
    <3>7. ~running' /\ handle' = Nobody /\ Looping' = {}
        BY <2>6, <3>3 DEF Joins, HasEnded, Stopping, Looping
    <3>8. QED
        BY <3>4, <3>5, <3>6, <3>7 DEF OneSwitches, AtRest, Starting, Stopping, Switching
  <2>7. CASE Registers(c) \/ RegisterFails(c) \/ Unlists(c)
    <3>1. /\ UNCHANGED <<running, handle, overlapped>> /\ Looping' = Looping
          /\ cpc[c] \in {"register", "unlist"} /\ cpc'[c] = "idle"
          /\ \A d \in Callers : d # c => cpc'[d] = cpc[d] /\ carg'[d] = carg[d]
        BY <2>7 DEF Registers, RegisterFails, Unlists, Goes, loopVars, Looping,
                    LoopTypes, TypeOK
    <3>2. QED
        BY <3>1, LoopOrderFrame
  <2>8. QED
      BY <2>1, <2>2, <2>3, <2>4, <2>5, <2>6, <2>7 DEF CallGoesOn
<1>3. CASE \E t \in Threads : ThreadGoesOn(t)
  <2>1. PICK t \in Threads : ThreadGoesOn(t)
      BY <1>3
  <2>2. CASE ChecksFlag(t) /\ running
    <3>1. Looping' = Looping /\ UNCHANGED <<running, handle, overlapped, cpc, carg>>
        BY <2>2 DEF ChecksFlag, GoesOn, Looping, LoopTypes, TypeOK
    <3>2. QED
        BY <3>1, LoopOrderThreadFrame
  <2>3. CASE ChecksFlag(t) /\ ~running
    <3>1. Looping' \subseteq Looping /\ UNCHANGED <<running, handle, overlapped, cpc, carg>>
        BY <2>3 DEF ChecksFlag, GoesOn, Looping, LoopTypes, TypeOK
    <3>2. Switching' = Switching
        BY <3>1 DEF Switching
    <3>3. QED
        BY <2>3, <3>1, <3>2 DEF LoopOrder, OneSwitches, AtRest, Starting, Stopping
  <2>4. CASE Fetches(t) \/ CallsBack(t) \/ CallbackReturns(t)
             \/ \E id \in Ids : Finds(t, id) \/ Ignores(t, id)
    <3>1. Looping' = Looping /\ UNCHANGED <<running, handle, overlapped, cpc, carg>>
        BY <2>4 DEF Fetches, CallbackReturns, CallsBack, Finds, Ignores, After, Looping,
                    LoopTypes, TypeOK
    <3>2. QED
        BY <3>1, LoopOrderThreadFrame
  <2>5. QED
      BY <2>1, <2>2, <2>3, <2>4 DEF ThreadGoesOn
<1>4. CASE \E id \in Ids : Fires(id)
  <2>1. Looping' = Looping /\ UNCHANGED <<running, handle, overlapped, cpc, carg>>
      BY <1>4 DEF Fires, loopVars, Looping
  <2>2. QED
      BY <2>1, LoopOrderThreadFrame
<1>5. CASE UNCHANGED vars
  <2>1. Looping' = Looping /\ UNCHANGED <<running, handle, overlapped, cpc, carg>>
      BY <1>5 DEF vars, Looping
  <2>2. QED
      BY <2>1, LoopOrderThreadFrame
<1>6. QED
    BY <1>1, <1>2, <1>3, <1>4, <1>5 DEF Next

LEMMA OneLooperAtMost ==
    ASSUME LoopTypes, LoopOrder, ~overlapped
    PROVE  \E t : Looping \subseteq {t}
<1>1. CASE Switching = {}
    BY <1>1 DEF LoopOrder, AtRest
<1>2. CASE Switching # {}
    BY <1>2 DEF LoopOrder, Switching, Starting, Stopping
<1>3. QED
    BY <1>1, <1>2

LEMMA LoopOrderSuffices == LoopTypes /\ LoopOrder => StopEndsTheLoop
<1> SUFFICES ASSUME LoopTypes, LoopOrder, ~overlapped
             PROVE  /\ Cardinality(Looping) <= 1
                    /\ ~running /\ Switching = {} => Looping = {}
                    /\ running /\ Switching = {} => handle \in Looping
    BY DEF StopEndsTheLoop
<1>1. PICK t : Looping \subseteq {t}
    BY OneLooperAtMost
<1>2. Looping = {} \/ Looping = {t}
    BY <1>1
<1>3. Cardinality(Looping) <= 1
  <2>1. CASE Looping = {}
    <3>1. Cardinality(Looping) = 0
        BY <2>1, FS_EmptySet, Zenon
    <3>2. QED
        BY <3>1
  <2>2. CASE Looping = {t}
    <3>1. Cardinality(Looping) = 1
        BY <2>2, FS_Singleton, Zenon
    <3>2. QED
        BY <3>1
  <2>3. QED
      BY <1>2, <2>1, <2>2
<1>4. QED
    BY <1>3 DEF LoopOrder, AtRest

\* Unless a start or a stop took effect during another one, there is at most one
\* loop thread, none is left once stop has returned, and a running loop has its
\* handle: in the order in which the flag, the thread and the handle change.
THEOREM StopEnds == Spec => []StopEndsTheLoop
<1>1. Init => LoopTypes /\ LoopOrder
    BY LoopTypesInit, LoopOrderInit
<1>2. LoopTypes /\ LoopOrder /\ [Next]_vars => (LoopTypes /\ LoopOrder)'
    BY LoopTypesNext, LoopOrderNext
<1>3. QED
    BY <1>1, <1>2, LoopOrderSuffices, PTL DEF Spec

-----------------------------------------------------------------------------
(* The table and the kernel                                                *)

InTimerCall(c) == cpc[c] \in {"register", "unlist"}

HasActive(id) == \E k \in DOMAIN timers : timers[k].active /\ timers[k].id = id

\* A timer that a call is about is not the kernel's, and no other call's.
CallsOwnTheirTimers ==
    \A c \in Callers : InTimerCall(c) =>
        /\ carg[c] < nextId /\ carg[c] \notin kernel
        /\ cpc[c] = "register" => carg[c] \notin removed /\ HasActive(carg[c])
        /\ \A d \in Callers : InTimerCall(d) /\ carg[d] = carg[c] => d = c

IdsAreFresh == /\ \A k \in DOMAIN timers : timers[k].id < nextId
               /\ \A j, k \in DOMAIN timers : timers[j].id = timers[k].id => j = k

KernelIsListed == \A i \in kernel : HasActive(i)

ActiveIsKnown ==
    \A k \in DOMAIN timers : timers[k].active =>
        \/ timers[k].id \in kernel
        \/ \E c \in Callers : InTimerCall(c) /\ carg[c] = timers[k].id

RemovedIsGone == \A i \in removed : i < nextId /\ i \notin kernel

TableInv == CallsOwnTheirTimers /\ IdsAreFresh /\ KernelIsListed /\ ActiveIsKnown
            /\ RemovedIsGone

LEMMA TableInvInit == Init => TableInv
<1> SUFFICES ASSUME Init PROVE TableInv
    OBVIOUS
<1>1. timers = <<>> /\ DOMAIN timers = {}
    BY DEF Init
<1>2. QED
    BY <1>1 DEF Init, TableInv, CallsOwnTheirTimers, IdsAreFresh, KernelIsListed,
                ActiveIsKnown, RemovedIsGone, InTimerCall

\* Steps that leave the table, the kernel and the timer calls alone.
LEMMA TableInvFrame ==
    ASSUME TableInv, UNCHANGED <<timers, nextId, kernel, removed>>,
           \A c \in Callers : InTimerCall(c) \/ InTimerCall(c)' =>
               cpc'[c] = cpc[c] /\ carg'[c] = carg[c]
    PROVE  TableInv'
<1>1. \A c \in Callers : InTimerCall(c)' <=> InTimerCall(c)
    BY DEF InTimerCall
<1>2. \A i : HasActive(i)' <=> HasActive(i)
    BY DEF HasActive
<1>3. CallsOwnTheirTimers'
    BY <1>1, <1>2 DEF TableInv, CallsOwnTheirTimers
<1>4. ActiveIsKnown'
    BY <1>1 DEF TableInv, ActiveIsKnown
<1>5. QED
    BY <1>2, <1>3, <1>4 DEF TableInv, IdsAreFresh, KernelIsListed, RemovedIsGone

LEMMA ListsKeepsTable ==
    ASSUME LoopTypes, TableInv, NEW c \in Callers, Lists(c)
    PROVE  TableInv'
<1> DEFINE e == [id |-> nextId, active |-> TRUE]
<1>1. /\ nextId \in Ids /\ nextId' = nextId + 1 /\ timers' = Placed(e)
      /\ UNCHANGED <<kernel, removed>> /\ cpc[c] = "idle" /\ ~InTimerCall(c)
      /\ cpc'[c] = "register" /\ carg'[c] = nextId
      /\ \A d \in Callers : d # c => cpc'[d] = cpc[d] /\ carg'[d] = carg[d]
    BY EventLoopAssumption
       DEF Lists, Goes, loopVars, Ids, InTimerCall, LoopTypes, TypeOK
<1>2. e \in Entries /\ e.id = nextId /\ e.active
    BY <1>1 DEF Entries
<1> HIDE DEF e
<1>3. PICK p \in DOMAIN timers' :
          /\ timers'[p] = e
          /\ \A k \in DOMAIN timers' \ {p} : k \in DOMAIN timers /\ timers'[k] = timers[k]
          /\ \A k \in DOMAIN timers : k # p => k \in DOMAIN timers'
          /\ p \in DOMAIN timers => ~timers[p].active
  <2>1. TypeOK /\ ~(Len(timers) >= MaxTimers /\ Inactive = {})
      BY DEF LoopTypes, Lists
  <2>2. QED
      BY <1>1, <1>2, <2>1, PlacedTable
<1>4. HasActive(carg[c])' /\ \A i : HasActive(i) => HasActive(i)'
  <2>1. HasActive(carg[c])'
      BY <1>1, <1>2, <1>3 DEF HasActive
  <2>2. ASSUME NEW i, HasActive(i) PROVE HasActive(i)'
      BY <1>3, <2>2 DEF HasActive
  <2>3. QED
      BY <2>1, <2>2
<1>5. /\ \A k \in DOMAIN timers : timers[k].id \in Nat /\ timers[k].id < nextId
      /\ nextId \in Nat
    BY <1>1, TableIsTyped DEF TableInv, IdsAreFresh, LoopTypes, Entries, Ids
<1>6. nextId \notin kernel /\ nextId \notin removed
  <2>1. ~HasActive(nextId)
      BY <1>5 DEF HasActive
  <2>2. QED
      BY <1>5, <2>1 DEF TableInv, KernelIsListed, RemovedIsGone
<1>7. \A d \in Callers : d # c => (InTimerCall(d)' <=> InTimerCall(d))
    BY <1>1 DEF InTimerCall
<1>8. \A d \in Callers : InTimerCall(d) => carg[d] \in Nat /\ carg[d] < nextId
    BY DEF InTimerCall, TableInv, CallsOwnTheirTimers, LoopTypes, CallsAreAbout, Ids
<1>9. CallsOwnTheirTimers'
    BY <1>1, <1>4, <1>5, <1>6, <1>7, <1>8 DEF TableInv, CallsOwnTheirTimers
<1>10. IdsAreFresh'
    BY <1>1, <1>2, <1>3, <1>5 DEF TableInv, IdsAreFresh
<1>11. ActiveIsKnown'
  <2> SUFFICES ASSUME NEW k \in DOMAIN timers', timers'[k].active
               PROVE  \/ timers'[k].id \in kernel'
                      \/ \E d \in Callers : InTimerCall(d)' /\ carg'[d] = timers'[k].id
      BY DEF ActiveIsKnown
  <2>1. CASE k = p
      BY <1>1, <1>2, <1>3, <2>1 DEF InTimerCall
  <2>2. CASE k # p
      BY <1>1, <1>3, <1>7, <2>2 DEF TableInv, ActiveIsKnown
  <2>3. QED
      BY <2>1, <2>2
<1>12. RemovedIsGone'
    BY <1>1, <1>5 DEF TableInv, RemovedIsGone, LoopTypes, TypeOK, Ids
<1>13. QED
    BY <1>1, <1>4, <1>9, <1>10, <1>11, <1>12 DEF TableInv, KernelIsListed

LEMMA RegistersKeepsTable ==
    ASSUME LoopTypes, TableInv, NEW c \in Callers, Registers(c)
    PROVE  TableInv'
<1>1. /\ kernel' = kernel \cup {carg[c]} /\ UNCHANGED <<timers, nextId, removed>>
      /\ InTimerCall(c) /\ ~InTimerCall(c)' /\ cpc[c] = "register"
      /\ \A d \in Callers : d # c => cpc'[d] = cpc[d] /\ carg'[d] = carg[d]
    BY DEF Registers, Goes, loopVars, InTimerCall, LoopTypes, TypeOK
<1>2. /\ carg[c] < nextId /\ carg[c] \notin removed /\ HasActive(carg[c])
      /\ \A d \in Callers : InTimerCall(d) /\ carg[d] = carg[c] => d = c
    BY <1>1 DEF TableInv, CallsOwnTheirTimers
<1>3. \A d \in Callers : d # c => (InTimerCall(d)' <=> InTimerCall(d))
    BY <1>1 DEF InTimerCall
<1>4. \A i : HasActive(i)' <=> HasActive(i)
    BY <1>1 DEF HasActive
<1>5. CallsOwnTheirTimers'
    BY <1>1, <1>2, <1>3, <1>4 DEF TableInv, CallsOwnTheirTimers
<1>6. ActiveIsKnown'
    BY <1>1, <1>3 DEF TableInv, ActiveIsKnown
<1>7. QED
    BY <1>1, <1>2, <1>4, <1>5, <1>6
       DEF TableInv, IdsAreFresh, KernelIsListed, RemovedIsGone

\* add_timer undone, and the second half of remove_timer.
LEMMA DeactivationKeepsTable ==
    ASSUME LoopTypes, TableInv, NEW c \in Callers, InTimerCall(c), ~InTimerCall(c)',
           timers' = Deactivated(carg[c]), UNCHANGED <<nextId, kernel>>,
           removed' = removed \/ removed' = removed \cup {carg[c]},
           \A d \in Callers : d # c => cpc'[d] = cpc[d] /\ carg'[d] = carg[d]
    PROVE  TableInv'
<1>1. /\ carg[c] < nextId /\ carg[c] \notin kernel /\ carg[c] \in Ids
      /\ \A d \in Callers : InTimerCall(d) /\ carg[d] = carg[c] => d = c
    BY DEF TableInv, CallsOwnTheirTimers, LoopTypes, CallsAreAbout, InTimerCall
<1>2. /\ DOMAIN timers' = DOMAIN timers
      /\ \A k \in DOMAIN timers :
            /\ timers'[k].id = timers[k].id
            /\ timers'[k].active <=> timers[k].active /\ timers[k].id # carg[c]
    BY <1>1, DeactivatedTable DEF LoopTypes
<1>3. \A d \in Callers : d # c => (InTimerCall(d)' <=> InTimerCall(d))
    BY DEF InTimerCall
<1>4. \A i : i # carg[c] => (HasActive(i)' <=> HasActive(i))
    BY <1>2 DEF HasActive
<1>5. CallsOwnTheirTimers'
    BY <1>1, <1>3, <1>4 DEF TableInv, CallsOwnTheirTimers
<1>6. IdsAreFresh'
    BY <1>2 DEF TableInv, IdsAreFresh
<1>7. ActiveIsKnown'
    BY <1>2, <1>3 DEF TableInv, ActiveIsKnown
<1>8. QED
    BY <1>1, <1>4, <1>5, <1>6, <1>7 DEF TableInv, KernelIsListed, RemovedIsGone

LEMMA UnregistersKeepsTable ==
    ASSUME LoopTypes, TableInv, NEW c \in Callers, NEW id \in Ids, Unregisters(c, id)
    PROVE  TableInv'
<1>1. /\ kernel' = kernel \ {id} /\ UNCHANGED <<timers, nextId, removed>>
      /\ ~InTimerCall(c) /\ id < nextId /\ \A d \in Callers : carg[d] # id
      /\ cpc'[c] = "unlist" /\ carg'[c] = id
      /\ \A d \in Callers : d # c => cpc'[d] = cpc[d] /\ carg'[d] = carg[d]
    BY DEF Unregisters, Unregistered, Goes, loopVars, InTimerCall, LoopTypes, TypeOK
<1>2. InTimerCall(c)'
    BY <1>1 DEF InTimerCall
<1>3. \A d \in Callers : d # c => (InTimerCall(d)' <=> InTimerCall(d))
    BY <1>1 DEF InTimerCall
<1>4. \A i : HasActive(i)' <=> HasActive(i)
    BY <1>1 DEF HasActive
<1>5. CallsOwnTheirTimers'
    BY <1>1, <1>3, <1>4 DEF TableInv, CallsOwnTheirTimers
<1>6. ActiveIsKnown'
    BY <1>1, <1>2, <1>3 DEF TableInv, ActiveIsKnown
<1>7. QED
    BY <1>1, <1>4, <1>5, <1>6
       DEF TableInv, IdsAreFresh, KernelIsListed, RemovedIsGone

LEMMA TableInvNext == LoopTypes /\ TableInv /\ [Next]_vars => TableInv'
<1> SUFFICES ASSUME LoopTypes, TableInv, [Next]_vars PROVE TableInv'
    OBVIOUS
<1> DEFINE Quiet(c) ==
        /\ UNCHANGED <<timers, nextId, kernel, removed>>
        /\ \A d \in Callers : d # c => cpc'[d] = cpc[d] /\ carg'[d] = carg[d]
        /\ ~InTimerCall(c) /\ ~InTimerCall(c)'
<1>1. CASE \E c \in Callers : CallBegins(c)
  <2>1. PICK c \in Callers : CallBegins(c)
      BY <1>1
  <2>2. CASE StartSwaps(c) \/ StopSwaps(c)
    <3>1. Quiet(c)
        BY <2>2 DEF StartSwaps, StopSwaps, Goes, timerVars, InTimerCall, LoopTypes, TypeOK
    <3>2. QED
        BY <3>1, TableInvFrame
  <2>3. QED
      BY <2>1, <2>2, ListsKeepsTable, UnregistersKeepsTable DEF CallBegins
<1>2. CASE \E c \in Callers : CallGoesOn(c)
  <2>1. PICK c \in Callers : CallGoesOn(c)
      BY <1>2
  <2>2. CASE \/ \E t \in Threads : Spawns(c, t)
             \/ StoresHandle(c) \/ TakesNothing(c) \/ TakesHandle(c) \/ Joins(c)
    <3>1. Quiet(c)
        BY <2>2 DEF Spawns, StoresHandle, TakesNothing, TakesHandle, Joins, Goes,
                    loopVars, timerVars, InTimerCall, LoopTypes, TypeOK
    <3>2. QED
        BY <3>1, TableInvFrame
  <2>3. CASE RegisterFails(c) \/ Unlists(c)
    <3>1. /\ InTimerCall(c) /\ ~InTimerCall(c)'
          /\ timers' = Deactivated(carg[c]) /\ UNCHANGED <<nextId, kernel>>
          /\ removed' = removed \/ removed' = removed \cup {carg[c]}
          /\ \A d \in Callers : d # c => cpc'[d] = cpc[d] /\ carg'[d] = carg[d]
        BY <2>3 DEF RegisterFails, AfterRefusal, Unlists, Goes, loopVars, InTimerCall,
                    LoopTypes, TypeOK
    <3>2. QED
        BY <3>1, DeactivationKeepsTable
  <2>4. QED
      BY <2>1, <2>2, <2>3, RegistersKeepsTable DEF CallGoesOn
<1>3. CASE \E t \in Threads : ThreadGoesOn(t)
  <2>1. UNCHANGED <<timers, nextId, kernel, removed, cpc, carg>>
      BY <1>3 DEF ThreadGoesOn, ChecksFlag, Fetches, CallbackReturns, CallsBack,
                  Finds, Ignores, timerVars
  <2>2. QED
      BY <2>1, TableInvFrame
<1>4. CASE \E id \in Ids : Fires(id)
  <2>1. UNCHANGED <<timers, nextId, kernel, removed, cpc, carg>>
      BY <1>4 DEF Fires
  <2>2. QED
      BY <2>1, TableInvFrame
<1>5. CASE UNCHANGED vars
  <2>1. UNCHANGED <<timers, nextId, kernel, removed, cpc, carg>>
      BY <1>5 DEF vars
  <2>2. QED
      BY <2>1, TableInvFrame
<1>6. QED
    BY <1>1, <1>2, <1>3, <1>4, <1>5 DEF Next

LEMMA TableInvSuffices == TableInv => TableMatchesKernel
<1> SUFFICES ASSUME TableInv, \A c \in Callers : ~InTimerCall(c)
             PROVE  /\ kernel = {timers[k].id : k \in DOMAIN timers \ Inactive}
                    /\ \A j, k \in DOMAIN timers : timers[j].id = timers[k].id => j = k
    BY DEF TableMatchesKernel, InTimerCall
<1>1. \A k \in DOMAIN timers : timers[k].active => timers[k].id \in kernel
    BY DEF TableInv, ActiveIsKnown
<1>2. \A i \in kernel : \E k \in DOMAIN timers : timers[k].active /\ timers[k].id = i
    BY DEF TableInv, KernelIsListed, HasActive
<1>3. QED
    BY <1>1, <1>2 DEF Inactive, TableInv, IdsAreFresh

\* Between the timer calls the kernel has exactly the timers that are active in
\* the table: add_timer and remove_timer do the two halves in opposite orders.
THEOREM TableMatches == Spec => []TableMatchesKernel
<1>1. Init => LoopTypes /\ TableInv
    BY LoopTypesInit, TableInvInit
<1>2. LoopTypes /\ TableInv /\ [Next]_vars => (LoopTypes /\ TableInv)'
    BY LoopTypesNext, TableInvNext
<1>3. QED
    BY <1>1, <1>2, TableInvSuffices, PTL DEF Spec

-----------------------------------------------------------------------------
(* Late callbacks                                                          *)

OnlyLoopersHoldEvents ==
    \A t \in Threads :
        /\ batch[t] # {} => tpc[t] \in {"dispatch", "found", "callback"}
        /\ found[t] # Nobody <=> tpc[t] = "found"
        /\ found[t] \notin batch[t]

OnlyRemovedAreLate == \A i \in Ids : i \notin removed => late[i] = 0

\* A timer with a late callback has no event left that could begin another one.
LateHasNoMore ==
    ~overlapped => \A i \in Ids :
        late[i] # 0 => /\ late[i] = 1
                       /\ \A t \in Threads : i \notin batch[t] /\ found[t] # i

LateInv == OnlyLoopersHoldEvents /\ OnlyRemovedAreLate /\ LateHasNoMore

LEMMA LateInvNext ==
    LoopTypes /\ LoopOrder /\ TableInv /\ LateInv /\ [Next]_vars => LateInv'
<1> SUFFICES ASSUME LoopTypes, LoopOrder, TableInv, LateInv, [Next]_vars PROVE LateInv'
    OBVIOUS
<1> USE DEF LateInv
<1>1. CASE /\ UNCHANGED <<batch, found, late>> /\ removed \subseteq removed'
           /\ overlapped => overlapped'
           /\ \A t \in Threads : tpc'[t] = tpc[t]
                                 \/ (tpc[t] \in {"unborn", "check"} /\ tpc'[t] # "found")
  <2>1. OnlyLoopersHoldEvents'
      BY <1>1 DEF OnlyLoopersHoldEvents
  <2>2. OnlyRemovedAreLate'
      BY <1>1 DEF OnlyRemovedAreLate
  <2>3. LateHasNoMore'
      BY <1>1 DEF LateHasNoMore
  <2>4. QED
      BY <2>1, <2>2, <2>3
<1>2. CASE \E c \in Callers : CallBegins(c)
  <2>1. UNCHANGED <<batch, found, late, tpc, removed>>
      BY <1>2 DEF CallBegins, StartSwaps, StopSwaps, Lists, Unregisters, loopVars
  <2>2. overlapped => overlapped'
      BY <1>2 DEF CallBegins, StartSwaps, StopSwaps, Lists, Unregisters, Overlaps,
                  LoopTypes, TypeOK
  <2>3. QED
      BY <1>1, <2>1, <2>2
<1>3. CASE \E c \in Callers : CallGoesOn(c)
  <2>1. PICK c \in Callers : CallGoesOn(c)
      BY <1>3
  <2>2. CASE \E t \in Threads : Spawns(c, t)
    <3>1. /\ UNCHANGED <<batch, found, late, removed, overlapped>>
          /\ \A t \in Threads : tpc'[t] = tpc[t]
                                \/ (tpc[t] = "unborn" /\ tpc'[t] = "check")
        BY <2>2 DEF Spawns, LoopTypes, TypeOK
    <3>2. QED
        BY <1>1, <3>1
  <2>3. CASE \/ StoresHandle(c) \/ TakesNothing(c) \/ TakesHandle(c) \/ Joins(c)
             \/ Registers(c) \/ RegisterFails(c) \/ Unlists(c)
    <3>1. UNCHANGED <<batch, found, late, overlapped, tpc>> /\ removed \subseteq removed'
        BY <2>3 DEF StoresHandle, TakesNothing, TakesHandle, Joins, Registers,
                    RegisterFails, Unlists, loopVars
    <3>2. QED
        BY <1>1, <3>1
  <2>4. QED
      BY <2>1, <2>2, <2>3 DEF CallGoesOn
<1>4. CASE \E t \in Threads : ThreadGoesOn(t)
  <2>1. PICK t \in Threads : ThreadGoesOn(t)
      BY <1>4
  <2>2. CASE ChecksFlag(t)
    <3>1. /\ UNCHANGED <<batch, found, late, removed, overlapped>>
          /\ \A s \in Threads : tpc'[s] = tpc[s]
                                \/ (tpc[s] = "check" /\ tpc'[s] # "found")
        BY <2>2 DEF ChecksFlag, GoesOn, LoopTypes, TypeOK
    <3>2. QED
        BY <1>1, <3>1
  <2>3. CASE Fetches(t)
    <3>1. /\ UNCHANGED <<found, late, removed, overlapped>>
          /\ tpc[t] = "poll" /\ batch'[t] = due /\ tpc'[t] = After(due)
          /\ \A s \in Threads : s # t => batch'[s] = batch[s] /\ tpc'[s] = tpc[s]
        BY <2>3 DEF Fetches, LoopTypes, TypeOK
    <3>2. found[t] = Nobody /\ Nobody \notin due
      <4>1. due \subseteq Ids /\ Nobody \notin Ids
          BY EventLoopAssumption DEF LoopTypes, TypeOK, Ids
      <4>2. QED
          BY <3>1, <4>1 DEF OnlyLoopersHoldEvents
    <3>3. OnlyLoopersHoldEvents'
        BY <3>1, <3>2 DEF OnlyLoopersHoldEvents, After
    <3>4. \A i \in Ids : late[i] # 0 => i \notin due
        BY DEF OnlyRemovedAreLate, TableInv, RemovedIsGone, LoopTypes, TypeOK
    <3>5. LateHasNoMore'
        BY <3>1, <3>4 DEF LateHasNoMore
    <3>6. QED
        BY <3>1, <3>3, <3>5 DEF OnlyRemovedAreLate
  <2>4. CASE CallbackReturns(t)
    <3>1. /\ UNCHANGED <<batch, found, late, removed, overlapped>>
          /\ tpc[t] = "callback" /\ tpc'[t] = After(batch[t])
          /\ \A s \in Threads : s # t => tpc'[s] = tpc[s]
        BY <2>4 DEF CallbackReturns, LoopTypes, TypeOK
    <3>2. QED
        BY <3>1 DEF OnlyLoopersHoldEvents, OnlyRemovedAreLate, LateHasNoMore, After
  <2>5. CASE CallsBack(t)
    <3> DEFINE id == found[t]
    <3>1. /\ UNCHANGED <<batch, removed, overlapped>> /\ tpc[t] = "found"
          /\ found'[t] = Nobody /\ tpc'[t] = "callback"
          /\ \A s \in Threads : s # t => found'[s] = found[s] /\ tpc'[s] = tpc[s]
          /\ \A i \in Ids : late'[i] = IF i = id /\ i \in removed THEN late[i] + 1
                                                                  ELSE late[i]
        BY <2>5 DEF CallsBack, LoopTypes, TypeOK
    <3>2. id \in Ids /\ id \notin batch[t]
        BY <3>1 DEF OnlyLoopersHoldEvents, LoopTypes, TypeOK
    <3> HIDE DEF id
    <3>3. OnlyLoopersHoldEvents' /\ OnlyRemovedAreLate'
        BY <3>1, EventLoopAssumption
           DEF OnlyLoopersHoldEvents, OnlyRemovedAreLate, LoopTypes, TypeOK, Ids
    <3>4. LateHasNoMore'
      <4> SUFFICES ASSUME ~overlapped
                   PROVE  \A i \in Ids : late'[i] # 0 =>
                             /\ late'[i] = 1
                             /\ \A s \in Threads : i \notin batch'[s] /\ found'[s] # i
          BY <3>1 DEF LateHasNoMore
      <4>1. late[id] = 0
          BY <3>2 DEF LateHasNoMore, id
      <4>2. late'[id] = 0 \/ late'[id] = 1
          BY <3>1, <3>2, <4>1
      <4>3. \A s \in Threads : s # t => batch[s] = {} /\ found[s] = Nobody
        <5>1. PICK x : Looping \subseteq {x}
            BY OneLooperAtMost
        <5>2. QED
            BY <3>1, <5>1 DEF Looping, OnlyLoopersHoldEvents
      <4>4. \A s \in Threads : id \notin batch'[s] /\ found'[s] # id
          BY <3>1, <3>2, <4>3, EventLoopAssumption DEF Ids
      <4>5. \A i \in Ids : i # id => late'[i] = late[i]
          BY <3>1
      <4>6. \A i \in Ids, s \in Threads : found'[s] = i => found[s] = i
          BY <3>1, EventLoopAssumption DEF Ids
      <4>7. QED
          BY <3>1, <4>2, <4>4, <4>5, <4>6 DEF LateHasNoMore
    <3>5. QED
        BY <3>3, <3>4
  <2>6. ASSUME NEW id \in Ids, Finds(t, id) PROVE LateInv'
    <3>1. /\ UNCHANGED <<late, removed, overlapped>> /\ id \in batch[t]
          /\ batch'[t] = batch[t] \ {id} /\ tpc'[t] = "found" /\ found'[t] = id
          /\ \A s \in Threads : s # t => /\ batch'[s] = batch[s] /\ tpc'[s] = tpc[s]
                                         /\ found'[s] = found[s]
        BY <2>6 DEF Finds, LoopTypes, TypeOK
    <3>2. OnlyLoopersHoldEvents'
        BY <3>1, EventLoopAssumption DEF OnlyLoopersHoldEvents, Ids
    <3>3. LateHasNoMore'
        BY <3>1 DEF LateHasNoMore
    <3>4. QED
        BY <3>1, <3>2, <3>3 DEF OnlyRemovedAreLate
  <2>7. ASSUME NEW id \in Ids, Ignores(t, id) PROVE LateInv'
    <3>1. /\ UNCHANGED <<found, late, removed, overlapped>> /\ tpc[t] = "dispatch"
          /\ batch'[t] = batch[t] \ {id} /\ tpc'[t] = After(batch[t] \ {id})
          /\ \A s \in Threads : s # t => batch'[s] = batch[s] /\ tpc'[s] = tpc[s]
        BY <2>7 DEF Ignores, LoopTypes, TypeOK
    <3>2. QED
        BY <3>1 DEF OnlyLoopersHoldEvents, OnlyRemovedAreLate, LateHasNoMore, After
  <2>8. QED
      BY <2>1, <2>2, <2>3, <2>4, <2>5, <2>6, <2>7 DEF ThreadGoesOn
<1>5. CASE \E id \in Ids : Fires(id)
  <2>1. UNCHANGED <<batch, found, late, tpc, removed, overlapped>>
      BY <1>5 DEF Fires, loopVars
  <2>2. QED
      BY <1>1, <2>1
<1>6. CASE UNCHANGED vars
  <2>1. UNCHANGED <<batch, found, late, tpc, removed, overlapped>>
      BY <1>6 DEF vars
  <2>2. QED
      BY <1>1, <2>1
<1>7. QED
    BY <1>2, <1>3, <1>4, <1>5, <1>6 DEF Next

\* After remove_timer has returned at most one more callback of the timer begins:
\* one loop thread has fetched its event, and the kernel no longer has the timer.
THEOREM LateIsLast == Spec => []LateCallbackIsTheLast
<1> DEFINE All == LoopTypes /\ LoopOrder /\ TableInv /\ LateInv
<1>1. Init => All
  <2>1. Init => LateInv
      BY DEF Init, LateInv, OnlyLoopersHoldEvents, OnlyRemovedAreLate, LateHasNoMore
  <2>2. QED
      BY <2>1, LoopTypesInit, LoopOrderInit, TableInvInit
<1>2. All /\ [Next]_vars => All'
    BY LoopTypesNext, LoopOrderNext, TableInvNext, LateInvNext
<1>3. All => LateCallbackIsTheLast
  <2> SUFFICES ASSUME LateHasNoMore PROVE LateCallbackIsTheLast
      BY DEF LateInv
  <2>1. QED
      BY DEF LateHasNoMore, LateCallbackIsTheLast
<1>4. QED
    BY <1>1, <1>2, <1>3, PTL DEF Spec
=============================================================================
