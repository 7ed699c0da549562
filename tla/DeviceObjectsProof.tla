------------------------- MODULE DeviceObjectsProof -------------------------
(***************************************************************************)
(* Theorems about what the process keeps on the device: GlBuffers, for     *)
(* every number of threads, of names and of device buffers, and GpuImages, *)
(* for any number of calls, images and surfaces.  The two share no state.  *)
(***************************************************************************)
EXTENDS GlBuffers, GpuImages, FiniteSetTheorems, TLAPS

-----------------------------------------------------------------------------
(*                               OpenGL buffers                            *)

(***************************************************************************)
(* The inductive invariant.  OneMutex: as long as no two first calls have  *)
(* overlapped, a context that is there is never made again, and who is     *)
(* inside holds its mutex; before there is one, nothing is named.  As long *)
(* as the names have not come round as well (NamesGrow), those from        *)
(* next_id on are not in the table, and those that were deleted are below  *)
(* it and stay out.  When next_id is 0 all names have been given once.     *)
(***************************************************************************)
OneMutex ==
    ~raced => /\ \A t \in Threads : glPc[t] = "make" => ~context
              /\ \A t \in Threads : glPc[t] \in {"lock", "inside"} => context
              /\ \A t \in Threads : glPc[t] = "inside" => owner = t

Fresh == table = NoTable /\ live = {} /\ deleted = {}

Untouched == ~raced /\ ~context => Fresh

Given(i) == i # 0 /\ (nextId = 0 \/ i < nextId)

NamesGrow ==
    ~raced /\ ~wrapped =>
        /\ \A i \in Ids : ~Given(i) => table[i] = Unnamed
        /\ \A i \in deleted : Given(i) /\ table[i] = Unnamed

GlInv == GlTypeOK /\ OneMutex /\ Untouched /\ NamesGrow /\ BuffersHaveOwners

LEMMA NextName ==
    ASSUME NEW n \in Ids
    PROVE  (n + 1) % IdModulus \in Ids
           /\ ((n + 1) % IdModulus = 0 \/ (n + 1) % IdModulus = n + 1)
<1>1. CASE n + 1 = IdModulus
    BY <1>1, GlAssumption DEF Ids
<1>2. CASE n + 1 < IdModulus
    BY <1>2, GlAssumption DEF Ids
<1>3. QED
    BY <1>1, <1>2, GlAssumption DEF Ids

LEMMA InitGl == GlInit => GlInv
<1> SUFFICES ASSUME GlInit PROVE GlInv
    OBVIOUS
<1>1. GlTypeOK
  <2>1. 0 \in Ids /\ 1 \in Ids
      BY GlAssumption DEF Ids
  <2>2. table \in [Ids -> Handles \cup {Null, Unnamed}] /\ bound \in [Targets -> Ids]
      BY <2>1 DEF GlInit, NoTable
  <2>3. context \in BOOLEAN /\ device \in BOOLEAN /\ dead \in BOOLEAN
        /\ raced \in BOOLEAN /\ wrapped \in BOOLEAN
      BY DEF GlInit
  <2>4. glPc \in [Threads -> {"idle", "make", "lock", "inside"}]
      BY DEF GlInit
  <2>5. QED
      BY <2>1, <2>2, <2>3, <2>4 DEF GlInit, GlTypeOK
<1>2. OneMutex
    BY DEF GlInit, OneMutex
<1>3. Untouched /\ NamesGrow
    BY GlAssumption DEF GlInit, Untouched, NamesGrow, Fresh, NoTable, Ids
<1>4. BuffersHaveOwners
    BY GlAssumption DEF GlInit, BuffersHaveOwners, Named, NoTable
<1>5. QED
    BY <1>1, <1>2, <1>3, <1>4 DEF GlInv

\* Every step keeps the variables in their types.
LEMMA GlTypes ==
    ASSUME GlTypeOK, NEW t \in Threads, GlCall(t)
    PROVE  GlTypeOK'
<1> USE DEF GlTypeOK
<1>1. CASE \E op \in {"bind", "other"} : Enters(t, op)
    BY <1>1 DEF Enters
<1>2. CASE Makes(t)
    BY <1>2, GlAssumption DEF Makes, NoTable, Ids
<1>3. CASE Locks(t)
    BY <1>3 DEF Locks
<1>4. CASE Gens(t)
    BY <1>4, NextName DEF Gens, Unlocks, NextId
<1>5. CASE GenOverflows(t)
    BY <1>5 DEF GenOverflows
<1>6. CASE \E i \in Ids : Deletes(t, i)
    BY <1>6 DEF Deletes, Destroyed, Unlocks
<1>7. CASE \E i \in Ids, g \in Targets : Binds(t, g, i)
    BY <1>7 DEF Binds, Unlocks
<1>8. CASE \E g \in Targets : Uploads(t, g)
    BY <1>8 DEF Uploads, Replaced, Unlocks
<1>9. CASE \E g \in Targets : UploadPanics(t, g)
    BY <1>9 DEF UploadPanics
<1>10. CASE Draws(t)
    BY <1>10 DEF Draws
<1>11. CASE Passes(t)
    BY <1>11 DEF Passes, Unlocks
<1>12. QED
    BY <1>1, <1>2, <1>3, <1>4, <1>5, <1>6, <1>7, <1>8, <1>9, <1>10, <1>11 DEF GlCall

\* No step lets a second thread in.
LEMMA MutexHolds ==
    ASSUME GlTypeOK, OneMutex, NEW t \in Threads, GlCall(t)
    PROVE  OneMutex'
<1> USE DEF GlTypeOK, OneMutex
<1>1. CASE \E op \in {"bind", "other"} : Enters(t, op)
    BY <1>1 DEF Enters, Missing
<1>2. CASE Makes(t)
    BY <1>2 DEF Makes
<1>3. CASE Locks(t)
    BY <1>3, GlAssumption DEF Locks
<1>4. CASE Gens(t) \/ (\E i \in Ids : Deletes(t, i))
           \/ (\E i \in Ids, g \in Targets : Binds(t, g, i))
           \/ (\E g \in Targets : Uploads(t, g)) \/ Passes(t)
  <2>1. glPc[t] = "inside" /\ glPc' = [glPc EXCEPT ![t] = "idle"]
        /\ UNCHANGED <<context, raced>>
      BY <1>4 DEF Gens, Deletes, Binds, Uploads, Passes, Inside, Unlocks
  <2>2. QED
      BY <2>1
<1>5. CASE GenOverflows(t) \/ (\E g \in Targets : UploadPanics(t, g)) \/ Draws(t)
    BY <1>5 DEF GenOverflows, UploadPanics, Draws
<1>6. QED
    BY <1>1, <1>2, <1>3, <1>4, <1>5 DEF GlCall

\* A thread that is inside finds a context, so a table that is still empty is
\* nobody's work.
LEMMA InsideHasContext ==
    ASSUME OneMutex, NEW t \in Threads, Inside(t), ~raced
    PROVE  context
BY DEF OneMutex, Inside

\* A step that changes the table is that of a thread inside, after Makes.
LEMMA UntouchedHolds ==
    ASSUME GlInv, NEW t \in Threads, GlCall(t)
    PROVE  Untouched'
<1> SUFFICES ASSUME ~raced', ~context' PROVE Fresh'
    BY DEF Untouched
<1>1. CASE Inside(t)
  <2>1. context /\ ~raced
      BY <1>1, InsideHasContext
         DEF GlInv, GlCall, Enters, Makes, Locks, Gens, GenOverflows, Deletes, Binds, Uploads,
             UploadPanics, Draws, Passes, Inside, Unlocks, GlTypeOK
  <2>2. context' = context
      BY <1>1 DEF GlCall, Enters, Makes, Locks, Gens, GenOverflows, Deletes, Binds, Uploads,
                  UploadPanics, Draws, Passes, Inside, Unlocks
  <2>3. QED
      BY <2>1, <2>2
<1>2. CASE ~Inside(t)
  <2>1. Makes(t) \/ UNCHANGED <<context, raced, table, live, deleted>>
      BY <1>2 DEF GlCall, Enters, Locks, Gens, GenOverflows, Deletes, Binds, Uploads,
                  UploadPanics, Draws, Passes, Inside
  <2>2. QED
      BY <2>1 DEF Makes, GlInv, Untouched, Fresh
<1>3. QED
    BY <1>1, <1>2

\* The table keeps its shape when the entry of a name changes from a buffer that goes
\* to one that comes, if anything comes.
LEMMA TableChanges ==
    ASSUME GlTypeOK, ~raced, BuffersHaveOwners, NEW i \in Ids,
           NEW entry \in Handles \cup {Null, Unnamed},
           entry \notin live \ {table[i]},
           table' = [table EXCEPT ![i] = entry],
           live' = (live \ {table[i]}) \cup ({entry} \ {Null, Unnamed}),
           UNCHANGED wrapped
    PROVE  BuffersHaveOwners'
<1>1. table \in [Ids -> Handles \cup {Null, Unnamed}]
    BY DEF GlTypeOK
<1>2. /\ \A j \in Ids : table[j] \in Handles => table[j] \in live
      /\ \A j, k \in Ids : table[j] = table[k] /\ table[j] \in Handles => j = k
      /\ ~wrapped => \A h \in live : \E j \in Ids : table[j] = h
    BY <1>1, GlAssumption DEF BuffersHaveOwners, Named
<1>3. /\ \A j \in Ids : table'[j] \in Handles => table'[j] \in live'
      /\ \A j, k \in Ids : table'[j] = table'[k] /\ table'[j] \in Handles => j = k
  <2>1. \A j \in Ids \ {i} : table'[j] = table[j]
      BY <1>1
  <2>2. table'[i] = entry
      BY <1>1
  <2>3. \A j \in Ids \ {i} : table[j] \in Handles => table[j] # table[i] /\ table[j] # entry
      BY <1>1, <1>2
  <2>4. QED
      BY <1>2, <2>1, <2>2, <2>3, GlAssumption
<1>4. ~wrapped => \A h \in live' : h \notin {Null, Unnamed} /\ \E j \in Ids : table'[j] = h
  <2> SUFFICES ASSUME ~wrapped, NEW h \in live'
               PROVE  h \notin {Null, Unnamed} /\ \E j \in Ids : table'[j] = h
      OBVIOUS
  <2>1. h \in Handles /\ h \notin {Null, Unnamed}
      BY GlAssumption DEF GlTypeOK
  <2>2. CASE h = entry
      BY <1>1, <2>1, <2>2
  <2>3. CASE h # entry
    <3>1. PICK j \in Ids : table[j] = h
        BY <1>2, <2>3
    <3>2. j # i
        BY <2>3, <3>1
    <3>3. QED
        BY <1>1, <2>1, <3>1, <3>2
  <2>4. QED
      BY <2>2, <2>3
<1>5. Named' \subseteq live'
    BY <1>1, <1>3, GlAssumption DEF Named
<1>6. ~wrapped' => live' \subseteq Named'
    BY <1>4 DEF Named
<1>7. QED
    BY <1>3, <1>5, <1>6 DEF BuffersHaveOwners

\* Names, and the buffers behind them.
LEMMA NamesHold ==
    ASSUME GlInv, NEW t \in Threads, GlCall(t)
    PROVE  NamesGrow' /\ BuffersHaveOwners'
<1> SUFFICES ASSUME ~raced' PROVE NamesGrow' /\ BuffersHaveOwners'
    BY DEF NamesGrow, BuffersHaveOwners
<1>0. GlTypeOK /\ OneMutex /\ Untouched /\ NamesGrow /\ BuffersHaveOwners
    BY DEF GlInv
<1>1. CASE UNCHANGED <<table, live, nextId, deleted, raced, wrapped>>
    BY <1>0, <1>1 DEF NamesGrow, Given, BuffersHaveOwners, Named
<1>2. CASE \E op \in {"bind", "other"} : Enters(t, op)
    BY <1>1, <1>2 DEF Enters
<1>3. CASE Makes(t)
  <2>1. ~raced /\ ~context
      BY <1>0, <1>3 DEF Makes, OneMutex, GlTypeOK
  <2>2. table' = NoTable /\ live' = {} /\ deleted' = {}
      BY <1>0, <1>3, <2>1 DEF Untouched, Fresh, Makes
  <2>3. Named' = {}
      BY <2>2 DEF Named, NoTable
  <2>4. QED
      BY <2>2, <2>3, GlAssumption DEF NamesGrow, BuffersHaveOwners, NoTable
<1>4. CASE Locks(t)
    BY <1>1, <1>4 DEF Locks
<1>5. CASE Gens(t)
  <2>1. ~raced /\ nextId \in Ids /\ table' = [table EXCEPT ![nextId] = Null]
        /\ nextId' = (nextId + 1) % IdModulus /\ wrapped' = (wrapped \/ nextId = 0)
        /\ UNCHANGED <<live, deleted>>
      BY <1>0, <1>5 DEF Gens, NextId, Unlocks, GlTypeOK
  <2>2. table \in [Ids -> Handles \cup {Null, Unnamed}]
      BY <1>0 DEF GlTypeOK
  <2>3. ASSUME ~wrapped' PROVE ~wrapped /\ nextId > 0 /\ table[nextId] = Unnamed
    <3>1. ~wrapped /\ nextId # 0
        BY <2>1, <2>3
    <3>2. nextId > 0 /\ ~Given(nextId)
        BY <2>1, <3>1 DEF Given, Ids
    <3>3. QED
        BY <1>0, <2>1, <3>1, <3>2 DEF NamesGrow
  <2>4. NamesGrow'
    <3> SUFFICES ASSUME ~wrapped'
                 PROVE  /\ \A i \in Ids : ~Given(i)' => table'[i] = Unnamed
                        /\ \A i \in deleted : Given(i)' /\ table'[i] = Unnamed
        BY <2>1 DEF NamesGrow
    <3>1. nextId' = 0 \/ nextId' = nextId + 1
        BY <2>1, NextName
    <3>2. \A i \in Ids : Given(i) => Given(i)' /\ i # nextId
        BY <2>1, <2>3, <3>1 DEF Given, Ids
    <3>3. \A i \in Ids : i = nextId => Given(i)'
        BY <2>1, <2>3, <3>1 DEF Given, Ids
    <3>4. QED
        BY <1>0, <2>1, <2>2, <2>3, <3>2, <3>3 DEF NamesGrow, GlTypeOK
  <2>5. BuffersHaveOwners'
    <3>1. /\ \A j \in Ids : table'[j] \in Handles => table[j] = table'[j]
          /\ \A j \in Ids : table[j] \in Handles /\ j # nextId => table'[j] = table[j]
        BY <2>1, <2>2, GlAssumption
    <3>2. Named' \subseteq Named
        BY <2>1, <2>2 DEF Named
    <3>3. ASSUME ~wrapped' PROVE Named \subseteq Named'
        BY <2>1, <2>2, <2>3, <3>3 DEF Named
    <3>4. QED
        BY <1>0, <2>1, <2>2, <2>3, <3>1, <3>2, <3>3 DEF BuffersHaveOwners
  <2>6. QED
      BY <2>4, <2>5
<1>6. ASSUME NEW i \in Ids, Deletes(t, i) PROVE NamesGrow' /\ BuffersHaveOwners'
  <2>1. ~raced /\ UNCHANGED <<nextId, wrapped>>
        /\ table' = [table EXCEPT ![i] = Unnamed] /\ live' = live \ {table[i]}
        /\ deleted' = IF table[i] = Unnamed THEN deleted ELSE deleted \cup {i}
      BY <1>6 DEF Deletes, Destroyed, Unlocks
  <2>2. NamesGrow'
      BY <1>0, <2>1 DEF NamesGrow, Given, GlTypeOK
  <2>3. Unnamed \notin live
      BY <1>0, GlAssumption DEF GlTypeOK
  <2>4. BuffersHaveOwners'
      BY <1>0, <2>1, <2>3, TableChanges
  <2>5. QED
      BY <2>2, <2>4
<1>7. CASE \E i \in Ids, g \in Targets : Binds(t, g, i)
    BY <1>1, <1>7 DEF Binds, Unlocks
<1>8. ASSUME NEW g \in Targets, Uploads(t, g) PROVE NamesGrow' /\ BuffersHaveOwners'
  <2> DEFINE b == bound[g]
  <2>1. b \in Ids /\ b # 0 /\ table[b] # Unnamed /\ Found(g) = table[b]
      BY <1>0, <1>8 DEF Uploads, Found, GlTypeOK
  <2>2. PICK h \in Handles \ (live \ {table[b]}) :
            /\ live' = (live \ {table[b]}) \cup {h}
            /\ table' = [table EXCEPT ![b] = h]
      BY <1>8, <2>1 DEF Uploads, Replaced
  <2>3. ~raced /\ UNCHANGED <<nextId, deleted, wrapped>>
      BY <1>8 DEF Uploads, Unlocks
  <2>4. NamesGrow'
      BY <1>0, <2>1, <2>2, <2>3 DEF NamesGrow, Given, GlTypeOK
  <2>5. {h} \ {Null, Unnamed} = {h}
      BY GlAssumption
  <2>6. BuffersHaveOwners'
      BY <1>0, <2>1, <2>2, <2>3, <2>5, TableChanges
  <2>7. QED
      BY <2>4, <2>6
<1>9. CASE GenOverflows(t) \/ (\E g \in Targets : UploadPanics(t, g)) \/ Draws(t)
    BY <1>1, <1>9 DEF GenOverflows, UploadPanics, Draws
<1>10. CASE Passes(t)
    BY <1>1, <1>10 DEF Passes, Unlocks
<1>11. QED
    BY <1>2, <1>3, <1>4, <1>5, <1>6, <1>7, <1>8, <1>9, <1>10 DEF GlCall

LEMMA StepKeepsGl == GlInv /\ [GlNext]_glVars => GlInv'
<1> SUFFICES ASSUME GlInv, [GlNext]_glVars PROVE GlInv'
    OBVIOUS
<1>1. ASSUME NEW t \in Threads, GlCall(t) PROVE GlInv'
    BY <1>1, GlTypes, MutexHolds, UntouchedHolds, NamesHold DEF GlInv
<1>2. CASE SetsDevice \/ UNCHANGED glVars
  <2>1. UNCHANGED <<context, owner, table, bound, nextId, live, glPc, dead, raced,
                    wrapped, deleted>> /\ (device' = device \/ device' = TRUE)
      BY <1>2 DEF SetsDevice, glVars
  <2>2. GlTypeOK'
      BY <2>1 DEF GlInv, GlTypeOK
  <2>3. OneMutex'
      BY <2>1 DEF GlInv, OneMutex
  <2>4. Untouched' /\ NamesGrow' /\ BuffersHaveOwners'
      BY <2>1 DEF GlInv, Untouched, NamesGrow, Given, Fresh, BuffersHaveOwners, Named
  <2>5. QED
      BY <2>2, <2>3, <2>4 DEF GlInv
<1>3. QED
    BY <1>1, <1>2 DEF GlNext

\* The strengthening that the theorems about buffers rest on.
THEOREM GlInvariant == GlSpec => []GlInv
BY InitGl, StepKeepsGl, PTL DEF GlSpec

\* The mutex of the context lets one thread in at a time, for every number of
\* threads, unless two first calls have overlapped.
THEOREM GlExclusive == GlSpec => []OneInside
<1>1. GlInv => OneInside
    BY DEF GlInv, OneMutex, OneInside
<1>2. QED
    BY <1>1, GlInvariant, PTL

\* No buffer is destroyed while a name stands for it, and none has two names, for
\* every number of names and unless two first calls have overlapped; and none leaks
\* before the names come round.
THEOREM GlBuffersAreOwned == GlSpec => []BuffersHaveOwners
<1>1. GlInv => BuffersHaveOwners
    BY DEF GlInv
<1>2. QED
    BY <1>1, GlInvariant, PTL

\* A name that was deleted is not given again, so a binding to it finds nothing, for
\* every number of names; until they have all been given, and unless two first calls
\* have overlapped.
THEOREM GlStaleBindings == GlSpec => []StaleBindingHitsNothing
<1>1. GlInv => StaleBindingHitsNothing
    BY DEF GlInv, NamesGrow, StaleBindingHitsNothing, Found
<1>2. QED
    BY <1>1, GlInvariant, PTL

-----------------------------------------------------------------------------
(*                                 GPU images                              *)
(* A step touches one place, or the counts of one surface, or both; the    *)
(* two halves of the state are looked at one after the other.              *)

(***************************************************************************)
(* The places.  A call that is at work has a place of its own, with        *)
(* exactly the objects that its step says it has made.                     *)
(***************************************************************************)
Made(step) == CASE step = "memory" -> {"image"}
                [] step = "bind" -> {"image", "memory"}
                [] step = "view with memory" -> {"image", "memory"}
                [] OTHER -> {"image"}

Building == {"memory", "bind", "view", "view with memory"}

CallsHavePlaces ==
    /\ \A c \in Calls :
          /\ pc[c] \in Building => place[c] # Nothing
          /\ place[c] # Nothing => /\ pc[c] \in Building \cup {"release"}
                                   /\ holder[place[c]] = "call"
                                   /\ objects[place[c]] = Made(pc[c])
    /\ \A c, d \in Calls : place[c] = place[d] /\ place[c] # Nothing => c = d

PlacesOK == /\ pc \in [Calls -> Steps]
            /\ place \in [Calls -> Places \cup {Nothing}]
            /\ objects \in [Places -> SUBSET Parts(TRUE)]
            /\ image \in [Places -> SUBSET Parts(TRUE)]
            /\ holder \in [Places -> {"none", "call", "app", "lost"}]
            /\ twice \in BOOLEAN
            /\ ImagesNameTheirObjects
            /\ CallsHavePlaces

LEMMA InitPlaces == ImagesInit => PlacesOK
<1> SUFFICES ASSUME ImagesInit PROVE PlacesOK
    OBVIOUS
<1>1. {} \in SUBSET Parts(TRUE) /\ "idle" \in Steps /\ "idle" \notin Building
    BY DEF Steps, Building
<1>2. QED
    BY <1>1 DEF ImagesInit, PlacesOK, ImagesNameTheirObjects, CallsHavePlaces

\* The call of c begins an image at p, and goes on with it.
LEMMA BeginningKeeps ==
    ASSUME PlacesOK, NEW c \in Calls, pc[c] \in {"idle", "create"}, NEW p \in Places, Begins(c, p),
           NEW to \in {"memory", "release"}, pc' = [pc EXCEPT ![c] = to]
    PROVE  PlacesOK'
<1>1. place[c] = Nothing /\ \A d \in Calls : place[d] # p
  <2>1. place[c] = Nothing
      BY DEF PlacesOK, CallsHavePlaces, Building
  <2>2. ASSUME NEW d \in Calls PROVE place[d] # p
    <3>1. objects[p] = {} /\ {"image"} \subseteq Made(pc[d])
        BY DEF Begins, Vacant, Made
    <3>2. QED
        BY <3>1, ImagesAssumption DEF PlacesOK, CallsHavePlaces
  <2>3. QED
      BY <2>1, <2>2
<1>2. /\ place' = [place EXCEPT ![c] = p] /\ objects' = [objects EXCEPT ![p] = {"image"}]
      /\ holder' = [holder EXCEPT ![p] = "call"] /\ UNCHANGED <<image, twice>>
    BY DEF Begins
<1>3. {"image"} \subseteq Parts(TRUE) /\ to \in Steps /\ Made(to) = {"image"}
      /\ to \in Building \cup {"release"} /\ p # Nothing
    BY ImagesAssumption DEF Parts, Steps, Holding, Made, Building
<1>4. ImagesNameTheirObjects'
    BY <1>2 DEF PlacesOK, ImagesNameTheirObjects
<1>5. CallsHavePlaces'
  <2>1. pc'[c] = to /\ place'[c] = p /\ holder'[p] = "call" /\ objects'[p] = {"image"}
      BY <1>2 DEF PlacesOK
  <2>2. \A d \in Calls \ {c} :
           /\ pc'[d] = pc[d] /\ place'[d] = place[d]
           /\ place[d] # Nothing => /\ place[d] \in Places \ {p}
                                    /\ holder'[place[d]] = holder[place[d]]
                                    /\ objects'[place[d]] = objects[place[d]]
      BY <1>1, <1>2 DEF PlacesOK
  <2>3. ASSUME NEW d \in Calls
        PROVE  /\ pc'[d] \in Building => place'[d] # Nothing
               /\ place'[d] # Nothing => /\ pc'[d] \in Building \cup {"release"}
                                         /\ holder'[place'[d]] = "call"
                                         /\ objects'[place'[d]] = Made(pc'[d])
    <3>1. CASE d = c
        BY <1>3, <2>1, <3>1
    <3>2. CASE d # c
        BY <2>2, <3>2 DEF PlacesOK, CallsHavePlaces
    <3>3. QED
        BY <3>1, <3>2
  <2>4. \A d, e \in Calls : place'[d] = place'[e] /\ place'[d] # Nothing => d = e
      BY <1>1, <2>1, <2>2 DEF PlacesOK, CallsHavePlaces
  <2>5. QED
      BY <2>3, <2>4 DEF CallsHavePlaces
<1>6. QED
    BY <1>2, <1>3, <1>4, <1>5 DEF PlacesOK

\* The call of c goes on, and adds what it makes to its place.
LEMMA WorkingKeeps ==
    ASSUME PlacesOK, NEW c \in Calls, NEW to \in Steps, pc' = [pc EXCEPT ![c] = to],
           UNCHANGED <<place, image, holder, twice>>,
           to \in Building => place[c] # Nothing,
           \/ place[c] = Nothing /\ objects' = objects
           \/ /\ place[c] # Nothing /\ to \in Building \cup {"release"}
              /\ objects' = [objects EXCEPT ![place[c]] = Made(to)]
    PROVE  PlacesOK'
<1>1. Made(to) \subseteq Parts(TRUE)
    BY DEF Made, Parts
<1>2. ImagesNameTheirObjects'
    BY DEF PlacesOK, ImagesNameTheirObjects, CallsHavePlaces
<1>3. CallsHavePlaces'
  <2>1. pc'[c] = to /\ \A d \in Calls \ {c} : pc'[d] = pc[d]
      BY DEF PlacesOK
  <2>2. place[c] # Nothing => objects'[place[c]] = Made(to)
      BY DEF PlacesOK
  <2>3. \A d \in Calls \ {c} : place[d] # Nothing => objects'[place[d]] = objects[place[d]]
      BY DEF PlacesOK, CallsHavePlaces
  <2>4. QED
      BY <2>1, <2>2, <2>3 DEF PlacesOK, CallsHavePlaces
<1>4. QED
    BY <1>1, <1>2, <1>3 DEF PlacesOK

\* The call of c ends, and hands its place to the application or leaves it to nobody.
LEMMA EndingKeeps ==
    ASSUME PlacesOK, NEW c \in Calls, Returns(c), UNCHANGED twice,
           \/ place[c] = Nothing /\ UNCHANGED <<objects, image, holder>>
           \/ /\ place[c] # Nothing
              /\ holder' = [holder EXCEPT ![place[c]] = "lost"]
              /\ UNCHANGED <<objects, image>>
           \/ /\ place[c] # Nothing
              /\ holder' = [holder EXCEPT ![place[c]] = "app"]
              /\ \E parts \in SUBSET Parts(TRUE) :
                    /\ objects' = [objects EXCEPT ![place[c]] = parts]
                    /\ image' = [image EXCEPT ![place[c]] = parts]
    PROVE  PlacesOK'
<1>1. /\ pc' = [pc EXCEPT ![c] = "idle"] /\ place' = [place EXCEPT ![c] = Nothing]
      /\ "idle" \in Steps /\ "idle" \notin Building \cup {"release"}
    BY DEF Returns, Steps, Building
<1>2. ImagesNameTheirObjects'
    BY DEF PlacesOK, ImagesNameTheirObjects
<1>3. CallsHavePlaces'
  <2>1. pc'[c] = "idle" /\ place'[c] = Nothing
        /\ \A d \in Calls \ {c} : pc'[d] = pc[d] /\ place'[d] = place[d]
      BY <1>1 DEF PlacesOK
  <2>2. \A d \in Calls \ {c} : place[d] # Nothing => place[d] \in Places /\ place[d] # place[c]
      BY DEF PlacesOK, CallsHavePlaces
  <2>3. \A q \in Places : q # place[c] => holder'[q] = holder[q] /\ objects'[q] = objects[q]
      BY DEF PlacesOK
  <2>4. QED
      BY <1>1, <2>1, <2>2, <2>3 DEF PlacesOK, CallsHavePlaces
<1>4. holder' \in [Places -> {"none", "call", "app", "lost"}]
      /\ objects' \in [Places -> SUBSET Parts(TRUE)] /\ image' \in [Places -> SUBSET Parts(TRUE)]
  <2>1. CASE place[c] = Nothing
      BY <2>1 DEF PlacesOK
  <2>2. CASE place[c] \in Places
      BY <2>2 DEF PlacesOK
  <2>3. QED
      BY <2>1, <2>2 DEF PlacesOK
<1>5. QED
    BY <1>1, <1>2, <1>3, <1>4 DEF PlacesOK

\* What the application does with its image.
LEMMA UsingKeeps ==
    ASSUME PlacesOK, NEW p \in Places, Destroys(p) \/ DropsImage(p)
    PROVE  PlacesOK'
<1>1. holder[p] = "app" /\ image[p] = objects[p] /\ UNCHANGED <<pc, place>>
    BY DEF Destroys, DropsImage, PlacesOK, ImagesNameTheirObjects
<1>2. \A c \in Calls : place[c] # p
    BY <1>1, ImagesAssumption DEF PlacesOK, CallsHavePlaces
<1>3. CASE Destroys(p)
  <2>1. /\ ~twice' /\ holder' = holder
        /\ objects' = [objects EXCEPT ![p] = {}] /\ image' = [image EXCEPT ![p] = {}]
      BY <1>1, <1>3 DEF Destroys, Freed, Cleared, PlacesOK, ImagesNameTheirObjects
  <2>2. CallsHavePlaces'
      BY <1>1, <1>2, <2>1 DEF PlacesOK, CallsHavePlaces
  <2>3. ImagesNameTheirObjects'
    <3>1. \A q \in Places :
             \/ objects'[q] = objects[q] /\ image'[q] = image[q]
             \/ objects'[q] = {} /\ image'[q] = {}
        BY <2>1 DEF PlacesOK
    <3>2. QED
        BY <2>1, <3>1 DEF PlacesOK, ImagesNameTheirObjects
  <2>4. {} \in SUBSET Parts(TRUE)
      OBVIOUS
  <2>5. /\ objects' \in [Places -> SUBSET Parts(TRUE)]
        /\ image' \in [Places -> SUBSET Parts(TRUE)]
      BY <2>1, <2>4 DEF PlacesOK
  <2>6. twice' \in BOOLEAN
      BY <1>3 DEF Destroys
  <2>7. QED
      BY <1>1, <2>1, <2>2, <2>3, <2>5, <2>6 DEF PlacesOK
<1>4. CASE DropsImage(p)
  <2>1. /\ UNCHANGED <<objects, twice>> /\ image' = [image EXCEPT ![p] = {}]
        /\ holder' = [holder EXCEPT ![p] = IF image[p] = {} THEN "none" ELSE "lost"]
      BY <1>4 DEF DropsImage
  <2>2. CallsHavePlaces'
      BY <1>1, <1>2, <2>1 DEF PlacesOK, CallsHavePlaces
  <2>3. ImagesNameTheirObjects'
      BY <1>1, <2>1 DEF PlacesOK, ImagesNameTheirObjects
  <2>4. QED
      BY <1>1, <2>1, <2>2, <2>3 DEF PlacesOK
<1>5. QED
    BY <1>3, <1>4

LEMMA CallKeepsPlaces ==
    ASSUME PlacesOK, NEW c \in Calls, ImageCall(c)
    PROVE  PlacesOK'
<1> USE DEF placeVars
<1>0. /\ pc[c] \in Steps
      /\ pc[c] \in Building => /\ place[c] # Nothing /\ place[c] \in Places
                               /\ objects[place[c]] = Made(pc[c])
      /\ pc[c] \notin Building \cup {"release"} => place[c] = Nothing
    BY DEF PlacesOK, CallsHavePlaces
<1>1. CASE Creates(c)
    BY <1>1, BeginningKeeps DEF Creates, Goes
<1>2. CASE AllocatesMemory(c)
  <2>1. /\ place[c] \in Places /\ place[c] # Nothing
        /\ objects' = [objects EXCEPT ![place[c]] = Made("bind")]
      BY <1>0, <1>2 DEF AllocatesMemory, Building, Made, PlacesOK
  <2>2. "bind" \in Steps /\ "bind" \in Building
      BY DEF Steps, Building
  <2>3. QED
      BY <1>2, <2>1, <2>2, WorkingKeeps DEF AllocatesMemory, Goes
<1>3. CASE BindsMemory(c)
  <2>1. /\ place[c] \in Places /\ place[c] # Nothing
        /\ objects[place[c]] = Made("view with memory")
      BY <1>0, <1>3 DEF BindsMemory, Building, Made
  <2>2. objects' = [objects EXCEPT ![place[c]] = Made("view with memory")]
      BY <1>3, <2>1 DEF BindsMemory, PlacesOK
  <2>3. "view with memory" \in Steps /\ "view with memory" \in Building
      BY DEF Steps, Building
  <2>4. QED
      BY <1>3, <2>1, <2>2, <2>3, WorkingKeeps DEF BindsMemory, Goes
<1>4. CASE MakesView(c)
  <2> DEFINE parts == Parts(pc[c] = "view with memory")
  <2>1. place[c] # Nothing /\ place[c] \in Places
        /\ objects[place[c]] \cup {"view"} = parts /\ parts \in SUBSET Parts(TRUE)
      BY <1>0, <1>4 DEF MakesView, Building, Made, Parts
  <2>2. /\ objects' = [objects EXCEPT ![place[c]] = parts]
        /\ image' = [image EXCEPT ![place[c]] = parts]
        /\ holder' = [holder EXCEPT ![place[c]] = "app"] /\ Returns(c) /\ UNCHANGED twice
      BY <1>4, <2>1 DEF MakesView
  <2>3. QED
      BY <2>1, <2>2, EndingKeeps
<1>5. CASE FailsHalfway(c)
    BY <1>0, <1>5, EndingKeeps DEF FailsHalfway, Building
<1>6. CASE \E s \in Surfaces, to \in {"resolve", "import"} : LooksUp(c, s, to)
  <2>1. PICK to \in {"resolve", "import"} : \E s \in Surfaces : LooksUp(c, s, to)
      BY <1>6
  <2>2. to \in Steps /\ to \notin Building /\ place[c] = Nothing
      BY <1>0, <2>1 DEF LooksUp, Steps, Holding, Building
  <2>3. QED
      BY <2>1, <2>2, WorkingKeeps DEF LooksUp
<1>7. CASE RefusesEmpty(c) \/ RefusesMisfit(c) \/ HandsOver(c)
  <2>1. place[c] = Nothing /\ Returns(c) /\ UNCHANGED placeVars
      BY <1>0, <1>7 DEF RefusesEmpty, RefusesMisfit, HandsOver, Building
  <2>2. QED
      BY <2>1, EndingKeeps
<1>8. CASE FindsSize(c)
  <2>1. PICK to \in {"fit", "create"} : Goes(c, to)
      BY <1>8 DEF FindsSize
  <2>2. to \in Steps /\ to \notin Building /\ place[c] = Nothing
        /\ UNCHANGED <<place, placeVars>>
      BY <1>0, <1>8 DEF FindsSize, Steps, Holding, Building
  <2>3. QED
      BY <2>1, <2>2, WorkingKeeps DEF Goes
<1>9. CASE ImportsImage(c)
  <2>1. pc[c] = "create" /\ place[c] = Nothing /\ pc' = [pc EXCEPT ![c] = "release"]
        /\ "release" \in Steps /\ "release" \notin Building
      BY <1>0, <1>9 DEF ImportsImage, Goes, AfterImage, Steps, Holding, Building
  <2>2. CASE \E p \in Places : Begins(c, p)
      BY <2>1, <2>2, BeginningKeeps
  <2>3. CASE UNCHANGED <<place, placeVars>>
      BY <2>1, <2>3, WorkingKeeps
  <2>4. QED
      BY <1>9, <2>2, <2>3 DEF ImportsImage
<1>10. CASE ReleasesImported(c)
  <2>1. CASE place[c] = Nothing
      BY <1>10, <2>1, EndingKeeps DEF ReleasesImported
  <2>2. CASE place[c] # Nothing
    <3>1. place[c] \in Places /\ objects[place[c]] = Made("view")
      <4>1. Made("release") = Made("view")
          BY DEF Made
      <4>2. QED
          BY <1>10, <2>2, <4>1 DEF ReleasesImported, PlacesOK, CallsHavePlaces
    <3>2. objects' = [objects EXCEPT ![place[c]] = Made("view")]
        BY <1>10, <3>1 DEF ReleasesImported, PlacesOK
    <3>3. "view" \in Steps /\ "view" \in Building
        BY DEF Steps, Building
    <3>4. QED
        BY <1>10, <2>2, <3>2, <3>3, WorkingKeeps DEF ReleasesImported, Goes
  <2>3. QED
      BY <2>1, <2>2
<1>11. QED
    BY <1>1, <1>2, <1>3, <1>4, <1>5, <1>6, <1>7, <1>8, <1>9, <1>10 DEF ImageCall

LEMMA StepKeepsPlaces == PlacesOK /\ [ImagesNext]_imageVars => PlacesOK'
<1> SUFFICES ASSUME PlacesOK, [ImagesNext]_imageVars PROVE PlacesOK'
    OBVIOUS
<1>1. CASE UNCHANGED <<pc, place, placeVars>>
    BY <1>1 DEF placeVars, PlacesOK, ImagesNameTheirObjects, CallsHavePlaces
<1>2. CASE \E s \in Surfaces : DropsResolved(s) \/ Exports(s)
    BY <1>1, <1>2 DEF DropsResolved, Exports
<1>3. CASE UNCHANGED imageVars
    BY <1>1, <1>3 DEF imageVars
<1>4. QED
    BY <1>2, <1>3, CallKeepsPlaces, UsingKeeps DEF ImagesNext

\* A GpuImage names what the device has for it, however the calls fail and however
\* often it is destroyed, for any number of calls and images.
THEOREM ImagesAreNamed == ImagesSpec => []ImagesNameTheirObjects
<1>1. PlacesOK => ImagesNameTheirObjects
    BY DEF PlacesOK
<1>2. QED
    BY <1>1, InitPlaces, StepKeepsPlaces, PTL DEF ImagesSpec

-----------------------------------------------------------------------------
(* Surfaces *)

CountsOK == /\ pc \in [Calls -> Steps]
            /\ surface \in [Calls -> Surfaces \cup {Nothing}]
            /\ \A c \in Calls : pc[c] \in Holding => surface[c] \in Surfaces
            /\ refs \in Count /\ resolved \in Count /\ exported \in Count
            /\ SurfacesAreReleased

LEMMA HoldersAreFinite ==
    ASSUME NEW s PROVE IsFiniteSet(Holders(s)) /\ Cardinality(Holders(s)) \in Nat
<1>1. Holders(s) \subseteq Calls
    BY DEF Holders
<1>2. IsFiniteSet(Holders(s))
    BY <1>1, FS_Subset, ImagesAssumption
<1>3. QED
    BY <1>2, FS_CardinalityType

LEMMA InitCounts == ImagesInit => CountsOK
<1> SUFFICES ASSUME ImagesInit PROVE CountsOK
    OBVIOUS
<1>1. "idle" \in Steps /\ "idle" \notin Holding
    BY DEF Steps, Holding
<1>2. \A s \in Surfaces : Holders(s) = {}
    BY <1>1 DEF ImagesInit, Holders
<1>3. \A s \in Surfaces : Cardinality(Holders(s)) = 0
    BY <1>2, FS_EmptySet
<1>4. QED
    BY <1>1, <1>3 DEF ImagesInit, CountsOK, Count, SurfacesAreReleased

\* The call of c goes on with what it holds, if anything.
LEMMA GoingKeeps ==
    ASSUME CountsOK, NEW c \in Calls, NEW to \in Steps, to \in Holding <=> pc[c] \in Holding,
           pc' = [pc EXCEPT ![c] = to], surface' \in [Calls -> Surfaces \cup {Nothing}],
           \A d \in Calls : d # c \/ pc[c] \in Holding => surface'[d] = surface[d],
           UNCHANGED surfaceVars
    PROVE  CountsOK'
<1>1. \A d \in Calls : /\ pc'[d] \in Holding <=> pc[d] \in Holding
                      /\ pc[d] \in Holding => surface'[d] = surface[d]
    BY DEF CountsOK
<1>2. \A s \in Surfaces : Holders(s)' = Holders(s)
    BY <1>1 DEF Holders
<1>3. QED
    BY <1>1, <1>2 DEF CountsOK, SurfacesAreReleased, surfaceVars

\* The call of c looks up s.
LEMMA LookingUpKeeps ==
    ASSUME CountsOK, NEW c \in Calls, NEW s \in Surfaces, NEW to \in {"resolve", "import"},
           LooksUp(c, s, to)
    PROVE  CountsOK'
<1>1. /\ pc[c] \notin Holding /\ to \in Holding /\ to \in Steps
      /\ pc' = [pc EXCEPT ![c] = to] /\ surface' = [surface EXCEPT ![c] = s]
      /\ refs' = [refs EXCEPT ![s] = refs[s] + 1] /\ UNCHANGED <<resolved, exported>>
    BY DEF LooksUp, Holding, Steps
<1>2. /\ pc'[c] = to /\ surface'[c] = s
      /\ \A d \in Calls \ {c} : pc'[d] = pc[d] /\ surface'[d] = surface[d]
    BY <1>1 DEF CountsOK
<1>3. c \notin Holders(s) /\ Holders(s)' = Holders(s) \cup {c}
      /\ \A v \in Surfaces \ {s} : Holders(v)' = Holders(v)
    BY <1>1, <1>2 DEF Holders
<1>4. Cardinality(Holders(s)') = Cardinality(Holders(s)) + 1
    BY <1>3, HoldersAreFinite, FS_AddElement
<1>5. SurfacesAreReleased'
  <2> SUFFICES ASSUME NEW v \in Surfaces
               PROVE  refs'[v] = resolved[v] + exported[v] + Cardinality(Holders(v)')
      BY <1>1 DEF SurfacesAreReleased
  <2>1. refs[v] = resolved[v] + exported[v] + Cardinality(Holders(v))
        /\ refs[v] \in Nat /\ resolved[v] \in Nat /\ exported[v] \in Nat
        /\ Cardinality(Holders(v)) \in Nat
      BY HoldersAreFinite DEF CountsOK, SurfacesAreReleased, Count
  <2>2. CASE v = s
      BY <1>1, <1>4, <2>1, <2>2 DEF CountsOK, Count
  <2>3. CASE v # s
      BY <1>1, <1>3, <2>1, <2>3 DEF CountsOK, Count
  <2>4. QED
      BY <2>2, <2>3
<1>6. refs' \in Count
    BY <1>1 DEF CountsOK, Count
<1>7. QED
    BY <1>1, <1>2, <1>5, <1>6 DEF CountsOK

\* The call of c has nothing any more: it has released its reference, or a
\* ResolvedSurface has it.
LEMMA LettingGoKeeps ==
    ASSUME CountsOK, NEW c \in Calls, pc[c] \in Holding, NEW to \in Steps \ Holding,
           pc' = [pc EXCEPT ![c] = to], surface' \in [Calls -> Surfaces \cup {Nothing}],
           \A d \in Calls \ {c} : surface'[d] = surface[d],
           UNCHANGED exported,
           \/ Releases(c)
           \/ /\ resolved' = [resolved EXCEPT ![surface[c]] = @ + 1]
              /\ UNCHANGED refs
    PROVE  CountsOK'
<1>0. PICK s \in Surfaces : s = surface[c]
    BY DEF CountsOK
<1>1. pc'[c] = to /\ \A d \in Calls \ {c} : pc'[d] = pc[d]
    BY DEF CountsOK
<1>2. c \in Holders(s) /\ Holders(s)' = Holders(s) \ {c}
      /\ \A v \in Surfaces \ {s} : Holders(v)' = Holders(v)
  <2>1. \A v \in Surfaces, d \in Calls :
           d \in Holders(v)' <=> d \in Holders(v) /\ d # c
      BY <1>1 DEF Holders
  <2>2. \A v \in Surfaces : Holders(v) \subseteq Calls /\ Holders(v)' \subseteq Calls
                             /\ (c \in Holders(v) <=> v = s)
      BY <1>0 DEF Holders
  <2>3. QED
      BY <2>1, <2>2
<1>3. Cardinality(Holders(s)') = Cardinality(Holders(s)) - 1
    BY <1>2, HoldersAreFinite, FS_RemoveElement
<1>4. ASSUME NEW v \in Surfaces
      PROVE  /\ refs[v] = resolved[v] + exported[v] + Cardinality(Holders(v))
             /\ refs[v] \in Nat /\ resolved[v] \in Nat /\ exported[v] \in Nat
             /\ Cardinality(Holders(v)) \in Nat
    BY HoldersAreFinite DEF CountsOK, SurfacesAreReleased, Count
<1>5. Cardinality(Holders(s)') \in Nat
    BY HoldersAreFinite, <1>2, FS_RemoveElement, FS_CardinalityType
<1>6. /\ \A v \in Surfaces \ {s} : refs'[v] = refs[v] /\ resolved'[v] = resolved[v]
      /\ \/ refs'[s] = refs[s] - 1 /\ resolved'[s] = resolved[s]
         \/ refs'[s] = refs[s] /\ resolved'[s] = resolved[s] + 1
      /\ refs' = [v \in Surfaces |-> refs'[v]] /\ resolved' = [v \in Surfaces |-> resolved'[v]]
  <2>1. refs \in [Surfaces -> Nat] /\ resolved \in [Surfaces -> Nat]
      BY DEF CountsOK, Count
  <2>2. CASE Releases(c)
      BY <1>0, <2>1, <2>2 DEF Releases
  <2>3. CASE resolved' = [resolved EXCEPT ![surface[c]] = @ + 1] /\ UNCHANGED refs
      BY <1>0, <2>1, <2>3
  <2>4. QED
      BY <2>2, <2>3
<1>7. ASSUME NEW v \in Surfaces
      PROVE  /\ refs'[v] \in Nat /\ resolved'[v] \in Nat
             /\ refs'[v] = resolved'[v] + exported[v] + Cardinality(Holders(v)')
  <2>1. CASE v = s
      BY <1>1, <1>3, <1>4, <1>5, <1>6, <2>1
  <2>2. CASE v # s
      BY <1>2, <1>4, <1>6, <2>2
  <2>3. QED
      BY <2>1, <2>2
<1>8. refs' \in Count /\ resolved' \in Count /\ SurfacesAreReleased'
    BY <1>6, <1>7 DEF Count, SurfacesAreReleased
<1>9. \A d \in Calls : pc'[d] \in Holding => surface'[d] \in Surfaces
    BY <1>1 DEF CountsOK
<1>10. QED
    BY <1>8, <1>9 DEF CountsOK

LEMMA CallKeepsCounts ==
    ASSUME CountsOK, NEW c \in Calls, ImageCall(c)
    PROVE  CountsOK'
<1> USE DEF surfaceVars
<1>0. /\ \A to \in Steps \ Holding : to \in Steps
      /\ "idle" \in Steps \ Holding /\ "memory" \in Steps \ Holding /\ "bind" \in Steps \ Holding
      /\ "view" \in Steps \ Holding /\ "view with memory" \in Steps \ Holding
      /\ Holding \subseteq Steps
    BY DEF Steps, Holding
<1>1. CASE Creates(c) \/ AllocatesMemory(c) \/ BindsMemory(c)
  <2>1. PICK to \in {"memory", "bind", "view with memory"} : Goes(c, to)
      BY <1>1 DEF Creates, AllocatesMemory, BindsMemory
  <2>2. pc[c] \notin Holding /\ UNCHANGED surfaceVars
      BY <1>0, <1>1 DEF Creates, AllocatesMemory, BindsMemory
  <2>3. QED
      BY <1>0, <2>1, <2>2, GoingKeeps DEF Goes, CountsOK
<1>2. CASE MakesView(c) \/ FailsHalfway(c)
  <2>1. pc[c] \notin Holding /\ Returns(c) /\ UNCHANGED surfaceVars
      BY <1>0, <1>2 DEF MakesView, FailsHalfway
  <2>2. surface' \in [Calls -> Surfaces \cup {Nothing}]
        /\ \A d \in Calls \ {c} : surface'[d] = surface[d]
      BY <2>1 DEF Returns, CountsOK
  <2>3. QED
      BY <1>0, <2>1, <2>2, GoingKeeps DEF Returns
<1>3. CASE \E s \in Surfaces, to \in {"resolve", "import"} : LooksUp(c, s, to)
    BY <1>3, LookingUpKeeps
<1>4. CASE RefusesEmpty(c) \/ RefusesMisfit(c) \/ HandsOver(c)
  <2>1. pc[c] \in Holding /\ Returns(c)
      BY <1>4 DEF RefusesEmpty, RefusesMisfit, HandsOver, Holding
  <2>2. surface' \in [Calls -> Surfaces \cup {Nothing}]
        /\ \A d \in Calls \ {c} : surface'[d] = surface[d]
      BY <2>1 DEF Returns, CountsOK
  <2>3. QED
      BY <1>0, <1>4, <2>1, <2>2, LettingGoKeeps
         DEF Returns, RefusesEmpty, RefusesMisfit, HandsOver, Releases
<1>5. CASE FindsSize(c) \/ ImportsImage(c)
  <2>1. PICK to \in Holding : Goes(c, to)
      BY <1>5 DEF FindsSize, ImportsImage, AfterImage, Holding
  <2>2. pc[c] \in Holding /\ UNCHANGED surfaceVars
      BY <1>5 DEF FindsSize, ImportsImage, Holding
  <2>3. QED
      BY <1>0, <2>1, <2>2, GoingKeeps DEF Goes, CountsOK
<1>6. CASE ReleasesImported(c)
  <2>1. pc[c] \in Holding /\ Releases(c) /\ (Returns(c) \/ Goes(c, "view"))
      BY <1>6 DEF ReleasesImported, Holding
  <2>2. surface' \in [Calls -> Surfaces \cup {Nothing}]
        /\ \A d \in Calls \ {c} : surface'[d] = surface[d]
      BY <2>1 DEF Returns, Goes, CountsOK
  <2>3. PICK to \in {"idle", "view"} : pc' = [pc EXCEPT ![c] = to]
      BY <2>1 DEF Returns, Goes
  <2>4. QED
      BY <1>0, <2>1, <2>2, <2>3, LettingGoKeeps DEF Releases
<1>7. QED
    BY <1>1, <1>2, <1>3, <1>4, <1>5, <1>6 DEF ImageCall

LEMMA StepKeepsCounts == CountsOK /\ [ImagesNext]_imageVars => CountsOK'
<1> SUFFICES ASSUME CountsOK, [ImagesNext]_imageVars PROVE CountsOK'
    OBVIOUS
\* no call takes part
<1>1. ASSUME UNCHANGED <<pc, surface>> PROVE \A s \in Surfaces : Holders(s)' = Holders(s)
    BY <1>1 DEF Holders
<1>2. ASSUME NEW s \in Surfaces, DropsResolved(s) PROVE CountsOK'
    BY <1>1, <1>2, HoldersAreFinite DEF DropsResolved, CountsOK, Count, SurfacesAreReleased
<1>3. ASSUME NEW s \in Surfaces, Exports(s) PROVE CountsOK'
    BY <1>1, <1>3, HoldersAreFinite DEF Exports, CountsOK, Count, SurfacesAreReleased
<1>4. CASE UNCHANGED <<pc, surface, surfaceVars>>
    BY <1>1, <1>4 DEF surfaceVars, CountsOK, SurfacesAreReleased
<1>5. CASE \E p \in Places : Destroys(p) \/ DropsImage(p)
    BY <1>4, <1>5 DEF Destroys, DropsImage
<1>6. CASE UNCHANGED imageVars
    BY <1>4, <1>6 DEF imageVars
<1>7. QED
    BY <1>2, <1>3, <1>5, <1>6, CallKeepsCounts DEF ImagesNext

\* Every path of resolve and import accounts for the reference it has looked up, for
\* any number of calls at once, of surfaces and of references.
THEOREM SurfacesAreAccounted == ImagesSpec => []SurfacesAreReleased
<1>1. CountsOK => SurfacesAreReleased
    BY DEF CountsOK
<1>2. QED
    BY <1>1, InitCounts, StepKeepsCounts, PTL DEF ImagesSpec
=============================================================================
