---------------------------- MODULE SharedNames ----------------------------
(***************************************************************************)
(* The life of shared memory objects and their names: create, open and     *)
(* Drop of ShmSync (src/src/platform/shm/sync_ring.rs) and of Surface      *)
(* (src/src/platform/shm/surface.rs), whose steps are the same but for the *)
(* header and for the process's table of surfaces.                         *)
(*                                                                         *)
(* A thread has one handle at a time.  Every system call that others can   *)
(* see, every store to the header and every block under the table's mutex  *)
(* is a step.  The kernel is external: calls may fail, mmap picks any free *)
(* address, and a process that reads what it has mapped of an object       *)
(* without a size dies of it.                                              *)
(***************************************************************************)
EXTENDS Integers, FiniteSets

CONSTANTS Threads, Processes, ProcessOf,
          Names,
          Addresses,     \* where mmap may map something in a process
          MaxSurfaces,   \* MAX_SURFACES
          MaxObjects,    \* bound: objects at one time
          MaxDeaths,     \* bound: processes that die
          Nothing        \* no object, no address, no magic

Objects == 1 .. MaxObjects
Kinds == {"ring", "surface"}

ASSUME NamesAssumption == /\ ProcessOf \in [Threads -> Processes]
                          /\ Names # {}
                          /\ MaxSurfaces \in Nat \ {0}
                          /\ MaxObjects \in Nat /\ MaxDeaths \in Nat
                          /\ Nothing \notin Objects /\ Nothing \notin Addresses
                          /\ Nothing \notin Kinds

VARIABLES
    names,      \* the object a name refers to
    sized,      \* objects that ftruncate has given their size
    magic,      \* magic of an object's header
    pc,         \* where each thread is in create, open or Drop
    handle,     \* what it has got so far, later its ShmSync or Surface
    mapped,     \* addresses that are mapped in each process
    table,      \* SLOT_TABLE of each process: the addresses, with who listed
                \* them; their order in the Vec makes no difference
    deaths,
    orphans,    \* history: objects whose owner died
    rivals,     \* history: threads whose name another one created meanwhile
    uncounted   \* history: surfaces that found the table full, or got an
                \* address that a Drop had still to take out of the table

objectVars == <<sized, magic>>
history == <<orphans, rivals, uncounted>>
nameVars == <<names, sized, magic, pc, handle, mapped, table, deaths,
              orphans, rivals, uncounted>>

NoHandle == [kind |-> "ring", name |-> CHOOSE n \in Names : TRUE,
             object |-> Nothing, base |-> Nothing, owner |-> FALSE]
Mine(a) == ProcessOf[a]

NamesInit ==
    /\ names = [n \in Names |-> Nothing]
    /\ sized = {} /\ magic = [o \in Objects |-> Nothing]
    /\ pc = [a \in Threads |-> "idle"]
    /\ handle = [a \in Threads |-> NoHandle]
    /\ mapped = [x \in Processes |-> {}]
    /\ table = [x \in Processes |-> {}]
    /\ deaths = 0 /\ orphans = {} /\ rivals = {} /\ uncounted = {}

Goes(a, to) == pc' = [pc EXCEPT ![a] = to]

\* The call or the Drop returns, with no handle.
Ends(a) == /\ Goes(a, "idle")
           /\ handle' = [handle EXCEPT ![a] = NoHandle]

\* The thread has made the object and not yet unlinked its name.
Owning(a) == handle[a].owner /\ pc[a] \in {"size", "map", "fill", "register",
                                          "live", "unname"}
Creating(a) == Owning(a) \/ pc[a] \in {"replace", "retry"}
RivalsFor(a, n) == {b \in Threads \ {a} : Creating(b) /\ handle[b].name = n}

Unlinked(n) == [names EXCEPT ![n] = Nothing]

-----------------------------------------------------------------------------
(* create                                                                  *)

NewHandle(a, k, n, o) == handle' = [handle EXCEPT ![a] =
    [NoHandle EXCEPT !.kind = k, !.name = n, !.object = o, !.owner = o # Nothing]]

\* The kernel keeps an object while it has a name or somebody has it open.
Unused == Objects \ ({names[n] : n \in Names} \cup {handle[a].object : a \in Threads})

\* shm_open(O_CREAT | O_EXCL)
Makes(a, k, n) ==
    LET o == CHOOSE o \in Unused : TRUE IN
    /\ names[n] = Nothing
    /\ Unused # {}
    /\ names' = [names EXCEPT ![n] = o]
    /\ sized' = sized \ {o} /\ magic' = [magic EXCEPT ![o] = Nothing]
    /\ orphans' = orphans \ {o}
    /\ NewHandle(a, k, n, o)
    /\ Goes(a, "size")
    /\ UNCHANGED <<mapped, table, deaths, uncounted>>

\* Two that are at work on one name at the same time are rivals.
Contends(a, n) == rivals' = IF RivalsFor(a, n) = {} THEN rivals
                            ELSE rivals \cup RivalsFor(a, n) \cup {a}

Creates(a, k, n) == pc[a] = "idle" /\ Makes(a, k, n) /\ Contends(a, n)

\* EEXIST: whatever has the name loses it.
FindsOld(a, k, n) ==
    /\ pc[a] = "idle"
    /\ names[n] # Nothing
    /\ NewHandle(a, k, n, Nothing)
    /\ Goes(a, "replace")
    /\ Contends(a, n)
    /\ UNCHANGED <<names, objectVars, mapped, table, deaths, orphans, uncounted>>

Replaces(a) ==
    /\ pc[a] = "replace"
    /\ names' = Unlinked(handle[a].name)
    /\ Goes(a, "retry")
    /\ UNCHANGED <<objectVars, handle, mapped, table, deaths, history>>

Retries(a) == pc[a] = "retry" /\ Makes(a, handle[a].kind, handle[a].name)
              /\ UNCHANGED rivals

\* The second shm_open fails: another creator was faster, or the kernel refuses.
RetryFails(a) ==
    /\ pc[a] = "retry"
    /\ Ends(a)
    /\ rivals' = rivals \ {a}
    /\ UNCHANGED <<names, objectVars, mapped, table, deaths, orphans, uncounted>>

Sizes(a) ==
    /\ pc[a] = "size"
    /\ sized' = sized \cup {handle[a].object}
    /\ Goes(a, "map")
    /\ UNCHANGED <<names, magic, handle, mapped, table, deaths, history>>

AfterFailure(a) == Unlinked(handle[a].name)

\* ftruncate or mmap fails.
CreateFails(a) ==
    /\ handle[a].owner /\ pc[a] \in {"size", "map"}
    /\ names' = AfterFailure(a)
    /\ Ends(a)
    /\ rivals' = rivals \ {a}
    /\ UNCHANGED <<objectVars, mapped, table, deaths, orphans, uncounted>>

\* Addresses that a Drop in the process has unmapped and not yet unregistered.
Stale(x) == {handle[b].base : b \in {b \in Threads : /\ Mine(b) = x
                                                     /\ handle[b].kind = "surface"
                                                     /\ pc[b] \in {"unname", "unlist"}}}

\* mmap, of create and of open
Maps(a, p) ==
    /\ pc[a] = "map"
    /\ p \in Addresses \ mapped[Mine(a)]
    /\ mapped' = [mapped EXCEPT ![Mine(a)] = @ \cup {p}]
    /\ handle' = [handle EXCEPT ![a].base = p]
    /\ uncounted' = IF p \in Stale(Mine(a)) THEN uncounted \cup {a} ELSE uncounted
    /\ Goes(a, IF handle[a].owner THEN "fill"
               ELSE IF handle[a].kind = "ring" THEN "check" ELSE "register")
    /\ UNCHANGED <<names, objectVars, table, deaths, orphans, rivals>>

\* The stores to the header; the magic is all that open looks at.
Fills(a) ==
    /\ pc[a] = "fill"
    /\ magic' = [magic EXCEPT ![handle[a].object] = handle[a].kind]
    /\ Goes(a, IF handle[a].kind = "ring" THEN "live" ELSE "register")
    /\ UNCHANGED <<names, sized, handle, mapped, table, deaths, history>>

\* register_slot
HasRoom(t) == Cardinality(t) < MaxSurfaces
Entry(a) == [at |-> handle[a].base, by |-> a]
Listed(t, a) == IF HasRoom(t) THEN t \cup {Entry(a)} ELSE t

Registers(a) ==
    LET t == table[Mine(a)] IN
    /\ pc[a] = "register"
    /\ table' = [table EXCEPT ![Mine(a)] = Listed(t, a)]
    /\ uncounted' = IF HasRoom(t) THEN uncounted ELSE uncounted \cup {a}
    /\ Goes(a, "live")
    /\ UNCHANGED <<names, objectVars, handle, mapped, deaths, orphans, rivals>>

-----------------------------------------------------------------------------
(* open: a surface's magic is read before it is mapped, a ring's after     *)

Opens(a, k, n) ==
    /\ pc[a] = "idle"
    /\ names[n] # Nothing
    /\ handle' = [handle EXCEPT ![a] = [NoHandle EXCEPT !.kind = k, !.name = n,
                                                        !.object = names[n]]]
    /\ Goes(a, IF k = "ring" THEN "map" ELSE "probe")
    /\ UNCHANGED <<names, objectVars, mapped, table, deaths, history>>

Recognised(a) == magic[handle[a].object] = handle[a].kind

Probes(a) ==
    /\ pc[a] = "probe"
    /\ handle[a].object \in sized /\ Recognised(a)
    /\ Goes(a, "map")
    /\ UNCHANGED <<names, objectVars, handle, mapped, table, deaths, history>>

\* The read or the mmap fails, or it is no surface.
OpenFails(a) ==
    /\ ~handle[a].owner /\ pc[a] \in {"probe", "map"}
    /\ Ends(a)
    /\ UNCHANGED <<names, objectVars, mapped, table, deaths, history>>

Checks(a) ==
    /\ pc[a] = "check"
    /\ handle[a].object \in sized
    /\ IF Recognised(a) THEN Goes(a, "live") /\ UNCHANGED <<handle, mapped>>
       ELSE Ends(a) /\ mapped' = [mapped EXCEPT ![Mine(a)] = @ \ {handle[a].base}]
    /\ uncounted' = IF Recognised(a) THEN uncounted ELSE uncounted \ {a}
    /\ UNCHANGED <<names, objectVars, table, deaths, orphans, rivals>>

-----------------------------------------------------------------------------
(* Drop: munmap, close, shm_unlink if the handle is the owner's, and for a *)
(* surface unregister_slot                                                 *)

\* mutant: every handle unlinks the name
OwnsAlways(a) == TRUE

Owns(a) == handle[a].owner

\* After its last visible step a ring's Drop is over.
LeavesFor(a, to) ==
    IF to = "unlist" /\ handle[a].kind = "ring"
    THEN /\ Ends(a)
         /\ rivals' = rivals \ {a} /\ uncounted' = uncounted \ {a}
    ELSE Goes(a, to) /\ UNCHANGED <<handle, rivals, uncounted>>

Unmaps(a) ==
    /\ pc[a] = "live"
    /\ mapped' = [mapped EXCEPT ![Mine(a)] = @ \ {handle[a].base}]
    /\ LeavesFor(a, IF Owns(a) THEN "unname" ELSE "unlist")
    /\ UNCHANGED <<names, objectVars, table, deaths, orphans>>

Unnames(a) ==
    /\ pc[a] = "unname"
    /\ names' = Unlinked(handle[a].name)
    /\ LeavesFor(a, "unlist")
    /\ UNCHANGED <<objectVars, mapped, table, deaths, orphans>>

\* mutant: the entry stays in the table
UnlistedNot(t, p) == t

\* unregister_slot
Unlisted(t, p) == {e \in t : e.at # p}

Unregisters(a) ==
    /\ pc[a] = "unlist"
    /\ table' = [table EXCEPT ![Mine(a)] = Unlisted(@, handle[a].base)]
    /\ Ends(a)
    /\ rivals' = rivals \ {a} /\ uncounted' = uncounted \ {a}
    /\ UNCHANGED <<names, objectVars, mapped, deaths, orphans>>

-----------------------------------------------------------------------------
\* A process dies: its mappings and its table go, names and objects stay.
Kills(x) ==
    LET dead == {a \in Threads : Mine(a) = x} IN
    /\ pc' = [a \in Threads |-> IF a \in dead THEN "idle" ELSE pc[a]]
    /\ handle' = [a \in Threads |-> IF a \in dead THEN NoHandle ELSE handle[a]]
    /\ mapped' = [mapped EXCEPT ![x] = {}]
    /\ table' = [table EXCEPT ![x] = {}]
    /\ orphans' = orphans \cup {handle[a].object : a \in {b \in dead : Owning(b)}}
    /\ rivals' = rivals \ dead /\ uncounted' = uncounted \ dead
    /\ UNCHANGED <<names, objectVars>>

Dies(x) == deaths < MaxDeaths /\ deaths' = deaths + 1 /\ Kills(x)

\* A ring's open looks for the magic before its creator has called ftruncate.
Faults(a) == /\ pc[a] = "check"
             /\ handle[a].object \notin sized
             /\ Kills(Mine(a))
             /\ UNCHANGED deaths

CreateStep(a) == \/ \E k \in Kinds, n \in Names : Creates(a, k, n) \/ FindsOld(a, k, n)
                 \/ Replaces(a) \/ Retries(a) \/ RetryFails(a)
                 \/ Sizes(a) \/ CreateFails(a)
                 \/ \E p \in Addresses : Maps(a, p)
                 \/ Fills(a) \/ Registers(a)

OpenStep(a) == \/ \E k \in Kinds, n \in Names : Opens(a, k, n)
               \/ Probes(a) \/ OpenFails(a) \/ Checks(a) \/ Faults(a)

DropStep(a) == Unmaps(a) \/ Unnames(a) \/ Unregisters(a)

NamesNext == \/ \E a \in Threads : CreateStep(a) \/ OpenStep(a) \/ DropStep(a)
             \/ \E x \in Processes : Dies(x)

NamesSpec == NamesInit /\ [][NamesNext]_nameVars

-----------------------------------------------------------------------------
(* Properties *)

NamesTypeOK ==
    /\ names \in [Names -> Objects \cup {Nothing}]
    /\ sized \subseteq Objects
    /\ magic \in [Objects -> Kinds \cup {Nothing}]
    /\ pc \in [Threads -> {"idle", "replace", "retry", "size", "map", "fill",
                          "register", "probe", "check", "live", "unname", "unlist"}]
    /\ handle \in [Threads -> [kind : Kinds, name : Names,
                              object : Objects \cup {Nothing},
                              base : Addresses \cup {Nothing}, owner : BOOLEAN]]
    /\ mapped \in [Processes -> SUBSET Addresses]
    /\ table \in [Processes -> SUBSET [at : Addresses, by : Threads]]
    /\ \A x \in Processes : IsFiniteSet(table[x]) /\ Cardinality(table[x]) <= MaxSurfaces
    /\ deaths \in 0 .. MaxDeaths /\ orphans \subseteq Objects
    /\ rivals \subseteq Threads /\ uncounted \subseteq Threads

\* An owner's object is found by its name, unless another creator or owner of the
\* name was there at the same time: openers come and go, fail and drop their
\* handles without any effect on it.
OwnersAreFound ==
    \A a \in Threads : Owning(a) /\ a \notin rivals =>
        names[handle[a].name] = handle[a].object

\* No name is left behind: it refers to an object that somebody has created and
\* has still to unlink, or whose owner died.  So every failure of create, and
\* every Drop, gets rid of the name, in whatever order creators and droppers of
\* one name come.  And owners are found by their names.
NamesHaveOwners ==
    /\ \A n \in Names : names[n] # Nothing =>
          \/ \E a \in Threads : Owning(a) /\ handle[a].object = names[n]
          \/ names[n] \in orphans
    /\ OwnersAreFound

\* The table of a process lists nothing but its own surfaces whose Drop is not
\* over, and every surface once, unless it found the table full or got the address
\* of another one whose Drop had unmapped and not yet unregistered it.
ListedSurfaces(x) == {a \in Threads : /\ Mine(a) = x /\ handle[a].kind = "surface"
                                      /\ pc[a] \in {"live", "unname", "unlist"}}
TableTellsSurfaces ==
    \A x \in Processes :
        /\ \A e \in table[x] : \E a \in ListedSurfaces(x) : handle[a].base = e.at
        /\ \A a \in ListedSurfaces(x) \ uncounted : pc[a] = "live" =>
              Cardinality({e \in table[x] : e.at = handle[a].base}) = 1
=============================================================================
