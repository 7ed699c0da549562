----------------------------- MODULE EventLoop -----------------------------
(***************************************************************************)
(* The event loop, src/src/platform/loop_/mod.rs: start and stop of its    *)
(* thread, and its timers.  Callers are threads that use the loop.  Every  *)
(* access to an atomic, every block under a mutex, every kevent64 and the  *)
(* join are steps of their own.  Calls that return without any effect      *)
(* (start of a running loop, stop of a stopped one, add_timer on a full    *)
(* table) are no steps.                                                    *)
(*                                                                         *)
(* The kernel's part (kevent64, threads, join) is external.  Left out are  *)
(* the callbacks for descriptors and for Mach messages, and callbacks that *)
(* stop their own loop: joining one's own thread panics.                   *)
(***************************************************************************)
EXTENDS Integers, Sequences, FiniteSets

CONSTANTS Callers,
          Threads,      \* loop threads, spawned at most once each: a bound
          MaxTimers,    \* MAX_TIMERS
          MaxIds,       \* bound: timers ever added
          Nobody        \* no thread, no holder, no timer

ASSUME EventLoopAssumption == /\ MaxTimers \in Nat \ {0} /\ MaxIds \in Nat
                              /\ Nobody \notin Callers \cup Threads \cup Nat

VARIABLES
    running,    \* the flag
    handle,     \* the thread whose JoinHandle is stored, or Nobody
    lock,       \* who holds the mutex of handle
    timers,     \* the timer table
    nextId,     \* next_timer_id
    kernel,     \* timers registered with kqueue
    due,        \* those with an event that nobody has fetched
    cpc,        \* where each caller is
    carg,       \* the thread or timer its call is about
    tpc,        \* where each loop thread is
    batch,      \* the timer events it has fetched and not dispatched
    found,      \* the timer whose callback it has looked up, or Nobody
    removed,    \* history: timers for which remove_timer has returned
    late,       \* history: callbacks begun after that
    overlapped  \* history: a start or a stop took effect during another one

loopVars == <<running, handle, lock, tpc>>
timerVars == <<timers, nextId, kernel, due>>
vars == <<running, handle, lock, timers, nextId, kernel, due, cpc, carg, tpc,
          batch, found, removed, late, overlapped>>

Ids == 1 .. MaxIds

Init ==
    /\ running = FALSE
    /\ handle = Nobody
    /\ lock = Nobody
    /\ timers = <<>>
    /\ nextId = 1
    /\ kernel = {} /\ due = {}
    /\ cpc = [c \in Callers |-> "idle"]
    /\ carg = [c \in Callers |-> Nobody]
    /\ tpc = [t \in Threads |-> "unborn"]
    /\ batch = [t \in Threads |-> {}]
    /\ found = [t \in Threads |-> Nobody]
    /\ removed = {}
    /\ late = [i \in Ids |-> 0]
    /\ overlapped = FALSE

Goes(c, to, arg) == /\ cpc' = [cpc EXCEPT ![c] = to]
                    /\ carg' = [carg EXCEPT ![c] = arg]

Switching == {c \in Callers : cpc[c] \in {"spawn", "store", "take", "join"}}
Overlaps == overlapped' = (overlapped \/ Switching # {})

-----------------------------------------------------------------------------
(* start                                                                   *)

StartSwaps(c) ==
    /\ cpc[c] = "idle"
    /\ ~running
    /\ \E t \in Threads : tpc[t] = "unborn"
    /\ running' = TRUE
    /\ Overlaps
    /\ Goes(c, "spawn", Nobody)
    /\ UNCHANGED <<handle, lock, tpc, timerVars, batch, found, removed, late>>

Spawns(c, t) ==
    /\ cpc[c] = "spawn"
    /\ tpc[t] = "unborn"
    /\ tpc' = [tpc EXCEPT ![t] = "check"]
    /\ Goes(c, "store", t)
    /\ UNCHANGED <<running, handle, lock, timerVars, batch, found, removed, late,
                   overlapped>>

StoresHandle(c) ==
    /\ cpc[c] = "store"
    /\ lock = Nobody
    /\ handle' = carg[c]
    /\ Goes(c, "idle", Nobody)
    /\ UNCHANGED <<running, lock, tpc, timerVars, batch, found, removed, late,
                   overlapped>>

-----------------------------------------------------------------------------
(* stop: the thread is joined with the mutex held.                         *)

StopSwaps(c) ==
    /\ cpc[c] = "idle"
    /\ running
    /\ running' = FALSE
    /\ Overlaps
    /\ Goes(c, "take", Nobody)
    /\ UNCHANGED <<handle, lock, tpc, timerVars, batch, found, removed, late>>

TakesNothing(c) ==
    /\ cpc[c] = "take"
    /\ lock = Nobody /\ handle = Nobody
    /\ Goes(c, "idle", Nobody)
    /\ UNCHANGED <<loopVars, timerVars, batch, found, removed, late, overlapped>>

TakesHandle(c) ==
    /\ cpc[c] = "take"
    /\ lock = Nobody /\ handle # Nobody
    /\ lock' = c
    /\ handle' = Nobody
    /\ Goes(c, "join", handle)
    /\ UNCHANGED <<running, tpc, timerVars, batch, found, removed, late, overlapped>>

\* mutant: the handle is dropped and the thread left alone
HasEndedAlways(t) == TRUE

HasEnded(t) == tpc[t] = "done"

Joins(c) ==
    /\ cpc[c] = "join"
    /\ HasEnded(carg[c])
    /\ lock' = Nobody
    /\ Goes(c, "idle", Nobody)
    /\ UNCHANGED <<running, handle, tpc, timerVars, batch, found, removed, late,
                   overlapped>>

-----------------------------------------------------------------------------
(* add_timer                                                               *)

Inactive == {k \in DOMAIN timers : ~timers[k].active}

\* The first inactive entry is replaced, or the table grows.
Placed(entry) ==
    IF Inactive = {} THEN Append(timers, entry)
    ELSE [timers EXCEPT ![CHOOSE k \in Inactive : \A j \in Inactive : k <= j] = entry]

Lists(c) ==
    /\ cpc[c] = "idle"
    /\ nextId <= MaxIds
    /\ ~(Len(timers) >= MaxTimers /\ Inactive = {})
    /\ nextId' = nextId + 1
    /\ timers' = Placed([id |-> nextId, active |-> TRUE])
    /\ Goes(c, "register", nextId)
    /\ UNCHANGED <<loopVars, kernel, due, batch, found, removed, late, overlapped>>

Registers(c) ==
    /\ cpc[c] = "register"
    /\ kernel' = kernel \cup {carg[c]}
    /\ Goes(c, "idle", Nobody)
    /\ UNCHANGED <<loopVars, timers, nextId, due, batch, found, removed, late,
                   overlapped>>

\* The first entry with the id, if there is one, becomes inactive.
Deactivated(id) == [k \in DOMAIN timers |->
                      IF timers[k].id = id THEN [timers[k] EXCEPT !.active = FALSE]
                      ELSE timers[k]]

\* mutant: the entry of a timer the kernel refused stays active
AfterRefusalKept(id) == timers

AfterRefusal(id) == Deactivated(id)

\* kevent64 fails: add_timer returns None.
RegisterFails(c) ==
    /\ cpc[c] = "register"
    /\ timers' = AfterRefusal(carg[c])
    /\ Goes(c, "idle", Nobody)
    /\ UNCHANGED <<loopVars, nextId, kernel, due, batch, found, removed, late,
                   overlapped>>

-----------------------------------------------------------------------------
(* remove_timer, of a timer whose add_timer has returned                   *)

\* mutant: the kernel goes on with the timer
UnregisteredNot(id) == kernel

Unregistered(id) == kernel \ {id}

Unregisters(c, id) ==
    /\ cpc[c] = "idle"
    /\ id < nextId /\ \A d \in Callers : carg[d] # id
    /\ kernel' = Unregistered(id)
    /\ due' = due \ {id}
    /\ Goes(c, "unlist", id)
    /\ UNCHANGED <<loopVars, timers, nextId, batch, found, removed, late, overlapped>>

Unlists(c) ==
    /\ cpc[c] = "unlist"
    /\ timers' = Deactivated(carg[c])
    /\ removed' = removed \cup {carg[c]}
    /\ Goes(c, "idle", Nobody)
    /\ UNCHANGED <<loopVars, nextId, kernel, due, batch, found, late, overlapped>>

-----------------------------------------------------------------------------
(* thread_main and run_once                                                *)

\* mutant: the flag is not looked at again
GoesOnAlways == TRUE

GoesOn == running

ChecksFlag(t) ==
    /\ tpc[t] = "check"
    /\ tpc' = [tpc EXCEPT ![t] = IF GoesOn THEN "poll" ELSE "done"]
    /\ UNCHANGED <<running, handle, lock, timerVars, cpc, carg, batch, found, removed,
                   late, overlapped>>

After(left) == IF left = {} THEN "check" ELSE "dispatch"

\* kevent64 returns the events there are, or none after 50 ms.
Fetches(t) ==
    /\ tpc[t] = "poll"
    /\ batch' = [batch EXCEPT ![t] = due]
    /\ due' = {}
    /\ tpc' = [tpc EXCEPT ![t] = After(due)]
    /\ UNCHANGED <<running, handle, lock, timers, nextId, kernel, cpc, carg,
                   found, removed, late, overlapped>>

Listed(id) == \E k \in DOMAIN timers : timers[k].id = id

\* The entry's callback is copied under the mutex, whether the entry is active or
\* not.
Finds(t, id) ==
    /\ tpc[t] = "dispatch" /\ id \in batch[t]
    /\ Listed(id)
    /\ batch' = [batch EXCEPT ![t] = @ \ {id}]
    /\ found' = [found EXCEPT ![t] = id]
    /\ tpc' = [tpc EXCEPT ![t] = "found"]
    /\ UNCHANGED <<running, handle, lock, timerVars, cpc, carg, removed, late,
                   overlapped>>

\* The entry has been replaced.
Ignores(t, id) ==
    /\ tpc[t] = "dispatch" /\ id \in batch[t]
    /\ ~Listed(id)
    /\ batch' = [batch EXCEPT ![t] = @ \ {id}]
    /\ tpc' = [tpc EXCEPT ![t] = After(batch[t] \ {id})]
    /\ UNCHANGED <<running, handle, lock, timerVars, cpc, carg, found, removed,
                   late, overlapped>>

\* It is called without the mutex.
CallsBack(t) ==
    /\ tpc[t] = "found"
    /\ found' = [found EXCEPT ![t] = Nobody]
    /\ tpc' = [tpc EXCEPT ![t] = "callback"]
    /\ late' = [i \in Ids |-> IF i = found[t] /\ i \in removed THEN late[i] + 1
                                                            ELSE late[i]]
    /\ UNCHANGED <<running, handle, lock, timerVars, cpc, carg, batch, removed,
                   overlapped>>

CallbackReturns(t) ==
    /\ tpc[t] = "callback"
    /\ tpc' = [tpc EXCEPT ![t] = After(batch[t])]
    /\ UNCHANGED <<running, handle, lock, timerVars, cpc, carg, batch, found,
                   removed, late, overlapped>>

\* A period of a registered timer ends.
Fires(id) ==
    /\ id \in kernel \ due
    /\ due' = due \cup {id}
    /\ UNCHANGED <<loopVars, timers, nextId, kernel, cpc, carg, batch, found, removed,
                   late, overlapped>>

-----------------------------------------------------------------------------
CallGoesOn(c) == \/ \E t \in Threads : Spawns(c, t)
                 \/ StoresHandle(c)
                 \/ TakesNothing(c) \/ TakesHandle(c) \/ Joins(c)
                 \/ Registers(c) \/ RegisterFails(c)
                 \/ Unlists(c)

CallBegins(c) == \/ StartSwaps(c) \/ StopSwaps(c) \/ Lists(c)
                 \/ \E id \in Ids : Unregisters(c, id)

ThreadGoesOn(t) == \/ ChecksFlag(t) \/ Fetches(t) \/ CallsBack(t) \/ CallbackReturns(t)
                   \/ \E id \in Ids : Finds(t, id) \/ Ignores(t, id)

Next == \/ \E c \in Callers : CallBegins(c) \/ CallGoesOn(c)
        \/ \E t \in Threads : ThreadGoesOn(t)
        \/ \E id \in Ids : Fires(id)

Spec == Init /\ [][Next]_vars

\* Callers and threads are scheduled, and callbacks return.
FairSpec == /\ Spec
            /\ \A c \in Callers : WF_vars(CallGoesOn(c))
            /\ \A t \in Threads : WF_vars(ThreadGoesOn(t))

-----------------------------------------------------------------------------
(* Properties *)

TypeOK ==
    /\ running \in BOOLEAN
    /\ handle \in Threads \cup {Nobody}
    /\ lock \in Callers \cup {Nobody}
    /\ timers \in Seq([id : Ids, active : BOOLEAN]) /\ Len(timers) <= MaxTimers
    /\ nextId \in 1 .. MaxIds + 1
    /\ kernel \in SUBSET Ids /\ due \in SUBSET kernel
    /\ cpc \in [Callers -> {"idle", "spawn", "store", "take", "join", "register",
                            "unlist"}]
    /\ carg \in [Callers -> Threads \cup Ids \cup {Nobody}]
    /\ tpc \in [Threads -> {"unborn", "check", "poll", "dispatch", "found", "callback",
                            "done"}]
    /\ batch \in [Threads -> SUBSET Ids]
    /\ found \in [Threads -> Ids \cup {Nobody}]
    /\ removed \in SUBSET Ids
    /\ late \in [Ids -> Nat]
    /\ overlapped \in BOOLEAN

Looping == {t \in Threads : tpc[t] \notin {"unborn", "done"}}

\* Unless a start or a stop took effect during another one, there is at most one
\* loop thread, and none once stop has returned: no callback runs after that.
\* And a running loop can be stopped: its handle is there, and its thread alive.
StopEndsTheLoop ==
    ~overlapped => /\ Cardinality(Looping) <= 1
                   /\ ~running /\ Switching = {} => Looping = {}
                   /\ running /\ Switching = {} => handle \in Looping

\* A callback may still begin after remove_timer has returned, for an event that
\* had been fetched before; but only once.
LateCallbackIsTheLast == ~overlapped => \A i \in Ids : late[i] <= 1

\* Between the timer calls the kernel has exactly the timers that are active in
\* the table, and no timer is there twice.
TableMatchesKernel ==
    (\A c \in Callers : cpc[c] \notin {"register", "unlist"}) =>
        /\ kernel = {timers[k].id : k \in DOMAIN timers \ Inactive}
        /\ \A j, k \in DOMAIN timers : timers[j].id = timers[k].id => j = k

\* stop returns, whatever starts and stops came before, unless a start takes effect
\* while it waits: it may then wait for the thread of the loop that goes on.
StopReturns ==
    \A c \in Callers : cpc[c] \in {"take", "join"} ~> cpc[c] = "idle" \/ running
=============================================================================
