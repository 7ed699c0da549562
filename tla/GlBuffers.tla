----------------------------- MODULE GlBuffers -----------------------------
(***************************************************************************)
(* The OpenGL buffer shim, src/src/frameworks/opengl_sys.rs: the table of  *)
(* buffers, the two bindings, and the global context they are in.          *)
(*                                                                         *)
(* The context is made by whoever finds it missing, without a lock, in a   *)
(* static mut that later calls overwrite in place: its mutex and its table *)
(* are then new, whoever is inside.  A call that has the mutex is one      *)
(* step; calls with n names are modelled for one.  Panics and faults end   *)
(* the process (panic = "abort", extern "C").                              *)
(*                                                                         *)
(* The device is external: it may fail, and it uses handles again.         *)
(***************************************************************************)
EXTENDS Integers

CONSTANTS Threads,
          IdModulus,   \* GLuint has 2^32 values; the release build wraps
          Handles,     \* bound: device buffers at a time, each with its memory
          Null         \* no device buffer, no thread

Targets == {"array", "element"}
Ids == 0 .. IdModulus - 1
Unnamed == "unnamed"

ASSUME GlAssumption == IdModulus \in Nat \ {0, 1} /\ Null \notin Handles \cup Threads
                       /\ Unnamed \notin Handles \cup {Null}

VARIABLES
    context,   \* GL_CONTEXT is Some
    owner,     \* thread that holds the context's mutex
    table,     \* GlContext.buffers: Unnamed, Null or a device buffer
    bound,     \* bound_array_buffer, bound_element_buffer
    nextId,    \* next_id
    device,    \* G_SHARED_DEVICE is Some
    live,      \* buffers of the device
    glPc,      \* where each thread is in a call
    dead,      \* the process has panicked or faulted
    raced,     \* history: two first calls have overlapped
    wrapped,   \* history: next_id has come round, names are given again
    deleted    \* history: ids that glDeleteBuffers has taken from the table

glVars == <<context, owner, table, bound, nextId, device, live, glPc, dead,
            raced, wrapped, deleted>>

NoTable == [i \in Ids |-> Unnamed]

GlInit ==
    /\ context = FALSE
    /\ owner = Null
    /\ table = NoTable
    /\ bound = [g \in Targets |-> 0]
    /\ nextId = 1
    /\ device = FALSE
    /\ live = {}
    /\ glPc = [t \in Threads |-> "idle"]
    /\ dead = FALSE /\ raced = FALSE /\ wrapped = FALSE
    /\ deleted = {}

-----------------------------------------------------------------------------
(* get_context and its lock                                                *)

\* mutant: the context is made anew by every call
MissingAlways == TRUE

\* GL_CONTEXT.is_none()
Missing == ~context

\* A call other than glBindBuffer returns at once while there is no device.
Enters(t, op) ==
    /\ ~dead
    /\ glPc[t] = "idle"
    /\ op = "bind" \/ device
    /\ glPc' = [glPc EXCEPT ![t] = IF Missing THEN "make" ELSE "lock"]
    /\ UNCHANGED <<context, owner, table, bound, nextId, device, live, dead,
                   raced, wrapped, deleted>>

\* GL_CONTEXT = Some(Mutex::new(GlContext::new()))
Makes(t) ==
    /\ ~dead
    /\ glPc[t] = "make"
    /\ context' = TRUE
    /\ owner' = Null
    /\ table' = NoTable
    /\ bound' = [g \in Targets |-> 0]
    /\ nextId' = 1
    /\ raced' = (raced \/ \E u \in Threads \ {t} : glPc[u] = "make")
    /\ glPc' = [glPc EXCEPT ![t] = "lock"]
    /\ UNCHANGED <<device, live, dead, wrapped, deleted>>

Locks(t) ==
    /\ ~dead
    /\ glPc[t] = "lock"
    /\ owner = Null
    /\ owner' = t
    /\ glPc' = [glPc EXCEPT ![t] = "inside"]
    /\ UNCHANGED <<context, table, bound, nextId, device, live, dead, raced,
                   wrapped, deleted>>

\* The rest of the call, up to the unlock; the guard frees whatever mutex is there.
Inside(t) == ~dead /\ glPc[t] = "inside"
Unlocks(t) == /\ owner' = Null
              /\ glPc' = [glPc EXCEPT ![t] = "idle"]
              /\ UNCHANGED <<context, device, raced>>

-----------------------------------------------------------------------------
(* The calls                                                               *)

\* mutant: the smallest name that is free
NextIdLowest == CHOOSE i \in Ids \ {0} :
                    (\E j \in Ids \ {0} : table'[j] = Unnamed) => table'[i] = Unnamed

NextId == (nextId + 1) % IdModulus

\* glGenBuffers: a name that is taken loses what it stood for.
Gens(t) ==
    /\ Inside(t)
    /\ table' = [table EXCEPT ![nextId] = Null]
    /\ nextId' = NextId
    /\ wrapped' = (wrapped \/ nextId = 0)
    /\ Unlocks(t)
    /\ UNCHANGED <<bound, live, dead, deleted>>

\* In a build that checks for overflow the last name is never given.
GenOverflows(t) ==
    /\ Inside(t)
    /\ nextId + 1 = IdModulus
    /\ dead' = TRUE
    /\ UNCHANGED <<context, owner, table, bound, nextId, device, live, glPc,
                   raced, wrapped, deleted>>

\* glBindBuffer: any number will do.
Binds(t, g, i) ==
    /\ Inside(t)
    /\ bound' = [bound EXCEPT ![g] = i]
    /\ Unlocks(t)
    /\ UNCHANGED <<table, nextId, live, dead, wrapped, deleted>>

\* What the table has for the binding; 0 is no buffer.
Found(g) == IF bound[g] = 0 THEN Unnamed ELSE table[bound[g]]

\* mutant: the old buffer is kept
ReplacedKept(h) == live

\* The device's buffers when h is destroyed, if it is one: by glBufferData and by
\* glDeleteBuffers.
Replaced(h) == live \ {h}
Destroyed(h) == live \ {h}

\* glBufferData: destroy, create, allocate, bind, and store.
Uploads(t, g) ==
    LET old == Found(g) IN
    /\ Inside(t)
    /\ old # Unnamed
    /\ \E h \in Handles \ Replaced(old) :
          /\ live' = Replaced(old) \cup {h}
          /\ table' = [table EXCEPT ![bound[g]] = h]
    /\ Unlocks(t)
    /\ UNCHANGED <<bound, nextId, dead, wrapped, deleted>>

\* Each of create_buffer, allocate_memory, bind_buffer_memory and map_memory is
\* unwrapped; glBufferSubData maps whatever range it is given.
UploadPanics(t, g) ==
    /\ Inside(t)
    /\ Found(g) # Unnamed
    /\ dead' = TRUE
    /\ UNCHANGED <<context, owner, table, bound, nextId, device, live, glPc,
                   raced, wrapped, deleted>>

\* glDeleteBuffers: the bindings stay as they are.
Deletes(t, i) ==
    /\ Inside(t)
    /\ table' = [table EXCEPT ![i] = Unnamed]
    /\ live' = Destroyed(table[i])
    /\ deleted' = IF table[i] = Unnamed THEN deleted ELSE deleted \cup {i}
    /\ Unlocks(t)
    /\ UNCHANGED <<bound, nextId, dead, wrapped>>

Drawable == \A g \in Targets : Found(g) \in Handles

\* glDrawElements records into a command buffer that is null: the driver faults.
Draws(t) ==
    /\ Inside(t)
    /\ Drawable
    /\ dead' = TRUE
    /\ UNCHANGED <<context, owner, table, bound, nextId, device, live, glPc,
                   raced, wrapped, deleted>>

\* A call that finds no buffer, and glBufferSubData where it has no effect here.
Passes(t) ==
    /\ Inside(t)
    /\ Unlocks(t)
    /\ UNCHANGED <<table, bound, nextId, live, dead, wrapped, deleted>>

\* set_global_shared_device
SetsDevice ==
    /\ ~dead
    /\ device' = TRUE
    /\ UNCHANGED <<context, owner, table, bound, nextId, live, glPc, dead, raced,
                   wrapped, deleted>>

GlCall(t) == \/ \E op \in {"bind", "other"} : Enters(t, op)
             \/ Makes(t) \/ Locks(t)
             \/ Gens(t) \/ GenOverflows(t)
             \/ \E i \in Ids : Deletes(t, i) \/ \E g \in Targets : Binds(t, g, i)
             \/ \E g \in Targets : Uploads(t, g) \/ UploadPanics(t, g)
             \/ Draws(t) \/ Passes(t)

GlNext == SetsDevice \/ \E t \in Threads : GlCall(t)

GlSpec == GlInit /\ [][GlNext]_glVars

-----------------------------------------------------------------------------
(* Properties *)

GlTypeOK ==
    /\ context \in BOOLEAN /\ device \in BOOLEAN
    /\ owner \in Threads \cup {Null}
    /\ table \in [Ids -> Handles \cup {Null, Unnamed}]
    /\ bound \in [Targets -> Ids]
    /\ nextId \in Ids
    /\ live \subseteq Handles
    /\ glPc \in [Threads -> {"idle", "make", "lock", "inside"}]
    /\ dead \in BOOLEAN /\ raced \in BOOLEAN /\ wrapped \in BOOLEAN
    /\ deleted \subseteq Ids

\* At most one thread works on the context, unless two first calls of the process
\* found it missing at the same time.
OneInside ==
    ~raced => \A t, u \in Threads : glPc[t] = "inside" /\ glPc[u] = "inside" => t = u

Named == {table[i] : i \in Ids} \ {Null, Unnamed}

\* No buffer is destroyed while a name stands for it, none has two names, and none
\* leaks: the device's buffers are those of the table.  Two first calls that have
\* overlapped may lose a whole table; once all names have been given, a name that is
\* given again takes the entry of a buffer that still has it, which then leaks.
BuffersHaveOwners ==
    ~raced => /\ Named \subseteq live
              /\ \A i, j \in Ids : table[i] = table[j] /\ table[i] \in Handles => i = j
              /\ ~wrapped => live \subseteq Named

\* Until all names have been given, and unless two first calls have overlapped, a
\* binding that outlives its buffer finds nothing: no upload or draw through it hits
\* a buffer that somebody made later.
StaleBindingHitsNothing ==
    ~raced /\ ~wrapped => \A g \in Targets : bound[g] \in deleted => Found(g) = Unnamed
=============================================================================
