------------------------------ MODULE HostIpc ------------------------------
(***************************************************************************)
(* The compositor's side of the Mach IPC: CompositorHost of                *)
(* src/src/platform/ipc/host.rs and the server that runs it,               *)
(* src/src/bridge/compositor.rs.                                           *)
(*                                                                         *)
(* A poller is a thread in run_once.  The handlers take the host's mutex   *)
(* for each block between a lock and its unlock; what they do after the    *)
(* unlock (the notifications, on_frame) is a step of its own, so other     *)
(* threads run in between.  A receive that times out changes nothing and   *)
(* is no step.                                                             *)
(*                                                                         *)
(* A send right is a number: 0 is MACH_PORT_NULL, and every message that   *)
(* carries a right carries a new one.                                      *)
(***************************************************************************)
EXTENDS Integers, Sequences, FiniteSets

CONSTANTS Tokens,        \* client tokens
          Pollers,       \* threads that call run_once; QmvServer starts one
          QueueLimit,    \* HOST_MAX_QUEUE
          ClientLimit    \* HOST_MAX_CLIENTS

ASSUME HostAssumption == /\ QueueLimit \in Nat \ {0} /\ ClientLimit \in Nat \ {0}
                         /\ Tokens # {}

VARIABLES
    mail,      \* messages in the service port, oldest first
    queue,     \* HostInner.queue: the frames that were accepted
    clients,   \* HostInner.clients
    hpc,       \* where each poller is in run_once
    hmsg,      \* the message it has received
    rights,    \* the send rights in the compositor's task
    view,      \* the tokens the ClientSink has been told are connected
    inHand,    \* surface port of the frame the main thread has popped, or 0
    released,  \* history: surface ports the main thread released
    heard,     \* history: tokens whose hello has been handled
    running,   \* QmvServer.running
    alive      \* the host exists, and its receive right with it

hostVars == <<mail, queue, clients, hpc, hmsg, rights, view, inHand, released,
              heard, running, alive>>

Seats == 1 .. ClientLimit
Empty == [active |-> FALSE, token |-> CHOOSE t \in Tokens : TRUE, reply |-> 0]
NoMsg == [kind |-> "none", token |-> CHOOSE t \in Tokens : TRUE, right |-> 0]

HostInit ==
    /\ mail = <<>>
    /\ queue = <<>>
    /\ clients = [i \in Seats |-> Empty]
    /\ hpc = [p \in Pollers |-> "idle"]
    /\ hmsg = [p \in Pollers |-> NoMsg]
    /\ rights = {}
    /\ view = {}
    /\ inHand = 0
    /\ released = {}
    /\ heard = {}
    /\ running = TRUE
    /\ alive = TRUE

-----------------------------------------------------------------------------
(***************************************************************************)
(* What the handlers are built from.  A definition marked mutant is what a *)
(* bug would make of the one after it: no action uses it, it shows that    *)
(* the properties notice.                                                  *)
(***************************************************************************)

\* mutants: only the first record is looked at; an active record is taken for a
\* new client
SeatsOfFirst(t) == {i \in {1} : clients[i].active /\ clients[i].token = t}
VacantAny == Seats

\* find_client_index and alloc_client_index: the first match, if any
SeatsOf(t) == {i \in Seats : clients[i].active /\ clients[i].token = t}
Vacant == {i \in Seats : ~clients[i].active}
FirstSeat(S) == CHOOSE i \in S : \A j \in S : i <= j

\* the right that comes with a message
Carried(m) == {m.right} \ {0}

\* mutant: the new frame goes to the front
EnqueuedFirst(f) == <<f>> \o (IF Len(queue) >= QueueLimit THEN Tail(queue) ELSE queue)

\* pop_front when the queue is full, then push_back
Enqueued(f) == Append(IF Len(queue) >= QueueLimit THEN Tail(queue) ELSE queue, f)

\* mutant: the evicted frame's right is kept
EvictedKept(f) == {}

\* the right that goes with the frame that was evicted for frame f
Evicted(f) == IF Len(queue) >= QueueLimit THEN {Head(queue)} ELSE {}

\* mach_port_deallocate on each of a set of rights
Deallocate(gone) == rights' = rights \ gone

Done(p) == /\ hpc' = [hpc EXCEPT ![p] = "idle"]
           /\ hmsg' = [hmsg EXCEPT ![p] = NoMsg]

\* mach_msg(MACH_RCV_MSG): the message, and the right in it, are ours now.
Receive(p) ==
    /\ hpc[p] = "idle"
    /\ running /\ alive
    /\ mail # <<>>
    /\ hmsg' = [hmsg EXCEPT ![p] = Head(mail)]
    /\ hpc' = [hpc EXCEPT ![p] = Head(mail).kind]
    /\ mail' = Tail(mail)
    /\ rights' = rights \cup Carried(Head(mail))
    /\ UNCHANGED <<queue, clients, view, inHand, released, heard, running, alive>>

-----------------------------------------------------------------------------
(* handle_hello                                                            *)

\* The token has a record: its reply port is replaced, nobody is notified.
Rehello(p) ==
    LET m == hmsg[p]
        i == FirstSeat(SeatsOf(m.token))
    IN /\ hpc[p] = "hello"
       /\ SeatsOf(m.token) # {}
       /\ Deallocate({clients[i].reply})
       /\ clients' = [clients EXCEPT ![i].reply = m.right]
       /\ heard' = heard \cup {m.token}
       /\ Done(p)
       /\ UNCHANGED <<mail, queue, view, inHand, released, running, alive>>

Admit(p) ==
    LET m == hmsg[p]
    IN /\ hpc[p] = "hello"
       /\ SeatsOf(m.token) = {}
       /\ Vacant # {}
       /\ clients' = [clients EXCEPT ![FirstSeat(Vacant)] =
                        [active |-> TRUE, token |-> m.token, reply |-> m.right]]
       /\ heard' = heard \cup {m.token}
       /\ hpc' = [hpc EXCEPT ![p] = "connected"]
       /\ UNCHANGED <<mail, queue, hmsg, rights, view, inHand, released,
                      running, alive>>

\* The table is full: the reply port is dropped and the client not told.
Refuse(p) ==
    LET m == hmsg[p]
    IN /\ hpc[p] = "hello"
       /\ SeatsOf(m.token) = {}
       /\ Vacant = {}
       /\ Deallocate({m.right})
       /\ heard' = heard \cup {m.token}
       /\ Done(p)
       /\ UNCHANGED <<mail, queue, clients, view, inHand, released, running,
                      alive>>

\* on_client_changed(token, pid, true), after the unlock
NotifyConnected(p) ==
    /\ hpc[p] = "connected"
    /\ view' = view \cup {hmsg[p].token}
    /\ Done(p)
    /\ UNCHANGED <<mail, queue, clients, rights, inHand, released, heard,
                   running, alive>>

-----------------------------------------------------------------------------
(* handle_goodbye                                                          *)

Leave(p) ==
    LET t == hmsg[p].token
        i == FirstSeat(SeatsOf(t))
    IN /\ hpc[p] = "goodbye"
       /\ SeatsOf(t) # {}
       /\ Deallocate({clients[i].reply})
       /\ clients' = [clients EXCEPT ![i].active = FALSE, ![i].reply = 0]
       /\ hpc' = [hpc EXCEPT ![p] = "disconnected"]
       /\ UNCHANGED <<mail, queue, hmsg, view, inHand, released, heard,
                      running, alive>>

LeaveUnknown(p) ==
    /\ hpc[p] = "goodbye"
    /\ SeatsOf(hmsg[p].token) = {}
    /\ Done(p)
    /\ UNCHANGED <<mail, queue, clients, rights, view, inHand, released, heard,
                   running, alive>>

\* on_client_changed(token, pid, false), after the unlock
NotifyDisconnected(p) ==
    /\ hpc[p] = "disconnected"
    /\ view' = view \ {hmsg[p].token}
    /\ Done(p)
    /\ UNCHANGED <<mail, queue, clients, rights, inHand, released, heard,
                   running, alive>>

-----------------------------------------------------------------------------
(* handle_frame_submit                                                     *)

\* The first lock: is the sender known?
CheckKnown(p) ==
    /\ hpc[p] = "frame"
    /\ SeatsOf(hmsg[p].token) # {}
    /\ hpc' = [hpc EXCEPT ![p] = "push"]
    /\ UNCHANGED <<mail, queue, clients, hmsg, rights, view, inHand, released,
                   heard, running, alive>>

DropUnknown(p) ==
    /\ hpc[p] = "frame"
    /\ SeatsOf(hmsg[p].token) = {}
    /\ Deallocate({hmsg[p].right})
    /\ Done(p)
    /\ UNCHANGED <<mail, queue, clients, view, inHand, released, heard,
                   running, alive>>

\* The second lock: the oldest frame makes room, and its right is dropped.
Push(p) ==
    /\ hpc[p] = "push"
    /\ queue' = Enqueued(hmsg[p].right)
    /\ Deallocate(Evicted(hmsg[p].right))
    /\ hpc' = [hpc EXCEPT ![p] = "sink"]
    /\ UNCHANGED <<mail, clients, hmsg, view, inHand, released, heard,
                   running, alive>>

\* on_frame(&frame) on the copy, after the unlock
ShowFrame(p) ==
    /\ hpc[p] = "sink"
    /\ Done(p)
    /\ UNCHANGED <<mail, queue, clients, rights, view, inHand, released, heard,
                   running, alive>>

-----------------------------------------------------------------------------
(* The main thread: pop_frame, release_frame_port, and the drops.          *)

PopFrame ==
    /\ alive /\ inHand = 0
    /\ queue # <<>>
    /\ inHand' = Head(queue)
    /\ queue' = Tail(queue)
    /\ UNCHANGED <<mail, clients, hpc, hmsg, rights, view, released, heard,
                   running, alive>>

ReleaseFramePort ==
    /\ inHand # 0
    /\ Deallocate({inHand})
    /\ released' = released \cup {inHand}
    /\ inHand' = 0
    /\ UNCHANGED <<mail, queue, clients, hpc, hmsg, view, heard, running, alive>>

\* QmvServer::drop: the poll threads leave their loops and are joined.
StopServer ==
    /\ running
    /\ running' = FALSE
    /\ UNCHANGED <<mail, queue, clients, hpc, hmsg, rights, view, inHand,
                   released, heard, alive>>

QueuedRights == {queue[i] : i \in DOMAIN queue}
ReplyRights == {clients[i].reply : i \in {j \in Seats : clients[j].active}} \ {0}

\* CompositorHost::drop, when the last Arc goes; the main thread may keep one.
\* With the receive right the kernel destroys what is in the port.
DropHost ==
    /\ alive /\ ~running
    /\ \A p \in Pollers : hpc[p] = "idle"
    /\ alive' = FALSE
    /\ Deallocate(QueuedRights \cup ReplyRights)
    /\ queue' = <<>>
    /\ clients' = [i \in Seats |-> Empty]
    /\ mail' = <<>>
    /\ UNCHANGED <<hpc, hmsg, view, inHand, released, heard, running>>

-----------------------------------------------------------------------------
RunOnce(p) == \/ Receive(p)
              \/ Rehello(p) \/ Admit(p) \/ Refuse(p) \/ NotifyConnected(p)
              \/ Leave(p) \/ LeaveUnknown(p) \/ NotifyDisconnected(p)
              \/ CheckKnown(p) \/ DropUnknown(p) \/ Push(p) \/ ShowFrame(p)

MainThread == PopFrame \/ ReleaseFramePort

HostNext == \/ \E p \in Pollers : RunOnce(p)
            \/ MainThread \/ StopServer \/ DropHost

-----------------------------------------------------------------------------
(* Properties *)

Rights == Nat
Messages == [kind : {"hello", "goodbye", "frame"}, token : Tokens, right : Rights]

HostTypeOK ==
    /\ mail \in Seq(Messages)
    /\ queue \in Seq(Rights \ {0})
    /\ clients \in [Seats -> [active : BOOLEAN, token : Tokens, reply : Rights]]
    /\ hpc \in [Pollers -> {"idle", "hello", "connected", "goodbye",
                            "disconnected", "frame", "push", "sink"}]
    /\ hmsg \in [Pollers -> Messages \cup {NoMsg}]
    /\ rights \in SUBSET (Rights \ {0})
    /\ view \in SUBSET Tokens
    /\ inHand \in Rights
    /\ released \in SUBSET Rights
    /\ heard \in SUBSET Tokens
    /\ running \in BOOLEAN
    /\ alive \in BOOLEAN

\* The right in a message belongs to its handler until it is stored or dropped.
HandlerRights == {hmsg[p].right : p \in
                    {q \in Pollers : hpc[q] \in {"hello", "frame", "push"}}} \ {0}

\* The copy of a frame that on_frame resolves names a live surface port, unless
\* the main thread has popped that frame and released it in the meantime: the
\* queue itself never drops a frame whose sink is still to run.
SinkPortIsLive ==
    \A p \in Pollers : hpc[p] = "sink" =>
        hmsg[p].right \in rights \/ hmsg[p].right \in released

\* Every send right in the compositor's task has exactly one owner (a handler,
\* the queue, a client record, the main thread) and every owner's right is
\* there: nothing leaks and nothing is dropped while somebody still has it,
\* whichever way a hello, a goodbye, a frame or the shutdown goes.
RightsAreOwned ==
    rights = HandlerRights \cup QueuedRights \cup ReplyRights \cup ({inHand} \ {0})

\* With one poll thread the sink, which owns no right, finds that of its frame
\* there too, unless the main thread has popped and released it before it looks.
RightsHaveOwners == RightsAreOwned /\ SinkPortIsLive

\* No token has two active records, whatever threads handle its messages.
OneRecordPerToken ==
    \A i, j \in Seats : clients[i].active /\ clients[j].active
                         /\ clients[i].token = clients[j].token => i = j

KnownTokens == {clients[i].token : i \in {j \in Seats : clients[j].active}}
TokensAt(pc) == {hmsg[p].token : p \in {q \in Pollers : hpc[q] = pc}}

\* With one poll thread the ClientSink's picture is the client table in every
\* state, but for the one token whose notification is under way after the unlock,
\* and every notification is news: on_client_changed is never told twice in a row
\* that a token is there, or that it is gone.
SinkKnowsClients ==
    alive => /\ KnownTokens = (view \ TokensAt("disconnected")) \cup TokensAt("connected")
             /\ TokensAt("connected") \cap view = {}
             /\ TokensAt("disconnected") \subseteq view

\* With one poll thread a frame comes to handle_frame_submit only after a hello of
\* its token was handled (admitted or refused): no client overtakes its own first
\* hello.  And the frames that are queued and shown are of tokens that the
\* ClientSink believes connected at that moment.
NoStrangers ==
    \A p \in Pollers : /\ hpc[p] = "frame" => hmsg[p].token \in heard
                       /\ hpc[p] \in {"push", "sink"} => hmsg[p].token \in view
=============================================================================
