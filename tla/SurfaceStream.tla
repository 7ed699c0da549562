--------------------------- MODULE SurfaceStream ---------------------------
(***************************************************************************)
(* Clients and compositor together: the threads of several processes on    *)
(* one side of the service port, the poll thread and the main thread of    *)
(* the compositor on the other.                                            *)
(***************************************************************************)
EXTENDS HostIpc

CONSTANTS Processes, Threads, ProcessOf, Names, MailLimit, MaxRights, MaxDeaths

ASSUME ClientAssumption == /\ ProcessOf \in [Threads -> Processes]
                           /\ MailLimit \in Nat \ {0}
                           /\ MaxRights \in Nat /\ MaxDeaths \in Nat

VARIABLES connected, token, svc, lock, cpc, carg, cname, lastRight, deaths

INSTANCE ClientIpc

clientState == <<connected, token, svc, lock, cpc, carg, cname, lastRight, deaths>>
vars == <<hostVars, clientState>>

Init == HostInit /\ ClientInit

HostStep == HostNext /\ UNCHANGED clientState

ClientStep == /\ ClientNext
              /\ UNCHANGED <<queue, clients, hpc, hmsg, rights, view, inHand,
                             released, heard, running>>

Next == HostStep \/ ClientStep

Spec == Init /\ [][Next]_vars

\* The poll thread keeps polling while the server runs, and a client thread goes
\* on with the call it is in.  Fairness of the client is strong because the
\* kernel serves the senders that wait for room in a port in their order.
PollerRuns(p) == RunOnce(p) /\ UNCHANGED clientState
CallGoesOn(c) == CallStep(c) /\ ClientStep
FairSpec == /\ Spec
            /\ \A p \in Pollers : WF_vars(PollerRuns(p))
            /\ \A c \in Threads : SF_vars(CallGoesOn(c))

-----------------------------------------------------------------------------
(* Properties *)

TypeOK == HostTypeOK /\ ClientTypeOK

\* Frames between the sender and pop_frame: in the port, with a handler, in the queue.
FramesInMail == {mail[i].right : i \in {j \in DOMAIN mail : mail[j].kind = "frame"}}
FramesInHandler == {hmsg[p].right : p \in {q \in Pollers : hpc[q] \in {"frame", "push"}}}

\* With one poll thread the frames of all clients come out of pop_frame in the
\* order their sends completed; losses are the only irregularity.
Channel == INSTANCE LossyChannel WITH
               transit <- QueuedRights \cup FramesInHandler \cup FramesInMail,
               delivered <- released \cup ({inHand} \ {0}),
               last <- lastRight
ImplementsLossyChannel == Channel!Spec

\* Every call of a client returns, and gives the mutex back: it waits at most
\* for the poll thread to make room, or for the port to die.  The exception is a
\* host that an Arc keeps alive after its server has been stopped: nobody will
\* ever receive again, and a sender waits, maybe with the mutex, for good.
Orphaned == alive /\ ~running
CallsReturn ==
    /\ \A c \in Threads : cpc[c] # "idle" ~> cpc[c] = "idle" \/ Orphaned
    /\ \A x \in Processes : lock[x] # NoThread ~> lock[x] = NoThread \/ Orphaned
=============================================================================
