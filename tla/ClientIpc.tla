----------------------------- MODULE ClientIpc -----------------------------
(***************************************************************************)
(* The client's side of the Mach IPC, src/src/platform/ipc/client.rs: one  *)
(* ClientConnection per process behind a mutex, used by its threads.       *)
(*                                                                         *)
(* A send without timeout waits while the service port is full.  connect   *)
(* and disconnect wait with the mutex held; client_send_surface gives the  *)
(* mutex back first and goes on with the port name it has read.  Calls     *)
(* that return an error before they have changed anything (already         *)
(* connected, not connected, null surface, look_up or allocation failed)   *)
(* are no steps.                                                           *)
(***************************************************************************)
EXTENDS Integers, Sequences, FiniteSets

CONSTANTS Processes, Threads,
          ProcessOf,      \* the process a thread runs in
          Tokens,         \* client tokens; two processes may use the same
          Names,          \* port names look_up may return
          MailLimit,      \* the kernel's queue limit of a port
          MaxRights,      \* bound: rights ever sent
          MaxDeaths       \* bound: processes that die

VARIABLES
    mail, alive,   \* the service port, shared with HostIpc
    connected,     \* ClientConnection.connected
    token,         \* ClientConnection.token
    svc,           \* name of the process's send right to the service, or NoName
    lock,          \* holder of the mutex, or NoThread
    cpc,           \* where each thread is
    carg,          \* the token it was called with
    cname,         \* its copy of server_port
    lastRight,     \* rights sent so far, which numbers them
    deaths

clientVars == <<connected, token, svc, lock, cpc, carg, cname, lastRight, deaths>>

NoName == "no name"
NoThread == "no thread"
AnyToken == CHOOSE t \in Tokens : TRUE

ClientInit ==
    /\ connected = [x \in Processes |-> FALSE]
    /\ token = [x \in Processes |-> AnyToken]
    /\ svc = [x \in Processes |-> NoName]
    /\ lock = [x \in Processes |-> NoThread]
    /\ cpc = [c \in Threads |-> "idle"]
    /\ carg = [c \in Threads |-> AnyToken]
    /\ cname = [c \in Threads |-> NoName]
    /\ lastRight = 0
    /\ deaths = 0

Mine(c) == ProcessOf[c]
Room == Len(mail) < MailLimit

\* The bound: no call begins that could send one right too many.
Sending == {c \in Threads : cpc[c] \in {"hello", "submit", "post"}}
WithinBound == lastRight + Cardinality(Sending) < MaxRights

\* One message into the service port; its right, if any, gets a new number.
Post(kind, t, right) ==
    mail' = Append(mail, [kind |-> kind, token |-> t, right |-> right])

Returns(c) ==
    /\ cpc' = [cpc EXCEPT ![c] = "idle"]
    /\ carg' = [carg EXCEPT ![c] = AnyToken]
    /\ cname' = [cname EXCEPT ![c] = NoName]

\* mutant: the mutex is not given back
UnlockForgotten(x) == UNCHANGED lock

Unlock(x) == lock' = [lock EXCEPT ![x] = NoThread]

\* mutant: a process counts as connected once look_up has answered
MayUseEarly(x) == svc[x] # NoName

\* Under the mutex, the connection is there.
MayUse(x) == lock[x] = NoThread /\ connected[x]

-----------------------------------------------------------------------------
(* client_connect                                                          *)

\* Up to the send: the mutex is taken and look_up has returned a right.
ConnectBegin(c, t) ==
    LET x == Mine(c)
    IN /\ cpc[c] = "idle"
       /\ WithinBound
       /\ lock[x] = NoThread
       /\ ~connected[x]
       /\ alive
       /\ lock' = [lock EXCEPT ![x] = c]
       /\ \E n \in Names : svc' = [svc EXCEPT ![x] = n]
       /\ cpc' = [cpc EXCEPT ![c] = "hello"]
       /\ carg' = [carg EXCEPT ![c] = t]
       /\ UNCHANGED <<mail, alive, connected, token, cname, lastRight, deaths>>

\* The hello is in the port, and only now is the process connected.
Hello(c) ==
    LET x == Mine(c)
    IN /\ cpc[c] = "hello"
       /\ alive /\ Room
       /\ lastRight' = lastRight + 1
       /\ Post("hello", carg[c], lastRight + 1)
       /\ connected' = [connected EXCEPT ![x] = TRUE]
       /\ token' = [token EXCEPT ![x] = carg[c]]
       /\ Unlock(x)
       /\ Returns(c)
       /\ UNCHANGED <<alive, svc, deaths>>

HelloFails(c) ==
    LET x == Mine(c)
    IN /\ cpc[c] = "hello"
       /\ ~alive
       /\ svc' = [svc EXCEPT ![x] = NoName]
       /\ Unlock(x)
       /\ Returns(c)
       /\ UNCHANGED <<mail, alive, connected, token, lastRight, deaths>>

-----------------------------------------------------------------------------
(* client_send_surface                                                     *)

\* Under the mutex: the token is checked and server_port copied.
SubmitBegin(c) ==
    LET x == Mine(c)
    IN /\ cpc[c] = "idle"
       /\ WithinBound
       /\ MayUse(x)
       /\ cpc' = [cpc EXCEPT ![c] = "submit"]
       /\ carg' = [carg EXCEPT ![c] = token[x]]
       /\ cname' = [cname EXCEPT ![c] = svc[x]]
       /\ UNCHANGED <<mail, alive, connected, token, svc, lock, lastRight, deaths>>

\* The kernel looks the name up; after that the message is bound for the port.
SubmitResolves(c) ==
    /\ cpc[c] = "submit"
    /\ alive
    /\ svc[Mine(c)] = cname[c]
    /\ cpc' = [cpc EXCEPT ![c] = "post"]
    /\ cname' = [cname EXCEPT ![c] = NoName]
    /\ UNCHANGED <<mail, alive, connected, token, svc, lock, carg, lastRight, deaths>>

Submit(c) ==
    /\ cpc[c] = "post"
    /\ alive /\ Room
    /\ lastRight' = lastRight + 1
    /\ Post("frame", carg[c], lastRight + 1)
    /\ Returns(c)
    /\ UNCHANGED <<alive, connected, token, svc, lock, deaths>>

\* The name is gone, or the port died; the caller's right is dropped.
SubmitFails(c) ==
    /\ \/ cpc[c] = "submit" /\ (~alive \/ svc[Mine(c)] # cname[c])
       \/ cpc[c] = "post" /\ ~alive
    /\ Returns(c)
    /\ UNCHANGED <<mail, alive, connected, token, svc, lock, lastRight, deaths>>

-----------------------------------------------------------------------------
(* client_disconnect                                                       *)

GoodbyeBegin(c) ==
    LET x == Mine(c)
    IN /\ cpc[c] = "idle"
       /\ MayUse(x)
       /\ lock' = [lock EXCEPT ![x] = c]
       /\ cpc' = [cpc EXCEPT ![c] = "goodbye"]
       /\ UNCHANGED <<mail, alive, connected, token, svc, carg, cname, lastRight, deaths>>

\* Whether the goodbye can be sent or not, the connection is over.
Goodbye(c) ==
    LET x == Mine(c)
    IN /\ cpc[c] = "goodbye"
       /\ IF alive THEN Room /\ Post("goodbye", token[x], 0) ELSE UNCHANGED mail
       /\ svc' = [svc EXCEPT ![x] = NoName]
       /\ connected' = [connected EXCEPT ![x] = FALSE]
       /\ Unlock(x)
       /\ Returns(c)
       /\ UNCHANGED <<alive, token, lastRight, deaths>>

-----------------------------------------------------------------------------
\* The process dies and is started again; the host is not told.
Die(x) ==
    /\ deaths < MaxDeaths
    /\ svc[x] # NoName
    /\ deaths' = deaths + 1
    /\ connected' = [connected EXCEPT ![x] = FALSE]
    /\ token' = [token EXCEPT ![x] = AnyToken]
    /\ svc' = [svc EXCEPT ![x] = NoName]
    /\ lock' = [lock EXCEPT ![x] = NoThread]
    /\ cpc' = [c \in Threads |-> IF Mine(c) = x THEN "idle" ELSE cpc[c]]
    /\ carg' = [c \in Threads |-> IF Mine(c) = x THEN AnyToken ELSE carg[c]]
    /\ cname' = [c \in Threads |-> IF Mine(c) = x THEN NoName ELSE cname[c]]
    /\ UNCHANGED <<mail, alive, lastRight>>

\* A step of a call in progress.
CallStep(c) == \/ Hello(c) \/ HelloFails(c)
               \/ SubmitResolves(c) \/ Submit(c) \/ SubmitFails(c)
               \/ Goodbye(c)

ClientNext == \/ \E c \in Threads : \/ \E t \in Tokens : ConnectBegin(c, t)
                                    \/ SubmitBegin(c) \/ GoodbyeBegin(c)
                                    \/ CallStep(c)
              \/ \E x \in Processes : Die(x)

-----------------------------------------------------------------------------
(* Properties *)

ClientTypeOK ==
    /\ connected \in [Processes -> BOOLEAN]
    /\ token \in [Processes -> Tokens]
    /\ svc \in [Processes -> Names \cup {NoName}]
    /\ lock \in [Processes -> Threads \cup {NoThread}]
    /\ cpc \in [Threads -> {"idle", "hello", "submit", "post", "goodbye"}]
    /\ carg \in [Threads -> Tokens]
    /\ cname \in [Threads -> Names \cup {NoName}]
    /\ lastRight \in Nat
    /\ deaths \in 0 .. MaxDeaths
=============================================================================
