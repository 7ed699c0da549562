------------------------- MODULE SurfaceStreamProof -------------------------
(***************************************************************************)
(* Theorems about SurfaceStream, for any number of processes, threads,     *)
(* tokens, poll threads and deaths, and for limits of any size.  What      *)
(* holds with one poll thread only says so.                                *)
(***************************************************************************)
EXTENDS SurfaceStream, SequenceTheorems, WellFoundedInduction, TLAPS

OnePoller == \A p, q \in Pollers : p = q

-----------------------------------------------------------------------------
(* Types.  A goodbye carries no right, and every other message carries one *)
(* until its handler has stored or dropped it.                             *)

MailCarries == \A i \in DOMAIN mail : mail[i].kind # "goodbye" <=> mail[i].right # 0

Holding == {p \in Pollers : hpc[p] \in {"hello", "frame", "push"}}

HandlersCarry == \A p \in Holding : hmsg[p].right # 0

StreamTypes == TypeOK /\ MailCarries /\ HandlersCarry

LEMMA SomeToken == AnyToken \in Tokens /\ Empty.token \in Tokens /\ NoMsg.token \in Tokens
BY HostAssumption DEF AnyToken, Empty, NoMsg

LEMMA MailIsTyped ==
    ASSUME mail \in Seq(Messages)
    PROVE  /\ Len(mail) \in Nat /\ DOMAIN mail = 1 .. Len(mail)
           /\ \A i \in DOMAIN mail :
                 /\ mail[i] \in Messages
                 /\ mail[i].kind \in {"hello", "goodbye", "frame"}
                 /\ mail[i].token \in Tokens /\ mail[i].right \in Nat
<1>1. \A i \in DOMAIN mail : mail[i] \in Messages
    BY ElementOfSeq, LenProperties
<1>2. QED
    BY <1>1, LenProperties DEF Messages, Rights

\* The oldest message, and those that are left without it.
LEMMA MailWithout ==
    ASSUME mail \in Seq(Messages), mail # <<>>
    PROVE  /\ Head(mail) = mail[1] /\ 1 \in DOMAIN mail
           /\ Tail(mail) \in Seq(Messages)
           /\ DOMAIN Tail(mail) = 1 .. Len(mail) - 1
           /\ \A i \in DOMAIN Tail(mail) : i + 1 \in DOMAIN mail /\ Tail(mail)[i] = mail[i + 1]
<1>1. Len(mail) \in Nat /\ DOMAIN mail = 1 .. Len(mail) /\ Len(mail) # 0
    BY MailIsTyped, EmptySeq
<1>2. /\ Head(mail) = mail[1]
      /\ Tail(mail) \in Seq(Messages) /\ Len(Tail(mail)) = Len(mail) - 1
      /\ \A i \in 1 .. Len(Tail(mail)) : Tail(mail)[i] = mail[i + 1]
    BY HeadTailProperties
<1>3. DOMAIN Tail(mail) = 1 .. Len(mail) - 1
    BY <1>2, LenProperties
<1>4. QED
    BY <1>1, <1>2, <1>3

LEMMA MailWithOneMore ==
    ASSUME mail \in Seq(Messages), NEW m \in Messages
    PROVE  /\ Append(mail, m) \in Seq(Messages)
           /\ DOMAIN Append(mail, m) = 1 .. Len(mail) + 1 /\ Len(mail) \in Nat
           /\ DOMAIN mail = 1 .. Len(mail)
           /\ \A i \in DOMAIN mail : Append(mail, m)[i] = mail[i]
           /\ Append(mail, m)[Len(mail) + 1] = m
<1>1. /\ Append(mail, m) \in Seq(Messages) /\ Len(Append(mail, m)) = Len(mail) + 1
      /\ \A i \in 1 .. Len(mail) : Append(mail, m)[i] = mail[i]
      /\ Append(mail, m)[Len(mail) + 1] = m
    BY AppendProperties
<1>2. DOMAIN Append(mail, m) = 1 .. Len(mail) + 1
    BY <1>1, LenProperties
<1>3. QED
    BY <1>1, <1>2, MailIsTyped

-----------------------------------------------------------------------------
(* What a client does to the port                                          *)

Sends(kind, t, r) == mail' = Append(mail, [kind |-> kind, token |-> t, right |-> r])

\* A step of a client sends nothing, a goodbye, or a right with a new number.
ClientSends ==
    \/ UNCHANGED <<mail, lastRight>>
    \/ /\ alive
       /\ \E kind \in {"hello", "goodbye", "frame"}, t \in Tokens, r \in Nat :
             /\ Sends(kind, t, r)
             /\ \/ kind = "goodbye" /\ r = 0 /\ lastRight' = lastRight
                \/ kind # "goodbye" /\ r = lastRight + 1 /\ lastRight' = r

LEMMA ClientsSend == ASSUME ClientTypeOK, ClientNext PROVE ClientSends /\ UNCHANGED alive
<1>0. \A c \in Threads : carg[c] \in Tokens /\ token[Mine(c)] \in Tokens
    BY ClientAssumption DEF ClientTypeOK, Mine
<1>1. ASSUME NEW c \in Threads, NEW t \in Tokens, ConnectBegin(c, t)
      PROVE  ClientSends /\ UNCHANGED alive
    BY <1>1 DEF ConnectBegin, ClientSends
<1>2. ASSUME NEW c \in Threads, SubmitBegin(c) \/ GoodbyeBegin(c)
      PROVE  ClientSends /\ UNCHANGED alive
    BY <1>2 DEF SubmitBegin, GoodbyeBegin, ClientSends
<1>3. ASSUME NEW c \in Threads, Hello(c) \/ Submit(c)
      PROVE  ClientSends /\ UNCHANGED alive
  <2>1. alive /\ UNCHANGED alive /\ lastRight' = lastRight + 1 /\ lastRight + 1 \in Nat
      BY <1>3 DEF Hello, Submit, ClientTypeOK
  <2>2. \E kind \in {"hello", "frame"} : Sends(kind, carg[c], lastRight + 1)
      BY <1>3 DEF Hello, Submit, Post, Sends
  <2>3. QED
      BY <1>0, <2>1, <2>2 DEF ClientSends
<1>4. ASSUME NEW c \in Threads, HelloFails(c) \/ SubmitResolves(c) \/ SubmitFails(c)
      PROVE  ClientSends /\ UNCHANGED alive
    BY <1>4 DEF HelloFails, SubmitResolves, SubmitFails, ClientSends
<1>5. ASSUME NEW c \in Threads, Goodbye(c) PROVE ClientSends /\ UNCHANGED alive
    BY <1>0, <1>5 DEF Goodbye, Post, Sends, ClientSends
<1>6. ASSUME NEW x \in Processes, Die(x) PROVE ClientSends /\ UNCHANGED alive
    BY <1>6 DEF Die, ClientSends
<1>7. QED
    BY <1>1, <1>2, <1>3, <1>4, <1>5, <1>6 DEF ClientNext, CallStep

LEMMA ClientTypesNext == ASSUME ClientTypeOK, ClientNext PROVE ClientTypeOK'
<1>0. \A c \in Threads : /\ Mine(c) \in Processes
                         /\ carg[c] \in Tokens /\ token[Mine(c)] \in Tokens
                         /\ svc[Mine(c)] \in Names \cup {NoName}
    BY ClientAssumption DEF ClientTypeOK, Mine
<1>1. ASSUME NEW c \in Threads, NEW t \in Tokens, ConnectBegin(c, t) PROVE ClientTypeOK'
    BY <1>0, <1>1 DEF ConnectBegin, ClientTypeOK
<1>2. ASSUME NEW c \in Threads, SubmitBegin(c) \/ GoodbyeBegin(c) PROVE ClientTypeOK'
    BY <1>0, <1>2 DEF SubmitBegin, GoodbyeBegin, ClientTypeOK
<1>3. ASSUME NEW c \in Threads, Hello(c) \/ Submit(c) PROVE ClientTypeOK'
  <2>1. lastRight' \in Nat /\ UNCHANGED <<svc, deaths>>
      BY <1>3 DEF Hello, Submit, ClientTypeOK
  <2>2. CASE Hello(c)
      BY <1>0, <2>1, <2>2, SomeToken DEF Hello, Returns, Unlock, ClientTypeOK
  <2>3. CASE Submit(c)
      BY <1>0, <2>1, <2>3, SomeToken DEF Submit, Returns, ClientTypeOK
  <2>4. QED
      BY <1>3, <2>2, <2>3
<1>4. ASSUME NEW c \in Threads, HelloFails(c) \/ SubmitResolves(c) \/ SubmitFails(c)
      PROVE  ClientTypeOK'
    BY <1>0, <1>4, SomeToken
       DEF HelloFails, SubmitResolves, SubmitFails, Returns, Unlock, ClientTypeOK
<1>5. ASSUME NEW c \in Threads, Goodbye(c) PROVE ClientTypeOK'
    BY <1>0, <1>5, SomeToken DEF Goodbye, Returns, Unlock, ClientTypeOK
<1>6. ASSUME NEW x \in Processes, Die(x) PROVE ClientTypeOK'
  <2>1. deaths' \in 0 .. MaxDeaths
      BY <1>6, ClientAssumption DEF Die, ClientTypeOK
  <2>2. QED
      BY <1>6, <2>1, SomeToken DEF Die, ClientTypeOK
<1>7. QED
    BY <1>1, <1>2, <1>3, <1>4, <1>5, <1>6 DEF ClientNext, CallStep

-----------------------------------------------------------------------------
(* What the host does to each part of its state                            *)

LEMMA HandlersAreTyped ==
    ASSUME HostTypeOK
    PROVE  \A p \in Pollers : hmsg[p].token \in Tokens /\ hmsg[p].right \in Nat
<1>1. \A p \in Pollers : hmsg[p] \in Messages \cup {NoMsg}
    BY DEF HostTypeOK
<1>2. QED
    BY <1>1, SomeToken DEF Messages, Rights, NoMsg

LEMMA QueueIsTyped ==
    ASSUME HostTypeOK
    PROVE  /\ Len(queue) \in Nat /\ DOMAIN queue = 1 .. Len(queue)
           /\ \A i \in DOMAIN queue : queue[i] \in Nat \ {0}
BY LenProperties, ElementOfSeq DEF HostTypeOK, Rights

LEMMA ShorterQueue ==
    ASSUME HostTypeOK, queue # <<>>
    PROVE  /\ Head(queue) = queue[1] /\ 1 \in DOMAIN queue
           /\ Tail(queue) \in Seq(Nat \ {0}) /\ Len(Tail(queue)) = Len(queue) - 1
           /\ DOMAIN Tail(queue) = 1 .. Len(queue) - 1
           /\ \A i \in DOMAIN Tail(queue) :
                 i + 1 \in DOMAIN queue /\ Tail(queue)[i] = queue[i + 1]
<1>1. /\ Len(queue) \in Nat /\ DOMAIN queue = 1 .. Len(queue) /\ Len(queue) # 0
      /\ queue \in Seq(Nat \ {0})
    BY QueueIsTyped, EmptySeq DEF HostTypeOK, Rights
<1>2. /\ Head(queue) = queue[1]
      /\ Tail(queue) \in Seq(Nat \ {0}) /\ Len(Tail(queue)) = Len(queue) - 1
      /\ \A i \in 1 .. Len(Tail(queue)) : Tail(queue)[i] = queue[i + 1]
    BY <1>1, HeadTailProperties
<1>3. DOMAIN Tail(queue) = 1 .. Len(queue) - 1
    BY <1>2, LenProperties
<1>4. QED
    BY <1>1, <1>2, <1>3

\* A full queue loses its first frame, and the new one is the last of either.
LEMMA EnqueuedFrames ==
    ASSUME HostTypeOK, NEW f \in Nat \ {0}
    PROVE  /\ Enqueued(f) \in Seq(Nat \ {0})
           /\ \/ /\ Evicted(f) = {}
                 /\ DOMAIN Enqueued(f) = 1 .. Len(queue) + 1
                 /\ \A i \in 1 .. Len(queue) : Enqueued(f)[i] = queue[i]
                 /\ Enqueued(f)[Len(queue) + 1] = f
              \/ /\ 1 \in DOMAIN queue /\ Evicted(f) = {queue[1]}
                 /\ DOMAIN Enqueued(f) = 1 .. Len(queue)
                 /\ \A i \in 1 .. Len(queue) - 1 : Enqueued(f)[i] = queue[i + 1]
                 /\ Enqueued(f)[Len(queue)] = f
<1>1. /\ Len(queue) \in Nat /\ DOMAIN queue = 1 .. Len(queue) /\ queue \in Seq(Nat \ {0})
    BY QueueIsTyped DEF HostTypeOK, Rights
<1>2. CASE Len(queue) >= QueueLimit
  <2>1. queue # <<>> /\ Len(queue) > 0
      BY <1>1, <1>2, HostAssumption, EmptySeq
  <2>2. /\ Head(queue) = queue[1] /\ 1 \in DOMAIN queue
        /\ Tail(queue) \in Seq(Nat \ {0}) /\ Len(Tail(queue)) = Len(queue) - 1
        /\ DOMAIN Tail(queue) = 1 .. Len(queue) - 1
        /\ \A i \in DOMAIN Tail(queue) : Tail(queue)[i] = queue[i + 1]
      BY <2>1, ShorterQueue
  <2>3. Enqueued(f) = Append(Tail(queue), f) /\ Evicted(f) = {queue[1]}
      BY <1>2, <2>2 DEF Enqueued, Evicted
  <2>4. /\ Enqueued(f) \in Seq(Nat \ {0}) /\ Len(Enqueued(f)) = Len(Tail(queue)) + 1
        /\ \A i \in 1 .. Len(Tail(queue)) : Enqueued(f)[i] = Tail(queue)[i]
        /\ Enqueued(f)[Len(Tail(queue)) + 1] = f
      BY <2>2, <2>3, AppendProperties
  <2>5. Len(Tail(queue)) + 1 = Len(queue)
      BY <1>1, <2>2
  <2>6. DOMAIN Enqueued(f) = 1 .. Len(queue)
      BY <2>4, <2>5, LenProperties
  <2>7. \A i \in 1 .. Len(queue) - 1 : Enqueued(f)[i] = queue[i + 1]
      BY <2>2, <2>4
  <2>8. Enqueued(f)[Len(queue)] = f
      BY <2>4, <2>5
  <2>9. QED
      BY <2>2, <2>3, <2>4, <2>6, <2>7, <2>8
<1>3. CASE ~(Len(queue) >= QueueLimit)
  <2>1. Enqueued(f) = Append(queue, f) /\ Evicted(f) = {}
      BY <1>3 DEF Enqueued, Evicted
  <2>2. /\ Enqueued(f) \in Seq(Nat \ {0}) /\ Len(Enqueued(f)) = Len(queue) + 1
        /\ \A i \in 1 .. Len(queue) : Enqueued(f)[i] = queue[i]
        /\ Enqueued(f)[Len(queue) + 1] = f
      BY <1>1, <2>1, AppendProperties
  <2>3. DOMAIN Enqueued(f) = 1 .. Len(queue) + 1
      BY <2>2, LenProperties
  <2>4. QED
      BY <2>1, <2>2, <2>3
<1>4. QED
    BY <1>2, <1>3

LEMMA LeastOfNaturals ==
    ASSUME NEW S, S \subseteq Nat, S # {}
    PROVE  \E m \in S : \A k \in S : m <= k
<1> DEFINE R == OpToRel(<, Nat)
<1>1. IsWellFoundedOn(R, Nat)
    BY NatLessThanWellFounded
<1>2. \A j, k \in Nat : j < k => <<j, k>> \in R
    BY DEF OpToRel
<1> HIDE DEF R
<1>3. PICK m \in S : \A k \in S : ~(<<k, m>> \in R)
    BY <1>1, WFMin
<1>4. \A k \in S : m <= k
  <2> SUFFICES ASSUME NEW k \in S PROVE m <= k
      OBVIOUS
  <2>1. k \in Nat /\ m \in Nat
      BY <1>3
  <2>2. ~(<<k, m>> \in R)
      BY <1>3
  <2>3. ~(k < m)
      BY <1>2, <2>1, <2>2, Zenon
  <2>4. QED
      BY <2>1, <2>3
<1>5. QED
    BY <1>3, <1>4

LEMMA SeatsAreSeats ==
    /\ \A t : SeatsOf(t) \subseteq Seats /\ (SeatsOf(t) # {} => FirstSeat(SeatsOf(t)) \in SeatsOf(t))
    /\ Vacant \subseteq Seats /\ (Vacant # {} => FirstSeat(Vacant) \in Vacant)
<1>1. \A S \in SUBSET Seats : S # {} => FirstSeat(S) \in S
  <2> SUFFICES ASSUME NEW S \in SUBSET Seats, S # {} PROVE FirstSeat(S) \in S
      OBVIOUS
  <2>1. S \subseteq Nat
      BY HostAssumption DEF Seats
  <2>2. \E m \in S : \A k \in S : m <= k
      BY <2>1, LeastOfNaturals
  <2>3. QED
      BY <2>2 DEF FirstSeat
<1>2. (\A t : SeatsOf(t) \subseteq Seats) /\ Vacant \subseteq Seats
    BY DEF SeatsOf, Vacant
<1>3. QED
    BY <1>1, <1>2

-----------------------------------------------------------------------------
LEMMA StreamTypesInit == Init => StreamTypes
<1> SUFFICES ASSUME Init PROVE StreamTypes
    OBVIOUS
<1>1. HostTypeOK
  <2>1. <<>> \in Seq(Messages) /\ <<>> \in Seq(Rights \ {0})
      BY EmptySeq
  <2>2. Empty \in [active : BOOLEAN, token : Tokens, reply : Rights]
      BY SomeToken DEF Empty, Rights
  <2>3. QED
      BY <2>1, <2>2 DEF Init, HostInit, HostTypeOK, Rights
<1>2. ClientTypeOK
    BY SomeToken, ClientAssumption DEF Init, ClientInit, ClientTypeOK
<1>3. MailCarries /\ HandlersCarry
    BY DEF Init, HostInit, MailCarries, HandlersCarry, Holding
<1>4. QED
    BY <1>1, <1>2, <1>3 DEF StreamTypes, TypeOK

\* Types after a step of the host: the actions that change little.
LEMMA TypesOfHandlers ==
    ASSUME StreamTypes, NEW p \in Pollers, UNCHANGED clientState,
           \/ Rehello(p) \/ Admit(p) \/ Refuse(p) \/ NotifyConnected(p)
           \/ Leave(p) \/ LeaveUnknown(p) \/ NotifyDisconnected(p)
           \/ CheckKnown(p) \/ DropUnknown(p) \/ ShowFrame(p)
    PROVE  StreamTypes'
<1>0. /\ HostTypeOK /\ ClientTypeOK /\ MailCarries /\ HandlersCarry
      /\ hmsg[p].token \in Tokens /\ hmsg[p].right \in Nat
    BY HandlersAreTyped DEF StreamTypes, TypeOK
<1>1. UNCHANGED <<mail, queue, inHand, released, running, alive>>
    BY DEF Rehello, Admit, Refuse, NotifyConnected, Leave, LeaveUnknown,
           NotifyDisconnected, CheckKnown, DropUnknown, ShowFrame
<1>2. hmsg' \in [Pollers -> Messages \cup {NoMsg}]
    BY <1>0 DEF Rehello, Admit, Refuse, NotifyConnected, Leave, LeaveUnknown,
           NotifyDisconnected, CheckKnown, DropUnknown, ShowFrame, Done, HostTypeOK
<1>3. /\ hpc' \in [Pollers -> {"idle", "hello", "connected", "goodbye",
                               "disconnected", "frame", "push", "sink"}]
      /\ view' \in SUBSET Tokens /\ heard' \in SUBSET Tokens
    BY <1>0 DEF Rehello, Admit, Refuse, NotifyConnected, Leave, LeaveUnknown,
           NotifyDisconnected, CheckKnown, DropUnknown, ShowFrame, Done, HostTypeOK
<1>4. rights' \in SUBSET (Rights \ {0})
    BY <1>0 DEF Rehello, Admit, Refuse, NotifyConnected, Leave, LeaveUnknown, Deallocate,
           NotifyDisconnected, CheckKnown, DropUnknown, ShowFrame, HostTypeOK
<1>5. clients' \in [Seats -> [active : BOOLEAN, token : Tokens, reply : Rights]]
  <2>1. CASE Rehello(p)
      BY <1>0, <2>1, SeatsAreSeats DEF Rehello, HostTypeOK, Rights
  <2>2. CASE Admit(p)
      BY <1>0, <2>2, SeatsAreSeats DEF Admit, HostTypeOK, Rights
  <2>3. CASE Leave(p)
      BY <1>0, <2>3, SeatsAreSeats DEF Leave, HostTypeOK, Rights
  <2>4. CASE UNCHANGED clients
      BY <1>0, <2>4 DEF HostTypeOK
  <2>5. QED
      BY <2>1, <2>2, <2>3, <2>4
         DEF Refuse, NotifyConnected, LeaveUnknown,
             NotifyDisconnected, CheckKnown, DropUnknown, ShowFrame
<1>6. HandlersCarry'
    BY <1>0 DEF Rehello, Admit, Refuse, NotifyConnected, Leave, LeaveUnknown, HostTypeOK,
           NotifyDisconnected, CheckKnown, DropUnknown, ShowFrame, Done, HandlersCarry, Holding
<1>7. MailCarries' /\ ClientTypeOK'
    BY <1>0, <1>1 DEF MailCarries, clientState, ClientTypeOK
<1>8. HostTypeOK'
    BY <1>0, <1>1, <1>2, <1>3, <1>4, <1>5 DEF HostTypeOK
<1>9. QED
    BY <1>6, <1>7, <1>8 DEF StreamTypes, TypeOK

LEMMA TypesOfReceive ==
    ASSUME StreamTypes, NEW p \in Pollers, UNCHANGED clientState, Receive(p)
    PROVE  StreamTypes'
<1>0. HostTypeOK /\ ClientTypeOK /\ MailCarries /\ HandlersCarry /\ mail \in Seq(Messages)
    BY DEF StreamTypes, TypeOK, HostTypeOK
<1>1. /\ Head(mail) = mail[1] /\ 1 \in DOMAIN mail /\ mail' = Tail(mail)
      /\ mail' \in Seq(Messages)
      /\ \A i \in DOMAIN mail' : i + 1 \in DOMAIN mail /\ mail'[i] = mail[i + 1]
    BY <1>0, MailWithout DEF Receive
<1>2. /\ mail[1] \in Messages /\ mail[1].kind \in {"hello", "goodbye", "frame"}
      /\ mail[1].right \in Nat
    BY <1>0, <1>1, MailIsTyped
<1>3. MailCarries'
    BY <1>0, <1>1 DEF MailCarries
<1>4. HandlersCarry'
    BY <1>0, <1>1, <1>2 DEF Receive, HandlersCarry, Holding, MailCarries, HostTypeOK
<1>5. rights' \in SUBSET (Rights \ {0})
    BY <1>0, <1>1, <1>2 DEF Receive, Carried, Rights, HostTypeOK
<1>6. /\ hmsg' \in [Pollers -> Messages \cup {NoMsg}]
      /\ hpc' \in [Pollers -> {"idle", "hello", "connected", "goodbye",
                               "disconnected", "frame", "push", "sink"}]
    BY <1>0, <1>1, <1>2 DEF Receive, HostTypeOK
<1>7. HostTypeOK'
    BY <1>0, <1>1, <1>5, <1>6 DEF Receive, HostTypeOK
<1>8. ClientTypeOK'
    BY <1>0 DEF clientState, ClientTypeOK
<1>9. QED
    BY <1>3, <1>4, <1>7, <1>8 DEF StreamTypes, TypeOK

LEMMA TypesOfTheRest ==
    ASSUME StreamTypes, UNCHANGED clientState,
           (\E p \in Pollers : Push(p)) \/ MainThread \/ StopServer \/ DropHost
    PROVE  StreamTypes'
<1>0. /\ HostTypeOK /\ ClientTypeOK /\ MailCarries /\ HandlersCarry
      /\ queue \in Seq(Nat \ {0}) /\ Rights = Nat
    BY DEF StreamTypes, TypeOK, HostTypeOK, Rights
<1>1. ClientTypeOK'
    BY <1>0 DEF clientState, ClientTypeOK
<1>2. ASSUME NEW p \in Pollers, Push(p) PROVE StreamTypes'
  <2>1. hmsg[p].right \in Nat \ {0}
      BY <1>0, <1>2, HandlersAreTyped DEF Push, HandlersCarry, Holding
  <2>2. queue' \in Seq(Rights \ {0})
      BY <1>0, <1>2, <2>1, EnqueuedFrames DEF Push
  <2>3. HostTypeOK'
      BY <1>0, <1>2, <2>2 DEF Push, Deallocate, HostTypeOK
  <2>4. HandlersCarry' /\ MailCarries'
      BY <1>0, <1>2 DEF Push, HandlersCarry, Holding, HostTypeOK, MailCarries
  <2>5. QED
      BY <1>1, <2>3, <2>4 DEF StreamTypes, TypeOK
<1>3. CASE PopFrame
  <2>1. queue' \in Seq(Rights \ {0}) /\ inHand' \in Rights
      BY <1>0, <1>3, ShorterQueue, QueueIsTyped DEF PopFrame
  <2>2. HostTypeOK' /\ HandlersCarry' /\ MailCarries'
      BY <1>0, <1>3, <2>1 DEF PopFrame, HostTypeOK, HandlersCarry, Holding, MailCarries
  <2>3. QED
      BY <1>1, <2>2 DEF StreamTypes, TypeOK
<1>4. CASE ReleaseFramePort \/ StopServer
  <2>1. /\ UNCHANGED <<mail, queue, clients, hpc, hmsg, view, heard, alive>>
        /\ inHand' = 0 \/ inHand' = inHand
      BY <1>4 DEF ReleaseFramePort, StopServer
  <2>2. rights' \in SUBSET (Rights \ {0}) /\ released' \in SUBSET Rights
      BY <1>0, <1>4 DEF ReleaseFramePort, StopServer, Deallocate, HostTypeOK
  <2>6. inHand' \in Rights
      BY <1>0, <2>1 DEF HostTypeOK
  <2>7. running' \in BOOLEAN
      BY <1>0, <1>4 DEF ReleaseFramePort, StopServer, HostTypeOK
  <2>3. HostTypeOK'
      BY <1>0, <2>1, <2>2, <2>6, <2>7 DEF HostTypeOK
  <2>4. HandlersCarry' /\ MailCarries'
      BY <1>0, <2>1 DEF HandlersCarry, Holding, MailCarries
  <2>5. QED
      BY <1>1, <2>3, <2>4 DEF StreamTypes, TypeOK
<1>5. CASE DropHost
  <2>1. /\ mail' \in Seq(Messages) /\ queue' \in Seq(Rights \ {0})
        /\ clients' \in [Seats -> [active : BOOLEAN, token : Tokens, reply : Rights]]
      BY <1>5, EmptySeq, SomeToken DEF DropHost, Empty, Rights
  <2>2. HostTypeOK'
      BY <1>0, <1>5, <2>1 DEF DropHost, Deallocate, HostTypeOK
  <2>3. HandlersCarry' /\ MailCarries'
      BY <1>0, <1>5 DEF DropHost, HandlersCarry, Holding, MailCarries
  <2>4. QED
      BY <1>1, <2>2, <2>3 DEF StreamTypes, TypeOK
<1>6. QED
    BY <1>2, <1>3, <1>4, <1>5 DEF MainThread

\* The part of the host's state a client leaves alone.
hostSide == <<queue, clients, hpc, hmsg, rights, view, inHand, released, heard, running>>

LEMMA MailAfterSending ==
    ASSUME mail \in Seq(Messages), lastRight \in Nat,
           NEW kind \in {"hello", "goodbye", "frame"}, NEW t \in Tokens, NEW r \in Nat,
           Sends(kind, t, r)
    PROVE  /\ mail' \in Seq(Messages)
           /\ DOMAIN mail' = 1 .. Len(mail) + 1 /\ Len(mail) \in Nat
           /\ DOMAIN mail = 1 .. Len(mail)
           /\ \A i \in DOMAIN mail : mail'[i] = mail[i]
           /\ mail'[Len(mail) + 1].kind = kind /\ mail'[Len(mail) + 1].token = t
           /\ mail'[Len(mail) + 1].right = r
<1> DEFINE m == [kind |-> kind, token |-> t, right |-> r]
<1>1. m \in Messages /\ m.kind = kind /\ m.token = t /\ m.right = r
    BY DEF Messages, Rights
<1>2. mail' = Append(mail, m)
    BY DEF Sends
<1> HIDE DEF m
<1>3. QED
    BY <1>1, <1>2, MailWithOneMore

LEMMA TypesOfClients ==
    ASSUME StreamTypes, ClientStep
    PROVE  StreamTypes'
<1>0. /\ HostTypeOK /\ ClientTypeOK /\ MailCarries /\ HandlersCarry
      /\ mail \in Seq(Messages) /\ lastRight \in Nat
    BY DEF StreamTypes, TypeOK, HostTypeOK, ClientTypeOK
<1>1. ClientSends /\ UNCHANGED alive /\ ClientTypeOK' /\ UNCHANGED hostSide
    BY <1>0, ClientsSend, ClientTypesNext DEF ClientStep, hostSide
<1>2. mail' \in Seq(Messages) /\ MailCarries'
  <2>1. CASE UNCHANGED mail
      BY <1>0, <2>1 DEF MailCarries
  <2>2. ASSUME NEW kind \in {"hello", "goodbye", "frame"}, NEW t \in Tokens, NEW r \in Nat,
               Sends(kind, t, r), kind # "goodbye" <=> r # 0
        PROVE  mail' \in Seq(Messages) /\ MailCarries'
    <3>1. /\ mail' \in Seq(Messages)
          /\ \A i \in DOMAIN mail' : i \in DOMAIN mail \/ i = Len(mail) + 1
          /\ \A i \in DOMAIN mail : mail'[i] = mail[i]
          /\ mail'[Len(mail) + 1].kind = kind /\ mail'[Len(mail) + 1].right = r
        BY <1>0, <2>2, MailAfterSending
    <3>2. QED
        BY <1>0, <2>2, <3>1 DEF MailCarries
  <2>3. lastRight + 1 # 0
      BY <1>0
  <2>4. QED
      BY <1>1, <2>1, <2>2, <2>3 DEF ClientSends
<1>3. HostTypeOK' /\ HandlersCarry'
    BY <1>0, <1>1, <1>2 DEF hostSide, HostTypeOK, HandlersCarry, Holding
<1>4. QED
    BY <1>1, <1>2, <1>3 DEF StreamTypes, TypeOK

LEMMA StreamTypesNext == StreamTypes /\ [Next]_vars => StreamTypes'
<1> SUFFICES ASSUME StreamTypes, [Next]_vars PROVE StreamTypes'
    OBVIOUS
<1>1. CASE HostStep
    BY <1>1, TypesOfHandlers, TypesOfReceive, TypesOfTheRest DEF HostStep, HostNext, RunOnce
<1>2. CASE ClientStep
    BY <1>2, TypesOfClients
<1>3. CASE UNCHANGED vars
    BY <1>3 DEF vars, hostVars, clientState, StreamTypes, TypeOK, HostTypeOK, ClientTypeOK,
                MailCarries, HandlersCarry, Holding
<1>4. QED
    BY <1>1, <1>2, <1>3 DEF Next

\* The types of every reachable state.
THEOREM StreamIsTyped == Spec => []TypeOK
<1>1. StreamTypes => TypeOK
    BY DEF StreamTypes
<1>2. QED
    BY <1>1, StreamTypesInit, StreamTypesNext, PTL DEF Spec

-----------------------------------------------------------------------------
(* Every right has one owner.  The port holds rights in the order of their *)
(* numbers, and only such as were never received.                          *)

MailIsFresh ==
    /\ \A r \in rights \cup released : r <= lastRight
    /\ \A i \in DOMAIN mail : mail[i].right <= lastRight
    /\ \A i \in DOMAIN mail : \A r \in rights \cup released :
          mail[i].right # 0 => r < mail[i].right
    /\ \A i, j \in DOMAIN mail :
          i < j /\ mail[i].right # 0 /\ mail[j].right # 0 => mail[i].right < mail[j].right

\* Within a class of owners no two have the same right.
HoldersDiffer == \A p, q \in Holding : hmsg[p].right = hmsg[q].right => p = q
FramesDiffer == \A i, j \in DOMAIN queue : queue[i] = queue[j] => i = j
RepliesDiffer ==
    /\ \A i \in Seats : clients[i].active => clients[i].reply # 0
    /\ \A i, j \in Seats : clients[i].active /\ clients[j].active
                            /\ clients[i].reply = clients[j].reply => i = j

\* The four classes share no right.
ClassesDiffer ==
    /\ HandlerRights \cap (QueuedRights \cup ReplyRights) = {}
    /\ QueuedRights \cap ReplyRights = {}
    /\ inHand \notin HandlerRights \cup QueuedRights \cup ReplyRights

OwnersDiffer == HoldersDiffer /\ FramesDiffer /\ RepliesDiffer /\ ClassesDiffer

\* Of a host that is gone only what the main thread holds is left.
GoneIsEmpty ==
    ~alive => mail = <<>> /\ queue = <<>> /\ \A p \in Pollers : hpc[p] = "idle"

Ownership == /\ MailIsFresh /\ GoneIsEmpty
             /\ HoldersDiffer /\ FramesDiffer /\ RepliesDiffer
             /\ RightsAreOwned /\ ClassesDiffer

OnlyMoves(p) == \A q \in Pollers \ {p} : hpc'[q] = hpc[q] /\ hmsg'[q] = hmsg[q]

LEMMA ClassesAreRights ==
    ASSUME StreamTypes
    PROVE  /\ HandlerRights = {hmsg[p].right : p \in Holding}
           /\ HandlerRights \subseteq Nat \ {0}
           /\ QueuedRights \subseteq Nat \ {0} /\ ReplyRights \subseteq Nat \ {0}
<1>0. HostTypeOK /\ HandlersCarry
    BY DEF StreamTypes, TypeOK
<1>1. HandlerRights = {hmsg[p].right : p \in Holding}
    BY <1>0 DEF HandlersCarry, HandlerRights, Holding
<1>2. HandlerRights \subseteq Nat \ {0}
    BY <1>0, <1>1, HandlersAreTyped DEF HandlersCarry, Holding
<1>3. QueuedRights \subseteq Nat \ {0}
    BY <1>0, QueueIsTyped DEF QueuedRights
<1>4. ReplyRights \subseteq Nat \ {0}
    BY <1>0 DEF HostTypeOK, ReplyRights, Rights
<1>5. QED
    BY <1>1, <1>2, <1>3, <1>4

\* A handler that stores or drops its right, and one that does neither.
LEMMA HandlerLetsGo ==
    ASSUME StreamTypes, HoldersDiffer, NEW p \in Holding, OnlyMoves(p),
           hpc'[p] \notin {"hello", "frame", "push"}
    PROVE  /\ HandlerRights' = HandlerRights \ {hmsg[p].right} /\ HoldersDiffer'
           /\ hmsg[p].right \in HandlerRights
<1>1. /\ HandlerRights = {hmsg[q].right : q \in Holding} \ {0}
      /\ HandlerRights' = {hmsg'[q].right : q \in Holding'} \ {0}
      /\ hmsg[p].right \in HandlerRights
    BY DEF HandlerRights, Holding, StreamTypes, HandlersCarry
<1>2. Holding' = Holding \ {p} /\ \A q \in Holding' : hmsg'[q].right = hmsg[q].right
    BY DEF Holding, OnlyMoves
<1>3. QED
    BY <1>1, <1>2 DEF HoldersDiffer

LEMMA HandlersKeep ==
    ASSUME HoldersDiffer, NEW p \in Pollers, OnlyMoves(p),
           p \in Holding <=> hpc'[p] \in {"hello", "frame", "push"},
           p \in Holding => hmsg'[p] = hmsg[p]
    PROVE  HandlerRights' = HandlerRights /\ HoldersDiffer'
<1>1. Holding' = Holding /\ \A q \in Holding : hmsg'[q] = hmsg[q]
    BY DEF Holding, OnlyMoves
<1>2. HandlerRights = {hmsg[q].right : q \in Holding} \ {0}
      /\ HandlerRights' = {hmsg'[q].right : q \in Holding'} \ {0}
    BY DEF HandlerRights, Holding
<1>3. QED
    BY <1>1, <1>2 DEF HoldersDiffer

\* What a hello and a goodbye do to the reply ports.
LEMMA ReplyStored ==
    ASSUME HostTypeOK, RepliesDiffer, NEW i \in Seats, NEW r \in Nat \ {0},
           r \notin ReplyRights,
           clients'[i].active, clients'[i].reply = r,
           \A j \in Seats \ {i} : clients'[j] = clients[j]
    PROVE  /\ RepliesDiffer'
           /\ ~clients[i].active => ReplyRights' = ReplyRights \cup {r}
           /\ clients[i].active =>
                 /\ clients[i].reply \in ReplyRights
                 /\ ReplyRights' = (ReplyRights \ {clients[i].reply}) \cup {r}
<1>2. \A j \in Seats : clients[j].active => clients[j].reply \in ReplyRights
    BY DEF ReplyRights, RepliesDiffer
<1>3. RepliesDiffer'
    BY <1>2 DEF RepliesDiffer, Seats
<1>4. ReplyRights' = {clients'[j].reply : j \in {k \in Seats : clients'[k].active}} \ {0}
    BY DEF ReplyRights, Seats
<1>5. ~clients[i].active => ReplyRights' = ReplyRights \cup {r}
    BY <1>2, <1>4 DEF ReplyRights
<1>6. clients[i].active => ReplyRights' = (ReplyRights \ {clients[i].reply}) \cup {r}
    BY <1>2, <1>4 DEF ReplyRights, RepliesDiffer
<1>7. QED
    BY <1>2, <1>3, <1>5, <1>6

LEMMA ReplyDropped ==
    ASSUME HostTypeOK, RepliesDiffer, NEW i \in Seats, clients[i].active,
           clients' = [clients EXCEPT ![i].active = FALSE, ![i].reply = 0]
    PROVE  /\ RepliesDiffer' /\ clients[i].reply \in ReplyRights
           /\ ReplyRights' = ReplyRights \ {clients[i].reply}
<1>0. ~clients'[i].active /\ \A j \in Seats \ {i} : clients'[j] = clients[j]
    BY DEF HostTypeOK
<1>1. \A j \in Seats : clients'[j].active => j # i /\ clients'[j] = clients[j]
    BY <1>0, Zenon
<1>2. \A j \in Seats : clients[j].active => clients[j].reply \in ReplyRights
    BY DEF ReplyRights, RepliesDiffer
<1>3. RepliesDiffer'
    BY <1>1, <1>2 DEF RepliesDiffer, Seats
<1>4. /\ \A r : r \in ReplyRights <=>
             r # 0 /\ \E j \in Seats : clients[j].active /\ clients[j].reply = r
      /\ \A r : r \in ReplyRights' <=>
             r # 0 /\ \E j \in Seats : clients'[j].active /\ clients'[j].reply = r
    BY DEF ReplyRights, Seats
<1>5. ReplyRights' = ReplyRights \ {clients[i].reply}
  <2>1. ASSUME NEW r \in ReplyRights' PROVE r \in ReplyRights \ {clients[i].reply}
    <3>1. PICK j \in Seats : clients'[j].active /\ clients'[j].reply = r
        BY <1>4
    <3>2. j # i /\ clients[j].active /\ clients[j].reply = r /\ r # 0
        BY <1>1, <1>4, <3>1
    <3>3. QED
        BY <1>4, <3>2 DEF RepliesDiffer
  <2>2. ASSUME NEW r \in ReplyRights \ {clients[i].reply} PROVE r \in ReplyRights'
    <3>1. PICK j \in Seats : clients[j].active /\ clients[j].reply = r
        BY <1>4
    <3>2. j # i /\ clients'[j] = clients[j] /\ r # 0
        BY <1>0, <1>4, <3>1
    <3>3. QED
        BY <1>4, <3>1, <3>2
  <2>3. QED
      BY <2>1, <2>2
<1>6. QED
    BY <1>2, <1>3, <1>5

LEMMA FreshWithFewer ==
    ASSUME MailIsFresh, UNCHANGED <<mail, lastRight>>,
           rights' \cup released' \subseteq rights \cup released
    PROVE  MailIsFresh'
BY DEF MailIsFresh

\* A step of a handler that stores its right, drops it, or drops a reply port.
LEMMA OwnershipOfHandlers ==
    ASSUME StreamTypes, Ownership, NEW p \in Pollers, UNCHANGED clientState,
           \/ Rehello(p) \/ Admit(p) \/ Refuse(p) \/ NotifyConnected(p)
           \/ Leave(p) \/ LeaveUnknown(p) \/ NotifyDisconnected(p)
           \/ CheckKnown(p) \/ DropUnknown(p) \/ ShowFrame(p)
    PROVE  Ownership'
<1> DEFINE r == hmsg[p].right
<1>0. /\ HostTypeOK /\ MailIsFresh /\ GoneIsEmpty
      /\ HoldersDiffer /\ FramesDiffer /\ RepliesDiffer /\ RightsAreOwned /\ ClassesDiffer
      /\ hmsg[p].token \in Tokens
      /\ p \in Holding => r \in Nat \ {0}
    BY HandlersAreTyped DEF StreamTypes, TypeOK, Ownership, HandlersCarry
<1>1. UNCHANGED <<mail, queue, inHand, released, running, alive, lastRight>>
    BY DEF Rehello, Admit, Refuse, NotifyConnected, Leave, LeaveUnknown, clientState,
           NotifyDisconnected, CheckKnown, DropUnknown, ShowFrame
<1>2. OnlyMoves(p)
    BY <1>0 DEF Rehello, Admit, Refuse, NotifyConnected, Leave, LeaveUnknown, HostTypeOK,
           NotifyDisconnected, CheckKnown, DropUnknown, ShowFrame, Done, OnlyMoves
<1>3. rights' \subseteq rights /\ hpc[p] # "idle"
    BY DEF Rehello, Admit, Refuse, NotifyConnected, Leave, LeaveUnknown, Deallocate,
           NotifyDisconnected, CheckKnown, DropUnknown, ShowFrame
<1>4. MailIsFresh' /\ GoneIsEmpty'
    BY <1>0, <1>1, <1>3, FreshWithFewer DEF GoneIsEmpty
<1>5. FramesDiffer' /\ QueuedRights' = QueuedRights
    BY <1>0, <1>1 DEF FramesDiffer, QueuedRights
<1>6. SUFFICES HoldersDiffer' /\ RepliesDiffer' /\ RightsAreOwned' /\ ClassesDiffer'
    BY <1>4, <1>5 DEF Ownership
<1>7. p \in Holding => r \in HandlerRights
    BY <1>0 DEF HandlerRights, Holding
<1>8. CASE NotifyConnected(p) \/ LeaveUnknown(p) \/ NotifyDisconnected(p)
           \/ CheckKnown(p) \/ ShowFrame(p)
  <2>1. UNCHANGED <<clients, rights>>
      BY <1>8 DEF NotifyConnected, LeaveUnknown, NotifyDisconnected, CheckKnown, ShowFrame
  <2>2. /\ p \in Holding <=> hpc'[p] \in {"hello", "frame", "push"}
        /\ p \in Holding => hmsg'[p] = hmsg[p]
      BY <1>0, <1>8 DEF NotifyConnected, LeaveUnknown, NotifyDisconnected, CheckKnown,
                        ShowFrame, Holding, Done, HostTypeOK
  <2>3. HandlerRights' = HandlerRights /\ HoldersDiffer'
      BY <1>0, <1>2, <2>2, HandlersKeep
  <2>4. ReplyRights' = ReplyRights /\ RepliesDiffer'
      BY <1>0, <2>1 DEF ReplyRights, RepliesDiffer, Seats
  <2>5. QED
      BY <1>0, <1>1, <1>5, <2>1, <2>3, <2>4 DEF RightsAreOwned, ClassesDiffer
<1>9. CASE Refuse(p) \/ DropUnknown(p)
  <2>1. p \in Holding /\ rights' = rights \ {r} /\ UNCHANGED clients
        /\ hpc'[p] \notin {"hello", "frame", "push"}
      BY <1>0, <1>9 DEF Refuse, DropUnknown, Deallocate, Holding, Done, HostTypeOK
  <2>2. HandlerRights' = HandlerRights \ {r} /\ HoldersDiffer'
      BY <1>0, <1>2, <2>1, HandlerLetsGo
  <2>3. ReplyRights' = ReplyRights /\ RepliesDiffer'
      BY <1>0, <2>1 DEF ReplyRights, RepliesDiffer, Seats
  <2>4. QED
      BY <1>0, <1>1, <1>5, <1>7, <2>1, <2>2, <2>3 DEF RightsAreOwned, ClassesDiffer
<1>10. CASE Rehello(p) \/ Admit(p)
  <2>1. p \in Holding /\ hpc'[p] \notin {"hello", "frame", "push"}
      BY <1>0, <1>10 DEF Rehello, Admit, Holding, Done, HostTypeOK
  <2>2. HandlerRights' = HandlerRights \ {r} /\ HoldersDiffer'
      BY <1>0, <1>2, <2>1, HandlerLetsGo
  <2>3. r \in Nat \ {0} /\ r \in HandlerRights /\ r \notin ReplyRights
      BY <1>0, <1>7, <2>1 DEF ClassesDiffer
  <2>4. CASE Rehello(p)
    <3>1. PICK i \in Seats : /\ clients[i].active /\ clients[i].token = hmsg[p].token
                             /\ rights' = rights \ {clients[i].reply}
                             /\ clients' = [clients EXCEPT ![i].reply = r]
        BY <2>4, SeatsAreSeats DEF Rehello, Deallocate, SeatsOf
    <3>2. /\ clients'[i].active /\ clients'[i].reply = r
          /\ \A j \in Seats \ {i} : clients'[j] = clients[j]
        BY <1>0, <3>1 DEF HostTypeOK
    <3>3. /\ RepliesDiffer' /\ clients[i].reply \in ReplyRights
          /\ ReplyRights' = (ReplyRights \ {clients[i].reply}) \cup {r}
        BY <1>0, <2>3, <3>1, <3>2, ReplyStored
    <3>4. QED
        BY <1>0, <1>1, <1>5, <2>2, <2>3, <3>1, <3>3 DEF RightsAreOwned, ClassesDiffer
  <2>5. CASE Admit(p)
    <3>1. PICK i \in Seats : /\ ~clients[i].active
                             /\ clients' = [clients EXCEPT ![i] =
                                  [active |-> TRUE, token |-> hmsg[p].token, reply |-> r]]
        BY <2>5, SeatsAreSeats DEF Admit, Vacant
    <3>5. /\ clients'[i].active /\ clients'[i].reply = r
          /\ \A j \in Seats \ {i} : clients'[j] = clients[j]
        BY <1>0, <3>1 DEF HostTypeOK
    <3>2. RepliesDiffer' /\ ReplyRights' = ReplyRights \cup {r}
        BY <1>0, <2>3, <3>1, <3>5, ReplyStored
    <3>3. rights' = rights
        BY <2>5 DEF Admit
    <3>4. QED
        BY <1>0, <1>1, <1>5, <2>2, <2>3, <3>2, <3>3 DEF RightsAreOwned, ClassesDiffer
  <2>6. QED
      BY <1>10, <2>4, <2>5
<1>11. CASE Leave(p)
  <2>1. PICK i \in Seats : /\ clients[i].active /\ rights' = rights \ {clients[i].reply}
                           /\ clients' = [clients EXCEPT ![i].active = FALSE, ![i].reply = 0]
      BY <1>11, SeatsAreSeats DEF Leave, Deallocate, SeatsOf
  <2>2. /\ RepliesDiffer' /\ clients[i].reply \in ReplyRights
        /\ ReplyRights' = ReplyRights \ {clients[i].reply}
      BY <1>0, <2>1, ReplyDropped
  <2>3. p \notin Holding /\ hpc'[p] \notin {"hello", "frame", "push"}
      BY <1>0, <1>11 DEF Leave, Holding, HostTypeOK
  <2>4. HandlerRights' = HandlerRights /\ HoldersDiffer'
      BY <1>0, <1>2, <2>3, HandlersKeep
  <2>5. QED
      BY <1>0, <1>1, <1>5, <2>1, <2>2, <2>4 DEF RightsAreOwned, ClassesDiffer
<1>12. QED
    BY <1>8, <1>9, <1>10, <1>11

\* What Push and PopFrame do to the queued rights.
LEMMA FrameQueued ==
    ASSUME HostTypeOK, FramesDiffer, NEW f \in Nat \ {0}, f \notin QueuedRights,
           queue' = Enqueued(f)
    PROVE  /\ FramesDiffer' /\ Evicted(f) \subseteq QueuedRights
           /\ QueuedRights' = (QueuedRights \ Evicted(f)) \cup {f}
<1>1. Len(queue) \in Nat /\ DOMAIN queue = 1 .. Len(queue)
    BY QueueIsTyped
<1>2. \A i \in 1 .. Len(queue) : queue[i] # f
    BY <1>1 DEF QueuedRights
<1>3. /\ QueuedRights = {queue[i] : i \in 1 .. Len(queue)}
      /\ QueuedRights' = {queue'[i] : i \in DOMAIN queue'}
    BY <1>1 DEF QueuedRights
<1>4. CASE /\ Evicted(f) = {}
           /\ DOMAIN queue' = 1 .. Len(queue) + 1
           /\ \A i \in 1 .. Len(queue) : queue'[i] = queue[i]
           /\ queue'[Len(queue) + 1] = f
  <2>1. FramesDiffer'
      BY <1>1, <1>2, <1>4 DEF FramesDiffer
  <2>2. QueuedRights' = QueuedRights \cup {f}
      BY <1>1, <1>3, <1>4
  <2>3. QED
      BY <1>4, <2>1, <2>2
<1>5. CASE /\ 1 \in DOMAIN queue /\ Evicted(f) = {queue[1]}
           /\ DOMAIN queue' = 1 .. Len(queue)
           /\ \A i \in 1 .. Len(queue) - 1 : queue'[i] = queue[i + 1]
           /\ queue'[Len(queue)] = f
  <2>1. FramesDiffer'
      BY <1>1, <1>2, <1>5 DEF FramesDiffer
  <2>2. \A i \in 2 .. Len(queue) : queue[i] # queue[1] /\ queue[i] = queue'[i - 1]
      BY <1>1, <1>5 DEF FramesDiffer
  <2>3. QueuedRights' = (QueuedRights \ {queue[1]}) \cup {f}
    <3>1. ASSUME NEW g \in QueuedRights' PROVE g \in (QueuedRights \ {queue[1]}) \cup {f}
      <4>1. PICK j \in 1 .. Len(queue) : g = queue'[j]
          BY <1>3, <1>5
      <4>2. CASE j = Len(queue)
          BY <1>5, <4>1, <4>2
      <4>3. CASE j # Len(queue)
        <5>1. j + 1 \in 2 .. Len(queue) /\ j \in 1 .. Len(queue) - 1
          <6> DEFINE n == Len(queue)
          <6>1. n \in Nat /\ j \in 1 .. n /\ j # n
              BY <1>1, <4>3
          <6> HIDE DEF n
          <6>2. j + 1 \in 2 .. n /\ j \in 1 .. n - 1
              BY <6>1
          <6>3. QED
              BY <6>2 DEF n
        <5>2. g = queue[j + 1] /\ queue[j + 1] # queue[1]
            BY <1>5, <2>2, <4>1, <5>1
        <5>3. QED
            BY <1>3, <1>1, <5>1, <5>2
      <4>4. QED
          BY <4>2, <4>3
    <3>2. ASSUME NEW g \in QueuedRights, g # queue[1] PROVE g \in QueuedRights'
      <4>1. PICK j \in 1 .. Len(queue) : g = queue[j]
          BY <1>3
      <4>2. j \in 2 .. Len(queue) /\ j - 1 \in 1 .. Len(queue)
        <5> DEFINE n == Len(queue)
        <5>1. n \in Nat /\ j \in 1 .. n /\ j # 1
            BY <1>1, <3>2, <4>1
        <5> HIDE DEF n
        <5>2. j \in 2 .. n /\ j - 1 \in 1 .. n
            BY <5>1
        <5>3. QED
            BY <5>2 DEF n
      <4>3. g = queue'[j - 1]
          BY <2>2, <4>1, <4>2
      <4>4. QED
          BY <1>3, <1>5, <4>2, <4>3
    <3>3. f \in QueuedRights'
      <4>1. Len(queue) \in 1 .. Len(queue)
          BY <1>1, <1>5
      <4>2. QED
          BY <1>3, <1>5, <4>1
    <3>4. QED
        BY <3>1, <3>2, <3>3
  <2>4. {queue[1]} \subseteq QueuedRights
      BY <1>5 DEF QueuedRights
  <2>5. QED
      BY <1>5, <2>1, <2>3, <2>4
<1>6. QED
    BY <1>4, <1>5, EnqueuedFrames

LEMMA FramePopped ==
    ASSUME HostTypeOK, FramesDiffer, queue # <<>>, queue' = Tail(queue)
    PROVE  /\ FramesDiffer' /\ Head(queue) \in QueuedRights
           /\ QueuedRights' = QueuedRights \ {Head(queue)}
<1>1. /\ Len(queue) \in Nat /\ DOMAIN queue = 1 .. Len(queue)
      /\ Head(queue) = queue[1] /\ 1 \in DOMAIN queue
      /\ DOMAIN queue' = 1 .. Len(queue) - 1
      /\ \A i \in DOMAIN queue' : queue'[i] = queue[i + 1]
    BY QueueIsTyped, ShorterQueue
<1>2. FramesDiffer'
    BY <1>1 DEF FramesDiffer
<1>3. \A i \in 2 .. Len(queue) : queue[i] # queue[1] /\ queue[i] = queue'[i - 1]
    BY <1>1 DEF FramesDiffer
<1>4. /\ QueuedRights = {queue[i] : i \in 1 .. Len(queue)}
      /\ QueuedRights' = {queue'[i] : i \in 1 .. Len(queue) - 1}
    BY <1>1 DEF QueuedRights
<1>5. QueuedRights' = QueuedRights \ {Head(queue)}
    BY <1>1, <1>3, <1>4 DEF FramesDiffer
<1>6. QED
    BY <1>1, <1>2, <1>4, <1>5

LEMMA OwnershipOfReceive ==
    ASSUME StreamTypes, Ownership, NEW p \in Pollers, UNCHANGED clientState, Receive(p)
    PROVE  Ownership'
<1> DEFINE r == mail[1].right
<1>0. /\ HostTypeOK /\ MailIsFresh /\ GoneIsEmpty /\ MailCarries
      /\ HoldersDiffer /\ FramesDiffer /\ RepliesDiffer /\ RightsAreOwned /\ ClassesDiffer
      /\ mail \in Seq(Messages)
    BY DEF StreamTypes, TypeOK, Ownership, HostTypeOK
<1>1. /\ Head(mail) = mail[1] /\ 1 \in DOMAIN mail
      /\ \A i \in DOMAIN mail' : i \in Nat \ {0} /\ i + 1 \in DOMAIN mail /\ mail'[i] = mail[i + 1]
    BY <1>0, MailWithout DEF Receive
<1>2. /\ mail[1].kind \in {"hello", "goodbye", "frame"} /\ r \in Nat
      /\ \A i \in DOMAIN mail : mail[i].right \in Nat
      /\ r = 0 <=> mail[1].kind = "goodbye"
    BY <1>0, <1>1, MailIsTyped DEF MailCarries
<1>3. /\ rights' = rights \cup ({r} \ {0}) /\ UNCHANGED <<released, lastRight>>
      /\ UNCHANGED <<queue, clients, inHand, alive>> /\ alive
      /\ hpc' = [hpc EXCEPT ![p] = mail[1].kind] /\ hmsg' = [hmsg EXCEPT ![p] = mail[1]]
      /\ hpc[p] = "idle"
  <2>1. rights' = rights \cup ({r} \ {0})
      BY <1>1 DEF Receive, Carried
  <2>2. hpc' = [hpc EXCEPT ![p] = mail[1].kind] /\ hmsg' = [hmsg EXCEPT ![p] = mail[1]]
      BY <1>1 DEF Receive
  <2>3. /\ UNCHANGED <<released, lastRight>> /\ UNCHANGED <<queue, clients, inHand, alive>>
        /\ alive /\ hpc[p] = "idle"
      BY DEF Receive, clientState
  <2>4. QED
      BY <2>1, <2>2, <2>3
<1>4. MailIsFresh'
  <2>1. \A i \in DOMAIN mail' : /\ i + 1 \in DOMAIN mail /\ 1 < i + 1
                               /\ mail'[i].right = mail[i + 1].right
      BY <1>1
  <2>2. \A k \in rights' \cup released' : k \in rights \cup released \/ (k = r /\ r # 0)
      BY <1>3
  <2>3. /\ \A k \in rights' \cup released' : k <= lastRight'
        /\ \A i \in DOMAIN mail' : mail'[i].right <= lastRight'
      BY <1>0, <1>1, <1>3, <2>1, <2>2 DEF MailIsFresh
  <2>4. \A i \in DOMAIN mail' : \A k \in rights' \cup released' :
            mail'[i].right # 0 => k < mail'[i].right
      BY <1>0, <1>1, <2>1, <2>2 DEF MailIsFresh
  <2>5. \A i, j \in DOMAIN mail' : i < j => i + 1 < j + 1
      BY <1>1
  <2>6. \A i, j \in DOMAIN mail' :
            i < j /\ mail'[i].right # 0 /\ mail'[j].right # 0 => mail'[i].right < mail'[j].right
      BY <1>0, <2>1, <2>5 DEF MailIsFresh
  <2>7. QED
      BY <2>3, <2>4, <2>6 DEF MailIsFresh
<1>5. GoneIsEmpty'
    BY <1>3 DEF GoneIsEmpty
<1>6. FramesDiffer' /\ RepliesDiffer' /\ QueuedRights' = QueuedRights /\ ReplyRights' = ReplyRights
    BY <1>0, <1>3 DEF FramesDiffer, RepliesDiffer, QueuedRights, ReplyRights, Seats
<1>7. OnlyMoves(p) /\ hpc'[p] = mail[1].kind /\ hmsg'[p] = mail[1]
    BY <1>0, <1>3 DEF OnlyMoves, HostTypeOK
<1>8. r \notin rights
    BY <1>0, <1>1, <1>2 DEF MailIsFresh, HostTypeOK, Rights
<1>9. HandlerRights \cup QueuedRights \cup ReplyRights \subseteq rights
      /\ (inHand # 0 => inHand \in rights) /\ \A q \in Holding : hmsg[q].right \in HandlerRights
    BY <1>0 DEF RightsAreOwned, HandlerRights, Holding, StreamTypes, HandlersCarry
<1>10. /\ HandlerRights = {hmsg[q].right : q \in Holding} \ {0}
       /\ HandlerRights' = {hmsg'[q].right : q \in Holding'} \ {0}
    BY DEF HandlerRights, Holding
<1>11. CASE mail[1].kind = "goodbye"
  <2>1. p \notin Holding /\ hpc'[p] \notin {"hello", "frame", "push"}
      BY <1>3, <1>7, <1>11 DEF Holding
  <2>2. HandlerRights' = HandlerRights /\ HoldersDiffer'
      BY <1>0, <1>7, <2>1, HandlersKeep
  <2>3. rights' = rights
      BY <1>2, <1>3, <1>11
  <2>4. QED
      BY <1>0, <1>3, <1>4, <1>5, <1>6, <2>2, <2>3 DEF Ownership, RightsAreOwned, ClassesDiffer
<1>12. CASE mail[1].kind # "goodbye"
  <2>1. /\ Holding' = Holding \cup {p} /\ p \notin Holding
        /\ \A q \in Holding : hmsg'[q] = hmsg[q]
      BY <1>2, <1>3, <1>7, <1>12 DEF Holding, OnlyMoves
  <2>2. HoldersDiffer'
      BY <1>0, <1>7, <1>8, <1>9, <2>1 DEF HoldersDiffer
  <2>3. HandlerRights' = HandlerRights \cup {r} /\ r # 0
      BY <1>2, <1>7, <1>10, <1>12, <2>1
  <2>4. rights' = rights \cup {r}
      BY <1>3, <2>3
  <2>5. RightsAreOwned'
      BY <1>0, <1>3, <1>6, <2>3, <2>4 DEF RightsAreOwned
  <2>6. ClassesDiffer'
      BY <1>0, <1>3, <1>6, <1>8, <1>9, <2>3 DEF ClassesDiffer
  <2>7. QED
      BY <1>4, <1>5, <1>6, <2>2, <2>5, <2>6 DEF Ownership
<1>13. QED
    BY <1>11, <1>12

LEMMA OwnershipOfTheRest ==
    ASSUME StreamTypes, Ownership, UNCHANGED clientState,
           (\E p \in Pollers : Push(p)) \/ MainThread \/ StopServer \/ DropHost
    PROVE  Ownership'
<1>0. /\ HostTypeOK /\ MailIsFresh /\ GoneIsEmpty
      /\ HoldersDiffer /\ FramesDiffer /\ RepliesDiffer /\ RightsAreOwned /\ ClassesDiffer
      /\ inHand \in Nat
    BY DEF StreamTypes, TypeOK, Ownership, HostTypeOK, Rights
<1>1. UNCHANGED lastRight
    BY DEF clientState
<1>2. ASSUME NEW p \in Pollers, Push(p) PROVE Ownership'
  <2> DEFINE f == hmsg[p].right
  <2>1. /\ queue' = Enqueued(f) /\ rights' = rights \ Evicted(f)
        /\ UNCHANGED <<mail, clients, hmsg, inHand, released, running, alive>>
        /\ p \in Holding /\ hpc'[p] = "sink" /\ OnlyMoves(p) /\ hpc[p] # "idle"
      BY <1>0, <1>2 DEF Push, Deallocate, Holding, OnlyMoves, HostTypeOK
  <2>2. f \in Nat \ {0} /\ f \in HandlerRights
      BY <2>1, <1>0, HandlersAreTyped DEF StreamTypes, HandlersCarry, HandlerRights, Holding
  <2>3. f \notin QueuedRights
      BY <1>0, <2>2 DEF ClassesDiffer
  <2>4. /\ FramesDiffer' /\ Evicted(f) \subseteq QueuedRights
        /\ QueuedRights' = (QueuedRights \ Evicted(f)) \cup {f}
      BY <1>0, <2>1, <2>2, <2>3, FrameQueued
  <2>5. HandlerRights' = HandlerRights \ {f} /\ HoldersDiffer'
      BY <1>0, <2>1, HandlerLetsGo
  <2>6. ReplyRights' = ReplyRights /\ RepliesDiffer'
      BY <1>0, <2>1 DEF ReplyRights, RepliesDiffer, Seats
  <2>7. MailIsFresh' /\ GoneIsEmpty'
      BY <1>0, <1>1, <2>1, FreshWithFewer DEF GoneIsEmpty
  <2>8. RightsAreOwned'
      BY <1>0, <2>1, <2>2, <2>3, <2>4, <2>5, <2>6 DEF RightsAreOwned, ClassesDiffer
  <2>9. ClassesDiffer'
      BY <1>0, <2>1, <2>2, <2>4, <2>5, <2>6 DEF ClassesDiffer
  <2>10. QED
      BY <2>4, <2>5, <2>6, <2>7, <2>8, <2>9 DEF Ownership
<1>3. CASE PopFrame
  <2>1. /\ inHand = 0 /\ alive /\ queue # <<>> /\ inHand' = Head(queue) /\ queue' = Tail(queue)
        /\ UNCHANGED <<mail, clients, hpc, hmsg, rights, released, alive>>
      BY <1>3 DEF PopFrame
  <2>2. /\ FramesDiffer' /\ Head(queue) \in QueuedRights
        /\ QueuedRights' = QueuedRights \ {Head(queue)}
      BY <1>0, <2>1, FramePopped
  <2>3. /\ HandlerRights' = HandlerRights /\ HoldersDiffer'
        /\ ReplyRights' = ReplyRights /\ RepliesDiffer'
      BY <1>0, <2>1 DEF HandlerRights, HoldersDiffer, Holding, ReplyRights, RepliesDiffer, Seats
  <2>4. MailIsFresh' /\ GoneIsEmpty'
      BY <1>0, <1>1, <2>1 DEF GoneIsEmpty, MailIsFresh
  <2>5. Head(queue) # 0
      BY <2>2, ClassesAreRights
  <2>6. RightsAreOwned' /\ ClassesDiffer'
      BY <1>0, <2>1, <2>2, <2>3, <2>5 DEF RightsAreOwned, ClassesDiffer
  <2>7. QED
      BY <2>2, <2>3, <2>4, <2>6 DEF Ownership
<1>4. CASE ReleaseFramePort
  <2>1. /\ inHand # 0 /\ inHand' = 0 /\ rights' = rights \ {inHand}
        /\ released' = released \cup {inHand}
        /\ UNCHANGED <<mail, queue, clients, hpc, hmsg, running, alive>>
      BY <1>4 DEF ReleaseFramePort, Deallocate
  <2>2. inHand \in rights
      BY <1>0, <2>1 DEF RightsAreOwned
  <2>3. MailIsFresh' /\ GoneIsEmpty'
      BY <1>0, <1>1, <2>1, <2>2, FreshWithFewer DEF GoneIsEmpty
  <2>4. /\ HandlerRights' = HandlerRights /\ HoldersDiffer'
        /\ ReplyRights' = ReplyRights /\ RepliesDiffer'
        /\ QueuedRights' = QueuedRights /\ FramesDiffer'
      BY <1>0, <2>1 DEF HandlerRights, HoldersDiffer, Holding, ReplyRights, RepliesDiffer, Seats,
                        QueuedRights, FramesDiffer
  <2>5. 0 \notin HandlerRights \cup QueuedRights \cup ReplyRights
      BY ClassesAreRights
  <2>6. RightsAreOwned' /\ ClassesDiffer'
      BY <1>0, <2>1, <2>4, <2>5 DEF RightsAreOwned, ClassesDiffer
  <2>7. QED
      BY <2>3, <2>4, <2>6 DEF Ownership
<1>5. CASE StopServer
  <2>1. UNCHANGED <<mail, queue, clients, hpc, hmsg, rights, inHand, released, alive>>
      BY <1>5 DEF StopServer
  <2>2. MailIsFresh' /\ GoneIsEmpty'
      BY <1>0, <1>1, <2>1, FreshWithFewer DEF GoneIsEmpty
  <2>3. /\ HandlerRights' = HandlerRights /\ HoldersDiffer'
        /\ ReplyRights' = ReplyRights /\ RepliesDiffer'
        /\ QueuedRights' = QueuedRights /\ FramesDiffer'
      BY <1>0, <2>1 DEF HandlerRights, HoldersDiffer, Holding, ReplyRights, RepliesDiffer, Seats,
                        QueuedRights, FramesDiffer
  <2>4. QED
      BY <1>0, <2>1, <2>2, <2>3 DEF Ownership, RightsAreOwned, ClassesDiffer
<1>6. CASE DropHost
  <2>1. /\ rights' = rights \ (QueuedRights \cup ReplyRights) /\ mail' = <<>> /\ queue' = <<>>
        /\ clients' = [i \in Seats |-> Empty]
        /\ UNCHANGED <<hpc, hmsg, inHand, released>> /\ \A p \in Pollers : hpc[p] = "idle"
      BY <1>6 DEF DropHost, Deallocate
  <2>2. DOMAIN mail' = {} /\ DOMAIN queue' = {}
      BY <2>1, EmptySeq
  <2>3. Holding = {} /\ Holding' = {} /\ HandlerRights = {} /\ HandlerRights' = {}
      BY <2>1 DEF Holding, HandlerRights
  <2>4. QueuedRights' = {} /\ FramesDiffer'
      BY <2>2 DEF QueuedRights, FramesDiffer
  <2>5. \A i \in Seats : ~clients'[i].active
      BY <2>1 DEF Empty
  <2>6. ReplyRights' = {} /\ RepliesDiffer'
      BY <2>5 DEF ReplyRights, RepliesDiffer, Seats
  <2>7. MailIsFresh' /\ GoneIsEmpty' /\ HoldersDiffer'
      BY <1>0, <1>1, <2>1, <2>2, <2>3 DEF MailIsFresh, GoneIsEmpty, HoldersDiffer
  <2>8. RightsAreOwned' /\ ClassesDiffer'
      BY <1>0, <2>1, <2>3, <2>4, <2>6 DEF RightsAreOwned, ClassesDiffer
  <2>9. QED
      BY <2>4, <2>6, <2>7, <2>8 DEF Ownership
<1>7. QED
    BY <1>2, <1>3, <1>4, <1>5, <1>6 DEF MainThread

\* Nothing a client does touches the host's rights; what it sends is new.
LEMMA OwnershipOfClients ==
    ASSUME StreamTypes, Ownership, UNCHANGED hostSide, UNCHANGED alive, ClientSends
    PROVE  Ownership'
<1>0. /\ HostTypeOK /\ MailIsFresh /\ GoneIsEmpty
      /\ HoldersDiffer /\ FramesDiffer /\ RepliesDiffer /\ RightsAreOwned /\ ClassesDiffer
      /\ mail \in Seq(Messages) /\ lastRight \in Nat
    BY DEF StreamTypes, TypeOK, Ownership, HostTypeOK, ClientTypeOK
<1>1. UNCHANGED <<queue, clients, hpc, hmsg, rights, inHand, released, alive>>
    BY DEF hostSide
<1>2. /\ HandlerRights' = HandlerRights /\ HoldersDiffer'
      /\ ReplyRights' = ReplyRights /\ RepliesDiffer'
      /\ QueuedRights' = QueuedRights /\ FramesDiffer'
    BY <1>0, <1>1 DEF HandlerRights, HoldersDiffer, Holding, ReplyRights, RepliesDiffer, Seats,
                      QueuedRights, FramesDiffer
<1>3. RightsAreOwned' /\ ClassesDiffer'
    BY <1>0, <1>1, <1>2 DEF RightsAreOwned, ClassesDiffer
<1>4. GoneIsEmpty'
    BY <1>0, <1>1 DEF GoneIsEmpty, ClientSends
<1>5. MailIsFresh'
  <2>0. /\ rights \cup released \subseteq Nat /\ \A i \in DOMAIN mail : mail[i].right \in Nat
      BY <1>0, MailIsTyped DEF HostTypeOK, Rights
  <2>1. CASE UNCHANGED <<mail, lastRight>>
      BY <1>0, <1>1, <2>1, FreshWithFewer
  <2>2. ASSUME NEW kind \in {"hello", "goodbye", "frame"}, NEW t \in Tokens, NEW r \in Nat,
               Sends(kind, t, r),
               \/ r = 0 /\ lastRight' = lastRight
               \/ r = lastRight + 1 /\ lastRight' = r
        PROVE  MailIsFresh'
    <3>1. /\ DOMAIN mail = 1 .. Len(mail) /\ DOMAIN mail' = 1 .. Len(mail) + 1
          /\ Len(mail) \in Nat
          /\ \A i \in DOMAIN mail : mail'[i] = mail[i]
          /\ mail'[Len(mail) + 1].right = r
        BY <1>0, <2>2, MailAfterSending
    <3>2. \A i \in DOMAIN mail' : i \in DOMAIN mail \/ i = Len(mail) + 1
        BY <3>1
    <3>3. \A q \in (rights \cup released)' : q <= lastRight'
        BY <1>0, <1>1, <2>0, <2>2 DEF MailIsFresh
    <3>4. \A i \in DOMAIN mail' : mail'[i].right <= lastRight'
        BY <1>0, <2>0, <2>2, <3>1, <3>2 DEF MailIsFresh
    <3>5. \A i \in DOMAIN mail' : \A q \in (rights \cup released)' :
             mail'[i].right # 0 => q < mail'[i].right
        BY <1>0, <1>1, <2>0, <2>2, <3>1, <3>2 DEF MailIsFresh
    <3>6. \A i, j \in DOMAIN mail' : i < j /\ mail'[i].right # 0 /\ mail'[j].right # 0
             => mail'[i].right < mail'[j].right
        BY <1>0, <2>0, <2>2, <3>1, <3>2 DEF MailIsFresh
    <3>7. QED
        BY <3>3, <3>4, <3>5, <3>6 DEF MailIsFresh
  <2>3. QED
      BY <1>0, <2>1, <2>2 DEF ClientSends
<1>6. QED
    BY <1>2, <1>3, <1>4, <1>5 DEF Ownership

LEMMA OwnershipNext == StreamTypes /\ Ownership /\ [Next]_vars => Ownership'
<1> SUFFICES ASSUME StreamTypes, Ownership, [Next]_vars PROVE Ownership'
    OBVIOUS
<1>1. CASE HostStep
    BY <1>1, OwnershipOfHandlers, OwnershipOfReceive, OwnershipOfTheRest
       DEF HostStep, HostNext, RunOnce
<1>2. CASE ClientStep
  <2>1. UNCHANGED hostSide /\ UNCHANGED alive /\ ClientSends
      BY <1>2, ClientsSend DEF ClientStep, hostSide, StreamTypes, TypeOK
  <2>2. QED
      BY <2>1, OwnershipOfClients
<1>3. CASE UNCHANGED vars
  <2>1. UNCHANGED hostSide /\ UNCHANGED alive /\ ClientSends
      BY <1>3 DEF vars, hostVars, clientState, hostSide, ClientSends
  <2>2. QED
      BY <2>1, OwnershipOfClients
<1>4. QED
    BY <1>1, <1>2, <1>3 DEF Next

LEMMA OwnershipInit == Init => Ownership
<1> SUFFICES ASSUME Init PROVE Ownership
    OBVIOUS
<1>1. /\ mail = <<>> /\ queue = <<>> /\ rights = {} /\ released = {} /\ inHand = 0 /\ alive
      /\ clients = [i \in Seats |-> Empty] /\ hpc = [p \in Pollers |-> "idle"]
    BY DEF Init, HostInit
<1>2. DOMAIN mail = {} /\ DOMAIN queue = {} /\ \A i \in Seats : ~clients[i].active
    BY <1>1, EmptySeq DEF Empty
<1>3. HandlerRights = {} /\ Holding = {} /\ QueuedRights = {} /\ ReplyRights = {}
    BY <1>1, <1>2 DEF HandlerRights, Holding, QueuedRights, ReplyRights
<1>4. MailIsFresh /\ GoneIsEmpty
    BY <1>1, <1>2 DEF MailIsFresh, GoneIsEmpty
<1>5. HoldersDiffer /\ FramesDiffer /\ RepliesDiffer
    BY <1>2, <1>3 DEF HoldersDiffer, FramesDiffer, RepliesDiffer
<1>6. RightsAreOwned /\ ClassesDiffer
    BY <1>1, <1>3 DEF RightsAreOwned, ClassesDiffer
<1>7. QED
    BY <1>4, <1>5, <1>6 DEF Ownership

Owned == StreamTypes /\ Ownership

LEMMA OwnedHolds == Spec => []Owned
<1>1. Init => Owned
    BY StreamTypesInit, OwnershipInit DEF Owned
<1>2. Owned /\ [Next]_vars => Owned'
    BY StreamTypesNext, OwnershipNext DEF Owned
<1>3. QED
    BY <1>1, <1>2, PTL DEF Spec

\* Whatever number of threads poll, every send right in the compositor's task has an
\* owner, only one, and no owner lacks its right: no sequence of hellos, frames,
\* goodbyes, evictions, refusals and shutdowns leaks one or drops one still in use.
THEOREM EveryRightHasOneOwner == Spec => [](RightsAreOwned /\ OwnersDiffer)
<1>1. Owned => RightsAreOwned /\ OwnersDiffer
    BY DEF Owned, Ownership, OwnersDiffer
<1>2. QED
    BY <1>1, OwnedHolds, PTL

-----------------------------------------------------------------------------
(* The client table, and the frames the sink is to show                     *)

LEMMA OneRecordNext ==
    ASSUME StreamTypes, OneRecordPerToken, [Next]_vars PROVE OneRecordPerToken'
<1>0. HostTypeOK
    BY DEF StreamTypes, TypeOK
<1>1. ASSUME NEW p \in Pollers, Rehello(p) PROVE OneRecordPerToken'
  <2>1. \A j \in Seats :
           clients'[j].active = clients[j].active /\ clients'[j].token = clients[j].token
      BY <1>0, <1>1 DEF Rehello, HostTypeOK
  <2>2. QED
      BY <2>1 DEF OneRecordPerToken, Seats
<1>2. ASSUME NEW p \in Pollers, Admit(p) PROVE OneRecordPerToken'
  <2>1. PICK i \in Seats : /\ clients'[i].active /\ clients'[i].token = hmsg[p].token
                           /\ \A j \in Seats \ {i} : clients'[j] = clients[j]
      BY <1>0, <1>2, SeatsAreSeats DEF Admit, HostTypeOK
  <2>2. \A j \in Seats : ~(clients[j].active /\ clients[j].token = hmsg[p].token)
      BY <1>2 DEF Admit, SeatsOf
  <2>3. QED
      BY <2>1, <2>2 DEF OneRecordPerToken, Seats
<1>3. ASSUME NEW p \in Pollers, Leave(p) PROVE OneRecordPerToken'
  <2>1. PICK i \in Seats :
           clients' = [clients EXCEPT ![i].active = FALSE, ![i].reply = 0]
      BY <1>3, SeatsAreSeats DEF Leave
  <2>2. ~clients'[i].active /\ \A j \in Seats \ {i} : clients'[j] = clients[j]
      BY <1>0, <2>1 DEF HostTypeOK
  <2>3. \A j \in Seats : clients'[j].active => j # i /\ clients'[j] = clients[j]
      BY <2>2, Zenon
  <2>4. QED
      BY <2>3 DEF OneRecordPerToken, Seats
<1>4. CASE DropHost
  <2>1. \A i \in Seats : ~clients'[i].active
      BY <1>4 DEF DropHost, Empty
  <2>2. QED
      BY <2>1 DEF OneRecordPerToken, Seats
<1>5. CASE UNCHANGED clients
    BY <1>5 DEF OneRecordPerToken, Seats
<1>6. ASSUME NEW p \in Pollers, RunOnce(p), ~(Rehello(p) \/ Admit(p) \/ Leave(p))
      PROVE  UNCHANGED clients
    BY <1>6 DEF RunOnce, Receive, Refuse, NotifyConnected, LeaveUnknown, NotifyDisconnected,
                CheckKnown, DropUnknown, Push, ShowFrame
<1>7. ASSUME MainThread \/ StopServer \/ ClientStep \/ UNCHANGED vars PROVE UNCHANGED clients
    BY <1>7 DEF MainThread, PopFrame, ReleaseFramePort, StopServer, ClientStep, vars, hostVars
<1>8. QED
    BY <1>1, <1>2, <1>3, <1>4, <1>5, <1>6, <1>7 DEF Next, HostStep, HostNext

\* No token has two active records, whatever threads handle its hellos and goodbyes.
THEOREM TokensHaveOneRecord == Spec => []OneRecordPerToken
<1>1. Init => OneRecordPerToken
  <2>1. Init => \A i \in Seats : ~clients[i].active
      BY DEF Init, HostInit, Empty
  <2>2. QED
      BY <2>1 DEF OneRecordPerToken
<1>2. StreamTypes /\ OneRecordPerToken /\ [Next]_vars => OneRecordPerToken'
    BY OneRecordNext
<1>3. QED
    BY <1>1, <1>2, StreamTypesInit, StreamTypesNext, PTL DEF Spec

\* The frame a sink is to show is queued, with the main thread, or released.
SinksFrames ==
    \A p \in Pollers : hpc[p] = "sink" =>
        hmsg[p].right \in QueuedRights \cup ({inHand} \ {0}) \cup released

LEMMA SinksFramesNext ==
    ASSUME OnePoller, StreamTypes, Ownership, SinksFrames, [Next]_vars
    PROVE  SinksFrames'
<1>0. /\ HostTypeOK /\ FramesDiffer /\ ClassesDiffer /\ HandlersCarry /\ inHand \in Nat
    BY DEF StreamTypes, TypeOK, Ownership, HostTypeOK, Rights
<1>1. ASSUME NEW p \in Pollers, RunOnce(p), ~Push(p) PROVE SinksFrames'
  <2>1. hpc'[p] # "sink"
      BY <1>0, <1>1, MailIsTyped, MailWithout DEF RunOnce, Receive, Rehello, Admit, Refuse, NotifyConnected,
           Leave, LeaveUnknown, NotifyDisconnected, CheckKnown, DropUnknown, ShowFrame,
           Done, HostTypeOK
  <2>2. QED
      BY <2>1 DEF OnePoller, SinksFrames
<1>2. ASSUME NEW p \in Pollers, Push(p) PROVE SinksFrames'
  <2> DEFINE f == hmsg[p].right
  <2>1. f \in Nat \ {0} /\ f \in HandlerRights
      BY <1>0, <1>2, HandlersAreTyped DEF Push, HandlersCarry, HandlerRights, Holding
  <2>2. f \in QueuedRights'
      BY <1>0, <1>2, <2>1, FrameQueued DEF Push, ClassesDiffer
  <2>3. hmsg' = hmsg
      BY <1>2 DEF Push
  <2>4. QED
      BY <2>2, <2>3 DEF OnePoller, SinksFrames
<1>3. CASE PopFrame
  <2>1. /\ QueuedRights' = QueuedRights \ {inHand'} /\ inHand = 0 /\ inHand' \in QueuedRights
        /\ UNCHANGED <<hpc, hmsg, released>>
      BY <1>0, <1>3, FramePopped DEF PopFrame
  <2>2. inHand' # 0
      BY <2>1, ClassesAreRights
  <2>3. QED
      BY <2>1, <2>2 DEF SinksFrames
<1>4. CASE ReleaseFramePort
  <2>1. /\ QueuedRights' = QueuedRights /\ released' = released \cup {inHand}
        /\ UNCHANGED <<hpc, hmsg>>
      BY <1>4 DEF ReleaseFramePort, QueuedRights
  <2>2. QED
      BY <2>1 DEF SinksFrames
<1>5. CASE DropHost
    BY <1>5 DEF DropHost, SinksFrames
<1>6. CASE StopServer \/ ClientStep \/ UNCHANGED vars
  <2>1. UNCHANGED <<queue, hpc, hmsg, inHand, released>>
      BY <1>6 DEF StopServer, ClientStep, vars, hostVars
  <2>2. QED
      BY <2>1 DEF SinksFrames, QueuedRights
<1>7. QED
    BY <1>1, <1>2, <1>3, <1>4, <1>5, <1>6 DEF Next, HostStep, HostNext, MainThread

\* With one poll thread the sink finds the right of its frame too: what on_frame
\* resolves after the unlock is gone only if the main thread has released it.
THEOREM SinksFindTheirRight == OnePoller => (Spec => []RightsHaveOwners)
<1> SUFFICES ASSUME OnePoller PROVE Spec => []RightsHaveOwners
    OBVIOUS
<1>1. Init => SinksFrames
    BY DEF Init, HostInit, SinksFrames
<1>2. Owned /\ SinksFrames /\ [Next]_vars => SinksFrames'
    BY SinksFramesNext DEF Owned
<1>3. Owned /\ SinksFrames => RightsHaveOwners
    BY DEF Owned, Ownership, SinksFrames, RightsHaveOwners, SinkPortIsLive, RightsAreOwned
<1>4. QED
    BY <1>1, <1>2, <1>3, OwnedHolds, PTL DEF Spec

-----------------------------------------------------------------------------
(* The sink's picture of the clients.  Between the unlock and the           *)
(* notification it lags by the token the poll thread has at hand.           *)

ViewFollows ==
    alive => /\ \A p \in Pollers :
                   /\ hpc[p] = "connected" => /\ KnownTokens = view \cup {hmsg[p].token}
                                              /\ hmsg[p].token \notin view
                   /\ hpc[p] = "disconnected" => /\ KnownTokens = view \ {hmsg[p].token}
                                                 /\ hmsg[p].token \in view
                   /\ hpc[p] \in {"push", "sink"} => hmsg[p].token \in view
             /\ (\A p \in Pollers : hpc[p] \notin {"connected", "disconnected"})
                   => KnownTokens = view

LEMMA ViewFollowsNext ==
    ASSUME OnePoller, StreamTypes, OneRecordPerToken, GoneIsEmpty, ViewFollows, [Next]_vars
    PROVE  ViewFollows'
<1>0. HostTypeOK
    BY DEF StreamTypes, TypeOK
<1>1. ASSUME NEW p \in Pollers, RunOnce(p) PROVE ViewFollows'
  <2>0. /\ \A q \in Pollers : q = p
        /\ Seats' = Seats /\ KnownTokens' =
              {clients'[i].token : i \in {j \in Seats : clients'[j].active}}
      BY DEF OnePoller, Seats, KnownTokens
  <2>1. alive
      BY <1>1 DEF RunOnce, Receive, GoneIsEmpty, Rehello, Admit, Refuse, NotifyConnected,
           Leave, LeaveUnknown, NotifyDisconnected, CheckKnown, DropUnknown, Push, ShowFrame
  <2>2. CASE Admit(p)
    <3>1. PICK i \in Seats : /\ clients'[i].active /\ clients'[i].token = hmsg[p].token
                             /\ ~clients[i].active
                             /\ \A j \in Seats \ {i} : clients'[j] = clients[j]
        BY <1>0, <2>2, SeatsAreSeats DEF Admit, HostTypeOK, Vacant
    <3>2. KnownTokens' = KnownTokens \cup {hmsg[p].token}
        BY <2>0, <3>1 DEF KnownTokens
    <3>3. /\ hpc[p] = "hello" /\ hpc'[p] = "connected" /\ UNCHANGED <<hmsg, view>>
        BY <1>0, <2>2 DEF Admit, HostTypeOK
    <3>4. hmsg[p].token \notin KnownTokens
        BY <2>2 DEF Admit, SeatsOf, KnownTokens
    <3>5. QED
        BY <2>0, <2>1, <3>2, <3>3, <3>4 DEF ViewFollows
  <2>3. CASE Leave(p)
    <3> DEFINE t == hmsg[p].token
    <3>1. PICK i \in Seats : /\ clients[i].active /\ clients[i].token = t
                             /\ clients' = [clients EXCEPT ![i].active = FALSE, ![i].reply = 0]
        BY <2>3, SeatsAreSeats DEF Leave, SeatsOf
    <3>2. ~clients'[i].active /\ \A j \in Seats \ {i} : clients'[j] = clients[j]
        BY <1>0, <3>1 DEF HostTypeOK
    <3>3. \A j \in Seats : clients'[j].active <=> clients[j].active /\ j # i
        BY <3>2, Zenon
    <3>4. \A j \in Seats \ {i} : clients[j].active => clients[j].token # t
        BY <3>1 DEF OneRecordPerToken
    <3>8. \A j \in Seats : clients'[j].active =>
             clients[j].active /\ clients'[j].token = clients[j].token /\ clients[j].token # t
        BY <3>2, <3>3, <3>4
    <3>9. \A j \in Seats : clients[j].active /\ clients[j].token # t =>
             clients'[j].active /\ clients'[j].token = clients[j].token
        BY <3>1, <3>2, <3>3
    <3>5. KnownTokens' = KnownTokens \ {t}
        BY <2>0, <3>8, <3>9 DEF KnownTokens
    <3>6. /\ hpc[p] = "goodbye" /\ hpc'[p] = "disconnected" /\ UNCHANGED <<hmsg, view>>
        BY <1>0, <2>3 DEF Leave, HostTypeOK
    <3>7. t \in KnownTokens
        BY <3>1 DEF KnownTokens
    <3>10. QED
        BY <2>0, <2>1, <3>5, <3>6, <3>7 DEF ViewFollows
  <2>4. CASE Rehello(p)
    <3>1. \A j \in Seats :
             clients'[j].active = clients[j].active /\ clients'[j].token = clients[j].token
        BY <1>0, <2>4 DEF Rehello, HostTypeOK
    <3>2. KnownTokens' = KnownTokens
        BY <2>0, <3>1 DEF KnownTokens
    <3>3. hpc[p] = "hello" /\ hpc'[p] = "idle" /\ UNCHANGED view
        BY <1>0, <2>4 DEF Rehello, Done, HostTypeOK
    <3>4. QED
        BY <2>0, <2>1, <3>2, <3>3 DEF ViewFollows
  <2>5. CASE NotifyConnected(p) \/ NotifyDisconnected(p)
    <3>1. KnownTokens' = KnownTokens /\ hpc'[p] = "idle"
        BY <1>0, <2>0, <2>5 DEF NotifyConnected, NotifyDisconnected, Done, HostTypeOK, KnownTokens
    <3>2. \/ hpc[p] = "connected" /\ view' = view \cup {hmsg[p].token}
          \/ hpc[p] = "disconnected" /\ view' = view \ {hmsg[p].token}
        BY <2>5 DEF NotifyConnected, NotifyDisconnected
    <3>3. QED
        BY <2>0, <2>1, <3>1, <3>2 DEF ViewFollows
  <2>6. CASE Receive(p) \/ Refuse(p) \/ LeaveUnknown(p) \/ CheckKnown(p) \/ DropUnknown(p)
             \/ Push(p) \/ ShowFrame(p)
    <3>1. UNCHANGED <<clients, view>> /\ hpc[p] \notin {"connected", "disconnected"}
        BY <2>6 DEF Receive, Refuse, LeaveUnknown, CheckKnown, DropUnknown, Push, ShowFrame
    <3>2. hpc'[p] \notin {"connected", "disconnected"}
        BY <1>0, <2>6, MailIsTyped, MailWithout
           DEF Receive, Refuse, LeaveUnknown, CheckKnown, DropUnknown, Push, ShowFrame, Done,
               HostTypeOK
    <3>3. KnownTokens' = KnownTokens
        BY <2>0, <3>1 DEF KnownTokens
    <3>4. KnownTokens = view
        BY <2>0, <2>1, <3>1 DEF ViewFollows
    <3>5. hpc'[p] \in {"push", "sink"} =>
             /\ hmsg'[p] = hmsg[p]
             /\ hpc[p] \in {"push", "sink"} \/ hmsg[p].token \in KnownTokens
        BY <1>0, <2>6, MailIsTyped, MailWithout
           DEF Receive, Refuse, LeaveUnknown, CheckKnown, DropUnknown, Push, ShowFrame, Done,
               HostTypeOK, SeatsOf, KnownTokens
    <3>6. QED
        BY <2>0, <2>1, <3>1, <3>2, <3>3, <3>4, <3>5 DEF ViewFollows
  <2>7. QED
      BY <1>1, <2>2, <2>3, <2>4, <2>5, <2>6 DEF RunOnce
<1>2. CASE DropHost
    BY <1>2 DEF DropHost, ViewFollows
<1>3. CASE MainThread \/ StopServer \/ ClientStep \/ UNCHANGED vars
  <2>1. UNCHANGED <<clients, hpc, hmsg, view, alive>>
      BY <1>3, ClientsSend DEF MainThread, PopFrame, ReleaseFramePort, StopServer, ClientStep,
                  vars, hostVars, StreamTypes, TypeOK
  <2>2. QED
      BY <2>1 DEF ViewFollows, KnownTokens, Seats
<1>4. QED
    BY <1>1, <1>2, <1>3 DEF Next, HostStep, HostNext

Follows == OneRecordPerToken /\ ViewFollows

LEMMA FollowsHolds == OnePoller => (Spec => []Follows)
<1> SUFFICES ASSUME OnePoller PROVE Spec => []Follows
    OBVIOUS
<1>1. Init => Follows
  <2>1. Init => /\ (\A i \in Seats : ~clients[i].active) /\ view = {}
                /\ \A p \in Pollers : hpc[p] = "idle"
      BY DEF Init, HostInit, Empty
  <2>2. Init => OneRecordPerToken /\ KnownTokens = view
      BY <2>1 DEF OneRecordPerToken, KnownTokens
  <2>3. QED
      BY <2>1, <2>2 DEF ViewFollows, Follows
<1>2. Owned /\ Follows /\ [Next]_vars => Follows'
    BY OneRecordNext, ViewFollowsNext DEF Owned, Ownership, Follows
<1>3. QED
    BY <1>1, <1>2, OwnedHolds, PTL DEF Spec

\* With one poll thread the ClientSink's picture is the client table but for the token
\* whose notification is under way, and no notification repeats the one before it.
THEOREM SinkFollowsClients == OnePoller => (Spec => []SinkKnowsClients)
<1> SUFFICES ASSUME OnePoller PROVE Spec => []SinkKnowsClients
    OBVIOUS
<1>1. Follows => SinkKnowsClients
    BY DEF OnePoller, Follows, ViewFollows, SinkKnowsClients, TokensAt
<1>2. QED
    BY <1>1, FollowsHolds, PTL

-----------------------------------------------------------------------------
(* No client overtakes its own hello.  A token is greeted before place n of *)
(* the port if its hello has been handled, is with a handler, or is in the  *)
(* port before that place.                                                  *)

Greeted == [n \in Nat |-> {t \in Tokens :
    \/ t \in heard
    \/ \E p \in Pollers : hpc[p] = "hello" /\ hmsg[p].token = t
    \/ \E j \in DOMAIN mail : j < n /\ mail[j].kind = "hello" /\ mail[j].token = t}]

HelloFirst == \A p \in Pollers : hpc[p] = "frame" => hmsg[p].token \in heard

Introduced ==
    /\ \A i \in DOMAIN mail : mail[i].kind = "frame" => mail[i].token \in Greeted[i]
    /\ HelloFirst
    /\ alive => \A x \in Processes : connected[x] => token[x] \in Greeted[Len(mail) + 1]
    /\ alive => \A c \in Threads :
          cpc[c] \in {"submit", "post"} => carg[c] \in Greeted[Len(mail) + 1]

\* If the port keeps its messages, the four parts stay as they are.
LEMMA IntroducedStays ==
    ASSUME OnePoller, StreamTypes, Introduced, UNCHANGED <<mail, alive>>, UNCHANGED clientState,
           heard \subseteq heard',
           \A p \in Pollers :
               /\ hpc[p] = "hello" => \/ hpc'[p] = "hello" /\ hmsg'[p] = hmsg[p]
                                      \/ hmsg[p].token \in heard'
               /\ hpc'[p] = "frame" => hpc[p] = "frame" /\ hmsg'[p] = hmsg[p]
    PROVE  Introduced'
<1>1. \A n \in Nat : Greeted[n] \subseteq Greeted'[n]
    BY DEF Greeted
<1>2. HelloFirst'
    BY DEF Introduced, HelloFirst
<1>3. Len(mail) + 1 \in Nat /\ \A i \in DOMAIN mail : i \in Nat
    BY MailIsTyped DEF StreamTypes, TypeOK, HostTypeOK
<1>4. UNCHANGED <<mail, alive, connected, token, cpc, carg>>
    BY DEF clientState
<1>5. QED
    BY <1>1, <1>2, <1>3, <1>4 DEF Introduced

LEMMA IntroducedHost ==
    ASSUME OnePoller, StreamTypes, Introduced, HostStep
    PROVE  Introduced'
<1>0. HostTypeOK /\ UNCHANGED clientState /\ mail \in Seq(Messages)
    BY DEF StreamTypes, TypeOK, HostStep, HostTypeOK
<1>1. ASSUME NEW p \in Pollers, Receive(p) PROVE Introduced'
  <2>1. /\ Head(mail) = mail[1] /\ 1 \in DOMAIN mail
        /\ Len(mail) \in Nat /\ Len(mail') = Len(mail) - 1 /\ DOMAIN mail = 1 .. Len(mail)
        /\ DOMAIN mail' = 1 .. Len(mail) - 1
        /\ \A i \in DOMAIN mail' : i + 1 \in DOMAIN mail /\ mail'[i] = mail[i + 1]
      BY <1>0, <1>1, MailWithout, MailIsTyped, HeadTailProperties DEF Receive
  <2>2. /\ \A q \in Pollers : q = p
        /\ hpc[p] = "idle" /\ hpc'[p] = mail[1].kind /\ hmsg'[p] = mail[1]
        /\ UNCHANGED <<heard, alive>>
      BY <1>0, <1>1, <2>1 DEF Receive, HostTypeOK, OnePoller
  <2>3. \A n \in Nat : Greeted[n + 1] \subseteq Greeted'[n]
    <3> SUFFICES ASSUME NEW n \in Nat, NEW t \in Greeted[n + 1] PROVE t \in Greeted'[n]
        OBVIOUS
    <3>0. t \in Tokens /\ n + 1 \in Nat
        BY DEF Greeted
    <3>1. CASE t \in heard
        BY <2>2, <3>0, <3>1 DEF Greeted
    <3>2. CASE t \notin heard
      <4>1. PICK j \in DOMAIN mail : j < n + 1 /\ mail[j].kind = "hello" /\ mail[j].token = t
          BY <2>2, <3>0, <3>2 DEF Greeted
      <4>2. CASE j = 1
          BY <2>2, <3>0, <4>1, <4>2 DEF Greeted
      <4>3. CASE j # 1
        <5>1. j - 1 \in DOMAIN mail' /\ j - 1 < n /\ mail'[j - 1] = mail[j]
            BY <2>1, <4>1, <4>3
        <5>2. QED
            BY <3>0, <4>1, <5>1 DEF Greeted
      <4>4. QED
          BY <4>2, <4>3
    <3>3. QED
        BY <3>1, <3>2
  <2>4. \A i \in DOMAIN mail' : mail'[i].kind = "frame" => mail'[i].token \in Greeted'[i]
    <3>1. \A i \in DOMAIN mail' : i \in Nat
        BY <2>1
    <3>2. QED
        BY <2>1, <2>3, <3>1 DEF Introduced
  <2>5. HelloFirst'
    <3> SUFFICES ASSUME mail[1].kind = "frame" PROVE mail[1].token \in heard
        BY <2>2 DEF HelloFirst
    <3>1. mail[1].token \in Greeted[1]
        BY <2>1 DEF Introduced
    <3>2. QED
        BY <2>1, <2>2, <3>1 DEF Greeted
  <2>6. Len(mail') + 1 \in Nat /\ Len(mail) + 1 = (Len(mail') + 1) + 1
      BY <2>1
  <2>7. Greeted[Len(mail) + 1] \subseteq Greeted'[Len(mail') + 1]
      BY <2>3, <2>6
  <2>8. QED
      BY <1>0, <2>2, <2>4, <2>5, <2>7 DEF Introduced, clientState
<1>2. ASSUME NEW p \in Pollers, RunOnce(p), ~Receive(p) PROVE Introduced'
  <2>1. UNCHANGED <<mail, alive>> /\ \A q \in Pollers : q = p
      BY <1>2 DEF OnePoller, RunOnce, Rehello, Admit, Refuse, NotifyConnected,
           Leave, LeaveUnknown, NotifyDisconnected, CheckKnown, DropUnknown, Push, ShowFrame
  <2>2. hpc'[p] # "frame" /\ heard \subseteq heard'
      BY <1>0, <1>2 DEF RunOnce, Rehello, Admit, Refuse, NotifyConnected, HostTypeOK, Done,
           Leave, LeaveUnknown, NotifyDisconnected, CheckKnown, DropUnknown, Push, ShowFrame
  <2>3. hpc[p] = "hello" => hmsg[p].token \in heard'
      BY <1>2 DEF RunOnce, Rehello, Admit, Refuse, NotifyConnected,
           Leave, LeaveUnknown, NotifyDisconnected, CheckKnown, DropUnknown, Push, ShowFrame
  <2>4. QED
      BY <1>0, <2>1, <2>2, <2>3, IntroducedStays
<1>3. CASE MainThread \/ StopServer
  <2>1. UNCHANGED <<mail, alive, heard, hpc, hmsg>>
      BY <1>3 DEF MainThread, PopFrame, ReleaseFramePort, StopServer
  <2>2. QED
      BY <1>0, <2>1, IntroducedStays
<1>4. CASE DropHost
  <2>1. mail' = <<>> /\ ~alive' /\ \A p \in Pollers : hpc'[p] # "frame"
      BY <1>4 DEF DropHost
  <2>2. DOMAIN mail' = {}
      BY <2>1, EmptySeq
  <2>3. QED
      BY <2>1, <2>2 DEF Introduced, HelloFirst
<1>5. QED
    BY <1>1, <1>2, <1>3, <1>4 DEF HostStep, HostNext

LEMMA IntroducedClients ==
    ASSUME StreamTypes, Introduced, ClientStep
    PROVE  Introduced'
<1>0. /\ HostTypeOK /\ ClientTypeOK /\ mail \in Seq(Messages) /\ lastRight \in Nat
      /\ Len(mail) \in Nat /\ DOMAIN mail = 1 .. Len(mail)
      /\ UNCHANGED <<alive, heard, hpc, hmsg>>
    BY ClientsSend, MailIsTyped
       DEF StreamTypes, TypeOK, HostTypeOK, ClientTypeOK, ClientStep
<1>1. HelloFirst'
    BY <1>0 DEF Introduced, HelloFirst
\* How much of the port a step that sends nothing, or one message, leaves.
<1>2. ASSUME UNCHANGED mail
      PROVE  /\ \A i \in DOMAIN mail' : mail'[i].kind = "frame" => mail'[i].token \in Greeted'[i]
             /\ Greeted[Len(mail) + 1] \subseteq Greeted'[Len(mail') + 1]
  <2>1. Greeted' = Greeted
      BY <1>0, <1>2 DEF Greeted
  <2>2. QED
      BY <1>2, <2>1 DEF Introduced
<1>3. ASSUME NEW kind \in {"hello", "goodbye", "frame"}, NEW t \in Tokens, NEW r \in Nat,
             Sends(kind, t, r), kind = "frame" => t \in Greeted[Len(mail) + 1]
      PROVE  /\ \A i \in DOMAIN mail' : mail'[i].kind = "frame" => mail'[i].token \in Greeted'[i]
             /\ Greeted[Len(mail) + 1] \subseteq Greeted'[Len(mail') + 1]
             /\ kind = "hello" => t \in Greeted'[Len(mail') + 1]
  <2>1. /\ DOMAIN mail' = 1 .. Len(mail) + 1 /\ Len(mail') = Len(mail) + 1
        /\ \A i \in DOMAIN mail : mail'[i] = mail[i]
        /\ mail'[Len(mail) + 1].kind = kind /\ mail'[Len(mail) + 1].token = t
        /\ \A i \in DOMAIN mail' : i \in DOMAIN mail \/ i = Len(mail) + 1
    <3>1. /\ DOMAIN mail' = 1 .. Len(mail) + 1 /\ mail' \in Seq(Messages)
          /\ \A i \in DOMAIN mail : mail'[i] = mail[i]
          /\ mail'[Len(mail) + 1].kind = kind /\ mail'[Len(mail) + 1].token = t
        BY <1>0, <1>3, MailAfterSending
    <3>2. Len(mail') \in Nat /\ DOMAIN mail' = 1 .. Len(mail')
        BY <3>1, LenProperties
    <3>3. Len(mail') = Len(mail) + 1
        BY <1>0, <3>1, <3>2
    <3>4. QED
        BY <1>0, <3>1, <3>3
  <2>2. \A n \in Nat : Greeted[n] \subseteq Greeted'[n]
      BY <1>0, <2>1 DEF Greeted
  <2>3. \A i \in DOMAIN mail' : mail'[i].kind = "frame" => mail'[i].token \in Greeted'[i]
      BY <1>0, <1>3, <2>1, <2>2 DEF Introduced
  <2>4. Greeted[Len(mail) + 1] \subseteq Greeted'[Len(mail') + 1]
    <3>1. Len(mail) + 1 \in Nat /\ Len(mail') + 1 \in Nat /\ (\A j \in DOMAIN mail' : j \in Nat)
          /\ (\A j \in DOMAIN mail' : j < Len(mail) + 1 => j < Len(mail') + 1)
        BY <1>0, <2>1
    <3>2. Greeted'[Len(mail) + 1] \subseteq Greeted'[Len(mail') + 1]
        BY <3>1 DEF Greeted
    <3>3. QED
        BY <2>2, <3>1, <3>2
  <2>5. kind = "hello" => t \in Greeted'[Len(mail') + 1]
    <3>1. Len(mail) + 1 \in DOMAIN mail' /\ Len(mail) + 1 < Len(mail') + 1
          /\ Len(mail') + 1 \in Nat
        BY <1>0, <2>1
    <3>2. QED
        BY <2>1, <3>1 DEF Greeted
  <2>6. QED
      BY <2>3, <2>4, <2>5
\* The calls.
<1>4. \A c \in Threads : Mine(c) \in Processes /\ carg[c] \in Tokens /\ token[Mine(c)] \in Tokens
    BY <1>0, ClientAssumption DEF ClientTypeOK, Mine
<1>5. ASSUME NEW c \in Threads, Hello(c) PROVE Introduced'
  <2>1. /\ alive /\ Sends("hello", carg[c], lastRight + 1) /\ lastRight + 1 \in Nat
        /\ connected' = [connected EXCEPT ![Mine(c)] = TRUE]
        /\ token' = [token EXCEPT ![Mine(c)] = carg[c]]
        /\ cpc' = [cpc EXCEPT ![c] = "idle"] /\ carg' = [carg EXCEPT ![c] = AnyToken]
      BY <1>0, <1>5 DEF Hello, Post, Sends, Returns
  <2>2. /\ \A i \in DOMAIN mail' : mail'[i].kind = "frame" => mail'[i].token \in Greeted'[i]
        /\ Greeted[Len(mail) + 1] \subseteq Greeted'[Len(mail') + 1]
        /\ carg[c] \in Greeted'[Len(mail') + 1]
      BY <1>3, <1>4, <2>1
  <2>3. \A x \in Processes : connected'[x] => token'[x] \in Greeted'[Len(mail') + 1]
      BY <1>0, <1>4, <2>1, <2>2 DEF Introduced, ClientTypeOK
  <2>4. \A d \in Threads : cpc'[d] \in {"submit", "post"} => carg'[d] \in Greeted'[Len(mail') + 1]
      BY <1>0, <2>1, <2>2 DEF Introduced, ClientTypeOK
  <2>5. QED
      BY <1>0, <1>1, <2>2, <2>3, <2>4 DEF Introduced
<1>6. ASSUME NEW c \in Threads, Submit(c) PROVE Introduced'
  <2>1. /\ alive /\ Sends("frame", carg[c], lastRight + 1) /\ lastRight + 1 \in Nat
        /\ UNCHANGED <<connected, token>> /\ cpc[c] = "post"
        /\ cpc' = [cpc EXCEPT ![c] = "idle"] /\ carg' = [carg EXCEPT ![c] = AnyToken]
      BY <1>0, <1>6 DEF Submit, Post, Sends, Returns
  <2>2. /\ \A i \in DOMAIN mail' : mail'[i].kind = "frame" => mail'[i].token \in Greeted'[i]
        /\ Greeted[Len(mail) + 1] \subseteq Greeted'[Len(mail') + 1]
      BY <1>3, <1>4, <2>1 DEF Introduced
  <2>3. \A d \in Threads : cpc'[d] \in {"submit", "post"} => carg'[d] \in Greeted'[Len(mail') + 1]
      BY <1>0, <2>1, <2>2 DEF Introduced, ClientTypeOK
  <2>4. QED
      BY <1>0, <1>1, <2>1, <2>2, <2>3 DEF Introduced
<1>7. ASSUME NEW c \in Threads, Goodbye(c) PROVE Introduced'
  <2>1. /\ \A i \in DOMAIN mail' : mail'[i].kind = "frame" => mail'[i].token \in Greeted'[i]
        /\ Greeted[Len(mail) + 1] \subseteq Greeted'[Len(mail') + 1]
    <3>1. CASE ~alive
        BY <1>2, <1>7, <3>1 DEF Goodbye
    <3>2. CASE Sends("goodbye", token[Mine(c)], 0)
        BY <1>3, <1>4, <3>2
    <3>3. QED
        BY <1>7, <3>1, <3>2 DEF Goodbye, Post, Sends
  <2>2. /\ UNCHANGED token /\ connected' = [connected EXCEPT ![Mine(c)] = FALSE]
        /\ cpc' = [cpc EXCEPT ![c] = "idle"] /\ carg' = [carg EXCEPT ![c] = AnyToken]
      BY <1>7 DEF Goodbye, Returns
  <2>3. alive => \A x \in Processes : connected'[x] => token[x] \in Greeted'[Len(mail') + 1]
    <3>1. \A x \in Processes : connected'[x] => connected[x]
        BY <1>0, <2>2 DEF ClientTypeOK
    <3>2. QED
        BY <2>1, <3>1 DEF Introduced
  <2>4. alive => \A d \in Threads :
           cpc'[d] \in {"submit", "post"} => carg'[d] \in Greeted'[Len(mail') + 1]
      BY <1>0, <2>1, <2>2 DEF Introduced, ClientTypeOK
  <2>5. QED
      BY <1>0, <1>1, <2>1, <2>2, <2>3, <2>4 DEF Introduced
\* A step that sends nothing, after which nobody new is connected or submits what
\* is not the token of a connected process.
<1>8. ASSUME UNCHANGED mail,
             \A x \in Processes : connected'[x] => connected[x] /\ token'[x] = token[x],
             \A d \in Threads : cpc'[d] \in {"submit", "post"} =>
                \/ cpc[d] \in {"submit", "post"} /\ carg'[d] = carg[d]
                \/ connected[Mine(d)] /\ carg'[d] = token[Mine(d)]
      PROVE  Introduced'
    BY <1>0, <1>1, <1>2, <1>4, <1>8 DEF Introduced
<1>9. ASSUME NEW c \in Threads, NEW t \in Tokens, ConnectBegin(c, t) PROVE Introduced'
    BY <1>0, <1>8, <1>9 DEF ConnectBegin, ClientTypeOK
<1>10. ASSUME NEW c \in Threads, SubmitBegin(c) \/ GoodbyeBegin(c) PROVE Introduced'
    BY <1>0, <1>8, <1>10 DEF SubmitBegin, GoodbyeBegin, MayUse, ClientTypeOK
<1>11. ASSUME NEW c \in Threads, HelloFails(c) \/ SubmitResolves(c) \/ SubmitFails(c)
       PROVE  Introduced'
    BY <1>0, <1>8, <1>11 DEF HelloFails, SubmitResolves, SubmitFails, Returns, ClientTypeOK
<1>12. ASSUME NEW x \in Processes, Die(x) PROVE Introduced'
    BY <1>0, <1>8, <1>12 DEF Die, ClientTypeOK
<1>13. ClientNext
    BY DEF ClientStep
<1>14. QED
    BY <1>5, <1>6, <1>7, <1>9, <1>10, <1>11, <1>12, <1>13 DEF ClientNext, CallStep

\* With one poll thread no frame is looked at before a hello of its token was handled,
\* be it admitted or refused, whichever thread of the client calls and however often
\* the process dies; and a frame is queued and shown only while the ClientSink
\* believes its token connected.
THEOREM NoClientIsAStranger == OnePoller => (Spec => []NoStrangers)
<1> SUFFICES ASSUME OnePoller PROVE Spec => []NoStrangers
    OBVIOUS
<1>1. Init => Introduced
  <2>1. Init => /\ mail = <<>> /\ (\A p \in Pollers : hpc[p] = "idle")
                /\ (\A x \in Processes : ~connected[x]) /\ \A c \in Threads : cpc[c] = "idle"
      BY DEF Init, HostInit, ClientInit
  <2>2. QED
      BY <2>1, EmptySeq DEF Introduced, HelloFirst
<1>2. StreamTypes /\ Introduced /\ [Next]_vars => Introduced'
  <2>1. ASSUME StreamTypes, Introduced, UNCHANGED vars PROVE Introduced'
      BY <2>1, IntroducedStays DEF vars, hostVars
  <2>2. QED
      BY <2>1, IntroducedHost, IntroducedClients DEF Next
<1>3. Owned /\ Follows /\ Introduced => NoStrangers
    BY DEF Owned, Ownership, GoneIsEmpty, Follows, ViewFollows, Introduced, HelloFirst, NoStrangers
<1>4. QED
    BY <1>1, <1>2, <1>3, StreamTypesInit, StreamTypesNext, OwnedHolds, FollowsHolds, PTL DEF Spec

-----------------------------------------------------------------------------
(* The path of the frames implements LossyChannel.  With one poll thread     *)
(* they are queued in the order in which they were sent.                     *)

FramesInOrder ==
    /\ \A i, j \in DOMAIN queue : i < j => queue[i] < queue[j]
    /\ \A p \in Pollers : hpc[p] \in {"frame", "push"} =>
          \A i \in DOMAIN queue : queue[i] < hmsg[p].right

LEMMA FramesInOrderNext ==
    ASSUME OnePoller, Owned, FramesInOrder, [Next]_vars
    PROVE  FramesInOrder'
<1>0. /\ HostTypeOK /\ MailIsFresh /\ RightsAreOwned /\ HandlersCarry
      /\ mail \in Seq(Messages) /\ rights \subseteq Nat
      /\ Len(queue) \in Nat /\ DOMAIN queue = 1 .. Len(queue)
      /\ \A i \in DOMAIN queue : queue[i] \in Nat
    BY QueueIsTyped DEF Owned, StreamTypes, TypeOK, Ownership, HostTypeOK, Rights
<1>1. ASSUME NEW p \in Pollers, Receive(p) PROVE FramesInOrder'
  <2>1. /\ Head(mail) = mail[1] /\ 1 \in DOMAIN mail /\ hmsg'[p] = mail[1]
        /\ hpc'[p] = mail[1].kind /\ UNCHANGED queue
      BY <1>0, <1>1, MailWithout DEF Receive, HostTypeOK
  <2>2. \A i \in DOMAIN queue : queue[i] \in rights
      BY <1>0 DEF RightsAreOwned, QueuedRights
  <2>3. mail[1].kind = "frame" => \A i \in DOMAIN queue : queue[i] < mail[1].right
      BY <1>0, <2>1, <2>2 DEF MailIsFresh, Owned, StreamTypes, MailCarries
  <2>4. mail[1].kind # "push"
      BY <1>0, <2>1, MailIsTyped
  <2>5. QED
      BY <2>1, <2>3, <2>4 DEF FramesInOrder, OnePoller
<1>2. ASSUME NEW p \in Pollers, Push(p) PROVE FramesInOrder'
  <2> DEFINE f == hmsg[p].right
  <2>1. /\ queue' = Enqueued(f) /\ f \in Nat \ {0} /\ hpc'[p] = "sink"
        /\ \A i \in DOMAIN queue : queue[i] < f
      BY <1>0, <1>2, HandlersAreTyped DEF Push, HandlersCarry, Holding, HostTypeOK, FramesInOrder
  <2>2. \A i, j \in DOMAIN queue' : i < j => queue'[i] < queue'[j]
    <3>1. CASE /\ DOMAIN queue' = 1 .. Len(queue) + 1
               /\ \A i \in 1 .. Len(queue) : queue'[i] = queue[i]
               /\ queue'[Len(queue) + 1] = f
        BY <1>0, <2>1, <3>1 DEF FramesInOrder
    <3>2. CASE /\ DOMAIN queue' = 1 .. Len(queue)
               /\ \A i \in 1 .. Len(queue) - 1 : queue'[i] = queue[i + 1]
               /\ queue'[Len(queue)] = f
      <4>1. SUFFICES ASSUME NEW i \in 1 .. Len(queue), NEW j \in 1 .. Len(queue), i < j
                     PROVE  queue'[i] < queue'[j]
          BY <3>2
      <4>2. /\ i \in 1 .. Len(queue) - 1 /\ i + 1 \in DOMAIN queue
            /\ queue'[i] = queue[i + 1] /\ queue[i + 1] < f
          BY <1>0, <2>1, <3>2, <4>1
      <4>3. CASE j = Len(queue)
          BY <3>2, <4>2, <4>3
      <4>4. CASE j \in 1 .. Len(queue) - 1
        <5>1. j + 1 \in DOMAIN queue /\ i + 1 < j + 1
            BY <1>0, <4>1, <4>4
        <5>2. queue[i + 1] < queue[j + 1]
            BY <4>2, <5>1 DEF FramesInOrder
        <5>3. QED
            BY <3>2, <4>2, <4>4, <5>2
      <4>5. \A n \in Nat : \A k \in 1 .. n : k = n \/ k \in 1 .. n - 1
          OBVIOUS
      <4>6. QED
          BY <1>0, <4>1, <4>3, <4>4, <4>5
    <3>3. QED
        BY <1>0, <2>1, <3>1, <3>2, EnqueuedFrames
  <2>3. QED
      BY <2>1, <2>2 DEF FramesInOrder, OnePoller
<1>3. ASSUME NEW p \in Pollers, RunOnce(p), ~Receive(p), ~Push(p) PROVE FramesInOrder'
  <2>1. /\ UNCHANGED queue
        /\ hpc'[p] \in {"frame", "push"} => hpc[p] \in {"frame", "push"} /\ hmsg'[p] = hmsg[p]
      BY <1>0, <1>3 DEF RunOnce, Rehello, Admit, Refuse, NotifyConnected, HostTypeOK, Done,
           Leave, LeaveUnknown, NotifyDisconnected, CheckKnown, DropUnknown, ShowFrame
  <2>2. QED
      BY <2>1 DEF FramesInOrder, OnePoller
<1>4. CASE PopFrame
  <2>1. /\ UNCHANGED <<hpc, hmsg>>
        /\ DOMAIN queue' = 1 .. Len(queue) - 1
        /\ \A i \in DOMAIN queue' : i + 1 \in DOMAIN queue /\ queue'[i] = queue[i + 1]
      BY <1>0, <1>4, ShorterQueue DEF PopFrame
  <2>2. QED
      BY <1>0, <2>1 DEF FramesInOrder
<1>5. CASE DropHost
  <2>1. DOMAIN queue' = {}
      BY <1>5, EmptySeq DEF DropHost
  <2>2. QED
      BY <2>1 DEF FramesInOrder
<1>6. CASE ReleaseFramePort \/ StopServer \/ ClientStep \/ UNCHANGED vars
  <2>1. UNCHANGED <<queue, hpc, hmsg>>
      BY <1>6 DEF ReleaseFramePort, StopServer, ClientStep, vars, hostVars
  <2>2. QED
      BY <2>1 DEF FramesInOrder
<1>7. QED
    BY <1>1, <1>2, <1>3, <1>4, <1>5, <1>6 DEF Next, HostStep, HostNext, MainThread

\* A step of a poll thread moves frames on, or loses some.
LEMMA PollersOnlyLose ==
    ASSUME Owned, NEW p \in Pollers, RunOnce(p), UNCHANGED clientState
    PROVE  Channel!Lose
<1> DEFINE InHandler(q) == hpc[q] \in {"frame", "push"}
<1>0. HostTypeOK /\ mail \in Seq(Messages)
    BY DEF Owned, StreamTypes, TypeOK, HostTypeOK
<1>1. UNCHANGED <<inHand, released, lastRight>>
    BY DEF clientState, RunOnce, Receive, Rehello, Admit, Refuse, NotifyConnected,
           Leave, LeaveUnknown, NotifyDisconnected, CheckKnown, DropUnknown, Push, ShowFrame
<1>2. OnlyMoves(p)
    BY <1>0 DEF RunOnce, Receive, Rehello, Admit, Refuse, NotifyConnected, HostTypeOK, Done,
           Leave, LeaveUnknown, NotifyDisconnected, CheckKnown, DropUnknown, Push, ShowFrame,
           OnlyMoves
<1>3. SUFFICES (QueuedRights \cup FramesInHandler \cup FramesInMail)'
                  \subseteq QueuedRights \cup FramesInHandler \cup FramesInMail
    BY <1>1 DEF Channel!Lose
<1>4. CASE Receive(p)
  <2>1. /\ Head(mail) = mail[1] /\ 1 \in DOMAIN mail /\ hmsg'[p] = mail[1]
        /\ hpc'[p] = mail[1].kind /\ UNCHANGED queue
        /\ \A i \in DOMAIN mail' : i + 1 \in DOMAIN mail /\ mail'[i] = mail[i + 1]
      BY <1>0, <1>4, MailWithout DEF Receive, HostTypeOK
  <2>2. mail[1].kind # "push"
      BY <1>0, <2>1, MailIsTyped
  <2>3. FramesInMail' \subseteq FramesInMail
      BY <2>1 DEF FramesInMail
  <2>4. FramesInHandler' \subseteq FramesInHandler \cup FramesInMail
      BY <1>2, <2>1, <2>2 DEF FramesInHandler, FramesInMail, OnlyMoves
  <2>5. QED
      BY <2>1, <2>3, <2>4 DEF QueuedRights
<1>5. CASE ~Receive(p)
  <2>1. FramesInMail' = FramesInMail
      BY <1>5 DEF FramesInMail, RunOnce, Rehello, Admit, Refuse, NotifyConnected,
           Leave, LeaveUnknown, NotifyDisconnected, CheckKnown, DropUnknown, Push, ShowFrame
  <2>2. hpc'[p] \in {"frame", "push"} => hpc[p] \in {"frame", "push"} /\ hmsg'[p] = hmsg[p]
      BY <1>0, <1>5 DEF RunOnce, Rehello, Admit, Refuse, NotifyConnected, HostTypeOK, Done,
           Leave, LeaveUnknown, NotifyDisconnected, CheckKnown, DropUnknown, Push, ShowFrame
  <2>3. FramesInHandler' \subseteq FramesInHandler
      BY <1>2, <2>2 DEF FramesInHandler, OnlyMoves
  <2>4. QueuedRights' \subseteq QueuedRights \cup FramesInHandler
    <3>1. CASE Push(p)
      <4>1. hmsg[p].right \in Nat \ {0} /\ hmsg[p].right \in HandlerRights
          BY <3>1, <1>0, HandlersAreTyped
             DEF Owned, StreamTypes, HandlersCarry, HandlerRights, Holding, Push
      <4>2. QueuedRights' = (QueuedRights \ Evicted(hmsg[p].right)) \cup {hmsg[p].right}
          BY <1>0, <3>1, <4>1, FrameQueued DEF Push, Owned, Ownership, ClassesDiffer
      <4>3. hmsg[p].right \in FramesInHandler
          BY <3>1 DEF Push, FramesInHandler
      <4>4. QED
          BY <4>2, <4>3
    <3>2. CASE UNCHANGED queue
        BY <3>2 DEF QueuedRights
    <3>3. QED
        BY <1>5, <3>1, <3>2 DEF RunOnce, Rehello, Admit, Refuse, NotifyConnected,
           Leave, LeaveUnknown, NotifyDisconnected, CheckKnown, DropUnknown, ShowFrame
  <2>5. QED
      BY <2>1, <2>3, <2>4
<1>6. QED
    BY <1>4, <1>5

\* What the main thread pops is the oldest frame under way.
LEMMA PopTakesTheOldest ==
    ASSUME Owned, FramesInOrder, PopFrame, UNCHANGED clientState
    PROVE  Channel!Take
<1> DEFINE f == queue[1]
           Transit == QueuedRights \cup FramesInHandler \cup FramesInMail
<1>0. /\ HostTypeOK /\ FramesDiffer /\ MailIsFresh /\ RightsAreOwned /\ ClassesDiffer /\ MailCarries
      /\ mail \in Seq(Messages) /\ Len(queue) \in Nat /\ DOMAIN queue = 1 .. Len(queue)
      /\ \A i \in DOMAIN queue : queue[i] \in Nat
    BY QueueIsTyped DEF Owned, StreamTypes, TypeOK, Ownership, HostTypeOK
<1>1. /\ inHand = 0 /\ inHand' = f /\ f \in QueuedRights /\ 1 \in DOMAIN queue
      /\ QueuedRights' = QueuedRights \ {f}
      /\ UNCHANGED <<mail, hpc, hmsg, released, lastRight>>
    BY <1>0, FramePopped, ShorterQueue DEF PopFrame, clientState
<1>2. f \in Nat \ {0} /\ f \in rights
    BY <1>0, <1>1, ClassesAreRights DEF Owned, RightsAreOwned
<1>3. \A g \in QueuedRights : f <= g
    BY <1>0, <1>1 DEF FramesInOrder, QueuedRights
<1>4. \A g \in FramesInHandler : f < g
    BY <1>1 DEF FramesInOrder, FramesInHandler
<1>5. \A g \in FramesInMail : f < g
    BY <1>0, <1>2 DEF FramesInMail, MailIsFresh, MailCarries
<1>6. FramesInHandler \cup FramesInMail \subseteq Nat
    BY <1>0, HandlersAreTyped, MailIsTyped DEF FramesInHandler, FramesInMail
<1>7. \A g \in FramesInHandler \cup FramesInMail : f <= g /\ g # f
    BY <1>2, <1>4, <1>5, <1>6
<1>8. Transit' = Transit \ {f}
  <2>1. FramesInHandler' = FramesInHandler /\ FramesInMail' = FramesInMail
      BY <1>1 DEF FramesInHandler, FramesInMail
  <2>2. QED
      BY <1>1, <1>7, <2>1
<1>9. (released \cup ({inHand} \ {0}))' = (released \cup ({inHand} \ {0})) \cup {f}
    BY <1>1, <1>2
<1>10. f \in Transit /\ \A g \in Transit : f <= g
    BY <1>1, <1>3, <1>7
<1>11. QED
    BY <1>1, <1>8, <1>9, <1>10 DEF Channel!Take

\* A client puts a frame in, gives a number to something else, or does nothing here.
LEMMA ClientsPut ==
    ASSUME Owned, UNCHANGED hostSide, ClientSends
    PROVE  [Channel!Next]_(Channel!vars)
<1>0. HostTypeOK /\ mail \in Seq(Messages) /\ lastRight \in Nat
    BY DEF Owned, StreamTypes, TypeOK, HostTypeOK, ClientTypeOK
<1>1. /\ QueuedRights' = QueuedRights /\ FramesInHandler' = FramesInHandler
      /\ UNCHANGED <<inHand, released>>
    BY DEF hostSide, QueuedRights, FramesInHandler
<1>2. CASE UNCHANGED <<mail, lastRight>>
    BY <1>1, <1>2 DEF FramesInMail, Channel!vars
<1>3. ASSUME NEW kind \in {"hello", "goodbye", "frame"}, NEW t \in Tokens, NEW r \in Nat,
             Sends(kind, t, r),
             \/ kind = "goodbye" /\ lastRight' = lastRight
             \/ kind # "goodbye" /\ r = lastRight + 1 /\ lastRight' = r
      PROVE  [Channel!Next]_(Channel!vars)
  <2>1. /\ DOMAIN mail = 1 .. Len(mail) /\ DOMAIN mail' = 1 .. Len(mail) + 1
        /\ Len(mail) \in Nat
        /\ \A i \in DOMAIN mail : mail'[i] = mail[i]
        /\ mail'[Len(mail) + 1].right = r /\ mail'[Len(mail) + 1].kind = kind
      BY <1>0, <1>3, MailAfterSending
  <2>2. \A i : i \in DOMAIN mail' <=> i \in DOMAIN mail \/ i = Len(mail) + 1
      BY <2>1
  <2>3. CASE kind = "frame"
    <3>1. FramesInMail' = FramesInMail \cup {r}
        BY <2>1, <2>2, <2>3 DEF FramesInMail
    <3>2. QED
        BY <1>1, <1>3, <2>3, <3>1 DEF Channel!Next, Channel!Put
  <2>4. CASE kind # "frame"
    <3>1. FramesInMail' = FramesInMail
        BY <2>1, <2>2, <2>4 DEF FramesInMail
    <3>2. QED
        BY <1>1, <1>3, <3>1 DEF Channel!Next, Channel!Skip, Channel!vars
  <2>5. QED
      BY <2>3, <2>4
<1>4. QED
    BY <1>2, <1>3 DEF ClientSends

LEMMA StreamStepsAreChannelSteps ==
    ASSUME Owned, FramesInOrder, [Next]_vars
    PROVE  [Channel!Next]_(Channel!vars)
<1>1. ASSUME NEW p \in Pollers, RunOnce(p), UNCHANGED clientState PROVE Channel!Next
    BY <1>1, PollersOnlyLose DEF Channel!Next
<1>2. ASSUME PopFrame, UNCHANGED clientState PROVE Channel!Next
    BY <1>2, PopTakesTheOldest DEF Channel!Next
<1>3. ASSUME ReleaseFramePort \/ StopServer, UNCHANGED clientState PROVE UNCHANGED Channel!vars
  <2>1. UNCHANGED <<queue, hpc, hmsg, mail, lastRight>>
      BY <1>3 DEF ReleaseFramePort, StopServer, clientState
  <2>2. QueuedRights' = QueuedRights /\ FramesInHandler' = FramesInHandler
        /\ FramesInMail' = FramesInMail
      BY <2>1 DEF QueuedRights, FramesInHandler, FramesInMail
  <2>3. (released \cup ({inHand} \ {0}))' = released \cup ({inHand} \ {0})
      BY <1>3 DEF ReleaseFramePort, StopServer
  <2>4. QED
      BY <2>1, <2>2, <2>3 DEF Channel!vars
<1>4. ASSUME DropHost, UNCHANGED clientState PROVE Channel!Next
  <2>1. /\ DOMAIN queue' = {} /\ DOMAIN mail' = {}
        /\ UNCHANGED <<hpc, hmsg, inHand, released, lastRight>>
      BY <1>4, EmptySeq DEF DropHost, clientState
  <2>2. QueuedRights' = {} /\ FramesInMail' = {} /\ FramesInHandler' = FramesInHandler
      BY <2>1 DEF QueuedRights, FramesInHandler, FramesInMail
  <2>3. QED
      BY <2>1, <2>2 DEF Channel!Next, Channel!Lose
<1>5. CASE ClientStep
  <2>1. UNCHANGED hostSide /\ ClientSends
      BY <1>5, ClientsSend DEF ClientStep, hostSide, Owned, StreamTypes, TypeOK
  <2>2. QED
      BY <2>1, ClientsPut
<1>6. CASE UNCHANGED vars
  <2>1. UNCHANGED hostSide /\ ClientSends
      BY <1>6 DEF vars, hostVars, clientState, hostSide, ClientSends
  <2>2. QED
      BY <2>1, ClientsPut
<1>7. QED
    BY <1>1, <1>2, <1>3, <1>4, <1>5, <1>6 DEF Next, HostStep, HostNext, MainThread

\* With one poll thread the frames of all clients come out of pop_frame in the order
\* in which their sends completed, each at most once, and are at worst lost: the
\* clients, the port, the handlers and the queue together implement LossyChannel.
THEOREM StreamIsALossyChannel == OnePoller => (Spec => ImplementsLossyChannel)
<1> SUFFICES ASSUME OnePoller PROVE Spec => ImplementsLossyChannel
    OBVIOUS
<1>1. Init => Channel!Init /\ FramesInOrder
  <2>1. Init => /\ mail = <<>> /\ queue = <<>> /\ (\A p \in Pollers : hpc[p] = "idle")
                /\ inHand = 0 /\ released = {} /\ lastRight = 0
      BY DEF Init, HostInit, ClientInit
  <2>2. Init => QueuedRights = {} /\ FramesInHandler = {} /\ FramesInMail = {}
      BY <2>1, EmptySeq DEF QueuedRights, FramesInHandler, FramesInMail
  <2>3. Init => FramesInOrder
      BY <2>1, EmptySeq DEF FramesInOrder
  <2>4. QED
      BY <2>1, <2>2, <2>3 DEF Channel!Init
<1>2. Owned /\ FramesInOrder /\ [Next]_vars => FramesInOrder'
    BY FramesInOrderNext
<1>3. Owned /\ FramesInOrder /\ [Next]_vars => [Channel!Next]_(Channel!vars)
    BY StreamStepsAreChannelSteps
<1>4. QED
    BY <1>1, <1>2, <1>3, OwnedHolds, PTL DEF Spec, ImplementsLossyChannel, Channel!Spec
=============================================================================
