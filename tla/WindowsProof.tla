---------------------------- MODULE WindowsProof ----------------------------
(***************************************************************************)
(* Theorems about Windows, for any number of threads, windows, sizes and   *)
(* delegates.                                                              *)
(***************************************************************************)
EXTENDS Windows, TLAPS

\* A call keeps the object that it was sent to.
CallsAreOnObjects == \A t \in Threads : pc[t] # "idle" => call[t].window \in exists

\* A call that is alone is the only one with news of its window, and its news are
\* what the record says; news that are not alone leave the window unsettled.
NewsAreTrue ==
    \A w \in Windows : \A t \in Telling(w) :
        /\ w \in late
        /\ ~call[t].alone => w \in unsettled
        /\ call[t].alone =>
              /\ \A u \in Telling(w) : u = t
              /\ pc[t] \in {"show", "resize"} =>
                    record[w] # NoRecord /\ call[t].size = record[w].size
              /\ pc[t] = "remove" => screen[w] = Gone

\* Without a compositor nothing is shown.
NobodyShows == ~installed => \A w \in Windows : screen[w] = Gone

ScreenInv == /\ WindowTypeOK /\ CallsAreOnObjects /\ NewsAreTrue /\ NobodyShows
             /\ ClosedLeavesNothing /\ CompositorKnowsSizes

-----------------------------------------------------------------------------
(* Types and objects *)

Records == [size : Sizes, key : BOOLEAN, delegate : Delegates \cup {Null}]
CallRecords == [window : Windows, size : Sizes, delegate : Delegates \cup {Null},
                alone : BOOLEAN, switched : BOOLEAN]

LEMMA Constants ==
    NoCall \in CallRecords /\ Default \in Records /\ NoRecord \notin Records
BY WindowsAssumption DEF NoCall, NoRecord, Default, CallRecords, Records

LEMMA EntryIsTyped ==
    ASSUME WindowTypeOK, NEW w \in Windows
    PROVE  /\ Entry(w) \in Records
           /\ record[w] # NoRecord => Entry(w) = record[w]
           /\ record[w] = NoRecord => Entry(w) = Default
BY Constants DEF WindowTypeOK, Entry, Records

LEMMA DisturbedCalls ==
    ASSUME WindowTypeOK, NEW w \in Windows
    PROVE  /\ Disturbed(w) \in [Threads -> CallRecords]
           /\ \A u \in Threads : /\ Disturbed(w)[u].window = call[u].window
                                /\ Disturbed(w)[u].size = call[u].size
                                /\ Disturbed(w)[u].delegate = call[u].delegate
                                /\ Disturbed(w)[u].switched = call[u].switched
                                /\ Disturbed(w)[u].alone = (call[u].alone /\ u \notin Telling(w))
<1>1. \A u \in Threads : call[u] \in CallRecords
    BY DEF WindowTypeOK, CallRecords
<1>2. ASSUME NEW u \in Threads
      PROVE  /\ Disturbed(w)[u] \in CallRecords
             /\ Disturbed(w)[u].window = call[u].window
             /\ Disturbed(w)[u].size = call[u].size
             /\ Disturbed(w)[u].delegate = call[u].delegate
             /\ Disturbed(w)[u].switched = call[u].switched
             /\ Disturbed(w)[u].alone = (call[u].alone /\ u \notin Telling(w))
  <2>1. CASE u \in Telling(w)
      BY <1>1, <2>1 DEF Disturbed, CallRecords
  <2>2. CASE u \notin Telling(w)
      BY <1>1, <2>2 DEF Disturbed, CallRecords
  <2>3. QED
      BY <2>1, <2>2
<1>3. Disturbed(w) = [u \in Threads |-> Disturbed(w)[u]]
    BY DEF Disturbed
<1>4. QED
    BY <1>2, <1>3

LEMMA InitWindows == WindowInit => ScreenInv
<1> SUFFICES ASSUME WindowInit PROVE ScreenInv
    OBVIOUS
<1>1. WindowTypeOK
    BY Constants, WindowsAssumption DEF WindowInit, WindowTypeOK, Records, CallRecords
<1>2. \A w \in Windows : Telling(w) = {}
    BY DEF WindowInit, Telling
<1>3. QED
    BY <1>1, <1>2 DEF WindowInit, ScreenInv, CallsAreOnObjects, NewsAreTrue, NobodyShows,
                   ClosedLeavesNothing, CompositorKnowsSizes, Telling

-----------------------------------------------------------------------------
(* Messages *)

\* A message of which nobody is told: the size in the record stays.
Quiet(t, w) ==
    /\ Sends(t, w)
    /\ \E r \in Records : record' = [record EXCEPT ![w] = r] /\ r.size = Entry(w).size
    /\ call' \in [Threads -> CallRecords]
    /\ \A u \in Threads : /\ call'[u].window = call[u].window
                         /\ call'[u].size = call[u].size
                         /\ call'[u].alone = call[u].alone
    /\ wish' \in [Windows -> Delegates \cup {Null}]
    /\ TellsNobody

LEMMA QuietKeeps ==
    ASSUME ScreenInv, NEW t \in Threads, NEW w \in Windows, Quiet(t, w)
    PROVE  ScreenInv'
<1>1. PICK r \in Records : record' = [record EXCEPT ![w] = r] /\ r.size = Entry(w).size
    BY DEF Quiet
<1>2. /\ WindowTypeOK /\ w \in exists
      /\ UNCHANGED <<exists, installed, screen, legacy, pc, unsettled>>
      /\ late' = late \cup {w}
    BY DEF ScreenInv, Quiet, Sends, TellsNobody
<1>3. WindowTypeOK'
    BY <1>1, <1>2 DEF WindowTypeOK, Quiet, Records, CallRecords
<1>4. \A v \in Windows : Telling(v)' = Telling(v)
    BY <1>2 DEF Quiet, Telling
<1>5. CallsAreOnObjects' /\ NobodyShows' /\ ClosedLeavesNothing'
    BY <1>1, <1>2 DEF ScreenInv, Quiet, CallsAreOnObjects, NobodyShows, ClosedLeavesNothing,
                      WindowTypeOK
<1>6. NewsAreTrue'
  <2> SUFFICES ASSUME NEW v \in Windows, NEW u \in Telling(v)
               PROVE  /\ v \in late'
                      /\ ~call'[u].alone => v \in unsettled'
                      /\ call'[u].alone =>
                            /\ \A x \in Telling(v) : x = u
                            /\ pc'[u] \in {"show", "resize"} =>
                                  record'[v] # NoRecord /\ call'[u].size = record'[v].size
                            /\ pc'[u] = "remove" => screen'[v] = Gone
      BY <1>4 DEF NewsAreTrue
  <2>1. u \in Threads /\ call'[u].size = call[u].size /\ call'[u].alone = call[u].alone
      BY DEF Quiet, Telling
  <2>2. record[v] # NoRecord => record'[v] # NoRecord /\ record'[v].size = record[v].size
    <3>1. CASE v = w
      <4>1. record'[w] = r /\ r # NoRecord
          BY <1>1, <1>2, Constants DEF WindowTypeOK
      <4>2. record[w] # NoRecord => r.size = record[w].size
          BY <1>1, <1>2, EntryIsTyped
      <4>3. QED
          BY <3>1, <4>1, <4>2
    <3>2. CASE v # w
        BY <1>1, <1>2, <3>2 DEF WindowTypeOK
    <3>3. QED
        BY <3>1, <3>2
  <2>3. QED
      BY <1>2, <2>1, <2>2 DEF ScreenInv, NewsAreTrue
<1>7. CompositorKnowsSizes'
  <2> SUFFICES ASSUME NEW v \in Windows, v \in exists, v \notin unsettled', Telling(v) = {},
                      screen[v] # Gone
               PROVE  record'[v] # NoRecord /\ screen[v] = record'[v].size
      BY <1>2, <1>4 DEF CompositorKnowsSizes, WindowTypeOK
  <2>1. record[v] # NoRecord /\ screen[v] = record[v].size
      BY <1>2 DEF ScreenInv, CompositorKnowsSizes, WindowTypeOK
  <2>2. Entry(v) = record[v]
      BY <1>2, <2>1, EntryIsTyped
  <2>3. r # NoRecord
      BY <1>1, Constants
  <2>4. QED
      BY <1>1, <1>2, <2>1, <2>2, <2>3 DEF WindowTypeOK
<1>8. QED
    BY <1>3, <1>5, <1>6, <1>7 DEF ScreenInv

\* A message with news to tell: they are what the record says, if they are a size.
Loud(t, w) ==
    /\ Sends(t, w)
    /\ \E r \in Records \cup {NoRecord}, size \in Sizes, d \in Delegates \cup {Null},
          to \in {"show", "resize", "close"} :
          /\ record' = [record EXCEPT ![w] = r]
          /\ to # "close" => r \in Records /\ size = r.size
          /\ Copies(t, w, size, d)
          /\ Goes(t, to)
    /\ UNCHANGED wish

LEMMA LoudKeeps ==
    ASSUME ScreenInv, NEW t \in Threads, NEW w \in Windows, Loud(t, w)
    PROVE  ScreenInv'
<1>1. PICK r \in Records \cup {NoRecord}, size \in Sizes, d \in Delegates \cup {Null},
           to \in {"show", "resize", "close"} :
          /\ record' = [record EXCEPT ![w] = r]
          /\ to # "close" => r \in Records /\ size = r.size
          /\ Copies(t, w, size, d)
          /\ Goes(t, to)
    BY DEF Loud
<1>2. /\ WindowTypeOK /\ w \in exists /\ UNCHANGED <<exists, installed, screen, legacy, wish>>
      /\ late' = late \cup {w} /\ unsettled \subseteq unsettled'
      /\ unsettled' \subseteq unsettled \cup {w}
      /\ (Telling(w) = {} \/ w \in unsettled') /\ pc[t] = "idle"
    BY <1>1 DEF ScreenInv, Loud, Sends, Copies
<1>3. /\ pc' = [pc EXCEPT ![t] = to] /\ pc'[t] = to
      /\ call'[t] = [window |-> w, size |-> size, delegate |-> d, alone |-> Telling(w) = {},
                     switched |-> FALSE]
      /\ \A u \in Threads \ {t} :
            /\ pc'[u] = pc[u] /\ call'[u].window = call[u].window
            /\ call'[u].size = call[u].size
            /\ call'[u].alone = (call[u].alone /\ u \notin Telling(w))
    BY <1>1, <1>2 DEF Copies, Goes, Disturbed, NoCall, WindowTypeOK
<1>4. call' \in [Threads -> CallRecords]
  <2>1. call'[t] \in CallRecords
      BY <1>3 DEF CallRecords
  <2>2. call' = [Disturbed(w) EXCEPT ![t] = call'[t]]
      BY <1>1, <1>2, DisturbedCalls DEF Copies
  <2>3. QED
      BY <1>2, <2>1, <2>2, DisturbedCalls
<1>5. WindowTypeOK'
    BY <1>1, <1>2, <1>3, <1>4 DEF WindowTypeOK, Records, CallRecords
<1>6. /\ Telling(w)' = Telling(w) \cup {t}
      /\ \A v \in Windows \ {w} : Telling(v)' = Telling(v)
    BY <1>2, <1>3 DEF Telling
<1>7. CallsAreOnObjects' /\ NobodyShows' /\ ClosedLeavesNothing'
    BY <1>1, <1>2, <1>3 DEF ScreenInv, CallsAreOnObjects, NobodyShows, ClosedLeavesNothing,
                            WindowTypeOK
<1>8. NewsAreTrue'
  <2> SUFFICES ASSUME NEW v \in Windows, NEW u \in Telling(v)'
               PROVE  /\ v \in late'
                      /\ ~call'[u].alone => v \in unsettled'
                      /\ call'[u].alone =>
                            /\ \A x \in Telling(v)' : x = u
                            /\ pc'[u] \in {"show", "resize"} =>
                                  record'[v] # NoRecord /\ call'[u].size = record'[v].size
                            /\ pc'[u] = "remove" => screen'[v] = Gone
      BY DEF NewsAreTrue
  <2>1. CASE v = w /\ u = t
    <3>0. call'[t].alone <=> Telling(w) = {}
      <4>1. CASE Telling(w) = {}
        <5>1. (Telling(w) = {}) = TRUE
            BY <4>1
        <5>2. call'[t] = [window |-> w, size |-> size, delegate |-> d, alone |-> TRUE,
                         switched |-> FALSE]
            BY <1>3, <5>1, Zenon
        <5>3. call'[t].alone = TRUE
            BY <5>2
        <5>4. QED
            BY <4>1, <5>3
      <4>2. CASE Telling(w) # {}
        <5>1. (Telling(w) = {}) = FALSE
            BY <4>2
        <5>2. call'[t] = [window |-> w, size |-> size, delegate |-> d, alone |-> FALSE,
                         switched |-> FALSE]
            BY <1>3, <5>1, Zenon
        <5>3. call'[t].alone = FALSE
            BY <5>2
        <5>4. QED
            BY <4>2, <5>3
      <4>3. QED
          BY <4>1, <4>2
    <3>1. call'[u].alone => \A x \in Telling(w)' : x = t
        BY <1>6, <2>1, <3>0
    <3>2. pc'[u] \in {"show", "resize"} => record'[w] = r /\ r \in Records /\ call'[u].size = r.size
        BY <1>1, <1>2, <1>3, <2>1 DEF WindowTypeOK
    <3>3. v \in late' /\ (~call'[u].alone => v \in unsettled') /\ pc'[u] # "remove"
        BY <1>2, <1>3, <2>1, <3>0
    <3>4. QED
        BY <2>1, <3>1, <3>2, <3>3, Constants
  <2>2. CASE v = w /\ u # t
    <3>1. u \in Telling(w) /\ u \in Threads
        BY <1>6, <2>2 DEF Telling
    <3>2. QED
        BY <1>2, <1>3, <2>2, <3>1
  <2>3. CASE v # w
    <3>1. u \in Telling(v) /\ u \in Threads \ {t} /\ u \notin Telling(w)
        BY <1>2, <1>6, <2>3 DEF Telling
    <3>2. record'[v] = record[v] /\ call'[u].alone = call[u].alone /\ pc'[u] = pc[u]
          /\ call'[u].size = call[u].size
        BY <1>1, <1>2, <1>3, <2>3, <3>1 DEF WindowTypeOK
    <3>3. QED
        BY <1>2, <1>6, <2>3, <3>1, <3>2 DEF ScreenInv, NewsAreTrue
  <2>4. QED
      BY <2>1, <2>2, <2>3
<1>9. CompositorKnowsSizes'
  <2> SUFFICES ASSUME NEW v \in Windows, v \in exists, v \notin unsettled', Telling(v)' = {},
                      screen[v] # Gone
               PROVE  record'[v] # NoRecord /\ screen[v] = record'[v].size
      BY <1>2 DEF CompositorKnowsSizes, WindowTypeOK
  <2>1. v # w /\ Telling(v) = {}
      BY <1>6
  <2>2. QED
      BY <1>1, <1>2, <2>1 DEF WindowTypeOK, ScreenInv, CompositorKnowsSizes
<1>10. QED
    BY <1>5, <1>7, <1>8, <1>9 DEF ScreenInv

LEMMA MessagesKeep ==
    ASSUME ScreenInv, NEW t \in Threads, NEW w \in Windows, Messages(t, w)
    PROVE  ScreenInv'
<1> DEFINE e == Entry(w)
<1>1. WindowTypeOK /\ e \in Records
    BY EntryIsTyped DEF ScreenInv
<1> HIDE DEF e
<1>2. CASE Touches(t, w)
  <2>1. record' = [record EXCEPT ![w] = e]
      BY <1>2 DEF Touches, e
  <2>2. Sends(t, w) /\ TellsNobody /\ UNCHANGED <<call, wish>>
      BY <1>2 DEF Touches
  <2>3. Quiet(t, w)
      BY <1>1, <2>1, <2>2 DEF Quiet, WindowTypeOK, CallRecords, e
  <2>4. QED
      BY <2>3, QuietKeeps
<1>3. CASE OrdersOut(t, w)
  <2>1. record' = [record EXCEPT ![w] = [e EXCEPT !.key = FALSE]]
        /\ [e EXCEPT !.key = FALSE] \in Records /\ [e EXCEPT !.key = FALSE].size = e.size
      BY <1>1, <1>3 DEF OrdersOut, e, Records
  <2>2. Sends(t, w) /\ TellsNobody /\ UNCHANGED <<call, wish>>
      BY <1>3 DEF OrdersOut
  <2>3. Quiet(t, w)
      BY <1>1, <2>1, <2>2 DEF Quiet, WindowTypeOK, CallRecords, e
  <2>4. QED
      BY <2>3, QuietKeeps
<1>4. ASSUME NEW d \in Delegates \cup {Null}, SetsDelegate(t, w, d) PROVE ScreenInv'
  <2>1. record' = [record EXCEPT ![w] = [e EXCEPT !.delegate = d]]
        /\ [e EXCEPT !.delegate = d] \in Records /\ [e EXCEPT !.delegate = d].size = e.size
      BY <1>1, <1>4 DEF SetsDelegate, NewDelegate, e, Records
  <2>2. ASSUME NEW u \in Threads
        PROVE  /\ call'[u] \in CallRecords
               /\ call'[u].window = call[u].window
               /\ call'[u].size = call[u].size
               /\ call'[u].alone = call[u].alone
    <3>1. call[u] \in CallRecords
        BY <1>1 DEF WindowTypeOK, CallRecords
    <3>2. call'[u] \in {call[u], [call[u] EXCEPT !.switched = TRUE]}
        BY <1>4 DEF SetsDelegate, Switched
    <3>3. QED
        BY <3>1, <3>2 DEF CallRecords
  <2>3. call' \in [Threads -> CallRecords]
      BY <1>4, <2>2 DEF SetsDelegate, Switched
  <2>4. wish' \in [Windows -> Delegates \cup {Null}]
      BY <1>1, <1>4 DEF SetsDelegate, WindowTypeOK
  <2>5. Quiet(t, w)
      BY <1>4, <2>1, <2>2, <2>3, <2>4 DEF SetsDelegate, Quiet, e
  <2>6. QED
      BY <2>5, QuietKeeps
<1>5. CASE MakesKey(t, w)
  <2>1. record' = [record EXCEPT ![w] = [e EXCEPT !.key = TRUE]]
        /\ [e EXCEPT !.key = TRUE] \in Records /\ [e EXCEPT !.key = TRUE].size = e.size
        /\ e.size \in Sizes /\ e.delegate \in Delegates \cup {Null}
      BY <1>1, <1>5 DEF MakesKey, e, Records
  <2>2. PICK d \in Delegates \cup {Null} : Copies(t, w, e.size, d)
      BY <1>5, <2>1 DEF MakesKey, e
  <2>3. Sends(t, w) /\ Goes(t, "show") /\ UNCHANGED wish
      BY <1>5 DEF MakesKey
  <2>4. Loud(t, w)
      BY <2>1, <2>2, <2>3 DEF Loud
  <2>5. QED
      BY <2>4, LoudKeeps
<1>6. ASSUME NEW s \in Sizes, SetsFrame(t, w, s) PROVE ScreenInv'
  <2>1. record' = [record EXCEPT ![w] = [e EXCEPT !.size = s]]
        /\ [e EXCEPT !.size = s] \in Records /\ [e EXCEPT !.size = s].size = s
        /\ e.delegate \in Delegates \cup {Null}
      BY <1>1, <1>6 DEF SetsFrame, e, Records
  <2>2. CASE Changed(e, s)
    <3>1. Sends(t, w) /\ Copies(t, w, s, e.delegate) /\ Goes(t, "resize") /\ UNCHANGED wish
        BY <1>6, <2>2 DEF SetsFrame, e
    <3>2. Loud(t, w)
        BY <2>1, <3>1 DEF Loud
    <3>3. QED
        BY <3>2, LoudKeeps
  <2>3. CASE ~Changed(e, s)
    <3>1. Sends(t, w) /\ TellsNobody /\ UNCHANGED <<call, wish>>
        BY <1>6, <2>3 DEF SetsFrame, e
    <3>2. [e EXCEPT !.size = s].size = Entry(w).size
        BY <2>1, <2>3 DEF Changed, e
    <3>3. Quiet(t, w)
        BY <1>1, <2>1, <3>1, <3>2 DEF Quiet, WindowTypeOK, CallRecords
    <3>4. QED
        BY <3>3, QuietKeeps
  <2>4. QED
      BY <2>2, <2>3
<1>7. CASE Closes(t, w)
  <2>1. Sends(t, w) /\ Copies(t, w, 0, Null) /\ Goes(t, "close") /\ UNCHANGED <<record, wish>>
      BY <1>7 DEF Closes
  <2>2. record' = [record EXCEPT ![w] = record[w]] /\ record[w] \in Records \cup {NoRecord}
      BY <1>1, <2>1 DEF WindowTypeOK, Records
  <2>3. Loud(t, w)
      BY <2>1, <2>2, WindowsAssumption DEF Loud
  <2>4. QED
      BY <2>3, LoudKeeps
<1>8. QED
    BY <1>2, <1>3, <1>4, <1>5, <1>6, <1>7 DEF Messages

-----------------------------------------------------------------------------
(* After the unlock *)

\* News of a call that is alone set the screen right; others leave it to be set.
LEMMA InformingKeeps ==
    ASSUME ScreenInv, NEW t \in Threads, Informs(t)
    PROVE  ScreenInv'
<1>0. PICK w \in Windows : w = call[t].window
    BY DEF ScreenInv, WindowTypeOK
<1>1. /\ WindowTypeOK /\ w \in Windows /\ call[t].size \in Sizes
      /\ t \in Telling(w) /\ w \in late /\ w \in exists
    BY <1>0 DEF Informs, ScreenInv, WindowTypeOK, Telling, NewsAreTrue, CallsAreOnObjects
<1>2. UNCHANGED <<exists, record, installed, wish, late, legacy>>
    BY <1>0 DEF Informs
<1>3. /\ pc'[t] \in {"delegate", "idle"} /\ pc' = [pc EXCEPT ![t] = pc'[t]]
      /\ call' \in [Threads -> CallRecords]
      /\ \A u \in Threads \ {t} : pc'[u] = pc[u] /\ call'[u] = call[u]
      /\ pc'[t] = "delegate" => call'[t] = call[t]
    BY <1>0, <1>1, Constants DEF Informs, Goes, WindowTypeOK, CallRecords
<1>4. /\ installed \/ screen' = screen
      /\ \A v \in Windows \ {w} : screen'[v] = screen[v]
      /\ screen'[w] \in {screen[w], call[t].size}
      /\ screen' \in [Windows -> Sizes \cup {Gone}]
    BY <1>0, <1>1 DEF Informs, Tells, Shown, Resized, WindowTypeOK
<1>5. screen'[w] = Gone \/ screen'[w] = call[t].size
    BY <1>0, <1>1 DEF Informs, Tells, Shown, Resized, WindowTypeOK, ScreenInv, NobodyShows
<1>6. unsettled' = IF call[t].alone THEN unsettled \ {w} ELSE unsettled
    BY <1>0 DEF Informs, Settles
<1>7. WindowTypeOK'
    BY <1>0, <1>1, <1>2, <1>3, <1>4, <1>6 DEF WindowTypeOK, CallRecords
<1>8. /\ Telling(w)' = Telling(w) \ {t}
      /\ \A v \in Windows \ {w} : Telling(v)' = Telling(v)
  <2>1. \A v \in Windows : t \notin Telling(v)'
      BY <1>0, <1>3 DEF Telling
  <2>2. \A v \in Windows : \A u \in Threads \ {t} : u \in Telling(v)' <=> u \in Telling(v)
      BY <1>0, <1>3 DEF Telling
  <2>3. \A v \in Windows \ {w} : t \notin Telling(v)
      BY <1>0 DEF Telling
  <2>4. \A v \in Windows : Telling(v) \subseteq Threads /\ Telling(v)' \subseteq Threads
      BY <1>0 DEF Telling
  <2>5. ASSUME NEW v \in Windows PROVE Telling(v)' = Telling(v) \ {t}
    <3>1. \A u \in Telling(v)' : u \in Threads \ {t} /\ u \in Telling(v)
        BY <2>1, <2>2, <2>4
    <3>2. \A u \in Telling(v) \ {t} : u \in Telling(v)'
        BY <2>2, <2>4
    <3>3. QED
        BY <3>1, <3>2
  <2>6. \A v \in Windows \ {w} : Telling(v) \ {t} = Telling(v)
      BY <2>3
  <2>7. QED
      BY <1>0, <2>5, <2>6
<1>9. CallsAreOnObjects' /\ NobodyShows' /\ ClosedLeavesNothing'
    BY <1>0, <1>1, <1>2, <1>3, <1>4 DEF ScreenInv, CallsAreOnObjects, NobodyShows, ClosedLeavesNothing,
                                  WindowTypeOK
<1>10. NewsAreTrue'
  <2> SUFFICES ASSUME NEW v \in Windows, NEW u \in Telling(v)'
               PROVE  /\ v \in late'
                      /\ ~call'[u].alone => v \in unsettled'
                      /\ call'[u].alone =>
                            /\ \A x \in Telling(v)' : x = u
                            /\ pc'[u] \in {"show", "resize"} =>
                                  record'[v] # NoRecord /\ call'[u].size = record'[v].size
                            /\ pc'[u] = "remove" => screen'[v] = Gone
      BY DEF NewsAreTrue
  <2>1. u \in Threads \ {t} /\ u \in Telling(v) /\ Telling(v)' \subseteq Telling(v)
      BY <1>3, <1>8 DEF Telling
  <2>2. CASE v = w
    <3>1. ~call[t].alone /\ ~call[u].alone /\ v \in unsettled
        BY <1>0, <1>1, <2>1, <2>2 DEF ScreenInv, NewsAreTrue
    <3>2. QED
        BY <1>0, <1>1, <1>2, <1>3, <1>6, <2>1, <2>2, <3>1
  <2>3. CASE v # w
      BY <1>2, <1>3, <1>4, <1>6, <2>1, <2>3 DEF ScreenInv, NewsAreTrue
  <2>4. QED
      BY <2>2, <2>3
<1>11. CompositorKnowsSizes'
  <2> SUFFICES ASSUME NEW v \in Windows, v \in exists, v \notin unsettled', Telling(v)' = {},
                      screen'[v] # Gone
               PROVE  record'[v] # NoRecord /\ screen'[v] = record'[v].size
      BY <1>0, <1>1, <1>2 DEF CompositorKnowsSizes, WindowTypeOK
  <2>1. CASE v = w
    <3>1. call[t].alone
        BY <1>0, <1>1, <1>6, <2>1 DEF ScreenInv, NewsAreTrue
    <3>2. record[w] # NoRecord /\ call[t].size = record[w].size
        BY <1>0, <1>1, <3>1 DEF ScreenInv, NewsAreTrue, Informs
    <3>3. QED
        BY <1>2, <1>5, <2>1, <3>2
  <2>2. CASE v # w
      BY <1>0, <1>1, <1>2, <1>4, <1>6, <1>8, <2>2 DEF ScreenInv, CompositorKnowsSizes
  <2>3. QED
      BY <2>1, <2>2
<1>12. QED
    BY <1>7, <1>9, <1>10, <1>11 DEF ScreenInv

\* The delegate is told when the compositor knows; its call has no news any more.
LEMMA DelegateKeeps ==
    ASSUME ScreenInv, NEW t \in Threads, TellsDelegate(t)
    PROVE  ScreenInv'
<1>1. /\ WindowTypeOK /\ pc[t] = "delegate" /\ pc'[t] = "idle"
      /\ \A u \in Threads \ {t} : pc'[u] = pc[u] /\ call'[u] = call[u]
      /\ UNCHANGED <<exists, record, installed, screen, wish, late, legacy, unsettled>>
    BY DEF TellsDelegate, Goes, ScreenInv, WindowTypeOK
<1>2. WindowTypeOK'
    BY <1>1, Constants DEF TellsDelegate, Goes, WindowTypeOK, CallRecords
<1>3. \A w \in Windows : Telling(w)' = Telling(w) /\ t \notin Telling(w)
    BY <1>1 DEF Telling
<1>4. CallsAreOnObjects' /\ NobodyShows' /\ ClosedLeavesNothing'
    BY <1>1 DEF ScreenInv, CallsAreOnObjects, NobodyShows, ClosedLeavesNothing
<1>5. NewsAreTrue' /\ CompositorKnowsSizes'
  <2>1. \A w \in Windows : \A u \in Telling(w) : pc'[u] = pc[u] /\ call'[u] = call[u]
      BY <1>1, <1>3 DEF Telling
  <2>2. QED
      BY <1>1, <1>3, <2>1 DEF ScreenInv, NewsAreTrue, CompositorKnowsSizes, WindowTypeOK
<1>6. QED
    BY <1>2, <1>4, <1>5 DEF ScreenInv

LEMMA ClosingKeeps ==
    ASSUME ScreenInv, NEW t \in Threads, TellsClosed(t)
    PROVE  ScreenInv'
<1>0. PICK w \in Windows : w = call[t].window
    BY DEF ScreenInv, WindowTypeOK
<1>1. /\ WindowTypeOK /\ w \in Windows /\ pc[t] = "close" /\ pc'[t] = "remove"
      /\ \A u \in Threads \ {t} : pc'[u] = pc[u]
      /\ UNCHANGED <<exists, record, installed, call, wish, late, legacy, unsettled>>
      /\ \A v \in Windows \ {w} : screen'[v] = screen[v]
      /\ screen'[w] = Gone /\ (installed \/ screen' = screen)
    BY <1>0 DEF TellsClosed, Goes, Tells, ScreenInv, WindowTypeOK, NobodyShows
<1>2. WindowTypeOK'
    BY <1>0, <1>1 DEF TellsClosed, Goes, Tells, WindowTypeOK
<1>3. \A v \in Windows : Telling(v)' = Telling(v)
    BY <1>0, <1>1 DEF Telling
<1>4. CallsAreOnObjects' /\ NobodyShows' /\ ClosedLeavesNothing'
    BY <1>0, <1>1 DEF ScreenInv, CallsAreOnObjects, NobodyShows, ClosedLeavesNothing
<1>5. NewsAreTrue'
  <2> SUFFICES ASSUME NEW v \in Windows, NEW u \in Telling(v)
               PROVE  /\ v \in late
                      /\ ~call[u].alone => v \in unsettled
                      /\ call[u].alone =>
                            /\ \A x \in Telling(v) : x = u
                            /\ pc'[u] \in {"show", "resize"} =>
                                  record[v] # NoRecord /\ call[u].size = record[v].size
                            /\ pc'[u] = "remove" => screen'[v] = Gone
      BY <1>0, <1>1, <1>3 DEF NewsAreTrue
  <2>1. u \in Threads /\ (u = t => v = w)
      BY <1>0 DEF Telling
  <2>2. pc'[u] \in {"show", "resize"} => pc[u] = pc'[u]
      BY <1>0, <1>1, <2>1
  <2>3. call[u].alone /\ pc'[u] = "remove" => screen'[v] = Gone
      BY <1>0, <1>1, <2>1 DEF ScreenInv, NewsAreTrue
  <2>4. QED
      BY <2>2, <2>3 DEF ScreenInv, NewsAreTrue
<1>6. CompositorKnowsSizes'
    BY <1>0, <1>1, <1>3 DEF ScreenInv, CompositorKnowsSizes, WindowTypeOK
<1>7. QED
    BY <1>2, <1>4, <1>5, <1>6 DEF ScreenInv

LEMMA RemovingKeeps ==
    ASSUME ScreenInv, NEW t \in Threads, Removes(t)
    PROVE  ScreenInv'
<1>0. PICK w \in Windows : w = call[t].window
    BY DEF ScreenInv, WindowTypeOK
<1>1. /\ WindowTypeOK /\ w \in Windows /\ w \in exists /\ t \in Telling(w) /\ pc[t] = "remove"
      /\ pc'[t] = "idle" /\ \A u \in Threads \ {t} : pc'[u] = pc[u]
      /\ UNCHANGED <<exists, installed, screen>>
      /\ record'[w] = NoRecord /\ \A v \in Windows \ {w} : record'[v] = record[v]
      /\ late' = IF call[t].alone THEN late \ {w} ELSE late
      /\ unsettled' = IF call[t].alone THEN unsettled \ {w} ELSE unsettled
    BY <1>0 DEF Removes, Removed, Goes, Settles, ScreenInv, WindowTypeOK, CallsAreOnObjects, Telling
<1>2. ASSUME NEW u \in Threads \ {t}
      PROVE  /\ call'[u] \in CallRecords
             /\ call'[u].window = call[u].window /\ call'[u].size = call[u].size
             /\ call'[u].alone = call[u].alone
    BY <1>0, <1>1 DEF Removes, Switched, WindowTypeOK, CallRecords
<1>3. call' \in [Threads -> CallRecords]
  <2>1. call'[t] \in CallRecords /\ call' = [u \in Threads |-> call'[u]]
      BY Constants DEF Removes, Switched
  <2>2. QED
      BY <1>2, <2>1
<1>4. WindowTypeOK'
    BY <1>0, <1>1, <1>3 DEF Removes, Removed, Goes, Settles, WindowTypeOK, CallRecords
<1>5. /\ Telling(w)' = Telling(w) \ {t}
      /\ \A v \in Windows \ {w} : Telling(v)' = Telling(v)
  <2>1. \A v \in Windows : t \notin Telling(v)'
      BY <1>0, <1>1 DEF Telling
  <2>2. \A v \in Windows : \A u \in Threads \ {t} : u \in Telling(v)' <=> u \in Telling(v)
      BY <1>0, <1>1, <1>2 DEF Telling
  <2>3. \A v \in Windows \ {w} : t \notin Telling(v)
      BY <1>0 DEF Telling
  <2>4. \A v \in Windows : Telling(v) \subseteq Threads /\ Telling(v)' \subseteq Threads
      BY <1>0 DEF Telling
  <2>5. ASSUME NEW v \in Windows PROVE Telling(v)' = Telling(v) \ {t}
    <3>1. \A u \in Telling(v)' : u \in Threads \ {t} /\ u \in Telling(v)
        BY <2>1, <2>2, <2>4
    <3>2. \A u \in Telling(v) \ {t} : u \in Telling(v)'
        BY <2>2, <2>4
    <3>3. QED
        BY <3>1, <3>2
  <2>6. \A v \in Windows \ {w} : Telling(v) \ {t} = Telling(v)
      BY <2>3
  <2>7. QED
      BY <1>0, <2>5, <2>6
<1>6. /\ w \in late /\ (~call[t].alone => w \in unsettled)
      /\ call[t].alone => (\A u \in Telling(w) : u = t) /\ screen[w] = Gone
    BY <1>0, <1>1 DEF ScreenInv, NewsAreTrue
<1>7. CallsAreOnObjects' /\ NobodyShows'
    BY <1>0, <1>1, <1>2 DEF ScreenInv, CallsAreOnObjects, NobodyShows
<1>8. ClosedLeavesNothing'
    BY <1>0, <1>1, <1>6 DEF ScreenInv, ClosedLeavesNothing
<1>9. NewsAreTrue'
  <2> SUFFICES ASSUME NEW v \in Windows, NEW u \in Telling(v)'
               PROVE  /\ v \in late'
                      /\ ~call'[u].alone => v \in unsettled'
                      /\ call'[u].alone =>
                            /\ \A x \in Telling(v)' : x = u
                            /\ pc'[u] \in {"show", "resize"} =>
                                  record'[v] # NoRecord /\ call'[u].size = record'[v].size
                            /\ pc'[u] = "remove" => screen'[v] = Gone
      BY DEF NewsAreTrue
  <2>1. u \in Threads \ {t} /\ u \in Telling(v) /\ Telling(v)' \subseteq Telling(v)
      BY <1>0, <1>1, <1>5 DEF Telling
  <2>2. CASE v = w
    <3>1. ~call[t].alone /\ ~call[u].alone /\ v \in unsettled
        BY <1>0, <1>1, <1>6, <2>1, <2>2 DEF ScreenInv, NewsAreTrue
    <3>2. QED
        BY <1>0, <1>1, <1>2, <1>6, <2>1, <2>2, <3>1
  <2>3. CASE v # w
      BY <1>0, <1>1, <1>2, <2>1, <2>3 DEF ScreenInv, NewsAreTrue
  <2>4. QED
      BY <2>2, <2>3
<1>10. CompositorKnowsSizes'
    BY <1>0, <1>1, <1>5, <1>6 DEF ScreenInv, CompositorKnowsSizes, WindowTypeOK
<1>11. QED
    BY <1>4, <1>7, <1>8, <1>9, <1>10 DEF ScreenInv

-----------------------------------------------------------------------------
(* Objects *)

LEMMA BirthKeeps ==
    ASSUME ScreenInv, NEW w \in Windows, NEW s \in Sizes, Births(w, s)
    PROVE  ScreenInv'
<1> DEFINE r == [Entry(w) EXCEPT !.size = s]
<1>1. WindowTypeOK /\ r \in Records /\ record' = [record EXCEPT ![w] = r]
    BY EntryIsTyped DEF ScreenInv, Births, Records
<1> HIDE DEF r
<1>2. /\ w \notin exists /\ exists' = exists \cup {w} /\ late' = late \cup {w}
      /\ unsettled' = IF screen[w] # Gone THEN unsettled \cup {w} ELSE unsettled \ {w}
      /\ UNCHANGED <<installed, screen, pc, call>>
    BY DEF Births
<1>3. WindowTypeOK'
  <2>1. record' \in [Windows -> Records \cup {NoRecord}]
      BY <1>1 DEF WindowTypeOK, Records
  <2>2. wish' \in [Windows -> Delegates \cup {Null}]
      BY <1>1 DEF Births, WindowTypeOK
  <2>3. legacy' \subseteq Windows /\ unsettled' \subseteq Windows /\ late' \subseteq Windows
      BY <1>1, <1>2 DEF Births, WindowTypeOK
  <2>4. QED
      BY <1>1, <1>2, <2>1, <2>2, <2>3 DEF WindowTypeOK, Records
<1>4. \A v \in Windows : Telling(v)' = Telling(v)
    BY <1>2 DEF Telling
<1>5. Telling(w) = {}
    BY <1>2 DEF ScreenInv, CallsAreOnObjects, Telling
<1>6. CallsAreOnObjects' /\ NobodyShows' /\ ClosedLeavesNothing'
    BY <1>1, <1>2 DEF ScreenInv, CallsAreOnObjects, NobodyShows, ClosedLeavesNothing, WindowTypeOK
<1>7. \A v \in Windows \ {w} : /\ record'[v] = record[v]
                              /\ (v \in unsettled' <=> v \in unsettled)
    BY <1>1, <1>2 DEF WindowTypeOK
<1>8. NewsAreTrue'
    BY <1>2, <1>4, <1>5, <1>7 DEF ScreenInv, NewsAreTrue
<1>9. CompositorKnowsSizes'
  <2> SUFFICES ASSUME NEW v \in Windows, v \in exists', v \notin unsettled', Telling(v) = {},
                      screen[v] # Gone
               PROVE  record'[v] # NoRecord /\ screen[v] = record'[v].size
      BY <1>2, <1>3, <1>4 DEF CompositorKnowsSizes, WindowTypeOK
  <2>1. v # w
      BY <1>2 DEF ScreenInv, WindowTypeOK
  <2>2. QED
      BY <1>2, <1>7, <2>1 DEF ScreenInv, CompositorKnowsSizes
<1>10. QED
    BY <1>3, <1>6, <1>8, <1>9 DEF ScreenInv

LEMMA FreeingKeeps ==
    ASSUME ScreenInv, NEW w \in Windows, Frees(w)
    PROVE  ScreenInv'
<1>1. /\ WindowTypeOK /\ exists' = exists \ {w}
      /\ UNCHANGED <<record, installed, screen, pc, call, wish, late, legacy, unsettled>>
      /\ \A t \in Threads : pc[t] # "idle" => call[t].window # w
    BY DEF Frees, ScreenInv, InCall
<1>2. \A v \in Windows : Telling(v)' = Telling(v)
    BY <1>1 DEF Telling
<1>3. QED
    BY <1>1, <1>2 DEF ScreenInv, WindowTypeOK, CallsAreOnObjects, NewsAreTrue, NobodyShows,
                      ClosedLeavesNothing, CompositorKnowsSizes

LEMMA StayingKeepsWindows ==
    ASSUME ScreenInv, installed' \in BOOLEAN, installed => installed',
           UNCHANGED <<exists, record, screen, pc, call, wish, late, legacy, unsettled>>
    PROVE  ScreenInv'
<1>1. \A v \in Windows : Telling(v)' = Telling(v)
    BY DEF Telling
<1>2. QED
    BY <1>1 DEF ScreenInv, WindowTypeOK, CallsAreOnObjects, NewsAreTrue, NobodyShows,
                ClosedLeavesNothing, CompositorKnowsSizes

LEMMA StepKeepsScreen == ScreenInv /\ [WindowNext]_windowVars => ScreenInv'
<1> SUFFICES ASSUME ScreenInv, [WindowNext]_windowVars PROVE ScreenInv'
    OBVIOUS
<1>1. CASE \E t \in Threads : \/ \E w \in Windows : Messages(t, w)
                             \/ Informs(t) \/ TellsDelegate(t)
                             \/ TellsClosed(t) \/ Removes(t)
    BY <1>1, MessagesKeep, InformingKeeps, DelegateKeeps, ClosingKeeps, RemovingKeeps
<1>2. CASE \E w \in Windows : Frees(w) \/ \E s \in Sizes : Births(w, s)
    BY <1>2, FreeingKeeps, BirthKeeps
<1>3. CASE InstallsCompositor
    BY <1>3, StayingKeepsWindows DEF InstallsCompositor
<1>4. CASE UNCHANGED windowVars
    BY <1>4, StayingKeepsWindows DEF windowVars, ScreenInv, WindowTypeOK
<1>5. QED
    BY <1>1, <1>2, <1>3, <1>4 DEF WindowNext

\* The strengthening that the theorems about windows rest on.
THEOREM ScreenInvariant == WindowSpec => []ScreenInv
BY InitWindows, StepKeepsScreen, PTL DEF WindowSpec

\* The compositor shows a window with the size of its record while no call has news
\* of it, for any number of threads and windows; except, until the next news that are
\* told uncrossed, a window whose news have crossed, and one made at an address that
\* the compositor still showed.
THEOREM CompositorIsRight == WindowSpec => []CompositorKnowsSizes
<1>1. ScreenInv => CompositorKnowsSizes
    BY DEF ScreenInv
<1>2. QED
    BY <1>1, ScreenInvariant, PTL

\* A window that was closed last is forgotten by map and compositor.
THEOREM ClosedIsForgotten == WindowSpec => []ClosedLeavesNothing
<1>1. ScreenInv => ClosedLeavesNothing
    BY DEF ScreenInv
<1>2. QED
    BY <1>1, ScreenInvariant, PTL

-----------------------------------------------------------------------------
(* Delegates *)

\* The record names the delegate that was set, unless it is a predecessor's; and so
\* do the copies a call may still tell, if nothing changed since.
DelegatesAreSet == \A w \in Windows \ legacy : Entry(w).delegate = wish[w]

CopiesAreSet ==
    \A t \in Threads :
        \/ pc[t] = "delegate"
        \/ pc[t] \in {"show", "resize"} /\ call[t].delegate # Null
        => \/ call[t].delegate = wish[call[t].window]
           \/ call[t].switched
           \/ call[t].window \in legacy

DelegateInv == ScreenInv /\ DelegatesAreSet /\ CopiesAreSet

\* A message that leaves the delegate alone, and copies it if it copies anything.
Keeping(t, w) ==
    /\ Sends(t, w) /\ UNCHANGED wish
    /\ \E r \in Records \cup {NoRecord} :
          /\ record' = [record EXCEPT ![w] = r]
          /\ Entry(w)'.delegate = Entry(w).delegate
    /\ \A u \in Threads : u # t =>
          /\ pc'[u] = pc[u] /\ call'[u].window = call[u].window
          /\ call'[u].delegate = call[u].delegate /\ call'[u].switched = call[u].switched
    /\ \/ pc'[t] \in {"idle", "close"}
       \/ call'[t].window = w /\ pc'[t] # "delegate" /\ call'[t].delegate \in {Null, Entry(w).delegate}

LEMMA KeepingKeeps ==
    ASSUME DelegateInv, NEW t \in Threads, NEW w \in Windows, Keeping(t, w)
    PROVE  DelegatesAreSet' /\ CopiesAreSet'
<1>1. WindowTypeOK /\ legacy' = legacy /\ wish' = wish
    BY DEF DelegateInv, ScreenInv, Keeping, Sends
<1>2. DelegatesAreSet'
  <2> SUFFICES ASSUME NEW v \in Windows \ legacy PROVE Entry(v)'.delegate = wish[v]
      BY <1>1 DEF DelegatesAreSet
  <2>1. CASE v = w
      BY <2>1 DEF Keeping, DelegateInv, DelegatesAreSet
  <2>2. CASE v # w
    <3>1. record'[v] = record[v]
        BY <1>1, <2>2 DEF Keeping, WindowTypeOK
    <3>2. QED
        BY <3>1 DEF Entry, DelegateInv, DelegatesAreSet
  <2>3. QED
      BY <2>1, <2>2
<1>3. CopiesAreSet'
  <2> SUFFICES ASSUME NEW u \in Threads,
                      \/ pc'[u] = "delegate"
                      \/ pc'[u] \in {"show", "resize"} /\ call'[u].delegate # Null
               PROVE  \/ call'[u].delegate = wish[call'[u].window]
                      \/ call'[u].switched
                      \/ call'[u].window \in legacy
      BY <1>1 DEF CopiesAreSet
  <2>1. CASE u = t
      BY <2>1 DEF Keeping, DelegateInv, DelegatesAreSet
  <2>2. CASE u # t
      BY <2>2 DEF Keeping, DelegateInv, CopiesAreSet
  <2>3. QED
      BY <2>1, <2>2
<1>4. QED
    BY <1>2, <1>3

LEMMA EntryAfter ==
    ASSUME WindowTypeOK, NEW w \in Windows, NEW r \in Records,
           record' = [record EXCEPT ![w] = r]
    PROVE  Entry(w)' = r
BY Constants DEF Entry, WindowTypeOK

LEMMA CopiesAre ==
    ASSUME WindowTypeOK, NEW t \in Threads, NEW w \in Windows, NEW size, NEW d,
           Copies(t, w, size, d)
    PROVE  /\ call'[t].window = w /\ call'[t].delegate = d
           /\ \A u \in Threads : u # t =>
                 /\ call'[u].window = call[u].window
                 /\ call'[u].delegate = call[u].delegate
                 /\ call'[u].switched = call[u].switched
<1>1. /\ call'[t] = [NoCall EXCEPT !.window = w, !.size = size, !.delegate = d,
                                   !.alone = Telling(w) = {}]
      /\ \A u \in Threads : u # t => call'[u] = Disturbed(w)[u]
    BY DisturbedCalls DEF Copies
<1>2. QED
    BY <1>1, DisturbedCalls DEF NoCall

LEMMA SettingKeeps ==
    ASSUME DelegateInv, NEW t \in Threads, NEW w \in Windows, NEW d \in Delegates \cup {Null},
           SetsDelegate(t, w, d)
    PROVE  DelegatesAreSet' /\ CopiesAreSet'
<1> DEFINE r == [Entry(w) EXCEPT !.delegate = d]
<1>1. /\ WindowTypeOK /\ r \in Records /\ r.delegate = d /\ record' = [record EXCEPT ![w] = r]
      /\ wish' = [wish EXCEPT ![w] = d] /\ UNCHANGED <<pc, legacy>>
    BY EntryIsTyped DEF DelegateInv, ScreenInv, SetsDelegate, Sends, TellsNobody, NewDelegate,
                        Records
<1>2. ASSUME NEW u \in Threads
      PROVE  /\ call'[u].window = call[u].window /\ call'[u].delegate = call[u].delegate
             /\ call'[u].switched = (call[u].switched \/ u \in InCall(w))
  <2>1. call[u] \in CallRecords
      BY <1>1 DEF WindowTypeOK, CallRecords
  <2>2. call'[u] = Switched(w)[u]
      BY DEF SetsDelegate
  <2>3. CASE u \in InCall(w)
      BY <2>1, <2>2, <2>3 DEF Switched, CallRecords
  <2>4. CASE u \notin InCall(w)
      BY <2>1, <2>2, <2>4 DEF Switched, CallRecords
  <2>5. QED
      BY <2>3, <2>4
<1> HIDE DEF r
<1>3. DelegatesAreSet'
  <2> SUFFICES ASSUME NEW v \in Windows \ legacy PROVE Entry(v)'.delegate = wish'[v]
      BY <1>1 DEF DelegatesAreSet
  <2>1. CASE v = w
      BY <1>1, <2>1, EntryAfter DEF WindowTypeOK
  <2>2. CASE v # w
    <3>1. record'[v] = record[v] /\ wish'[v] = wish[v]
        BY <1>1, <2>2 DEF WindowTypeOK
    <3>2. QED
        BY <3>1 DEF Entry, DelegateInv, DelegatesAreSet
  <2>3. QED
      BY <2>1, <2>2
<1>4. CopiesAreSet'
  <2> SUFFICES ASSUME NEW u \in Threads,
                      \/ pc[u] = "delegate"
                      \/ pc[u] \in {"show", "resize"} /\ call[u].delegate # Null
               PROVE  \/ call'[u].delegate = wish'[call'[u].window]
                      \/ call'[u].switched
                      \/ call'[u].window \in legacy
      BY <1>1, <1>2 DEF CopiesAreSet
  <2>1. CASE call[u].window = w
    <3>1. u \in InCall(w)
        BY <2>1 DEF InCall
    <3>2. call'[u].switched
        BY <1>2, <3>1
    <3>3. QED
        BY <3>2
  <2>2. CASE call[u].window # w
    <3>1. wish'[call[u].window] = wish[call[u].window]
        BY <1>1, <2>2 DEF WindowTypeOK
    <3>2. QED
        BY <1>2, <3>1 DEF DelegateInv, CopiesAreSet
  <2>3. QED
      BY <2>1, <2>2
<1>5. QED
    BY <1>3, <1>4

LEMMA MessagesKeepDelegates ==
    ASSUME DelegateInv, NEW t \in Threads, NEW w \in Windows, Messages(t, w)
    PROVE  DelegatesAreSet' /\ CopiesAreSet'
<1> DEFINE e == Entry(w)
<1>1. WindowTypeOK /\ e \in Records
    BY EntryIsTyped DEF DelegateInv, ScreenInv
<1> HIDE DEF e
<1>2. ASSUME Sends(t, w), NEW r \in Records, record' = [record EXCEPT ![w] = r],
             r.delegate = e.delegate, TellsNobody, UNCHANGED <<call, wish>>
      PROVE  Keeping(t, w)
  <2>1. Entry(w)' = r /\ pc[t] = "idle"
      BY <1>1, <1>2, EntryAfter DEF Sends
  <2>2. QED
      BY <1>1, <1>2, <2>1 DEF Keeping, TellsNobody, e
<1>3. ASSUME Sends(t, w), NEW r \in Records, record' = [record EXCEPT ![w] = r],
             r.delegate = e.delegate, NEW size, NEW d \in {Null, e.delegate},
             Copies(t, w, size, d), NEW to \in {"show", "resize"}, Goes(t, to), wish' = wish
      PROVE  Keeping(t, w)
  <2>1. Entry(w)' = r /\ pc'[t] = to /\ \A u \in Threads : u # t => pc'[u] = pc[u]
      BY <1>1, <1>3, EntryAfter DEF Goes, WindowTypeOK
  <2>2. /\ call'[t].window = w /\ call'[t].delegate = d
        /\ \A u \in Threads : u # t =>
              /\ call'[u].window = call[u].window /\ call'[u].delegate = call[u].delegate
              /\ call'[u].switched = call[u].switched
      BY <1>1, <1>3, CopiesAre
  <2>3. QED
      BY <1>1, <1>3, <2>1, <2>2 DEF Keeping, e
<1>4. CASE Touches(t, w)
    BY <1>1, <1>2, <1>4, KeepingKeeps DEF Touches, e
<1>5. CASE OrdersOut(t, w)
  <2>1. [e EXCEPT !.key = FALSE] \in Records /\ [e EXCEPT !.key = FALSE].delegate = e.delegate
      BY <1>1 DEF Records
  <2>2. QED
      BY <1>2, <1>5, <2>1, KeepingKeeps DEF OrdersOut, e
<1>6. ASSUME NEW d \in Delegates \cup {Null}, SetsDelegate(t, w, d)
      PROVE  DelegatesAreSet' /\ CopiesAreSet'
    BY <1>6, SettingKeeps
<1>7. CASE MakesKey(t, w)
  <2>1. [e EXCEPT !.key = TRUE] \in Records /\ [e EXCEPT !.key = TRUE].delegate = e.delegate
      BY <1>1 DEF Records
  <2>2. PICK d \in {Null, e.delegate} : Copies(t, w, e.size, d)
      BY <1>7 DEF MakesKey, e
  <2>3. Keeping(t, w)
      BY <1>3, <1>7, <2>1, <2>2 DEF MakesKey, e
  <2>4. QED
      BY <2>3, KeepingKeeps
<1>8. ASSUME NEW s \in Sizes, SetsFrame(t, w, s) PROVE DelegatesAreSet' /\ CopiesAreSet'
  <2>1. [e EXCEPT !.size = s] \in Records /\ [e EXCEPT !.size = s].delegate = e.delegate
      BY <1>1 DEF Records
  <2>2. CASE Changed(e, s)
    <3>1. Copies(t, w, s, e.delegate)
        BY <1>8, <2>2 DEF SetsFrame, e
    <3>2. Keeping(t, w)
        BY <1>3, <1>8, <2>1, <2>2, <3>1 DEF SetsFrame, e
    <3>3. QED
        BY <3>2, KeepingKeeps
  <2>3. CASE ~Changed(e, s)
    <3>1. Keeping(t, w)
        BY <1>2, <1>8, <2>1, <2>3 DEF SetsFrame, e
    <3>2. QED
        BY <3>1, KeepingKeeps
  <2>4. QED
      BY <2>2, <2>3
<1>9. CASE Closes(t, w)
  <2>1. record' = [record EXCEPT ![w] = record[w]] /\ record[w] \in Records \cup {NoRecord}
        /\ Entry(w)' = Entry(w)
      BY <1>1, <1>9 DEF Closes, WindowTypeOK, Records, Entry
  <2>2. pc'[t] = "close" /\ \A u \in Threads : u # t => pc'[u] = pc[u]
      BY <1>1, <1>9 DEF Closes, Goes, WindowTypeOK
  <2>3. Sends(t, w) /\ Copies(t, w, 0, Null) /\ wish' = wish
      BY <1>9 DEF Closes
  <2>4. \A u \in Threads : u # t =>
           /\ call'[u].window = call[u].window /\ call'[u].delegate = call[u].delegate
           /\ call'[u].switched = call[u].switched
      BY <1>1, <2>3, CopiesAre
  <2>5. Keeping(t, w)
      BY <2>1, <2>2, <2>3, <2>4 DEF Keeping
  <2>6. QED
      BY <2>5, KeepingKeeps
<1>10. QED
    BY <1>4, <1>5, <1>6, <1>7, <1>8, <1>9 DEF Messages

\* A call that goes on with its copies, to the delegate if they name one, or ends.
Passes(u) == \/ pc'[u] \in {"idle", "remove"}
             \/ call'[u] = call[u] /\ pc'[u] = pc[u]
             \/ /\ call'[u] = call[u] /\ pc'[u] = "delegate"
                /\ pc[u] \in {"show", "resize"} /\ call[u].delegate # Null

\* A step after the unlock, and the steps of nobody, leave records and wishes alone.
LEMMA PassingKeepsDelegates ==
    ASSUME DelegateInv, UNCHANGED <<record, wish, legacy>>,
           \A u \in Threads : Passes(u)
    PROVE  DelegatesAreSet' /\ CopiesAreSet'
<1>1. DelegatesAreSet'
    BY DEF DelegateInv, DelegatesAreSet, Entry
<1>2. CopiesAreSet'
  <2> SUFFICES ASSUME NEW u \in Threads,
                      \/ pc'[u] = "delegate"
                      \/ pc'[u] \in {"show", "resize"} /\ call'[u].delegate # Null
               PROVE  \/ call'[u].delegate = wish[call'[u].window]
                      \/ call'[u].switched
                      \/ call'[u].window \in legacy
      BY DEF CopiesAreSet
  <2>1. QED
      BY DEF Passes, DelegateInv, CopiesAreSet
<1>3. QED
    BY <1>1, <1>2

LEMMA RemovingKeepsDelegates ==
    ASSUME DelegateInv, NEW t \in Threads, Removes(t)
    PROVE  DelegatesAreSet' /\ CopiesAreSet'
<1>0. PICK w \in Windows : w = call[t].window
    BY DEF DelegateInv, ScreenInv, WindowTypeOK
<1>1. /\ WindowTypeOK /\ record'[w] = NoRecord /\ wish'[w] = Null /\ pc'[t] = "idle"
      /\ \A v \in Windows \ {w} : record'[v] = record[v] /\ wish'[v] = wish[v]
                                  /\ (v \in legacy' <=> v \in legacy)
      /\ \A u \in Threads \ {t} : pc'[u] = pc[u]
    BY <1>0 DEF Removes, Removed, Goes, DelegateInv, ScreenInv, WindowTypeOK
<1>2. ASSUME NEW u \in Threads \ {t}
      PROVE  /\ call'[u].window = call[u].window /\ call'[u].delegate = call[u].delegate
             /\ call'[u].switched = (call[u].switched \/ u \in InCall(w))
  <2>1. call[u] \in CallRecords /\ call'[u] = Switched(w)[u]
      BY <1>0, <1>1 DEF Removes, Switched, WindowTypeOK, CallRecords
  <2>2. CASE u \in InCall(w)
      BY <2>1, <2>2 DEF Switched, CallRecords
  <2>3. CASE u \notin InCall(w)
      BY <2>1, <2>3 DEF Switched, CallRecords
  <2>4. QED
      BY <2>2, <2>3
<1>3. DelegatesAreSet'
    BY <1>1 DEF DelegateInv, DelegatesAreSet, Entry, Default
<1>4. CopiesAreSet'
  <2> SUFFICES ASSUME NEW u \in Threads,
                      \/ pc'[u] = "delegate"
                      \/ pc'[u] \in {"show", "resize"} /\ call'[u].delegate # Null
               PROVE  \/ call'[u].delegate = wish'[call'[u].window]
                      \/ call'[u].switched
                      \/ call'[u].window \in legacy'
      BY DEF CopiesAreSet
  <2>1. u # t /\ call[u].window \in Windows
      BY <1>1 DEF WindowTypeOK
  <2>2. CASE call[u].window = w
      BY <1>1, <1>2, <2>1, <2>2 DEF InCall
  <2>3. CASE call[u].window # w
    <3>1. /\ pc'[u] = pc[u] /\ call'[u].window = call[u].window
          /\ call'[u].delegate = call[u].delegate /\ (call[u].switched => call'[u].switched)
        BY <1>1, <1>2, <2>1
    <3>2. /\ wish'[call[u].window] = wish[call[u].window]
          /\ (call[u].window \in legacy => call[u].window \in legacy')
        BY <1>1, <2>1, <2>3
    <3>3. QED
        BY <3>1, <3>2 DEF DelegateInv, CopiesAreSet
  <2>4. QED
      BY <2>2, <2>3
<1>5. QED
    BY <1>3, <1>4

\* A window at the address of one that was not closed last gets its delegate.
LEMMA BirthKeepsDelegates ==
    ASSUME DelegateInv, NEW w \in Windows, NEW s \in Sizes, Births(w, s)
    PROVE  DelegatesAreSet' /\ CopiesAreSet'
<1> DEFINE r == [Entry(w) EXCEPT !.size = s]
<1>1. /\ WindowTypeOK /\ r \in Records /\ r.delegate = Entry(w).delegate
      /\ record' = [record EXCEPT ![w] = r]
    BY EntryIsTyped DEF DelegateInv, ScreenInv, Births, Records
<1> HIDE DEF r
<1>2. /\ w \notin exists /\ wish'[w] = Null /\ UNCHANGED <<pc, call>>
      /\ \A v \in Windows \ {w} : record'[v] = record[v] /\ wish'[v] = wish[v]
                                  /\ (v \in legacy' <=> v \in legacy)
      /\ (w \in late => w \in legacy')
    BY <1>1 DEF Births, WindowTypeOK
<1>3. Entry(w)' = r
    BY <1>1, EntryAfter
<1>4. w \notin late => r.delegate = Null
    BY <1>1 DEF DelegateInv, ScreenInv, ClosedLeavesNothing, Entry, Default
<1>5. DelegatesAreSet'
  <2> SUFFICES ASSUME NEW v \in Windows \ legacy' PROVE Entry(v)'.delegate = wish'[v]
      BY DEF DelegatesAreSet
  <2>1. CASE v = w
      BY <1>2, <1>3, <1>4, <2>1
  <2>2. CASE v # w
      BY <1>2, <2>2 DEF Entry, DelegateInv, DelegatesAreSet
  <2>3. QED
      BY <2>1, <2>2
<1>6. CopiesAreSet'
  <2>1. \A t \in Threads : pc[t] # "idle" => call[t].window \in Windows \ {w}
      BY <1>1, <1>2 DEF DelegateInv, ScreenInv, CallsAreOnObjects, WindowTypeOK
  <2>2. QED
      BY <1>2, <2>1 DEF DelegateInv, CopiesAreSet
<1>7. QED
    BY <1>5, <1>6

LEMMA StepKeepsDelegates == DelegateInv /\ [WindowNext]_windowVars => DelegateInv'
<1> SUFFICES ASSUME DelegateInv, [WindowNext]_windowVars PROVE DelegatesAreSet' /\ CopiesAreSet'
    BY StepKeepsScreen DEF DelegateInv
<1>0. WindowTypeOK
    BY DEF DelegateInv, ScreenInv
<1>1. ASSUME NEW t \in Threads, NEW w \in Windows, Messages(t, w)
      PROVE  DelegatesAreSet' /\ CopiesAreSet'
    BY <1>1, MessagesKeepDelegates
<1>2. ASSUME NEW t \in Threads, Informs(t) PROVE DelegatesAreSet' /\ CopiesAreSet'
  <2>1. /\ UNCHANGED <<record, wish, legacy>> /\ pc[t] \in {"show", "resize"}
        /\ \A u \in Threads : u # t => pc'[u] = pc[u] /\ call'[u] = call[u]
        /\ \/ pc'[t] = "idle"
           \/ pc'[t] = "delegate" /\ call[t].delegate # Null /\ call'[t] = call[t]
      BY <1>0, <1>2 DEF Informs, Goes, WindowTypeOK
  <2>2. \A u \in Threads : Passes(u)
      BY <2>1 DEF Passes
  <2>3. QED
      BY <2>1, <2>2, PassingKeepsDelegates
<1>3. ASSUME NEW t \in Threads, TellsDelegate(t) \/ TellsClosed(t)
      PROVE  DelegatesAreSet' /\ CopiesAreSet'
  <2>1. /\ UNCHANGED <<record, wish, legacy>> /\ pc'[t] \in {"idle", "remove"}
        /\ \A u \in Threads : u # t => pc'[u] = pc[u] /\ call'[u] = call[u]
      BY <1>0, <1>3 DEF TellsDelegate, TellsClosed, Goes, WindowTypeOK
  <2>2. \A u \in Threads : Passes(u)
      BY <2>1 DEF Passes
  <2>3. QED
      BY <2>1, <2>2, PassingKeepsDelegates
<1>4. ASSUME NEW t \in Threads, Removes(t) PROVE DelegatesAreSet' /\ CopiesAreSet'
    BY <1>4, RemovingKeepsDelegates
<1>5. ASSUME NEW w \in Windows, NEW s \in Sizes, Births(w, s)
      PROVE  DelegatesAreSet' /\ CopiesAreSet'
    BY <1>5, BirthKeepsDelegates
<1>6. CASE (\E w \in Windows : Frees(w)) \/ InstallsCompositor \/ UNCHANGED windowVars
  <2>1. UNCHANGED <<record, pc, call, wish, legacy>>
      BY <1>6 DEF Frees, InstallsCompositor, windowVars
  <2>2. \A u \in Threads : Passes(u)
      BY <2>1 DEF Passes
  <2>3. QED
      BY <2>1, <2>2, PassingKeepsDelegates
<1>7. QED
    BY <1>1, <1>2, <1>3, <1>4, <1>5, <1>6 DEF WindowNext

LEMMA InitDelegates == WindowInit => DelegateInv
<1> SUFFICES ASSUME WindowInit PROVE DelegatesAreSet /\ CopiesAreSet
    BY InitWindows DEF DelegateInv
<1>1. QED
    BY DEF WindowInit, DelegatesAreSet, CopiesAreSet, Entry, Default

\* Nobody is told of a window but the delegate that was set for it, however calls
\* cross and addresses are used again.
THEOREM DelegatesAreTrue == WindowSpec => []DelegateIsTheOneSet
<1>1. DelegateInv => DelegateIsTheOneSet
    BY DEF DelegateInv, CopiesAreSet, DelegateIsTheOneSet
<1>2. QED
    BY <1>1, InitDelegates, StepKeepsDelegates, PTL DEF WindowSpec
=============================================================================
