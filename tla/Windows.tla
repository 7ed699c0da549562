------------------------------ MODULE Windows ------------------------------
(***************************************************************************)
(* The records of windows that the AppKit shim keeps, and whom it tells    *)
(* about them: the methods of NSWindow and NSView in                       *)
(* src/src/bridge/swizzle.rs over the map of WindowState in                *)
(* src/src/frameworks/appkit.rs.                                           *)
(*                                                                         *)
(* Every method takes the map's mutex once, for one step; what it tells    *)
(* the compositor and the delegate it tells after the unlock, from what it *)
(* has copied.  Threads stand for the application's threads and also for   *)
(* calls made from inside a callback, which run while the outer call is    *)
(* at the step of that callback.  A record is found by the address of the  *)
(* object; the Objective-C runtime may use an address again.               *)
(*                                                                         *)
(* Compositor, delegates and the life of objects are external.             *)
(***************************************************************************)
EXTENDS Integers, FiniteSets

CONSTANTS Threads, Windows,  \* windows are addresses of objects
          Sizes,             \* sizes of a frame; 0 is the default
          Delegates, Null,
          Gone               \* the compositor does not have the window

ASSUME WindowsAssumption == /\ Windows # {} /\ 0 \in Sizes /\ Gone \notin Sizes
                            /\ Null \notin Delegates /\ Gone \notin Delegates \cup {Null}

VARIABLES
    exists,     \* objects that are initialised and not freed
    record,     \* the map; a default record is not the same as none
    installed,  \* COMPOSITOR is set
    screen,     \* the size the compositor shows a window with
    pc,         \* what the call of a thread has still to tell
    call,       \* its copies
    wish,       \* history: the delegate the application has set
    late,       \* history: objects whose last call was not their close
    legacy,     \* history: windows made at an address that was late
    unsettled   \* history: windows that may be shown with an old size

windowVars == <<exists, record, installed, screen, pc, call, wish, late, legacy, unsettled>>

Default == [size |-> 0, key |-> FALSE, delegate |-> Null]
NoRecord == [size |-> 0, key |-> FALSE, delegate |-> Gone]

\* alone: no other call had news of the window while those of this were under way;
\* switched: the delegate was set, or the record removed, since it was copied.
NoCall == [window |-> CHOOSE w \in Windows : TRUE, size |-> 0,
           delegate |-> Null, alone |-> TRUE, switched |-> FALSE]

WindowInit ==
    /\ exists = {}
    /\ record = [w \in Windows |-> NoRecord]
    /\ installed = FALSE
    /\ screen = [w \in Windows |-> Gone]
    /\ pc = [t \in Threads |-> "idle"]
    /\ call = [t \in Threads |-> NoCall]
    /\ wish = [w \in Windows |-> Null]
    /\ late = {} /\ legacy = {} /\ unsettled = {}

-----------------------------------------------------------------------------
\* map.entry(key).or_default()
Entry(w) == IF record[w] = NoRecord THEN Default ELSE record[w]

\* Threads whose call to w has something to tell the compositor, or to remove.
Telling(w) == {t \in Threads : call[t].window = w /\ pc[t] \in {"show", "resize", "close", "remove"}}
InCall(w) == {t \in Threads : call[t].window = w /\ pc[t] # "idle"}

\* Thread t sends w a message: its close was not its last, if it has had one.
Sends(t, w) ==
    /\ w \in exists
    /\ pc[t] = "idle"
    /\ late' = late \cup {w}
    /\ UNCHANGED <<exists, installed, screen, legacy>>

\* A message that ends at the unlock, with nothing to tell the compositor.
TellsNobody == UNCHANGED <<pc, unsettled>>

\* The calls of other threads when news of w cross theirs, or its delegate changes.
Disturbed(w) == [u \in Threads |-> IF u \in Telling(w) THEN [call[u] EXCEPT !.alone = FALSE]
                                   ELSE call[u]]
Switched(w) == [u \in Threads |-> IF u \in InCall(w) THEN [call[u] EXCEPT !.switched = TRUE]
                                  ELSE call[u]]

Goes(t, to) == pc' = [pc EXCEPT ![t] = to]

\* The call of t goes on after the unlock with these copies, and crosses the calls
\* that have something to tell of the same window.
Copies(t, w, size, delegate) ==
    /\ unsettled' = IF Telling(w) = {} THEN unsettled ELSE unsettled \cup {w}
    /\ call' = [Disturbed(w) EXCEPT ![t] =
                   [NoCall EXCEPT !.window = w, !.size = size, !.delegate = delegate,
                                  !.alone = Telling(w) = {}]]

-----------------------------------------------------------------------------
(* Methods                                                                 *)

\* alloc and initWithContentRect: only the frame is set in the record.
Births(w, s) ==
    /\ w \notin exists
    /\ exists' = exists \cup {w}
    /\ record' = [record EXCEPT ![w] = [Entry(w) EXCEPT !.size = s]]
    /\ wish' = [wish EXCEPT ![w] = Null]
    /\ legacy' = IF w \in late THEN legacy \cup {w} ELSE legacy \ {w}
    /\ unsettled' = IF screen[w] # Gone THEN unsettled \cup {w} ELSE unsettled \ {w}
    /\ late' = late \cup {w}
    /\ UNCHANGED <<installed, screen, pc, call>>

\* The last reference goes; nobody is told.
Frees(w) ==
    /\ w \in exists
    /\ InCall(w) = {}
    /\ exists' = exists \ {w}
    /\ UNCHANGED <<record, installed, screen, pc, call, wish, late, legacy, unsettled>>

\* setTitle, frame, bounds, setWantsLayer, wantsLayer, layer, setLayer: what they
\* read or write matters to nobody here, but they make a record if there is none.
Touches(t, w) ==
    /\ Sends(t, w)
    /\ record' = [record EXCEPT ![w] = Entry(w)]
    /\ TellsNobody
    /\ UNCHANGED <<call, wish>>

\* mutant: nil does not take the delegate away
NewDelegateUnlessNil(r, d) == IF d = Null THEN r.delegate ELSE d

NewDelegate(r, d) == d

SetsDelegate(t, w, d) ==
    /\ Sends(t, w)
    /\ record' = [record EXCEPT ![w] = [Entry(w) EXCEPT !.delegate = NewDelegate(Entry(w), d)]]
    /\ wish' = [wish EXCEPT ![w] = d]
    /\ call' = Switched(w)
    /\ TellsNobody

OrdersOut(t, w) ==
    /\ Sends(t, w)
    /\ record' = [record EXCEPT ![w] = [Entry(w) EXCEPT !.key = FALSE]]
    /\ TellsNobody
    /\ UNCHANGED <<call, wish>>

\* !was_key
BecomesKey(r) == ~r.key

\* makeKeyAndOrderFront; the delegate is copied only if it is to be told.
MakesKey(t, w) ==
    LET r == Entry(w) IN
    /\ Sends(t, w)
    /\ record' = [record EXCEPT ![w] = [r EXCEPT !.key = TRUE]]
    /\ Copies(t, w, r.size, IF BecomesKey(r) THEN r.delegate ELSE Null)
    /\ Goes(t, "show")
    /\ UNCHANGED wish

\* mutant: only a window that grows
Grows(r, s) == r.size < s

\* ws.frame.size != frame.size
Changed(r, s) == r.size # s

\* setFrame:display:
SetsFrame(t, w, s) ==
    LET r == Entry(w) IN
    /\ Sends(t, w)
    /\ record' = [record EXCEPT ![w] = [r EXCEPT !.size = s]]
    /\ IF Changed(r, s) THEN Copies(t, w, s, r.delegate) /\ Goes(t, "resize")
       ELSE TellsNobody /\ UNCHANGED call
    /\ UNCHANGED wish

Closes(t, w) ==
    /\ Sends(t, w)
    /\ Copies(t, w, 0, Null)
    /\ Goes(t, "close")
    /\ UNCHANGED <<record, wish>>

-----------------------------------------------------------------------------
(* After the unlock                                                        *)

\* What a compositor makes of window_shown and window_resized.
Shown(w, s) == s
Resized(w, s) == IF screen[w] = Gone THEN Gone ELSE s

\* The compositor is told what the screen is to be, if there is one.
Tells(w, what) ==
    screen' = IF installed THEN [screen EXCEPT ![w] = what] ELSE screen

\* News that no other news have crossed set the compositor right.
Settles(t) == unsettled' = IF call[t].alone THEN unsettled \ {call[t].window} ELSE unsettled

Informs(t) ==
    LET w == call[t].window IN
    /\ \/ pc[t] = "show" /\ Tells(w, Shown(w, call[t].size))
       \/ pc[t] = "resize" /\ Tells(w, Resized(w, call[t].size))
    /\ Settles(t)
    /\ IF call[t].delegate # Null THEN Goes(t, "delegate") /\ UNCHANGED call
       ELSE Goes(t, "idle") /\ call' = [call EXCEPT ![t] = NoCall]
    /\ UNCHANGED <<exists, record, installed, wish, late, legacy>>

\* windowDidBecomeKey:, windowDidResize:
TellsDelegate(t) ==
    /\ pc[t] = "delegate"
    /\ Goes(t, "idle")
    /\ call' = [call EXCEPT ![t] = NoCall]
    /\ UNCHANGED <<exists, record, installed, screen, wish, late, legacy, unsettled>>

TellsClosed(t) ==
    /\ pc[t] = "close"
    /\ Tells(call[t].window, Gone)
    /\ Goes(t, "remove")
    /\ UNCHANGED <<exists, record, installed, call, wish, late, legacy, unsettled>>

\* mutant: the record stays, out of order
RemovedKept(w) == [record EXCEPT ![w] = [Entry(w) EXCEPT !.key = FALSE]]

Removed(w) == [record EXCEPT ![w] = NoRecord]

\* remove_window_state
Removes(t) ==
    LET w == call[t].window IN
    /\ pc[t] = "remove"
    /\ record' = Removed(w)
    /\ wish' = [wish EXCEPT ![w] = Null]
    /\ late' = IF call[t].alone THEN late \ {w} ELSE late
    /\ legacy' = IF call[t].alone THEN legacy \ {w} ELSE legacy
    /\ Settles(t)
    /\ Goes(t, "idle")
    /\ call' = [Switched(w) EXCEPT ![t] = NoCall]
    /\ UNCHANGED <<exists, installed, screen>>

\* install_compositor: the first one stays.
InstallsCompositor ==
    /\ installed' = TRUE
    /\ UNCHANGED <<exists, record, screen, pc, call, wish, late, legacy, unsettled>>

Messages(t, w) == \/ Touches(t, w) \/ OrdersOut(t, w) \/ MakesKey(t, w) \/ Closes(t, w)
                  \/ \E d \in Delegates \cup {Null} : SetsDelegate(t, w, d)
                  \/ \E s \in Sizes : SetsFrame(t, w, s)

WindowNext ==
    \/ \E t \in Threads : \/ \E w \in Windows : Messages(t, w)
                          \/ Informs(t) \/ TellsDelegate(t)
                          \/ TellsClosed(t) \/ Removes(t)
    \/ \E w \in Windows : Frees(w) \/ \E s \in Sizes : Births(w, s)
    \/ InstallsCompositor

WindowSpec == WindowInit /\ [][WindowNext]_windowVars

-----------------------------------------------------------------------------
(* Properties *)

WindowTypeOK ==
    /\ exists \subseteq Windows
    /\ record \in [Windows -> [size : Sizes, key : BOOLEAN, delegate : Delegates \cup {Null}]
                               \cup {NoRecord}]
    /\ installed \in BOOLEAN
    /\ screen \in [Windows -> Sizes \cup {Gone}]
    /\ pc \in [Threads -> {"idle", "show", "resize", "delegate", "close", "remove"}]
    /\ call \in [Threads -> [window : Windows, size : Sizes, delegate : Delegates \cup {Null},
                             alone : BOOLEAN, switched : BOOLEAN]]
    /\ wish \in [Windows -> Delegates \cup {Null}]
    /\ late \subseteq Windows /\ legacy \subseteq Windows /\ unsettled \subseteq Windows

\* While no call has news of a window under way, the compositor shows it with the
\* size of its record, whatever shows, resizes, closes and calls from inside a
\* delegate there were.  Two exceptions last until the next news that are told
\* uncrossed: a window of which the news of two calls were under way at once, and
\* one made at an address that the compositor still showed, for the window that was
\* there was not closed last.
CompositorKnowsSizes ==
    \A w \in exists \ unsettled :
        Telling(w) = {} /\ screen[w] # Gone => record[w] # NoRecord /\ screen[w] = record[w].size

\* A window whose last call was its close has left nothing behind, neither in the
\* map nor on the screen: a new window at its address starts from nothing.
ClosedLeavesNothing ==
    \A w \in Windows \ late : record[w] = NoRecord /\ screen[w] = Gone

\* Whoever is told of a window is the delegate the application set for it, unless
\* that changed after the unlock, or the window has the record of a predecessor
\* at its address that was not closed last.
DelegateIsTheOneSet ==
    \A t \in Threads : pc[t] = "delegate" =>
        \/ call[t].delegate = wish[call[t].window]
        \/ call[t].switched
        \/ call[t].window \in legacy
=============================================================================
