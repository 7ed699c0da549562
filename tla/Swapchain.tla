----------------------------- MODULE Swapchain -----------------------------
(***************************************************************************)
(* The render context of a window, WindowRenderContext of                  *)
(* src/src/vulkan_backend/swapchain.rs, and the layer and drawables that   *)
(* use it, src/src/frameworks/quartz_core.rs.                              *)
(*                                                                         *)
(* Every call runs under the one global mutex, so at most one is in        *)
(* progress (pc); the device and the presentation engine run beside it.    *)
(* A step ends where a call may have to wait: for a fence, or for the      *)
(* device to be idle.  Vulkan is external: its results are chosen, the     *)
(* unusual ones only if they are among Surprises.                          *)
(*                                                                         *)
(* render_finished is left out: queue_submit signals it and the            *)
(* queue_present that follows waits for it, in the same call.              *)
(***************************************************************************)
EXTENDS Integers, Sequences, FiniteSets

CONSTANTS FramesInFlight,  \* MAX_FRAMES_IN_FLIGHT
          Sizes,           \* sizes a window is given; 0 is none
          Surfaces,        \* what the surface may support, see Caps below
          SpareImages,     \* images the driver may add to those asked for
          Surprises,       \* the unusual results that may occur
          MaxHeld,         \* drawables the application keeps at a time
          MaxCut,          \* bound: submissions there when device_wait_idle fails
          NoSize           \* no resize is pending

Caps == [min : Nat, max : Nat,            \* image counts, max 0 is no limit
         mailbox : BOOLEAN,               \* MAILBOX is offered
         current : Nat \cup {NoSize},     \* current_extent, if it is fixed
         least : Nat]                     \* min_image_extent
AllSurprises == {"suboptimal", "acquire", "reset", "submit", "build", "wait", "idle"}

ASSUME SwapchainAssumption == /\ FramesInFlight \in Nat \ {0}
                              /\ Sizes \subseteq Nat /\ NoSize \notin Nat
                              /\ Surfaces \subseteq Caps
                              /\ \A c \in Surfaces :
                                    c.min > 0 /\ (c.max = 0 \/ c.min <= c.max)
                              /\ SpareImages \in Nat
                              /\ Surprises \subseteq AllSurprises
                              /\ MaxHeld \in Nat /\ MaxCut \in Nat

VARIABLES
    state,      \* WindowRenderState
    images,     \* number of images of the swapchain
    built,      \* what the context has for it: views, render pass, ...
    commands,   \* length of command_buffers
    extent,     \* the swapchain's extent
    asked,      \* min_image_count of the last create_swapchain, and its caps
    frame,      \* current_frame
    fence,      \* is in_flight of a frame signalled?
    semaphore,  \* is image_available of a frame signalled?
    pending,    \* the size in pending_resize, or NoSize
    pc,         \* where the call in progress is, "free" if there is none
    why,        \* what the last rebuild was for
    want,       \* the size it was to have
    index,      \* image index a rebuild is to return
    work,       \* submissions the device has not completed, oldest first;
                \* starts: image_available will be signalled for it;
                \* cut: history, a device_wait_idle failed while it was there
    taken,      \* images acquired and not presented
    shown,      \* images the presentation engine has
    held,       \* drawables of the application
    seen,       \* history: the surprises "suboptimal", "reset", "submit" that
                \* have occurred
    misused     \* history: a semaphore or fence was used in a wrong state

resources == <<state, images, built, commands, extent, asked>>
sync == <<frame, fence, semaphore>>
call == <<pc, why, want, index>>
vars == <<state, images, built, commands, extent, asked, frame, fence, semaphore,
          pending, pc, why, want, index, work, taken, shown, held, seen, misused>>

Frames == 0 .. FramesInFlight - 1
Images == 0 .. images - 1

-----------------------------------------------------------------------------
(* What build_swapchain computes and makes.  A mutant is what a bug would  *)
(* make of the definition after it.                                        *)

AtLeast(x, y) == IF x < y THEN y ELSE x
AtMost(x, y) == IF x > y THEN y ELSE x

\* mutant: the surface's limit is not looked at
ImageCountUnlimited(c) ==
    AtMost(AtLeast(c.min + 1, IF c.mailbox THEN 3 ELSE 2), FramesInFlight)

ImageCount(c) ==
    LET some == IF c.max > 0 THEN AtMost(c.min + 1, c.max) ELSE c.min + 1
    IN AtMost(AtLeast(some, IF c.mailbox THEN 3 ELSE 2), FramesInFlight)

\* current_extent, or the wanted size clamped
ExtentFor(c, size) == IF c.current # NoSize THEN c.current ELSE AtLeast(size, c.least)

\* mutant: as many command buffers as images were asked for
CommandCountAsked(c, n) == ImageCount(c)

\* command_buffer_count
CommandCount(c, n) == n

\* What is made one after the other; a failure leaves the rest unmade.  The image
\* views, the render pass and the framebuffers are one part.
Parts == <<"swapchain", "images", "framebuffers", "commands">>
All == {Parts[k] : k \in 2 .. Len(Parts)}
Made(k) == {Parts[j] : j \in 2 .. k}
Intact == built = All

\* mutant: nobody waits for the device
DeviceIdleAlways == TRUE

\* device_wait_idle succeeds
DeviceIdle == work = <<>>

Cut(submissions) == [k \in DOMAIN submissions |-> [submissions[k] EXCEPT !.cut = TRUE]]

Stale(ds) == [k \in DOMAIN ds |-> [ds[k] EXCEPT !.fresh = FALSE]]
Without(s, k) == SubSeq(s, 1, k - 1) \o SubSeq(s, k + 1, Len(s))

NextFrame == (frame + 1) % FramesInFlight

\* new() has succeeded.
Init ==
    /\ state = "Ready"
    /\ \E c \in Surfaces, size \in Sizes :
          /\ ExtentFor(c, size) > 0
          /\ extent = ExtentFor(c, size)
          /\ asked = [count |-> ImageCount(c), caps |-> c]
          /\ \E spare \in 0 .. SpareImages :
                images = AtLeast(ImageCount(c), c.min) + spare
          /\ commands = CommandCount(c, images)
    /\ built = All
    /\ frame = 0
    /\ fence = [i \in Frames |-> TRUE]
    /\ semaphore = [i \in Frames |-> FALSE]
    /\ pending = NoSize
    /\ pc = "free" /\ why = "new" /\ want = NoSize /\ index = 0
    /\ work = <<>> /\ taken = {} /\ shown = {} /\ held = <<>>
    /\ seen = {} /\ misused = FALSE

-----------------------------------------------------------------------------
(* build_swapchain                                                         *)

\* mutant: only a resize sets the state
MarksStateOnResize(reason) == reason = "resize"

\* tick sets the state, submit_and_present does not.
MarksState(reason) == reason # "present"

\* The rebuild begins with device_wait_idle.
RebuildFor(reason, size, i) ==
    /\ pc' = "rebuild" /\ why' = reason /\ want' = size /\ index' = i
    /\ state' = IF MarksState(reason) THEN "Recreating" ELSE state

\* A drawable with the image the call was to return; that image's command
\* buffer is looked up first.
HandOut(i, fresh, buffers) ==
    IF i < buffers THEN /\ held' = Append(Stale(held), [image |-> i, fresh |-> fresh])
                        /\ pc' = "free"
    ELSE pc' = "panic" /\ held' = Stale(held)

\* destroy_swapchain_resources, once device_wait_idle has returned.  Nobody looks
\* at its result: when it fails they are destroyed under the device's work.
DestroysResources ==
    /\ pc = "rebuild"
    /\ \/ DeviceIdle /\ UNCHANGED work
       \/ "idle" \in Surprises /\ Len(work) <= MaxCut /\ work' = Cut(work)
    /\ built' = {} /\ commands' = 0
    /\ pc' = "build"
    /\ UNCHANGED <<state, images, extent, asked, sync, pending, why, want, index,
                   taken, shown, held, seen, misused>>

\* It fails before it has a new swapchain: the old one stays, without resources.
RebuildRefused(c) ==
    /\ pc = "build"
    /\ \/ ExtentFor(c, want) = 0
       \/ "build" \in Surprises
    /\ pc' = "free" /\ want' = NoSize /\ index' = 0
    /\ UNCHANGED <<resources, sync, pending, why, work, taken, shown, held, seen,
                   misused>>

\* A new swapchain, and what belongs to it up to the k-th part.
Rebuild(c, n, k) ==
    /\ pc = "build"
    /\ ExtentFor(c, want) > 0
    /\ extent' = ExtentFor(c, want)
    /\ asked' = [count |-> ImageCount(c), caps |-> c]
    /\ images' = n
    /\ built' = Made(k)
    /\ want' = NoSize /\ index' = 0
    /\ taken' = {} /\ shown' = {}
    /\ IF k < Len(Parts)
         THEN /\ "build" \in Surprises
              /\ pc' = "free" /\ held' = Stale(held)
              /\ UNCHANGED <<state, commands>>
         ELSE /\ commands' = CommandCount(c, n)
              /\ state' = IF MarksState(why) THEN "Ready" ELSE state
              /\ IF why = "suboptimal"
                   THEN HandOut(index, FALSE, CommandCount(c, n))
                   ELSE pc' = "free" /\ held' = Stale(held)
    /\ UNCHANGED <<sync, pending, why, work, seen, misused>>

-----------------------------------------------------------------------------
(* request_resize and tick, which setDrawableSize and nextDrawable call    *)

RequestResize(size) ==
    /\ pc = "free"
    /\ pending' = size
    /\ UNCHANGED <<resources, sync, call, work, taken, shown, held, seen, misused>>

\* mutant: a resize to the extent there is stays pending
ResizePendingIfNew == pending \notin {NoSize, extent}

ResizePending == pending # NoSize

TickResizes ==
    /\ pc = "free" /\ Len(held) < MaxHeld
    /\ ResizePending
    /\ pending' = NoSize
    /\ RebuildFor("resize", pending, 0)
    /\ UNCHANGED <<images, built, commands, extent, asked, sync, work, taken,
                   shown, held, seen, misused>>

TickBegins ==
    /\ pc = "free" /\ Len(held) < MaxHeld
    /\ ~ResizePending
    /\ pc' = "wait"
    /\ UNCHANGED <<resources, sync, pending, why, want, index, work, taken,
                   shown, held, seen, misused>>

\* mutant: the fence is reset before it is known whether there is an image
FenceAfterWaitReset == [fence EXCEPT ![frame] = FALSE]

FenceAfterWait == fence

\* wait_for_fences(.., u64::MAX)
FenceIsSignalled ==
    /\ pc = "wait"
    /\ fence[frame]
    /\ fence' = FenceAfterWait
    /\ pc' = "acquire"
    /\ UNCHANGED <<resources, frame, semaphore, pending, why, want, index, work,
                   taken, shown, held, seen, misused>>

WaitFails ==
    /\ pc = "wait" /\ "wait" \in Surprises
    /\ pc' = "free"
    /\ UNCHANGED <<resources, sync, pending, why, want, index, work, taken, shown,
                   held, seen, misused>>

\* acquire_next_image gives an image and signals image_available.
Gets(i) ==
    /\ pc = "acquire"
    /\ i \in Images \ (taken \cup shown)
    /\ taken' = taken \cup {i}
    /\ semaphore' = [semaphore EXCEPT ![frame] = TRUE]
    /\ misused' = (misused \/ semaphore[frame])

\* mutant: the fence is left as it is
FenceForgotten == UNCHANGED fence

\* reset_fences
ResetFence == fence' = [fence EXCEPT ![frame] = FALSE]

Acquires(i) ==
    /\ Gets(i)
    /\ ResetFence
    /\ IF i < commands
         THEN held' = Append(held, [image |-> i, fresh |-> TRUE]) /\ pc' = "free"
         ELSE pc' = "panic" /\ UNCHANGED held
    /\ UNCHANGED <<resources, frame, pending, why, want, index, work, shown, seen>>

\* VK_SUBOPTIMAL_KHR: the swapchain is rebuilt, the index returned all the same.
AcquiresSuboptimal(i) ==
    /\ "suboptimal" \in Surprises
    /\ Gets(i)
    /\ RebuildFor("suboptimal", extent, i)
    /\ seen' = seen \cup {"suboptimal"}
    /\ UNCHANGED <<images, built, commands, extent, asked, frame, fence, pending,
                   work, shown, held>>

\* reset_fences fails, after the image has been acquired.
ResetFails(i) ==
    /\ "reset" \in Surprises
    /\ Gets(i)
    /\ seen' = seen \cup {"reset"}
    /\ pc' = "free"
    /\ UNCHANGED <<resources, frame, fence, pending, why, want, index, work,
                   shown, held>>

\* NOT_READY: the next frame is tried if its fence is signalled (tick calls
\* itself), else the call returns TIMEOUT.
AcquiresNothing ==
    /\ pc = "acquire"
    /\ Images \ (taken \cup shown) = {}
    /\ IF fence[NextFrame] THEN frame' = NextFrame /\ pc' = "wait"
                             ELSE pc' = "free" /\ UNCHANGED frame
    /\ UNCHANGED <<resources, fence, semaphore, pending, why, want, index, work,
                   taken, shown, held, seen, misused>>

AcquireOutOfDate ==
    /\ pc = "acquire"
    /\ RebuildFor("outdated", extent, 0)
    /\ UNCHANGED <<images, built, commands, extent, asked, sync, pending, work,
                   taken, shown, held, seen, misused>>

AcquireFails ==
    /\ pc = "acquire" /\ "acquire" \in Surprises
    /\ pc' = "free"
    /\ UNCHANGED <<resources, sync, pending, why, want, index, work, taken, shown,
                   held, seen, misused>>

-----------------------------------------------------------------------------
(* submit_and_present, which the drawable's present calls                  *)

Presents(k) == pc = "free" /\ k \in DOMAIN held

\* The submission waits for image_available and will signal the fence.
Submits(k) ==
    /\ Presents(k)
    /\ held[k].image < commands
    /\ held' = Without(held, k)
    /\ work' = Append(work, [frame |-> frame, image |-> held[k].image,
                             starts |-> semaphore[frame], cut |-> FALSE])
    /\ semaphore' = [semaphore EXCEPT ![frame] = FALSE]
    /\ misused' = (misused \/ ~semaphore[frame] \/ fence[frame])
    /\ frame' = NextFrame
    /\ IF held[k].fresh THEN /\ taken' = taken \ {held[k].image}
                             /\ shown' = shown \cup {held[k].image}
                        ELSE UNCHANGED <<taken, shown>>

\* queue_present succeeds, or fails and the error is returned.
Present(k) ==
    /\ Submits(k)
    /\ UNCHANGED <<resources, fence, pending, call, seen>>

PresentOutOfDate(k) ==
    /\ Submits(k)
    /\ RebuildFor("present", extent, 0)
    /\ UNCHANGED <<images, built, commands, extent, asked, fence, pending, seen>>

\* queue_submit fails: the drawable is gone, the frame is not advanced.
SubmitFails(k) ==
    /\ "submit" \in Surprises
    /\ Presents(k)
    /\ held[k].image < commands
    /\ held' = Without(held, k)
    /\ seen' = seen \cup {"submit"}
    /\ UNCHANGED <<resources, sync, pending, call, work, taken, shown, misused>>

\* command_buffers[image_index] is out of range.
PresentPanics(k) ==
    /\ Presents(k)
    /\ held[k].image >= commands
    /\ pc' = "panic"
    /\ UNCHANGED <<resources, sync, pending, why, want, index, work, taken, shown,
                   held, seen, misused>>

-----------------------------------------------------------------------------
(* The device and the presentation engine                                  *)

Complete ==
    /\ work # <<>>
    /\ Head(work).starts
    /\ fence' = [fence EXCEPT ![Head(work).frame] = TRUE]
    /\ work' = Tail(work)
    /\ UNCHANGED <<resources, frame, semaphore, pending, call, taken, shown, held,
                   seen, misused>>

\* An image that was rendered and shown is given back.
Shown(i) ==
    /\ i \in shown
    /\ \A k \in DOMAIN work : work[k].image # i
    /\ shown' = shown \ {i}
    /\ UNCHANGED <<resources, sync, pending, call, work, taken, held, seen, misused>>

-----------------------------------------------------------------------------
TickGoesOn == \/ FenceIsSignalled \/ AcquiresNothing \/ AcquireOutOfDate \/ AcquireFails
              \/ \E i \in Images : \/ Acquires(i) \/ AcquiresSuboptimal(i)
                                   \/ ResetFails(i)

ImageCounts(c) == LET least == AtLeast(ImageCount(c), c.min)
                  IN least .. least + SpareImages

RebuildGoesOn == \/ DestroysResources
                 \/ \E c \in Surfaces :
                       \/ RebuildRefused(c)
                       \/ \E n \in ImageCounts(c), k \in 1 .. Len(Parts) : Rebuild(c, n, k)

PresentDrawable == \E k \in DOMAIN held :
                      \/ Present(k) \/ PresentOutOfDate(k) \/ SubmitFails(k)
                      \/ PresentPanics(k)

NextDrawable == TickResizes \/ TickBegins

Device == Complete \/ \E i \in Images : Shown(i)

Next == \/ \E size \in Sizes : RequestResize(size)
        \/ NextDrawable \/ TickGoesOn \/ WaitFails \/ RebuildGoesOn
        \/ PresentDrawable \/ Device

Spec == Init /\ [][Next]_vars

\* A call goes on, device and engine work, and the application keeps asking for
\* drawables and presents those it has.  A wait may fail, but it need not: only
\* the fence or the idle device is sure to end it.
FairSpec == /\ Spec
            /\ WF_vars(TickGoesOn)
            /\ WF_vars((pc = "rebuild" => DeviceIdle) /\ RebuildGoesOn)
            /\ WF_vars(Complete) /\ WF_vars(\E i \in Images : Shown(i))
            /\ WF_vars(NextDrawable) /\ WF_vars(PresentDrawable)

-----------------------------------------------------------------------------
(* Properties *)

TypeOK ==
    /\ state \in {"Ready", "Recreating"}
    /\ images \in Nat /\ commands \in 0 .. images
    /\ built \in SUBSET All
    /\ extent \in Nat \ {0}
    /\ asked \in [count : 1 .. FramesInFlight, caps : Surfaces]
    /\ frame \in Frames
    /\ fence \in [Frames -> BOOLEAN]
    /\ semaphore \in [Frames -> BOOLEAN]
    /\ pending \in Sizes \cup {NoSize}
    /\ pc \in {"free", "wait", "acquire", "rebuild", "build", "panic"}
    /\ why \in {"new", "resize", "suboptimal", "outdated", "present"}
    /\ want \in Nat \cup {NoSize}
    /\ index \in Nat
    /\ work \in Seq([frame : Frames, image : Nat, starts : BOOLEAN,
                    cut : BOOLEAN])
    /\ taken \in SUBSET Images /\ shown \in SUBSET Images
    /\ held \in Seq([image : Nat, fresh : BOOLEAN])
    /\ seen \in SUBSET AllSurprises
    /\ misused \in BOOLEAN

\* The device never works on resources of a swapchain that is gone: every
\* submission it has is of an image of the swapchain, with all its resources.
\* Excepted is what was on the device when a device_wait_idle failed.
DeviceUsesWhatIsThere ==
    \A k \in DOMAIN work : ~work[k].cut => Intact /\ work[k].image \in Images

\* Submissions the device never completes: they wait for an image_available that
\* nobody signals, or behind one that does.
Stuck == {k \in DOMAIN work : \E j \in 1 .. k : ~work[j].starts}

\* The fence of a frame stays unsignalled, so that tick will wait for it for
\* good, only while the device works to signal it, while the application keeps a
\* drawable of that frame, because a submission has failed, or because after a
\* suboptimal acquire one was made that can never start.
FencesComeBack ==
    \A i \in Frames : ~fence[i] =>
        \/ \E k \in DOMAIN work \ Stuck : work[k].frame = i
        \/ i = frame /\ (held # <<>> \/ "submit" \in seen)
        \/ Stuck # {} /\ "suboptimal" \in seen
        \/ pc = "panic"

\* Unless one of three unusual results came before, image_available is
\* unsignalled when it is given to acquire_next_image, signalled when a
\* submission waits for it, and the fence unsignalled when it is submitted.
SyncIsPaired == misused => seen \cap {"suboptimal", "reset", "submit"} # {}

\* A command buffer is looked up out of range only after a failed rebuild, or
\* with the image of a former swapchain.
PanicsHaveCauses ==
    pc = "panic" => \/ ~Intact
                    \/ why = "suboptimal"
                    \/ \E k \in DOMAIN held : ~held[k].fresh

\* state() tells whether the context can render, except after the rebuild of
\* submit_and_present, which fails without a word to state().
StateTellsTheTruth ==
    pc = "free" => /\ state = "Recreating" => ~Intact
                   /\ state = "Ready" => Intact \/ why = "present"

\* The number of images asked for is within what the surface supports, unless
\* its minimum is above MAX_FRAMES_IN_FLIGHT or its maximum below what the
\* present mode is given.
CountIsSupported ==
    LET c == asked.caps
    IN /\ c.min <= FramesInFlight => asked.count >= c.min
       /\ c.max >= (IF c.mailbox THEN 3 ELSE 2) => asked.count <= c.max

\* Under an application that presents each drawable before it asks for the next,
\* every call returns: no wait for a fence or for the device is for ever.
CallsReturn == pc # "free" ~> pc = "free"

\* Where no rebuild fails, a resize is carried out in the end, with an extent for
\* the size asked for, unless another size is asked for before tick has taken it.
ResizeIsDone ==
    \A size \in Sizes : pending = size ~>
        \/ /\ pc = "free" /\ why = "resize"
           /\ state = "Ready" /\ Intact /\ extent = ExtentFor(asked.caps, size)
        \/ pending \notin {size, NoSize}
=============================================================================
