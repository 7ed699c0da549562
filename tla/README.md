# Verification of vulkan-cocoa-core

TLA+ models of the stateful core of `src/`: the frame ring in shared memory, the
Mach IPC between client processes and compositor, a window's swapchain, the event
loop, the names of shared memory, the choice of a device, the window records of the
AppKit shim, the buffers of the OpenGL shim, GPU images, and the AIR bitstream
parser. TLC checks them on small instances; TLAPS proves every safety property and
both refinements for every value of the constants.

To check: `tlc -workers 2 -config <run>.cfg <MC module>` (run names below are the
names of the `.cfg` files), `tlapm M.tla` for the proofs, with `M` each of
`SharedMemoryProof`, `SurfaceStreamProof`, `SwapchainProof`, `EventLoopProof`,
`DeviceChoiceProof`, `DeviceObjectsProof`, `WindowsProof`, `AirParserProof`.
`PROJECT.json` maps each definition to the source lines it stands for, and lists
the hazards of the code with the properties that watch over them.

## 1. The system and its parts

The crate puts Vulkan below Apple's Cocoa, CoreAnimation and Metal interfaces.
Client processes render into shared surfaces; a compositor process takes their
frames and presents them.

| Component | State it keeps | Operations | Hard behaviour | What makes it correct |
|---|---|---|---|---|
| **Frame ring**, `platform/shm/sync_ring.rs` | a region in shared memory: per slot a state word and the frame's index, width and height; a write cursor | acquire / publish by writers, acquire / wait / release by readers, slot_info; create, open, Drop | several processes with no lock; metadata stored after the slot is Ready; a cursor that wraps; callers that die | one caller per slot; a miss means there was nothing; metadata belong to the frame; lost slots are accounted for |
| **IPC host**, `platform/ipc/host.rs` | client table, queue of frames, send rights in the task | run_once with hello, goodbye, frame; pop_frame, release_frame_port, Drop | the mutex is given back between lookup, queue and notification; queue and table at their limits; shutdown | every port right has one owner; the sink's picture is the table; frames in order |
| **IPC client**, `platform/ipc/client.rs`, `mod.rs` | one connection per process behind a mutex | connect, send_surface, disconnect | sends that wait for ever with the mutex held; a name used after the unlock; death | every call returns; a name is used for what it was read for |
| **QmvServer**, `bridge/compositor.rs` | a host behind an Arc, a poll thread, the running flag | start, Drop, ring reads, ClientSink callbacks | Drop against a host that an Arc keeps | with the two above |
| **Window render context**, `vulkan_backend/swapchain.rs` | swapchain and what is made for it, frames in flight with fence and semaphores, pending resize | request_resize, tick, submit_and_present, rebuild | the device works beside the calls; each of about ten Vulkan calls of a rebuild may fail; suboptimal, out of date, not ready | no resource freed under the device; fences come back; state() is true; calls return |
| **CAMetalLayer, CAMetalDrawable**, `frameworks/quartz_core.rs` | the global render context behind a mutex | setDrawableSize, nextDrawable, present | callers of the above from any thread | with the above |
| **Event loop**, `platform/loop_/mod.rs` | running flag, thread handle, table of timers, kqueue | start, stop, add_timer, remove_timer, watch_fd, callbacks, run_once | start against stop; events fetched before a timer is removed; a join under a mutex | no loop after stop; table and kernel agree |
| **Shared surfaces**, `platform/shm/surface.rs` | names and objects in the kernel (with the ring), a process's table of 256 mapped surfaces, lock word of a surface | create, open, lock, unlock, Drop | a name taken over by another creator; an open before the object is ready; a full table; an address mapped again before Drop unregisters it | no name is left behind, an owner's object is found, the table is true |
| **Device choice**, `vulkan_backend/mod.rs` | none between calls | select, score, create the logical device | loops with first-wins and upgrade rules; every call may fail | the best usable device, and families that can do what they are for |
| Input wire, `platform/ipc/input_wire.rs` | none | encode and send one event, 50 ms | an event lost when the port is full | the client's keys agree with the keyboard in the end |
| **AppKit shim**, `frameworks/appkit.rs`, `bridge/swizzle.rs` | a map from a window's address to its record (frame, key, delegate, layer), the compositor once installed | initWithContentRect, setTitle, setDelegate, makeKeyAndOrderFront, setFrame, orderOut, close, and NSView's getters and setters | compositor and delegate are told after the unlock, from copies; any message makes a record; addresses are used again | compositor and record agree; close leaves nothing; the right delegate is told |
| **OpenGL buffer shim**, `frameworks/opengl_sys.rs` | table of buffers, two bindings, next name, in a global context | gen, bind, data, sub-data, delete, draw | the context is made without a lock; names wrap; bindings outlive their buffers; every device error panics | one thread inside; the device's buffers are those of the table; a stale binding finds nothing |
| **GPU images**, `vulkan_backend/resource.rs` | image, view and memory of a GpuImage; references to IOSurfaces | create_color_attachment, import_opaque_fd, import_from_mach_port, destroy; resolve_from_mach_port and its Drop, create_mach_port_for_surface | each of four calls in a row may fail; destroy may be called twice; no Drop | an image names its objects; references to surfaces are given back |
| **AIR parser**, `shader_jit/*` | a bit position, the recursion over blocks, abbreviation lists | parse, parse_block, bit reader, abbreviations | widths, counts and nesting come from the input; alignment does not look at the end | abbreviations are those in scope; reads and recursion are bounded by the input |
| Metal shim, enumeration, instance and debug messenger, input state, logger, tools | none that changes, or one global set at start | queries, forwarding, reports | - | - |

**How they interact.** A client writes frames into the ring and announces
surfaces over the host's service port; the server's poll thread calls the host's
handlers, which call the ClientSink back after the unlock; the main thread pops
frames and reads the ring. An application's nextDrawable and present reach the
render context through a global mutex. The event loop serves callbacks of the
process it is in; no other file of the repository uses it.

## 2. Modules

| Module | Stands for | How |
|---|---|---|
| `ShmRing` | `sync_ring.rs` | one action per atomic access: `FetchCursor` is the fetch_add, `ClaimSlot`/`SkipSlot` and `TakeSlot`/`PassSlot` the compare_exchange that succeeds or fails, `Publish` the release of a written slot, `Stamp` one plain store of metadata, `LoadInfo` one load |
| `FrameCells` | what the ring promises | abstract: cells handed from one writer to one reader and back; `ShmRing!ImplementsFrameCells` |
| `HostIpc` | `host.rs`, `compositor.rs` | one action per critical section of a handler, and one per thing done after it (`NotifyConnected`, `ShowFrame`) |
| `ClientIpc` | `client.rs`, message structs of `mod.rs` | a call is split where it waits for the mutex or for room in the port |
| `SurfaceStream` | host and clients together | composes the two over the service port `mail` |
| `LossyChannel` | what the stream promises | abstract: frames in order, each at most once, any may be lost; frames are numbered when they are sent, so that sets of numbers describe the channel; `SurfaceStream!ImplementsLossyChannel` |
| `Swapchain` | `swapchain.rs`, `quartz_core.rs` | a call is split where it waits (for a fence, for the device) and a rebuild also between the release of the old resources (`DestroysResources`) and the making of the new (`Rebuild`, `RebuildRefused`); the device (`Complete`) and the presentation engine (`Shown`) run beside it |
| `EventLoop` | `loop_/mod.rs` | one action per atomic swap, per block under a mutex, per kevent64, the join, and the begin of a callback, which comes after the unlock of its look-up (`Finds`, `CallsBack`) |
| `SharedNames` | create, open, Drop of `surface.rs` and `sync_ring.rs` | both kinds at once, one action per system call others can see, per store of the magic, and per block under the table's mutex; the kernel keeps an object while it has a name or is open; a table is a set of addresses with who listed them, as the order of the Vec makes no difference |
| `DeviceChoice` | `vulkan_backend/mod.rs` | one action per turn of the loops over devices and families; the machine is chosen in `Init` |
| `Windows` | `swizzle.rs` over `appkit.rs` | one action per method up to its unlock, then one per party told (`Informs`, `TellsDelegate`, `TellsClosed`, `Removes`); a thread also stands for calls made from inside a callback |
| `GlBuffers` | `opengl_sys.rs` | `Enters` is the test for a missing context, `Makes` the unlocked assignment of a new one, `Locks` the mutex, and then one action per entry point |
| `GpuImages` | `resource.rs`, `on_frame` of `compositor.rs` | one action per call of the device or of IOSurface on the way through a function, and one per error that leaves it there (`FailsHalfway`, `RefusesEmpty`, `RefusesMisfit`); several calls are under way at once |
| `AirParser` | `air_parser.rs` | one action per element of the bitstream (a block's begin and end, a definition, a record), which chooses what the bits say where they are read, and one per kind of error; the recursion is the variable `stack` |
| `SharedMemoryProof` | theorems about `ShmRing` and `SharedNames` | |
| `SurfaceStreamProof` | theorems about `SurfaceStream`, and so about `HostIpc` and `ClientIpc` | |
| `DeviceObjectsProof` | theorems about `GlBuffers` and `GpuImages` | |
| `SwapchainProof`, `EventLoopProof`, `DeviceChoiceProof`, `WindowsProof`, `AirParserProof` | theorems about these modules | |
| `MC...` | | the instances TLC checks |

A definition marked *mutant* is what a plausible bug would make of the definition
after it. No action uses it; put in the place of that definition it violates the
property `PROJECT.json` names, which shows that the property notices.

## 3. Runs

| Run | Bounds | What it shows |
|---|---|---|
| `ring_safety` | 2 writers, 1 reader, 2 slots, cursor modulo 3, 1 death | `Exclusive`, `ReadMissIsHonest`, `WriteMissIsHonest`, `UnracedReadIsTrue`, `LeaksAreCrashes`, and the refinement of `FrameCells`. The modulus is no multiple of slot_count, so the wrap that makes a writer probe one slot twice happens. Two readers that race are covered by the theorems only |
| `ring_live` | 2 writers, 1 reader, no deaths | `CallsReturn` (wait-freedom), `FramesFlow` (with service for slot 0) |
| `stream_safety` | a process of two threads and one of one, queue of 2, one seat, port of 2, 4 rights, 1 death | `RightsHaveOwners`, `SinkKnowsClients` (in every state, notifications under way included), `NoStrangers`, and the refinement of `LossyChannel`. Queue, table and port all fill up; a second client is refused |
| `stream_live` | two threads in run_once, one process of two threads, port of 1, 3 rights, names that can be mistaken for one another | `OneRecordPerToken`; `CallsReturn`: no client waits for ever, except for a host that outlives its server |
| `swapchain_safety` | 2 frames in flight, 2 drawables held, 2 kinds of surface, sizes 0 and 1, every unusual result of the model, failing waits for a fence and for the device included (these with 1 submission there at most, `MaxCut`) | `DeviceUsesWhatIsThere`, `FencesComeBack`, `SyncIsPaired`, `PanicsHaveCauses`, `StateTellsTheTruth` |
| `swapchain_live` | 3 frames in flight (the code's number), 1 drawable at a time, 4 kinds of surface, failing acquires and waits for a fence, no failing rebuild | `CallsReturn`, `ResizeIsDone`, `CountIsSupported`; deadlock is checked |
| `event_loop` | 2 callers, 2 loop threads, table of 1, 3 timers | `StopEndsTheLoop`, `LateCallbackIsTheLast`, `TableMatchesKernel`, `StopReturns`. The three timers fill the table and reuse its place while an old event is under way |
| `shared_names` | 2 threads in one process and 1 in another, 1 name, 2 objects at a time, 2 addresses, a table of 1, 1 death | `NamesHaveOwners` (with `OwnersAreFound`), `TableTellsSurfaces`. Names are taken over, addresses mapped again, the table is full; creations and drops may go on for ever. Deadlock is checked |
| `device_choice` | any list of up to 3 of 9 kinds of device, or one device with any list of up to 3 families of 4 kinds | `ChoiceIsBest`, `QueuesServe` |
| `windows` | 2 threads, 1 address, 3 sizes, 2 delegates | `CompositorKnowsSizes`, `ClosedLeavesNothing`, `DelegateIsTheOneSet`. Windows are made, closed, freed and made again at the address without end |
| `device_objects` | OpenGL: 2 threads, names modulo 3, 2 device buffers; images: 2 calls at once, 2 places, 2 surfaces, 3 references | `OneInside`, `BuffersHaveOwners`, `StaleBindingHitsNothing`, `ImagesNameTheirObjects`, `SurfacesAreReleased`. Two names are given before they come round (0 is a name that no call can use), so that two live names and a stale binding beside a later buffer are reached unwrapped. The two components share nothing, so one acts while the other stays as it begins |
| `air_parser` | bodies of 8, 20, 24, 25 and 32 bytes, block ids 0 (BLOCKINFO) and 8, widths 0, 3 and 65, two operand sizes, 2 abbreviations of a block | `AbbrevsAreScoped`, `InputBoundsTheParser`. The longest body holds four nested blocks; 25 bytes end within a word |

**Why the bounds are enough.** Two callers of a kind are the fewest that race,
and every race of the code is between two (a window's calls race for one record, so
one address is enough); two slots are the fewest for which
"one slot twice, the other never" makes sense. Two frames in flight give a
current and a next frame; the third of the code adds only another turn and is
there in the liveness run. Every limit (queue, table, port) is small enough to be
reached. `MaxCrashes`, `MaxRights`, `MaxDeaths`, `MaxIds`, `MaxHeld`,
`MaxCut`, `MaxObjects`, `MaxRefs`, `MaxAbbrevs`, `Handles`, `Places` and the sets of
threads and calls are bounds of the models, not of the code. `IdModulus` stands for 2^32 and
`CursorModulus` for the cursor's 2^32. Where `CHECK_DEADLOCK` is off the model
really stops: the rights or loop threads of the bound are used up, in
`swapchain_safety` and `device_objects` the process has panicked or waits for a
lost fence, and in `device_choice` and `air_parser` the function has returned; in
`windows` nothing need happen after the last call.

**Symmetry** is used in safety runs over interchangeable callers, loop threads,
frames, addresses, device handles and delegates only.

**Fairness.** Ring: a living caller keeps running (weak). Stream: the poll thread
polls while the server runs (weak: it is a loop around a receive); a client's
call is strong, because the kernel queues waiting senders and serves them in
order. Swapchain: calls go on, device and presentation engine work, the
application keeps asking and presents what it has (all weak); nothing is assumed
of resizes or surprises, and a wait that may fail is never owed its failure. Event loop: callers inside a call and loop threads are
scheduled, and callbacks return (weak); timers need not fire.

## 4. What the checks tell about the code

Properties are stated as strongly as the code allows; their exceptions are behaviour
a maintainer should know.

*Ring.* `publish_slot` makes a slot Ready before it stores the metadata, so a reader
may see those of another frame: `UnracedReadIsTrue` says exactly when.
`acquire_write_slot` may return None with a slot free all along, if another writer
moves the shared cursor in its loop or the cursor wraps (`WriteMissIsHonest`). A
slot whose holder died is never given back. Every scan starts at slot 0: a frame in
a later slot may starve, and only slot 0 is promised service (`FirstSlotIsServed`).
The false returns of publish and release cannot occur for the caller that acquired
the slot.

*Stream.* With one poll thread frames leave in the order they were sent and the
sink's picture is the table but for the token whose notification is under way. The
frame a sink looks at may have been popped and released by the main thread before it
looks (`SinkPortIsLive`). A client that was refused is not told: its frames are
dropped, and `NoStrangers` says only that none of them is looked at before a hello
of its token and none queued or shown while the sink does not have the token. With a
second thread in `run_once` neither holds, nor does "no client overtakes its own
hello"; only the uniqueness of records is then claimed. An Arc from `host()` that
outlives the server keeps the service port alive with nobody to receive: senders
then wait for ever, connect and disconnect with their mutex held (`Orphaned`). The
rights that a client has to its own reply port are not counted, nor whether a failed
send keeps the port it was given (its error does not tell).

*Swapchain.* A rebuild ignores the result of `device_wait_idle` and destroys the
resources whatever it was: submissions that are on the device when the wait fails
(out of memory, say) lose what they use, and `DeviceUsesWhatIsThere` excepts exactly
these (`cut`). `FencesComeBack` lists the ways to wait for ever in tick, with the
global mutex held: a second nextDrawable before the first drawable's present, a
failed submission, and a submission that can never start (`Stuck`). The last comes
of a suboptimal acquire, which leaves the fence signalled, so that a second
nextDrawable gets a drawable too: the first present takes the frame's
image_available and moves on, the second submits for a frame whose image_available
nobody signals, and all later submissions queue behind it. A resize whose rebuild
fails is lost, for tick has taken the pending size by then: `ResizeIsDone` promises
the Ready context with the extent asked for, and its run lets no rebuild fail.
`PanicsHaveCauses` lists the ways to an index out of range: a rebuild that failed
after it had freed the resources (a window of size 0 is enough: `ZeroExtent` is
returned after the release), and an image index from a swapchain that is gone
(suboptimal acquires, drawables kept over a rebuild). The rebuild of
`submit_and_present` does not set the state, so that after its failure `state()` is
Ready (`StateTellsTheTruth`). The number of images is unsupported where the
surface's minimum is above 3, or its maximum below 2 (3 for MAILBOX). On NOT_READY
tick calls itself; the model has the loop but not the depth of the stack.

*Event loop.* `stop` during `start`, between the flag and the handle, finds nothing
to join and returns with a loop that begins and ends on its own, and a further
`start` gives two loops: the safety properties hold unless calls overlapped this way
(`overlapped`). `StopReturns` needs no such exception: a stop returns whatever
overlapped before, unless the loop is running again while it waits. A callback that
calls `stop` joins its own thread, which panics, and panics abort; the model's
callbacks call nothing. A removed timer's callback may run once more, for an event
already fetched, and never a second time.

*Names.* A creator that finds a name taken unlinks it and makes a new object, and
the Drop of the former owner then unlinks the new owner's name: its surface can no
longer be opened, nor its name be seen to be taken. `OwnersAreFound` therefore
speaks of owners without a rival, that is, none that was creating or holding the
name at the same time. A process that dies leaves its names behind. The open of a
ring maps the object before it looks at the magic; between the creator's shm_open
and ftruncate there is nothing to look at, and the opener dies of SIGBUS (`Faults`).
An opener may also see the magic while the rest of the header is still to be stored.
A surface is missing in its process's table if the table was full, or if its address
was that of a surface whose Drop had unmapped and not yet unregistered it
(`uncounted`).

*Device.* Equal scores are won by the last device. A discrete GPU always wins, as
long as the sizes in the score of another stay below some 5 TiB of memory. When the
command pool cannot be made, the logical device is never destroyed.

*Windows.* Compositor and delegate are told after the unlock. If two calls to one
window cross there, or one is made from inside the other's delegate, the older news
may come last, and the compositor keeps that size until the next call:
`CompositorKnowsSizes` holds for windows of which no two calls had news under way at
once since the last news that were told alone (getters and other calls that tell
nobody do not count). Also excepted is a window made at an address that the
compositor still shows, because its predecessor was not closed last: it has the old
window's size on the screen until its own first news (`unsettled`). Any message
makes a record, `frame` too: a window that is sent anything after its close leaves a
record for ever, and a window made at the same address begins with its delegate and
key state, since `initWithContentRect:` sets only the frame (`legacy` in
`DelegateIsTheOneSet`). The compositor hears nothing of orderOut, of a layer made
after the window was shown, nor of windows shown before it was installed. Nothing
takes the key from a window when another gets it.

*OpenGL.* Two first calls at the same time each make a context in place: the second
throws away the table (its device buffers leak) and a locked mutex (`raced`). With
2^32 names a release build starts again at 0, which no call can use, and then takes
the entries of live buffers, which leak, and gives stale bindings a buffer again
(`wrapped`: from the moment name 0 is given); a build that checks overflow panics.
Every draw that finds its buffers records into a null command buffer. A buffer that
the device may still be reading is destroyed at once; no draw ever reaches the
device, so the model has nothing to say about it.

*Images.* A creation that fails after create_image leaves the image, and the memory
if it was allocated, with nobody to destroy them (`holder = "lost"`); so does an
image that is dropped and not destroyed. Whether a failed import_opaque_fd has
consumed its descriptor depends on where it failed, which its error does not tell.
The reference a call has looked up is released or handed over once on every way out.
The retain of `create_mach_port_for_surface` has no release (`exported`).

*Parser.* A body that ends within a word lets an alignment move past its end, and
the next look at `bits_remaining` underflows: a panic in every build, by the
subtraction or by the index. For whole words that cannot happen
(`InputBoundsTheParser`). Block lengths of the input are ignored. A block of width 0
ends where it begins. Counts are believed before there is any data for them
(`TooMany`), and widths of 0 and long vbrs shift too far in builds that check
(`Overflows`); these are ends of a run in the model, and no property denies them.

## 5. What is proved

`SharedMemoryProof`, from the assumptions of `ShmRing` (`SlotCount` and
`CursorModulus` positive, writers and readers disjoint, `NoFrame` no frame) and for
any number of writers, readers, slots, metadata words, frames and deaths:

| Theorem | States |
|---|---|
| `RingTypes` | `TypeOK` |
| `RingHolders` | a slot stays as its holder left it |
| `RingExclusive` | `Exclusive` |
| `ReaderOverlooksNothing` | `ReadMissIsHonest` |
| `WriterOverlooksNothing` | `WriteMissIsHonest` |
| `RingMetadata` | `InfoSettles` and `UnracedReadIsTrue` |
| `LostIsLost` | `LeakIsForever` |
| `LossesAreDeaths` | `LeaksAreCrashes` |
| `RingImplementsFrameCells` | `ImplementsFrameCells` |

and from those of `SharedNames` (there is a name, a thread is of a process, the
table has room for one, `Nothing` is no object, address or magic), for any number of
processes, threads, names, objects, addresses and deaths and any MAX_SURFACES:

| Theorem | States |
|---|---|
| `NamesAreTyped` | `NamesTypeOK`; a table has MAX_SURFACES entries at most |
| `NamesKeepOwners` | `NamesHaveOwners` |
| `TablesTellSurfaces` | `TableTellsSurfaces` |

`SurfaceStreamProof`, for any number of processes, threads, tokens, poll threads,
rights and deaths and limits of any size; `OnePoller` says that there is one poll
thread, as in the server:

| Theorem | States |
|---|---|
| `StreamIsTyped` | `TypeOK` |
| `EveryRightHasOneOwner` | `RightsAreOwned` and `OwnersDiffer`: every right of the host is a client's, a queued frame's, a handler's or the main thread's, and of one of them only |
| `TokensHaveOneRecord` | `OneRecordPerToken` |
| `SinksFindTheirRight` | `OnePoller` gives `RightsHaveOwners` |
| `SinkFollowsClients` | `OnePoller` gives `SinkKnowsClients` |
| `NoClientIsAStranger` | `OnePoller` gives `NoStrangers` |
| `StreamIsALossyChannel` | `OnePoller` gives `ImplementsLossyChannel` |

From the assumptions of their modules, for any number of threads, timers, devices,
frames, drawables, windows, sizes, names, images and surfaces and for bodies of any
length:

| Module | Theorem | States |
|---|---|---|
| `SwapchainProof` | `SwapchainIsTyped` | `TypeOK` |
| | `DeviceIsSafe` | `DeviceUsesWhatIsThere` |
| | `FencesReturn` | `FencesComeBack` |
| | `SyncStaysPaired` | `SyncIsPaired` |
| | `PanicsAreExplained` | `PanicsHaveCauses` |
| | `StateIsTrue` | `StateTellsTheTruth` |
| | `CountsAreSupported` | `CountIsSupported` |
| `EventLoopProof` | `LoopIsTyped` | `TypeOK` |
| | `StopEnds` | `StopEndsTheLoop` |
| | `TableMatches` | `TableMatchesKernel` |
| | `LateIsLast` | `LateCallbackIsTheLast` |
| `DeviceChoiceProof` | `ChoiceIsRight` | `ChoiceIsBest` |
| | `QueuesAreOfUse` | `QueuesServe` |
| `DeviceObjectsProof` | `GlExclusive` | `OneInside` |
| | `GlBuffersAreOwned` | `BuffersHaveOwners` |
| | `GlStaleBindings` | `StaleBindingHitsNothing` |
| | `ImagesAreNamed` | `ImagesNameTheirObjects` |
| | `SurfacesAreAccounted` | `SurfacesAreReleased` |
| `WindowsProof` | `CompositorIsRight` | `CompositorKnowsSizes` |
| | `ClosedIsForgotten` | `ClosedLeavesNothing` |
| | `DelegatesAreTrue` | `DelegateIsTheOneSet` |
| `AirParserProof` | `ParserIsBounded` | `InputBoundsTheParser` |
| | `AbbreviationsAreScoped` | `AbbrevsAreScoped` |

*The arguments.* Ring: `Exclusive` is not inductive: that two callers cannot acquire
one slot rests on the slot's state word. `RingInv` adds what links the two:
`HolderKeepsSlot` (a writer's slot is Writing, a reader's Reading), one writer and
one reader per slot, and `LoopCounts` (a loop has an iteration left, so that the
counter stays in its type). Exclusion of a writer and a reader then follows from the
state being one of the two. On top of it: `Ahead` (what a scan has passed was not
Ready all through) for `ReadMissIsHonest`; `WriteAhead` (a slot that has been Free
all through is fewer probes ahead of the cursor than the loop has iterations left)
for `WriteMissIsHonest`, with a chain of lemmas from the uniqueness of quotient and
remainder to "the cursor's slot goes on by one, and from the last to slot 0", the
wrap included if it is not askew; `PublisherIsLast` and `SettledHeld` (who may still
be storing metadata of a slot) for `RingMetadata`; a lemma that a step adds at most
the dying caller's slot to the lost ones, with the library's facts on cardinalities,
for `LossesAreDeaths`; and for the refinement one lemma per kind of caller that maps
each action to a step of one cell or to a stutter.

Names: `NamesHaveOwners` is not inductive for two reasons. A failure or a Drop
unlinks a name and not an object, so the owner of an object must be the one whose
handle has that very name (`NamesAreOwned`); and a name that is unlinked must be no
other owner's unless the two are rivals (`CreatorsAreRivals`, which also speaks of a
creator between its unlink and its second try). Every action then makes an object,
unlinks a creator's name, or leaves the names alone, and there is one lemma for each
of the three. For the table, `MappingsApart` says that mappings of one process have
different addresses, `StaleApart` that a counted surface has no address a Drop is
still to unregister, `EntriesHaveSurfaces` that an entry is of the thread that made
it, whose Drop is not over, and `SurfacesHaveEntries` that a counted live surface
has its entry. That there is no second entry with its address follows from the four,
the bound from the library's facts on cardinalities.

Stream: the invariant `Ownership` is about disjointness. Rights in the port are
numbered above all that the host has had (`MailIsFresh`), within a class of owners
no two have the same right (`HoldersDiffer`, `FramesDiffer`, `RepliesDiffer`), and
the classes have none in common (`ClassesDiffer`); a host that is gone has kept only
what the main thread holds. It is inductive for any number of poll threads. The
others are about the order of the one poll thread's steps: `SinksFrames` (the frame
a sink is about to show is queued, with the main thread, or was released),
`ViewFollows` (the sink's picture lags behind the table by the token at hand, which
is news, and has the token of a frame that passed the look-up), `Introduced` (a
frame in the port has its client's hello before it, in the port, at hand or heard,
and who may still send a frame has said hello), and `FramesInOrder` (the queue is in
the order of sending, and what the poll thread has at hand comes after it), from
which the steps of `LossyChannel` follow one by one.

Swapchain: the types need `FreshHoldTaken` (a fresh drawable has an image that is
taken, and no two have the same) and `CommandsComeLast` (the command buffers are
there exactly when all other parts are), which also explains the panics. For
`DeviceUsesWhatIsThere`, `DeviceInv` adds that from the release of the resources to
the making of the new ones the device has only submissions that a failed
device_wait_idle left there. For the fences, `FenceInv` adds that between the wait
and the acquire the current fence is signalled, which gives every unsignalled fence
a submission, a drawable or a failure (`FencesHaveCauses`); that the submission is
one the device completes follows from `SyncInv`. This says that, without a
suboptimal acquire (`Orderly`), there is one drawable at most, it is of the current
frame, and submissions under way can start and are of different frames; and that
semaphores are paired while nothing unusual was returned. `StateInv` extends the
claim about `state()` to the time of a rebuild. The number of images rests on the
assumption that a surface's maximum is 0 (none) or not below its minimum, which
Vulkan guarantees.

Event loop: a start or stop goes through several steps, and `LoopOrder` says for
each of them what flag, handle and thread are, as long as no two overlapped: this is
the order in which they change hands. `TableInv` says that a timer call under way
has its timer to itself (neither the kernel nor another call has it), that ids are
fresh and never used twice, and that an active entry is the kernel's or such a
call's. `LateInv` says that only loop threads hold events, fetched or looked up and
not yet called back, and that a timer with a late callback has none left.

Device choice: `FamilyLoop` says that `best` and `dedicated` are the first of their
kind among the families seen, `DeviceLoop` that the candidates are the usable
devices seen, in order and with their scores. That there is a winner follows from
the least element of a set of naturals. Assumed are the types of what Vulkan returns
(`MachinesAreTyped`), and that a discrete device outscores any other
(`ScoresAreBounded`), which section 4 qualifies.

OpenGL: `OneMutex` says that, as long as no first calls overlapped, a context that
is there is not made again and who is inside holds its mutex; `Untouched` that a
context still to be made finds nothing in table or device; `NamesGrow` that, until
names are given again, those not yet given (`Given`) are not in the table and
deleted ones have been given and stay out, which is why a stale binding stays stale.
One lemma (`TableChanges`) covers every change of a single entry. Images:
`CallsHavePlaces` says that two calls never make an image at one place and that the
device has there exactly what the call's step has made; for the references the
library's facts on cardinalities give that each step changes a surface's count as it
changes the set of calls that hold one (`Holders`). Windows: `NewsAreTrue` says what
a call under way has copied: one that is `alone` is the only one with news of its
window, and its news are what the record says; `DelegatesAreSet` and `CopiesAreSet`
that record and copies name the delegate the application set, unless it is a
predecessor's or was switched. The histories `late`, `legacy`, `unsettled` and
`switched` are what makes these exceptions exact. Parser: what ends in a body of
whole words still does so when it is aligned (`AlignedInside`), every read is looked
for before, and a block costs the words of its header. For the scope of
abbreviations, `InfoGrows` says that what BLOCKINFO has given to an id is only ever
appended to, and `StartsDiffer` that open blocks begin at different places, so that
the definitions a block inherited stay a prefix of what its id has, however deep the
blocks inside it go.

*Only model-checked.* Liveness, which is beyond the prover: `CallsReturn` of ring,
stream and swapchain, `FramesFlow`, `ResizeIsDone` and `StopReturns`. Every other
property of the runs has a theorem. The type invariants of the modules are parts of
the proofs' invariants; runs check none of them, since each would only repeat what
the other properties need.

## 6. Not modelled

* Ring: `read_cursor` and `generation`, which nothing reads; that a slot can be
  used while the region's creator is still storing to it.
* Surfaces: `lock`, `unlock`, the frame counter and the getters; sizes, and the
  truncation of long names, by which two names may become one.
* Swapchain: Drop, the shared device, refresh_rate, render_finished (signalled and
  waited for inside one call), a drawable presented twice, the loss of the device other
  than through the errors it returns.
* Event loop: descriptors and Mach messages, calls from inside a callback (a
  callback that calls stop joins itself), Drop.
* Device choice: the texts of errors and log, the queues' handles.
* Windows: the making of classes and methods at the start, NSApplication, NSScreen
  and NSEvent, titles and layers, the content of `install`.
* OpenGL: what is in a buffer; calls with more than one name, which repeat the call
  for one under the same lock.
* Images: extents, formats, memory types; file descriptors.
* Parser: the wrapper header and the search for tags, which read a slice once; the
  contents of records; the transforms of SPIR-V words.
* Input wire: it encodes one event and sends it once with 50 ms of patience. It has
  no state, and nothing in the repository calls its one user,
  `QmvServer::notify_input_ready`.
* The last row of section 1 has no state worth a model.

## 7. Plan

1. **Frame ring** with its abstract specification and proofs. *Done.*
2. **Surface stream**, refinement of `LossyChannel`, with its proofs. *Done.* To
   prove: what is left of the order with two poll threads (each thread's frames).
3. **Swapchain** with its proofs. *Done.* To add: Drop, and a device that is lost.
4. **Event loop** with its proofs. *Done.* To add: callbacks that call add_timer and
   remove_timer.
5. **SharedNames** with its proofs. *Done.* To add: the header's fields one by one, composed with
   the ring's slots, and lock / unlock / frame_counter.
6. **DeviceChoice** with its proofs. *Done.*
7. **Windows**, **GlBuffers**, **GpuImages**, **AirParser** with their proofs. *Done.*

Runs are kept few: components that share nothing share a run, and a type invariant
is not checked for itself.
