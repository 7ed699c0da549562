----------------------------- MODULE GpuImages -----------------------------
(***************************************************************************)
(* Images and imported surfaces: src/src/vulkan_backend/resource.rs, and   *)
(* the frame sink of src/src/bridge/compositor.rs that resolves the        *)
(* surface of each frame.                                                  *)
(*                                                                         *)
(* A call goes step by step through the objects it makes and the reference *)
(* it has looked up, and may fail at each; calls of several threads share  *)
(* the surfaces.  A place stands for one GpuImage and the objects made for *)
(* it, and is used again when nothing is left of them.  The device, the    *)
(* surfaces and the application are external.                              *)
(***************************************************************************)
EXTENDS Integers, FiniteSets

CONSTANTS Calls,        \* calls of this code that may be under way at once
          Places, Surfaces,
          MaxRefs       \* bound: references to a surface at a time

Nothing == "nothing"

ASSUME ImagesAssumption == /\ MaxRefs \in Nat /\ IsFiniteSet(Calls)
                           /\ Nothing \notin Places \cup Surfaces

VARIABLES
    pc,         \* what a call does next
    surface,    \* surface_ref of a call
    place,      \* where a call makes its image
    objects,    \* the device's objects at a place
    image,      \* the fields of its GpuImage that are not null
    holder,     \* "none", a "call", the "app", or "lost": nobody can destroy them
    twice,      \* something was destroyed that was not there
    refs,       \* references to a surface that this code has
    resolved,   \* ResolvedSurfaces of a surface
    exported    \* ports made by create_mach_port_for_surface

placeVars == <<objects, image, holder, twice>>
surfaceVars == <<refs, resolved, exported>>
imageVars == <<pc, surface, place, placeVars, surfaceVars>>

Count == [Surfaces -> Nat]

ImagesInit ==
    /\ pc = [c \in Calls |-> "idle"]
    /\ surface = [c \in Calls |-> Nothing]
    /\ place = [c \in Calls |-> Nothing]
    /\ objects = [p \in Places |-> {}]
    /\ image = [p \in Places |-> {}]
    /\ holder = [p \in Places |-> "none"]
    /\ twice = FALSE
    /\ refs = [s \in Surfaces |-> 0]
    /\ resolved = [s \in Surfaces |-> 0]
    /\ exported = [s \in Surfaces |-> 0]

Goes(c, to) == pc' = [pc EXCEPT ![c] = to] /\ UNCHANGED surface

Returns(c) == /\ pc' = [pc EXCEPT ![c] = "idle"]
              /\ surface' = [surface EXCEPT ![c] = Nothing]
              /\ place' = [place EXCEPT ![c] = Nothing]

-----------------------------------------------------------------------------
(* GpuImage                                                                *)

\* owns_memory: an image that is imported from a port has no memory of its own.
Parts(owns) == {"image", "view"} \cup (IF owns THEN {"memory"} ELSE {})

Vacant(p) == holder[p] # "app" /\ objects[p] = {}

\* create_image has succeeded; the handle is a local of the call.
Begins(c, p) ==
    /\ Vacant(p)
    /\ objects' = [objects EXCEPT ![p] = {"image"}]
    /\ holder' = [holder EXCEPT ![p] = "call"]
    /\ place' = [place EXCEPT ![c] = p]
    /\ UNCHANGED <<image, twice>>

\* create_color_attachment, import_opaque_fd
Creates(c) ==
    /\ pc[c] = "idle"
    /\ \E p \in Places : Begins(c, p)
    /\ Goes(c, "memory")
    /\ UNCHANGED surfaceVars

AllocatesMemory(c) ==
    /\ pc[c] = "memory"
    /\ objects' = [objects EXCEPT ![place[c]] = @ \cup {"memory"}]
    /\ Goes(c, "bind")
    /\ UNCHANGED <<place, image, holder, twice, surfaceVars>>

BindsMemory(c) ==
    /\ pc[c] = "bind"
    /\ Goes(c, "view with memory")
    /\ UNCHANGED <<place, placeVars, surfaceVars>>

\* make_view; the GpuImage names what was made and is handed to the application.
MakesView(c) ==
    LET p == place[c] IN
    /\ pc[c] \in {"view", "view with memory"}
    /\ objects' = [objects EXCEPT ![p] = @ \cup {"view"}]
    /\ image' = [image EXCEPT ![p] = Parts(pc[c] = "view with memory")]
    /\ holder' = [holder EXCEPT ![p] = "app"]
    /\ Returns(c)
    /\ UNCHANGED <<twice, surfaceVars>>

\* find_memory_type, allocate_memory, bind_image_memory or create_image_view fails:
\* the error is returned from there, and what was made stays.
FailsHalfway(c) ==
    /\ pc[c] \in {"memory", "bind", "view", "view with memory"}
    /\ holder' = [holder EXCEPT ![place[c]] = "lost"]
    /\ Returns(c)
    /\ UNCHANGED <<objects, image, twice, surfaceVars>>

\* mutant: the fields stay as they are
ClearedNot(p) == image[p]

\* the fields after destroy, and the objects it has destroyed
Cleared(p) == {}
Freed(p) == image[p]

\* GpuImage::destroy, which may be called again
Destroys(p) ==
    /\ holder[p] = "app"
    /\ twice' = (twice \/ ~(Freed(p) \subseteq objects[p]))
    /\ objects' = [objects EXCEPT ![p] = @ \ Freed(p)]
    /\ image' = [image EXCEPT ![p] = Cleared(p)]
    /\ UNCHANGED <<pc, surface, place, holder, surfaceVars>>

\* GpuImage has no Drop: what was not destroyed is lost.
DropsImage(p) ==
    /\ holder[p] = "app"
    /\ holder' = [holder EXCEPT ![p] = IF image[p] = {} THEN "none" ELSE "lost"]
    /\ image' = [image EXCEPT ![p] = {}]
    /\ UNCHANGED <<pc, surface, place, objects, twice, surfaceVars>>

-----------------------------------------------------------------------------
(* IOSurfaces                                                              *)

\* IOSurfaceLookupFromMachPort returns a new reference: in resolve_from_mach_port
\* and in import_from_mach_port.
LooksUp(c, s, to) ==
    /\ pc[c] = "idle"
    /\ refs[s] < MaxRefs
    /\ refs' = [refs EXCEPT ![s] = @ + 1]
    /\ surface' = [surface EXCEPT ![c] = s]
    /\ pc' = [pc EXCEPT ![c] = to]
    /\ UNCHANGED <<place, placeVars, resolved, exported>>

\* IOSurfaceRelease
Releases(c) == /\ refs' = [refs EXCEPT ![surface[c]] = @ - 1]
               /\ UNCHANGED <<resolved, exported>>

\* The surface says it is empty.
RefusesEmpty(c) ==
    /\ pc[c] \in {"resolve", "import"}
    /\ Releases(c)
    /\ Returns(c)
    /\ UNCHANGED placeVars

FindsSize(c) ==
    /\ \/ pc[c] = "resolve" /\ Goes(c, "fit")
       \/ pc[c] = "import" /\ Goes(c, "create")
    /\ UNCHANGED <<place, placeVars, surfaceVars>>

\* It has not the size that the client has announced.
RefusesMisfit(c) ==
    /\ pc[c] = "fit"
    /\ Releases(c)
    /\ Returns(c)
    /\ UNCHANGED placeVars

\* The reference goes to a ResolvedSurface.
HandsOver(c) ==
    /\ pc[c] = "fit"
    /\ resolved' = [resolved EXCEPT ![surface[c]] = @ + 1]
    /\ Returns(c)
    /\ UNCHANGED <<placeVars, refs, exported>>

\* mutant: the error of create_image is returned before the release
AfterImageAtOnce(made) == IF made THEN "release" ELSE "idle"

\* import_from_mach_port releases before it looks at the result of create_image.
AfterImage(made) == "release"

ImportsImage(c) ==
    /\ pc[c] = "create"
    /\ \/ (\E p \in Places : Begins(c, p)) /\ Goes(c, AfterImage(TRUE))
       \/ Goes(c, AfterImage(FALSE)) /\ UNCHANGED <<place, placeVars>>
    /\ UNCHANGED surfaceVars

ReleasesImported(c) ==
    /\ pc[c] = "release"
    /\ Releases(c)
    /\ IF place[c] = Nothing THEN Returns(c) ELSE Goes(c, "view") /\ UNCHANGED place
    /\ UNCHANGED placeVars

\* ResolvedSurface::drop; on_frame drops what it has resolved when it returns.
DropsResolved(s) ==
    /\ resolved[s] > 0
    /\ resolved' = [resolved EXCEPT ![s] = @ - 1]
    /\ refs' = [refs EXCEPT ![s] = @ - 1]
    /\ UNCHANGED <<pc, surface, place, placeVars, exported>>

\* create_mach_port_for_surface: its IOSurfaceRetain has no release.
Exports(s) ==
    /\ refs[s] < MaxRefs
    /\ refs' = [refs EXCEPT ![s] = @ + 1]
    /\ exported' = [exported EXCEPT ![s] = @ + 1]
    /\ UNCHANGED <<pc, surface, place, placeVars, resolved>>

ImageCall(c) ==
    \/ Creates(c) \/ AllocatesMemory(c) \/ BindsMemory(c) \/ MakesView(c) \/ FailsHalfway(c)
    \/ \E s \in Surfaces, to \in {"resolve", "import"} : LooksUp(c, s, to)
    \/ RefusesEmpty(c) \/ FindsSize(c) \/ RefusesMisfit(c) \/ HandsOver(c)
    \/ ImportsImage(c) \/ ReleasesImported(c)

ImagesNext ==
    \/ \E c \in Calls : ImageCall(c)
    \/ \E p \in Places : Destroys(p) \/ DropsImage(p)
    \/ \E s \in Surfaces : DropsResolved(s) \/ Exports(s)

ImagesSpec == ImagesInit /\ [][ImagesNext]_imageVars

-----------------------------------------------------------------------------
(* Properties *)

\* Steps at which a call has a reference that it has not released or handed over;
\* up to "create" it still uses the surface.
Holding == {"resolve", "fit", "import", "create", "release"}
Steps == {"idle", "memory", "bind", "view", "view with memory"} \cup Holding

ImagesTypeOK ==
    /\ pc \in [Calls -> Steps]
    /\ surface \in [Calls -> Surfaces \cup {Nothing}]
    /\ place \in [Calls -> Places \cup {Nothing}]
    /\ objects \in [Places -> SUBSET Parts(TRUE)]
    /\ image \in [Places -> SUBSET Parts(TRUE)]
    /\ holder \in [Places -> {"none", "call", "app", "lost"}]
    /\ twice \in BOOLEAN
    /\ refs \in Count /\ resolved \in Count /\ exported \in Count

\* A GpuImage names exactly the objects the device has for it, however often it
\* is destroyed, and nothing is destroyed twice.  What no image names any more was
\* lost by a call that failed half-way, or by an image that was dropped and not
\* destroyed.
ImagesNameTheirObjects ==
    /\ ~twice
    /\ \A p \in Places : holder[p] \in {"none", "app"} => objects[p] = image[p]

Holders(s) == {c \in Calls : pc[c] \in Holding /\ surface[c] = s}

\* The references to a surface are those of the calls that have yet to release it or
\* hand it over, of the ResolvedSurfaces and of the exported ports: no way out of
\* resolve or import leaks one or releases one too many, so that nothing uses a
\* surface that has gone.
SurfacesAreReleased ==
    \A s \in Surfaces : refs[s] = resolved[s] + exported[s] + Cardinality(Holders(s))
=============================================================================
