CONSTANTS
    Threads = {t1, t2}
    IdModulus = 3
    Handles = {h1, h2}
    Null = Null
    Calls = {c1, c2}
    Places = {p1, p2}
    Surfaces = {s1, s2}
    MaxRefs = 3
SPECIFICATION Spec
INVARIANTS
    OneInside
    BuffersHaveOwners
    StaleBindingHitsNothing
    ImagesNameTheirObjects
    SurfacesAreReleased
SYMMETRY Symmetry
CHECK_DEADLOCK FALSE
