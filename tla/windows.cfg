CONSTANTS
    Threads = {t1, t2}
    Windows = {w}
    Sizes = {0, 1, 2}
    Delegates = {d1, d2}
    Null = Null
    Gone = Gone
SPECIFICATION WindowSpec
INVARIANTS
    CompositorKnowsSizes
    ClosedLeavesNothing
    DelegateIsTheOneSet
SYMMETRY Symmetry
CHECK_DEADLOCK FALSE
