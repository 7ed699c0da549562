CONSTANTS
    FramesInFlight = 3
    Sizes = {1, 2}
    Surfaces <- MCNarrow
    SpareImages = 1
    Surprises = {"acquire", "wait"}
    MaxHeld = 1
    MaxCut = 0
    NoSize = NoSize
SPECIFICATION FairSpec
INVARIANTS
    CountIsSupported
PROPERTIES
    CallsReturn
    ResizeIsDone
