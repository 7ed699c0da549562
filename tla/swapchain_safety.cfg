CONSTANTS
    FramesInFlight = 2
    Sizes = {0, 1}
    Surfaces <- MCSurfaces
    SpareImages = 0
    Surprises = {"suboptimal", "acquire", "reset", "submit", "build", "wait", "idle"}
    MaxHeld = 2
    MaxCut = 1
    NoSize = NoSize
SPECIFICATION Spec
INVARIANTS
    DeviceUsesWhatIsThere
    FencesComeBack
    SyncIsPaired
    PanicsHaveCauses
    StateTellsTheTruth
CHECK_DEADLOCK FALSE
