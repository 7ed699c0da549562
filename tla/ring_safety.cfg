CONSTANTS
    Writers = {w1, w2}
    Readers = {r1}
    SlotCount = 2
    CursorModulus = 3
    Frames = {f1, f2}
    NoFrame = NoFrame
    Fields = {"frame_index"}
    MaxCrashes = 1
SPECIFICATION Spec
INVARIANTS
    Exclusive
    ReadMissIsHonest
    WriteMissIsHonest
    UnracedReadIsTrue
    LeaksAreCrashes
PROPERTIES
    ImplementsFrameCells
SYMMETRY Symmetry
