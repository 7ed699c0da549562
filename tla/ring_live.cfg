CONSTANTS
    Writers = {w1, w2}
    Readers = {r1}
    SlotCount = 2
    CursorModulus = 2
    Frames = {f1}
    NoFrame = NoFrame
    Fields = {"frame_index"}
    MaxCrashes = 0
SPECIFICATION FairSpec
PROPERTIES
    CallsReturn
    FramesFlow
