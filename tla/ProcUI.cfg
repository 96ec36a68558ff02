SPECIFICATION Spec
CONSTANTS
    Pids = {1, 2, 3}
    NKeys = 2
    Frames <- MCFrames
    NoPid = NoPid
    NoSnap = NoSnap
    TopN = 2
    HISTORY = 1
    MaxFrames = 2
CHECK_DEADLOCK FALSE
INVARIANTS
    TypeOK
    SelectionOnScreen
PROPERTIES
    MovesOnScreen
    ListSpec
