SPECIFICATION Spec
CONSTANTS
    K1 = K1
    K2 = K2
    Keys = {K1, K2}
    Values = {5}
    NA = NA
    Absent = Absent
    Interval = 2
    MaxTs = 7
SYMMETRY Symmetry
INVARIANTS
    TypeOK
    FramesAreIntervals
PROPERTIES
    StreamSpec
