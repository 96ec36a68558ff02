SPECIFICATION Spec
CONSTANTS
    T1 = T1
    T2 = T2
    Pids = {1, 2, 3}
    Tids = {T1, T2}
    NoPid = NoPid
    NoTid = NoTid
    NoTicks = NoTicks
    Own = {3}
    TopN = 1
    MaxTicks = 1
    MaxStarts = 1
    PinChoices = {{}, {1, 3}}
INVARIANT
    SumsIntoOwner
