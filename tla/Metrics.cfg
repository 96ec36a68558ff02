SPECIFICATION Spec
CONSTANTS
    Pmus = {"cpu_core", "cpu_atom"}
    Levels = {"L2"}
    Threads = {1, 2}
    Readings <- MCReadings
    None = None
    History = 2
    MaxFrames = 3
CHECK_DEADLOCK FALSE
INVARIANTS
    TypeOK
    SumsOfThreads
    SplitWithinWhole
    ShareOfLookups
    HistoriesTogether
    SparkSpans
