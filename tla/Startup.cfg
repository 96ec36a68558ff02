SPECIFICATION Spec
CONSTANTS
    Cpus = {0, 1, 2}
    Lists <- MCLists
    Word = Word
    Pmus = {"cpu_core", "cpu_atom"}
    Devices <- MCDevices
    Machines <- MCMachines
    Catalog <- MCCatalog
CHECK_DEADLOCK FALSE
INVARIANTS
    TypeOK
    ChildrenOffIsolated
    RunsWhereItSays
    ChannelsCount
    GoodOnesRegister
