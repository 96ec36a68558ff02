SPECIFICATION Spec
CONSTANTS
    I1 = I1
    I2 = I2
    Insts = {I1, I2}
    Nobody = Nobody
    Admin = Admin
    MaxAdmin = 2
SYMMETRY Symmetry
INVARIANTS
    TypeOK
    CleanExit
    NeverTheMachineInstead
PROPERTY
    OwnMountOnly
