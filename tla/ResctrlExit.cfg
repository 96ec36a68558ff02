SPECIFICATION Spec
CONSTANTS
    I1 = I1
    I2 = I2
    Insts = {I1}
    Nobody = Nobody
    Admin = Admin
    MaxAdmin = 0
INVARIANT
    UnmountedOnExit
