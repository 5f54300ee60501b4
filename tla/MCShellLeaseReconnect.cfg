SPECIFICATION Spec
CONSTANTS
    Calls = {c1, c2}
    NoLease = NoLease
    NoCommand = NoCommand
    UserCommand = UserCommand
    MaxConns = 2
    MaxCancels = 0
SYMMETRY CallSymmetry
INVARIANTS
    HolderIsActive
