SPECIFICATION Spec
CONSTANTS
    Calls = {c1, c2}
    NoLease = NoLease
    NoCommand = NoCommand
    UserCommand = UserCommand
    MaxConns = 1
    MaxCancels = 1
INVARIANTS
    TypeOK
    WaiterServed
    ReportReachesItsCall
    RequestConserved
    CommandConserved
PROPERTIES
    ArbiterSpec
