SPECIFICATION Spec
CONSTANTS
    MaxOps = 2
    MaxEvents = 1
    MaxPrints = 2
    MaxKept = 3
INVARIANTS
    ForeignOutputIsLoose
    
    CwdIsBashs
    HelperIsThere
    CandidatesAreOwn
PROPERTIES
    FreeAgain
CHECK_DEADLOCK FALSE
