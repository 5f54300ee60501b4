SPECIFICATION Spec
CONSTANTS
    Calls <- MCCalls
    Requests <- MCRequests
    ConfigMode = "auto"
    SampleCommands <- MCCommands
    SampleNames <- MCNames
    SampleWords <- MCWords
    MaxRetries = 1
    StreamsArgs = TRUE
    MaxCalls = 2
    Capacity = 2
    ChunkKinds = {"Reasoning"}
    MaxChunks = 1
    MaxTurns = 1
    MaxEvents = 1
INVARIANTS
    RefusedStaysOut
    SavedAsAnswered
    PendingServed
    ModeShownOrConfigured
    ResultsPairUp
    StoredCallsHaveResults
    RiskCoversParts
    MoreWordsNeverSafer
PROPERTIES
    RunsOnlyIfApproved
    EveryQuestionEnds
CHECK_DEADLOCK FALSE
