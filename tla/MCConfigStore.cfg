SPECIFICATION Spec
CONSTANTS
    Providers = {"claude_code"}
    Entries = {"git push"}
    MaxOps = 3
INVARIANTS
    NothingLost
    StoredTokenHonoured
    KeyOfToken
    MemoryIsFile
PROPERTIES
    SettlesAgain
CHECK_DEADLOCK FALSE
