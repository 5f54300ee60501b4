SPECIFICATION Spec
CONSTANTS
    Providers = {"claude_code", "codex"}
    Entries = {"git push"}
    MaxOps = 1
INVARIANT LoginReachesDaemon
CHECK_DEADLOCK FALSE
