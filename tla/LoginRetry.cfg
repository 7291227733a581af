SPECIFICATION Spec
CONSTANTS
    MaxDialogs = 1
    MaxAttempts = 2
    Replies = {"done", "refused"}
INVARIANT TerminalConnected
CHECK_DEADLOCK FALSE
