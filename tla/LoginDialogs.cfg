SPECIFICATION FairSpec
CONSTANTS
    MaxDialogs = 3
    MaxAttempts = 3
    Replies = {"done", "refused", "lost"}
INVARIANTS TypeOK FailureReleases ConnectionClaimed OneTerminal
PROPERTY DialogAnswered
CHECK_DEADLOCK FALSE
