SPECIFICATION FairSpec
CONSTANTS
    Sizes = {small}
    MaxSent = 1
    MaxResizes = 1
    ShellEnds = TRUE
PROPERTY ScreenCloses
CHECK_DEADLOCK FALSE
