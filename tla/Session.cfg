SPECIFICATION FairSpec
CONSTANTS
    Sizes = {small, large}
    MaxSent = 3
    MaxResizes = 2
    ShellEnds = TRUE
INVARIANTS TypeOK TextKept
   
CHECK_DEADLOCK FALSE
