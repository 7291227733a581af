SPECIFICATION FairSpec
CONSTANTS
    Conn = {c1, c2}
    Requests <- MCRequests
    Passwords <- MCPasswords
    Threads = 1
    MaxRequests = 2
INVARIANTS TypeOK PasswordExact
PROPERTIES  EveryRequestSettled ConnectionsEnd
CHECK_DEADLOCK FALSE
