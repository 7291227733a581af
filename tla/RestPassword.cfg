SPECIFICATION Spec
CONSTANTS
    Conn = {c1}
    Requests <- MCRequests
    Passwords <- MCPasswords
    Threads = 1
    MaxRequests = 1
INVARIANTS PasswordAccepted
CHECK_DEADLOCK FALSE
