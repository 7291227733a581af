SPECIFICATION FairSpec
CONSTANTS
    Pollers = {p1}
    Answers <- AnswersServiceOk
    GracefulDown = TRUE
    LatchModulus = 16
    MaxInFlight = 8
INVARIANT LatchExact
   
