SPECIFICATION FairSpec
CONSTANTS
    Pollers = {p1}
    Answers <- AnswersOk
    GracefulDown = FALSE
    LatchModulus = 16
    MaxInFlight = 8
PROPERTY GoneOfflineNoticed
