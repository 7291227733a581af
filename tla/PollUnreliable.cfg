SPECIFICATION Spec
CONSTANTS
    Pollers = {p1}
    Answers <- AnswersUnreliable
    GracefulDown = FALSE
    LatchModulus = 16
    MaxInFlight = 8
INVARIANTS TypeOK CycleComplete OfflineQuiet 
PROPERTIES  LostForGood
