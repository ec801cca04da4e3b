SPECIFICATION Spec
CONSTANTS
    Form = {"loop", "mixed"}
    Protected = 1
    DefaultWindow = 6
    MinStoreTurns = 2
    MaxTurns = 4
    MaxRounds = 2
    MaxTroubles = 1
INVARIANTS TypeOK ToolsPaired BeginsWithUser StubsStored ChainsOnce
PROPERTIES RecoversSeen
CHECK_DEADLOCK FALSE
