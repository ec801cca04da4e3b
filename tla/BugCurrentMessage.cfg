SPECIFICATION Spec
CONSTANTS
    Form = {"loop"}
    Protected = 1
    DefaultWindow = 6
    MinStoreTurns = 2
    MaxTurns = 4
    MaxRounds = 2
    MaxTroubles = 1
INVARIANT CurrentMessageSent
CHECK_DEADLOCK FALSE
