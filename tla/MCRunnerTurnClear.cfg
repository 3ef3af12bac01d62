\* The comment that one runner owns at most one slot, with a clear while the turn waits in the gate.
SPECIFICATION Spec
CHECK_DEADLOCK FALSE
CONSTANTS
    Runners <- MCThree
    Retrying <- MCRetrying
    MaxCliTurns = 2
    MaxQueue = 1
    MaxNudges = 0
    LoopStops <- MCNone
    ClearWhileQueued = TRUE
    MaxMessages = 4
    MaxFaults = 0
    MaxCuts = 1
    MaxResults = 0
INVARIANT
    OneSlotPerRunner
