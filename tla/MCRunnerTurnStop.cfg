\* The comment that a stop discards nothing, with a turn in the gate.
SPECIFICATION Spec
CHECK_DEADLOCK FALSE
CONSTANTS
    Runners <- MCRunners
    Retrying <- MCRetrying
    MaxCliTurns = 1
    MaxQueue = 1
    MaxNudges = 0
    LoopStops <- MCNone
    ClearWhileQueued = FALSE
    MaxMessages = 2
    MaxFaults = 0
    MaxCuts = 0
    MaxResults = 0
INVARIANT
    StopRetainsUnstarted
