\* Two agents on one slot, under the fairness of the event loop.
SPECIFICATION MCLiveSpec
CHECK_DEADLOCK FALSE
CONSTANTS
    Runners <- MCRunners
    Retrying <- MCRetrying
    MaxCliTurns = 1
    MaxQueue = 1
    MaxNudges = 0
    LoopStops <- MCNone
    ClearWhileQueued = TRUE
    MaxMessages = 2
    MaxFaults = 0
    MaxCuts = 1
    MaxResults = 0
INVARIANTS
    ExitIsFinal
PROPERTIES
    QueueMoves
    GateMoves
