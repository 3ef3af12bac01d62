\* The comment that the retained queue is delivered once only.
SPECIFICATION Spec
CHECK_DEADLOCK FALSE
CONSTANTS
    MaxSent = 2
    MaxQueue = 2
    MaxInbound = 2
    CapPorAgente = 2
    MaxDisturbances = 2
    Lapses <- MCRetida
INVARIANT
    BegunOnce
