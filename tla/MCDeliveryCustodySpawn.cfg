\* The comment that a message buffers until the spawn, when the start fails.
SPECIFICATION Spec
CHECK_DEADLOCK FALSE
CONSTANTS
    MaxSent = 2
    MaxQueue = 2
    MaxInbound = 2
    CapPorAgente = 1
    MaxDisturbances = 2
    Lapses <- MCSubida
INVARIANT
    SeenIsKept
