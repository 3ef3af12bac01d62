\* One agent's deliveries in the host; two agents on two slots; one agent with faults and retries.
SPECIFICATION DeliveriesSpec
CHECK_DEADLOCK FALSE
CONSTANTS
    MaxSent = 2
    MaxQueue = 2
    MaxInbound = 2
    CapPorAgente = 1
    MaxDisturbances = 2
    Lapses <- MCNone
INVARIANTS
    NothingVanishes
    SlotsAccountedFor
    TurnAndRunnerAgree
    RetriesBounded
    SeenIsKept
    BegunOnce
    
PROPERTIES
    PausedBeginsNothing
    ImplementsCustody
