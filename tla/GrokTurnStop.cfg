\* One message, one stop.
SPECIFICATION GrokSpec
CHECK_DEADLOCK FALSE
CONSTANTS
    GrokMaxMessages = 1
    GrokMaxClients = 2
    GrokMaxEvents = 1
INVARIANT GrokStopAnnounced
