\* The comment that a recover accepts messages again, with nothing else that is rare.
SPECIFICATION ClaudeSpec
CHECK_DEADLOCK FALSE
CONSTANTS
    ClaudeMembers = {}
    ClaudeLoopStops = {}
    ClaudeQueue = 2
    ClaudeMaxMessages = 3
    ClaudeEvents = {"recover"}
    ClaudeMaxEvents = 1
INVARIANT
    ClaudeServesQueue
