\* An agent with worktrees that is stopped, or reconfigured, and started again.
SPECIFICATION AgSpec
CONSTANTS
    AgSpawns = 2
    AgConfigs = {1, 2}
    AgMaxFaults = 1
    AgLapses = {}
INVARIANT AgIsolated
CHECK_DEADLOCK FALSE
