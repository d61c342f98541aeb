CONSTANTS
    poll = poll
    once = once
    NoTask = NoTask
    Tasks <- MCPoll
    Schedule <- MCSchedule
    Runs = {r1, r2}
    Callers = {c1}
    After = 2
    Cooldown = 2
    Tick = 2
    Minute = 2
    MaxTime = 4
SYMMETRY Symmetry
SPECIFICATION Spec
INVARIANT StoreFollowsMemory
CHECK_DEADLOCK FALSE
