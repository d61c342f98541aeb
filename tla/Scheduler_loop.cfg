CONSTANTS
    poll = poll
    once = once
    NoTask = NoTask
    Tasks <- MCTasks
    Schedule <- MCFrequent
    Runs = {r1}
    Callers = {c1}
    After = 1
    Cooldown = 1
    Tick = 1
    Minute = 2
    MaxTime = 1
SPECIFICATION FairSpec
INVARIANTS
    TypeOK
    RegisteredIsDurable
PROPERTIES
    StartsAreSpaced
    DueIsStarted
CHECK_DEADLOCK FALSE
