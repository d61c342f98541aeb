CONSTANTS
    s1 = s1
    c1 = c1
    c2 = c2
    m1 = m1
    m2 = m2
    Tasks <- MCTasks
    Callers <- MCCallers
    Msgs <- MCMsgs
    MaxTurns = 2
SPECIFICATION FairSpec
INVARIANTS
    TypeOK
    SteeringConserved
    EventsMatchSessions
    RunningIsLive
    RunningIsKillable
PROPERTIES
    ImplementsContract
    TimedSessionsAnnounce
    WorkersStop
CHECK_DEADLOCK FALSE
