CONSTANTS
    t1 = t1
    t2 = t2
    t3 = t3
    Tasks <- MCTasks
    Submitted <- MCSubmitted
    Msgs = {}
    MaxTurns = 1
SPECIFICATION FairSpec
INVARIANTS
    TypeOK
    OneResultEach
    ReplyIsComplete
PROPERTIES
    BatchEnds
CHECK_DEADLOCK FALSE
