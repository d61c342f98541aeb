CONSTANTS
    q1 = q1
    q2 = q2
    other = other
    s1 = s1
    s2 = s2
    None = None
    Requests <- MCTwoOne
    Sessions = {s1, s2}
    SessionOf <- MCSessionOf
    BusCap = 2
    Notes = 1
SPECIFICATION FairSpec
INVARIANTS
    TypeOK
    AnswersDoNotBypass
    ReturnedIsUnregistered
PROPERTY RequestsFinish
CHECK_DEADLOCK FALSE
