CONSTANTS
    m1 = m1
    m2 = m2
    m3 = m3
    Messages = {m1, m2, m3}
    main = main
    s1 = s1
    s2 = s2
    Main = main
    Names = {main, s1, s2}
    Sessions <- MCSessions
    MaxRestarts = 1
SPECIFICATION Spec
INVARIANTS
    TypeOK
    NoTurnTwice
    KeptWhereAsked
PROPERTIES
    WindowsStayWhole
    ClearIsFresh
