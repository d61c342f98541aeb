CONSTANTS
    a = a
    launch = launch
    restart = restart
    c1 = c1
    c2 = c2
    tool = tool
    None = None
    Servers = {a}
    Order <- MCOrder
    Starters = {launch, restart}
    Startup = launch
    Calls = {c1, c2}
    ToolOf <- MCToolOf
    Provides <- MCProvides
    Procs <- MCProcs
    Askers <- MCAskers
    MaxEvents = 1
SPECIFICATION FairSpec
INVARIANTS
    TypeOK
    OwnAnswers
    ListedAreConnected
    NoStrayServer
PROPERTIES
    EverythingEnds
    NotesAreWritten
CHECK_DEADLOCK FALSE
