CONSTANTS
    m1 = m1
    m2 = m2
    chat = chat
    u1 = u1
    timer = timer
    None = None
    Memories = {m1, m2}
    Categories = {chat}
    CategoryOf <- MCCategoryOf
    MaxAge <- MCMaxAge
    MaxCount <- MCMaxCount
    Users = {u1}
    Timer = timer
    Window = 1
    MaxTime = 4
SPECIFICATION FairSpec
INVARIANTS
    TypeOK
    LogFollowsHolding
PROPERTIES
    OnlyExcessIsHeld
    LapsedIsPurged
