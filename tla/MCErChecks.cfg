CONSTANTS
    r1 = r1
    r2 = r2
    Rooms = {r1, r2}
    Home = r1
    SeedOf <- Seeds
    NameOf <- OneName
    Slots = {s1, s2}
    Base <- NoStart
    NStart = 0
    Stream <- NoItems
    Echo = {}
    MaxPlay = 0
    Budget <- Checking
    None = None
SPECIFICATION FairSpec
INVARIANTS ChecksStayHome
PROPERTIES EveryCheckReported RefusalReleases
