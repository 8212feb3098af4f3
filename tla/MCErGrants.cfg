CONSTANTS
    r1 = r1
    r2 = r2
    Rooms = {r1, r2}
    Home = r1
    SeedOf <- Seeds
    NameOf <- OneName
    Slots = {s1}
    Base <- FirstStart
    NStart = 1
    Stream <- TwoItems
    Echo = {0}
    MaxPlay = 1
    Budget <- Granting
    None = None
SPECIFICATION Spec
INVARIANTS TypeOK OncePerSave NothingSkipped ForeignSaveUntouched
