SPECIFICATION FairSpec
CONSTANTS
    Locations = {g, l}
    Goal = g
    Suppressed = {l}
    Saves = {a, b}
    Debounce = 2
    MaxEvents = 3
    None = None
INVARIANTS
    NoFalseCheck
    SustainQueuedFirst
    VictoryMeansSent
PROPERTIES
    EveryCheckArrives
    GoalArrivesUnlessLost
CHECK_DEADLOCK FALSE
