SPECIFICATION FairSpec
CONSTANTS
    Allowance = 1
    Grace = TRUE
    ConfirmPolls = 2
    EchoPolls = 6
    MaxEvents = 7
PROPERTIES
    EdgesAreAttributed
    SendsAreEarned
    EveryLinkLands
CHECK_DEADLOCK FALSE
