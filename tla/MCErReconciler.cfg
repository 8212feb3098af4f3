SPECIFICATION FairSpec
CONSTANTS
    Goods <- MCGoods
    Flags <- MCFlags
    Stream <- MCStream
    Prog = Prog
    Tiers <- MCTiers
    SlotFlags = {}
    MaxAttempts = 2
    GoodsBudget = 1
    FlagBudget = 2
    Contested = {1}
    Games <- MCGames
    MaxEvents = 3
    None = None
INVARIANTS
    OneBurstPerEdge
    OnlyDiscardedFlagsPark
    RefusedIsOwed
PROPERTIES
    DebtNeedsWitness
    Converges
CHECK_DEADLOCK FALSE
