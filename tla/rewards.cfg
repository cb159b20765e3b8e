SPECIFICATION Spec
CONSTANTS
    ann = ann
    ben = ben
    pool = pool
    board = board
    dao = dao
    safe = safe
    Users = {ann, ben}
    Owner = dao
    VpContracts = {pool, board}
    Denoms <- MCDenoms
    MaxDistributions = 1
    SecondsPerBlock = 2
    DecimalOne = 1000
    ScaleFactor = 100
    Creations <- MCCreations
    Updates <- MCUpdates
    Externals <- MCExternals
    Durations = {1, 2}
    Funds <- MCFunds
    Heights = {1, 3}
    Amounts = {3}
    InitialPower <- MCInitialPower
    Powers = {0, 2}
    Hooked = {pool}
    MaxHeight <- MCMaxHeight
    MaxCalls <- MCMaxCalls
INVARIANTS
    UpdatesNeverFail
    Covered
PROPERTIES
    RewardsKept
CHECK_DEADLOCK FALSE
