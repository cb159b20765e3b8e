SPECIFICATION FairSpec
CONSTANTS
    alice = alice
    bob = bob
    sam = sam
    dao = dao
    self = self
    hookA = hookA
    hookB = hookB
    gate = gate
    gate2 = gate2
    PrecisionFactor = 10
    DecimalOne = 100
    Addr = {alice, bob, sam, dao, self}
    Dao = dao
    Self = self
    Modules = {}
    Faulty = {sam, dao}
    Reentrant = {}
    Configs <- MCConfigs
    Rationales = {"r", "q"}
    DaoCalls = {}
    MsgLists <- MCLifecycleMsgs
    PowerAt <- MCPowerAt
    TotalPowerAt <- MCTotalPowerAt
    MaxHeight = 4
    LastStart = 1
    MaxProposals = 1
    MaxDepth = 3
INVARIANTS
    TalliesMatchBallots
    PassedStaysPassed
    RejectedStaysRejected
    RunsOnce
PROPERTIES
    TimelockRespected
    ImplementsLifecycle
    EventuallyCompleted
CHECK_DEADLOCK FALSE
