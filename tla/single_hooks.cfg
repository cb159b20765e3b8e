SPECIFICATION Spec
CONSTANTS
    alice = alice
    bob = bob
    sam = sam
    dao = dao
    self = self
    hookA = hookA
    hookB = hookB
    gate = gate
    gate2 = gate2
    PrecisionFactor = 10
    DecimalOne = 100
    Addr = {alice, sam, dao, self, hookA, gate, gate2}
    Dao = dao
    Self = self
    Modules = {gate}
    Faulty = {sam, hookA, gate, gate2}
    Reentrant = {hookA, gate}
    Configs <- MCHookConfigs
    Rationales = {"r"}
    DaoCalls <- MCHookCalls
    MsgLists <- MCHookMsgs
    PowerAt <- MCPowerAt
    TotalPowerAt <- MCTotalPowerAt
    MaxHeight = 1
    LastStart = 0
    MaxProposals = 1
    MaxDepth = 4
INVARIANTS
    TypeOK
    RunsOnce
    ReportsReached
PROPERTIES
    ImplementsLifecycle
CHECK_DEADLOCK FALSE
