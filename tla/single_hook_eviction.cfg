SPECIFICATION Spec
CONSTANTS
    alice = alice
    bob = bob
    sam = sam
    dao = dao
    self = self
    hookA = hookA
    hookB = hookB
    gate = gate
    gate2 = gate2
    PrecisionFactor = 10
    DecimalOne = 100
    Addr = {alice, sam, dao, self, hookA, gate, gate2}
    Dao = dao
    Self = self
    Modules = {}
    Faulty = {hookA}
    Reentrant = {}
    Configs <- MCFastConfig
    Rationales = {"r"}
    DaoCalls <- MCAddHook
    MsgLists <- MCNoMsgs
    PowerAt <- MCPowerAt
    TotalPowerAt <- MCTotalPowerAt
    MaxHeight = 1
    LastStart = 0
    MaxProposals = 1
    MaxDepth = 3
PROPERTY
    FaultyReceiverEvicted
CHECK_DEADLOCK FALSE
