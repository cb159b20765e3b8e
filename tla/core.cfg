SPECIFICATION FairSpec
CONSTANTS
    dao = dao
    alice = alice
    sam = sam
    coin = coin
    nft = nft
    p1 = p1
    p2 = p2
    p3 = p3
    v1 = v1
    v2 = v2
    Addr = {dao, alice, sam, coin, nft, p1, p2, p3, v1, v2}
    Dao = dao
    Modules = {p1, p2, p3}
    VotingModules = {v1, v2}
    Cw20s = {coin}
    Cw721s = {nft}
    Keys = {"k"}
    Faulty = {sam, p3}
    Reentrant = {sam}
    Admins <- MCAdmins
    Configs <- MCConfigs
    MsgLists <- MCMsgLists
    Calls <- MCCalls
    Callbacks <- MCCallbacks
    Letters = 2
    MaxHeight = 2
    LastCall = 1
    MaxInitial = 2
    MaxDepth = 4
INVARIANTS
    TypeOK
    CountsMatch
    NeverLockedOut
    PrefixesDistinct
    NominationIsAdmins
PROPERTIES
    FrozenWhilePaused
    GovernanceResumes
    DisabledForGood
    GovernedChange
CHECK_DEADLOCK FALSE
