SPECIFICATION Spec
CONSTANTS
    alice = alice
    bob = bob
    dao = dao
    vault = vault
    tracker = tracker
    n1 = n1
    n2 = n2
    Users = {alice, bob}
    Dao = dao
    Self = vault
    Nfts = {n1, n2}
    Tracker = tracker
    MaxClaims = 2
    PrecisionFactor = 2
    DecimalOne = 4
    Tokens <- MCTokens
    Msgs <- MCMsgs
    Durations <- MCDurations
    Thresholds <- MCThresholds
    Amounts = {1, 2}
    Lists <- MCLists
    MaxStake = 2
    MaxHeight <- MCMaxHeight
INVARIANTS
    PowersAddUp
    Withdrawable
    HooksTrackPower
    
PROPERTIES
    PastPowersFixed
    ValueNeverFalls
CHECK_DEADLOCK FALSE
