SPECIFICATION Spec
CONSTANTS
    alice = alice
    sam = sam
    coin = coin
    token = token
    pre = pre
    pm = pm
    dao = dao
    appr = appr
    apprpm = apprpm
    apprdao = apprdao
    Addr = {alice, sam, coin, token, pre, pm, dao, appr, apprpm, apprdao}
    Members = {alice}
    Natives = {coin}
    Cw20s = {token}
    Pre = pre
    Pm = pm
    Dao = dao
    MaxProposals = 2
    Flows = {"single", "approval"}
    Approver = appr
    ApproverPm = apprpm
    ApproverDao = apprdao
    Users = {alice, sam}
    Wealth = 4
    Configs <- MCConfigs
    Approvers <- MCApprovers
    HookLists <- MCHookLists
    Earlier <- MCEarlier
    Calls <- MCCalls
    Faulty <- MCFaulty
    Reentrant <- MCReentrant
    MaxDepth = 4
INVARIANTS
    TypeOK
    EntryMatchesProposal
    PaidAsPromised
    Solvent
    NothingStranded
    PolicyValid
    ApprovedOnce
    DecisionsCarriedOut
CHECK_DEADLOCK FALSE
