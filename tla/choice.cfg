SPECIFICATION Spec
CONSTANTS
    ann = ann
    ben = ben
    cat = cat
    dave = dave
    mod = mod
    PrecisionFactor = 2
    DecimalOne = 4
    Addr = {ann, ben, cat, dave, mod}
    Dao = dao
    Faulty = {mod}
    Configs <- MCConfigs
    Modules = {mod}
    Options <- MCOptions
    Rationales = {"reason"}
    DaoCalls <- MCDaoCalls
    PowerAt <- MCPowerAt
    MaxHeight <- MCMaxHeight
    LastStart <- MCLastStart
    MaxProposals = 1
INVARIANTS
    TalliesMatchBallots
    RunsElected
PROPERTIES
    OutcomeFinal
CHECK_DEADLOCK FALSE
