SPECIFICATION Spec
CONSTANTS
    c1 = c1
    c2 = c2
    c3 = c3
    Contract = {c1, c2}
    Cost <- UnitCost
    Preheld = {}
    Strategy = {s1}
    ReconStrategy = recon
    MaxPositions = 1
    MaxPremium = 3
    BrokerTruth = TRUE
    UseApi = TRUE
    Env = {}
    CycleN = 1
    MaxRows = 2
    MaxLots = 1
INVARIANTS PositionCeiling
