SPECIFICATION Spec
CONSTANTS
    c1 = c1
    c2 = c2
    c3 = c3
    Contract = {c1, c2, c3}
    Cost <- RisingCost
    Preheld = {c1}
    Strategy = {s1}
    ReconStrategy = recon
    MaxPositions = 2
    MaxPremium = 4
    BrokerTruth = TRUE
    UseApi = FALSE
    Env = {"crash", "sellFails", "noStatus"}
    CycleN = 2
    MaxRows = 3
    MaxLots = 1
INVARIANTS OneLotPremiumCeiling
