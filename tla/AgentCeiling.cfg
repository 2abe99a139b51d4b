SPECIFICATION Spec
CONSTANTS
    c1 = c1
    c2 = c2
    c3 = c3
    Contract = {c1, c2}
    Cost <- UnitCost
    Preheld = {}
    Strategy = {s1}
    ReconStrategy = recon
    MaxPositions = 1
    MaxPremium = 3
    BrokerTruth = TRUE
    UseApi = FALSE
    Env = {"crash", "wipe", "rowFails", "racySync", "noStatus", "buyFails", "sellFails"}
    CycleN = 2
    MaxRows = 3
    MaxLots = 2
INVARIANTS TypeOK PositionCeiling ViewCoversAccount ReconstructedOnce
PROPERTIES RefinesAccountBook SyncKeepsOpenRows SyncFreesSlots
