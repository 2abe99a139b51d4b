SPECIFICATION FairSpec
CONSTANTS
    c1 = c1
    c2 = c2
    c3 = c3
    Contract = {c1, c2}
    Cost <- UnitCost
    Preheld = {}
    Strategy = {s1}
    ReconStrategy = recon
    MaxPositions = 2
    MaxPremium = 3
    BrokerTruth = FALSE
    UseApi = FALSE
    Env = {"sellFails", "lostReply", "days", "readFail", "racySync", "buyFails", "killSwitch"}
    CycleN = 1
    MaxRows = 2
    MaxLots = 2
PROPERTIES TimeStopCloses
