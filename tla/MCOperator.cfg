CONSTANTS
    Tables <- GatewayTables
    Starts <- MCStarts
    Fragments <- MCFragments
    Offers <- MCOffers
    MaxEdits = 1
    MaxApplies = 1
    MaxTiers = 3
    MaxDeployments = 2
    MaxRouteModels = 2
    Models = {"m1", "m2"}
    MaxItems = 2
    Commands = {"setup", "rollback"}
    Projects = {"p1"}
    MaxSpend = 2
    MaxReloads = 1
    MaxCrashes = 2
    Servers = {"g1", "g2"}
    MaxMeddles = 1
SPECIFICATION MCSpec
INVARIANTS RunningIsSound EvidenceIsEarned SetupConsistent StartFindsWholeFiles
PROPERTIES AppliedRoutingRuns RevokedKeyExpires
CHECK_DEADLOCK FALSE
