CONSTANTS
    N = 1
    None = None
    Reaches <- MCReaches
    Terminals <- MCTerminals
    Below <- MCBelow
    Models = {1}
    Discharges = {1, 2}
    Stages <- MCStages
    Intents <- MCIntents2
    AdoptedOf <- MCAdoptedOf
    PlanOf <- MCPlanOf
    JobIds = {1, 2, 3, 4}
    HaltAfter = 1
    Forever = TRUE
    MaxEdits = 2
    MaxWithdrawals = 0
    MaxLookups = 0
    MaxFaults = 1
    MaxCrashes = 0

SPECIFICATION FairSpec
PROPERTY BumpingUnparks
