CONSTANTS
    N = 2
    None = None
    Reaches <- MCReaches
    Terminals <- MCTerminals
    Below <- MCBelow
    Models = {1}
    Discharges = {1}
    Stages <- MCStages
    Intents <- MCIntents1
    AdoptedOf <- MCAdoptedOf
    PlanOf <- MCPlanOf
    JobIds = {1, 2, 3, 4}
    HaltAfter = 2
    Forever = TRUE
    MaxEdits = 1
    MaxWithdrawals = 0
    MaxLookups = 0
    MaxFaults = 1
    MaxCrashes = 1

SPECIFICATION FairSpec
PROPERTY Converges
PROPERTY RequestsAreHonoured
INVARIANT SomebodyCanMove
PROPERTY BackOffIsKept
