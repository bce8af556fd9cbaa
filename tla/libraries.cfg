CONSTANTS
    N = 2
    None = None
    Reaches <- MCReaches
    Terminals <- MCTerminals
    Below <- MCBelow
    Models = {1}
    Discharges = {1, 2}
    Stages <- MCStages
    Intents <- MCIntents3
    AdoptedOf <- MCAdoptedOf
    PlanOf <- MCPlanOf
    JobIds = {1, 2, 3, 4}
    HaltAfter = 1
    Forever = FALSE
    MaxEdits = 2
    MaxWithdrawals = 0
    MaxLookups = 0
    MaxFaults = 0
    MaxCrashes = 0

SPECIFICATION FairSpec
INVARIANT AppliedMatchesIntent
INVARIANT StaleIsNoticed
PROPERTY LibrariesSettle
PROPERTY KeepsLedger
