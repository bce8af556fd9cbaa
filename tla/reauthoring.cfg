CONSTANTS
    N = 1
    None = None
    Reaches <- MCReaches
    Terminals <- MCTerminals
    Below <- MCBelow
    Models = {1, 2}
    Discharges = {1}
    Stages <- MCStages
    Intents <- MCIntentsM
    AdoptedOf <- MCAdoptedOf
    PlanOf <- MCPlanOf
    JobIds = {1, 2, 3, 4}
    HaltAfter = 1
    Forever = TRUE
    MaxEdits = 3
    MaxWithdrawals = 1
    MaxLookups = 1
    MaxFaults = 0
    MaxCrashes = 0

SPECIFICATION FairSpec
INVARIANT OneBuilderDespiteDeletion
PROPERTY AppliedSettles
INVARIANT FinishedAnswersIntent
PROPERTY RunningMarkersAreKept
INVARIANT JobsHaveInputs
