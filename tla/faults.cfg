CONSTANTS
    N = 2
    None = None
    Reaches <- MCReaches
    Terminals <- MCTerminals
    Below <- MCBelow
    Models = {1}
    Discharges = {1}
    Stages <- MCStages
    Intents <- MCIntents1
    AdoptedOf <- MCAdoptedOf
    PlanOf <- MCPlanOf
    JobIds = {1, 2, 3, 4}
    HaltAfter = 1
    Forever = TRUE
    MaxEdits = 1
    MaxWithdrawals = 0
    MaxLookups = 0
    MaxFaults = 1
    MaxCrashes = 1

SPECIFICATION Spec
INVARIANT TypeOK
INVARIANT RecordedIsStored
INVARIANT ParkedIsIdle
INVARIANT MarkersNameTheirJobs
INVARIANT JobsHaveInputs
