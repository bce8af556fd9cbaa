CONSTANTS
    None = None
    NaN = NaN
    Lake = Lake
    Pond = Pond
    P1 = P1
    P2 = P2
    Own1 = Own1
    Default1 = Default1
    C1 = C1
    C2 = C2
    Procs = {P1, P2}
    Reaches <- MCReaches
    FlowpathOf <- MCFlowpathOf
    WaterBodies = {Lake, Pond}
    BodyFiles <- MCBodyFiles
    Networks <- MCNetworks
    Lookups = {Own1, Default1}
    Contents = {C1, C2}
    AOIs <- MCAOIs
    MaxCommands = 7
    MaxKills = 1
    MaxFaults = 1
SYMMETRY MCSymmetry

SPECIFICATION Spec
INVARIANT TypeOK
INVARIANT IntentIsAccepted
INVARIANT IntentIsClosed
INVARIANT PublishedIsCurrent
INVARIANT OutflowsArePublished
INVARIANT LookupsAreReadable
PROPERTY StagedIsKept
CHECK_DEADLOCK FALSE
