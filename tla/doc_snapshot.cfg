CONSTANTS
    None = None
    N = 2
    Reaches <- MCReaches
    Below <- MCBelow
    Own = {1, 2}
    WithFlows = {1}
    Models = {1, 2}
    Tables <- MCTables
    MaxChecks = 1
    MaxLosses = 1
    MaxKills = 1

SPECIFICATION Spec
INVARIANT ExportIsASnapshot
