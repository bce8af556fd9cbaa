CONSTANTS
    None = None
    Reaches = {1, 2}
    Below <- MCBelow
    Bands <- MCBands
    QGrid = 2
    Scale = 120
    OnGrid <- MCOnGrid
    Intents <- MCIntents
    Share <- MCShare
    MaxEdits = 1
    Worlds <- MCWorlds
    Raised <- MCRaised

SPECIFICATION Spec
CHECK_DEADLOCK FALSE
INVARIANT TypeOK
INVARIANT AdoptedIsCheapest
INVARIANT HolesCanBeFilled
INVARIANT InputsAreThere
INVARIANT StagesAreCovered
