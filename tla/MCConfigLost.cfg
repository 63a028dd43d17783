SPECIFICATION Spec
CONSTANTS
    frodo = frodo
    saruman = saruman
    shire = shire
    road = road
    NoUnit = NoUnit
    Keys <- MCKeys
    Values <- MCValues
    Ids <- MCIds
    UnitsFiles <- MCUnitsFiles
    MapFiles <- MCMapFiles
INVARIANT FieldsAreRead
CHECK_DEADLOCK FALSE
