CONSTANTS
    Regions <- MCRegions
    Paths <- MCPaths
    Ends <- MCEnds
    Units <- MCUnits
    Config <- MCConfig
    RegionConfig <- MCRegionConfig
    OrderChoices <- MCOrders
    MaxTurns = 3
    HiddenUntil = 1
    FirstLightView = "fangorn"
SPECIFICATION Spec
INVARIANTS ActiveUnitsAreReal
PROPERTIES DestroyedStaysDestroyed
CHECK_DEADLOCK FALSE
