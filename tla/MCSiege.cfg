CONSTANTS
    Regions <- MCRegions
    Paths <- MCPaths
    Ends <- MCEnds
    Units <- MCUnits
    Config <- MCConfig
    RegionConfig <- MCRegionConfig
    OrderChoices <- MCOrders
    MaxTurns = 3
    HiddenUntil = 1
    FirstLightView = "edoras"
SPECIFICATION Spec
INVARIANTS BlockHasBlocker
PROPERTIES SurveillanceGrows
CHECK_DEADLOCK FALSE
