CONSTANTS
    Regions <- MCRegions
    Paths <- MCPaths
    Ends <- MCEnds
    Units <- MCUnits
    Config <- MCConfig
    RegionConfig <- MCRegionConfig
    OrderChoices <- MCOrders
    MaxTurns = 3
    HiddenUntil = 1
    FirstLightView = "shire"
SPECIFICATION Spec
INVARIANTS TypeOK CaptureIsCertain NoCaptureWhileHidden LightViewIsTrue
PROPERTIES RingBearerPace OnlyOrdersReveal GameOverIsFinal ImplementsLifecycle
CHECK_DEADLOCK FALSE
