CONSTANTS
    Regions <- MCRegions
    Paths <- MCPaths
    Ends <- MCEnds
    Units <- MCUnits
    Config <- MCConfig
    RegionConfig <- MCRegionConfig
    OrderChoices <- MCOrders
    Players <- MCPlayers
    PlayerSide <- MCPlayerSide
    Submissions <- MCSubmissions
    Requests = {"START_GAME", "RESET_GAME"}
    NotAString = NotAString
    Partitions <- MCPartitions
    PartitionOf <- MCPartitionOf
    WithKafka = TRUE
    HttpCap = 1
    EngineCap = 1
    MaxRebalances = 0
    MaxSent = 3
    MaxTurns = 2
    HiddenUntil = 2
    FirstLightView = "ithilien"
SPECIFICATION IntakeSpec
INVARIANTS IntakeTypeOK OrdersAreOwn
PROPERTIES IntakeImplementsEngine VictoryIsOrdered
CHECK_DEADLOCK FALSE
