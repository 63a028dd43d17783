\* One game without resets, in which every goroutine that can go on does.
CONSTANTS
    Regions <- MCRegions
    Paths <- MCPaths
    Ends <- MCEnds
    Units <- MCUnits
    Config <- MCConfig
    RegionConfig <- MCRegionConfig
    OrderChoices <- MCOrders
    Players <- MCPlayers
    PlayerSide <- MCPlayerSide
    Submissions <- MCOneOrder
    Requests = {"START_GAME"}
    NotAString = NotAString
    Partitions <- MCPartitions
    PartitionOf <- MCPartitionOf
    WithKafka = TRUE
    HttpCap = 1
    EngineCap = 1
    MaxRebalances = 1
    MaxSent = 2
    MaxTurns = 2
    HiddenUntil = 2
    FirstLightView = "ithilien"
SPECIFICATION FairIntakeSpec
INVARIANTS RefusalHasReason
PROPERTIES OrdersAreHandled PlayedGameEnds
CHECK_DEADLOCK FALSE
