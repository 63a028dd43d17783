\* Two requests of different sides under one identifier, events of four topics.
SPECIFICATION FairSpec
CONSTANTS
    NoClient = NoClient
    Streams = {"position", "detection", "snapshots", "units"}
    Connections = {"light1", "dark1"}
    TopicOf <- MCTopicOf
    Side <- MCSide
    PlayerID <- MCPlayerID
    SideCap = 1
    ClientCap = 1
    ConnCap = 1
    MaxEvents = 2
    MaxRebalances = 1
INVARIANTS TypeOK EachSideItsOwn OpenIsRegistered
PROPERTIES DeliveredInOrder NobodyWaits
CHECK_DEADLOCK FALSE
