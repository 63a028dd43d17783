\* Kafka makes no error and nothing crashes.
SPECIFICATION FairSpec
CONSTANTS
    ProducerCap = 1
    OrderCap = 1
    MaxMessages = 3
    MaxErrors = 0
    MaxCrashes = 0
PROPERTY GameOverIsWritten
CHECK_DEADLOCK FALSE
