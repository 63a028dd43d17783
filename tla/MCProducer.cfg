\* Three messages of any callers, two errors of Kafka and a crash.
SPECIFICATION FairSpec
CONSTANTS
    ProducerCap = 1
    OrderCap = 1
    MaxMessages = 3
    MaxErrors = 2
    MaxCrashes = 1
INVARIANTS TypeOK OneTransaction CallersInOrder
PROPERTIES LossHasReason WrittenAtMostOnce CallersReturn
CHECK_DEADLOCK FALSE
