SPECIFICATION FairBlockingSpec
CONSTANTS
    Configs <- ConfigsUsed
    NoData = NoData
INVARIANTS
    AssertionsHold
    RoomForSize
    UnitsMatch
    CountsItems
PROPERTIES
    RWQImplementsFifo
    SleeperIsWoken
