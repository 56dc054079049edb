SPECIFICATION BlockingSpec
CONSTANTS
    Configs <- ConfigsEmpty
    NoData = NoData
INVARIANT
    AssertionsHold
