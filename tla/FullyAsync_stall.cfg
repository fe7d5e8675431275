\* Two generation slots against one stale sample allowed.
SPECIFICATION FairSpec
CONSTANTS
    N = 3
    PendingCap = 1
    R = 1
    T = 1
    StaleNum = 1
    StaleDen = 1
    Slots = 2
    TestFreq = 2
    Failing = {}
PROPERTIES
    TrainerStops
