\* The bound of the documentation, without the sample in hand.
SPECIFICATION Spec
CONSTANTS
    N = 5
    PendingCap = 1
    R = 1
    T = 1
    StaleNum = 1
    StaleDen = 1
    Slots = 1
    TestFreq = 2
    Failing = {}
INVARIANTS
    RolloutNumBound
