\* No staleness allowed; two batches of one sample per weight update.
SPECIFICATION Spec
CONSTANTS
    N = 5
    PendingCap = 2
    R = 1
    T = 2
    StaleNum = 0
    StaleDen = 1
    Slots = 2
    TestFreq = 2
    Failing = {3}
INVARIANTS
    SynchronousWhenZero
