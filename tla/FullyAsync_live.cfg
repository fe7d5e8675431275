\* One generation slot, so that max_concurrent_samples does not exceed the
\* stale samples allowed.
SPECIFICATION FairSpec
CONSTANTS
    N = 4
    PendingCap = 2
    R = 1
    T = 1
    StaleNum = 1
    StaleDen = 1
    Slots = 1
    TestFreq = 2
    Failing = {3}
PROPERTIES
    DrainEnds
    TrainerStops
