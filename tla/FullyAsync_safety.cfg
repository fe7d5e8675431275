\* Batches of one sample, a weight update per batch and one stale version:
\* at most two samples outstanding.  Sample 2 may fail; with five samples the
\* queue can overflow in mid-stream and behind the end marker.
SPECIFICATION Spec
CONSTANTS
    N = 5
    PendingCap = 1
    R = 1
    T = 1
    StaleNum = 1
    StaleDen = 1
    Slots = 2
    TestFreq = 2
    Failing = {2}
INVARIANTS
    FreshInv
    FreshnessBound
    EverySampleInOnePlace
    StopIsComplete
    SentinelSurvives
PROPERTIES
    ImplementsPipeline
