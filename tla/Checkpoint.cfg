\* Three versions of two batches of one sample each, and a sample over; every
\* version is saved, and any may be saved early.  All checkpoints are kept, or
\* two, or one.  Two crashes at any moment.  A run ends when training has ended or
\* cannot be resumed.
SPECIFICATION FairSpec
CONSTANTS
    N = 7
    R = 1
    T = 2
    SaveFreq = 1
    Window = 3
    Keeps = {0, 1, 2}
    MaxCrashes = 2
CHECK_DEADLOCK FALSE
INVARIANTS
    TypeOK
    TrackedComplete
    SomeCheckpoint
    NoSampleTwice
    LabelHonest
    SkippedBound
PROPERTIES
    TrainingEnds
