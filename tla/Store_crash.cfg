\* One server that may fail at every step, rescans; validities of every kind, a tag.
SPECIFICATION Spec
CONSTANTS
    Resolution = 2
    Writers = {d}
    Maintainers = {d}
    Keys = {k1}
    NoKey = none
    Tags = {a}
    TTLs = {0}
    Bounds = {0, 3, 4}
    Moments <- MCMoments
    MaxCount = 2
    MayFail = TRUE
    MaxTick = 5
    MaxLog = 3
INVARIANTS TypeOK OneAnswer OrderedOneRow HistoryReconstructible HistoryKept
CHECK_DEADLOCK FALSE
