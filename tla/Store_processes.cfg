\* Two stdio sessions without a server and a rescan from the command line.
SPECIFICATION Spec
CONSTANTS
    Resolution = 2
    Writers = {s1, s2}
    Maintainers = {c}
    Keys = {k1}
    NoKey = none
    Tags = {}
    TTLs = {0}
    Bounds = {0, 4}
    Moments <- MCMoments
    MaxCount = 2
    MayFail = TRUE
    MaxTick = 4
    MaxLog = 3
INVARIANTS WriteAhead OneBelief
CHECK_DEADLOCK FALSE
