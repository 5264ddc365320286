\* Two keys, room for one live memory; expiry, prune, rescans that skip what expired.
SPECIFICATION Spec
CONSTANTS
    Resolution = 2
    Writers = {d}
    Maintainers = {d}
    Keys = {k1, k2}
    NoKey = none
    Tags = {}
    TTLs = {0, 1}
    Bounds = {0, 4}
    Moments <- MCMoments
    MaxCount = 1
    MayFail = FALSE
    MaxTick = 6
    MaxLog = 3
INVARIANTS RescanKeepsAnswers SoftCeiling
CHECK_DEADLOCK FALSE
