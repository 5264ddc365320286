\* One key, a tag, a time to live: three facts of every mix of validities.
SPECIFICATION Spec
CONSTANTS
    Resolution = 2
    Keys = {k1}
    Tags = {a}
    TTLs = {0, 1}
    Bounds = {0, 4}
    Moments <- MCMoments
    MaxTick = 5
    MaxLines = 3
INVARIANTS TypeOK TableShape OneAnswer
PROPERTIES PastFrozen NoResurrection Refinement
CHECK_DEADLOCK FALSE
