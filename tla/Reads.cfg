\* Two keys, two agents, one of which reads the other, an administrator, strangers.
SPECIFICATION Spec
CONSTANTS
    Resolution = 1
    a = a
    b = b
    adm = adm
    Agents = {a, b, adm}
    NoAgent = noAgent
    Scopes <- MCScopes
    NoScopes = noScopes
    Requests <- MCRequests
    Keys = {k1, k2}
    NoKey = noKey
    Tags = {t1}
    Bounds = {0, 2}
    MaxCount = 1
    MaxTick = 3
    MaxLog = 3
SYMMETRY Symmetry
INVARIANTS TypeOK HistoryLive RecallAgrees
PROPERTIES OthersLiveKept
CHECK_DEADLOCK FALSE
