\* Three turns, three entries: a cache that outlives the rows it was loaded from.
SPECIFICATION Spec
CONSTANTS
    Resolution = 1
    Keys <- MCKeys
    Tags = {}
    Agents <- MCAgents
    Writes <- MCWrites
    Asks <- MCAsks
    Setups <- MCSetups
    MaxTick = 3
    MaxLines = 3
INVARIANTS TypeOK MomentHonoured WordMatchAnswered FilledWhenFresh TurnsInOrder
CHECK_DEADLOCK FALSE
