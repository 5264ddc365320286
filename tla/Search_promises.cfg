\* Of three memories one has the tag a search as of the first second asks for.
SPECIFICATION Spec
CONSTANTS
    Resolution = 1
    Keys <- MCKeys
    Tags = {work}
    Agents <- MCAgents
    Writes <- MCTaggedWrites
    Asks <- MCTaggedAsks
    Setups <- MCSetups
    MaxTick = 2
    MaxLines = 3
INVARIANTS SomePromiseKept
CHECK_DEADLOCK FALSE
