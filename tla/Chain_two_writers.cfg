\* Two stdio sessions without a server.
SPECIFICATION Spec
CONSTANTS
    Writers = {p, q}
    Keys = {k1, k2}
    Attrs = {ttl}
    Bodies = {body}
    Edited = edited
    Days = 1
    ClockBack = FALSE
    Legacy = FALSE
    MaxBlocks = 3
    MaxTears = 0
    MaxEdits = 0
SYMMETRY Symmetry
INVARIANTS WrittenHolds
CHECK_DEADLOCK FALSE
