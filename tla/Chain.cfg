\* Writes cut short anywhere and edits by hand, with restarts, two days, and a log that may start before the chain.
SPECIFICATION Spec
CONSTANTS
    Writers = {p}
    Keys = {k1, k2}
    Attrs = {ttl}
    Bodies = {body}
    Edited = edited
    Days = 2
    ClockBack = FALSE
    Legacy = TRUE
    MaxBlocks = 4
    MaxTears = 1
    MaxEdits = 1
SYMMETRY Symmetry
INVARIANTS TypeOK WrittenHolds FailureHarmless TamperEvident TearCostsOne DamageShown InnerEditsShown
CHECK_DEADLOCK FALSE
