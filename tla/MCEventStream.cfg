\* Three events, some of them equal records, for two rows; two failures.
CONSTANTS
    Records = {r1, r2}
    Limit = 2
    MaxEvents = 3
    MaxFailures = 2
    MaxBackoff = 2
    None = None
SPECIFICATION FairSpec
INVARIANTS RowsAreNewest StreamSound
PROPERTIES EffectsAreEarned CatchesUp
CHECK_DEADLOCK FALSE
