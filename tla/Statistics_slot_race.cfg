\* Submissions that overlap at a change of slot.
CONSTANTS
    MaxSlot = 3
    MaxShares = 3
    MaxQueue = 3
    MaxFailures = 0

SPECIFICATION Spec

INVARIANTS
    CountersHonest

\* The bounds stop the model; the session goes on.
CHECK_DEADLOCK FALSE
