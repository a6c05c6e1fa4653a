\* Three slots of three shares, up to three submissions at once, two failures.
CONSTANTS
    MaxSlot = 3
    MaxShares = 3
    MaxQueue = 3
    MaxFailures = 2

SPECIFICATION Spec

INVARIANTS
    TypeOK
    HonestUnlessRaced

\* The bounds stop the model; the session goes on.
CHECK_DEADLOCK FALSE
