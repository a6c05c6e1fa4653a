\* Two sessions on any of two workers or on one, two shares under way each, two failures,
\* two crashes.
CONSTANTS
    s1 = s1
    s2 = s2
    w0 = w0
    w1 = w1
    Session = {s1, s2}
    Worker = {w0, w1}
    First = w0
    MaxShares = 2
    MaxFailures = 2
    MaxCrashes = 2

SPECIFICATION FairSpec

INVARIANTS
    TypeOK
    InsertedOnce
    RecentIsShown

PROPERTIES
    GoneDisappears

\* Sessions may all have gone.
CHECK_DEADLOCK FALSE
