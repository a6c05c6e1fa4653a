\* Two sessions on any of two addresses, two tips that may share a height, one failure.
CONSTANTS
    s1 = s1
    s2 = s2
    a1 = a1
    a2 = a2
    Session = {s1, s2}
    Address = {a1, a2}
    MaxTip = 2
    MaxCalls = 2
    MaxFailures = 1

SPECIFICATION FairSpec

INVARIANTS
    TypeOK

PROPERTIES
    WorkSettles
    BlocksAreNoticed

\* The bounds stop the chain, and sessions may all have gone.
CHECK_DEADLOCK FALSE
