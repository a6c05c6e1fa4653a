\* One session that authorizes again with another address and sends a solution,
\* in two spellings, for any job issued; templates and jobs expire after one tick.
CONSTANTS
    s1 = s1
    a1 = a1
    a2 = a2
    n1 = n1
    p1 = p1
    p2 = p2
    Session = {s1}
    Address = {a1, a2}
    Nonce = {n1}
    Spelling = {p1, p2}
    MaxTip = 2
    Height <- GrowingHeights
    Lifetime = 0
    Reauthorize = TRUE
    MaxTemplates = 4
    MaxJobs = 3
    MaxCalls = 2
    MaxShares = 2
    MaxClock = 1

SPECIFICATION Spec

SYMMETRY Symmetry

INVARIANTS
    AcceptedOnce

PROPERTIES
    ImplementsLedger

\* The bounds stop the model; the pool goes on.
CHECK_DEADLOCK FALSE
