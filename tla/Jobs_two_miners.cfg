\* Two miners that authorize once, three templates and three jobs at two heights.
CONSTANTS
    s1 = s1
    s2 = s2
    a1 = a1
    a2 = a2
    Session = {s1, s2}
    Address = {a1, a2}
    Nonce = {}
    Spelling = {}
    MaxTip = 2
    Height <- GrowingHeights
    Lifetime = 0
    Reauthorize = FALSE
    MaxTemplates = 4
    MaxJobs = 4
    MaxCalls = 2
    MaxShares = 0
    MaxClock = 0

SPECIFICATION Spec

INVARIANTS
    TypeOK
    LiveTemplatesOneHeight
    AttestationBound

PROPERTIES
    CleanOnNewHeight

\* The bounds stop the model; the pool goes on.
CHECK_DEADLOCK FALSE
