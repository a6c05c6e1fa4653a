\* Two sessions of one address, up to three shares under way, of which the best is a
\* block; one step fails.
CONSTANTS
    s1 = s1
    s2 = s2
    Session = {s1, s2}
    Payout <- OneAddress
    MaxDifficulty = 3
    NetworkDifficulty = 3
    MaxShares = 3
    MaxFailures = 1

SPECIFICATION Spec

INVARIANTS
    TypeOK
    FoundAreAccepted
    WinsAreFound
    ReportsAreConfirmed
    BestsAreBest
    AcceptedIsCounted

\* All shares may be done with.
CHECK_DEADLOCK FALSE
