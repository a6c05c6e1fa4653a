\* Two connections for each server, two overloads, three checks to resume.
CONSTANTS
    MaxConnections = 2
    HealthyChecks = 3
    MaxOverloads = 2

SPECIFICATION FairSpec

INVARIANTS
    TypeOK

PROPERTIES
    OverloadStopsAccepting
    ResumeIsEarned
    Recovers
