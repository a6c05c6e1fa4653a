\* Any kind of miner; difficulties of twelfths; words of eight bits. Of the measured
\* difficulties 1536 and 2400 are beyond a positive word.
CONSTANTS
    Scale = 12
    Factor = 12
    MinDifficulty = 1
    WordBits = 8
    MaxTarget = 2400
    MaxDepth = 5
    UserAgent = {"normal", "hobby", "cpuminer"}
    InitialDifficulty = 96
    HobbyDifficulty = 2
    CpuDifficulty = 4
    StartingDiff = {0, 192}
    Suggestion = {0, 48, 240}
    Measured = {0, 7, 210, 1536, 2400}

SPECIFICATION Spec

INVARIANTS
    TypeOK
    ToldIsChecked
    CurrentWorkCounts
    StartedOnce
    NoWorkAfterClose

PROPERTIES
    RetargetFits

\* A closed session does nothing.
CHECK_DEADLOCK FALSE
