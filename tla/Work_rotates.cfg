\* Ticks of half a second: local work every tick, templates every two seconds, a retarget
\* every three; eight rotations; a mintime up to two seconds ahead of the clock.
CONSTANTS
    TicksPerSecond = 2
    MinGap = 1
    WorkPeriod = 1
    RefreshPeriod = 4
    DifficultyPeriod = 6
    PoolBits = {13, 14, 15}
    MaxLead = 2
    MaxTransactions = 6
    MaxTip = 2
    MaxCalls = 1
    MaxWrites = 2

SPECIFICATION Spec

INVARIANTS
    TypeOK
    SpacesApart
    RetargetIsNew
    BlockIsWhatWasMined

\* The chain stops with all writes pending.
CHECK_DEADLOCK FALSE
