\* Two workers; a text without entries, one with a malformed line, and a good one.
CONSTANTS
    Worker = {w1, w2}
    Explorer = {e1, e2}
    Malformed = bad
    Text = {{bad}, {e1, bad}, {e2}}
    Block = {b1}
    Ttl = 2
    MaxCrashes = 1
    MaxSaveFailures = 1
    Unreachable = Unreachable
    Idle = Idle
    Asked = Asked

SPECIFICATION FairSpec

INVARIANTS
    TypeOK
    ListIsThere
    ConfirmsItsOwn

PROPERTIES
    NeverWipedOut
    FollowsRegistry
