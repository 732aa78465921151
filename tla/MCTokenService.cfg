\* Two requests of one user; access tokens last a second, refresh tokens two.
CONSTANTS
    Requests = {r1, r2}
    Users = {u1}
    AccessValidity = 0
    RefreshValidity = 1
    MaxNow = 3
    MaxSerial = 4
    None = None
SPECIFICATION NoGrantRaceSpec
SYMMETRY Symmetry
\* At the bounds of the clock and of the creations everything may stand still.
CHECK_DEADLOCK FALSE
INVARIANTS
    TypeOK
    NoStrayAccess
    UsedStaysUsed
    CurrentIsRefreshable
PROPERTIES
    ImplementsSessions
