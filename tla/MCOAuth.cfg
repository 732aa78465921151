\* Two connections, tokens that expire at seconds 0 and 1, a burst of two.
CONSTANTS
    Requests = {r1, r2}
    Expiries = {0, 1}
    Burst = 2
    MaxNow = 5
    None = None
SPECIFICATION Spec
SYMMETRY Symmetry
\* The process stops when it panics and the clock at its bound.
CHECK_DEADLOCK FALSE
INVARIANTS
    TypeOK
    LimiterBound
PROPERTIES
    ExpiryIsFinal
