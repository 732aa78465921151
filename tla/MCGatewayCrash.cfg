\* Two connections and one service, which is also asked about tokens.
CONSTANTS
    Callers = {r1, r2}
    Services = {oauth}
    Instances = {i1}
    MaxChanges = 0
    None = None
    Free = Free
    OAuth = oauth
SPECIFICATION GatewaySpec
CHECK_DEADLOCK FALSE
INVARIANTS
    FailureFallsBack
