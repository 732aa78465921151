\* Two connections, the OAuth service and one other, whose instance may leave.
CONSTANTS
    Callers = {r1, r2}
    Services = {oauth, shop}
    Instances = {i1}
    MaxChanges = 1
    None = None
    Free = Free
    OAuth = oauth
SPECIFICATION SafetySpec
SYMMETRY Symmetry
\* The process stops when it panics, and when every request is answered.
CHECK_DEADLOCK FALSE
INVARIANTS
    GatewayTypeOK
    NoEmptyReply
    UpstreamHeaderIsEarned
PROPERTIES
    LeakStarvesService
    FilterNeedsOAuth
