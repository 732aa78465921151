\* Two connections, the OAuth service and one other, every instance healthy.
CONSTANTS
    Callers = {r1, r2}
    Services = {oauth, shop}
    Instances = {i1}
    MaxChanges = 0
    None = None
    Free = Free
    OAuth = oauth
SPECIFICATION QuietSpec
\* The process stops when it panics.
CHECK_DEADLOCK FALSE
PROPERTIES
    RequestsAnswered
    WorkEndsUnlessLeaked
