\* One oauth-service with a configured id.
CONSTANTS
    Servers = {auth}
    Gateways = {}
    InstanceId <- OwnIds
    MaxStarts = 1
    None = None
SPECIFICATION Spec
CHECK_DEADLOCK FALSE
INVARIANTS
    ExitUnregisters
