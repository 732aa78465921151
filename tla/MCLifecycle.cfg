\* A gateway without an id, one life, and an oauth-service with one, two lives.
CONSTANTS
    Servers = {gw, auth}
    Gateways = {gw}
    InstanceId <- OAuthIds
    MaxStarts = 2
    None = None
SPECIFICATION InTurnSpec
\* Nothing is left to do when every process is down for good.
CHECK_DEADLOCK FALSE
INVARIANTS
    TypeOK
    CleanExitUnregisters
    ServingIsRegistered
PROPERTIES
    StopsWhenAsked
    RegistryConverges
