\* Two callers race for two services; the instance of one comes, goes and
\* sickens.
CONSTANTS
    Callers = {c1, c2}
    Services = {s1, s2}
    Instances = {i1}
    Moving = {s1}
    MaxChanges = 2
    None = None
    Free = Free
SPECIFICATION SteadySpec
\* With the mutex leaked and no poll failing, nobody moves any more.
CHECK_DEADLOCK FALSE
INVARIANTS
    TypeOK
    WatchedOnce
PROPERTIES
    OnlyWatchChangesWarm
    LeakIsPermanent
    ImplementsServiceCache
    CallsReturnUnlessLeaked
    CacheConverges
