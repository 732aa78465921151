\* One administrator, a ZooKeeper that never fails.
CONSTANTS
    Admins = {a1}
    Products = {p1, p2, p3}
    Faulty = FALSE
SPECIFICATION Spec
INVARIANT SyncedIsPublished
