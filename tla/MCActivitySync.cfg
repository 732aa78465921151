\* Three administrators publish three products through a ZooKeeper that fails.
CONSTANTS
    Admins = {a1, a2, a3}
    Products = {p1, p2, p3}
    Faulty = TRUE
SPECIFICATION Spec
SYMMETRY Symmetry
INVARIANTS
    TypeOK
    AtMostTwoPublished
PROPERTIES
    LoadedWriteExtends
    EmptyLoadDropsOne
