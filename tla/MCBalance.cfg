\* Lists of up to six instances; more selections than one round of each.
CONSTANTS
    Lists <- ShortLists
    MaxServed = 12
SPECIFICATION Spec
INVARIANTS
    TypeOK
    CurIsDebt
    CurStaysSmall
    RoundsAreExact
