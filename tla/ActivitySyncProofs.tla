------------------------- MODULE ActivitySyncProofs -------------------------
(***************************************************************************)
(* Theorems about ActivitySync for every number of administrators and      *)
(* products and for a ZooKeeper that fails or not.                         *)
(***************************************************************************)
EXTENDS ActivitySync, TLAPS

\* What a holds while it publishes: a list as old as its Stat.
Holds(a) ==
    /\ stat[a] <= znode.version
    /\ stat[a] = Absent => Len(list[a]) = 1
    /\ stat[a] = 0 => Len(list[a]) <= 2
    /\ stat[a] # Absent /\ stat[a] = znode.version
          => list[a] = Append(znode.data, product[a])

\* AtMostTwoPublished is not inductive: the length of what Set writes depends
\* on what the writer loaded, and when.
SyncInv ==
    /\ TypeOK
    /\ znode.version \in {Absent, 0, 1}
    /\ Len(znode.data) <= znode.version + 1
    /\ \A a \in Admins : pc[a] # "idle" => Holds(a)

LEMMA AppendFacts ==
    \A l \in Seq(Products), p \in Products :
        /\ Append(l, p) \in Seq(Products)
        /\ Len(Append(l, p)) = Len(l) + 1
        /\ Prefix(l, Append(l, p))
BY DEF Prefix

LEMMA InvInit == Init => SyncInv
BY DEF Init, SyncInv, TypeOK, Absent

LEMMA InvLoad ==
    ASSUME SyncInv, NEW a \in Admins, NEW p \in Products,
           Load(a, p) \/ LoadNothing(a, p)
    PROVE  SyncInv'
<1> USE DEF SyncInv, TypeOK, Holds, Absent
<1>1. CASE Load(a, p)
  <2>1. Append(znode.data, p) \in Seq(Products)
    BY AppendFacts
  <2>2. Len(Append(znode.data, p)) = Len(znode.data) + 1
    BY AppendFacts
  <2> QED
    BY <1>1, <2>1, <2>2 DEF Load, Loaded, NodeExists
<1>2. CASE LoadNothing(a, p)
  <2>1. Append(<<>>, p) \in Seq(Products) /\ Len(Append(<<>>, p)) = 1
    OBVIOUS
  <2>2. -1 <= znode.version
    OBVIOUS
  <2> QED
    BY <1>2, <2>1, <2>2 DEF LoadNothing, Loaded
<1> QED
  BY <1>1, <1>2

LEMMA InvCheck ==
    ASSUME SyncInv, NEW a \in Admins, CheckExists(a)
    PROVE  SyncInv'
<1>1. exists' \in [Admins -> BOOLEAN]
  BY FaultyIsBoolean DEF SyncInv, TypeOK, CheckExists, NodeExists
<1> QED
  BY <1>1 DEF SyncInv, TypeOK, Holds, CheckExists

LEMMA InvPut ==
    ASSUME SyncInv, NEW a \in Admins, Set(a) \/ Create(a) \/ PutFails(a)
    PROVE  SyncInv'
<1>a. pc[a] = "put"
  BY DEF Set, Create, PutFails
<1>b. Holds(a)
  BY <1>a DEF SyncInv
<1> USE DEF SyncInv, TypeOK, Holds, Absent, Succeed
<1>1. CASE Set(a)
  <2>1. znode.version = 0 /\ znode' = [data |-> list[a], version |-> 1]
    BY <1>1 DEF Set
  <2>2. stat[a] \in {-1, 0}
    BY <1>b, <2>1
  <2>3. Len(list[a]) <= 2
    <3>1. CASE stat[a] = -1
      <4>1. Len(list[a]) = 1
        BY <1>b, <3>1
      <4> HIDE DEF SyncInv, TypeOK, Holds
      <4> QED
        BY <4>1
    <3>2. CASE stat[a] = 0
      BY <1>b, <3>2
    <3> QED
      BY <2>2, <3>1, <3>2
  <2>4. TypeOK'
    BY <1>1, <2>1 DEF Set
  <2>5. ASSUME NEW b \in Admins, pc'[b] # "idle"
        PROVE  Holds(b)'
    <3>1. b # a /\ Holds(b)
      BY <1>1, <2>5 DEF Set
    <3> QED
      BY <1>1, <2>1, <3>1 DEF Set
  <2> QED
    BY <2>1, <2>3, <2>4, <2>5
<1>2. CASE Create(a)
  <2>1. znode.version = -1 /\ znode' = [data |-> list[a], version |-> 0]
    BY <1>2 DEF Create, NodeExists
  <2>2. Len(list[a]) = 1
    BY <1>b, <2>1
  <2>3. TypeOK'
    BY <1>2, <2>1 DEF Create
  <2>4. ASSUME NEW b \in Admins, pc'[b] # "idle"
        PROVE  Holds(b)'
    <3>1. b # a /\ Holds(b) /\ stat[b] = -1
      BY <1>2, <2>1, <2>4 DEF Create
    <3> QED
      BY <1>2, <2>1, <3>1 DEF Create
  <2>5. znode'.version = 0 /\ Len(znode'.data) = 1
    BY <2>1, <2>2
  <2>6. Len(znode'.data) <= znode'.version + 1
    BY <2>5
  <2> QED
    BY <2>3, <2>4, <2>5, <2>6
<1>3. CASE PutFails(a)
  BY <1>3 DEF PutFails
<1> QED
  BY <1>1, <1>2, <1>3

\* The inductive invariant of the module.
LEMMA InvStep == SyncInv /\ [Next]_vars => SyncInv'
<1>1. ASSUME SyncInv, UNCHANGED vars
      PROVE  SyncInv'
  BY <1>1 DEF SyncInv, TypeOK, Holds, vars
<1> QED
  BY <1>1, InvLoad, InvCheck, InvPut DEF Next

LEMMA Invariant == Spec => []SyncInv
BY InvInit, InvStep, PTL DEF Spec

\* The type invariant.
THEOREM SyncTypes == Spec => []TypeOK
<1>1. SyncInv => TypeOK
  BY DEF SyncInv
<1> QED
  BY <1>1, Invariant, PTL

\* ZooKeeper never holds more than two products.
THEOREM TwoPublished == Spec => []AtMostTwoPublished
<1>1. SyncInv => AtMostTwoPublished
  BY DEF SyncInv, TypeOK, Absent, AtMostTwoPublished
<1> QED
  BY <1>1, Invariant, PTL

\* A writer whose Get succeeded never drops a published product.
THEOREM Extends == Spec => LoadedWriteExtends
<1> DEFINE Kept == \E a \in Admins :
                      /\ pc[a] = "put" /\ pc'[a] = "idle"
                      /\ stat[a] # Absent => Prefix(znode.data, znode'.data)
<1>1. ASSUME SyncInv, [Next]_vars, znode' # znode
      PROVE  Kept
  <2>1. PICK a \in Admins : Set(a) \/ Create(a)
    BY <1>1 DEF Next, Load, LoadNothing, Loaded, CheckExists, PutFails, vars
  <2>2. pc[a] = "put" /\ pc'[a] = "idle"
    BY <1>1, <2>1 DEF SyncInv, TypeOK, Set, Create, Succeed
  <2>3. ASSUME stat[a] # Absent
        PROVE  Prefix(znode.data, znode'.data)
    <3>1. Holds(a)
      BY <1>1, <2>2 DEF SyncInv
    <3>2. znode'.data = Append(znode.data, product[a])
      BY <1>1, <2>1, <2>3, <3>1
         DEF SyncInv, TypeOK, Holds, Set, Create, NodeExists, Absent
    <3> QED
      BY <1>1, <3>2, AppendFacts DEF SyncInv, TypeOK
  <2> QED
    BY <2>2, <2>3
<1>2. SyncInv /\ [Next]_vars => [znode' # znode => Kept]_vars
  BY <1>1
<1> QED
  BY <1>2, Invariant, PTL DEF Spec, LoadedWriteExtends

\* A write that drops what was published drops one product, and leaves one.
THEOREM DropsOne == Spec => EmptyLoadDropsOne
<1> DEFINE One == ~Prefix(znode.data, znode'.data)
                    => Len(znode.data) = 1 /\ Len(znode'.data) = 1
<1>1. ASSUME SyncInv, [Next]_vars, ~Prefix(znode.data, znode'.data)
      PROVE  Len(znode.data) = 1 /\ Len(znode'.data) = 1
  <2>0. znode.data \in Seq(Products)
    BY <1>1 DEF SyncInv, TypeOK
  <2>1. znode' # znode
    BY <1>1, <2>0 DEF Prefix
  <2>2. PICK a \in Admins : Set(a) \/ Create(a)
    BY <1>1, <2>1 DEF Next, Load, LoadNothing, Loaded, CheckExists, PutFails, vars
  <2>3. Holds(a) /\ list[a] \in Seq(Products) /\ znode'.data = list[a]
    BY <1>1, <2>2 DEF SyncInv, TypeOK, Set, Create
  <2>4. Len(znode.data) # 0
    BY <1>1, <2>0, <2>3 DEF Prefix
  <2>5. Set(a) /\ znode.version = 0
    BY <1>1, <2>0, <2>2, <2>4 DEF SyncInv, Set, Create, NodeExists, Absent
  <2>6. Len(znode.data) = 1
    <3> DEFINE n == Len(znode.data)
    <3>1. n \in Nat /\ n # 0
      BY <2>0, <2>4
    <3>2. n <= 0 + 1
      BY <1>1, <2>5 DEF SyncInv
    <3> HIDE DEF n
    <3>3. n = 1
      BY <3>1, <3>2
    <3> QED
      BY <3>3 DEF n
  <2>7. stat[a] = Absent
    <3>1. ASSUME stat[a] # Absent
          PROVE  FALSE
      <4>1. stat[a] = 0
        BY <1>1, <2>3, <2>5, <3>1 DEF SyncInv, TypeOK, Holds, Absent
      <4>2. znode'.data = Append(znode.data, product[a])
        BY <2>3, <2>5, <3>1, <4>1 DEF Holds
      <4> QED
        BY <1>1, <2>0, <4>2, AppendFacts DEF SyncInv, TypeOK
    <3> QED
      BY <3>1
  <2> QED
    BY <2>3, <2>6, <2>7 DEF Holds
<1>2. SyncInv /\ [Next]_vars => [One]_vars
  BY <1>1
<1> QED
  BY <1>2, Invariant, PTL DEF Spec, EmptyLoadDropsOne
=============================================================================
