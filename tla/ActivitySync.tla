---------------------------- MODULE ActivitySync ----------------------------
(***************************************************************************)
(* Publication of flash-sale activities by sk-admin: syncToZk reads the    *)
(* product list under one ZooKeeper node, appends the product of an        *)
(* activity and writes the list back, for several administrators at once.  *)
(*                                                                         *)
(* ZooKeeper (external) keeps the list with the version of its data: a     *)
(* Create gives version 0, a Set succeeds only with the current version    *)
(* and adds one to it.  The code passes its variable flags, 0, where Set   *)
(* takes the version.  Any request may fail, before or after it took       *)
(* effect, and the code then goes on: Get's error means an empty list,     *)
(* that of Exists "no node", those of Set and Create are printed.          *)
(***************************************************************************)
EXTENDS Integers, Sequences

CONSTANTS
    Admins,     \* goroutines that publish an activity
    Products,   \* product ids; the rest of an entry is copied with its id
    Faulty      \* whether requests to ZooKeeper may fail

ASSUME FaultyIsBoolean == Faulty \in BOOLEAN

Absent == -1    \* the version of a node that does not exist

VARIABLES
    znode,      \* the node at SecProductKey: its data and version
    pc,         \* pc[a]: where a is in syncToZk
    product,    \* product[a]: what a publishes
    list,       \* list[a]: secProductInfoList, with a's product appended
    stat,       \* stat[a]: the version a's Get came with, Absent without one
    exists,     \* exists[a]: what Exists told a
    synced      \* history: products whose syncToZk reported success

vars == <<znode, pc, product, list, stat, exists, synced>>

Init ==
    /\ znode = [data |-> <<>>, version |-> Absent]
    /\ pc = [a \in Admins |-> "idle"]
    /\ product \in [Admins -> Products]
    /\ list = [a \in Admins |-> <<>>]
    /\ stat = [a \in Admins |-> Absent]
    /\ exists = [a \in Admins |-> FALSE]
    /\ synced = {}

NodeExists == znode.version # Absent

-----------------------------------------------------------------------------
(* loadProductFromZk and the append to what it returned.                   *)

\* Mutant of Loaded: the entry is appended before its product id is set.
LoadedWithoutId(a, p, l, v) ==
    /\ pc[a] = "idle"
    /\ pc' = [pc EXCEPT ![a] = "exists"]
    /\ product' = [product EXCEPT ![a] = p]
    /\ list' = [list EXCEPT ![a] = Append(l, 0)]
    /\ stat' = [stat EXCEPT ![a] = v]
    /\ UNCHANGED <<znode, exists, synced>>

\* Read, then append.
Loaded(a, p, l, v) ==
    /\ pc[a] = "idle"
    /\ pc' = [pc EXCEPT ![a] = "exists"]
    /\ product' = [product EXCEPT ![a] = p]
    /\ list' = [list EXCEPT ![a] = Append(l, p)]
    /\ stat' = [stat EXCEPT ![a] = v]
    /\ UNCHANGED <<znode, exists, synced>>

\* Get answers with the node's data and Stat.
Load(a, p) == NodeExists /\ Loaded(a, p, znode.data, znode.version)

\* Get fails, for want of a node or of a connection: an empty list.
LoadNothing(a, p) == (~NodeExists \/ Faulty) /\ Loaded(a, p, <<>>, Absent)

\* Exists; its error is dropped and leaves FALSE.
CheckExists(a) ==
    /\ pc[a] = "exists"
    /\ \E e \in {NodeExists} \union (IF Faulty THEN {FALSE} ELSE {}) :
          exists' = [exists EXCEPT ![a] = e]
    /\ pc' = [pc EXCEPT ![a] = "put"]
    /\ UNCHANGED <<znode, product, list, stat, synced>>

\* "put to zk success": syncToZk returns nil whatever became of the write.
Succeed(a) ==
    /\ pc' = [pc EXCEPT ![a] = "idle"]
    /\ synced' = synced \union {product[a]}
    /\ list' = [list EXCEPT ![a] = <<>>]
    /\ stat' = [stat EXCEPT ![a] = Absent]
    /\ exists' = [exists EXCEPT ![a] = FALSE]
    /\ UNCHANGED product

\* Mutant of Set: version -1, which matches any version.
SetAnyVersion(a) ==
    /\ pc[a] = "put"
    /\ exists[a]
    /\ NodeExists
    /\ znode' = [data |-> list[a], version |-> znode.version + 1]
    /\ Succeed(a)

\* conn.Set(zkPath, data, 0) on a node whose data has version 0.
Set(a) ==
    /\ pc[a] = "put"
    /\ exists[a]
    /\ znode.version = 0
    /\ znode' = [data |-> list[a], version |-> 1]
    /\ Succeed(a)

\* conn.Create(zkPath, data, 0, acl) where there is no node.
Create(a) ==
    /\ pc[a] = "put"
    /\ ~exists[a]
    /\ ~NodeExists
    /\ znode' = [data |-> list[a], version |-> 0]
    /\ Succeed(a)

\* Set or Create fails: bad version, node exists, or the request is lost.
PutFails(a) ==
    /\ pc[a] = "put"
    /\ \/ exists[a] /\ znode.version # 0
       \/ ~exists[a] /\ NodeExists
       \/ Faulty
    /\ UNCHANGED znode
    /\ Succeed(a)

Next ==
    \E a \in Admins :
        \/ \E p \in Products : Load(a, p) \/ LoadNothing(a, p)
        \/ CheckExists(a)
        \/ Set(a)
        \/ Create(a)
        \/ PutFails(a)

Spec == Init /\ [][Next]_vars

-----------------------------------------------------------------------------
\* Every variable keeps its type.
TypeOK ==
    /\ znode \in [data : Seq(Products), version : Nat \union {Absent}]
    /\ pc \in [Admins -> {"idle", "exists", "put"}]
    /\ product \in [Admins -> Products]
    /\ list \in [Admins -> Seq(Products)]
    /\ stat \in [Admins -> Nat \union {Absent}]
    /\ exists \in [Admins -> BOOLEAN]
    /\ synced \subseteq Products

\* The published list never has more than two products, however often and by
\* whomever syncToZk runs: one Create and one Set are all that ever succeed.
AtMostTwoPublished == Len(znode.data) <= 2

Prefix(s, t) == Len(s) <= Len(t) /\ \A i \in 1..Len(s) : s[i] = t[i]

\* A write that follows a successful Get never loses a product: Set is refused
\* if the node changed since.  Only a writer whose Get brought nothing can
\* drop what others published.
LoadedWriteExtends ==
    [][znode' # znode =>
          \E a \in Admins :
              /\ pc[a] = "put" /\ pc'[a] = "idle"
              /\ stat[a] # Absent => Prefix(znode.data, znode'.data)]_vars

\* A failed Get, taken for an empty list, costs at most one product: what it
\* drops is the only product of a node that was never Set, the writer's own
\* takes its place, and no list of two is ever cut.
EmptyLoadDropsOne ==
    [][~Prefix(znode.data, znode'.data)
          => Len(znode.data) = 1 /\ Len(znode'.data) = 1]_vars

\* VIOLATED by the code.  What syncToZk reported as put into ZooKeeper is there
\* once nobody is publishing.  The third activity to be published is not: its
\* Set is refused, and the refusal is printed and forgotten.
SyncedIsPublished ==
    (\A a \in Admins : pc[a] = "idle") =>
        \A p \in synced :
            \E i \in 1..Len(znode.data) : znode.data[i] = p
=============================================================================
