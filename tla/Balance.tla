------------------------------- MODULE Balance -------------------------------
(***************************************************************************)
(* The balancers of pkg/loadbalance over the list that DiscoverServices    *)
(* keeps for a service.  BalanceS is one of them; the repository sets it   *)
(* to RandomBalance.  WeightRoundRobinLoadBalance keeps its state in the   *)
(* instances themselves (CurWeight), and a list that replaces another has  *)
(* new instances.  Their positions stand for the instances; newService-    *)
(* Instance never gives nil, so the tests for nil say nothing here.        *)
(***************************************************************************)
EXTENDS Integers, Sequences

CONSTANTS
    Lists,       \* lists that Consul may give: each a sequence of weights
    MaxServed    \* bound: selections from one list

ASSUME ListsAreWeights == Lists \subseteq Seq(Nat)
ASSUME MaxServedIsNat == MaxServed \in Nat

VARIABLES
    BalanceS,   \* "random", "shuffle" or "weighted"
    weight,     \* weight[i]: Weight of the i-th instance of the list
    cur,        \* cur[i]: its CurWeight
    answer,     \* the last selection: a position, or 0 for the error
    served,     \* history: selections from this list
    picks       \* history: picks[i], those that chose the i-th instance

vars == <<BalanceS, weight, cur, answer, served, picks>>

Positions == DOMAIN weight

\* Sums(f, n)[i]: what the first i turns of a loop over f have added up.
Sums(f, n) ==
    LET s[i \in 0..n] == IF i = 0 THEN 0 ELSE s[i-1] + f[i] IN s

Total == Sums(weight, Len(weight))[Len(weight)]

\* newServiceInstance for every entry of the answer of Consul.
Fresh(list) ==
    /\ weight' = list
    /\ cur' = [i \in DOMAIN list |-> 0]
    /\ picks' = [i \in DOMAIN list |-> 0]
    /\ served' = 0

Init ==
    /\ BalanceS \in {"random", "shuffle", "weighted"}
    /\ weight = <<>> /\ cur = <<>> /\ picks = <<>>
    /\ answer = 0
    /\ served = 0

\* Mutant of Replace: instances that stay keep their CurWeight.
ReplaceKeeps(list) ==
    /\ weight' = list
    /\ cur' = [i \in DOMAIN list |-> IF i \in Positions THEN cur[i] ELSE 0]
    /\ picks' = [i \in DOMAIN list |-> 0]
    /\ served' = 0
    /\ UNCHANGED <<BalanceS, answer>>

\* A query or a delivery of the watch stores another list.
Replace(list) ==
    /\ Fresh(list)
    /\ UNCHANGED <<BalanceS, answer>>

\* Position i is the answer to one more selection.
Choose(i) ==
    /\ served < MaxServed
    /\ answer' = i
    /\ served' = served + 1
    /\ picks' = [picks EXCEPT ![i] = @ + 1]
    /\ UNCHANGED <<BalanceS, weight>>

\* All three refuse an empty list.
SelectNone ==
    /\ weight = <<>>
    /\ answer' = 0
    /\ UNCHANGED <<BalanceS, weight, cur, served, picks>>

\* Mutant of SelectAny: the index is drawn from 0..len.
SelectAnyOrNext ==
    /\ BalanceS \in {"random", "shuffle"}
    /\ weight # <<>>
    /\ \E i \in 1..Len(weight) + 1 : Choose(i)
    /\ UNCHANGED cur

\* RandomBalance: rand.Intn(len).  SuffleBalance: the first of rand.Perm(len).
SelectAny ==
    /\ BalanceS \in {"random", "shuffle"}
    /\ \E i \in Positions : Choose(i)
    /\ UNCHANGED cur

\* CurWeight after the loop has added the weight of each.
Raised == [i \in Positions |-> cur[i] + weight[i]]

\* Mutant of IsBest: the instances are compared by Weight.
IsBestByWeight(i) ==
    \A j \in Positions :
        \/ weight[j] < weight[i]
        \/ weight[j] = weight[i] /\ i <= j

\* The first instance with the highest CurWeight.
IsBest(i) ==
    \A j \in Positions :
        \/ Raised[j] < Raised[i]
        \/ Raised[j] = Raised[i] /\ i <= j

\* WeightRoundRobinLoadBalance: the chosen instance pays the total.
SelectWeighted ==
    /\ BalanceS = "weighted"
    /\ \E i \in Positions :
          /\ IsBest(i)
          /\ Choose(i)
          /\ cur' = [Raised EXCEPT ![i] = @ - Total]

Next ==
    \/ \E list \in Lists : Replace(list)
    \/ SelectNone
    \/ SelectAny
    \/ SelectWeighted

Spec == Init /\ [][Next]_vars

-----------------------------------------------------------------------------
(* Properties.                                                             *)

\* Every variable keeps its type, and a selection is a member of the list.
TypeOK ==
    /\ BalanceS \in {"random", "shuffle", "weighted"}
    /\ weight \in Lists \union {<<>>}
    /\ cur \in [Positions -> Int]
    /\ picks \in [Positions -> Nat]
    /\ served \in Nat
    /\ answer \in Nat
    /\ served > 0 => answer \in Positions

\* CurWeight is the part of the selections that an instance is owed, less what
\* it was given, whatever the order of lists and selections: no other state
\* decides who is next.
CurIsDebt ==
    BalanceS = "weighted" =>
        \A i \in Positions : cur[i] = served * weight[i] - Total * picks[i]

\* Nobody is ever a whole selection ahead of its share, so an instance without
\* weight is not chosen beside one with weight; and since all debts cancel out
\* nobody falls behind without bound, and no CurWeight can overflow.  (It may
\* fall behind by a whole selection, as the last of 1, 1, 1, 1, 4, 4 does.)
CurStaysSmall ==
    \A i \in Positions :
        cur[i] # 0 => -Total < cur[i] /\ cur[i] < (Len(weight) - 1) * Total

\* The promise of the weighted round robin: after every round of Total
\* selections each instance was chosen exactly Weight times per round.
RoundsAreExact ==
    BalanceS = "weighted" /\ Total > 0 /\ served % Total = 0 =>
        \A i \in Positions : picks[i] * Total = served * weight[i]
=============================================================================
