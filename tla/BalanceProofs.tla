---------------------------- MODULE BalanceProofs ----------------------------
(***************************************************************************)
(* Theorems about Balance, for any lists of weights: first what the loops  *)
(* of the balancers add up, then the debts, and last what follows from     *)
(* debts that cancel out while nobody is a whole selection ahead.          *)
(***************************************************************************)
EXTENDS Balance, TLAPS, WellFoundedInduction

-----------------------------------------------------------------------------
(* Sums.  What a recursive function computes is proved by induction over    *)
(* the naturals, which rests on the order of the naturals being well-       *)
(* founded.                                                                 *)

LEMMA Induction ==
    ASSUME NEW S, 0 \in S, \A k \in Nat : k \in S => k + 1 \in S
    PROVE  Nat \subseteq S
<1> SUFFICES ASSUME Nat \ S # {} PROVE FALSE
  OBVIOUS
<1>1. PICK k \in Nat \ S : \A j \in Nat \ S : <<j, k>> \notin OpToRel(<, Nat)
  BY WFMin, NatLessThanWellFounded
<1>2. k # 0 /\ k - 1 \in Nat
  OBVIOUS
<1>3. k - 1 \notin S
  BY <1>2
<1>4. <<k - 1, k>> \in OpToRel(<, Nat)
  BY <1>2 DEF OpToRel
<1> QED
  BY <1>1, <1>2, <1>3, <1>4

\* s adds up f over 1..n.
Adds(s, f, n) ==
    /\ s \in [0..n -> Int]
    /\ s[0] = 0
    /\ \A k \in 1..n : s[k] = s[k-1] + f[k]

\* The equation that defines Sums has a solution, so Sums is one.
LEMMA SumsExist ==
    ASSUME NEW n \in Nat, NEW f \in [1..n -> Int]
    PROVE  \E s : Adds(s, f, n)
<1> DEFINE S == {k \in Nat : k <= n => \E s : Adds(s, f, k)}
<1>1. 0 \in S
  <2>1. Adds([k \in 0..0 |-> 0], f, 0)
    BY DEF Adds
  <2> QED
    BY <2>1
<1>2. ASSUME NEW k \in Nat, k \in S PROVE k + 1 \in S
  <2> SUFFICES ASSUME k + 1 <= n PROVE \E s : Adds(s, f, k + 1)
    OBVIOUS
  <2>1. PICK s : Adds(s, f, k)
    BY <1>2
  <2> DEFINE t == [j \in 0..k+1 |-> IF j = k + 1 THEN s[k] + f[k+1] ELSE s[j]]
  <2>2. t \in [0..k+1 -> Int]
    BY <2>1 DEF Adds
  <2>3. t[0] = 0
    BY <2>1 DEF Adds
  <2>4. ASSUME NEW j \in 1..k+1 PROVE t[j] = t[j-1] + f[j]
    <3>1. CASE j = k + 1
      <4>1. j - 1 = k /\ k \in 0..k+1 /\ k # k + 1
        BY <3>1
      <4> QED
        BY <3>1, <4>1
    <3>2. CASE j \in 1..k
      <4>1. /\ j \in 0..k+1 /\ j # k + 1
            /\ j - 1 \in 0..k+1 /\ j - 1 # k + 1
        BY <3>2
      <4>2. s[j] = s[j-1] + f[j]
        BY <2>1, <3>2 DEF Adds
      <4> QED
        BY <4>1, <4>2
    <3> QED
      BY <3>1, <3>2
  <2>5. Adds(t, f, k + 1)
    BY <2>2, <2>3, <2>4 DEF Adds
  <2> QED
    BY <2>5
<1> HIDE DEF S
<1>3. Nat \subseteq S
  BY <1>1, <1>2, Induction
<1> QED
  BY <1>3 DEF S

LEMMA SumsAdd ==
    ASSUME NEW n \in Nat, NEW f \in [1..n -> Int]
    PROVE  Adds(Sums(f, n), f, n)
<1> DEFINE Solves(s) == s = [k \in 0..n |-> IF k = 0 THEN 0 ELSE s[k-1] + f[k]]
<1>1. PICK s : Adds(s, f, n)
  BY SumsExist
<1>2. Solves(s)
  BY <1>1 DEF Adds
<1>3. Sums(f, n) = CHOOSE t : Solves(t)
  BY DEF Sums
<1>4. Solves(Sums(f, n))
  BY <1>2, <1>3
<1> HIDE DEF Solves
<1> DEFINE t == Sums(f, n)
           S == {k \in Nat : k <= n => t[k] = s[k]}
<1>5. 0 \in S
  BY <1>1, <1>4 DEF Adds, Solves
<1>6. ASSUME NEW k \in Nat, k \in S PROVE k + 1 \in S
  BY <1>1, <1>4, <1>6 DEF Adds, Solves
<1>7. Nat \subseteq S
  <2> HIDE DEF S
  <2> QED
    BY <1>5, <1>6, Induction
<1>8. \A k \in 0..n : t[k] = s[k]
  BY <1>7
<1>9. t = [k \in 0..n |-> t[k]]
  BY <1>4 DEF Solves
<1>10. t = s
  BY <1>1, <1>8, <1>9 DEF Adds
<1> QED
  BY <1>1, <1>10

\* The sum of what is at least -b each is at least -n * b, and exceeds no
\* member by more than the others can take away.
LEMMA SumsAbove ==
    ASSUME NEW n \in Nat, NEW f \in [1..n -> Int], NEW b \in Nat,
           \A j \in 1..n : f[j] >= -b
    PROVE  /\ Sums(f, n)[n] \in Int
           /\ Sums(f, n)[n] >= -(n * b)
           /\ \A i \in 1..n : f[i] <= Sums(f, n)[n] + n * b - b
<1> DEFINE s == Sums(f, n)
           m == [k \in Nat |-> k * b]
<1>1. Adds(s, f, n)
  BY SumsAdd
<1>2. /\ m \in [Nat -> Int]
      /\ m[0] = 0
      /\ m[n] = n * b
      /\ \A k \in Nat : m[k+1] = m[k] + b
  <2>1. \A k \in Nat : k * b \in Int
    OBVIOUS
  <2>2. \A k \in Nat : (k + 1) * b = k * b + b
    OBVIOUS
  <2> QED
    BY <2>1, <2>2
<1> HIDE DEF s, m
<1>3. s \in [0..n -> Int] /\ s[n] \in Int
  BY <1>1 DEF Adds
<1>4. ASSUME NEW i \in 1..n
      PROVE  s[n] >= -m[n] /\ f[i] <= s[n] + m[n] - b
  <2> DEFINE S == {k \in Nat : k <= n =>
                       /\ s[k] >= -m[k]
                       /\ k >= i => f[i] <= s[k] + m[k] - b}
  <2>1. 0 \in S
    BY <1>1, <1>2 DEF Adds
  <2>2. ASSUME NEW k \in Nat, k \in S PROVE k + 1 \in S
    <3> SUFFICES ASSUME k + 1 <= n
                 PROVE  /\ s[k+1] >= -m[k+1]
                        /\ k + 1 >= i => f[i] <= s[k+1] + m[k+1] - b
      OBVIOUS
    <3>1. k + 1 \in 1..n /\ (k + 1) - 1 = k /\ k \in 0..n /\ k <= n
      OBVIOUS
    <3>2. s[k+1] = s[k] + f[k+1]
      BY <1>1, <3>1 DEF Adds
    <3>3. s[k] \in Int /\ f[k+1] \in Int /\ m[k] \in Int /\ f[i] \in Int
      BY <1>2, <1>3, <3>1
    <3>4. f[k+1] >= -b /\ m[k+1] = m[k] + b
      BY <1>2, <3>1
    <3>5. s[k] >= -m[k]
      BY <2>2, <3>1
    <3>6. s[k+1] >= -m[k+1]
      BY <3>2, <3>3, <3>4, <3>5
    <3>7. CASE k + 1 = i
      <4>1. s[k+1] = s[k] + f[i]
        BY <3>2, <3>7
      <4>2. f[i] <= (s[k] + f[i]) + (m[k] + b) - b
        BY <3>3, <3>5
      <4> QED
        BY <4>1, <4>2, <3>4, <3>6
    <3>8. CASE k >= i
      <4>1. f[i] <= s[k] + m[k] - b
        BY <2>2, <3>1, <3>8
      <4> QED
        BY <4>1, <3>2, <3>3, <3>4, <3>6
    <3> QED
      BY <3>6, <3>7, <3>8
  <2> HIDE DEF S
  <2>3. Nat \subseteq S
    BY <2>1, <2>2, Induction
  <2>4. n \in S /\ n <= n /\ i <= n
    BY <2>3
  <2> QED
    BY <2>4 DEF S
<1>5. s[n] >= -m[n]
  <2>1. CASE n = 0
    BY <2>1, <1>1, <1>2 DEF Adds
  <2>2. CASE n # 0
    <3>1. n \in 1..n
      BY <2>2
    <3> QED
      BY <3>1, <1>4
  <2> QED
    BY <2>1, <2>2
<1> QED
  BY <1>2, <1>3, <1>4, <1>5 DEF s

\* A loop over what is not positive adds up nothing.
LEMMA SumsBelow ==
    ASSUME NEW n \in Nat, NEW f \in [1..n -> Int], \A j \in 1..n : f[j] <= 0
    PROVE  Sums(f, n)[n] <= 0
<1> DEFINE s == Sums(f, n)
           S == {k \in Nat : k <= n => s[k] <= 0}
<1>1. Adds(s, f, n)
  BY SumsAdd
<1> HIDE DEF s
<1>2. 0 \in S
  BY <1>1 DEF Adds
<1>3. ASSUME NEW k \in Nat, k \in S PROVE k + 1 \in S
  <2> SUFFICES ASSUME k + 1 <= n PROVE s[k+1] <= 0
    OBVIOUS
  <2>1. k + 1 \in 1..n /\ (k + 1) - 1 = k /\ k \in 0..n /\ k <= n
    OBVIOUS
  <2>2. s[k+1] = s[k] + f[k+1] /\ s[k] \in Int
    BY <1>1, <2>1 DEF Adds
  <2>3. s[k] <= 0 /\ f[k+1] <= 0 /\ f[k+1] \in Int
    BY <1>3, <2>1
  <2> QED
    BY <2>2, <2>3
<1> HIDE DEF S
<1>4. n \in S /\ n <= n
  BY <1>2, <1>3, Induction
<1> QED
  BY <1>4 DEF s, S

\* What is added to every member, and taken from one, in the sum.
LEMMA SumsCombine ==
    ASSUME NEW n \in Nat,
           NEW f \in [1..n -> Int], NEW g \in [1..n -> Int], NEW h \in [1..n -> Int],
           NEW i \in 1..n, NEW t \in Int,
           \A j \in 1..n : h[j] = f[j] + g[j] - (IF j = i THEN t ELSE 0)
    PROVE  Sums(h, n)[n] = Sums(f, n)[n] + Sums(g, n)[n] - t
<1> DEFINE sf == Sums(f, n)
           sg == Sums(g, n)
           sh == Sums(h, n)
           S == {k \in Nat : k <= n =>
                    sh[k] = sf[k] + sg[k] - (IF k >= i THEN t ELSE 0)}
<1>1. Adds(sf, f, n) /\ Adds(sg, g, n) /\ Adds(sh, h, n)
  BY SumsAdd
<1> HIDE DEF sf, sg, sh
<1>2. 0 \in S
  BY <1>1 DEF Adds
<1>3. ASSUME NEW k \in Nat, k \in S PROVE k + 1 \in S
  <2> SUFFICES ASSUME k + 1 <= n
               PROVE  sh[k+1] = sf[k+1] + sg[k+1] - (IF k + 1 >= i THEN t ELSE 0)
    OBVIOUS
  <2>1. k + 1 \in 1..n /\ (k + 1) - 1 = k /\ k \in 0..n /\ k <= n
    OBVIOUS
  <2>2. /\ sf[k+1] = sf[k] + f[k+1]
        /\ sg[k+1] = sg[k] + g[k+1]
        /\ sh[k+1] = sh[k] + h[k+1]
    BY <1>1, <2>1 DEF Adds
  <2>3. /\ sf[k] \in Int /\ sg[k] \in Int /\ sh[k] \in Int
        /\ f[k+1] \in Int /\ g[k+1] \in Int /\ h[k+1] \in Int
    BY <1>1, <2>1 DEF Adds
  <2>4. sh[k] = sf[k] + sg[k] - (IF k >= i THEN t ELSE 0)
    BY <1>3, <2>1
  <2>5. h[k+1] = f[k+1] + g[k+1] - (IF k + 1 = i THEN t ELSE 0)
    BY <2>1
  <2>6. CASE k + 1 = i
    BY <2>2, <2>3, <2>4, <2>5, <2>6
  <2>7. CASE k + 1 # i
    <3>1. h[k+1] = f[k+1] + g[k+1]
      BY <2>3, <2>5, <2>7
    <3>2. CASE k >= i
      BY <2>2, <2>3, <2>4, <3>1, <3>2
    <3>3. CASE k + 1 < i
      <4>1. ~(k >= i) /\ ~(k + 1 >= i)
        BY <3>3
      <4>2. sh[k] = sf[k] + sg[k]
        BY <2>3, <2>4, <4>1
      <4>3. /\ sf[k+1] = sf[k] + f[k+1] /\ sf[k+1] \in Int
            /\ sg[k+1] = sg[k] + g[k+1] /\ sg[k+1] \in Int
            /\ sh[k+1] = sf[k+1] + sg[k+1]
        BY <2>2, <2>3, <3>1, <4>2, SMTT(30)
      <4>4. (IF k + 1 >= i THEN t ELSE 0) = 0
        BY <4>1
      <4> QED
        BY <4>3, <4>4
    <3> QED
      BY <2>7, <3>2, <3>3
  <2> QED
    BY <2>6, <2>7
<1> HIDE DEF S
<1>4. n \in S
  BY <1>2, <1>3, Induction
<1>5. n <= n /\ n >= i
  OBVIOUS
<1> QED
  BY <1>4, <1>5 DEF S, sf, sg, sh

\* Debts that are none and cancel out are all nothing.
LEMMA NothingOwedAtAll ==
    ASSUME NEW n \in Nat, NEW f \in [1..n -> Int],
           \A j \in 1..n : f[j] >= 0, Sums(f, n)[n] = 0
    PROVE  \A j \in 1..n : f[j] = 0
<1>1. PICK b \in Nat : b = 0
  OBVIOUS
<1>2. \A j \in 1..n : f[j] >= -b
  BY <1>1
<1>3. \A j \in 1..n : f[j] <= Sums(f, n)[n] + n * b - b
  BY <1>2, SumsAbove
<1>4. n * b = 0
  BY <1>1
<1> QED
  BY <1>1, <1>3, <1>4

-----------------------------------------------------------------------------
(* Lists and their debts.                                                  *)

\* The weights of a list add up to a number that none of them exceeds.
LEMMA WeightsAdd ==
    ASSUME NEW list \in Seq(Nat)
    PROVE  /\ Sums(list, Len(list))[Len(list)] \in Nat
           /\ \A i \in DOMAIN list : list[i] <= Sums(list, Len(list))[Len(list)]
<1> DEFINE n == Len(list)
<1>1. PICK b \in Nat : b = 0
  OBVIOUS
<1>2. n \in Nat /\ DOMAIN list = 1..n /\ list \in [1..n -> Int]
  OBVIOUS
<1>3. \A j \in 1..n : list[j] \in Nat
  OBVIOUS
<1> HIDE DEF n
<1>4. \A j \in 1..n : list[j] >= -b
  BY <1>1, <1>3
<1>5. /\ Sums(list, n)[n] \in Int
      /\ Sums(list, n)[n] >= -(n * b)
      /\ \A j \in 1..n : list[j] <= Sums(list, n)[n] + n * b - b
  BY <1>2, <1>4, SumsAbove
<1>6. n * b = 0
  BY <1>1, <1>2
<1>7. Sums(list, n)[n] \in Nat /\ \A j \in 1..n : list[j] <= Sums(list, n)[n]
  BY <1>1, <1>3, <1>5, <1>6
<1> QED
  BY <1>2, <1>7 DEF n

LEMMA ListTypes ==
    ASSUME TypeOK
    PROVE  /\ weight \in Seq(Nat)
           /\ Len(weight) \in Nat
           /\ Positions = 1..Len(weight)
           /\ \A i \in Positions : weight[i] \in Nat
BY ListsAreWeights DEF TypeOK, Positions

LEMMA TotalIsNat ==
    ASSUME TypeOK
    PROVE  Total \in Nat /\ \A i \in Positions : weight[i] <= Total
BY ListTypes, WeightsAdd DEF Total, Positions

LEMMA BalanceInit == Init => TypeOK /\ CurIsDebt
<1> SUFFICES ASSUME Init PROVE TypeOK /\ CurIsDebt
  OBVIOUS
<1>1. Positions = {}
  BY DEF Init, Positions
<1>2. cur \in [Positions -> Int] /\ picks \in [Positions -> Nat]
  BY <1>1 DEF Init, Positions
<1> QED
  BY <1>1, <1>2 DEF Init, TypeOK, CurIsDebt

LEMMA NothingOwed == ASSUME NEW w \in Nat, NEW t \in Nat PROVE 0 = 0 * w - t * 0
<1>1. 0 * w = 0 /\ t * 0 = 0
  OBVIOUS
<1> QED
  BY <1>1

\* A list that has just been stored owes nothing.
LEMMA FreshKeeps ==
    ASSUME TypeOK, NEW list \in Lists, Replace(list)
    PROVE  TypeOK' /\ CurIsDebt'
<1>1. Positions' = DOMAIN list
  BY DEF Replace, Fresh, Positions
<1>2. Total' \in Nat
  BY ListsAreWeights, WeightsAdd DEF Replace, Fresh, Total
<1>3. list \in Seq(Nat)
  BY ListsAreWeights
<1>4. ASSUME NEW i \in Positions'
      PROVE  cur'[i] = served' * weight'[i] - Total' * picks'[i]
  <2>1. list[i] \in Nat
    BY <1>1, <1>3
  <2>2. 0 = 0 * list[i] - Total' * 0
    BY <1>2, <2>1, NothingOwed
  <2> QED
    BY <1>1, <2>2 DEF Replace, Fresh
<1>5. TypeOK'
  BY <1>1 DEF Replace, Fresh, TypeOK
<1>6. CurIsDebt'
  BY <1>4 DEF CurIsDebt
<1> QED
  BY <1>5, <1>6

LEMMA ChooseTypes ==
    ASSUME TypeOK, NEW i \in Positions, Choose(i), cur' \in [Positions -> Int]
    PROVE  TypeOK'
<1>1. Positions' = Positions
  BY DEF Choose, Positions
<1>2. i \in Nat
  BY ListsAreWeights DEF TypeOK, Positions
<1>3. picks' \in [Positions -> Nat]
  BY DEF Choose, TypeOK
<1>4. served' \in Nat /\ answer' = i /\ weight' = weight /\ BalanceS' = BalanceS
  BY DEF Choose, TypeOK
<1> QED
  BY <1>1, <1>2, <1>3, <1>4 DEF TypeOK

\* What a selection adds to every debt, and takes from that of the chosen.
LEMMA DebtGrows ==
    \A w, t, s, p \in Nat :
        /\ (s * w - t * p) + w = (s + 1) * w - t * p
        /\ (s * w - t * p) + w - t = (s + 1) * w - t * (p + 1)
<1> TAKE w, t, s, p \in Nat
<1>1. (s + 1) * w = s * w + w
  OBVIOUS
<1>2. t * (p + 1) = t * p + t
  OBVIOUS
<1>3. s * w \in Nat /\ t * p \in Nat
  OBVIOUS
<1> DEFINE sw == s * w
           tp == t * p
<1>4. sw \in Nat /\ tp \in Nat /\ (s + 1) * w = sw + w /\ t * (p + 1) = tp + t
  BY <1>1, <1>2, <1>3
<1> HIDE DEF sw, tp
<1>5. (sw - tp) + w = (sw + w) - tp /\ (sw - tp) + w - t = (sw + w) - (tp + t)
  BY <1>4
<1> QED
  BY <1>4, <1>5 DEF sw, tp

LEMMA WeightedKeeps ==
    ASSUME TypeOK, CurIsDebt, SelectWeighted
    PROVE  TypeOK' /\ CurIsDebt'
<1>1. PICK i \in Positions : Choose(i) /\ cur' = [Raised EXCEPT ![i] = @ - Total]
  BY DEF SelectWeighted
<1>2. Positions' = Positions /\ Total' = Total /\ Total \in Nat
  BY <1>1, TotalIsNat DEF Choose, Positions, Total
<1>3. \A j \in Positions : weight[j] \in Nat /\ cur[j] \in Int /\ picks[j] \in Nat
  BY ListsAreWeights DEF TypeOK, Positions
<1>4. cur' \in [Positions -> Int]
  BY <1>1, <1>2, <1>3 DEF Raised
<1>5. TypeOK'
  BY <1>1, <1>4, ChooseTypes
<1>6. ASSUME NEW j \in Positions
      PROVE  cur'[j] = served' * weight'[j] - Total' * picks'[j]
  <2>1. cur[j] = served * weight[j] - Total * picks[j]
    BY DEF CurIsDebt, SelectWeighted
  <2>2. served \in Nat /\ served' = served + 1 /\ weight' = weight
    BY <1>1 DEF Choose, TypeOK
  <2>3. /\ (served * weight[j] - Total * picks[j]) + weight[j]
               = (served + 1) * weight[j] - Total * picks[j]
        /\ (served * weight[j] - Total * picks[j]) + weight[j] - Total
               = (served + 1) * weight[j] - Total * (picks[j] + 1)
    <3>1. weight[j] \in Nat /\ picks[j] \in Nat /\ Total \in Nat /\ served \in Nat
      BY <1>2, <1>3, <2>2
    <3>2. \A t, s, p \in Nat :
            /\ (s * weight[j] - t * p) + weight[j] = (s + 1) * weight[j] - t * p
            /\ (s * weight[j] - t * p) + weight[j] - t = (s + 1) * weight[j] - t * (p + 1)
      BY <3>1, DebtGrows, Zenon
    <3> QED
      BY <3>1, <3>2, Zenon
  <2>4. Raised[j] = cur[j] + weight[j] /\ DOMAIN Raised = Positions
    BY DEF Raised
  <2>5. CASE j = i
    <3>1. cur'[j] = cur[j] + weight[j] - Total
      BY <1>1, <1>2, <1>3, <2>4, <2>5
    <3>2. picks'[j] = picks[j] + 1
      BY <1>1, <2>5 DEF Choose, TypeOK
    <3> QED
      BY <1>2, <2>1, <2>2, <2>3, <3>1, <3>2
  <2>6. CASE j # i
    <3>1. cur'[j] = cur[j] + weight[j]
      BY <1>1, <2>4, <2>6
    <3>2. picks'[j] = picks[j]
      BY <1>1, <2>6 DEF Choose, TypeOK
    <3> QED
      BY <1>2, <2>1, <2>2, <2>3, <3>1, <3>2
  <2> QED
    BY <2>5, <2>6
<1> QED
  BY <1>2, <1>5, <1>6 DEF CurIsDebt

LEMMA BalanceStep == TypeOK /\ CurIsDebt /\ [Next]_vars => TypeOK' /\ CurIsDebt'
<1> SUFFICES ASSUME TypeOK, CurIsDebt, [Next]_vars PROVE TypeOK' /\ CurIsDebt'
  OBVIOUS
<1>1. CASE UNCHANGED vars
  BY <1>1 DEF vars, TypeOK, CurIsDebt, Positions, Total
<1>2. CASE \E list \in Lists : Replace(list)
  BY <1>2, FreshKeeps
<1>3. CASE SelectNone
  <2>1. Positions = {} /\ Positions' = Positions
    BY <1>3 DEF SelectNone, Positions
  <2>2. served = 0 \/ served > 0
    BY DEF TypeOK
  <2>3. served = 0
    BY <2>1, <2>2 DEF TypeOK
  <2> QED
    BY <1>3, <2>1, <2>3 DEF SelectNone, TypeOK, CurIsDebt
<1>4. CASE SelectAny
  <2>1. PICK i \in Positions : Choose(i) /\ cur' = cur
    BY <1>4 DEF SelectAny
  <2>2. TypeOK'
    BY <2>1, ChooseTypes DEF TypeOK
  <2>3. BalanceS' # "weighted"
    BY <1>4, <2>1 DEF SelectAny, Choose
  <2> QED
    BY <2>2, <2>3 DEF CurIsDebt
<1>5. CASE SelectWeighted
  BY <1>5, WeightedKeeps
<1> QED
  BY <1>1, <1>2, <1>3, <1>4, <1>5 DEF Next

\* Every selection from a list that is not empty is a member of it.
THEOREM BalanceTypes == Spec => []TypeOK
<1> QED
  BY BalanceInit, BalanceStep, PTL DEF Spec

\* CurWeight is what an instance is owed less what it was given.
THEOREM Debts == Spec => []CurIsDebt
<1> QED
  BY BalanceInit, BalanceStep, PTL DEF Spec

-----------------------------------------------------------------------------
(* Nobody is a whole selection ahead, and the debts cancel out.  Neither is *)
(* inductive without the other: that what is best after the loop has        *)
(* something to pay with follows from the sum, and that a list without any  *)
(* weight owes nothing from both.                                           *)

DebtsCancel == Sums(cur, Len(weight))[Len(weight)] = 0

NobodyAhead == \A i \in Positions : cur[i] # 0 => -Total < cur[i]

BalanceInv == TypeOK /\ CurIsDebt /\ DebtsCancel /\ NobodyAhead

LEMMA NothingIsOwed ==
    ASSUME NEW n \in Nat, NEW f \in [1..n -> Int], \A j \in 1..n : f[j] = 0
    PROVE  Sums(f, n)[n] = 0
<1>1. PICK b \in Nat : b = 0
  OBVIOUS
<1>2. (\A j \in 1..n : f[j] >= -b) /\ (\A j \in 1..n : f[j] <= 0)
  BY <1>1
<1>3. Sums(f, n)[n] \in Int /\ Sums(f, n)[n] >= -(n * b)
  BY <1>2, SumsAbove
<1>4. Sums(f, n)[n] <= 0
  BY <1>2, SumsBelow
<1>5. n * b = 0
  BY <1>1
<1> QED
  BY <1>3, <1>4, <1>5

LEMMA BalanceInvInit == Init => BalanceInv
<1> SUFFICES ASSUME Init PROVE BalanceInv
  OBVIOUS
<1>1. TypeOK /\ CurIsDebt
  BY BalanceInit
<1>2. Positions = {} /\ Len(weight) \in Nat /\ Positions = 1..Len(weight)
  BY <1>1, ListTypes DEF Init, Positions
<1>3. DebtsCancel
  <2>1. cur \in [1..Len(weight) -> Int] /\ \A j \in 1..Len(weight) : cur[j] = 0
    BY <1>1, <1>2 DEF TypeOK
  <2> QED
    BY <1>2, <2>1, NothingIsOwed DEF DebtsCancel
<1>4. NobodyAhead
  BY <1>2 DEF NobodyAhead
<1> QED
  BY <1>1, <1>3, <1>4 DEF BalanceInv

\* A list that has just been stored owes nothing.
LEMMA FreshCancels ==
    ASSUME NEW list \in Lists, Replace(list)
    PROVE  DebtsCancel' /\ NobodyAhead'
<1> DEFINE n == Len(list)
<1>1. n \in Nat /\ DOMAIN list = 1..n
  BY ListsAreWeights
<1>2. cur' = [i \in 1..n |-> 0] /\ weight' = list
  BY <1>1 DEF Replace, Fresh
<1>3. \A i \in 1..n : cur'[i] = 0
  BY <1>2
<1>4. DebtsCancel'
  <2> HIDE DEF n
  <2>1. cur' \in [1..n -> Int]
    BY <1>2
  <2>2. Sums(cur', n)[n] = 0
    BY <1>1, <1>3, <2>1, NothingIsOwed
  <2> QED
    BY <1>2, <2>2 DEF DebtsCancel, n
<1>5. NobodyAhead'
  BY <1>1, <1>2, <1>3 DEF NobodyAhead, Positions
<1> QED
  BY <1>4, <1>5

\* A list whose weights are all 0 owes nothing.
LEMMA NoWeightNoDebt ==
    ASSUME BalanceInv, Total = 0
    PROVE  \A i \in Positions : cur[i] = 0 /\ weight[i] = 0
<1>1. Positions = 1..Len(weight) /\ Len(weight) \in Nat /\ cur \in [1..Len(weight) -> Int]
  BY ListTypes DEF BalanceInv, TypeOK
<1>2. \A j \in 1..Len(weight) : cur[j] >= 0
  <2> SUFFICES ASSUME NEW j \in 1..Len(weight) PROVE cur[j] >= 0
    OBVIOUS
  <2>1. cur[j] \in Int /\ (cur[j] # 0 => -Total < cur[j])
    BY <1>1 DEF BalanceInv, NobodyAhead
  <2> QED
    BY <2>1
<1>3. \A j \in 1..Len(weight) : cur[j] = 0
  BY <1>1, <1>2, NothingOwedAtAll DEF BalanceInv, DebtsCancel
<1>4. \A i \in Positions : weight[i] = 0
  BY ListTypes, TotalIsNat DEF BalanceInv
<1> QED
  BY <1>1, <1>3, <1>4

\* After the loop the debts add up to Total, so the highest of them is positive
\* when there is any weight, and the chosen instance can pay.
LEMMA BestIsPositive ==
    ASSUME BalanceInv, NEW i \in Positions, IsBest(i), Total > 0
    PROVE  Raised[i] > 0
<1> DEFINE n == Len(weight)
<1>1. /\ Positions = 1..n /\ n \in Nat
      /\ cur \in [1..n -> Int] /\ weight \in [1..n -> Int]
  BY ListTypes DEF BalanceInv, TypeOK
<1>2. Raised \in [1..n -> Int] /\ \A j \in 1..n : Raised[j] = cur[j] + weight[j]
  BY <1>1 DEF Raised
<1>3. Sums(Raised, n)[n] = Total
  <2>1. PICK z \in Int : z = 0
    OBVIOUS
  <2>2. \A j \in 1..n : Raised[j] = cur[j] + weight[j] - (IF j = i THEN z ELSE 0)
    BY <1>1, <1>2, <2>1
  <2> HIDE DEF n
  <2>3. Sums(Raised, n)[n] = Sums(cur, n)[n] + Sums(weight, n)[n] - z
    BY <1>1, <1>2, <2>2, SumsCombine
  <2>4. Sums(cur, n)[n] = 0 /\ Sums(weight, n)[n] = Total /\ Total \in Nat
    BY TotalIsNat DEF n, BalanceInv, DebtsCancel, Total
  <2> QED
    BY <2>1, <2>3, <2>4
<1> SUFFICES ASSUME Raised[i] <= 0 PROVE FALSE
  BY <1>1, <1>2
<1>4. ASSUME NEW j \in 1..n PROVE Raised[j] <= 0
  <2> HIDE DEF n
  <2>1. Raised[j] < Raised[i] \/ Raised[j] = Raised[i]
    BY <1>1 DEF IsBest
  <2>2. Raised[j] \in Int /\ Raised[i] \in Int
    BY <1>1, <1>2
  <2> QED
    BY <2>1, <2>2
<1>5. Total <= 0
  <2> HIDE DEF n
  <2> QED
    BY <1>1, <1>2, <1>3, <1>4, SumsBelow
<1> QED
  BY <1>5, TotalIsNat DEF BalanceInv

LEMMA WeightedCancels ==
    ASSUME BalanceInv, SelectWeighted
    PROVE  DebtsCancel' /\ NobodyAhead'
<1> DEFINE n == Len(weight)
<1>1. PICK i \in Positions :
          IsBest(i) /\ Choose(i) /\ cur' = [Raised EXCEPT ![i] = @ - Total]
  BY DEF SelectWeighted
<1>2. /\ Positions = 1..n /\ n \in Nat
      /\ cur \in [1..n -> Int] /\ weight \in [1..n -> Int]
  BY ListTypes DEF BalanceInv, TypeOK
<1>3. Total \in Nat /\ weight' = weight /\ Total' = Total /\ Positions' = Positions
  BY <1>1, TotalIsNat DEF BalanceInv, Choose, Total, Positions
<1>4. Raised \in [1..n -> Int] /\ \A j \in 1..n : Raised[j] = cur[j] + weight[j]
  BY <1>2 DEF Raised
<1>5. /\ cur' \in [1..n -> Int]
      /\ \A j \in 1..n : cur'[j] = cur[j] + weight[j] - (IF j = i THEN Total ELSE 0)
  <2> HIDE DEF n
  <2>1. i \in 1..n
    BY <1>2
  <2>2. cur' = [Raised EXCEPT ![i] = Raised[i] - Total]
    BY <1>1
  <2>3. cur' \in [1..n -> Int]
    BY <1>3, <1>4, <2>1, <2>2
  <2>4. ASSUME NEW j \in 1..n
        PROVE  cur'[j] = cur[j] + weight[j] - (IF j = i THEN Total ELSE 0)
    <3>1. Raised[j] = cur[j] + weight[j] /\ cur[j] \in Int /\ weight[j] \in Int
      BY <1>2, <1>4
    <3>2. CASE j = i
      <4>1. cur'[j] = Raised[j] - Total
        BY <1>4, <2>2, <3>2
      <4> QED
        BY <1>3, <3>1, <3>2, <4>1
    <3>3. CASE j # i
      BY <1>4, <2>2, <3>1, <3>3
    <3> QED
      BY <3>2, <3>3
  <2> QED
    BY <2>3, <2>4
<1>6. DebtsCancel'
  <2> HIDE DEF n
  <2>1. Sums(cur', n)[n] = Sums(cur, n)[n] + Sums(weight, n)[n] - Total
    <3>1. i \in 1..n /\ Total \in Int
      BY <1>2, <1>3
    <3> QED
      BY <1>2, <1>5, <3>1, SumsCombine
  <2>2. Sums(cur, n)[n] = 0 /\ Sums(weight, n)[n] = Total
    BY DEF n, BalanceInv, DebtsCancel, Total
  <2>3. Sums(cur', n)[n] = 0
    BY <1>3, <2>1, <2>2
  <2> QED
    BY <1>3, <2>3 DEF DebtsCancel, n
<1>7. NobodyAhead'
  <2> SUFFICES ASSUME NEW j \in Positions PROVE cur'[j] # 0 => -Total < cur'[j]
    BY <1>3 DEF NobodyAhead
  <2>1. cur[j] \in Int /\ weight[j] \in Nat /\ (cur[j] # 0 => -Total < cur[j])
    BY <1>2, ListTypes DEF BalanceInv, NobodyAhead
  <2>2. CASE Total = 0
    <3>1. cur[j] = 0 /\ weight[j] = 0
      BY <2>2, NoWeightNoDebt
    <3> QED
      BY <1>2, <1>5, <2>2, <3>1
  <2>3. CASE Total > 0 /\ j = i
    <3>1. Raised[i] > 0
      BY <1>1, <2>3, BestIsPositive
    <3>2. cur'[i] = Raised[i] - Total /\ Raised[i] \in Int
      BY <1>1, <1>2, <1>4
    <3> QED
      BY <1>3, <2>3, <3>1, <3>2
  <2>4. CASE Total > 0 /\ j # i
    <3>1. cur'[j] = cur[j] + weight[j]
      BY <1>2, <1>5, <2>1, <2>4
    <3> QED
      BY <1>3, <2>1, <2>4, <3>1
  <2> QED
    BY <1>3, <2>2, <2>3, <2>4
<1> QED
  BY <1>6, <1>7

LEMMA BalanceInvStep == BalanceInv /\ [Next]_vars => BalanceInv'
<1> SUFFICES ASSUME BalanceInv, [Next]_vars PROVE BalanceInv'
  OBVIOUS
<1>1. TypeOK' /\ CurIsDebt'
  BY BalanceStep DEF BalanceInv
<1>2. ASSUME UNCHANGED <<cur, weight>> PROVE DebtsCancel' /\ NobodyAhead'
  BY <1>2 DEF BalanceInv, DebtsCancel, NobodyAhead, Positions, Total
<1>3. DebtsCancel' /\ NobodyAhead'
  <2>1. CASE UNCHANGED vars
    BY <2>1, <1>2 DEF vars
  <2>2. CASE \E list \in Lists : Replace(list)
    BY <2>2, FreshCancels
  <2>3. CASE SelectNone
    BY <2>3, <1>2 DEF SelectNone
  <2>4. CASE SelectAny
    BY <2>4, <1>2 DEF SelectAny, Choose
  <2>5. CASE SelectWeighted
    BY <2>5, WeightedCancels
  <2> QED
    BY <2>1, <2>2, <2>3, <2>4, <2>5 DEF Next
<1> QED
  BY <1>1, <1>3 DEF BalanceInv

\* The inductive invariant: over any lists and selections the debts of the
\* instances cancel out, and none has been served a whole selection too much.
THEOREM DebtsBalance == Spec => []BalanceInv
<1> QED
  BY BalanceInvInit, BalanceInvStep, PTL DEF Spec

-----------------------------------------------------------------------------
(* What follows for the callers of the balancer.                           *)

LEMMA LessThanOneMore ==
    ASSUME NEW n \in Nat, NEW t \in Nat, n > 1, t > 0
    PROVE  n * (t - 1) - (t - 1) < (n - 1) * t
<1>1. n * (t - 1) = n * t - n /\ (n - 1) * t = n * t - t /\ n * t \in Nat
  OBVIOUS
<1> QED
  BY <1>1

LEMMA InvSmall == BalanceInv => CurStaysSmall
<1> DEFINE n == Len(weight)
<1> SUFFICES ASSUME BalanceInv, NEW i \in Positions, cur[i] # 0
             PROVE  -Total < cur[i] /\ cur[i] < (n - 1) * Total
  BY DEF CurStaysSmall
<1>1. Positions = 1..n /\ n \in Nat /\ cur \in [1..n -> Int]
  BY ListTypes DEF BalanceInv, TypeOK
<1>2. Total \in Nat /\ Sums(cur, n)[n] = 0
  BY TotalIsNat DEF BalanceInv, DebtsCancel
<1>3. -Total < cur[i]
  BY DEF BalanceInv, NobodyAhead
<1>4. Total > 0
  BY <1>2, NoWeightNoDebt
<1> HIDE DEF n
<1>5. n > 1
  <2> SUFFICES ASSUME n = 1 PROVE FALSE
    BY <1>1
  <2>1. Adds(Sums(cur, n), cur, n)
    BY <1>1, SumsAdd
  <2>2. Sums(cur, n)[1] = Sums(cur, n)[0] + cur[1] /\ Sums(cur, n)[0] = 0
    BY <2>1 DEF Adds
  <2>3. i = 1 /\ cur[1] \in Int
    BY <1>1
  <2> QED
    BY <1>2, <2>2, <2>3
<1>6. cur[i] <= n * (Total - 1) - (Total - 1)
  <2>1. PICK b \in Nat : b = Total - 1
    BY <1>2, <1>4
  <2>2. \A j \in 1..n : cur[j] >= -b
    <3> SUFFICES ASSUME NEW j \in 1..n PROVE cur[j] >= -b
      OBVIOUS
    <3>1. cur[j] \in Int /\ (cur[j] # 0 => -Total < cur[j])
      BY <1>1 DEF BalanceInv, NobodyAhead
    <3> QED
      BY <1>2, <2>1, <3>1
  <2>3. cur[i] <= Sums(cur, n)[n] + n * b - b
    BY <1>1, <2>2, SumsAbove
  <2>4. n * b \in Int
    BY <1>1
  <2> QED
    BY <1>2, <2>1, <2>3, <2>4
<1>7. n * (Total - 1) - (Total - 1) < (n - 1) * Total
  BY <1>1, <1>2, <1>4, <1>5, LessThanOneMore
<1>8. cur[i] \in Int /\ n * (Total - 1) \in Int /\ (n - 1) * Total \in Int
  BY <1>1, <1>2
<1> QED
  BY <1>2, <1>3, <1>6, <1>7, <1>8

\* No CurWeight leaves the span from -Total to (n - 1) * Total: nobody is a whole
\* selection ahead of its share, and no CurWeight overflows.
THEOREM SmallDebts == Spec => []CurStaysSmall
<1> QED
  BY InvSmall, DebtsBalance, PTL

\* A debt of whole selections that is more than one selection behind is none.
LEMMA NotNegative ==
    ASSUME NEW t \in Nat, NEW e \in Int, -t < t * e
    PROVE  e >= 0
<1> SUFFICES ASSUME e <= -1 PROVE FALSE
  OBVIOUS
<1>1. t * e = -t + t * (e + 1) /\ t * (e + 1) <= 0
  OBVIOUS
<1> QED
  BY <1>1

LEMMA ZeroFactor ==
    ASSUME NEW t \in Nat, NEW e \in Int, t > 0, t * e = 0
    PROVE  e = 0
<1>1. e >= 0
  BY NotNegative
<1>2. CASE e >= 1
  <2>1. t * e = t + t * (e - 1) /\ t * (e - 1) >= 0
    BY <1>2
  <2> QED
    BY <2>1
<1> QED
  BY <1>1, <1>2

LEMMA Distributes ==
    ASSUME NEW t \in Nat, NEW a \in Int, NEW b \in Int
    PROVE  t * a - t * b = t * (a - b)
OBVIOUS

LEMMA Associates ==
    ASSUME NEW t \in Nat, NEW a \in Nat, NEW b \in Nat
    PROVE  (t * a) * b = t * (a * b)
OBVIOUS

LEMMA WholeRounds ==
    ASSUME NEW s \in Nat, NEW t \in Nat, t > 0, s % t = 0
    PROVE  \E k \in Nat : s = t * k
<1>1. s \div t \in Nat /\ s = t * (s \div t)
  BY Z3
<1> QED
  BY <1>1

\* At whole rounds every debt is a number of whole selections; none is negative,
\* and as they cancel out none is positive.
LEMMA InvExact == BalanceInv => RoundsAreExact
<1> DEFINE n == Len(weight)
<1> SUFFICES ASSUME BalanceInv, BalanceS = "weighted", Total > 0, served % Total = 0
             PROVE  \A i \in Positions : picks[i] * Total = served * weight[i]
  BY DEF RoundsAreExact
<1>1. Positions = 1..n /\ n \in Nat /\ cur \in [1..n -> Int]
  BY ListTypes DEF BalanceInv, TypeOK
<1>2. Total \in Nat /\ served \in Nat
  BY TotalIsNat DEF BalanceInv, TypeOK
<1>3. PICK k \in Nat : served = Total * k
  BY <1>2, WholeRounds
<1>4. ASSUME NEW i \in Positions
      PROVE  /\ cur[i] = Total * (k * weight[i] - picks[i])
             /\ served * weight[i] = Total * (k * weight[i])
             /\ k * weight[i] \in Int
             /\ picks[i] \in Nat
             /\ k * weight[i] - picks[i] \in Int
  <2>1. picks[i] \in Nat /\ weight[i] \in Nat
    BY ListTypes DEF BalanceInv, TypeOK
  <2>2. k * weight[i] \in Int /\ k * weight[i] - picks[i] \in Int
    BY <2>1
  <2>3. (Total * k) * weight[i] = Total * (k * weight[i])
    BY <1>2, <2>1, Associates
  <2>4. cur[i] = Total * (k * weight[i]) - Total * picks[i]
    BY <1>3, <2>3 DEF BalanceInv, CurIsDebt
  <2>5. Total * (k * weight[i]) - Total * picks[i] = Total * (k * weight[i] - picks[i])
    BY <1>2, <2>1, <2>2, Distributes
  <2> QED
    BY <1>3, <2>1, <2>2, <2>3, <2>4, <2>5
<1>5. ASSUME NEW i \in Positions PROVE cur[i] >= 0
  <2> DEFINE e == k * weight[i] - picks[i]
  <2>1. cur[i] \in Int /\ e \in Int /\ cur[i] = Total * e
    BY <1>1, <1>4
  <2> HIDE DEF e
  <2>2. CASE -Total < cur[i]
    <3>1. e >= 0
      BY <1>2, <2>1, <2>2, NotNegative
    <3> QED
      BY <1>2, <2>1, <3>1
  <2>3. CASE cur[i] = 0
    BY <2>3
  <2> QED
    BY <2>2, <2>3 DEF BalanceInv, NobodyAhead
<1>6. \A i \in 1..n : cur[i] = 0
  <2> HIDE DEF n
  <2>1. Sums(cur, n)[n] = 0
    BY DEF n, BalanceInv, DebtsCancel
  <2> QED
    BY <1>1, <1>5, <2>1, NothingOwedAtAll
<1> SUFFICES ASSUME NEW i \in Positions
             PROVE  picks[i] * Total = served * weight[i]
  OBVIOUS
<1> DEFINE e == k * weight[i] - picks[i]
<1>7. e = 0
  <2>1. e \in Int /\ Total * e = 0
    BY <1>1, <1>4, <1>6
  <2> HIDE DEF e
  <2> QED
    BY <1>2, <2>1, ZeroFactor
<1> QED
  <2>1. k * weight[i] = picks[i]
    BY <1>4, <1>7
  <2>2. Total * picks[i] = picks[i] * Total
    BY <1>2, <1>4
  <2> QED
    BY <1>4, <2>1, <2>2

\* After every round of Total selections the weighted round robin has chosen
\* each instance exactly Weight times per round.
THEOREM ExactRounds == Spec => []RoundsAreExact
<1> QED
  BY InvExact, DebtsBalance, PTL

\* An instance without weight is never chosen from a list that has any.
NoWeightNoRequest ==
    BalanceS = "weighted" /\ Total > 0 =>
        \A i \in Positions : weight[i] = 0 => picks[i] = 0

LEMMA InvNoWeight == BalanceInv => NoWeightNoRequest
<1> SUFFICES ASSUME BalanceInv, BalanceS = "weighted", Total > 0,
                    NEW i \in Positions, weight[i] = 0
             PROVE  picks[i] = 0
  BY DEF NoWeightNoRequest
<1>1. Total \in Nat /\ served \in Nat /\ picks[i] \in Nat
  BY TotalIsNat DEF BalanceInv, TypeOK
<1>2. cur[i] = served * weight[i] - Total * picks[i]
  BY DEF BalanceInv, CurIsDebt
<1>3. served * weight[i] = 0
  BY <1>1
<1>4. PICK e \in Int : e = -picks[i]
  BY <1>1
<1>5. Total * e = 0 - Total * picks[i]
  BY <1>1, <1>4
<1>6. cur[i] = Total * e
  BY <1>2, <1>3, <1>5
<1>7. cur[i] = 0 \/ -Total < cur[i]
  BY DEF BalanceInv, NobodyAhead
<1>8. e >= 0
  BY <1>1, <1>6, <1>7, NotNegative, ZeroFactor
<1> QED
  BY <1>1, <1>4, <1>8

\* Whatever the order of selections and lists, weight 0 means no request at all
\* (an operator's way to drain an instance) unless every weight is 0.
THEOREM NoWeightIsDrained == Spec => []NoWeightNoRequest
<1> QED
  BY InvNoWeight, DebtsBalance, PTL
=============================================================================
