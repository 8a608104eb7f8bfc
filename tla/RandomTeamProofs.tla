-------------------------- MODULE RandomTeamProofs --------------------------
(***************************************************************************)
(* Theorems about module RandomTeam, for any players, genders and levels   *)
(* and teams of any size.                                                  *)
(***************************************************************************)
EXTENDS RandomTeam, TLAPS, FiniteSetTheorems, FunctionTheorems,
        WellFoundedInduction, NaturalsInduction

-----------------------------------------------------------------------------
(* Sums.                                                                   *)

\* h[k] is the sum of the first k of the n marks f[1], f[2], ...
Sums(h, f, n) == h = [k \in 0..n |-> IF k = 0 THEN 0 ELSE h[k - 1] + f[k]]

\* A set of numbers that is not empty has a least one.
LEMMA Least ==
    ASSUME NEW T, T \subseteq Nat, T # {}
    PROVE  \E m \in T : \A k \in T : ~(k < m)
<1>1. PICK m \in T : \A k \in T : <<k, m>> \notin OpToRel(<, Nat)
  BY NatLessThanWellFounded, WFMin
<1>2. QED
  BY <1>1 DEF OpToRel

\* Marks have sums,
LEMMA SumsExist ==
    ASSUME NEW f, NEW n \in Nat
    PROVE  \E h : Sums(h, f, n)
<1> DEFINE Without == {k \in Nat : ~\E h : Sums(h, f, k)}
<1>1. Sums([k \in 0..0 |-> 0], f, 0)
  BY DEF Sums
<1>2. ASSUME NEW k \in Nat, NEW h, Sums(h, f, k)
      PROVE  \E g : Sums(g, f, k + 1)
  <2> DEFINE g == [i \in 0..(k + 1) |-> IF i = k + 1 THEN h[k] + f[k + 1] ELSE h[i]]
  <2>1. \A i \in 0..k : h[i] = IF i = 0 THEN 0 ELSE h[i - 1] + f[i]
    BY <1>2 DEF Sums
  <2>2. \A i \in 0..(k + 1) : g[i] = IF i = 0 THEN 0 ELSE g[i - 1] + f[i]
    BY <2>1
  <2>3. g = [i \in 0..(k + 1) |-> g[i]]
    OBVIOUS
  <2> HIDE DEF g
  <2>4. g = [i \in 0..(k + 1) |-> IF i = 0 THEN 0 ELSE g[i - 1] + f[i]]
    BY <2>2, <2>3
  <2>5. QED
    BY <2>4 DEF Sums
<1>3. Without = {}
  <2> SUFFICES ASSUME Without # {} PROVE FALSE
    OBVIOUS
  <2>0. Without \subseteq Nat
    OBVIOUS
  <2>1. PICK m \in Without : \A k \in Without : ~(k < m)
    <3> HIDE DEF Without
    <3>1. QED
      BY <2>0, Least
  <2>2. m # 0
    BY <1>1, <2>1
  <2>3. m - 1 \in Nat /\ m - 1 \notin Without /\ (m - 1) + 1 = m
    BY <2>1, <2>2
  <2>4. QED
    BY <1>2, <2>1, <2>3
<1>4. QED
  BY <1>3

\* which are numbers.
LEMMA SumsNat ==
    ASSUME NEW n \in Nat, NEW f, \A k \in 1..n : f[k] \in Nat,
           NEW h, Sums(h, f, n)
    PROVE  h[n] \in Nat
<1> DEFINE Bad == {k \in 0..n : h[k] \notin Nat}
<1>1. \A k \in 0..n : h[k] = IF k = 0 THEN 0 ELSE h[k - 1] + f[k]
  BY DEF Sums
<1>2. Bad = {}
  <2> SUFFICES ASSUME Bad # {} PROVE FALSE
    OBVIOUS
  <2>0. Bad \subseteq Nat
    OBVIOUS
  <2>1. PICK m \in Bad : \A k \in Bad : ~(k < m)
    <3> HIDE DEF Bad
    <3>1. QED
      BY <2>0, Least
  <2>2. m # 0 /\ m \in 0..n
    BY <1>1, <2>1
  <2>3. m - 1 \in 0..n /\ m - 1 \notin Bad
    BY <2>1, <2>2
  <2>4. h[m - 1] \in Nat /\ f[m] \in Nat
    BY <2>2, <2>3
  <2>5. h[m] \in Nat
    BY <1>1, <2>2, <2>4
  <2>6. QED
    BY <2>1, <2>5
<1>3. QED
  BY <1>2

\* The sum of the levels lv of a team, as LevelSum has it.
SumOf(lv, team) ==
    LET sum[k \in 0..Len(team)] == IF k = 0 THEN 0 ELSE sum[k - 1] + lv[team[k]]
    IN sum[Len(team)]

LEMMA LevelSumIs == \A team : LevelSum(team) = SumOf(level, team)
BY DEF LevelSum, SumOf

\* A team of players with levels has a sum.
LEMMA LevelSumNat ==
    ASSUME NEW lv \in [Players -> 0..15], NEW team \in Seq(Players)
    PROVE  SumOf(lv, team) \in Nat
<1> DEFINE n == Len(team)
           f == [k \in 1..n |-> lv[team[k]]]
           IsSum(h) == h = [k \in 0..n |-> IF k = 0 THEN 0 ELSE h[k - 1] + lv[team[k]]]
<1>1. n \in Nat /\ \A k \in 1..n : f[k] = lv[team[k]] /\ f[k] \in Nat
  OBVIOUS
<1>2. \A h : IsSum(h) <=> Sums(h, f, n)
  <2> SUFFICES ASSUME NEW h PROVE IsSum(h) <=> Sums(h, f, n)
    OBVIOUS
  <2>1. [k \in 0..n |-> IF k = 0 THEN 0 ELSE h[k - 1] + lv[team[k]]]
        = [k \in 0..n |-> IF k = 0 THEN 0 ELSE h[k - 1] + f[k]]
    BY <1>1
  <2>2. QED
    BY <2>1 DEF Sums
<1> HIDE DEF f
<1>3. \E h : IsSum(h)
  BY <1>1, <1>2, SumsExist
<1>4. IsSum(CHOOSE h : IsSum(h))
  BY ONLY <1>3, Zenon
<1>5. SumOf(lv, team) = (CHOOSE h : IsSum(h))[n]
  BY DEF SumOf
<1>6. PICK g : g = CHOOSE h : IsSum(h)
  OBVIOUS
<1>7. IsSum(g) /\ SumOf(lv, team) = g[n]
  BY <1>4, <1>5, <1>6
<1> HIDE DEF IsSum, n
<1>8. Sums(g, f, n)
  BY <1>2, <1>7
<1>9. g[n] \in Nat
  BY <1>1, <1>8, SumsNat
<1>10. QED
  BY <1>7, <1>9

-----------------------------------------------------------------------------
(* Deals.                                                                  *)

\* Order o has every player at one place, the w players of gender 0 first.
Arranged(o, w) ==
    /\ w \in 0..(3 * TeamSize)
    /\ o \in [1..(3 * TeamSize) -> Players]
    /\ \A i, j \in 1..(3 * TeamSize) : o[i] = o[j] => i = j
    /\ \A p \in Players : \E i \in 1..(3 * TeamSize) : o[i] = p
    /\ \A i \in 1..(3 * TeamSize) : o[i] \in Of(0) <=> i <= w

\* A sequence of all elements of a set, each once, has its cardinality.
LEMMA Enumerates ==
    ASSUME NEW S, IsFiniteSet(S), NEW s \in SetToSeqs(S)
    PROVE  /\ Cardinality(S) \in Nat
           /\ s \in [1..Cardinality(S) -> S]
           /\ s \in Seq(S) /\ Len(s) = Cardinality(S)
           /\ \A i, j \in 1..Cardinality(S) : s[i] = s[j] => i = j
           /\ \A e \in S : \E i \in 1..Cardinality(S) : s[i] = e
<1> DEFINE n == Cardinality(S)
<1>1. n \in Nat
  BY FS_CardinalityType
<1>2. /\ s \in [1..n -> S]
      /\ \A i, j \in 1..n : s[i] = s[j] => i = j
  BY DEF SetToSeqs
<1>3. s \in Seq(S) /\ Len(s) = n
  BY <1>1, <1>2
<1>4. s \in Injection(1..n, S)
  BY <1>2 DEF Injection, IsInjective
<1>5. Cardinality(1..n) = n
  BY <1>1, FS_Interval
<1>6. s \in Surjection(1..n, S)
  BY <1>4, <1>5, FS_Injection
<1>7. \A e \in S : \E i \in 1..n : s[i] = e
  BY <1>6 DEF Surjection
<1>8. QED
  BY <1>1, <1>2, <1>3, <1>7

\* A shuffle sorted by gender is arranged.
LEMMA OrdersArranged ==
    ASSUME gender \in Genders, NEW o \in Orders
    PROVE  \E w : Arranged(o, w)
<1> USE RandomTeamAssumption
<1>1. PICK a \in SetToSeqs(Of(0)), b \in SetToSeqs(Of(1)) : o = a \o b
  BY DEF Orders
<1> DEFINE w == Cardinality(Of(0))
           m == Cardinality(Of(1))
<1>2. Of(0) \cup Of(1) = Players /\ Of(0) \cap Of(1) = {}
  BY DEF Of
<1>3. IsFiniteSet(Of(0)) /\ IsFiniteSet(Of(1))
  BY <1>2, FS_Subset
<1>4. Cardinality(Players) = w + m - Cardinality(Of(0) \cap Of(1))
  BY <1>2, <1>3, FS_Union
<1>5. Cardinality(Of(0) \cap Of(1)) = 0
  BY <1>2, FS_EmptySet
<1>6. /\ w \in Nat
      /\ a \in [1..w -> Of(0)] /\ a \in Seq(Of(0)) /\ Len(a) = w
      /\ \A i, j \in 1..w : a[i] = a[j] => i = j
      /\ \A e \in Of(0) : \E i \in 1..w : a[i] = e
  BY <1>3, Enumerates
<1>7. /\ m \in Nat
      /\ b \in [1..m -> Of(1)] /\ b \in Seq(Of(1)) /\ Len(b) = m
      /\ \A i, j \in 1..m : b[i] = b[j] => i = j
      /\ \A e \in Of(1) : \E i \in 1..m : b[i] = e
  BY <1>3, Enumerates
<1> HIDE DEF w, m
<1>8. w + m = 3 * TeamSize
  BY <1>4, <1>5, <1>6, <1>7
<1>9. a \in Seq(Players) /\ b \in Seq(Players)
  BY <1>2, <1>6, <1>7
<1>10. o \in Seq(Players) /\ Len(o) = w + m
  <2>1. o \in Seq(Players)
    BY <1>1, <1>9
  <2>2. Len(o) = Len(a) + Len(b)
    BY <1>1, <1>9
  <2>3. QED
    BY <1>6, <1>7, <2>1, <2>2
<1>11. \A i \in 1..(w + m) : o[i] = IF i <= w THEN a[i] ELSE b[i - w]
  BY <1>1, <1>6, <1>7, <1>9
<1>12. \A i \in 1..(w + m) : IF i <= w THEN i \in 1..w /\ o[i] \in Of(0)
                             ELSE i - w \in 1..m /\ o[i] \in Of(1)
  BY <1>6, <1>7, <1>11
<1>13. o \in [1..(3 * TeamSize) -> Players]
  BY <1>8, <1>10
<1>14. \A i \in 1..(3 * TeamSize) : o[i] \in Of(0) <=> i <= w
  BY <1>2, <1>8, <1>12
<1>15. ASSUME NEW i \in 1..(3 * TeamSize), NEW j \in 1..(3 * TeamSize), o[i] = o[j]
       PROVE  i = j
  <2>1. CASE i <= w
    <3>1. j <= w
      BY <1>14, <1>15, <2>1
    <3>2. QED
      BY <1>6, <1>8, <1>11, <1>12, <1>15, <2>1, <3>1
  <2>2. CASE ~(i <= w)
    <3>1. ~(j <= w)
      BY <1>14, <1>15, <2>2
    <3>2. i - w = j - w
      BY <1>7, <1>8, <1>11, <1>12, <1>15, <2>2, <3>1
    <3>3. QED
      BY <1>6, <3>2
  <2>3. QED
    BY <2>1, <2>2
<1>16. ASSUME NEW p \in Players PROVE \E i \in 1..(3 * TeamSize) : o[i] = p
  <2>1. CASE p \in Of(0)
    <3>1. PICK i \in 1..w : a[i] = p
      BY <1>6, <2>1
    <3>2. i \in 1..(w + m) /\ i <= w
      BY <1>6, <1>7
    <3>3. QED
      BY <1>8, <1>11, <3>1, <3>2
  <2>2. CASE p \in Of(1)
    <3>1. PICK i \in 1..m : b[i] = p
      BY <1>7, <2>2
    <3>2. i + w \in 1..(w + m) /\ ~(i + w <= w) /\ (i + w) - w = i
      BY <1>6, <1>7
    <3>3. QED
      BY <1>8, <1>11, <3>1, <3>2
  <2>3. QED
    BY <1>2, <2>1, <2>2
<1>17. w \in 0..(3 * TeamSize)
  BY <1>6, <1>7, <1>8
<1>18. QED
  BY <1>13, <1>14, <1>15, <1>16, <1>17 DEF Arranged

\* The place in the order of the k-th player of team t.
Place(t, k) == 3 * (k - 1) + t

\* Every place is dealt to one team.
LEMMA Places ==
    /\ \A t \in 1..3, k \in 1..TeamSize : Place(t, k) \in 1..(3 * TeamSize)
    /\ \A s, t \in 1..3, j, k \in 1..TeamSize :
         Place(s, j) = Place(t, k) => s = t /\ j = k
    /\ \A i \in 1..(3 * TeamSize) : \E t \in 1..3, k \in 1..TeamSize : i = Place(t, k)
<1> USE RandomTeamAssumption
<1>1. \A t \in 1..3, k \in 1..TeamSize : Place(t, k) \in 1..(3 * TeamSize)
  BY DEF Place
<1>2. \A s, t \in 1..3, j, k \in 1..TeamSize :
        Place(s, j) = Place(t, k) => s = t /\ j = k
  BY DEF Place
<1>3. ASSUME NEW i \in 1..(3 * TeamSize)
      PROVE  \E t \in 1..3, k \in 1..TeamSize : i = Place(t, k)
  <2>1. PICK q \in Nat, r \in 0..2 : i - 1 = 3 * q + r
    <3>1. (i - 1) \div 3 \in Nat /\ (i - 1) % 3 \in 0..2
      OBVIOUS
    <3>2. i - 1 = (3 * ((i - 1) \div 3)) + ((i - 1) % 3)
      OBVIOUS
    <3>3. QED
      BY <3>1, <3>2
  <2>2. q + 1 \in 1..TeamSize /\ r + 1 \in 1..3 /\ i = Place(r + 1, q + 1)
    BY <2>1 DEF Place
  <2>3. QED
    BY <2>2
<1>4. QED
  BY <1>1, <1>2, <1>3

\* The teams of a deal.
LEMMA DealTeams ==
    ASSUME NEW o, NEW w, Arranged(o, w), NEW t \in 1..3
    PROVE  /\ Deal(o)[t] \in Seq(Players) /\ Len(Deal(o)[t]) = TeamSize
           /\ ToSet(Deal(o)[t]) = {o[Place(t, k)] : k \in 1..TeamSize}
<1>1. TeamSize \in Nat
  BY RandomTeamAssumption
<1>2. Deal(o)[t] = [k \in 1..TeamSize |-> o[Place(t, k)]]
  BY DEF Deal, Place
<1>3. \A k \in 1..TeamSize : o[Place(t, k)] \in Players
  BY Places DEF Arranged
<1>4. Deal(o)[t] \in Seq(Players) /\ Len(Deal(o)[t]) = TeamSize
  BY <1>1, <1>2, <1>3
<1>5. QED
  BY <1>1, <1>2, <1>4 DEF ToSet

\* Dealt out of an order sorted by gender, team t gets every third of the w
\* players who come first.
LEMMA WomenOfTeam ==
    ASSUME NEW o, NEW w, Arranged(o, w), NEW t \in 1..3
    PROVE  \E c \in Nat :
             /\ Cardinality(ToSet(Deal(o)[t]) \cap Of(0)) = c
             /\ 3 * c <= w + 3 - t /\ w + 3 - t < 3 * c + 3
<1> USE RandomTeamAssumption
<1>1. w \in Nat /\ w <= 3 * TeamSize
  BY DEF Arranged
<1>2. PICK c \in Nat : 3 * c <= w + 3 - t /\ w + 3 - t < 3 * c + 3
  <2>1. w + 3 - t \in Nat
    BY <1>1
  <2>2. (w + 3 - t) \div 3 \in Nat
    BY <2>1
  <2>3. QED
    BY <2>1, <2>2
<1>3. c <= TeamSize
  BY <1>1, <1>2
<1>4. \A k \in 1..TeamSize : Place(t, k) <= w <=> k <= c
  BY <1>1, <1>2 DEF Place
<1>5. ToSet(Deal(o)[t]) = {o[Place(t, k)] : k \in 1..TeamSize}
  <2>1. Arranged(o, w) /\ t \in 1..3
    OBVIOUS
  <2>2. QED
    BY ONLY <2>1, DealTeams
<1> DEFINE W == ToSet(Deal(o)[t]) \cap Of(0)
           g == [k \in 1..c |-> o[Place(t, k)]]
<1>6. W = {o[Place(t, k)] : k \in 1..c}
  <2>1. \A k \in 1..TeamSize : o[Place(t, k)] \in Of(0) <=> k <= c
    BY <1>4, Places DEF Arranged
  <2>2. W = {o[Place(t, k)] : k \in 1..TeamSize} \cap Of(0)
    BY <1>5
  <2>3. \A k \in 1..c : k \in 1..TeamSize
    BY <1>3
  <2>4. \A k \in 1..TeamSize : k <= c => k \in 1..c
    OBVIOUS
  <2> HIDE DEF W
  <2>5. QED
    BY <2>1, <2>2, <2>3, <2>4
<1> HIDE DEF W
<1>7. g \in [1..c -> W]
  BY <1>6
<1>8. \A j, k \in 1..c : g[j] = g[k] => j = k
  <2>1. \A k \in 1..c : k \in 1..TeamSize /\ g[k] = o[Place(t, k)]
    BY <1>3
  <2>2. ASSUME NEW j \in 1..c, NEW k \in 1..c, g[j] = g[k] PROVE j = k
    <3>1. j \in 1..TeamSize /\ k \in 1..TeamSize /\ o[Place(t, j)] = o[Place(t, k)]
      BY <2>1, <2>2
    <3> HIDE DEF g
    <3>2. Place(t, j) = Place(t, k)
      BY <3>1, Places DEF Arranged
    <3>3. QED
      BY <3>1, <3>2, Places
  <2>3. QED
    BY <2>2
<1>9. \A p \in W : \E k \in 1..c : g[k] = p
  BY <1>6
<1> HIDE DEF g
<1>10. ExistsBijection(1..c, W)
  BY <1>7, <1>8, <1>9, Fun_IsBij DEF ExistsBijection
<1>11. Cardinality(W) = c
  BY <1>10, FS_CountingElements
<1>12. QED
  BY <1>2, <1>11 DEF W

-----------------------------------------------------------------------------
(* The teams shown.                                                        *)

\* The users are as fetched, and the teams shown are a deal that was accepted.
TeamInv ==
    /\ gender \in Genders /\ level \in Levels
    /\ page = "labelled" => \E o \in Orders : /\ shuffledPlayerUsers = Deal(o)
                                              /\ AtHalf(Deal(o))

\* No team is shown at first.
LEMMA InitTeamInv == Init => TeamInv
BY DEF Init, TeamInv

\* What is judged even is judged so whatever else changes.
LEMMA AtHalfKept ==
    ASSUME level' = level, NEW CONSTANT o, AtHalf(Deal(o))
    PROVE  AtHalf(Deal(o))'
<1>1. \A team : LevelSum(team)' = SumOf(level', team)
  BY DEF LevelSum, SumOf
<1>2. \A team : LevelSum(team)' = LevelSum(team)
  BY <1>1, LevelSumIs
<1>3. QED
  BY <1>2 DEF AtHalf, AveDiffs, Diff, Deal

LEMMA NextTeamInv == TeamInv /\ [Next]_vars => TeamInv'
<1> SUFFICES ASSUME TeamInv, [Next]_vars PROVE TeamInv'
  OBVIOUS
<1>1. gender' = gender /\ level' = level
  BY DEF Next, Accept, DealAgain, vars
<1>2. Orders' = Orders
  BY <1>1 DEF Orders, Of
<1>3. ASSUME NEW o \in Orders, Accept(o) PROVE TeamInv'
  <2>1. AtHalf(Deal(o))'
    BY <1>1, <1>3, AtHalfKept DEF Accept
  <2>2. shuffledPlayerUsers' = Deal(o)'
    BY <1>3 DEF Accept, Deal
  <2>3. QED
    BY <1>1, <1>2, <2>1, <2>2 DEF TeamInv
<1>4. ASSUME NEW o \in Orders, DealAgain(o) PROVE TeamInv'
  BY <1>1, <1>4 DEF TeamInv, DealAgain
<1>5. CASE UNCHANGED vars
  <2>1. CASE page = "labelled"
    <3>1. PICK o \in Orders : shuffledPlayerUsers = Deal(o) /\ AtHalf(Deal(o))
      BY <2>1 DEF TeamInv
    <3>2. AtHalf(Deal(o))' /\ shuffledPlayerUsers' = Deal(o)'
      BY <1>1, <1>5, <3>1, AtHalfKept DEF vars, Deal
    <3>3. QED
      BY <1>1, <1>2, <3>2 DEF TeamInv
  <2>2. CASE page # "labelled"
    BY <1>1, <1>5, <2>2 DEF TeamInv, vars
  <2>3. QED
    BY <2>1, <2>2
<1>6. QED
  BY <1>3, <1>4, <1>5 DEF Next

LEMMA TeamInvariant == Spec => []TeamInv
BY InitTeamInv, NextTeamInv, PTL DEF Spec

\* Whatever the shuffles, everybody is in one team when generateRandomTeamWithLevel
\* is done, the teams are of TeamSize players, and players of one gender are
\* spread over them as evenly as they can be.
THEOREM TeamsAreFair == Spec => []FairTeams
<1>1. TeamInv => FairTeams
  <2> SUFFICES ASSUME TeamInv, page = "labelled"
               PROVE  /\ \A t \in 1..3 : Len(shuffledPlayerUsers[t]) = TeamSize
                      /\ UNION {ToSet(shuffledPlayerUsers[t]) : t \in 1..3} = Players
                      /\ \A s, t \in 1..3 :
                           Cardinality(ToSet(shuffledPlayerUsers[s]) \cap Of(0)) <=
                             Cardinality(ToSet(shuffledPlayerUsers[t]) \cap Of(0)) + 1
    BY DEF FairTeams
  <2>1. PICK o \in Orders : shuffledPlayerUsers = Deal(o)
    BY DEF TeamInv
  <2>2. PICK w : Arranged(o, w)
    BY OrdersArranged DEF TeamInv
  <2>3. \A t \in 1..3 : Len(shuffledPlayerUsers[t]) = TeamSize
    BY <2>1, <2>2, DealTeams
  <2>4. \A t \in 1..3 :
          ToSet(shuffledPlayerUsers[t]) = {o[Place(t, k)] : k \in 1..TeamSize}
    BY <2>1, <2>2, DealTeams
  <2>5. UNION {ToSet(shuffledPlayerUsers[t]) : t \in 1..3} = Players
    <3>1. \A t \in 1..3, k \in 1..TeamSize : o[Place(t, k)] \in Players
      BY <2>2, Places DEF Arranged
    <3>2. ASSUME NEW p \in Players
          PROVE  \E t \in 1..3 : p \in ToSet(shuffledPlayerUsers[t])
      <4>1. PICK i \in 1..(3 * TeamSize) : o[i] = p
        BY <2>2 DEF Arranged
      <4>2. PICK t \in 1..3, k \in 1..TeamSize : i = Place(t, k)
        BY Places
      <4>3. QED
        BY <2>4, <4>1, <4>2
    <3>3. QED
      BY <2>4, <3>1, <3>2
  <2>6. ASSUME NEW s \in 1..3, NEW t \in 1..3
        PROVE  Cardinality(ToSet(shuffledPlayerUsers[s]) \cap Of(0)) <=
                 Cardinality(ToSet(shuffledPlayerUsers[t]) \cap Of(0)) + 1
    <3>1. PICK c \in Nat :
            /\ Cardinality(ToSet(Deal(o)[s]) \cap Of(0)) = c
            /\ 3 * c <= w + 3 - s /\ w + 3 - s < 3 * c + 3
      BY <2>2, WomenOfTeam
    <3>2. PICK d \in Nat :
            /\ Cardinality(ToSet(Deal(o)[t]) \cap Of(0)) = d
            /\ 3 * d <= w + 3 - t /\ w + 3 - t < 3 * d + 3
      BY <2>2, WomenOfTeam
    <3>3. w \in Int
      BY <2>2, RandomTeamAssumption DEF Arranged
    <3>4. c <= d + 1
      BY <3>1, <3>2, <3>3
    <3>5. QED
      BY <2>1, <3>1, <3>2, <3>4
  <2>7. QED
    BY <2>3, <2>5, <2>6
<1>2. QED
  BY <1>1, TeamInvariant, PTL

\* The test of calculateMaxAverageLevelDifference covers all pairs of teams: a
\* difference is of two levels whichever is the greater.
THEOREM TeamsAreBalanced == Spec => []BalancedTeams
<1>1. TeamInv => BalancedTeams
  <2> SUFFICES ASSUME TeamInv, page = "labelled", NEW s \in 1..3, NEW t \in 1..3
               PROVE  2 * LevelSum(shuffledPlayerUsers[s]) <=
                        2 * LevelSum(shuffledPlayerUsers[t]) + 5 * TeamSize
    BY DEF BalancedTeams
  <2>1. PICK o \in Orders : shuffledPlayerUsers = Deal(o) /\ AtHalf(Deal(o))
    BY DEF TeamInv
  <2>2. PICK w : Arranged(o, w)
    BY OrdersArranged DEF TeamInv
  <2>3. level \in [Players -> 0..15] /\ TeamSize \in Nat
    BY RandomTeamAssumption DEF TeamInv
  <2>4. \A r \in 1..3 : LevelSum(Deal(o)[r]) \in Nat
    BY <2>2, <2>3, DealTeams, LevelSumIs, LevelSumNat
  <2>5. PICK T : T = Deal(o)
    OBVIOUS
  <2>6. /\ 2 * Diff(T, 1, 2) <= 5 * TeamSize
        /\ 2 * Diff(T, 3, 2) <= 5 * TeamSize
        /\ 2 * Diff(T, 1, 3) <= 5 * TeamSize
    BY <2>1, <2>5 DEF AtHalf, AveDiffs
  <2>7. PICK l \in [1..3 -> Nat] : \A r \in 1..3 : LevelSum(T[r]) = l[r]
    <3>1. [r \in 1..3 |-> LevelSum(T[r])] \in [1..3 -> Nat]
      BY <2>4, <2>5
    <3>2. QED
      BY <3>1
  <2>8. \A q, r \in 1..3 : Diff(T, q, r) = IF l[q] < l[r] THEN l[r] - l[q] ELSE l[q] - l[r]
    BY <2>7 DEF Diff
  <2>9. /\ l[1] \in Nat /\ l[2] \in Nat /\ l[3] \in Nat
        /\ s = 1 \/ s = 2 \/ s = 3
        /\ t = 1 \/ t = 2 \/ t = 3
    OBVIOUS
  <2>10. /\ 2 * (IF l[1] < l[2] THEN l[2] - l[1] ELSE l[1] - l[2]) <= 5 * TeamSize
         /\ 2 * (IF l[3] < l[2] THEN l[2] - l[3] ELSE l[3] - l[2]) <= 5 * TeamSize
         /\ 2 * (IF l[1] < l[3] THEN l[3] - l[1] ELSE l[1] - l[3]) <= 5 * TeamSize
    BY <2>6, <2>8
  <2>11. 2 * l[s] <= 2 * l[t] + 5 * TeamSize
    BY <2>3, <2>9, <2>10
  <2>12. QED
    BY <2>1, <2>5, <2>7, <2>11
<1>2. QED
  BY <1>1, TeamInvariant, PTL
=============================================================================
