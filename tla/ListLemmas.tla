----------------------------- MODULE ListLemmas -----------------------------
(* Facts about lists that hold for every list, cited by the proof modules. *)
EXTENDS Lists, TLAPS

\* Removing the first occurrence leaves a sequence of elements of s that
\* begins as s does, unless the first element is the one removed.
LEMMA RemovingFirstProperties ==
    ASSUME NEW S, NEW s \in Seq(S), NEW e
    PROVE  /\ RemovingFirst(s, e) \in Seq(S)
           /\ \A i \in DOMAIN RemovingFirst(s, e) :
                \E k \in DOMAIN s : RemovingFirst(s, e)[i] = s[k]
           /\ s # <<>> /\ s[1] # e =>
                RemovingFirst(s, e) # <<>> /\ RemovingFirst(s, e)[1] = s[1]
<1>1. CASE ~Contains(s, e)
  BY <1>1 DEF RemovingFirst
<1>2. CASE Contains(s, e)
  <2> DEFINE r == [i \in 1..(Len(s) - 1) |-> IF \E k \in 1..i : s[k] = e
                                             THEN s[i + 1] ELSE s[i]]
  <2>1. RemovingFirst(s, e) = r
    BY <1>2 DEF RemovingFirst
  <2>2. PICK m \in 1..Len(s) : s[m] = e
    BY <1>2 DEF Contains
  <2>3. Len(s) - 1 \in Nat
    BY <2>2
  <2>4. \A i \in 1..(Len(s) - 1) : r[i] \in S /\ \E k \in DOMAIN s : r[i] = s[k]
    BY <2>3
  <2>5. r \in Seq(S) /\ Len(r) = Len(s) - 1
    BY <2>3, <2>4
  <2>6. s[1] # e => 1 \in 1..(Len(s) - 1) /\ r[1] = s[1]
    BY <2>2
  <2>7. DOMAIN r = 1..(Len(s) - 1)
    OBVIOUS
  <2> HIDE DEF r
  <2>8. s # <<>> /\ s[1] # e => r # <<>>
    BY <2>5, <2>6
  <2>9. QED
    BY <2>1, <2>4, <2>5, <2>6, <2>7, <2>8
<1>3. QED
  BY <1>1, <1>2

\* Appending keeps the elements and the first one of a nonempty sequence.
LEMMA AppendProperties ==
    ASSUME NEW S, NEW s \in Seq(S), NEW e \in S
    PROVE  /\ Append(s, e) \in Seq(S)
           /\ \A i \in DOMAIN Append(s, e) :
                \/ Append(s, e)[i] = e
                \/ \E k \in DOMAIN s : Append(s, e)[i] = s[k]
           /\ s # <<>> => Append(s, e) # <<>> /\ Append(s, e)[1] = s[1]
OBVIOUS

\* Appending a new element to a list without duplicates gives one.
LEMMA AppendingInjective ==
    ASSUME NEW S, NEW s \in Seq(S), NEW e \in S, IsInjective(s)
    PROVE  ~Contains(s, e) => IsInjective(Append(s, e))
<1> HAVE ~Contains(s, e)
<1>1. PICK t : t = Append(s, e)
  OBVIOUS
<1>2. DOMAIN t = 1..(Len(s) + 1) /\ t[Len(s) + 1] = e
  BY <1>1
<1>3. \A j \in 1..Len(s) : t[j] = s[j] /\ s[j] # e
  BY <1>1 DEF Contains
<1>4. \A i, k \in 1..Len(s) : s[i] = s[k] => i = k
  BY DEF IsInjective
<1>5. Len(s) \in Nat
  OBVIOUS
<1>6. \A i, k \in DOMAIN t : t[i] = t[k] => i = k
  BY <1>2, <1>3, <1>4, <1>5
<1>7. IsInjective(t)
  BY <1>6 DEF IsInjective
<1>8. QED
  BY <1>1, <1>7

\* Removing an element of a list without duplicates gives one.
LEMMA RemovingInjective ==
    ASSUME NEW S, NEW s \in Seq(S), NEW e, IsInjective(s)
    PROVE  IsInjective(RemovingFirst(s, e))
<1>1. CASE ~Contains(s, e)
  BY <1>1 DEF RemovingFirst
<1>2. CASE Contains(s, e)
  <2> DEFINE from(i) == IF \E k \in 1..i : s[k] = e THEN i + 1 ELSE i
             r == [i \in 1..(Len(s) - 1) |-> IF \E k \in 1..i : s[k] = e
                                              THEN s[i + 1] ELSE s[i]]
  <2>1. RemovingFirst(s, e) = r
    BY <1>2 DEF RemovingFirst
  <2>2. \A i \in 1..(Len(s) - 1) : from(i) \in 1..Len(s) /\ r[i] = s[from(i)]
    OBVIOUS
  <2>3. ASSUME NEW i \in 1..(Len(s) - 1), NEW k \in 1..(Len(s) - 1),
               from(i) = from(k)
        PROVE  i = k
    <3>1. CASE i < k
      BY <2>3, <3>1
    <3>2. CASE k < i
      BY <2>3, <3>2
    <3>3. QED
      BY <3>1, <3>2
  <2>4. DOMAIN r = 1..(Len(s) - 1)
    OBVIOUS
  <2> HIDE DEF from, r
  <2>5. ASSUME NEW i \in DOMAIN r, NEW k \in DOMAIN r, r[i] = r[k]
        PROVE  i = k
    BY <2>2, <2>3, <2>4, <2>5 DEF IsInjective
  <2>6. QED
    BY <2>1, <2>5 DEF IsInjective
<1>3. QED
  BY <1>1, <1>2

\* What an appended list holds.
LEMMA AppendingSet ==
    ASSUME NEW S, NEW s \in Seq(S), NEW e \in S
    PROVE  ToSet(Append(s, e)) = ToSet(s) \cup {e}
<1>1. PICK t : t = Append(s, e)
  OBVIOUS
<1>2. DOMAIN t = 1..(Len(s) + 1) /\ t[Len(s) + 1] = e
  BY <1>1
<1>3. \A j \in 1..Len(s) : t[j] = s[j]
  BY <1>1
<1>4. Len(s) \in Nat /\ DOMAIN s = 1..Len(s)
  OBVIOUS
<1>5. ToSet(t) = ToSet(s) \cup {e}
  BY <1>2, <1>3, <1>4 DEF ToSet
<1>6. QED
  BY <1>1, <1>5

\* What is left of a list without duplicates.
LEMMA RemovingSet ==
    ASSUME NEW S, NEW s \in Seq(S), NEW e, IsInjective(s)
    PROVE  ToSet(RemovingFirst(s, e)) = ToSet(s) \ {e}
<1>1. CASE ~Contains(s, e)
  <2>1. e \notin ToSet(s)
    BY <1>1 DEF Contains, ToSet
  <2>2. QED
    BY <1>1, <2>1 DEF RemovingFirst
<1>2. CASE Contains(s, e)
  <2> DEFINE r == [i \in 1..(Len(s) - 1) |-> IF \E k \in 1..i : s[k] = e
                                             THEN s[i + 1] ELSE s[i]]
  <2>1. RemovingFirst(s, e) = r
    BY <1>2 DEF RemovingFirst
  <2>2. PICK m \in 1..Len(s) : s[m] = e
    BY <1>2 DEF Contains
  <2>3. \A k \in 1..Len(s) : s[k] = e => k = m
    BY <2>2 DEF IsInjective
  <2>4. \A i \in 1..(Len(s) - 1) : r[i] = IF i < m THEN s[i] ELSE s[i + 1]
    BY <2>2, <2>3
  <2>5. DOMAIN r = 1..(Len(s) - 1) /\ DOMAIN s = 1..Len(s) /\ Len(s) \in Nat
    OBVIOUS
  <2> HIDE DEF r
  <2>6. ASSUME NEW x \in ToSet(s) \ {e} PROVE x \in ToSet(r)
    <3>1. PICK k \in 1..Len(s) : s[k] = x /\ k # m
      BY <2>2, <2>5 DEF ToSet
    <3>2. CASE k < m
      BY <3>1, <3>2, <2>2, <2>4, <2>5 DEF ToSet
    <3>3. CASE k > m
      <4>1. k - 1 \in 1..(Len(s) - 1) /\ r[k - 1] = s[k]
        BY <3>1, <3>3, <2>2, <2>4, <2>5
      <4>2. QED
        BY <4>1, <3>1, <2>5 DEF ToSet
    <3>4. QED
      BY <3>1, <3>2, <3>3, <2>2
  <2>7. ASSUME NEW i \in DOMAIN r PROVE r[i] \in ToSet(s) \ {e}
    <3>1. CASE i < m
      BY <3>1, <2>2, <2>3, <2>4, <2>5 DEF ToSet
    <3>2. CASE i >= m
      <4>1. i + 1 \in 1..Len(s) /\ i + 1 # m /\ r[i] = s[i + 1]
        BY <3>2, <2>2, <2>4, <2>5
      <4>2. QED
        BY <4>1, <2>3, <2>5 DEF ToSet
    <3>3. QED
      BY <3>1, <3>2, <2>2, <2>5
  <2>8. ToSet(r) = ToSet(s) \ {e}
    BY <2>6, <2>7 DEF ToSet
  <2>9. QED
    BY <2>1, <2>8
<1>3. QED
  BY <1>1, <1>2

\* Who is in a list.
LEMMA ContainsSet ==
    ASSUME NEW S, NEW s \in Seq(S), NEW e
    PROVE  Contains(s, e) <=> e \in ToSet(s)
BY DEF Contains, ToSet

\* Who is in a list after an append, and after a removal.
LEMMA HoldsAfter ==
    ASSUME NEW S, NEW s \in Seq(S), NEW e \in S, NEW x
    PROVE  /\ Contains(Append(s, e), x) <=> Contains(s, x) \/ x = e
           /\ IsInjective(s) =>
                (Contains(RemovingFirst(s, e), x) <=> Contains(s, x) /\ x # e)
<1>1. Append(s, e) \in Seq(S) /\ RemovingFirst(s, e) \in Seq(S)
  BY AppendProperties, RemovingFirstProperties
<1>2. Contains(Append(s, e), x) <=> x \in ToSet(s) \cup {e}
  <2>1. ToSet(Append(s, e)) = ToSet(s) \cup {e}
    BY AppendingSet
  <2>2. Contains(Append(s, e), x) <=> x \in ToSet(Append(s, e))
    BY <1>1, ContainsSet
  <2>3. QED
    BY <2>1, <2>2
<1>3. IsInjective(s) => (Contains(RemovingFirst(s, e), x) <=> x \in ToSet(s) \ {e})
  BY <1>1, ContainsSet, RemovingSet
<1>4. Contains(s, x) <=> x \in ToSet(s)
  BY ContainsSet
<1>5. QED
  BY <1>2, <1>3, <1>4

\* What two lists make, one after the other.
LEMMA Joined ==
    ASSUME NEW S, NEW a \in Seq(S), NEW b \in Seq(S)
    PROVE  /\ a \o b \in Seq(S) /\ Len(a \o b) = Len(a) + Len(b)
           /\ \A i \in 1..(Len(a) + Len(b)) :
                (a \o b)[i] = IF i <= Len(a) THEN a[i] ELSE b[i - Len(a)]
OBVIOUS

\* remove(at: firstIndex(of:)) takes the only place of e out of the list.
LEMMA RemovingPlace ==
    ASSUME NEW S, NEW s \in Seq(S), IsInjective(s), NEW m \in DOMAIN s
    PROVE  RemovingFirst(s, s[m]) = RemoveAt(s, m)
<1> DEFINE r == [i \in 1..(Len(s) - 1) |-> IF \E k \in 1..i : s[k] = s[m]
                                           THEN s[i + 1] ELSE s[i]]
<1>1. Contains(s, s[m]) /\ m \in 1..Len(s) /\ Len(s) \in Nat
  BY DEF Contains
<1>2. RemovingFirst(s, s[m]) = r
  BY <1>1 DEF RemovingFirst
<1>3. \A k \in 1..Len(s) : s[k] = s[m] <=> k = m
  BY <1>1 DEF IsInjective
<1>4. \A i \in 1..(Len(s) - 1) : r[i] = IF i < m THEN s[i] ELSE s[i + 1]
  BY <1>1, <1>3
<1> DEFINE a == SubSeq(s, 1, m - 1)
           b == SubSeq(s, m + 1, Len(s))
<1>5. /\ a \in Seq(S) /\ Len(a) = m - 1
      /\ \A i \in 1..(m - 1) : a[i] = s[i]
  BY <1>1
<1>6. /\ b \in Seq(S) /\ Len(b) = Len(s) - m
      /\ \A i \in 1..(Len(s) - m) : b[i] = s[m + i]
  BY <1>1
<1>7. RemoveAt(s, m) = a \o b
  BY DEF RemoveAt
<1>8. r \in Seq(S) /\ Len(r) = Len(s) - 1
  BY <1>1, <1>4
<1> HIDE DEF a, b, r
<1>9. PICK t : t = a \o b
  OBVIOUS
<1>10. /\ t \in Seq(S) /\ Len(t) = Len(a) + Len(b)
       /\ \A i \in 1..(Len(a) + Len(b)) :
            t[i] = IF i <= Len(a) THEN a[i] ELSE b[i - Len(a)]
  BY <1>5, <1>6, <1>9, Joined
<1>11. Len(t) = Len(s) - 1
  BY <1>1, <1>5, <1>6, <1>10
<1>12. ASSUME NEW i \in 1..(Len(s) - 1) PROVE t[i] = r[i]
  <2>1. /\ i \in 1..(Len(a) + Len(b)) /\ i \in Nat /\ m \in Nat
        /\ Len(a) = m - 1
    BY <1>1, <1>5, <1>6
  <2>2. CASE i < m
    <3>1. i \in 1..(m - 1) /\ i <= Len(a)
      BY <2>1, <2>2
    <3>2. t[i] = a[i]
      BY <1>10, <2>1, <3>1
    <3>3. QED
      BY <1>4, <1>5, <2>2, <3>1, <3>2
  <2>3. CASE ~(i < m)
    <3>1. /\ i - Len(a) \in 1..(Len(s) - m) /\ m + (i - Len(a)) = i + 1
          /\ ~(i <= Len(a))
      <4>1. /\ i \in Nat /\ m \in Nat /\ Len(s) \in Nat /\ Len(a) = m - 1
            /\ i <= Len(s) - 1 /\ m <= i
        BY <1>1, <2>1, <2>3
      <4>2. QED
        BY ONLY <4>1
    <3>2. t[i] = b[i - Len(a)]
      BY <1>10, <2>1, <3>1
    <3>3. QED
      BY <1>4, <1>6, <2>3, <3>1, <3>2
  <2>4. QED
    BY <2>2, <2>3
<1>13. t = r
  <2>1. t \in Seq(S) /\ r \in Seq(S) /\ Len(t) = Len(s) - 1 /\ Len(r) = Len(s) - 1
    BY <1>8, <1>10, <1>11
  <2>2. QED
    BY ONLY <1>12, <2>1
<1>14. QED
  BY <1>2, <1>7, <1>9, <1>13
=============================================================================
