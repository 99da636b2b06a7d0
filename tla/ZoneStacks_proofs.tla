-------------------------- MODULE ZoneStacks_proofs --------------------------
(***************************************************************************)
(* Proofs about ZoneStacks.  First what its operators on lists return,     *)
(* then, command by command, that a list in which the two records of every *)
(* stack agree (FlatLists) stays one, and that any list at all stays a     *)
(* list of zones with ids and members in range (Lists).  StacksInv is the  *)
(* inductive invariant: what is shown and what is captured are lists, flat *)
(* ones while nothing takes a stack apart, and no id is handed out twice.  *)
(* It holds from the empty list and from every list of an older build:     *)
(* Mends is what the passes that flatten such a list keep, LeadsTo what    *)
(* they may not lose.                                                      *)
(***************************************************************************)
EXTENDS MCZoneStacks, FiniteSetTheorems, TLAPS

(* A set of numbers that is not empty has a least member.                  *)
LEMMA LeastExists ==
  ASSUME NEW S \in SUBSET Nat, S # {}
  PROVE  \E m \in S : \A x \in S : m <= x
<1>1. PICK m \in S : \A x \in S : <<x, m>> \notin OpToRel(<, Nat)
  BY NatLessThanWellFounded, WFMin, Zenon
<1>2. \A x \in S : ~(x < m)
  BY <1>1 DEF OpToRel
<1> QED BY <1>2

(* Numbering the members of a finite set without repetition uses every     *)
(* number.                                                                 *)
LEMMA RanksAreOnto ==
  ASSUME NEW S, IsFiniteSet(S), NEW r \in [S -> 1..Cardinality(S)],
         \A x, y \in S : r[x] = r[y] => x = y
  PROVE  \A k \in 1..Cardinality(S) : \E x \in S : r[x] = k
<1> DEFINE T == 1..Cardinality(S)
<1>1. Cardinality(S) \in Nat
  BY FS_CardinalityType
<1>2. IsFiniteSet(T) /\ Cardinality(T) = Cardinality(S)
  BY <1>1, FS_Interval
<1>3. r \in Injection(S, T)
  BY DEF Injection, IsInjective
<1>4. r \in Surjection(S, T)
  <2> HIDE DEF T
  <2> QED BY <1>2, <1>3, FS_Injection
<1> QED BY <1>4 DEF Surjection
-----------------------------------------------------------------------------
(* Lists.                                                                  *)
NoRepeat(s) == \A i, j \in DOMAIN s : s[i] = s[j] => i = j

(* Picked lists what is at the places, once per place.                     *)
LEMMA PickedFacts ==
  ASSUME NEW S, NEW s \in Seq(S), NEW I \in SUBSET (1..Len(s)), NEW u, u = Picked(s, I)
  PROVE  /\ u \in Seq(S) /\ ToSet(u) = {s[i] : i \in I} /\ (I = {} => u = <<>>)
         /\ (\A i, j \in I : s[i] = s[j] => i = j) => NoRepeat(u)
<1> DEFINE Below(i) == {j \in I : j <= i}
           r == [i \in I |-> Cardinality(Below(i))]
           N == Cardinality(I)
           at(k) == CHOOSE i \in I : Cardinality(Below(i)) = k
<1>1. Len(s) \in Nat /\ \A i \in I : i \in 1..Len(s) /\ i \in Nat /\ s[i] \in S
  OBVIOUS
<1>2. IsFiniteSet(I)
  <2>1. IsFiniteSet(1..Len(s))
    BY <1>1, FS_Interval
  <2> QED BY <2>1, FS_Subset
<1>3. N \in Nat
  BY <1>2, FS_CardinalityType
<1>4. \A i \in I : IsFiniteSet(Below(i)) /\ Cardinality(Below(i)) \in Nat
                   /\ Cardinality(Below(i)) <= Cardinality(I)
  BY <1>2, FS_Subset, FS_CardinalityType
<1>5. \A i \in I : i \in Below(i)
  BY <1>1
<1>6. \A i, j \in I : r[i] = r[j] => i = j
  <2> SUFFICES ASSUME NEW i \in I, NEW j \in I, r[i] = r[j], i <= j PROVE i = j
    BY <1>1
  <2>1. Below(i) \in SUBSET Below(j)
    <3>1. \A x \in I : x <= i => x <= j
      BY <1>1
    <3> QED BY <3>1
  <2>2. Below(i) = Below(j)
    <3>1. Cardinality(Below(i)) = Cardinality(Below(j))
      OBVIOUS
    <3> HIDE DEF Below
    <3> QED BY <2>1, <3>1, <1>4, FS_Subset
  <2>3. j <= i
    BY <2>2, <1>5
  <2> QED BY <2>3, <1>1
<1>7. r \in [I -> 1..Cardinality(I)]
  <2> SUFFICES ASSUME NEW i \in I PROVE Cardinality(Below(i)) \in 1..Cardinality(I)
    OBVIOUS
  <2> HIDE DEF Below
  <2>1. Cardinality(Below(i)) # 0
    BY <1>4, <1>5, FS_EmptySet
  <2> QED BY <2>1, <1>3, <1>4
<1>8. \A k \in 1..N : \E i \in I : r[i] = k
  <2> HIDE DEF r
  <2> QED BY <1>2, <1>6, <1>7, RanksAreOnto
<1>9. \A k \in 1..N : at(k) \in I /\ r[at(k)] = k
  <2> HIDE DEF Below, N
  <2> QED BY <1>8
<1>10. u = [k \in 1..N |-> s[at(k)]]
  BY DEF Picked
<1> HIDE DEF at, r, N
<1>11. u \in Seq(S) /\ DOMAIN u = 1..N /\ \A k \in 1..N : u[k] = s[at(k)] /\ at(k) \in I
  <2>1. u \in [1..N -> S]
    BY <1>1, <1>9, <1>10
  <2>2. u \in Seq(S)
    BY <2>1, <1>3
  <2> QED BY <2>1, <2>2, <1>9, <1>10
<1>12. \A i \in I : r[i] \in 1..N /\ at(r[i]) = i
  BY <1>6, <1>7, <1>9 DEF N
<1>13. ToSet(u) = {s[i] : i \in I}
  <2>1. \A i \in I : r[i] \in DOMAIN u /\ u[r[i]] = s[i]
    BY <1>11, <1>12
  <2>2. \A k \in DOMAIN u : at(k) \in I /\ u[k] = s[at(k)]
    BY <1>11
  <2>3. \A i \in I : s[i] \in ToSet(u)
    BY <2>1 DEF ToSet
  <2>4. \A x \in ToSet(u) : x \in {s[i] : i \in I}
    BY <2>2 DEF ToSet
  <2> QED BY <2>3, <2>4
<1>14. ASSUME \A i, j \in I : s[i] = s[j] => i = j PROVE NoRepeat(u)
  <2> SUFFICES ASSUME NEW i \in 1..N, NEW j \in 1..N, u[i] = u[j] PROVE i = j
    BY <1>11 DEF NoRepeat
  <2>1. at(i) = at(j)
    BY <1>11, <1>14
  <2> QED BY <2>1, <1>9
<1>15. ASSUME I = {} PROVE u = <<>>
  <2>1. N = 0
    BY <1>15, FS_EmptySet DEF N
  <2>2. Len(u) = 0
    BY <2>1, <1>11
  <2> QED BY <2>2, <1>11
<1> QED BY <1>11, <1>13, <1>14, <1>15

(* Without drops exactly the named elements and repeats none that was      *)
(* single.                                                                 *)
LEMMA WithoutFacts ==
  ASSUME NEW S, NEW s \in Seq(S), NEW X, NEW u, u = Without(s, X)
  PROVE  /\ u \in Seq(S) /\ ToSet(u) = ToSet(s) \ X
         /\ NoRepeat(s) => NoRepeat(u)
<1> DEFINE I == {k \in DOMAIN s : s[k] \notin X}
<1>1. I \in SUBSET (1..Len(s)) /\ u = Picked(s, I)
  BY DEF Without
<1>2. NoRepeat(s) => \A i, j \in I : s[i] = s[j] => i = j
  BY DEF NoRepeat
<1>3. {s[i] : i \in I} = ToSet(s) \ X
  BY DEF ToSet
<1> HIDE DEF I
<1> QED BY <1>1, <1>2, <1>3, PickedFacts

(* Distinct keeps every element, once.                                     *)
LEMMA DistinctFacts ==
  ASSUME NEW S, NEW s \in Seq(S), NEW u, u = Distinct(s)
  PROVE  u \in Seq(S) /\ ToSet(u) = ToSet(s) /\ NoRepeat(u)
<1> DEFINE I == {k \in DOMAIN s : \A j \in 1..(k - 1) : s[j] # s[k]}
<1>1. I \in SUBSET (1..Len(s)) /\ u = Picked(s, I) /\ DOMAIN s = 1..Len(s) /\ Len(s) \in Nat
  BY DEF Distinct
<1>2. \A i, j \in I : s[i] = s[j] => i = j
  <2> SUFFICES ASSUME NEW i \in I, NEW j \in I, s[i] = s[j], i < j PROVE FALSE
    BY <1>1
  <2>1. i \in 1..(j - 1)
    BY <1>1
  <2> QED BY <2>1
<1>3. \A k \in DOMAIN s : \E i \in I : s[i] = s[k]
  <2> SUFFICES ASSUME NEW k \in DOMAIN s PROVE \E i \in I : s[i] = s[k]
    OBVIOUS
  <2> DEFINE Same == {i \in DOMAIN s : s[i] = s[k]}
  <2>1. PICK i \in Same : \A j \in Same : i <= j
    <3>1. Same \in SUBSET Nat /\ Same # {}
      BY <1>1
    <3> HIDE DEF Same
    <3> QED BY <3>1, LeastExists
  <2>2. \A j \in 1..(i - 1) : j \in DOMAIN s /\ ~(i <= j)
    BY <1>1
  <2>3. i \in I
    BY <2>1, <2>2
  <2> QED BY <2>3
<1>4. {s[i] : i \in I} = ToSet(s)
  BY <1>3 DEF ToSet
<1> HIDE DEF I
<1>5. /\ u \in Seq(S) /\ ToSet(u) = {s[i] : i \in I}
      /\ (\A i, j \in I : s[i] = s[j] => i = j) => NoRepeat(u)
  BY <1>1, PickedFacts
<1> QED BY <1>2, <1>4, <1>5

(* Concatenation joins the elements, and repeats none if the two lists     *)
(* share none.                                                             *)
LEMMA ConcatFacts ==
  ASSUME NEW S, NEW a \in Seq(S), NEW b \in Seq(S), NEW u, u = a \o b
  PROVE  /\ u \in Seq(S) /\ ToSet(u) = ToSet(a) \cup ToSet(b)
         /\ NoRepeat(a) /\ NoRepeat(b) /\ ToSet(a) \cap ToSet(b) = {} => NoRepeat(u)
<1>1. /\ u \in Seq(S) /\ Len(u) = Len(a) + Len(b) /\ DOMAIN u = 1..Len(u)
      /\ Len(a) \in Nat /\ Len(b) \in Nat /\ DOMAIN a = 1..Len(a) /\ DOMAIN b = 1..Len(b)
  OBVIOUS
<1>2. \A i \in 1..Len(a) : u[i] = a[i] /\ i \in 1..Len(u)
  OBVIOUS
<1>3. \A i \in 1..Len(b) : u[Len(a) + i] = b[i] /\ Len(a) + i \in 1..Len(u)
  OBVIOUS
<1>4. \A i \in 1..Len(u) : i \in 1..Len(a) \/ (i - Len(a) \in 1..Len(b) /\ i = Len(a) + (i - Len(a)))
  BY <1>1
<1>5. \A i \in 1..Len(u) : i - Len(a) \in 1..Len(b) => u[i] = b[i - Len(a)]
  BY <1>3, <1>4
<1>6. ToSet(u) = ToSet(a) \cup ToSet(b)
  <2>1. \A i \in DOMAIN u : u[i] \in ToSet(a) \/ u[i] \in ToSet(b)
    BY <1>1, <1>2, <1>4, <1>5 DEF ToSet
  <2>2. \A i \in DOMAIN a : a[i] \in ToSet(u)
    BY <1>1, <1>2 DEF ToSet
  <2>3. \A i \in DOMAIN b : b[i] \in ToSet(u)
    BY <1>1, <1>3 DEF ToSet
  <2>4. ToSet(u) \subseteq ToSet(a) \cup ToSet(b)
    BY <2>1 DEF ToSet
  <2>5. ToSet(a) \subseteq ToSet(u) /\ ToSet(b) \subseteq ToSet(u)
    BY <2>2, <2>3 DEF ToSet
  <2> QED BY <2>4, <2>5
<1>7. ASSUME NoRepeat(a), NoRepeat(b), ToSet(a) \cap ToSet(b) = {} PROVE NoRepeat(u)
  <2>0. \A i \in 1..Len(a), j \in 1..Len(b) : a[i] # b[j]
    BY <1>1, <1>7 DEF ToSet
  <2> SUFFICES ASSUME NEW i \in 1..Len(u), NEW j \in 1..Len(u), u[i] = u[j] PROVE i = j
    BY <1>1 DEF NoRepeat
  <2>1. CASE i \in 1..Len(a) /\ j \in 1..Len(a)
    BY <2>1, <1>1, <1>2, <1>7 DEF NoRepeat
  <2>2. CASE i \in 1..Len(a) /\ j - Len(a) \in 1..Len(b)
    BY <2>2, <2>0, <1>2, <1>5
  <2>3. CASE i - Len(a) \in 1..Len(b) /\ j \in 1..Len(a)
    BY <2>3, <2>0, <1>2, <1>5
  <2>4. CASE i - Len(a) \in 1..Len(b) /\ j - Len(a) \in 1..Len(b)
    <3>1. i - Len(a) = j - Len(a)
      BY <2>4, <1>1, <1>5, <1>7 DEF NoRepeat
    <3> QED BY <3>1, <1>1
  <2> QED BY <2>1, <2>2, <2>3, <2>4, <1>4
<1> QED BY <1>1, <1>6, <1>7

(* What is put between the parts of a list.                                *)
Between(s, k, mid) == SubSeq(s, 1, k) \o mid \o SubSeq(s, k + 1, Len(s))

(* A list with another put in at place k (insert of a member, of a         *)
(* stack) has the elements of both.                                        *)
LEMMA SplitFacts ==
  ASSUME NEW S, NEW s \in Seq(S), NEW k \in 0..Len(s), NEW mid \in Seq(S),
         NEW u, u = Between(s, k, mid)
  PROVE  /\ u \in Seq(S) /\ ToSet(u) = ToSet(s) \cup ToSet(mid)
         /\ NoRepeat(s) /\ NoRepeat(mid) /\ ToSet(s) \cap ToSet(mid) = {} => NoRepeat(u)
<1> DEFINE a == SubSeq(s, 1, k)
           b == SubSeq(s, k + 1, Len(s))
           n == Len(s)
<1>1. n \in Nat /\ k \in Nat /\ k <= n /\ DOMAIN s = 1..n /\ \A i \in 1..n : s[i] \in S
  OBVIOUS
<1>2. a \in Seq(S) /\ Len(a) = k /\ DOMAIN a = 1..k /\ \A i \in 1..k : a[i] = s[i]
  BY <1>1
<1>3. /\ b \in Seq(S) /\ Len(b) = n - k /\ DOMAIN b = 1..(n - k)
      /\ \A i \in 1..(n - k) : b[i] = s[k + i]
  <2>1. k + 1 \in 1..(n + 1) /\ n - (k + 1) + 1 = n - k
    BY <1>1
  <2>2. b \in Seq(S) /\ Len(b) = n - k /\ DOMAIN b = 1..(n - k)
    <3>1. ASSUME NEW m \in 1..(n + 1)
          PROVE  SubSeq(s, m, n) \in Seq(S) /\ Len(SubSeq(s, m, n)) = n - m + 1
      BY <1>1
    <3>2. b \in Seq(S) /\ Len(b) = n - k
      BY <2>1, <3>1
    <3> HIDE DEF b
    <3> QED BY <3>2
  <2>3. \A i \in 1..(n - k) : b[i] = s[(k + 1) + i - 1]
    BY <1>1, <2>1
  <2>4. \A i \in 1..(n - k) : (k + 1) + i - 1 = k + i
    BY <1>1
  <2> QED BY <2>2, <2>3, <2>4
<1> HIDE DEF a, b, n
<1>4. ToSet(a) \cup ToSet(b) = ToSet(s)
  <2>1. \A i \in 1..n : i \in 1..k \/ (i - k \in 1..(n - k) /\ i = k + (i - k))
    BY <1>1
  <2>2. \A i \in 1..k : i \in 1..n
    BY <1>1
  <2>3. \A i \in 1..(n - k) : k + i \in 1..n
    BY <1>1
  <2>4. \A i \in 1..n : s[i] \in ToSet(a) \/ s[i] \in ToSet(b)
    <3> SUFFICES ASSUME NEW i \in 1..n PROVE s[i] \in ToSet(a) \/ s[i] \in ToSet(b)
      OBVIOUS
    <3>1. CASE i \in 1..k
      BY <3>1, <1>2 DEF ToSet
    <3>2. CASE i - k \in 1..(n - k) /\ i = k + (i - k)
      <4>1. b[i - k] = s[i]
        BY <3>2, <1>3
      <4> QED BY <3>2, <4>1, <1>3 DEF ToSet
    <3> QED BY <2>1, <3>1, <3>2
  <2>5. (\A i \in 1..k : a[i] \in ToSet(s)) /\ (\A i \in 1..(n - k) : b[i] \in ToSet(s))
    BY <1>1, <1>2, <1>3, <2>2, <2>3 DEF ToSet
  <2>6. ToSet(s) \subseteq ToSet(a) \cup ToSet(b)
    BY <1>1, <2>4 DEF ToSet
  <2>7. ToSet(a) \subseteq ToSet(s) /\ ToSet(b) \subseteq ToSet(s)
    BY <1>2, <1>3, <2>5 DEF ToSet
  <2> QED BY <2>6, <2>7
<1>5. ASSUME NoRepeat(s) PROVE NoRepeat(a) /\ NoRepeat(b) /\ ToSet(a) \cap ToSet(b) = {}
  <2>1. NoRepeat(a)
    BY <1>1, <1>2, <1>5 DEF NoRepeat
  <2>2. NoRepeat(b)
    <3> SUFFICES ASSUME NEW i \in 1..(n - k), NEW j \in 1..(n - k), b[i] = b[j] PROVE i = j
      BY <1>3 DEF NoRepeat
    <3>1. k + i \in 1..n /\ k + j \in 1..n
      BY <1>1
    <3>2. k + i = k + j
      BY <3>1, <1>1, <1>3, <1>5 DEF NoRepeat
    <3> QED BY <3>2, <1>1
  <2>3. \A i \in 1..k, j \in 1..(n - k) : a[i] # b[j]
    <3> SUFFICES ASSUME NEW i \in 1..k, NEW j \in 1..(n - k), a[i] = b[j] PROVE FALSE
      OBVIOUS
    <3>1. k + j \in 1..n /\ i \in 1..n /\ i # k + j
      BY <1>1
    <3> QED BY <3>1, <1>1, <1>2, <1>3, <1>5 DEF NoRepeat
  <2> QED BY <2>1, <2>2, <2>3, <1>2, <1>3 DEF ToSet
<1> DEFINE am == a \o mid
<1>6. /\ am \in Seq(S) /\ ToSet(am) = ToSet(a) \cup ToSet(mid)
      /\ NoRepeat(a) /\ NoRepeat(mid) /\ ToSet(a) \cap ToSet(mid) = {} => NoRepeat(am)
  BY <1>2, ConcatFacts
<1>7. u = am \o b
  BY DEF a, b, n, Between
<1> HIDE DEF am
<1>8. /\ u \in Seq(S) /\ ToSet(u) = ToSet(am) \cup ToSet(b)
      /\ NoRepeat(am) /\ NoRepeat(b) /\ ToSet(am) \cap ToSet(b) = {} => NoRepeat(u)
  BY <1>3, <1>6, <1>7, ConcatFacts
<1>9. ToSet(u) = ToSet(s) \cup ToSet(mid)
  BY <1>4, <1>6, <1>8
<1>10. ASSUME NoRepeat(s), NoRepeat(mid), ToSet(s) \cap ToSet(mid) = {} PROVE NoRepeat(u)
  BY <1>4, <1>5, <1>6, <1>8, <1>10
<1> QED BY <1>8, <1>9, <1>10
(* InsertAt and RemoveAt, place by place.                                  *)
LEMMA InsertAtFacts ==
  ASSUME NEW S, NEW s \in Seq(S), NEW e \in S, NEW i \in 1..(Len(s) + 1),
         NEW u, u = InsertAt(s, i, e)
  PROVE  /\ u \in Seq(S) /\ ToSet(u) = ToSet(s) \cup {e}
         /\ NoRepeat(s) /\ e \notin ToSet(s) => NoRepeat(u)
<1> DEFINE k == i - 1
           mid == <<e>>
<1>1. k \in 0..Len(s) /\ i = k + 1
  OBVIOUS
<1>2. mid \in Seq(S) /\ ToSet(mid) = {e} /\ NoRepeat(mid)
  BY DEF ToSet, NoRepeat
<1> HIDE DEF k
<1>3. u = Between(s, k, mid)
  BY <1>1 DEF InsertAt, k, Between
<1> HIDE DEF mid
<1>4. /\ u \in Seq(S) /\ ToSet(u) = ToSet(s) \cup ToSet(mid)
      /\ NoRepeat(s) /\ NoRepeat(mid) /\ ToSet(s) \cap ToSet(mid) = {} => NoRepeat(u)
  BY <1>1, <1>2, <1>3, SplitFacts
<1> QED BY <1>2, <1>4

StepsOf(f, n, b, g) == \A k \in 0..n : f[k] = IF k = 0 THEN b ELSE g[k][f[k - 1]]

(* A function that is defined step by step: there is one, and what holds   *)
(* at first and is kept by each step holds of it.                          *)
LEMMA StepsExist ==
  ASSUME NEW n \in Nat, NEW S, NEW b \in S, NEW g \in [1..n -> [S -> S]]
  PROVE  \E f \in [0..n -> S] : StepsOf(f, n, b, g)
<1> USE DEF StepsOf
<1> DEFINE Upto(m) == \E f \in [0..m -> S] :
                         \A k \in 0..m : f[k] = IF k = 0 THEN b ELSE g[k][f[k - 1]]
           Bad == {m \in 0..n : ~Upto(m)}
<1> SUFFICES ASSUME Bad # {} PROVE FALSE
  OBVIOUS
<1>1. PICK m \in Bad : \A x \in Bad : m <= x
  <2>1. Bad \in SUBSET Nat
    OBVIOUS
  <2> HIDE DEF Bad
  <2> QED BY <2>1, LeastExists
<1>2. CASE m = 0
  <2> DEFINE f == [k \in 0..0 |-> b]
  <2>1. f \in [0..0 -> S] /\ \A k \in 0..0 : f[k] = IF k = 0 THEN b ELSE g[k][f[k - 1]]
    OBVIOUS
  <2> QED BY <1>1, <1>2, <2>1
<1>3. CASE m # 0
  <2>1. m - 1 \in 0..n /\ m \in 1..n /\ ~(m <= m - 1)
    BY <1>3
  <2>2. PICK f \in [0..(m - 1) -> S] :
           \A k \in 0..(m - 1) : f[k] = IF k = 0 THEN b ELSE g[k][f[k - 1]]
    BY <1>1, <2>1
  <2> DEFINE h == [k \in 0..m |-> IF k = m THEN g[m][f[m - 1]] ELSE f[k]]
  <2>3. g[m][f[m - 1]] \in S
    BY <2>1
  <2>4. h \in [0..m -> S]
    BY <2>1, <2>3
  <2>5. ASSUME NEW k \in 0..m PROVE h[k] = IF k = 0 THEN b ELSE g[k][h[k - 1]]
    <3>1. CASE k = m
      <4>1. m - 1 \in 0..m /\ m - 1 # m
        BY <2>1
      <4>2. h[m - 1] = f[m - 1]
        BY <4>1
      <4> QED BY <3>1, <4>2, <1>3
    <3>2. CASE k # m
      <4>1. k \in 0..(m - 1) /\ (k # 0 => k - 1 \in 0..m /\ k - 1 # m)
        BY <2>1, <3>2
      <4>2. h[k] = f[k] /\ (k # 0 => h[k - 1] = f[k - 1])
        BY <3>2, <4>1
      <4> QED BY <2>2, <4>1, <4>2
    <3> QED BY <3>1, <3>2
  <2>6. Upto(m)
    <3> HIDE DEF h
    <3> QED BY <2>4, <2>5
  <2> QED BY <2>6
<1> QED BY <1>2, <1>3

(* What holds of the first of n steps and is kept by each holds of all     *)
(* (the loops of detach_from_stack and flatten_nested_stacks).             *)
LEMMA StepsKeep ==
  ASSUME NEW n \in Nat, NEW S, NEW f, f[0] \in S,
         \A k \in 1..n : f[k - 1] \in S => f[k] \in S
  PROVE  \A k \in 0..n : f[k] \in S
<1> DEFINE Bad == {k \in 0..n : f[k] \notin S}
<1> SUFFICES ASSUME Bad # {} PROVE FALSE
  OBVIOUS
<1>1. PICK m \in Bad : \A x \in Bad : m <= x
  <2>1. Bad \in SUBSET Nat
    OBVIOUS
  <2> HIDE DEF Bad
  <2> QED BY <2>1, LeastExists
<1>2. m # 0 /\ m - 1 \in 0..n /\ m \in 1..n /\ ~(m <= m - 1)
  OBVIOUS
<1>3. f[m - 1] \in S
  BY <1>1, <1>2
<1> QED BY <1>2, <1>3

-----------------------------------------------------------------------------
(* Lists of zones, each with every member once.                            *)
Lists == {zs \in Seq(Zone) : \A k \in DOMAIN zs : NoRepeat(zs[k].members)}

SameIds(zs, ws) == DOMAIN ws = DOMAIN zs /\ \A k \in DOMAIN zs : ws[k].id = zs[k].id

(* The fields of a zone of a list.                                         *)
LEMMA ListFacts ==
  ASSUME NEW zs \in Lists
  PROVE  /\ zs \in Seq(Zone) /\ Len(zs) \in Nat /\ DOMAIN zs = 1..Len(zs)
         /\ NoZone \notin Ids
         /\ \A k \in DOMAIN zs : /\ zs[k] \in Zone /\ zs[k].id \in Ids
                                 /\ zs[k].parent \in Ids \cup {NoZone}
                                 /\ zs[k].members \in Seq(Ids) /\ NoRepeat(zs[k].members)
<1>1. zs \in Seq(Zone) /\ \A k \in DOMAIN zs : NoRepeat(zs[k].members)
  BY DEF Lists
<1>2. \A z \in Zone : z.id \in Ids /\ z.parent \in Ids \cup {NoZone} /\ z.members \in Seq(Ids)
  BY DEF Zone
<1>3. NoZone \notin Ids
  <2>1. NoZone = 0 /\ MaxId \in Nat
    BY NoZoneAssumption, ScopesAssumption
  <2> QED BY <2>1 DEF Ids
<1> QED BY <1>1, <1>2, <1>3

(* `get' finds a zone with the id, if there is one.                        *)
LEMMA IndexFacts ==
  ASSUME NEW zs \in Lists, NEW i
  PROVE  /\ IndexOf(zs, i) = 0 \/ (IndexOf(zs, i) \in DOMAIN zs /\ zs[IndexOf(zs, i)].id = i)
         /\ 0 \notin DOMAIN zs
         /\ IndexOf(zs, i) = 0 => \A k \in DOMAIN zs : zs[k].id # i
<1>1. Len(zs) \in Nat /\ DOMAIN zs = 1..Len(zs)
  BY ListFacts
<1> DEFINE At == {k \in DOMAIN zs : zs[k].id = i}
<1>2. CASE At = {}
  BY <1>1, <1>2 DEF IndexOf
<1>3. CASE At # {}
  <2>1. PICK k \in At : \A j \in At : k <= j
    <3>1. At \in SUBSET Nat
      BY <1>1
    <3> HIDE DEF At
    <3> QED BY <1>3, <3>1, LeastExists
  <2>2. zs[k].id = i /\ \A j \in 1..(k - 1) : zs[j].id # i
    <3>1. \A j \in 1..(k - 1) : j \in DOMAIN zs /\ ~(k <= j)
      BY <1>1
    <3> QED BY <2>1, <3>1
  <2>3. IndexOf(zs, i) \in DOMAIN zs /\ zs[IndexOf(zs, i)].id = i
    BY <2>1, <2>2 DEF IndexOf
  <2> QED BY <1>1, <2>3
<1> QED BY <1>2, <1>3

(* What `get' returns of a list: a listed zone's own fields, nothing of    *)
(* a zone that is not listed.                                              *)
LEMMA GetFacts ==
  ASSUME NEW zs \in Lists, NEW i
  PROVE  /\ Members(zs, i) \in Seq(Ids) /\ NoRepeat(Members(zs, i))
         /\ Parent(zs, i) \in Ids \cup {NoZone}
         /\ Has(zs, i) => /\ i \in Ids /\ IndexOf(zs, i) \in DOMAIN zs
                          /\ zs[IndexOf(zs, i)].id = i
                          /\ Parent(zs, i) = zs[IndexOf(zs, i)].parent
                          /\ Members(zs, i) = zs[IndexOf(zs, i)].members
         /\ ~Has(zs, i) => Parent(zs, i) = NoZone /\ Members(zs, i) = <<>>
         /\ \A k \in DOMAIN zs : Has(zs, zs[k].id)
<1>1. CASE Has(zs, i)
  <2>1. IndexOf(zs, i) \in DOMAIN zs /\ zs[IndexOf(zs, i)].id = i /\ IndexOf(zs, i) # 0
    BY <1>1, IndexFacts DEF Has
  <2>2. Parent(zs, i) = zs[IndexOf(zs, i)].parent /\ Members(zs, i) = zs[IndexOf(zs, i)].members
    BY <2>1 DEF Parent, Members
  <2>3. \A k \in DOMAIN zs : Has(zs, zs[k].id)
    BY IndexFacts DEF Has
  <2> QED BY <1>1, <2>1, <2>2, <2>3, ListFacts
<1>2. CASE ~Has(zs, i)
  <2>1. Parent(zs, i) = NoZone /\ Members(zs, i) = <<>>
    BY <1>2 DEF Has, Parent, Members
  <2>2. <<>> \in Seq(Ids) /\ NoRepeat(<<>>)
    BY DEF NoRepeat
  <2>3. \A k \in DOMAIN zs : Has(zs, zs[k].id)
    BY IndexFacts DEF Has
  <2> QED BY <1>2, <2>1, <2>2, <2>3
<1> QED BY <1>1, <1>2

(* `get' finds a zone at the same place in a list with the same ids.       *)
LEMMA SameIndex ==
  ASSUME NEW zs, NEW ws, SameIds(zs, ws), NEW i,
         DOMAIN zs = 1..Len(zs), Len(zs) \in Nat
  PROVE  IndexOf(ws, i) = IndexOf(zs, i) /\ (Has(ws, i) <=> Has(zs, i))
<1>1. DOMAIN ws = DOMAIN zs /\ \A k \in DOMAIN zs : ws[k].id = zs[k].id
  BY DEF SameIds
<1>2. \A k \in DOMAIN zs : (\A j \in 1..(k - 1) : zs[j].id # i) <=> (\A j \in 1..(k - 1) : ws[j].id # i)
  <2>1. \A k \in DOMAIN zs : \A j \in 1..(k - 1) : j \in DOMAIN zs
    OBVIOUS
  <2> QED BY <1>1, <2>1
<1> DEFINE Z == {k \in DOMAIN zs : zs[k].id = i /\ \A j \in 1..(k - 1) : zs[j].id # i}
           W == {k \in DOMAIN ws : ws[k].id = i /\ \A j \in 1..(k - 1) : ws[j].id # i}
<1>3. Z = W
  BY <1>1, <1>2
<1>4. IndexOf(zs, i) = IF \E k \in DOMAIN zs : zs[k].id = i THEN CHOOSE k \in Z : TRUE ELSE 0
  BY DEF IndexOf
<1>5. IndexOf(ws, i) = IF \E k \in DOMAIN ws : ws[k].id = i THEN CHOOSE k \in W : TRUE ELSE 0
  BY DEF IndexOf
<1>6. IndexOf(zs, i) = IndexOf(ws, i)
  <2> HIDE DEF Z, W
  <2> QED BY <1>1, <1>3, <1>4, <1>5
<1> QED BY <1>6 DEF Has

(* An edit of the zones that keeps their ids, in their places.             *)
LEMMA EditFacts ==
  ASSUME NEW zs \in Lists, NEW u, DOMAIN u = DOMAIN zs, u = [k \in DOMAIN zs |-> u[k]],
         \A k \in DOMAIN zs : u[k] \in Zone /\ u[k].id = zs[k].id /\ NoRepeat(u[k].members)
  PROVE  /\ u \in Lists /\ SameIds(zs, u)
         /\ \A i : Has(u, i) <=> Has(zs, i)
         /\ \A i : IndexOf(u, i) = IndexOf(zs, i)
         /\ \A i : Has(zs, i) => /\ Parent(u, i) = u[IndexOf(zs, i)].parent
                                 /\ Members(u, i) = u[IndexOf(zs, i)].members
<1>1. zs \in Seq(Zone) /\ Len(zs) \in Nat /\ DOMAIN zs = 1..Len(zs)
  BY ListFacts
<1>2. u \in Lists
  <2>1. u \in [1..Len(zs) -> Zone]
    BY <1>1
  <2>2. u \in Seq(Zone)
    BY <1>1, <2>1
  <2> QED BY <2>2 DEF Lists
<1>3. SameIds(zs, u)
  BY DEF SameIds
<1>4. \A i : IndexOf(u, i) = IndexOf(zs, i) /\ (Has(u, i) <=> Has(zs, i))
  BY <1>1, <1>3, SameIndex
<1>5. ASSUME NEW i, Has(zs, i)
      PROVE  /\ Parent(u, i) = u[IndexOf(zs, i)].parent
             /\ Members(u, i) = u[IndexOf(zs, i)].members
  <2>1. Has(u, i) /\ IndexOf(u, i) = IndexOf(zs, i)
    BY <1>4, <1>5
  <2>2. Parent(u, i) = u[IndexOf(u, i)].parent /\ Members(u, i) = u[IndexOf(u, i)].members
    BY <1>2, <2>1, GetFacts
  <2> QED BY <2>1, <2>2
<1> QED BY <1>2, <1>3, <1>4, <1>5

(* What an edit of fields keeps, in the words of `get'.                    *)
Edits(zs, u) == u \in Lists /\ SameIds(zs, u) /\ \A i : Has(u, i) <=> Has(zs, i)

(* Naming a parent for the zones of S changes their parents and nothing    *)
(* else.                                                                   *)
LEMMA SetParentsFacts ==
  ASSUME NEW zs \in Lists, NEW S, NEW p \in Ids \cup {NoZone}, NEW u, u = SetParents(zs, S, p)
  PROVE  /\ Edits(zs, u)
         /\ \A i : Members(u, i) = Members(zs, i)
         /\ \A i : Parent(u, i) = IF i \in S /\ Has(zs, i) THEN p ELSE Parent(zs, i)
<1>1. \A z \in Zone : /\ [z EXCEPT !.parent = p] \in Zone
                      /\ [z EXCEPT !.parent = p].id = z.id
                      /\ [z EXCEPT !.parent = p].members = z.members
                      /\ [z EXCEPT !.parent = p].parent = p
  BY DEF Zone
<1>2. /\ zs \in Seq(Zone) /\ DOMAIN zs = 1..Len(zs)
      /\ \A k \in DOMAIN zs : zs[k] \in Zone /\ NoRepeat(zs[k].members)
  BY ListFacts
<1>3. u = [k \in DOMAIN zs |-> u[k]] /\ DOMAIN u = DOMAIN zs
  BY DEF SetParents
<1>4. \A k \in DOMAIN zs : u[k] = IF zs[k].id \in S /\ IsFirst(zs, k)
                                  THEN [zs[k] EXCEPT !.parent = p] ELSE zs[k]
  BY DEF SetParents
<1>5. \A k \in DOMAIN zs : u[k] \in Zone /\ u[k].id = zs[k].id /\ NoRepeat(u[k].members)
  <2> TAKE k \in DOMAIN zs
  <2>1. zs[k] \in Zone /\ NoRepeat(zs[k].members)
    BY <1>2
  <2>2. CASE u[k] = [zs[k] EXCEPT !.parent = p]
    <3>1. u[k] \in Zone /\ u[k].id = zs[k].id /\ u[k].members = zs[k].members
      BY <1>1, <2>1, <2>2
    <3> QED BY <2>1, <3>1
  <2>3. CASE u[k] = zs[k]
    BY <2>1, <2>3
  <2> QED BY <1>4, <2>2, <2>3
<1>6. /\ Edits(zs, u)
      /\ \A i : Has(zs, i) => /\ Parent(u, i) = u[IndexOf(zs, i)].parent
                              /\ Members(u, i) = u[IndexOf(zs, i)].members
  BY <1>3, <1>5, EditFacts DEF Edits
<1>7. ASSUME NEW i, Has(zs, i)
      PROVE  /\ Members(u, i) = Members(zs, i)
             /\ Parent(u, i) = IF i \in S THEN p ELSE Parent(zs, i)
  <2> DEFINE k == IndexOf(zs, i)
  <2>1. /\ k \in DOMAIN zs /\ zs[k].id = i
        /\ Parent(zs, i) = zs[k].parent /\ Members(zs, i) = zs[k].members
    BY <1>7, GetFacts
  <2>2. IsFirst(zs, k)
    BY <2>1 DEF IsFirst
  <2>3. Parent(u, i) = u[k].parent /\ Members(u, i) = u[k].members
    BY <1>6, <1>7
  <2> HIDE DEF k
  <2>4. zs[k] \in Zone /\ u[k] = IF i \in S THEN [zs[k] EXCEPT !.parent = p] ELSE zs[k]
    BY <1>2, <1>4, <2>1, <2>2
  <2> QED BY <1>1, <2>1, <2>3, <2>4
<1>8. ASSUME NEW i, ~Has(zs, i)
      PROVE  Members(u, i) = Members(zs, i) /\ Parent(u, i) = Parent(zs, i)
  BY <1>6, <1>8, GetFacts DEF Edits
<1> QED BY <1>6, <1>7, <1>8

(* Giving a zone its members changes them and nothing else.                *)
LEMMA SetMembersFacts ==
  ASSUME NEW zs \in Lists, NEW i, NEW ms \in Seq(Ids), NoRepeat(ms),
         NEW u, u = SetMembers(zs, i, ms)
  PROVE  /\ Edits(zs, u)
         /\ \A j : Parent(u, j) = Parent(zs, j)
         /\ \A j : Members(u, j) = IF j = i /\ Has(zs, i) THEN ms ELSE Members(zs, j)
<1>1. \A z \in Zone : /\ [z EXCEPT !.members = ms] \in Zone
                      /\ [z EXCEPT !.members = ms].id = z.id
                      /\ [z EXCEPT !.members = ms].parent = z.parent
                      /\ [z EXCEPT !.members = ms].members = ms
  BY DEF Zone
<1>2. /\ zs \in Seq(Zone) /\ DOMAIN zs = 1..Len(zs)
      /\ \A k \in DOMAIN zs : zs[k] \in Zone /\ NoRepeat(zs[k].members)
  BY ListFacts
<1> DEFINE at == IndexOf(zs, i)
<1>3. u = [k \in DOMAIN zs |-> u[k]] /\ DOMAIN u = DOMAIN zs
      /\ \A k \in DOMAIN zs : u[k] = IF k = at THEN [zs[k] EXCEPT !.members = ms] ELSE zs[k]
  <2>1. CASE at = 0
    <3>1. u = zs /\ 0 \notin DOMAIN zs
      BY <2>1, IndexFacts DEF SetMembers
    <3> QED BY <3>1, <2>1, <1>2
  <2>2. CASE at # 0
    <3>1. u = [zs EXCEPT ![at].members = ms]
      BY <2>2 DEF SetMembers
    <3>2. at \in DOMAIN zs
      BY <2>2, IndexFacts
    <3> HIDE DEF at
    <3> QED BY <3>1, <3>2, <1>2
  <2> QED BY <2>1, <2>2
<1>4. ASSUME NEW k \in DOMAIN zs
      PROVE  u[k] \in Zone /\ u[k].id = zs[k].id /\ NoRepeat(u[k].members)
  <2> HIDE DEF at
  <2>1. CASE k = at
    <3>1. zs[k] \in Zone /\ u[k] = [zs[k] EXCEPT !.members = ms]
      BY <1>2, <1>3, <2>1
    <3> QED BY <3>1, <1>1
  <2>2. CASE k # at
    BY <1>2, <1>3, <2>2
  <2> QED BY <2>1, <2>2
<1>5. /\ Edits(zs, u)
      /\ \A j : Has(zs, j) => /\ Parent(u, j) = u[IndexOf(zs, j)].parent
                              /\ Members(u, j) = u[IndexOf(zs, j)].members
  BY <1>3, <1>4, EditFacts DEF Edits
<1>6. ASSUME NEW j, Has(zs, j)
      PROVE  /\ Parent(u, j) = Parent(zs, j)
             /\ Members(u, j) = IF j = i THEN ms ELSE Members(zs, j)
  <2> DEFINE k == IndexOf(zs, j)
  <2>1. /\ k \in DOMAIN zs /\ zs[k].id = j
        /\ Parent(zs, j) = zs[k].parent /\ Members(zs, j) = zs[k].members
    BY <1>6, GetFacts
  <2>2. k = at <=> j = i
    <3>1. at = 0 \/ zs[at].id = i
      BY IndexFacts
    <3>2. k # 0
      BY <2>1, IndexFacts
    <3> QED BY <2>1, <3>1, <3>2
  <2>3. Parent(u, j) = u[k].parent /\ Members(u, j) = u[k].members
    BY <1>5, <1>6
  <2> HIDE DEF k, at
  <2>4. zs[k] \in Zone /\ u[k] = IF j = i THEN [zs[k] EXCEPT !.members = ms] ELSE zs[k]
    BY <1>2, <1>3, <2>1, <2>2
  <2> QED BY <1>1, <2>1, <2>3, <2>4
<1>7. ASSUME NEW j, ~Has(zs, j)
      PROVE  Members(u, j) = Members(zs, j) /\ Parent(u, j) = Parent(zs, j)
  BY <1>5, <1>7, GetFacts DEF Edits
<1> QED BY <1>5, <1>6, <1>7

(* A zone that is taken from its old stack leaves no other list.           *)
LEMMA LeaveOldParentFacts ==
  ASSUME NEW zs \in Lists, NEW ms, NEW target, NEW u, u = LeaveOldParent(zs, ms, target)
  PROVE  /\ Edits(zs, u)
         /\ \A i : Parent(u, i) = Parent(zs, i)
         /\ \A i : Members(u, i) =
                IF i = target THEN Members(zs, i)
                ELSE Without(Members(zs, i), {m \in ToSet(ms) : Parent(zs, m) = i})
<1> DEFINE Gone(i) == {m \in ToSet(ms) : Parent(zs, m) = i}
           e(k) == IF zs[k].id = target \/ ~IsFirst(zs, k) THEN zs[k].members
                   ELSE Without(zs[k].members, Gone(zs[k].id))
<1>1. \A z \in Zone : \A l \in Seq(Ids) : /\ [z EXCEPT !.members = l] \in Zone
                      /\ [z EXCEPT !.members = l].id = z.id
                      /\ [z EXCEPT !.members = l].parent = z.parent
                      /\ [z EXCEPT !.members = l].members = l
  BY DEF Zone
<1>2. /\ zs \in Seq(Zone) /\ DOMAIN zs = 1..Len(zs)
      /\ \A k \in DOMAIN zs : zs[k] \in Zone /\ NoRepeat(zs[k].members) /\ zs[k].members \in Seq(Ids)
  BY ListFacts
<1>3. u = [k \in DOMAIN zs |-> [zs[k] EXCEPT !.members = e(k)]]
  BY DEF LeaveOldParent
<1>4. \A k \in DOMAIN zs : e(k) \in Seq(Ids) /\ NoRepeat(e(k))
  <2>1. \A l \in Seq(Ids) : \A X : Without(l, X) \in Seq(Ids) /\ (NoRepeat(l) => NoRepeat(Without(l, X)))
    BY WithoutFacts
  <2> HIDE DEF Gone
  <2> QED BY <1>2, <2>1
<1> HIDE DEF e
<1>5. u = [k \in DOMAIN zs |-> u[k]] /\ DOMAIN u = DOMAIN zs
      /\ \A k \in DOMAIN zs : u[k] = [zs[k] EXCEPT !.members = e(k)]
  BY <1>3
<1>6. \A k \in DOMAIN zs : u[k] \in Zone /\ u[k].id = zs[k].id /\ NoRepeat(u[k].members)
                           /\ u[k].members = e(k) /\ u[k].parent = zs[k].parent
  <2> TAKE k \in DOMAIN zs
  <2>1. zs[k] \in Zone /\ e(k) \in Seq(Ids) /\ NoRepeat(e(k)) /\ u[k] = [zs[k] EXCEPT !.members = e(k)]
    BY <1>2, <1>4, <1>5
  <2> QED BY <2>1, <1>1
<1>7. /\ Edits(zs, u)
      /\ \A i : Has(zs, i) => /\ Parent(u, i) = u[IndexOf(zs, i)].parent
                              /\ Members(u, i) = u[IndexOf(zs, i)].members
  BY <1>5, <1>6, EditFacts DEF Edits
<1>8. ASSUME NEW i, Has(zs, i)
      PROVE  /\ Parent(u, i) = Parent(zs, i)
             /\ Members(u, i) = IF i = target THEN Members(zs, i) ELSE Without(Members(zs, i), Gone(i))
  <2> DEFINE k == IndexOf(zs, i)
  <2>1. /\ k \in DOMAIN zs /\ zs[k].id = i
        /\ Parent(zs, i) = zs[k].parent /\ Members(zs, i) = zs[k].members
    BY <1>8, GetFacts
  <2>2. IsFirst(zs, k)
    BY <2>1 DEF IsFirst
  <2>3. Parent(u, i) = u[k].parent /\ Members(u, i) = u[k].members
    BY <1>7, <1>8
  <2> HIDE DEF k, Gone
  <2>4. e(k) = IF i = target THEN zs[k].members ELSE Without(zs[k].members, Gone(i))
    BY <2>1, <2>2 DEF e
  <2> QED BY <2>1, <2>3, <2>4, <1>6
<1>9. ASSUME NEW i, ~Has(zs, i)
      PROVE  Parent(u, i) = Parent(zs, i) /\ Members(u, i) = <<>> /\ Members(zs, i) = <<>>
  BY <1>7, <1>9, GetFacts DEF Edits
<1>10. \A X : Without(<<>>, X) = <<>>
  <2> TAKE X
  <2> DEFINE s == <<>> I == {k \in DOMAIN s : s[k] \notin X}
  <2>1. s \in Seq(Ids) /\ I \in SUBSET (1..Len(s)) /\ I = {} /\ Without(s, X) = Picked(s, I)
    BY DEF Without
  <2> HIDE DEF s, I
  <2>2. Without(s, X) = <<>>
    BY <2>1, PickedFacts
  <2> QED BY <2>2 DEF s
<1> QED BY <1>7, <1>8, <1>9, <1>10

-----------------------------------------------------------------------------
(* The stacks as sets: the members a zone lists.                           *)
Mem(zs, i) == ToSet(Members(zs, i))

(* A list is empty when its set of elements is.                            *)
LEMMA NothingListed ==
  ASSUME NEW S, NEW s \in Seq(S)
  PROVE  s = <<>> <=> ToSet(s) = {}
<1>1. CASE s = <<>>
  BY <1>1 DEF ToSet
<1>2. CASE s # <<>>
  <2>1. 1 \in DOMAIN s
    BY <1>2
  <2> QED BY <2>1, <1>2 DEF ToSet
<1> QED BY <1>1, <1>2

(* The members and the parent of any number, in terms of sets.             *)
LEMMA MemFacts ==
  ASSUME NEW zs \in Lists, NEW i
  PROVE  /\ Mem(zs, i) \in SUBSET Ids
         /\ IsAnchor(zs, i) <=> Mem(zs, i) # {}
         /\ Mem(zs, i) # {} => Has(zs, i) /\ i \in Ids
         /\ Parent(zs, i) # NoZone => Has(zs, i) /\ i \in Ids
         /\ Parent(zs, i) \in Ids \cup {NoZone}
         /\ \A m : Contains(Members(zs, i), m) <=> m \in Mem(zs, i)
<1>1. Members(zs, i) \in Seq(Ids) /\ (~Has(zs, i) => Members(zs, i) = <<>>)
  BY GetFacts
<1>2. Mem(zs, i) \in SUBSET Ids
  BY <1>1 DEF Mem, ToSet
<1>3. IsAnchor(zs, i) <=> Mem(zs, i) # {}
  BY <1>1, NothingListed DEF IsAnchor, Mem
<1>4. Mem(zs, i) # {} => Has(zs, i)
  BY <1>1, NothingListed DEF Mem
<1>5. \A m : Contains(Members(zs, i), m) <=> m \in Mem(zs, i)
  BY DEF Contains, Mem, ToSet
<1> QED BY <1>2, <1>3, <1>4, <1>5, GetFacts

(* The members that name i as their parent, each once.                     *)
LEMMA OwnMembersFacts ==
  ASSUME NEW zs \in Lists, NEW i, NEW u, u = OwnMembers(zs, i)
  PROVE  /\ u \in Seq(Ids) /\ NoRepeat(u)
         /\ ToSet(u) = {m \in Mem(zs, i) : Has(zs, m) /\ Parent(zs, m) = i}
<1> DEFINE ms == Members(zs, i)
           I == {k \in DOMAIN ms : Has(zs, ms[k]) /\ Parent(zs, ms[k]) = i}
<1>1. ms \in Seq(Ids) /\ NoRepeat(ms)
  BY GetFacts
<1>2. I \in SUBSET (1..Len(ms)) /\ u = Picked(ms, I)
  BY <1>1 DEF OwnMembers
<1>3. \A j, k \in I : ms[j] = ms[k] => j = k
  BY <1>1 DEF NoRepeat
<1>4. {ms[k] : k \in I} = {m \in Mem(zs, i) : Has(zs, m) /\ Parent(zs, m) = i}
  BY DEF Mem, ToSet
<1> HIDE DEF I, ms
<1>5. /\ u \in Seq(Ids) /\ ToSet(u) = {ms[k] : k \in I}
      /\ (\A j, k \in I : ms[j] = ms[k] => j = k) => NoRepeat(u)
  BY <1>1, <1>2, PickedFacts
<1> QED BY <1>3, <1>4, <1>5

(* What moves with a zone: the zone, and its own members when it anchors.  *)
LEMMA TransferFacts ==
  ASSUME NEW zs \in Lists, NEW c \in Ids, NEW u, u = Transfer(zs, c)
  PROVE  /\ u \in Seq(Ids) /\ NoRepeat(u)
         /\ ToSet(u) = {c} \cup {m \in Mem(zs, c) : Has(zs, m) /\ Parent(zs, m) = c}
<1> DEFINE own == OwnMembers(zs, c)
           dis == Distinct(own)
           rest == Without(dis, {c})
           one == <<c>>
<1>1. one \in Seq(Ids) /\ NoRepeat(one) /\ ToSet(one) = {c}
  BY DEF NoRepeat, ToSet
<1>2. own \in Seq(Ids) /\ ToSet(own) = {m \in Mem(zs, c) : Has(zs, m) /\ Parent(zs, m) = c}
  BY OwnMembersFacts
<1>3. CASE IsAnchor(zs, c)
  <2>1. u = one \o rest
    BY <1>3 DEF Transfer
  <2>2. dis \in Seq(Ids) /\ ToSet(dis) = ToSet(own) /\ NoRepeat(dis)
    <3> HIDE DEF own
    <3> QED BY <1>2, DistinctFacts
  <2>3. rest \in Seq(Ids) /\ ToSet(rest) = ToSet(dis) \ {c} /\ NoRepeat(rest)
    <3> HIDE DEF dis
    <3> QED BY <2>2, WithoutFacts
  <2> HIDE DEF one, rest, dis, own
  <2>4. /\ u \in Seq(Ids) /\ ToSet(u) = ToSet(one) \cup ToSet(rest)
        /\ NoRepeat(one) /\ NoRepeat(rest) /\ ToSet(one) \cap ToSet(rest) = {} => NoRepeat(u)
    BY <1>1, <2>1, <2>3, ConcatFacts
  <2> QED BY <1>1, <1>2, <2>2, <2>3, <2>4
<1>4. CASE ~IsAnchor(zs, c)
  <2>1. u = one
    BY <1>4 DEF Transfer
  <2>2. Mem(zs, c) = {}
    BY <1>4, MemFacts
  <2> QED BY <2>1, <2>2, <1>1
<1> QED BY <1>3, <1>4

(* `stack' always has a zone to put the child under.                       *)
LEMMA TargetFacts ==
  ASSUME NEW zs \in Lists, NEW i \in Ids
  PROVE  AnchorOrSelf(zs, i) \in Ids
<1>1. StackAnchorFor(zs, i) \in Ids \cup {NoZone}
  BY GetFacts DEF StackAnchorFor
<1> QED BY <1>1 DEF AnchorOrSelf

-----------------------------------------------------------------------------
(* ZoneList::stack.                                                        *)
LEMMA StackUnderFacts ==
  ASSUME NEW zs \in Lists, NEW p \in Ids, NEW c \in Ids,
         NEW u, u = StackUnder(zs, p, c),
         NEW t, t = AnchorOrSelf(zs, p), NEW moved, moved = ToSet(Transfer(zs, c))
  PROVE  /\ Edits(zs, u)
         /\ \A i : Parent(u, i) = IF i \in moved /\ Has(zs, i) THEN t ELSE Parent(zs, i)
         /\ t # c /\ Has(zs, t) =>
              \A i : Mem(u, i) =
                 IF i = t THEN Mem(zs, t) \cup moved
                 ELSE IF i = c THEN {}
                 ELSE Mem(zs, i) \ {m \in moved : Parent(zs, m) = i}
<1> DEFINE ms == Transfer(zs, c)
           left == LeaveOldParent(zs, ms, t)
           cleared == IF IsAnchor(zs, c) THEN SetMembers(left, c, <<>>) ELSE left
           named == SetParents(cleared, moved, t)
           base == Members(named, t)
           add == Without(ms, ToSet(base))
           all == base \o add
<1>1. u = SetMembers(named, t, all)
  BY DEF StackUnder
<1>2. t \in Ids /\ ms \in Seq(Ids) /\ NoRepeat(ms)
  BY TargetFacts, TransferFacts
<1> HIDE DEF ms
<1>3. /\ Edits(zs, left) /\ \A i : Parent(left, i) = Parent(zs, i)
      /\ \A i : Members(left, i) =
                IF i = t THEN Members(zs, i)
                ELSE Without(Members(zs, i), {m \in moved : Parent(zs, m) = i})
  BY LeaveOldParentFacts DEF ms
<1> HIDE DEF left
<1>4. /\ Edits(zs, cleared) /\ \A i : Parent(cleared, i) = Parent(zs, i)
      /\ \A i : Members(cleared, i) = IF i = c /\ IsAnchor(zs, c) THEN <<>> ELSE Members(left, i)
  <2>1. CASE IsAnchor(zs, c)
    <3> DEFINE none == <<>>
    <3>1. none \in Seq(Ids) /\ NoRepeat(none) /\ cleared = SetMembers(left, c, none) /\ left \in Lists
      BY <2>1, <1>3 DEF NoRepeat, Edits
    <3> HIDE DEF none, cleared
    <3>2. /\ Edits(left, cleared) /\ \A i : Parent(cleared, i) = Parent(left, i)
          /\ \A i : Members(cleared, i) = IF i = c /\ Has(left, c) THEN none ELSE Members(left, i)
      BY <3>1, SetMembersFacts
    <3>3. Has(left, c)
      BY <2>1, <1>3, MemFacts DEF Edits
    <3> QED BY <3>2, <3>3, <2>1, <1>3 DEF Edits, SameIds, none
  <2>2. CASE ~IsAnchor(zs, c)
    BY <2>2, <1>3
  <2> QED BY <2>1, <2>2
<1> HIDE DEF cleared
<1>5. /\ Edits(zs, named)
      /\ \A i : Parent(named, i) = IF i \in moved /\ Has(zs, i) THEN t ELSE Parent(zs, i)
      /\ \A i : Members(named, i) = Members(cleared, i)
  <2>1. /\ Edits(cleared, named)
        /\ \A i : Members(named, i) = Members(cleared, i)
        /\ \A i : Parent(named, i) = IF i \in moved /\ Has(cleared, i) THEN t ELSE Parent(cleared, i)
    BY <1>2, <1>4, SetParentsFacts DEF Edits
  <2> QED BY <2>1, <1>4 DEF Edits, SameIds
<1> HIDE DEF named
<1>6. base \in Seq(Ids) /\ NoRepeat(base)
  BY <1>5, GetFacts DEF Edits
<1> HIDE DEF base
<1>7. add \in Seq(Ids) /\ NoRepeat(add) /\ ToSet(add) = moved \ ToSet(base)
  BY <1>2, WithoutFacts DEF ms
<1> HIDE DEF add
<1>8. all \in Seq(Ids) /\ NoRepeat(all) /\ ToSet(all) = ToSet(base) \cup moved
  <2>1. /\ all \in Seq(Ids) /\ ToSet(all) = ToSet(base) \cup ToSet(add)
        /\ NoRepeat(base) /\ NoRepeat(add) /\ ToSet(base) \cap ToSet(add) = {} => NoRepeat(all)
    BY <1>6, <1>7, ConcatFacts
  <2> QED BY <2>1, <1>6, <1>7
<1> HIDE DEF all
<1>9. /\ Edits(named, u) /\ \A j : Parent(u, j) = Parent(named, j)
      /\ \A j : Members(u, j) = IF j = t /\ Has(named, t) THEN all ELSE Members(named, j)
  BY <1>1, <1>5, <1>8, SetMembersFacts DEF Edits
<1>10. ASSUME t # c, Has(zs, t), NEW i
       PROVE  Mem(u, i) = IF i = t THEN Mem(zs, t) \cup moved
                          ELSE IF i = c THEN {}
                          ELSE Mem(zs, i) \ {m \in moved : Parent(zs, m) = i}
  <2>1. CASE i = t
    <3>1. Members(u, t) = all /\ base = Members(zs, t)
      BY <1>10, <1>3, <1>4, <1>5, <1>9 DEF base, Edits
    <3> QED BY <3>1, <2>1, <1>8 DEF Mem
  <2>2. CASE i # t /\ i = c /\ IsAnchor(zs, c)
    <3>1. Members(u, i) = <<>>
      BY <2>2, <1>4, <1>5, <1>9
    <3> QED BY <3>1, <2>2 DEF Mem, ToSet
  <2>3. CASE i # t /\ ~(i = c /\ IsAnchor(zs, c))
    <3> DEFINE X == {m \in moved : Parent(zs, m) = i}
    <3>1. Members(u, i) = Without(Members(zs, i), X) /\ Members(zs, i) \in Seq(Ids)
      BY <2>3, <1>3, <1>4, <1>5, <1>9, GetFacts
    <3> HIDE DEF X
    <3>2. Mem(u, i) = Mem(zs, i) \ X
      BY <3>1, WithoutFacts DEF Mem
    <3>3. i = c => Mem(zs, i) = {}
      BY <2>3, MemFacts
    <3> QED BY <3>2, <3>3, <2>3 DEF X
  <2> QED BY <2>1, <2>2, <2>3
<1> QED BY <1>5, <1>9, <1>10 DEF Edits, SameIds

-----------------------------------------------------------------------------
(* What every command keeps when nothing takes stacks apart: an id is in   *)
(* the list once, a zone is listed by its parent and by no other, and a    *)
(* parent has none.                                                        *)
Unique(zs) == \A j, k \in DOMAIN zs : zs[j].id = zs[k].id => j = k

Agree(zs) ==
  \A i, m \in Ids : /\ m \in Mem(zs, i) <=> Parent(zs, m) = i
                    /\ Parent(zs, m) = i => Parent(zs, i) = NoZone

FlatLists == {zs \in Lists : Unique(zs) /\ Agree(zs)}

(* A change of parents and members leaves the ids.                         *)
LEMMA EditsKeepIds ==
  ASSUME NEW zs, NEW u, Edits(zs, u)
  PROVE  IdsOf(u) = IdsOf(zs)
BY DEF Edits, SameIds, IdsOf

(* A change of parents and members leaves the ids different.               *)
LEMMA EditedIsUnique ==
  ASSUME NEW zs, NEW u, Unique(zs), SameIds(zs, u)
  PROVE  Unique(u)
BY DEF Unique, SameIds

(* Agree looks at a list through `get' only.                               *)
LEMMA AgreeAsBefore ==
  ASSUME NEW zs, NEW u, Agree(zs),
         \A i \in Ids : Parent(u, i) = Parent(zs, i) /\ Mem(u, i) = Mem(zs, i)
  PROVE  Agree(u)
BY DEF Agree

(* In a flat list a member's anchor is its parent, and an anchor has       *)
(* none.                                                                   *)
LEMMA AnchorFacts ==
  ASSUME NEW zs \in FlatLists, NEW i \in Ids
  PROVE  /\ StackAnchorFor(zs, i) = IF Mem(zs, i) # {} THEN i ELSE Parent(zs, i)
         /\ AnchorOrSelf(zs, i) = IF Parent(zs, i) = NoZone THEN i ELSE Parent(zs, i)
         /\ Parent(zs, AnchorOrSelf(zs, i)) = NoZone
         /\ Has(zs, i) => Has(zs, AnchorOrSelf(zs, i))
<1>1. zs \in Lists /\ Agree(zs)
  BY DEF FlatLists
<1>2. NoZone \notin Ids
  BY <1>1, ListFacts
<1>3. /\ IsAnchor(zs, i) <=> Mem(zs, i) # {}
      /\ Mem(zs, i) \in SUBSET Ids
      /\ Parent(zs, i) \in Ids \cup {NoZone}
  BY <1>1, MemFacts
<1>4. Parent(zs, i) # NoZone => Contains(Members(zs, Parent(zs, i)), i)
  <2>1. \A p \in Ids : Parent(zs, i) = p => i \in Mem(zs, p)
    BY <1>1 DEF Agree
  <2>2. \A p : Contains(Members(zs, p), i) <=> i \in Mem(zs, p)
    BY <1>1, MemFacts
  <2> QED BY <2>1, <2>2, <1>3
<1>5. StackAnchorFor(zs, i) = IF Mem(zs, i) # {} THEN i ELSE Parent(zs, i)
  BY <1>3, <1>4 DEF StackAnchorFor
<1>6. Mem(zs, i) # {} => Parent(zs, i) = NoZone
  BY <1>1, <1>3 DEF Agree
<1>7. AnchorOrSelf(zs, i) = IF Parent(zs, i) = NoZone THEN i ELSE Parent(zs, i)
  BY <1>2, <1>5, <1>6 DEF AnchorOrSelf
<1>8. ASSUME Parent(zs, i) # NoZone
      PROVE  Parent(zs, Parent(zs, i)) = NoZone /\ Has(zs, Parent(zs, i))
  <2>1. Parent(zs, i) \in Ids /\ i \in Mem(zs, Parent(zs, i)) /\ Parent(zs, Parent(zs, i)) = NoZone
    BY <1>1, <1>3, <1>8 DEF Agree
  <2> QED BY <2>1, <1>1, MemFacts
<1> QED BY <1>5, <1>7, <1>8

(* ZoneList::stack keeps the zones, and a flat list flat.                  *)
LEMMA StackUnderKeeps ==
  ASSUME NEW p \in Ids, NEW c \in Ids
  PROVE  /\ \A zs \in Lists : /\ StackIfPossible(zs, p, c) \in Lists
                               /\ IdsOf(StackIfPossible(zs, p, c)) = IdsOf(zs)
         /\ \A zs \in FlatLists : StackIfPossible(zs, p, c) \in FlatLists
         /\ \A zs \in FlatLists : CanStack(zs, p, c) => StackUnder(zs, p, c) \in FlatLists
<1>1. ASSUME NEW zs \in Lists
      PROVE  StackUnder(zs, p, c) \in Lists /\ IdsOf(StackUnder(zs, p, c)) = IdsOf(zs)
  <2>1. Edits(zs, StackUnder(zs, p, c))
    BY StackUnderFacts
  <2> QED BY <2>1, EditsKeepIds DEF Edits
<1>2. ASSUME NEW zs \in FlatLists, CanStack(zs, p, c)
      PROVE  StackUnder(zs, p, c) \in FlatLists
  <2> DEFINE u == StackUnder(zs, p, c)
             t == AnchorOrSelf(zs, p)
             moved == ToSet(Transfer(zs, c))
  <2>1. zs \in Lists /\ Unique(zs) /\ Agree(zs)
    BY DEF FlatLists
  <2>2. t \in Ids /\ Has(zs, t) /\ Parent(zs, t) = NoZone
    BY <1>2, <2>1, AnchorFacts, TargetFacts DEF CanStack
  <2>3. moved = {c} \cup Mem(zs, c)
    <3>1. moved = {c} \cup {m \in Mem(zs, c) : Has(zs, m) /\ Parent(zs, m) = c}
      BY <2>1, TransferFacts
    <3>2. \A m \in Mem(zs, c) : m \in Ids /\ Parent(zs, m) = c /\ Has(zs, m)
      <4>1. \A m \in Mem(zs, c) : m \in Ids /\ Parent(zs, m) = c
        BY <2>1, MemFacts DEF Agree
      <4>2. c # NoZone
        BY <2>1, ListFacts
      <4> QED BY <4>1, <4>2, <2>1, MemFacts
    <3> QED BY <3>1, <3>2
  <2>4. t \notin moved /\ t # c
    <3>1. t \notin moved
      BY <1>2 DEF CanStack, Contains, ToSet
    <3> QED BY <3>1, <2>3
  <2>5. \A m \in moved : m \in Ids /\ Has(zs, m)
    <3>1. Mem(zs, c) \in SUBSET Ids
      BY <2>1, MemFacts
    <3>2. \A m \in Mem(zs, c) : Parent(zs, m) = c /\ c # NoZone
      BY <2>1, <3>1, ListFacts DEF Agree
    <3>3. \A m \in Mem(zs, c) : Has(zs, m)
      BY <2>1, <3>2, MemFacts
    <3> QED BY <1>2, <2>3, <3>1, <3>3 DEF CanStack
  <2>6. /\ Edits(zs, u)
        /\ \A i : Parent(u, i) = IF i \in moved /\ Has(zs, i) THEN t ELSE Parent(zs, i)
        /\ t # c /\ Has(zs, t) =>
             \A i : Mem(u, i) =
                IF i = t THEN Mem(zs, t) \cup moved
                ELSE IF i = c THEN {}
                ELSE Mem(zs, i) \ {m \in moved : Parent(zs, m) = i}
    BY <2>1, StackUnderFacts
  <2> HIDE DEF u, t, moved
  <2>7. \A i \in Ids : Parent(u, i) = IF i \in moved THEN t ELSE Parent(zs, i)
    BY <2>5, <2>6
  <2>8. \A i, m \in Ids : m \in Mem(zs, i) <=> Parent(zs, m) = i
    BY <2>1 DEF Agree
  <2>9. \A i, m \in Ids : Parent(zs, m) = i => Parent(zs, i) = NoZone
    BY <2>1 DEF Agree
  <2>10. NoZone \notin Ids
    BY <2>1, ListFacts
  <2>11. \A i, m \in Ids : m \in Mem(u, i) <=> Parent(u, m) = i
    <3> TAKE i, m \in Ids
    <3>1. CASE i = t
      <4>1. m \in Mem(u, i) <=> m \in Mem(zs, t) \/ m \in moved
        BY <3>1, <2>2, <2>4, <2>6
      <4> QED BY <4>1, <3>1, <2>2, <2>7, <2>8
    <3>2. CASE i # t /\ i = c
      <4>1. m \notin Mem(u, i)
        BY <3>2, <2>2, <2>4, <2>6
      <4>2. Parent(zs, m) = c => m \in moved
        BY <2>3, <2>8
      <4> QED BY <4>1, <4>2, <3>2, <2>7
    <3>3. CASE i # t /\ i # c
      <4>1. m \in Mem(u, i) <=> m \in Mem(zs, i) /\ ~(m \in moved /\ Parent(zs, m) = i)
        BY <3>3, <2>2, <2>4, <2>6
      <4> QED BY <4>1, <3>3, <2>7, <2>8
    <3> QED BY <3>1, <3>2, <3>3
  <2>12. \A i, m \in Ids : Parent(u, m) = i => Parent(u, i) = NoZone
    <3> SUFFICES ASSUME NEW m \in Ids, Parent(u, m) \in Ids PROVE Parent(u, Parent(u, m)) = NoZone
      OBVIOUS
    <3>1. CASE m \in moved
      BY <3>1, <2>2, <2>4, <2>7
    <3>2. CASE m \notin moved
      <4>1. Parent(u, m) = Parent(zs, m) /\ Parent(zs, Parent(zs, m)) = NoZone
        BY <3>2, <2>7, <2>9
      <4>2. Parent(zs, m) # c
        BY <3>2, <2>3, <2>8
      <4>3. Parent(zs, m) \notin Mem(zs, c)
        BY <4>1, <2>8, <2>10
      <4> QED BY <4>1, <4>2, <4>3, <2>3, <2>7
    <3> QED BY <3>1, <3>2
  <2>13. Agree(u)
    BY <2>11, <2>12 DEF Agree
  <2> QED BY <2>1, <2>6, <2>13, EditedIsUnique DEF Edits, FlatLists, u
<1>3. \A zs \in FlatLists : zs \in Lists
  BY DEF FlatLists
<1> QED BY <1>1, <1>2, <1>3 DEF StackIfPossible

-----------------------------------------------------------------------------
(* ZoneList::unstack.                                                      *)
LEMMA UnstackedKeeps ==
  ASSUME NEW i \in Ids
  PROVE  /\ \A zs \in Lists : Unstacked(zs, i) \in Lists /\ IdsOf(Unstacked(zs, i)) = IdsOf(zs)
         /\ \A zs \in FlatLists : Unstacked(zs, i) \in FlatLists
<1>1. ASSUME NEW zs \in Lists, NEW u, u = Unstacked(zs, i), IsAnchor(zs, i)
      PROVE  /\ Edits(zs, u)
             /\ \A j : Mem(u, j) = IF j = i THEN {} ELSE Mem(zs, j)
             /\ \A j : Parent(u, j) = IF j \in Mem(zs, i) /\ Has(zs, j) THEN NoZone ELSE Parent(zs, j)
  <2> DEFINE none == <<>>
             left == SetMembers(zs, i, none)
  <2>1. u = SetParents(left, Mem(zs, i), NoZone) /\ none \in Seq(Ids) /\ NoRepeat(none)
    BY <1>1 DEF Unstacked, Mem, NoRepeat
  <2>2. Has(zs, i)
    BY <1>1, MemFacts
  <2> HIDE DEF none
  <2>3. /\ Edits(zs, left) /\ \A j : Parent(left, j) = Parent(zs, j)
        /\ \A j : Members(left, j) = IF j = i /\ Has(zs, i) THEN none ELSE Members(zs, j)
    BY <2>1, SetMembersFacts
  <2> HIDE DEF left
  <2>4. /\ Edits(left, u) /\ \A j : Members(u, j) = Members(left, j)
        /\ \A j : Parent(u, j) = IF j \in Mem(zs, i) /\ Has(left, j) THEN NoZone ELSE Parent(left, j)
    BY <2>1, <2>3, SetParentsFacts DEF Edits
  <2>5. Edits(zs, u)
    BY <2>3, <2>4 DEF Edits, SameIds
  <2>6. \A j : Mem(u, j) = IF j = i THEN {} ELSE Mem(zs, j)
    BY <2>2, <2>3, <2>4 DEF Mem, ToSet, none
  <2> QED BY <2>3, <2>4, <2>5, <2>6 DEF Edits
<1>2. ASSUME NEW zs \in Lists, NEW u, u = Unstacked(zs, i), ~IsAnchor(zs, i)
      PROVE  /\ Edits(zs, u)
             /\ \A j : Mem(u, j) = IF j = Parent(zs, i) THEN Mem(zs, j) \ {i} ELSE Mem(zs, j)
             /\ \A j : Parent(u, j) = IF j = i THEN NoZone ELSE Parent(zs, j)
  <2> DEFINE left == SetParents(zs, {i}, NoZone)
             p == Parent(zs, i)
             ms == Without(Members(zs, p), {i})
  <2>1. u = SetMembers(left, p, ms)
    BY <1>2 DEF Unstacked
  <2>2. Members(zs, p) \in Seq(Ids) /\ NoRepeat(Members(zs, p))
    BY GetFacts
  <2>3. ms \in Seq(Ids) /\ NoRepeat(ms) /\ ToSet(ms) = Mem(zs, p) \ {i}
    BY <2>2, WithoutFacts DEF Mem
  <2>4. /\ Edits(zs, left) /\ \A j : Members(left, j) = Members(zs, j)
        /\ \A j : Parent(left, j) = IF j \in {i} /\ Has(zs, j) THEN NoZone ELSE Parent(zs, j)
    BY SetParentsFacts
  <2> HIDE DEF left, ms
  <2>5. /\ Edits(left, u) /\ \A j : Parent(u, j) = Parent(left, j)
        /\ \A j : Members(u, j) = IF j = p /\ Has(left, p) THEN ms ELSE Members(left, j)
    BY <2>1, <2>3, <2>4, SetMembersFacts DEF Edits
  <2>6. Edits(zs, u)
    BY <2>4, <2>5 DEF Edits, SameIds
  <2>7. \A j : Mem(u, j) = IF j = p THEN Mem(zs, j) \ {i} ELSE Mem(zs, j)
    <3> TAKE j
    <3>1. CASE j = p /\ Has(left, p)
      BY <3>1, <2>3, <2>5 DEF Mem
    <3>2. CASE j = p /\ ~Has(left, p)
      <4>1. Members(u, j) = Members(zs, j) /\ Mem(zs, j) = {}
        BY <3>2, <2>4, <2>5, MemFacts DEF Edits
      <4> QED BY <4>1, <3>2 DEF Mem
    <3>3. CASE j # p
      BY <3>3, <2>4, <2>5 DEF Mem
    <3> QED BY <3>1, <3>2, <3>3
  <2>8. ~Has(zs, i) => Parent(zs, i) = NoZone
    BY GetFacts
  <2> QED BY <2>4, <2>5, <2>6, <2>7, <2>8
<1>3. ASSUME NEW zs \in FlatLists, NEW u, u = Unstacked(zs, i) PROVE u \in FlatLists
  <2>1. zs \in Lists /\ Unique(zs) /\ Agree(zs)
    BY DEF FlatLists
  <2>2. \A a, m \in Ids : /\ m \in Mem(zs, a) <=> Parent(zs, m) = a
                          /\ Parent(zs, m) = a => Parent(zs, a) = NoZone
    BY <2>1 DEF Agree
  <2>3. NoZone \notin Ids /\ \A m \in Mem(zs, i) : m \in Ids /\ Has(zs, m)
    <3>1. NoZone \notin Ids /\ Mem(zs, i) \in SUBSET Ids
      BY <2>1, ListFacts, MemFacts
    <3>2. \A m \in Mem(zs, i) : Parent(zs, m) # NoZone
      BY <2>2, <3>1
    <3> QED BY <3>1, <3>2, <2>1, MemFacts
  <2>4. CASE IsAnchor(zs, i)
    <3>1. /\ Edits(zs, u)
          /\ \A j : Mem(u, j) = IF j = i THEN {} ELSE Mem(zs, j)
          /\ \A j : Parent(u, j) = IF j \in Mem(zs, i) THEN NoZone ELSE Parent(zs, j)
      BY <2>1, <2>3, <2>4, <1>1, <1>3
    <3>2. Agree(u)
      BY <3>1, <2>2, <2>3 DEF Agree
    <3> QED BY <2>1, <3>1, <3>2, EditedIsUnique DEF Edits, FlatLists
  <2>5. CASE ~IsAnchor(zs, i)
    <3>1. /\ Edits(zs, u)
          /\ \A j : Mem(u, j) = IF j = Parent(zs, i) THEN Mem(zs, j) \ {i} ELSE Mem(zs, j)
          /\ \A j : Parent(u, j) = IF j = i THEN NoZone ELSE Parent(zs, j)
      BY <2>1, <2>5, <1>2, <1>3
    <3>2. Agree(u)
      BY <3>1, <2>2, <2>3 DEF Agree
    <3> QED BY <2>1, <3>1, <3>2, EditedIsUnique DEF Edits, FlatLists
  <2> QED BY <2>4, <2>5
<1> QED BY <1>1, <1>2, <1>3, EditsKeepIds DEF Edits

(* ZoneList::reorder_stack_member.                                         *)
LEMMA ReorderedKeeps ==
  ASSUME NEW a \in Ids, NEW m \in Ids, NEW index \in Nat
  PROVE  /\ \A zs \in Lists : /\ Reordered(zs, a, m, index) \in Lists
                               /\ IdsOf(Reordered(zs, a, m, index)) = IdsOf(zs)
         /\ \A zs \in FlatLists : m \in Mem(zs, a) => Reordered(zs, a, m, index) \in FlatLists
<1> SUFFICES ASSUME NEW zs \in Lists, NEW u, u = Reordered(zs, a, m, index)
             PROVE  /\ u \in Lists /\ IdsOf(u) = IdsOf(zs)
                    /\ zs \in FlatLists /\ m \in Mem(zs, a) => u \in FlatLists
  BY DEF FlatLists
<1> DEFINE others == Without(Members(zs, a), {m})
           at == MinOf(IF index = 0 THEN 0 ELSE index - 1, Len(others))
           ms == InsertAt(others, at + 1, m)
<1>1. Members(zs, a) \in Seq(Ids) /\ NoRepeat(Members(zs, a))
  BY GetFacts
<1>2. others \in Seq(Ids) /\ NoRepeat(others) /\ ToSet(others) = Mem(zs, a) \ {m}
  BY <1>1, WithoutFacts DEF Mem
<1>3. u = SetMembers(zs, a, ms)
  BY DEF Reordered
<1> HIDE DEF others
<1>4. at + 1 \in 1..(Len(others) + 1)
  <2>1. Len(others) \in Nat
    BY <1>2
  <2> QED BY <2>1 DEF MinOf
<1> HIDE DEF at
<1>5. ms \in Seq(Ids) /\ NoRepeat(ms) /\ ToSet(ms) = (Mem(zs, a) \ {m}) \cup {m}
  BY <1>2, <1>4, InsertAtFacts
<1> HIDE DEF ms
<1>6. /\ Edits(zs, u) /\ \A j : Parent(u, j) = Parent(zs, j)
      /\ \A j : Members(u, j) = IF j = a /\ Has(zs, a) THEN ms ELSE Members(zs, j)
  BY <1>3, <1>5, SetMembersFacts
<1>7. ASSUME zs \in FlatLists, m \in Mem(zs, a) PROVE u \in FlatLists
  <2>1. \A j : Mem(u, j) = Mem(zs, j)
    BY <1>5, <1>6, <1>7 DEF Mem
  <2>2. Unique(zs) /\ Agree(zs) /\ SameIds(zs, u) /\ u \in Lists
    BY <1>6, <1>7 DEF FlatLists, Edits
  <2>3. Unique(u) /\ Agree(u)
    BY <1>6, <2>1, <2>2, EditedIsUnique, AgreeAsBefore
  <2> QED BY <2>2, <2>3 DEF FlatLists
<1> QED BY <1>6, <1>7, EditsKeepIds DEF Edits

-----------------------------------------------------------------------------
(* The members of a zone that name it, and stack_member_ids.               *)
Own(zs, a) == {m \in Mem(zs, a) : Has(zs, m) /\ Parent(zs, m) = a}

(* stack_member_ids lists the anchor and the members that name it, or      *)
(* nobody.                                                                 *)
LEMMA StackMemberIdsFacts ==
  ASSUME NEW zs \in Lists, NEW a
  PROVE  /\ StackMemberIds(zs, a) \in Seq(Ids)
         /\ ToSet(StackMemberIds(zs, a)) = IF Own(zs, a) = {} THEN {} ELSE {a} \cup Own(zs, a)
<1> DEFINE o == OwnMembers(zs, a)
           own == Own(zs, a)
           one == <<a>>
<1> SUFFICES ASSUME NEW u, u = StackMemberIds(zs, a)
             PROVE  u \in Seq(Ids) /\ ToSet(u) = IF own = {} THEN {} ELSE {a} \cup own
  OBVIOUS
<1>1. o \in Seq(Ids) /\ ToSet(o) = own
  BY OwnMembersFacts DEF Own
<1>2. u = IF o = <<>> THEN <<>> ELSE one \o o
  BY DEF StackMemberIds
<1> HIDE DEF o
<1>3. CASE o = <<>>
  BY <1>1, <1>2, <1>3, NothingListed
<1>4. CASE o # <<>>
  <2>1. own # {}
    BY <1>1, <1>4, NothingListed
  <2>2. a \in Ids
    BY <2>1, MemFacts DEF Own
  <2>3. one \in Seq(Ids) /\ ToSet(one) = {a}
    BY <2>2 DEF ToSet
  <2> HIDE DEF one
  <2>4. u = one \o o
    BY <1>2, <1>4
  <2>5. u \in Seq(Ids) /\ ToSet(u) = ToSet(one) \cup ToSet(o)
    <3>1. /\ u \in Seq(Ids) /\ ToSet(u) = ToSet(one) \cup ToSet(o)
          /\ NoRepeat(one) /\ NoRepeat(o) /\ ToSet(one) \cap ToSet(o) = {} => NoRepeat(u)
      BY <1>1, <2>3, <2>4, ConcatFacts
    <3> QED BY <3>1
  <2> QED BY <1>1, <2>1, <2>3, <2>5
<1> QED BY <1>3, <1>4

(* The first part of ZoneList::detach_from_stack: a stack taken apart.     *)
Cleared(zs, all) ==
  SetParents([k \in DOMAIN zs |->
                IF Contains(all, zs[k].id) /\ IsFirst(zs, k)
                THEN [zs[k] EXCEPT !.members = <<>>] ELSE zs[k]],
             ToSet(all), NoZone)

(* A stack taken apart: its zones have no members and no parent, the       *)
(* others are as before.                                                   *)
LEMMA ClearedFacts ==
  ASSUME NEW zs \in Lists, NEW all, NEW u, u = Cleared(zs, all)
  PROVE  /\ Edits(zs, u)
         /\ \A i : Mem(u, i) = IF i \in ToSet(all) THEN {} ELSE Mem(zs, i)
         /\ \A i : Parent(u, i) = IF i \in ToSet(all) THEN NoZone ELSE Parent(zs, i)
<1> DEFINE none == <<>>
           out(k) == zs[k].id \in ToSet(all) /\ IsFirst(zs, k)
           w == [k \in DOMAIN zs |-> IF out(k) THEN [zs[k] EXCEPT !.members = none] ELSE zs[k]]
<1>1. none \in Seq(Ids) /\ NoRepeat(none) /\ ToSet(none) = {}
  BY DEF NoRepeat, ToSet
<1>2. u = SetParents(w, ToSet(all), NoZone)
  <2>1. \A i : Contains(all, i) <=> i \in ToSet(all)
    BY DEF Contains, ToSet
  <2> QED BY <2>1 DEF Cleared
<1> HIDE DEF none
<1>3. \A z \in Zone : /\ [z EXCEPT !.members = none] \in Zone
                      /\ [z EXCEPT !.members = none].id = z.id
                      /\ [z EXCEPT !.members = none].parent = z.parent
                      /\ [z EXCEPT !.members = none].members = none
  BY <1>1 DEF Zone
<1>4. \A k \in DOMAIN zs : zs[k] \in Zone /\ NoRepeat(zs[k].members)
  BY ListFacts
<1>5. /\ w = [k \in DOMAIN zs |-> w[k]] /\ DOMAIN w = DOMAIN zs
      /\ \A k \in DOMAIN zs : w[k] = IF out(k) THEN [zs[k] EXCEPT !.members = none] ELSE zs[k]
  OBVIOUS
<1> HIDE DEF w, out
<1>6. ASSUME NEW k \in DOMAIN zs
      PROVE  /\ w[k] \in Zone /\ w[k].id = zs[k].id /\ NoRepeat(w[k].members)
             /\ w[k].parent = zs[k].parent
             /\ w[k].members = IF out(k) THEN none ELSE zs[k].members
  <2>1. zs[k] \in Zone /\ NoRepeat(zs[k].members)
    BY <1>4
  <2>2. CASE out(k)
    <3>1. w[k] = [zs[k] EXCEPT !.members = none]
      BY <1>5, <2>2
    <3> QED BY <3>1, <2>1, <2>2, <1>1, <1>3
  <2>3. CASE ~out(k)
    BY <1>5, <2>1, <2>3
  <2> QED BY <2>2, <2>3
<1>7. /\ Edits(zs, w)
      /\ \A i : Has(zs, i) => /\ Parent(w, i) = w[IndexOf(zs, i)].parent
                              /\ Members(w, i) = w[IndexOf(zs, i)].members
  BY <1>5, <1>6, EditFacts DEF Edits
<1>8. \A i : /\ Parent(w, i) = Parent(zs, i)
             /\ Members(w, i) = IF i \in ToSet(all) THEN none ELSE Members(zs, i)
  <2> TAKE i
  <2>1. CASE Has(zs, i)
    <3>1. /\ IndexOf(zs, i) \in DOMAIN zs /\ zs[IndexOf(zs, i)].id = i
          /\ Parent(zs, i) = zs[IndexOf(zs, i)].parent /\ Members(zs, i) = zs[IndexOf(zs, i)].members
      BY <2>1, GetFacts
    <3>2. out(IndexOf(zs, i)) <=> i \in ToSet(all)
      BY <3>1 DEF out, IsFirst
    <3> QED BY <2>1, <3>1, <3>2, <1>6, <1>7
  <2>2. CASE ~Has(zs, i)
    BY <2>2, <1>7, GetFacts DEF Edits, none
  <2> QED BY <2>1, <2>2
<1>9. /\ Edits(w, u) /\ \A i : Members(u, i) = Members(w, i)
      /\ \A i : Parent(u, i) = IF i \in ToSet(all) /\ Has(w, i) THEN NoZone ELSE Parent(w, i)
  BY <1>2, <1>7, SetParentsFacts DEF Edits
<1>10. \A i : Mem(u, i) = IF i \in ToSet(all) THEN {} ELSE Mem(zs, i)
  BY <1>1, <1>8, <1>9 DEF Mem
<1>11. \A i : ~Has(w, i) => Parent(w, i) = NoZone
  BY <1>7, GetFacts DEF Edits
<1> QED BY <1>7, <1>8, <1>9, <1>10, <1>11 DEF Edits, SameIds

(* The rest is stacked again, one zone after the other: whatever the       *)
(* stacking keeps is kept.                                                 *)
LEMMA DetachedStays ==
  ASSUME NEW zs, NEW m, NEW S,
         NEW all, all = StackMemberIds(zs, StackAnchorFor(zs, m)),
         Cleared(zs, all) \in S, Without(all, {m}) \in Seq(Ids),
         \A p, c \in Ids : \A x \in S : StackIfPossible(x, p, c) \in S
  PROVE  Detached(zs, m) \in S
<1> DEFINE rest == Without(all, {m})
           cleared == Cleared(zs, all)
           n == Len(rest) - 1
           step(x, k) == StackIfPossible(x, rest[1], rest[k + 1])
           Is(f) == f = [k \in 0..n |-> IF k = 0 THEN cleared ELSE step(f[k - 1], k)]
           again == CHOOSE f : Is(f)
<1>1. Detached(zs, m) = IF Len(rest) < 2 THEN cleared ELSE again[n]
  BY DEF Detached, Cleared
<1>2. CASE Len(rest) < 2
  BY <1>1, <1>2
<1>3. CASE ~(Len(rest) < 2)
  <2>1. n \in Nat /\ n >= 1
    BY <1>3
  <2>2. \A k \in 1..n : rest[1] \in Ids /\ rest[k + 1] \in Ids
    BY <1>3
  <2>3. \A k \in 1..n : \A x \in S : step(x, k) \in S
    BY <2>2
  <2> HIDE DEF n, step, cleared
  <2> DEFINE g == [k \in 1..n |-> [x \in S |-> step(x, k)]]
  <2>4. g \in [1..n -> [S -> S]]
    BY <2>3
  <2>5. cleared \in S
    BY DEF cleared
  <2>6. PICK f \in [0..n -> S] : StepsOf(f, n, cleared, g)
    <3> HIDE DEF g
    <3> QED BY <2>1, <2>4, <2>5, StepsExist
  <2>7. Is(f)
    <3>1. \A k \in 0..n : k # 0 => k \in 1..n /\ k - 1 \in 0..n
      BY <2>1
    <3>2. \A k \in 0..n : f[k] = IF k = 0 THEN cleared ELSE step(f[k - 1], k)
      BY <2>6, <3>1 DEF StepsOf
    <3> QED BY <3>2
  <2>8. Is(again)
    <3> HIDE DEF Is
    <3> QED BY <2>7
  <2> HIDE DEF again
  <2>9. \A k \in 0..n : again[k] = IF k = 0 THEN cleared ELSE step(again[k - 1], k)
    BY <2>8
  <2>10. \A k \in 0..n : again[k] \in S
    <3>1. again[0] \in S
      BY <2>1, <2>5, <2>9
    <3>2. \A k \in 1..n : k \in 0..n /\ k # 0
      BY <2>1
    <3>3. \A k \in 1..n : again[k - 1] \in S => again[k] \in S
      BY <2>3, <2>9, <3>2
    <3> QED BY <2>1, <3>1, <3>3, StepsKeep
  <2> QED BY <1>1, <1>3, <2>1, <2>10
<1> QED BY <1>2, <1>3

(* ZoneList::detach_from_stack.                                            *)
LEMMA DetachedKeeps ==
  ASSUME NEW m \in Ids
  PROVE  /\ \A zs \in Lists : Detached(zs, m) \in Lists /\ IdsOf(Detached(zs, m)) = IdsOf(zs)
         /\ \A zs \in FlatLists : Detached(zs, m) \in FlatLists
<1> DEFINE a(zs) == StackAnchorFor(zs, m)
           all(zs) == StackMemberIds(zs, a(zs))
           own(zs) == Own(zs, a(zs))
<1>1. ASSUME NEW zs \in Lists
      PROVE  /\ Edits(zs, Cleared(zs, all(zs))) /\ Without(all(zs), {m}) \in Seq(Ids)
             /\ ToSet(all(zs)) = IF own(zs) = {} THEN {} ELSE {a(zs)} \cup own(zs)
  <2> HIDE DEF a
  <2>1. /\ all(zs) \in Seq(Ids)
        /\ ToSet(all(zs)) = IF own(zs) = {} THEN {} ELSE {a(zs)} \cup own(zs)
    BY StackMemberIdsFacts
  <2> HIDE DEF all
  <2>2. Edits(zs, Cleared(zs, all(zs)))
    BY ClearedFacts
  <2> QED BY <2>1, <2>2, WithoutFacts
<1>2. ASSUME NEW zs \in Lists
      PROVE  Detached(zs, m) \in Lists /\ IdsOf(Detached(zs, m)) = IdsOf(zs)
  <2> DEFINE S == {x \in Lists : IdsOf(x) = IdsOf(zs)}
  <2>1. Cleared(zs, all(zs)) \in S /\ Without(all(zs), {m}) \in Seq(Ids)
    <3> HIDE DEF all
    <3> QED BY <1>1, EditsKeepIds DEF Edits
  <2>2. \A p, c \in Ids : \A x \in S : StackIfPossible(x, p, c) \in S
    BY StackUnderKeeps
  <2>3. Detached(zs, m) \in S
    <3> HIDE DEF S
    <3> QED BY <2>1, <2>2, DetachedStays
  <2> QED BY <2>3
<1>3. ASSUME NEW zs \in FlatLists PROVE Detached(zs, m) \in FlatLists
  <2>1. zs \in Lists /\ Unique(zs) /\ Agree(zs)
    BY DEF FlatLists
  <2> DEFINE w == Cleared(zs, all(zs))
             A == ToSet(all(zs))
  <2>2. /\ Edits(zs, w)
        /\ \A i : Mem(w, i) = IF i \in A THEN {} ELSE Mem(zs, i)
        /\ \A i : Parent(w, i) = IF i \in A THEN NoZone ELSE Parent(zs, i)
    BY <2>1, ClearedFacts
  <2>3. \A i, j \in Ids : /\ j \in Mem(zs, i) <=> Parent(zs, j) = i
                          /\ Parent(zs, j) = i => Parent(zs, i) = NoZone
    BY <2>1 DEF Agree
  <2>4. NoZone \notin Ids /\ Mem(zs, a(zs)) \in SUBSET Ids /\ (Mem(zs, a(zs)) # {} => a(zs) \in Ids)
    BY <2>1, ListFacts, MemFacts
  <2>5. A = IF Mem(zs, a(zs)) = {} THEN {} ELSE {a(zs)} \cup Mem(zs, a(zs))
    <3>1. \A c \in Mem(zs, a(zs)) : Parent(zs, c) = a(zs) /\ Parent(zs, c) # NoZone
      BY <2>3, <2>4
    <3>2. \A c \in Mem(zs, a(zs)) : Has(zs, c)
      BY <2>1, <3>1, MemFacts
    <3>3. own(zs) = Mem(zs, a(zs))
      BY <3>1, <3>2 DEF Own
    <3> QED BY <2>1, <3>3, <1>1
  <2> HIDE DEF a, w, A
  <2>6. Agree(w)
    <3>1. CASE Mem(zs, a(zs)) = {}
      BY <3>1, <2>1, <2>2, <2>5, AgreeAsBefore
    <3>2. CASE Mem(zs, a(zs)) # {}
      <4>1. a(zs) \in Ids /\ A = {a(zs)} \cup Mem(zs, a(zs))
        BY <3>2, <2>4, <2>5
      <4>2. \A i \in A : i \in Ids
        BY <4>1, <2>4
      <4>3. \A j \in Ids : j \in A <=> j = a(zs) \/ Parent(zs, j) = a(zs)
        BY <4>1, <2>3
      <4>4. Parent(zs, a(zs)) = NoZone
        BY <3>2, <4>1, <2>3, <2>4
      <4>5. \A i, j \in Ids : j \in Mem(w, i) <=> Parent(w, j) = i
        BY <4>1, <4>3, <4>4, <2>2, <2>3, <2>4
      <4>6. \A i, j \in Ids : Parent(w, j) = i => Parent(w, i) = NoZone
        BY <2>2, <2>3, <2>4
      <4> QED BY <4>5, <4>6 DEF Agree
    <3> QED BY <3>1, <3>2
  <2>7. w \in FlatLists
    BY <2>1, <2>2, <2>6, EditedIsUnique DEF Edits, FlatLists
  <2>8. \A p, c \in Ids : \A x \in FlatLists : StackIfPossible(x, p, c) \in FlatLists
    BY StackUnderKeeps
  <2>9. Without(all(zs), {m}) \in Seq(Ids)
    BY <1>1, <2>1
  <2> QED BY <2>7, <2>8, <2>9, DetachedStays DEF w, a
<1> QED BY <1>2, <1>3

-----------------------------------------------------------------------------
(* ZoneList::flatten_nested_stacks.                                        *)
LEMMA NestedPlace ==
  ASSUME NEW zs \in Lists
  PROVE  \/ SelectInSeq(zs, IsNested) = 0 /\ \A k \in DOMAIN zs : ~IsNested(zs[k])
         \/ SelectInSeq(zs, IsNested) \in DOMAIN zs /\ IsNested(zs[SelectInSeq(zs, IsNested)])
<1> DEFINE I == {k \in 1..Len(zs) : IsNested(zs[k])}
           n == SelectInSeq(zs, IsNested)
<1>1. n = IF I # {} THEN Min(I) ELSE 0
  BY DEF SelectInSeq
<1>2. /\ I \in SUBSET Nat /\ \A k \in I : k \in DOMAIN zs /\ IsNested(zs[k])
      /\ I = {} => \A k \in DOMAIN zs : ~IsNested(zs[k])
  BY ListFacts
<1>3. I # {} => Min(I) \in I
  <2> HIDE DEF I
  <2>1. I # {} => \E k \in I : \A x \in I : k <= x
    BY <1>2, LeastExists
  <2> QED BY <2>1 DEF Min
<1> HIDE DEF I, n
<1>4. \/ n = 0 /\ \A k \in DOMAIN zs : ~IsNested(zs[k])
      \/ n \in DOMAIN zs /\ IsNested(zs[n])
  BY <1>1, <1>2, <1>3
<1> QED BY <1>4 DEF n

PlaceOf(s, x) == SelectInSeq(s, LAMBDA m : m = x)

(* The place of an element is within the list, 0 if it is not there.       *)
LEMMA PlaceInList ==
  ASSUME NEW s \in Seq(Ids), NEW x
  PROVE  PlaceOf(s, x) \in 0..Len(s)
<1> DEFINE I == {k \in 1..Len(s) : s[k] = x}
<1>1. PlaceOf(s, x) = IF I # {} THEN Min(I) ELSE 0
  BY DEF SelectInSeq, PlaceOf
<1>2. I \in SUBSET Nat /\ \A k \in I : k \in 0..Len(s)
  OBVIOUS
<1>3. I # {} => Min(I) \in I
  <2> HIDE DEF I
  <2>1. I # {} => \E k \in I : \A y \in I : k <= y
    BY <1>2, LeastExists
  <2> QED BY <2>1 DEF Min
<1>4. 0 \in 0..Len(s)
  OBVIOUS
<1> HIDE DEF I
<1> QED BY <1>1, <1>2, <1>3, <1>4

(* A list with one field of one zone replaced.                             *)
LEMMA ZoneReplaced ==
  ASSUME NEW zs \in Lists, NEW n \in DOMAIN zs, NEW z \in Zone, NoRepeat(z.members)
  PROVE  [zs EXCEPT ![n] = z] \in Lists
<1> DEFINE u == [zs EXCEPT ![n] = z]
<1>1. zs \in Seq(Zone) /\ DOMAIN u = DOMAIN zs
      /\ \A k \in DOMAIN zs : u[k] = IF k = n THEN z ELSE zs[k]
  BY ListFacts
<1>2. u \in Seq(Zone)
  BY <1>1
<1> HIDE DEF u
<1>3. \A k \in DOMAIN u : NoRepeat(u[k].members)
  BY <1>1, ListFacts
<1>4. u \in Lists
  BY <1>2, <1>3 DEF Lists
<1> QED BY <1>4 DEF u

(* A zone is found by its id, when no other has it.                        *)
LEMMA FoundById ==
  ASSUME NEW zs \in Lists, Unique(zs), NEW k \in DOMAIN zs
  PROVE  /\ IndexOf(zs, zs[k].id) = k /\ Has(zs, zs[k].id) /\ IsFirst(zs, k)
         /\ Parent(zs, zs[k].id) = zs[k].parent
         /\ Members(zs, zs[k].id) = zs[k].members
<1> DEFINE i == zs[k].id
<1>1. Has(zs, i)
  BY GetFacts
<1>2. /\ IndexOf(zs, i) \in DOMAIN zs /\ zs[IndexOf(zs, i)].id = i
      /\ Parent(zs, i) = zs[IndexOf(zs, i)].parent
      /\ Members(zs, i) = zs[IndexOf(zs, i)].members
  BY <1>1, GetFacts
<1>3. IndexOf(zs, i) = k
  BY <1>2 DEF Unique
<1> QED BY <1>1, <1>2, <1>3 DEF IsFirst

(* A nested zone that hands the members it owns to the stack it is in:     *)
(* they name its parent, which lists them, and it lists none any more.     *)
HandedOn(zs, src, p) == {m \in Mem(zs, src) : Parent(zs, m) = src} \ {src, p}
StillListed(zs, src, p, i) == (IF i = src THEN {} ELSE Mem(zs, i)) \ HandedOn(zs, src, p)

LEMMA AdoptFacts ==
  ASSUME NEW zs \in Lists, NEW n \in DOMAIN zs, zs[n].parent \in Ids,
         NEW u, u = Adopt(zs, n), NEW src, src = zs[n].id, NEW p, p = zs[n].parent,
         NEW H, H = HandedOn(zs, src, p)
  PROVE  /\ Edits(zs, u)
         /\ Unique(zs) =>
              /\ \A i : Parent(u, i) = IF i \in H /\ Has(zs, i) THEN p ELSE Parent(zs, i)
              /\ \A i : Mem(u, i) = IF i = p /\ Has(zs, p)
                                    THEN StillListed(zs, src, p, i) \cup {src} \cup H
                                    ELSE StillListed(zs, src, p, i)
<1> DEFINE ms == zs[n].members
           I == {k \in DOMAIN ms : Parent(zs, ms[k]) = src}
           own == Picked(ms, I)
           moved == Without(Distinct(own), {src, p})
           M == ToSet(moved)
           base == [zs EXCEPT ![n].members = <<>>]
           named == SetParents(base, M, p)
           left == [k \in DOMAIN zs |-> [named[k] EXCEPT !.members = Without(@, M)]]
           list == AppendNew(Members(left, p), src)
           at == PlaceOf(list, src)
           new == Between(list, at, moved)
<1>1. u = SetMembers(left, p, new)
  BY DEF Adopt, PlaceOf, Between
<1>2. zs[n] \in Zone /\ src \in Ids /\ p \in Ids /\ ms \in Seq(Ids) /\ NoRepeat(ms)
  BY ListFacts
<1>3. /\ base \in Lists /\ DOMAIN base = DOMAIN zs /\ SameIds(zs, base)
      /\ \A i : Has(base, i) <=> Has(zs, i)
      /\ \A i : Parent(base, i) = Parent(zs, i)
      /\ Unique(zs) => \A i : Mem(base, i) = IF i = src THEN {} ELSE Mem(zs, i)
  <2> DEFINE none == <<>>
  <2>1. none \in Seq(Ids) /\ NoRepeat(none)
    BY DEF NoRepeat
  <2>2. base = [zs EXCEPT ![n] = [zs[n] EXCEPT !.members = none]]
    BY ListFacts
  <2> HIDE DEF none
  <2>3. [zs[n] EXCEPT !.members = none] \in Zone /\ [zs[n] EXCEPT !.members = none].members = none
    BY <1>2, <2>1 DEF Zone
  <2>4. base \in Lists
    <3> DEFINE z == [zs[n] EXCEPT !.members = none]
    <3>1. z \in Zone /\ NoRepeat(z.members) /\ base = [zs EXCEPT ![n] = z]
      BY <2>1, <2>2, <2>3
    <3> HIDE DEF z, base
    <3> QED BY <3>1, ZoneReplaced
  <2>5. \A k \in DOMAIN zs :  /\ base[k].id = zs[k].id /\ base[k].parent = zs[k].parent
                              /\ base[k].members = IF k = n THEN none ELSE zs[k].members
                              /\ base[k] \in Zone /\ NoRepeat(base[k].members)
    <3>1. \A k \in DOMAIN zs : base[k] = IF k = n THEN [zs[n] EXCEPT !.members = none] ELSE zs[k]
      BY <2>2
    <3>2. [zs[n] EXCEPT !.members = none].id = zs[n].id
          /\ [zs[n] EXCEPT !.members = none].parent = zs[n].parent
      BY <1>2 DEF Zone
    <3> HIDE DEF base
    <3> QED BY <2>1, <2>3, <3>1, <3>2, ListFacts
  <2>6. base = [k \in DOMAIN zs |-> base[k]] /\ DOMAIN base = DOMAIN zs
    OBVIOUS
  <2> HIDE DEF base
  <2>7. /\ SameIds(zs, base) /\ \A i : Has(base, i) <=> Has(zs, i)
        /\ \A i : IndexOf(base, i) = IndexOf(zs, i)
        /\ \A i : Has(zs, i) => /\ Parent(base, i) = base[IndexOf(zs, i)].parent
                                /\ Members(base, i) = base[IndexOf(zs, i)].members
    BY <2>5, <2>6, EditFacts
  <2>8. ASSUME NEW i PROVE Parent(base, i) = Parent(zs, i)
    <3>1. CASE Has(zs, i)
      BY <3>1, <2>5, <2>7, GetFacts
    <3>2. CASE ~Has(zs, i)
      BY <3>2, <2>4, <2>7, GetFacts
    <3> QED BY <3>1, <3>2
  <2>9. ASSUME Unique(zs), NEW i PROVE Mem(base, i) = IF i = src THEN {} ELSE Mem(zs, i)
    <3>0. IndexOf(zs, src) = n /\ Has(zs, src)
      BY <2>9, FoundById
    <3>1. CASE Has(zs, i) /\ i # src
      <4>1. IndexOf(zs, i) \in DOMAIN zs /\ zs[IndexOf(zs, i)].id = i
            /\ Members(zs, i) = zs[IndexOf(zs, i)].members
        BY <3>1, GetFacts
      <4>2. Members(base, i) = Members(zs, i)
        BY <3>1, <4>1, <2>5, <2>7
      <4> QED BY <3>1, <4>2 DEF Mem
    <3>2. CASE i = src
      <4>1. Members(base, i) = none
        BY <3>0, <3>2, <2>5, <2>7
      <4> QED BY <3>2, <4>1 DEF Mem, ToSet, none
    <3>3. CASE ~Has(zs, i)
      <4>1. Members(base, i) = <<>> /\ Members(zs, i) = <<>> /\ i # src
        BY <3>3, <3>0, <2>4, <2>7, GetFacts
      <4> QED BY <4>1 DEF Mem
    <3> QED BY <3>1, <3>2, <3>3
  <2> QED BY <2>4, <2>6, <2>7, <2>8, <2>9
<1>4. moved \in Seq(Ids) /\ NoRepeat(moved) /\ src \notin M /\ (Unique(zs) => M = H)
  <2>1. I \in SUBSET (1..Len(ms))
    BY <1>2
  <2> HIDE DEF I
  <2>2. own \in Seq(Ids) /\ ToSet(own) = {ms[k] : k \in I}
    BY <1>2, <2>1, PickedFacts
  <2> HIDE DEF own
  <2>3. Distinct(own) \in Seq(Ids) /\ NoRepeat(Distinct(own)) /\ ToSet(Distinct(own)) = ToSet(own)
    BY <2>2, DistinctFacts
  <2>4. \A s \in Seq(Ids) : \A X : /\ Without(s, X) \in Seq(Ids) /\ ToSet(Without(s, X)) = ToSet(s) \ X
                                   /\ NoRepeat(s) => NoRepeat(Without(s, X))
    BY WithoutFacts
  <2>5. /\ moved \in Seq(Ids) /\ NoRepeat(moved)
        /\ M = ToSet(Distinct(own)) \ {src, p}
    BY <2>3, <2>4
  <2>6. ASSUME Unique(zs) PROVE ToSet(own) = {m \in Mem(zs, src) : Parent(zs, m) = src}
    <3>1. Members(zs, src) = ms
      BY <2>6, FoundById
    <3>2. {ms[k] : k \in I} = {m \in ToSet(ms) : Parent(zs, m) = src}
      BY DEF I, ToSet
    <3> QED BY <2>2, <3>1, <3>2 DEF Mem
  <2>7. Unique(zs) => M = H
    <3> HIDE DEF own, moved
    <3> QED BY <2>3, <2>5, <2>6 DEF HandedOn
  <2> QED BY <2>5, <2>7
<1> HIDE DEF moved
<1>5. /\ Edits(base, named)
      /\ \A i : Members(named, i) = Members(base, i)
      /\ \A i : Parent(named, i) = IF i \in M /\ Has(base, i) THEN p ELSE Parent(base, i)
  <2> HIDE DEF base
  <2> QED BY <1>2, <1>3, SetParentsFacts
<1>6. named \in Lists /\ DOMAIN named = DOMAIN zs
  BY <1>3, <1>5 DEF Edits, SameIds
<1> HIDE DEF base, named
<1>7. ASSUME NEW k \in DOMAIN zs
      PROVE  /\ left[k] \in Zone /\ left[k].id = named[k].id /\ NoRepeat(left[k].members)
             /\ left[k].members = Without(named[k].members, M)
             /\ left[k].parent = named[k].parent
  <2>1. \A z \in Zone : \A l \in Seq(Ids) : /\ [z EXCEPT !.members = l] \in Zone
                        /\ [z EXCEPT !.members = l].id = z.id
                        /\ [z EXCEPT !.members = l].members = l
                        /\ [z EXCEPT !.members = l].parent = z.parent
    BY DEF Zone
  <2>2. named[k] \in Zone /\ named[k].members \in Seq(Ids) /\ NoRepeat(named[k].members)
    BY <1>6, ListFacts
  <2> DEFINE l == Without(named[k].members, M)
  <2>3. l \in Seq(Ids) /\ NoRepeat(l)
    <3> HIDE DEF M
    <3> QED BY <2>2, WithoutFacts
  <2>4. left[k] = [named[k] EXCEPT !.members = l]
    OBVIOUS
  <2> HIDE DEF l, left
  <2> QED BY <2>1, <2>2, <2>3, <2>4 DEF l
<1>8. /\ left \in Lists
      /\ \A i : Has(left, i) <=> Has(named, i)
      /\ SameIds(named, left)
      /\ \A i : Has(named, i) => /\ Members(left, i) = left[IndexOf(named, i)].members
                                /\ Parent(left, i) = left[IndexOf(named, i)].parent
  <2>1. left = [k \in DOMAIN named |-> left[k]] /\ DOMAIN left = DOMAIN named
    BY <1>6
  <2> HIDE DEF left
  <2> QED BY <1>6, <1>7, <2>1, EditFacts
<1>9. Members(left, p) \in Seq(Ids) /\ NoRepeat(Members(left, p)) /\ ToSet(Members(left, p)) \cap M = {}
  <2>1. Members(left, p) \in Seq(Ids) /\ NoRepeat(Members(left, p))
    <3> HIDE DEF left
    <3> QED BY <1>8, GetFacts
  <2>2. ASSUME Has(named, p) PROVE ToSet(Members(left, p)) \cap M = {}
    <3> DEFINE k == IndexOf(named, p)
    <3>1. k \in DOMAIN zs /\ named[k].members \in Seq(Ids)
      BY <1>6, <2>2, GetFacts, ListFacts
    <3>2. Members(left, p) = Without(named[k].members, M)
      BY <2>2, <3>1, <1>7, <1>8
    <3> HIDE DEF M, left, k
    <3>3. \A s \in Seq(Ids) : ToSet(Without(s, M)) = ToSet(s) \ M
      BY WithoutFacts
    <3> QED BY <3>1, <3>2, <3>3
  <2>3. ASSUME ~Has(named, p) PROVE ToSet(Members(left, p)) \cap M = {}
    <3> HIDE DEF left, M
    <3>1. left \in Lists /\ ~Has(left, p)
      BY <2>3, <1>8
    <3>2. Members(left, p) = <<>>
      BY <3>1, GetFacts
    <3> QED BY <3>2 DEF ToSet
  <2> QED BY <2>1, <2>2, <2>3
<1> HIDE DEF left, M
<1>10. \A i : Parent(left, i) = Parent(named, i) /\ Mem(left, i) = Mem(named, i) \ M
  <2> TAKE i
  <2>1. CASE Has(named, i)
    <3> DEFINE k == IndexOf(named, i)
    <3>1. /\ k \in DOMAIN zs /\ named[k].members \in Seq(Ids)
          /\ Members(named, i) = named[k].members /\ Parent(named, i) = named[k].parent
      BY <1>6, <2>1, GetFacts, ListFacts
    <3>2. Members(left, i) = Without(named[k].members, M) /\ Parent(left, i) = named[k].parent
      BY <2>1, <3>1, <1>7, <1>8
    <3> HIDE DEF k
    <3>3. \A s \in Seq(Ids) : ToSet(Without(s, M)) = ToSet(s) \ M
      BY WithoutFacts
    <3> QED BY <3>1, <3>2, <3>3 DEF Mem
  <2>2. CASE ~Has(named, i)
    <3>1. left \in Lists /\ named \in Lists /\ ~Has(left, i)
      BY <2>2, <1>6, <1>8
    <3>2. /\ Parent(left, i) = NoZone /\ Members(left, i) = <<>>
          /\ Parent(named, i) = NoZone /\ Members(named, i) = <<>>
      BY <2>2, <3>1, GetFacts
    <3> QED BY <3>2 DEF Mem, ToSet
  <2> QED BY <2>1, <2>2
<1>11. /\ list \in Seq(Ids) /\ NoRepeat(list) /\ ToSet(list) \cap M = {}
       /\ ToSet(list) = Mem(left, p) \cup {src}
  <2> DEFINE was == Members(left, p)
  <2> HIDE DEF was
  <2>1. was \in Seq(Ids) /\ NoRepeat(was) /\ ToSet(was) \cap M = {} /\ list = AppendNew(was, src)
        /\ ToSet(was) = Mem(left, p)
    BY <1>9 DEF was, Mem
  <2> HIDE DEF list
  <2>2. CASE src \in ToSet(was)
    <3>1. Contains(was, src)
      BY <2>2 DEF ToSet, Contains
    <3> QED BY <2>1, <2>2, <3>1 DEF AppendNew
  <2>3. CASE src \notin ToSet(was)
    <3> DEFINE one == <<src>>
    <3>1. list = was \o one /\ one \in Seq(Ids) /\ ToSet(one) = {src} /\ NoRepeat(one)
      <4>1. ~Contains(was, src)
        BY <2>3 DEF ToSet, Contains
      <4>2. list = Append(was, src)
        BY <2>1, <4>1 DEF AppendNew
      <4>3. Append(was, src) = was \o <<src>>
        BY <2>1, <1>2
      <4> QED BY <4>2, <4>3, <1>2 DEF ToSet, NoRepeat
    <3> HIDE DEF one
    <3>2. /\ list \in Seq(Ids) /\ ToSet(list) = ToSet(was) \cup ToSet(one)
          /\ NoRepeat(was) /\ NoRepeat(one) /\ ToSet(was) \cap ToSet(one) = {} => NoRepeat(list)
      BY <2>1, <3>1, ConcatFacts
    <3> QED BY <3>1, <3>2, <2>1, <2>3, <1>4
  <2> QED BY <2>2, <2>3
<1> HIDE DEF list
<1>12. at \in 0..Len(list)
  BY <1>11, PlaceInList
<1> HIDE DEF at
<1>13. ASSUME NEW v, v = Between(list, at, moved)
       PROVE  v \in Seq(Ids) /\ NoRepeat(v) /\ ToSet(v) = ToSet(list) \cup M
  <2>1. /\ v \in Seq(Ids) /\ ToSet(v) = ToSet(list) \cup ToSet(moved)
        /\ NoRepeat(list) /\ NoRepeat(moved) /\ ToSet(list) \cap ToSet(moved) = {} => NoRepeat(v)
    BY <1>4, <1>11, <1>12, <1>13, SplitFacts
  <2> QED BY <2>1, <1>4, <1>11 DEF M
<1>14. /\ Edits(left, u)
       /\ \A i : Parent(u, i) = Parent(left, i)
       /\ \A i : Members(u, i) = IF i = p /\ Has(left, p) THEN new ELSE Members(left, i)
  <2>1. new \in Seq(Ids) /\ NoRepeat(new)
    BY <1>13
  <2> HIDE DEF new
  <2> QED BY <1>1, <1>8, <2>1, SetMembersFacts
<1>15. Edits(zs, u)
  BY <1>3, <1>5, <1>6, <1>8, <1>14 DEF Edits, SameIds
<1>16. \A i : Has(left, i) <=> Has(zs, i)
  BY <1>3, <1>5, <1>8 DEF Edits
<1>17. ASSUME Unique(zs), NEW i
       PROVE  Parent(u, i) = IF i \in H /\ Has(zs, i) THEN p ELSE Parent(zs, i)
  BY <1>17, <1>3, <1>4, <1>5, <1>14, <1>10
<1>18. ASSUME Unique(zs), NEW i
       PROVE  Mem(u, i) = IF i = p /\ Has(zs, p)
                          THEN StillListed(zs, src, p, i) \cup {src} \cup H
                          ELSE StillListed(zs, src, p, i)
  <2>1. Mem(left, i) = StillListed(zs, src, p, i)
    <3>1. Mem(named, i) = Mem(base, i)
      BY <1>5 DEF Mem
    <3> QED BY <1>17, <1>18, <1>3, <1>4, <1>10, <3>1 DEF StillListed
  <2>2. ToSet(new) = ToSet(list) \cup H
    BY <1>4, <1>13, <1>18
  <2> HIDE DEF new
  <2>3. Mem(u, i) = IF i = p /\ Has(zs, p) THEN ToSet(new) ELSE Mem(left, i)
    BY <1>14, <1>16 DEF Mem
  <2> QED BY <2>1, <2>2, <2>3, <1>11
<1> QED BY <1>15, <1>17, <1>18

(* One pass of flatten_nested_stacks, whatever was read, leaves a list     *)
(* of zones.                                                               *)
LEMMA FlattenPassKeeps ==
  ASSUME NEW zs \in Lists
  PROVE  FlattenPass(zs) \in Lists
<1> DEFINE n == SelectInSeq(zs, IsNested)
           alone == [zs EXCEPT ![n].parent = NoZone]
<1>1. n = 0 \/ (n \in DOMAIN zs /\ IsNested(zs[n]))
  BY NestedPlace
<1>2. FlattenPass(zs) \in {zs, alone, Adopt(zs, n)}
      /\ (n = 0 => FlattenPass(zs) = zs)
  BY DEF FlattenPass
<1> HIDE DEF n
<1>3. CASE n = 0
  BY <1>2, <1>3
<1>4. CASE n # 0
  <2>1. n \in DOMAIN zs /\ zs[n].parent # NoZone /\ zs[n] \in Zone
        /\ zs[n].parent \in Ids \cup {NoZone} /\ NoRepeat(zs[n].members)
    BY <1>1, <1>4, ListFacts DEF IsNested
  <2>2. Adopt(zs, n) \in Lists
    BY <2>1, AdoptFacts DEF Edits
  <2>3. alone \in Lists
    <3> DEFINE z == [zs[n] EXCEPT !.parent = NoZone]
    <3>1. z \in Zone /\ z.members = zs[n].members /\ alone = [zs EXCEPT ![n] = z]
      BY <2>1 DEF Zone
    <3> HIDE DEF z, alone
    <3> QED BY <2>1, <3>1, ZoneReplaced
  <2> QED BY <1>2, <2>2, <2>3
<1> QED BY <1>3, <1>4

(* In a flat list no zone is a member and an anchor at once.               *)
LEMMA NoneNested ==
  ASSUME NEW zs \in FlatLists, NEW k \in DOMAIN zs
  PROVE  ~IsNested(zs[k])
<1>1. zs \in Lists /\ Unique(zs) /\ Agree(zs)
  BY DEF FlatLists
<1> DEFINE i == zs[k].id
<1>2. i \in Ids /\ Parent(zs, i) = zs[k].parent /\ Members(zs, i) = zs[k].members
      /\ zs[k].members \in Seq(Ids)
  BY <1>1, FoundById, ListFacts
<1>3. ASSUME zs[k].members # <<>> PROVE zs[k].parent = NoZone
  <2>1. Mem(zs, i) # {}
    BY <1>2, <1>3, NothingListed DEF Mem
  <2>2. PICK m \in Mem(zs, i) : m \in Ids
    BY <1>1, <2>1, MemFacts
  <2>3. Parent(zs, m) = i
    BY <1>1, <1>2, <2>2 DEF Agree
  <2> QED BY <1>1, <1>2, <2>2, <2>3 DEF Agree
<1> QED BY <1>3 DEF IsNested

(* The passes of flatten_nested_stacks, one per zone.                      *)
LEMMA PassesExist ==
  ASSUME NEW zs \in Lists, NEW n, n = Len(zs)
  PROVE  \E pass \in [0..n -> Lists] :
            /\ pass[0] = zs /\ \A k \in 1..n : pass[k] = FlattenPass(pass[k - 1])
            /\ Flattened(zs) = IF \E z \in ToSet(zs) : IsNested(z) THEN pass[n] ELSE zs
<1> DEFINE Is(f) == f = [k \in 0..n |-> IF k = 0 THEN zs ELSE FlattenPass(f[k - 1])]
           pass == CHOOSE f : Is(f)
           g == [k \in 1..n |-> [x \in Lists |-> FlattenPass(x)]]
<1>1. Flattened(zs) = IF \E z \in ToSet(zs) : IsNested(z) THEN pass[n] ELSE zs
  BY DEF Flattened
<1>2. n \in Nat
  BY ListFacts
<1>3. g \in [1..n -> [Lists -> Lists]]
  BY FlattenPassKeeps
<1>4. PICK f \in [0..n -> Lists] : StepsOf(f, n, zs, g)
  <2> HIDE DEF g
  <2> QED BY <1>2, <1>3, StepsExist
<1>5. Is(f)
  <2>1. \A k \in 0..n : k # 0 => k \in 1..n /\ k - 1 \in 0..n
    BY <1>2
  <2>2. \A k \in 0..n : f[k] = IF k = 0 THEN zs ELSE FlattenPass(f[k - 1])
    BY <1>4, <2>1 DEF StepsOf
  <2> QED BY <2>2
<1>6. Is(pass)
  <2> HIDE DEF Is
  <2> QED BY <1>5
<1> HIDE DEF pass
<1>7. /\ pass = [k \in 0..n |-> pass[k]]
      /\ \A k \in 0..n : pass[k] = IF k = 0 THEN zs ELSE FlattenPass(pass[k - 1])
  BY <1>6
<1>8. pass[0] = zs /\ \A k \in 1..n : pass[k] = FlattenPass(pass[k - 1])
  <2>1. 0 \in 0..n /\ \A k \in 1..n : k \in 0..n /\ k # 0
    BY <1>2
  <2> QED BY <1>7, <2>1
<1>9. \A k \in 0..n : pass[k] \in Lists
  <2>1. \A k \in 1..n : pass[k - 1] \in Lists => pass[k] \in Lists
    BY <1>8, FlattenPassKeeps
  <2> QED BY <1>2, <1>8, <2>1, StepsKeep
<1>10. pass \in [0..n -> Lists]
  BY <1>7, <1>9
<1> QED BY <1>1, <1>8, <1>10

(* flatten_nested_stacks leaves a list of zones, and does not touch a      *)
(* flat one: a restart shows what was saved.                               *)
LEMMA FlattenedKeeps ==
  /\ \A zs \in Lists : Flattened(zs) \in Lists
  /\ \A zs \in FlatLists : Flattened(zs) = zs
<1>1. ASSUME NEW zs \in Lists PROVE Flattened(zs) \in Lists
  <2>1. Len(zs) \in Nat
    BY ListFacts
  <2>2. PICK pass \in [0..Len(zs) -> Lists] :
           Flattened(zs) = IF \E z \in ToSet(zs) : IsNested(z) THEN pass[Len(zs)] ELSE zs
    BY PassesExist
  <2> QED BY <2>1, <2>2
<1>2. ASSUME NEW zs \in FlatLists PROVE Flattened(zs) = zs
  <2>1. \A z \in ToSet(zs) : ~IsNested(z)
    BY NoneNested DEF ToSet
  <2> QED BY <2>1 DEF Flattened
<1> QED BY <1>1, <1>2

-----------------------------------------------------------------------------
(* Lists of older builds, where a stack may sit inside another.            *)

(* Going up from i one comes to t, which has no parent: i is in a set of   *)
(* zones closed under parents, whose numbers fall on the way up to t.      *)
LeadsTo(zs, i, t) ==
  \E S \in SUBSET Ids, r \in [Ids -> Nat] :
     /\ i \in S /\ t \in S /\ Parent(zs, t) = NoZone
     /\ \A x \in S : x = t \/ (Parent(zs, x) \in S /\ r[Parent(zs, x)] < r[x])

Rooted(zs, i) == \E t \in Ids : LeadsTo(zs, i, t)

(* A finite set of numbers has a greatest.                                 *)
LEMMA GreatestExists ==
  ASSUME NEW n \in Nat, NEW S \in SUBSET (0..n), S # {}
  PROVE  \E m \in S : \A x \in S : x <= m
<1> DEFINE T == {k \in 0..n : n - k \in S}
<1>1. T \in SUBSET Nat /\ T # {}
  <2>1. PICK x \in S : TRUE
    OBVIOUS
  <2>2. x \in 0..n /\ n - x \in 0..n /\ n - (n - x) = x
    BY <2>1
  <2>3. n - x \in T
    BY <2>2
  <2>4. T \in SUBSET Nat
    OBVIOUS
  <2> QED BY <2>3, <2>4
<1> HIDE DEF T
<1>2. PICK k \in T : \A x \in T : k <= x
  BY <1>1, LeastExists
<1>3. k \in 0..n /\ n - k \in S
  BY DEF T
<1>4. ASSUME NEW x \in S PROVE x <= n - k
  <2>1. x \in 0..n /\ n - x \in 0..n /\ n - (n - x) = x
    OBVIOUS
  <2>2. n - x \in T
    BY <2>1 DEF T
  <2> QED BY <1>2, <1>3, <2>1, <2>2
<1> QED BY <1>3, <1>4

(* A walk up that may linger, and that ends where there is no parent.      *)
LEMMA ChainLeads ==
  ASSUME NEW zs, NEW n \in Nat, NEW up \in [0..n -> Ids], Parent(zs, up[n]) = NoZone,
         \A j \in 0..n : up[j] # up[n] => up[j + 1] \in {up[j], Parent(zs, up[j])}
  PROVE  LeadsTo(zs, up[0], up[n])
<1> DEFINE S == {up[j] : j \in 0..n}
           At(x) == {j \in 0..n : up[j] = x}
           IsLast(x, j) == j \in At(x) /\ \A k \in At(x) : k <= j
           last(x) == CHOOSE j : IsLast(x, j)
           r == [x \in Ids |-> IF x \in S THEN n - last(x) ELSE 0]
<1>1. ASSUME NEW x \in S PROVE IsLast(x, last(x))
  <2>1. At(x) \in SUBSET (0..n) /\ At(x) # {}
    OBVIOUS
  <2> HIDE DEF At
  <2>2. \E j : IsLast(x, j)
    BY <2>1, GreatestExists
  <2> HIDE DEF IsLast
  <2> QED BY <2>2
<1> HIDE DEF last
<1>2. \A x \in S : last(x) \in 0..n /\ up[last(x)] = x /\ \A k \in 0..n : up[k] = x => k <= last(x)
  BY <1>1
<1>3. r \in [Ids -> Nat]
  BY <1>2
<1>4. S \in SUBSET Ids /\ up[0] \in S /\ up[n] \in S
  OBVIOUS
<1>5. ASSUME NEW x \in S, x # up[n]
      PROVE  Parent(zs, x) \in S /\ r[Parent(zs, x)] < r[x]
  <2> DEFINE j == last(x)
             y == Parent(zs, x)
  <2>1. j \in 0..n /\ up[j] = x /\ j # n
    BY <1>2, <1>5
  <2>2. j + 1 \in 0..n /\ ~(j + 1 <= j)
    BY <2>1
  <2>3. up[j + 1] # x
    BY <1>2, <2>2
  <2>4. up[j + 1] = y
    BY <1>5, <2>1, <2>3
  <2>5. y \in S
    BY <2>2, <2>4
  <2>6. j + 1 <= last(y) /\ last(y) \in 0..n
    BY <1>2, <2>2, <2>4, <2>5
  <2>7. r[x] = n - j /\ r[y] = n - last(y)
    BY <1>4, <2>5
  <2> HIDE DEF j, y, r
  <2> QED BY <2>1, <2>5, <2>6, <2>7 DEF y
<1> HIDE DEF S, r
<1> QED BY <1>3, <1>4, <1>5 DEF LeadsTo

(* The zones met on the way up.                                            *)
LEMMA AncestorsFacts ==
  ASSUME NEW zs \in Lists, NEW i \in Ids, NEW n, n = Len(zs)
  PROVE  \E up \in [0..n -> Ids \cup {NoZone}] :
            /\ up[0] = i /\ \A k \in 1..n : up[k] = Parent(zs, up[k - 1])
            /\ Ancestors(zs, i) = {up[k] : k \in 1..n}
<1> DEFINE S == Ids \cup {NoZone}
           Is(f) == f = [k \in 0..n |-> IF k = 0 THEN i ELSE Parent(zs, f[k - 1])]
           up == CHOOSE f : Is(f)
           g == [k \in 1..n |-> [x \in S |-> Parent(zs, x)]]
<1>1. n \in Nat /\ i \in S
  BY ListFacts
<1>2. g \in [1..n -> [S -> S]]
  BY GetFacts
<1>3. PICK f \in [0..n -> S] : StepsOf(f, n, i, g)
  <2> HIDE DEF g, S
  <2> QED BY <1>1, <1>2, StepsExist
<1>4. Is(f)
  <2>1. \A k \in 0..n : k # 0 => k \in 1..n /\ k - 1 \in 0..n
    BY <1>1
  <2>2. \A k \in 0..n : f[k] = IF k = 0 THEN i ELSE Parent(zs, f[k - 1])
    BY <1>3, <2>1 DEF StepsOf
  <2> QED BY <2>2
<1>5. Is(up)
  <2> HIDE DEF Is
  <2> QED BY <1>4
<1>6. Ancestors(zs, i) = {up[k] : k \in 1..n}
  BY DEF Ancestors
<1> HIDE DEF up
<1>7. \A k \in 0..n : up[k] = IF k = 0 THEN i ELSE Parent(zs, up[k - 1])
  BY <1>5
<1>8. up \in [0..n -> S]
  <2>1. up = [k \in 0..n |-> up[k]]
    BY <1>5
  <2>2. \A k \in 0..n : up[k] \in S
    BY <1>1, <1>7, GetFacts
  <2> QED BY <2>1, <2>2
<1>9. up[0] = i /\ \A k \in 1..n : up[k] = Parent(zs, up[k - 1])
  BY <1>1, <1>7
<1> QED BY <1>6, <1>8, <1>9

(* A zone that leads to a root is not met again on the way up.             *)
LEMMA RootedIsNoAncestor ==
  ASSUME NEW zs \in Lists, NEW i \in Ids, Rooted(zs, i), NEW p, p = Parent(zs, i), p # NoZone
  PROVE  i \notin {p} \cup Ancestors(zs, p)
<1>1. PICK t \in Ids, S \in SUBSET Ids, r \in [Ids -> Nat] :
         /\ i \in S /\ t \in S /\ Parent(zs, t) = NoZone
         /\ \A x \in S : x = t \/ (Parent(zs, x) \in S /\ r[Parent(zs, x)] < r[x])
  BY DEF Rooted, LeadsTo
<1>2. p \in S /\ p \in Ids /\ r[p] < r[i] /\ r[p] \in Nat /\ r[i] \in Nat
  BY <1>1
<1> DEFINE U == {NoZone} \cup {x \in S : r[x] <= r[p]}
           n == Len(zs)
<1>3. n \in Nat /\ NoZone \notin Ids
  BY ListFacts
<1>4. PICK up \in [0..n -> Ids \cup {NoZone}] :
            /\ up[0] = p /\ \A k \in 1..n : up[k] = Parent(zs, up[k - 1])
            /\ Ancestors(zs, p) = {up[k] : k \in 1..n}
  BY <1>2, AncestorsFacts
<1>5. Parent(zs, NoZone) = NoZone
  BY <1>3, GetFacts
<1>6. \A x \in U : Parent(zs, x) \in U
  <2> TAKE x \in U
  <2>1. CASE x = NoZone \/ x = t
    BY <2>1, <1>1, <1>5
  <2>2. CASE x # NoZone /\ x # t
    <3>1. x \in S /\ r[x] <= r[p] /\ r[x] \in Nat
      BY <2>2
    <3>2. Parent(zs, x) \in S /\ r[Parent(zs, x)] < r[x] /\ r[Parent(zs, x)] \in Nat
      BY <1>1, <2>2, <3>1
    <3> QED BY <1>2, <3>1, <3>2
  <2> QED BY <2>1, <2>2
<1>7. up[0] \in U
  BY <1>2, <1>4
<1>8. i \notin U
  BY <1>2, <1>3
<1> HIDE DEF U, n
<1>9. \A k \in 0..n : up[k] \in U
  <2>1. \A k \in 1..n : up[k - 1] \in U => up[k] \in U
    BY <1>4, <1>6
  <2> QED BY <1>3, <1>7, <2>1, StepsKeep
<1>10. i \notin Ancestors(zs, p)
  <2>1. \A k \in 1..n : k \in 0..n
    BY <1>3
  <2> QED BY <1>4, <1>8, <1>9, <2>1
<1> QED BY <1>2, <1>10

(* A zone that is met again above its parent is on a cycle; where it is    *)
(* cut out, the walk from the parent ends.                                 *)
LEMMA CutCycleLeads ==
  ASSUME NEW zs \in Lists, NEW src \in Ids, NEW p \in Ids, NEW u,
         p # src, src \in Ancestors(zs, p),
         \A i : Parent(u, i) = IF i = src THEN NoZone ELSE Parent(zs, i)
  PROVE  Rooted(u, p) /\ Parent(zs, p) # NoZone
<1> DEFINE n == Len(zs)
<1>1. n \in Nat /\ NoZone \notin Ids /\ n = Len(zs)
  BY ListFacts
<1> HIDE DEF n
<1>2. PICK up \in [0..n -> Ids \cup {NoZone}] :
            /\ up[0] = p /\ \A k \in 1..n : up[k] = Parent(zs, up[k - 1])
            /\ Ancestors(zs, p) = {up[k] : k \in 1..n}
  BY <1>1, AncestorsFacts
<1>3. PICK k \in 1..n : up[k] = src
  BY <1>2
<1>4. k \in Nat /\ k \in 1..n /\ \A j \in 0..k : j \in 0..n /\ (j # k => j + 1 \in 1..n /\ j + 1 \in 0..k)
  BY <1>1
<1>5. \A j \in 0..k : up[j] \in Ids
  <2> DEFINE Bad == {j \in 0..k : up[j] = NoZone}
  <2> SUFFICES ASSUME Bad # {} PROVE FALSE
    BY <1>2, <1>4
  <2>1. Bad \in SUBSET (0..k)
    OBVIOUS
  <2> HIDE DEF Bad
  <2>2. PICK m \in Bad : \A x \in Bad : x <= m
    BY <1>4, <2>1, GreatestExists
  <2>3. m \in 0..k /\ up[m] = NoZone /\ m # k
    BY <1>1, <1>3, <2>2 DEF Bad
  <2>4. m + 1 \in 1..n /\ m + 1 \in 0..k /\ (m + 1) - 1 = m /\ ~(m + 1 <= m)
    BY <1>4, <2>3
  <2>5. up[m + 1] = Parent(zs, NoZone)
    BY <1>2, <2>3, <2>4
  <2>6. Parent(zs, NoZone) = NoZone
    BY <1>1, GetFacts
  <2>7. m + 1 \in Bad
    BY <2>4, <2>5, <2>6 DEF Bad
  <2> QED BY <2>2, <2>4, <2>7
<1> DEFINE ch == [j \in 0..k |-> up[j]]
<1>6. ch \in [0..k -> Ids]
  BY <1>5
<1>7. 0 \in 0..k /\ k \in 0..k
  BY <1>4
<1>8. ch[0] = p /\ ch[k] = src /\ Parent(u, ch[k]) = NoZone
  BY <1>2, <1>3, <1>7
<1>9. ASSUME NEW j \in 0..k, ch[j] # ch[k] PROVE ch[j + 1] \in {ch[j], Parent(u, ch[j])}
  <2>1. j # k /\ up[j] # src
    BY <1>7, <1>8, <1>9
  <2>2. j + 1 \in 1..n /\ j + 1 \in 0..k /\ (j + 1) - 1 = j
    BY <1>4, <2>1
  <2>3. up[j + 1] = Parent(zs, up[j])
    BY <1>2, <2>2
  <2> QED BY <2>1, <2>2, <2>3
<1> HIDE DEF ch
<1>10. LeadsTo(u, p, src)
  BY <1>4, <1>6, <1>8, <1>9, ChainLeads
<1>11. Parent(zs, p) # NoZone
  <2>1. 1 \in 1..n /\ 1 \in 0..k /\ 1 - 1 = 0
    BY <1>1, <1>4
  <2>2. up[1] = Parent(zs, up[0]) /\ up[1] \in Ids
    BY <1>2, <1>5, <2>1
  <2> QED BY <1>1, <1>2, <2>2
<1> QED BY <1>10, <1>11 DEF Rooted

(* What flattening needs of a list, and keeps: a zone is listed by its     *)
(* parent; an anchor that lists another's member is on its way up to a     *)
(* root, so its turn to hand its members on comes.                         *)
Mends(zs) ==
  \A i, m \in Ids :
     /\ Parent(zs, m) = i => m \in Mem(zs, i) /\ m # i
     /\ m \in Mem(zs, i) /\ Parent(zs, m) # i => Parent(zs, i) # NoZone /\ Rooted(zs, i)

Mendable == {zs \in Lists : Unique(zs) /\ Mends(zs)}

NestedPlaces(zs) == {k \in DOMAIN zs : IsNested(zs[k])}

(* A place is nested when its zone has a parent and members.               *)
LEMMA NestedFacts ==
  ASSUME NEW zs \in Lists, Unique(zs), NEW k \in DOMAIN zs
  PROVE  /\ zs[k].id \in Ids
         /\ k \in NestedPlaces(zs) <=> Parent(zs, zs[k].id) # NoZone /\ Mem(zs, zs[k].id) # {}
<1>1. zs[k].id \in Ids /\ zs[k].members \in Seq(Ids)
  BY ListFacts
<1>2. Parent(zs, zs[k].id) = zs[k].parent /\ Members(zs, zs[k].id) = zs[k].members
  BY FoundById
<1>3. zs[k].members = <<>> <=> Mem(zs, zs[k].id) = {}
  BY <1>1, <1>2, NothingListed DEF Mem
<1> QED BY <1>1, <1>2, <1>3 DEF NestedPlaces, IsNested

(* Without the parent of one zone.                                         *)
Promoted(zs, n) == [zs EXCEPT ![n].parent = NoZone]

LEMMA PromotedFacts ==
  ASSUME NEW zs \in Lists, Unique(zs), NEW n \in DOMAIN zs,
         NEW u, u = Promoted(zs, n)
  PROVE  /\ Edits(zs, u)
         /\ \A i : Parent(u, i) = IF i = zs[n].id THEN NoZone ELSE Parent(zs, i)
         /\ \A i : Mem(u, i) = Mem(zs, i)
<1> DEFINE z == [zs[n] EXCEPT !.parent = NoZone]
<1>1. zs[n] \in Zone /\ zs[n].id \in Ids
  BY ListFacts
<1>2. z \in Zone /\ z.id = zs[n].id /\ z.members = zs[n].members /\ z.parent = NoZone
  BY <1>1 DEF Zone
<1>3. u = [k \in DOMAIN zs |-> IF k = n THEN z ELSE zs[k]]
  BY ListFacts DEF Promoted
<1> HIDE DEF z
<1>4. /\ u = [k \in DOMAIN zs |-> u[k]] /\ DOMAIN u = DOMAIN zs
      /\ \A k \in DOMAIN zs : u[k] = IF k = n THEN z ELSE zs[k]
  BY <1>3
<1>5. \A k \in DOMAIN zs : /\ u[k] \in Zone
                           /\ u[k].id = zs[k].id
                           /\ NoRepeat(u[k].members)
                           /\ u[k].members = zs[k].members
                           /\ u[k].parent = IF k = n THEN NoZone ELSE zs[k].parent
  BY <1>2, <1>4, ListFacts
<1>6. /\ u \in Lists /\ SameIds(zs, u)
      /\ \A i : Has(u, i) <=> Has(zs, i)
      /\ \A i : Has(zs, i) => /\ Parent(u, i) = u[IndexOf(zs, i)].parent
                              /\ Members(u, i) = u[IndexOf(zs, i)].members
  BY <1>4, <1>5, EditFacts
<1>7. IndexOf(zs, zs[n].id) = n /\ Has(zs, zs[n].id)
  BY FoundById
<1>8. ASSUME NEW i
      PROVE  /\ Parent(u, i) = IF i = zs[n].id THEN NoZone ELSE Parent(zs, i)
             /\ Mem(u, i) = Mem(zs, i)
  <2>1. CASE Has(zs, i)
    <3>1. /\ IndexOf(zs, i) \in DOMAIN zs /\ zs[IndexOf(zs, i)].id = i
          /\ Members(zs, i) = zs[IndexOf(zs, i)].members /\ Parent(zs, i) = zs[IndexOf(zs, i)].parent
      BY <2>1, GetFacts
    <3>2. Parent(u, i) = IF IndexOf(zs, i) = n THEN NoZone ELSE Parent(zs, i)
      BY <2>1, <3>1, <1>5, <1>6
    <3>3. Members(u, i) = Members(zs, i)
      BY <2>1, <3>1, <1>5, <1>6
    <3>4. IndexOf(zs, i) = n <=> i = zs[n].id
      BY <3>1, <1>7
    <3> QED BY <3>2, <3>3, <3>4 DEF Mem
  <2>2. CASE ~Has(zs, i)
    <3>1. i # zs[n].id /\ ~Has(u, i)
      BY <2>2, <1>6, <1>7
    <3>2. /\ Parent(u, i) = NoZone /\ Members(u, i) = <<>>
          /\ Parent(zs, i) = NoZone /\ Members(zs, i) = <<>>
      BY <2>2, <3>1, <1>6, GetFacts
    <3> QED BY <3>1, <3>2 DEF Mem
  <2> QED BY <2>1, <2>2
<1> QED BY <1>6, <1>8 DEF Edits

(* What one pass has to do with the place n it takes.                      *)
PassMends(zs, u, n) ==
  /\ u \in Mendable /\ SameIds(zs, u)
  /\ \A i, t \in Ids : LeadsTo(zs, i, t) => LeadsTo(u, i, t)
  /\ NestedPlaces(u) \subseteq NestedPlaces(zs) \ {n}

(* The zone at n is cut out of a cycle.                                    *)
LEMMA PromoteMends ==
  ASSUME NEW zs \in Mendable, NEW n \in DOMAIN zs, NEW src, src = zs[n].id,
         NEW p, p = zs[n].parent, p # NoZone, src \in Ancestors(zs, p),
         NEW u, u = Promoted(zs, n)
  PROVE  PassMends(zs, u, n)
<1>1. zs \in Lists /\ Unique(zs) /\ Mends(zs)
  BY DEF Mendable
<1>2. src \in Ids /\ p \in Ids /\ Parent(zs, src) = p /\ NoZone \notin Ids
  BY <1>1, FoundById, ListFacts
<1>3. /\ Edits(zs, u)
      /\ \A i : Parent(u, i) = IF i = src THEN NoZone ELSE Parent(zs, i)
      /\ \A i : Mem(u, i) = Mem(zs, i)
  BY <1>1, PromotedFacts
<1>4. /\ \A i, m \in Ids : Parent(zs, m) = i => m \in Mem(zs, i) /\ m # i
      /\ \A i, m \in Ids : m \in Mem(zs, i) /\ Parent(zs, m) # i => Parent(zs, i) # NoZone /\ Rooted(zs, i)
  BY <1>1 DEF Mends
<1>5. ~Rooted(zs, src)
  BY <1>1, <1>2, RootedIsNoAncestor
<1>6. ASSUME NEW i \in Ids, NEW t \in Ids, LeadsTo(zs, i, t) PROVE LeadsTo(u, i, t)
  <2>1. PICK S \in SUBSET Ids, r \in [Ids -> Nat] :
           /\ i \in S /\ t \in S /\ Parent(zs, t) = NoZone
           /\ \A x \in S : x = t \/ (Parent(zs, x) \in S /\ r[Parent(zs, x)] < r[x])
    BY <1>6 DEF LeadsTo
  <2>2. src \notin S
    <3>1. ASSUME src \in S PROVE LeadsTo(zs, src, t)
      BY <2>1, <3>1 DEF LeadsTo
    <3> QED BY <1>5, <3>1 DEF Rooted
  <2>3. \A x \in S : Parent(u, x) = Parent(zs, x)
    BY <1>3, <2>2
  <2> QED BY <2>1, <2>3 DEF LeadsTo
<1>7. \A i \in Ids : Rooted(zs, i) => Rooted(u, i)
  BY <1>6 DEF Rooted
<1>8. Rooted(u, p) /\ Parent(zs, p) # NoZone /\ p # src
  <2>1. p # src
    BY <1>2, <1>4
  <2> QED BY <1>1, <1>2, <1>3, <2>1, CutCycleLeads
<1>9. ASSUME NEW i \in Ids, NEW m \in Ids, Parent(u, m) = i PROVE m \in Mem(u, i) /\ m # i
  BY <1>2, <1>3, <1>4, <1>9
<1>10. ASSUME NEW i \in Ids, NEW m \in Ids, m \in Mem(u, i), Parent(u, m) # i
       PROVE  Parent(u, i) # NoZone /\ Rooted(u, i)
  <2>1. CASE Parent(zs, m) # i
    <3>1. Parent(zs, i) # NoZone /\ Rooted(zs, i)
      BY <1>3, <1>4, <1>10, <2>1
    <3> QED BY <1>3, <1>5, <1>7, <3>1
  <2>2. CASE Parent(zs, m) = i
    <3>1. m = src /\ i = p
      BY <1>2, <1>3, <1>10, <2>2
    <3> QED BY <1>3, <1>8, <3>1
  <2> QED BY <2>1, <2>2
<1>11. u \in Lists /\ SameIds(zs, u) /\ Unique(u)
  BY <1>1, <1>3, EditedIsUnique DEF Edits
<1>12. u \in Mendable
  BY <1>9, <1>10, <1>11 DEF Mendable, Mends
<1>13. ASSUME NEW k \in NestedPlaces(u) PROVE k \in NestedPlaces(zs) /\ k # n
  <2>1. k \in DOMAIN zs /\ k \in DOMAIN u /\ u[k].id = zs[k].id
    BY <1>11 DEF NestedPlaces, SameIds
  <2>2. Parent(u, zs[k].id) # NoZone /\ Mem(u, zs[k].id) # {}
    BY <1>11, <1>13, <2>1, NestedFacts
  <2>3. zs[k].id # src /\ Parent(zs, zs[k].id) # NoZone /\ Mem(zs, zs[k].id) # {}
    BY <1>3, <2>2
  <2> QED BY <1>1, <2>1, <2>3, NestedFacts
<1> QED BY <1>6, <1>11, <1>12, <1>13 DEF PassMends

(* The zone at n hands the members it owns to its parent's stack.          *)
LEMMA AdoptMends ==
  ASSUME NEW zs \in Mendable, NEW n \in DOMAIN zs, NEW src, src = zs[n].id,
         NEW p, p = zs[n].parent, p # NoZone, src \notin {p} \cup Ancestors(zs, p),
         NEW u, u = Adopt(zs, n)
  PROVE  PassMends(zs, u, n)
<1> DEFINE H == HandedOn(zs, src, p)
<1>1. zs \in Lists /\ Unique(zs) /\ Mends(zs)
  BY DEF Mendable
<1>2. src \in Ids /\ p \in Ids /\ Parent(zs, src) = p /\ NoZone \notin Ids
  BY <1>1, FoundById, ListFacts
<1>3. /\ \A i, m \in Ids : Parent(zs, m) = i => m \in Mem(zs, i) /\ m # i
      /\ \A i, m \in Ids : m \in Mem(zs, i) /\ Parent(zs, m) # i => Parent(zs, i) # NoZone /\ Rooted(zs, i)
  BY <1>1 DEF Mends
<1>4. src \in Mem(zs, p) /\ Has(zs, p) /\ p # src
  BY <1>1, <1>2, <1>3, MemFacts
<1>5. H \in SUBSET Ids /\ src \notin H /\ p \notin H /\ \A m \in H : Parent(zs, m) = src /\ Has(zs, m)
  BY <1>1, <1>2, MemFacts DEF HandedOn
<1>6. Parent(zs, p) # src
  <2> DEFINE len == Len(zs)
  <2>1. len \in Nat /\ len = Len(zs) /\ n \in 1..len
    BY <1>1, ListFacts
  <2> HIDE DEF len
  <2>2. PICK up \in [0..len -> Ids \cup {NoZone}] :
            /\ up[0] = p /\ \A k \in 1..len : up[k] = Parent(zs, up[k - 1])
            /\ Ancestors(zs, p) = {up[k] : k \in 1..len}
    BY <1>1, <1>2, <2>1, AncestorsFacts
  <2>3. 1 \in 1..len /\ 1 - 1 = 0
    BY <2>1
  <2>4. Parent(zs, p) \in Ancestors(zs, p)
    BY <2>2, <2>3
  <2> QED BY <2>4
<1>7. /\ Edits(zs, u)
      /\ \A i : Parent(u, i) = IF i \in H THEN p ELSE Parent(zs, i)
      /\ \A i : Mem(u, i) = IF i = p THEN (Mem(zs, p) \ H) \cup {src} \cup H
                            ELSE IF i = src THEN {} ELSE Mem(zs, i) \ H
  <2>1. /\ Edits(zs, u)
        /\ \A i : Parent(u, i) = IF i \in H /\ Has(zs, i) THEN p ELSE Parent(zs, i)
        /\ \A i : Mem(u, i) = IF i = p /\ Has(zs, p)
                              THEN StillListed(zs, src, p, i) \cup {src} \cup H
                              ELSE StillListed(zs, src, p, i)
    BY <1>1, <1>2, AdoptFacts
  <2>2. \A i : StillListed(zs, src, p, i) = IF i = src THEN {} ELSE Mem(zs, i) \ H
    BY DEF StillListed
  <2> HIDE DEF H
  <2> QED BY <1>4, <1>5, <2>1, <2>2
<1> HIDE DEF H
<1>8. ASSUME NEW i \in Ids, NEW t \in Ids, LeadsTo(zs, i, t) PROVE LeadsTo(u, i, t)
  <2>1. PICK S \in SUBSET Ids, r \in [Ids -> Nat] :
           /\ i \in S /\ t \in S /\ Parent(zs, t) = NoZone
           /\ \A x \in S : x = t \/ (Parent(zs, x) \in S /\ r[Parent(zs, x)] < r[x])
    BY <1>8 DEF LeadsTo
  <2>2. Parent(u, t) = NoZone
    BY <1>2, <1>5, <1>7, <2>1
  <2>3. ASSUME NEW x \in S, x # t PROVE Parent(u, x) \in S /\ r[Parent(u, x)] < r[x]
    <3>1. Parent(zs, x) \in S /\ r[Parent(zs, x)] < r[x]
      BY <2>1, <2>3
    <3>2. CASE x \in H
      <4>1. src \in S /\ r[src] < r[x] /\ src # t
        BY <1>2, <1>5, <2>1, <3>1, <3>2
      <4>2. p \in S /\ r[p] < r[src]
        BY <1>2, <2>1, <4>1
      <4>3. r[p] < r[x]
        <5>1. r[p] \in Nat /\ r[src] \in Nat /\ r[x] \in Nat
          BY <2>1, <4>1, <4>2
        <5> QED BY <4>1, <4>2, <5>1
      <4> QED BY <1>7, <3>2, <4>2, <4>3
    <3>3. CASE x \notin H
      BY <1>7, <3>1, <3>3
    <3> QED BY <3>2, <3>3
  <2> QED BY <2>1, <2>2, <2>3 DEF LeadsTo
<1>9. \A i \in Ids : Rooted(zs, i) => Rooted(u, i)
  BY <1>8 DEF Rooted
<1>10. \A i \in Ids : Parent(zs, i) # NoZone => Parent(u, i) # NoZone
  BY <1>2, <1>7
<1>11. ASSUME NEW i \in Ids, NEW m \in Ids, Parent(u, m) = i PROVE m \in Mem(u, i) /\ m # i
  <2>1. CASE m \in H
    BY <1>5, <1>7, <1>11, <2>1
  <2>2. CASE m \notin H
    <3>1. Parent(zs, m) = i /\ m \in Mem(zs, i) /\ m # i
      BY <1>3, <1>7, <1>11, <2>2
    <3>2. i # src
      <4>1. ASSUME i = src PROVE m \in H
        BY <1>2, <1>4, <1>6, <3>1, <4>1 DEF H, HandedOn
      <4> QED BY <2>2, <4>1
    <3> QED BY <1>7, <2>2, <3>1, <3>2
  <2> QED BY <2>1, <2>2
<1>12. ASSUME NEW i \in Ids, NEW m \in Ids, m \in Mem(u, i), Parent(u, m) # i
       PROVE  Parent(u, i) # NoZone /\ Rooted(u, i)
  <2>1. m \notin H /\ i # src /\ m \in Mem(zs, i) /\ Parent(zs, m) # i
    BY <1>2, <1>4, <1>5, <1>7, <1>12
  <2>2. Parent(zs, i) # NoZone /\ Rooted(zs, i)
    BY <1>3, <2>1
  <2> QED BY <1>9, <1>10, <2>2
<1>13. u \in Lists /\ SameIds(zs, u) /\ Unique(u)
  BY <1>1, <1>7, EditedIsUnique DEF Edits
<1>14. u \in Mendable
  BY <1>11, <1>12, <1>13 DEF Mendable, Mends
<1>15. ASSUME NEW k \in NestedPlaces(u) PROVE k \in NestedPlaces(zs) /\ k # n
  <2> DEFINE j == zs[k].id
  <2>1. k \in DOMAIN zs /\ k \in DOMAIN u /\ u[k].id = j
    BY <1>13 DEF NestedPlaces, SameIds
  <2>2. Parent(u, j) # NoZone /\ Mem(u, j) # {}
    BY <1>13, <1>15, <2>1, NestedFacts
  <2>3. j # src /\ Mem(zs, j) # {}
    BY <1>4, <1>7, <2>2
  <2>4. Parent(zs, j) # NoZone
    BY <1>2, <1>5, <1>7, <2>2
  <2> QED BY <1>1, <2>1, <2>3, <2>4, NestedFacts
<1> QED BY <1>8, <1>13, <1>14, <1>15 DEF PassMends

(* One pass of flatten_nested_stacks mends a nested place, or finds none.  *)
LEMMA PassFacts ==
  ASSUME NEW zs \in Mendable, NEW u, u = FlattenPass(zs)
  PROVE  \/ NestedPlaces(zs) = {} /\ u = zs
         \/ \E n \in NestedPlaces(zs) : PassMends(zs, u, n)
<1> DEFINE n == SelectInSeq(zs, IsNested)
           src == zs[n].id
           p == zs[n].parent
<1>1. zs \in Lists /\ Unique(zs) /\ Mends(zs)
  BY DEF Mendable
<1>2. \/ n = 0 /\ \A k \in DOMAIN zs : ~IsNested(zs[k])
      \/ n \in DOMAIN zs /\ IsNested(zs[n])
  BY <1>1, NestedPlace
<1>3. u = IF n = 0 THEN zs
          ELSE IF ~Has(zs, p) \/ src \in {p} \cup Ancestors(zs, p) THEN Promoted(zs, n)
          ELSE Adopt(zs, n)
  BY DEF FlattenPass, Promoted
<1>4. 0 \notin DOMAIN zs
  BY <1>1, IndexFacts
<1> HIDE DEF n
<1>5. CASE n = 0
  BY <1>2, <1>3, <1>4, <1>5 DEF NestedPlaces
<1>6. CASE n # 0
  <2>1. n \in DOMAIN zs /\ IsNested(zs[n]) /\ n \in NestedPlaces(zs) /\ p # NoZone
    BY <1>2, <1>6 DEF NestedPlaces, IsNested
  <2>2. src \in Ids /\ p \in Ids /\ Parent(zs, src) = p
    BY <1>1, <2>1, FoundById, ListFacts
  <2>3. src \in Mem(zs, p) /\ src # p
    BY <1>1, <2>2 DEF Mends
  <2>4. Has(zs, p)
    BY <1>1, <2>3, MemFacts
  <2> HIDE DEF src, p
  <2>5. CASE src \in Ancestors(zs, p)
    <3>1. u = Promoted(zs, n)
      BY <1>3, <1>6, <2>5
    <3> QED BY <2>1, <2>5, <3>1, PromoteMends DEF src, p
  <2>6. CASE src \notin Ancestors(zs, p)
    <3>1. u = Adopt(zs, n) /\ src \notin {p} \cup Ancestors(zs, p)
      BY <1>3, <1>6, <2>3, <2>4, <2>6
    <3> QED BY <2>1, <3>1, AdoptMends DEF src, p
  <2> QED BY <2>5, <2>6
<1> QED BY <1>5, <1>6

(* What the passes keep of the list as it was read.                        *)
Mended(zs, u) ==
  /\ u \in Mendable /\ SameIds(zs, u)
  /\ \A i, t \in Ids : LeadsTo(zs, i, t) => LeadsTo(u, i, t)

(* There are no more nested places than zones.                             *)
LEMMA NestedAreFinite ==
  ASSUME NEW zs \in Lists
  PROVE  /\ IsFiniteSet(NestedPlaces(zs)) /\ Cardinality(NestedPlaces(zs)) \in Nat
         /\ Cardinality(NestedPlaces(zs)) <= Len(zs)
<1> DEFINE n == Len(zs)
           N == NestedPlaces(zs)
<1>1. n \in Nat /\ N \in SUBSET (1..n)
  BY ListFacts DEF NestedPlaces
<1> HIDE DEF n, N
<1>2. IsFiniteSet(1..n) /\ Cardinality(1..n) = IF 1 > n THEN 0 ELSE n - 1 + 1
  BY <1>1, FS_Interval
<1>3. Cardinality(1..n) = n
  BY <1>1, <1>2
<1>4. IsFiniteSet(N) /\ Cardinality(N) <= Cardinality(1..n)
  BY <1>1, <1>2, FS_Subset
<1>5. Cardinality(N) \in Nat
  BY <1>4, FS_CardinalityType
<1> QED BY <1>3, <1>4, <1>5 DEF n, N

(* A pass leaves one nested place less, until there is none.               *)
LEMMA PassCounts ==
  ASSUME NEW zs, NEW x, Mended(zs, x), NEW b \in Nat, NEW u, u = FlattenPass(x),
         Cardinality(NestedPlaces(x)) <= b
  PROVE  /\ Mended(zs, u)
         /\ Cardinality(NestedPlaces(u)) <= IF b = 0 THEN 0 ELSE b - 1
<1>1. x \in Mendable /\ SameIds(zs, x) /\ \A i, t \in Ids : LeadsTo(zs, i, t) => LeadsTo(x, i, t)
  BY DEF Mended
<1>2. x \in Lists
  BY <1>1 DEF Mendable
<1>3. IsFiniteSet(NestedPlaces(x)) /\ Cardinality(NestedPlaces(x)) \in Nat
  BY <1>2, NestedAreFinite
<1>4. CASE NestedPlaces(x) = {} /\ u = x
  <2>1. Cardinality(NestedPlaces(u)) = 0
    BY <1>4, FS_EmptySet
  <2> QED BY <1>4, <2>1
<1>5. ASSUME NEW n \in NestedPlaces(x), PassMends(x, u, n)
      PROVE  /\ Mended(zs, u)
             /\ Cardinality(NestedPlaces(u)) <= IF b = 0 THEN 0 ELSE b - 1
  <2>1. /\ u \in Mendable /\ SameIds(x, u)
        /\ \A i, t \in Ids : LeadsTo(x, i, t) => LeadsTo(u, i, t)
        /\ NestedPlaces(u) \subseteq NestedPlaces(x) \ {n}
    BY <1>5 DEF PassMends
  <2>2. SameIds(zs, u)
    BY <1>1, <2>1 DEF SameIds
  <2>3. Mended(zs, u)
    BY <1>1, <2>1, <2>2 DEF Mended
  <2> DEFINE N == NestedPlaces(x)
             R == NestedPlaces(x) \ {n}
  <2>4. IsFiniteSet(R) /\ Cardinality(R) = Cardinality(N) - 1
    BY <1>3, <1>5, FS_RemoveElement
  <2>5. Cardinality(NestedPlaces(u)) <= Cardinality(R)
    BY <2>1, <2>4, FS_Subset
  <2>6. Cardinality(N) # 0
    BY <1>3, <1>5, FS_EmptySet
  <2>7. Cardinality(NestedPlaces(u)) \in Nat
    BY <2>1, NestedAreFinite DEF Mendable
  <2> HIDE DEF N, R
  <2>8. Cardinality(N) \in Nat /\ Cardinality(N) <= b
    BY <1>3 DEF N
  <2>9. Cardinality(NestedPlaces(u)) <= IF b = 0 THEN 0 ELSE b - 1
    BY <2>4, <2>5, <2>6, <2>7, <2>8
  <2> QED BY <2>3, <2>9
<1>6. \/ NestedPlaces(x) = {} /\ u = x
      \/ \E n \in NestedPlaces(x) : PassMends(x, u, n)
  BY <1>1, PassFacts
<1> QED BY <1>4, <1>5, <1>6

(* As many passes as there are zones leave no nested place.                *)
LEMMA FlattenedMends ==
  ASSUME NEW zs \in Mendable, NEW u, u = Flattened(zs)
  PROVE  Mended(zs, u) /\ NestedPlaces(u) = {}
<1> DEFINE n == Len(zs)
<1>1. zs \in Lists /\ n \in Nat
  BY ListFacts DEF Mendable
<1>2. Mended(zs, zs)
  BY DEF Mended, SameIds
<1>3. CASE ~\E z \in ToSet(zs) : IsNested(z)
  <2>1. u = zs
    BY <1>1, <1>3, PassesExist
  <2>2. NestedPlaces(zs) = {}
    BY <1>3 DEF NestedPlaces, ToSet
  <2> QED BY <1>2, <2>1, <2>2
<1>4. CASE \E z \in ToSet(zs) : IsNested(z)
  <2>1. PICK pass \in [0..n -> Lists] :
           /\ pass[0] = zs /\ \A k \in 1..n : pass[k] = FlattenPass(pass[k - 1])
           /\ Flattened(zs) = IF \E z \in ToSet(zs) : IsNested(z) THEN pass[n] ELSE zs
    BY <1>1, PassesExist
  <2>2. u = pass[n]
    BY <1>4, <2>1
  <2>3. Cardinality(NestedPlaces(zs)) <= n
    BY <1>1, NestedAreFinite
  <2> HIDE DEF n
  <2> DEFINE Left(x, b) == Mended(zs, x) /\ Cardinality(NestedPlaces(x)) <= b
             Good == {k \in 0..n : Left(pass[k], n - k)}
             id == [k \in 0..n |-> k]
  <2>4. 0 \in Good
    <3>1. 0 \in 0..n /\ n - 0 = n
      BY <1>1
    <3> QED BY <1>2, <2>1, <2>3, <3>1
  <2>5. ASSUME NEW k \in 1..n, k - 1 \in Good PROVE k \in Good
    <3> DEFINE b == n - (k - 1)
    <3>1. k \in 0..n /\ b \in Nat /\ b # 0 /\ b - 1 = n - k
      BY <1>1
    <3>2. Mended(zs, pass[k - 1]) /\ Cardinality(NestedPlaces(pass[k - 1])) <= b
      BY <2>5
    <3> HIDE DEF b
    <3>3. pass[k] = FlattenPass(pass[k - 1])
      BY <2>1
    <3>4. Mended(zs, pass[k]) /\ Cardinality(NestedPlaces(pass[k])) <= IF b = 0 THEN 0 ELSE b - 1
      BY <3>1, <3>2, <3>3, PassCounts
    <3> QED BY <3>1, <3>4
  <2>6. \A k \in 0..n : id[k] \in Good
    <3> HIDE DEF Good
    <3>1. id[0] \in Good
      BY <1>1, <2>4
    <3>2. \A k \in 1..n : id[k - 1] = k - 1 /\ id[k] = k
      BY <1>1
    <3>3. \A k \in 1..n : id[k - 1] \in Good => id[k] \in Good
      BY <2>5, <3>2
    <3> HIDE DEF id
    <3> QED BY <1>1, <3>1, <3>3, StepsKeep
  <2>7. n \in Good
    <3>1. n \in 0..n
      BY <1>1
    <3> QED BY <2>6, <3>1
  <2>8. Mended(zs, u) /\ Cardinality(NestedPlaces(u)) <= 0
    BY <1>1, <2>2, <2>7
  <2>9. NestedPlaces(u) = {}
    <3>1. u \in Lists
      BY <2>8 DEF Mended, Mendable
    <3>2. IsFiniteSet(NestedPlaces(u)) /\ Cardinality(NestedPlaces(u)) \in Nat
      BY <3>1, NestedAreFinite
    <3> QED BY <2>8, <3>2, FS_EmptySet
  <2> QED BY <2>8, <2>9
<1> QED BY <1>3, <1>4

(* A mended list with no nested place is flat.                             *)
LEMMA UnnestedIsFlat ==
  ASSUME NEW zs \in Mendable, NestedPlaces(zs) = {}
  PROVE  zs \in FlatLists
<1>1. zs \in Lists /\ Unique(zs) /\ Mends(zs)
  BY DEF Mendable
<1>2. ASSUME NEW i, Mem(zs, i) # {} PROVE Parent(zs, i) = NoZone
  <2>1. Has(zs, i)
    BY <1>1, <1>2, MemFacts
  <2>2. IndexOf(zs, i) \in DOMAIN zs /\ zs[IndexOf(zs, i)].id = i
    BY <1>1, <2>1, GetFacts
  <2> QED BY <1>1, <1>2, <2>2, NestedFacts
<1>3. ASSUME NEW i \in Ids, NEW m \in Ids
      PROVE  /\ m \in Mem(zs, i) <=> Parent(zs, m) = i
             /\ Parent(zs, m) = i => Parent(zs, i) = NoZone
  <2>1. Parent(zs, m) = i => m \in Mem(zs, i)
    BY <1>1 DEF Mends
  <2>2. m \in Mem(zs, i) /\ Parent(zs, m) # i => Parent(zs, i) # NoZone
    BY <1>1 DEF Mends
  <2> QED BY <1>2, <2>1, <2>2
<1> QED BY <1>1, <1>3 DEF FlatLists, Agree

(* In a flat list the root a zone leads to is its anchor.                  *)
LEMMA RootIsAnchor ==
  ASSUME NEW zs \in FlatLists, NEW i \in Ids, NEW t \in Ids, LeadsTo(zs, i, t)
  PROVE  AnchorOrSelf(zs, i) = t
<1>1. PICK S \in SUBSET Ids, r \in [Ids -> Nat] :
         /\ i \in S /\ t \in S /\ Parent(zs, t) = NoZone
         /\ \A x \in S : x = t \/ (Parent(zs, x) \in S /\ r[Parent(zs, x)] < r[x])
  BY DEF LeadsTo
<1>2. NoZone \notin Ids
  BY ListFacts DEF FlatLists
<1>3. /\ AnchorOrSelf(zs, i) = IF Parent(zs, i) = NoZone THEN i ELSE Parent(zs, i)
      /\ Parent(zs, AnchorOrSelf(zs, i)) = NoZone
  BY AnchorFacts
<1> QED BY <1>1, <1>2, <1>3

(* Lists of older builds, as MCZoneStacks starts from: of a tree that is   *)
(* no cycle, every zone leads to the root.                                 *)
LEMMA TreesLead ==
  ASSUME NEW zs \in Lists, NEW i \in Ids, ~OnCycle(zs, i)
  PROVE  Root(zs, i) \in Ids /\ LeadsTo(zs, i, Root(zs, i))
<1> DEFINE n == Len(zs)
           Above(x) == IF Parent(zs, x) = NoZone THEN x ELSE Parent(zs, x)
           Is(f) == f = [k \in 0..n |->
                           IF k = 0 THEN i
                           ELSE IF Parent(zs, f[k - 1]) = NoZone THEN f[k - 1]
                           ELSE Parent(zs, f[k - 1])]
           up == CHOOSE f : Is(f)
           g == [k \in 1..n |-> [x \in Ids |-> Above(x)]]
<1>1. n \in Nat
  BY ListFacts
<1>2. \A x \in Ids : Above(x) \in Ids
  BY GetFacts
<1>3. g \in [1..n -> [Ids -> Ids]]
  <2> HIDE DEF Above
  <2> QED BY <1>2
<1>4. Root(zs, i) = up[n]
  BY DEF Root
<1> HIDE DEF n
<1>5. PICK f \in [0..n -> Ids] : StepsOf(f, n, i, g)
  <2> HIDE DEF g
  <2> QED BY <1>1, <1>3, StepsExist
<1>6. Is(f)
  <2>1. \A k \in 0..n : k # 0 => k \in 1..n /\ k - 1 \in 0..n
    BY <1>1
  <2>2. \A k \in 0..n : f[k] = IF k = 0 THEN i ELSE Above(f[k - 1])
    BY <1>5, <2>1 DEF StepsOf
  <2> QED BY <2>2
<1>7. Is(up)
  <2> HIDE DEF Is
  <2> QED BY <1>6
<1> HIDE DEF up
<1>8. \A k \in 0..n : up[k] = IF k = 0 THEN i ELSE Above(up[k - 1])
  BY <1>7
<1>9. \A k \in 0..n : up[k] \in Ids
  <2> HIDE DEF Above
  <2>1. up[0] \in Ids
    BY <1>1, <1>8
  <2>2. \A k \in 1..n : k \in 0..n /\ k # 0
    BY <1>1
  <2>3. \A k \in 1..n : up[k - 1] \in Ids => up[k] \in Ids
    BY <1>2, <1>8, <2>2
  <2> QED BY <1>1, <2>1, <2>3, StepsKeep
<1>10. up \in [0..n -> Ids]
  <2>1. up = [k \in 0..n |-> up[k]]
    BY <1>7
  <2> QED BY <1>9, <2>1
<1>11. ASSUME NEW j \in 0..n, up[j] # up[n] PROVE up[j + 1] \in {up[j], Parent(zs, up[j])}
  <2>1. j + 1 \in 0..n /\ j + 1 # 0 /\ (j + 1) - 1 = j
    BY <1>1, <1>11
  <2>2. up[j + 1] = Above(up[j])
    BY <1>8, <2>1
  <2> QED BY <2>2
<1>12. Parent(zs, up[n]) = NoZone
  BY <1>4 DEF OnCycle
<1>13. up[0] = i /\ up[n] \in Ids
  <2>1. 0 \in 0..n /\ n \in 0..n
    BY <1>1
  <2> QED BY <1>8, <1>9, <2>1
<1>14. LeadsTo(zs, up[0], up[n])
  BY <1>1, <1>10, <1>11, <1>12, ChainLeads
<1> QED BY <1>4, <1>13, <1>14

(* An order of a set lists every member once.                              *)
LEMMA OrderFacts ==
  ASSUME NEW S \in SUBSET Ids, NEW s \in OrdersOf(S)
  PROVE  s \in Seq(Ids) /\ ToSet(s) = S /\ NoRepeat(s)
<1> DEFINE c == Cardinality(S)
<1>1. IsFiniteSet(Ids) /\ MaxId \in Nat
  <2>1. MaxId \in Nat
    BY ScopesAssumption
  <2> QED BY <2>1, FS_Interval DEF Ids
<1>2. IsFiniteSet(S) /\ c \in Nat
  BY <1>1, FS_Subset, FS_CardinalityType
<1>3. s \in [1..c -> S] /\ ToSet(s) = S
  BY DEF OrdersOf
<1> HIDE DEF c
<1>4. s \in Seq(Ids) /\ DOMAIN s = 1..c
  BY <1>2, <1>3
<1>5. IsFiniteSet(1..c) /\ Cardinality(1..c) = c
  <2>1. IsFiniteSet(1..c) /\ Cardinality(1..c) = IF 1 > c THEN 0 ELSE c - 1 + 1
    BY <1>2, FS_Interval
  <2> QED BY <1>2, <2>1
<1>6. s \in Surjection(1..c, S)
  BY <1>3, <1>4 DEF Surjection, ToSet
<1>7. s \in Injection(1..c, S)
  BY <1>5, <1>6, FS_SurjSameCardinalityImpliesInj DEF c
<1>8. NoRepeat(s)
  BY <1>4, <1>7 DEF Injection, IsInjective, NoRepeat
<1> QED BY <1>3, <1>4, <1>8

(* The records of a list of an older build agree, whatever its depth.      *)
LEMMA LegacyListsMend ==
  ASSUME NEW max \in Ids, NEW zs \in LegacyLists(max)
  PROVE  zs \in Mendable
<1>1. PICK n \in 1..max : \E up \in Parents(n) : zs \in ListsOf(n, up)
  BY DEF LegacyLists
<1>2. PICK up \in Parents(n) : zs \in ListsOf(n, up)
  BY <1>1
<1>3. n \in Nat /\ 1..n \subseteq Ids /\ NoZone = 0 /\ NoZone \notin Ids
  <2>1. MaxId \in Nat /\ NoZone = 0
    BY NoZoneAssumption, ScopesAssumption
  <2> QED BY <2>1 DEF Ids
<1>4. /\ up \in [1..n -> 0..n] /\ \A i \in 1..n : up[i] # i
      /\ \A i \in 1..n : up[i] \in Ids \cup {NoZone}
  BY <1>3 DEF Parents
<1>5. PICK order : /\ \A i \in 1..n : order[i] \in OrdersOf(Children(up, i))
                   /\ zs = [k \in 1..n |-> [id |-> k, parent |-> up[k], members |-> order[k]]]
  BY <1>2 DEF ListsOf
<1>6. \A i \in 1..n : /\ Children(up, i) \in SUBSET Ids
                      /\ \A m : m \in Children(up, i) <=> m \in 1..n /\ up[m] = i
  BY <1>3, <1>4 DEF Children
<1>7. \A i \in 1..n : /\ order[i] \in Seq(Ids) /\ NoRepeat(order[i])
                      /\ ToSet(order[i]) = Children(up, i)
  BY <1>5, <1>6, OrderFacts
<1>8. DOMAIN zs = 1..n /\ \A k \in 1..n : /\ zs[k].id = k /\ zs[k].parent = up[k]
                                          /\ zs[k].members = order[k]
  BY <1>5
<1>9. zs \in Lists
  <2>1. \A k \in 1..n : [id |-> k, parent |-> up[k], members |-> order[k]] \in Zone
    BY <1>3, <1>4, <1>7 DEF Zone
  <2>2. zs \in Seq(Zone)
    BY <1>3, <1>5, <2>1
  <2> QED BY <1>7, <1>8, <2>2 DEF Lists
<1>10. Unique(zs)
  BY <1>8 DEF Unique
<1>11. ASSUME NEW i \in Ids
       PROVE  /\ i \in 1..n => Parent(zs, i) = up[i] /\ Mem(zs, i) = Children(up, i)
              /\ i \notin 1..n => Parent(zs, i) = NoZone /\ Mem(zs, i) = {}
  <2>1. CASE i \in 1..n
    <3>1. Parent(zs, i) = up[i] /\ Members(zs, i) = order[i]
      BY <1>8, <1>9, <1>10, <2>1, FoundById
    <3> QED BY <1>7, <2>1, <3>1 DEF Mem
  <2>2. CASE i \notin 1..n
    <3>1. ~Has(zs, i)
      BY <1>8, <1>9, <2>2, GetFacts
    <3>2. Parent(zs, i) = NoZone /\ Members(zs, i) = <<>>
      BY <1>9, <3>1, GetFacts
    <3> QED BY <2>2, <3>2 DEF Mem, ToSet
  <2> QED BY <2>1, <2>2
<1>12. ASSUME NEW i \in Ids, NEW m \in Ids
       PROVE  /\ Parent(zs, m) = i => m \in Mem(zs, i) /\ m # i
              /\ m \in Mem(zs, i) => Parent(zs, m) = i
  <2>1. ASSUME Parent(zs, m) = i PROVE m \in Mem(zs, i) /\ m # i
    <3>1. m \in 1..n /\ up[m] = i
      BY <1>3, <1>11, <2>1
    <3>2. i \in 1..n
      BY <1>3, <1>4, <3>1
    <3> QED BY <1>4, <1>6, <1>11, <3>1, <3>2
  <2>2. ASSUME m \in Mem(zs, i) PROVE Parent(zs, m) = i
    <3>1. i \in 1..n /\ m \in Children(up, i)
      BY <1>11, <2>2
    <3> QED BY <1>6, <1>11, <3>1
  <2> QED BY <2>1, <2>2
<1> QED BY <1>9, <1>10, <1>12 DEF Mendable, Mends

(* The list that is not there has nothing to mend.                         *)
LEMMA NoListMends == <<>> \in Mendable /\ <<>> \in FlatLists /\ IdsOf(<<>>) = {}
<1> DEFINE none == <<>>
<1>1. none \in Lists /\ DOMAIN none = {} /\ IdsOf(none) = {}
  BY DEF Lists, IdsOf
<1>2. \A i : Parent(none, i) = NoZone /\ Mem(none, i) = {}
  <2>1. \A i : IndexOf(none, i) = 0
    BY <1>1 DEF IndexOf
  <2> QED BY <2>1 DEF Parent, Mem, Members, ToSet
<1> HIDE DEF none
<1>3. NoZone \notin Ids
  BY <1>1, ListFacts
<1>4. none \in FlatLists /\ none \in Mendable
  BY <1>1, <1>2, <1>3 DEF FlatLists, Mendable, Unique, Agree, Mends
<1> QED BY <1>1, <1>4 DEF none

-----------------------------------------------------------------------------
(* zone_list_from_bento_zones: the parents stay, and each anchor lists the *)
(* zones that name it.                                                     *)
LEMMA RebuiltFacts ==
  ASSUME NEW zs \in Lists, NEW u, u = Rebuilt(zs)
  PROVE  /\ Edits(zs, u) /\ \A i : Parent(u, i) = Parent(zs, i)
         /\ \A i : Has(zs, i) => Mem(u, i) = {zs[j].id : j \in {j \in DOMAIN zs : zs[j].parent = i}}
<1> DEFINE ids == [j \in DOMAIN zs |-> zs[j].id]
           named(i) == {j \in DOMAIN zs : zs[j].parent = i}
           childrenOf(i) == Picked(ids, named(i))
           ms(k) == IF IsFirst(zs, k) THEN Distinct(childrenOf(zs[k].id)) ELSE <<>>
<1>1. u = [k \in DOMAIN zs |-> [zs[k] EXCEPT !.members = ms(k)]]
  BY DEF Rebuilt
<1>2. /\ DOMAIN zs = 1..Len(zs) /\ Len(zs) \in Nat
      /\ \A k \in DOMAIN zs : zs[k] \in Zone /\ zs[k].id \in Ids
  BY ListFacts
<1>3. ids \in Seq(Ids) /\ Len(ids) = Len(zs) /\ \A j \in DOMAIN zs : ids[j] = zs[j].id
  <2>1. ids \in [1..Len(zs) -> Ids]
    BY <1>2
  <2> QED BY <2>1, <1>2
<1>4. \A i : /\ childrenOf(i) \in Seq(Ids)
             /\ ToSet(childrenOf(i)) = {ids[j] : j \in named(i)}
  <2> TAKE i
  <2> DEFINE I == named(i)
  <2>1. I \in SUBSET (1..Len(ids))
    BY <1>2, <1>3
  <2> HIDE DEF ids, I
  <2>2. Picked(ids, I) \in Seq(Ids) /\ ToSet(Picked(ids, I)) = {ids[j] : j \in I}
    BY <1>3, <2>1, PickedFacts
  <2> QED BY <2>2 DEF I
<1> HIDE DEF childrenOf
<1>5. \A i : /\ Distinct(childrenOf(i)) \in Seq(Ids) /\ NoRepeat(Distinct(childrenOf(i)))
             /\ ToSet(Distinct(childrenOf(i))) = ToSet(childrenOf(i))
  BY <1>4, DistinctFacts
<1>6. \A k : ms(k) \in Seq(Ids) /\ NoRepeat(ms(k))
  BY <1>5 DEF NoRepeat
<1> HIDE DEF ms
<1>7. u = [k \in DOMAIN zs |-> u[k]] /\ DOMAIN u = DOMAIN zs
      /\ \A k \in DOMAIN zs : u[k] = [zs[k] EXCEPT !.members = ms(k)]
  BY <1>1
<1>8. ASSUME NEW k \in DOMAIN zs
      PROVE  /\ u[k] \in Zone /\ u[k].id = zs[k].id /\ NoRepeat(u[k].members)
             /\ u[k].parent = zs[k].parent /\ u[k].members = ms(k)
  <2>1. \A z \in Zone : \A l \in Seq(Ids) : /\ [z EXCEPT !.members = l] \in Zone
                        /\ [z EXCEPT !.members = l].id = z.id
                        /\ [z EXCEPT !.members = l].parent = z.parent
                        /\ [z EXCEPT !.members = l].members = l
    BY DEF Zone
  <2>2. zs[k] \in Zone /\ ms(k) \in Seq(Ids) /\ NoRepeat(ms(k)) /\ u[k] = [zs[k] EXCEPT !.members = ms(k)]
    BY <1>2, <1>6, <1>7
  <2> QED BY <2>1, <2>2
<1>9. /\ Edits(zs, u)
      /\ \A i : Has(zs, i) => /\ Parent(u, i) = u[IndexOf(zs, i)].parent
                              /\ Members(u, i) = u[IndexOf(zs, i)].members
  BY <1>7, <1>8, EditFacts DEF Edits
<1>10. ASSUME NEW i, Has(zs, i)
       PROVE  /\ Parent(u, i) = Parent(zs, i)
              /\ Mem(u, i) = {zs[j].id : j \in named(i)}
  <2> DEFINE k == IndexOf(zs, i)
  <2>1. k \in DOMAIN zs /\ zs[k].id = i /\ Parent(zs, i) = zs[k].parent
    BY <1>10, GetFacts
  <2>2. IsFirst(zs, k)
    BY <2>1 DEF IsFirst
  <2>3. Parent(u, i) = u[k].parent /\ Members(u, i) = u[k].members
    BY <1>9, <1>10
  <2> HIDE DEF k, named, ids
  <2>4. Parent(u, i) = Parent(zs, i) /\ Members(u, i) = Distinct(childrenOf(i))
    BY <1>8, <2>1, <2>2, <2>3 DEF ms
  <2>5. Mem(u, i) = {ids[j] : j \in named(i)}
    BY <1>4, <1>5, <2>4 DEF Mem
  <2>6. {ids[j] : j \in named(i)} = {zs[j].id : j \in named(i)}
    BY <1>3 DEF named
  <2> QED BY <2>4, <2>5, <2>6
<1>11. ASSUME NEW i, ~Has(zs, i) PROVE Parent(u, i) = Parent(zs, i)
  BY <1>9, <1>11, GetFacts DEF Edits
<1> QED BY <1>9, <1>10, <1>11

(* zone_list_from_bento_zones keeps the zones, and a flat list flat.       *)
LEMMA RebuiltKeeps ==
  /\ \A zs \in Lists : Rebuilt(zs) \in Lists /\ IdsOf(Rebuilt(zs)) = IdsOf(zs)
  /\ \A zs \in FlatLists : Rebuilt(zs) \in FlatLists
<1>1. \A zs \in Lists : Rebuilt(zs) \in Lists /\ IdsOf(Rebuilt(zs)) = IdsOf(zs)
  <2>1. \A zs \in Lists : Edits(zs, Rebuilt(zs))
    BY RebuiltFacts
  <2> QED BY <2>1, EditsKeepIds DEF Edits
<1>2. ASSUME NEW zs \in FlatLists, NEW u, u = Rebuilt(zs) PROVE u \in FlatLists
  <2>1. zs \in Lists /\ Unique(zs) /\ Agree(zs)
    BY DEF FlatLists
  <2>2. /\ Edits(zs, u) /\ \A i : Parent(u, i) = Parent(zs, i)
        /\ \A i : Has(zs, i) => Mem(u, i) = {zs[j].id : j \in {j \in DOMAIN zs : zs[j].parent = i}}
    BY <1>2, <2>1, RebuiltFacts
  <2>3. ASSUME NEW i \in Ids PROVE Mem(u, i) = Mem(zs, i)
    <3>1. CASE Has(zs, i)
      <4>1. ASSUME NEW m \in Mem(zs, i) PROVE \E j \in DOMAIN zs : zs[j].parent = i /\ zs[j].id = m
        <5>1. m \in Ids /\ Parent(zs, m) = i /\ i # NoZone
          BY <2>1, MemFacts, ListFacts DEF Agree
        <5>2. Has(zs, m)
          BY <2>1, <5>1, MemFacts
        <5> QED BY <2>1, <5>1, <5>2, GetFacts
      <4>2. ASSUME NEW j \in DOMAIN zs, zs[j].parent = i PROVE zs[j].id \in Mem(zs, i)
        <5>1. zs[j].id \in Ids /\ Parent(zs, zs[j].id) = i
          BY <2>1, <4>2, FoundById, ListFacts
        <5> QED BY <2>1, <5>1 DEF Agree
      <4> QED BY <2>2, <3>1, <4>1, <4>2
    <3>2. CASE ~Has(zs, i)
      BY <3>2, <2>1, <2>2, MemFacts DEF Edits
    <3> QED BY <3>1, <3>2
  <2> QED BY <2>1, <2>2, <2>3, AgreeAsBefore, EditedIsUnique DEF Edits, FlatLists
<1> QED BY <1>1, <1>2

-----------------------------------------------------------------------------
(* Zones that leave the list, come to it, or change their place.           *)
LEMMA RemoveAtFacts ==
  ASSUME NEW S, NEW s \in Seq(S), NEW n \in DOMAIN s, NEW u, u = RemoveAt(s, n)
  PROVE  /\ u \in Seq(S) /\ Len(u) = Len(s) - 1
         /\ ToSet(u) \subseteq ToSet(s)
         /\ ToSet(s) \subseteq ToSet(u) \cup {s[n]}
         /\ NoRepeat(s) => NoRepeat(u) /\ s[n] \notin ToSet(u)
<1> DEFINE a == SubSeq(s, 1, n - 1)
           b == SubSeq(s, n + 1, Len(s))
<1>1. n \in 1..Len(s) /\ Len(s) \in Nat /\ n \in Nat /\ DOMAIN s = 1..Len(s)
      /\ \A i \in 1..Len(s) : s[i] \in S
  OBVIOUS
<1>2. a \in Seq(S) /\ Len(a) = n - 1 /\ \A i \in 1..(n - 1) : a[i] = s[i]
  BY <1>1
<1>3. b \in Seq(S) /\ Len(b) = Len(s) - n /\ \A i \in 1..(Len(s) - n) : b[i] = s[n + i]
  <2>1. ASSUME NEW m \in 1..(Len(s) + 1)
        PROVE  SubSeq(s, m, Len(s)) \in Seq(S) /\ Len(SubSeq(s, m, Len(s))) = Len(s) - m + 1
    BY <1>1
  <2>2. n + 1 \in 1..(Len(s) + 1) /\ Len(s) - (n + 1) + 1 = Len(s) - n
    BY <1>1
  <2>3. b \in Seq(S) /\ Len(b) = Len(s) - n
    BY <2>1, <2>2
  <2>4. \A i \in 1..(Len(s) - n) : b[i] = s[(n + 1) + i - 1]
    BY <1>1, <2>2
  <2>5. \A i \in 1..(Len(s) - n) : (n + 1) + i - 1 = n + i
    BY <1>1
  <2> QED BY <2>3, <2>4, <2>5
<1>4. u = a \o b
  BY DEF RemoveAt
<1> HIDE DEF a, b
<1>5. u \in Seq(S) /\ Len(u) = Len(s) - 1 /\ DOMAIN u = 1..Len(u)
      /\ (\A i \in 1..(n - 1) : u[i] = a[i])
      /\ (\A i \in 1..(Len(s) - n) : u[(n - 1) + i] = b[i])
  <2>1. /\ u \in Seq(S) /\ Len(u) = Len(a) + Len(b) /\ DOMAIN u = 1..Len(u)
        /\ \A i \in 1..Len(a) : u[i] = a[i]
        /\ \A i \in 1..Len(b) : u[Len(a) + i] = b[i]
    <3>1. a \in Seq(S) /\ b \in Seq(S)
      BY <1>2, <1>3
    <3>2. u \in Seq(S) /\ Len(u) = Len(a) + Len(b) /\ DOMAIN u = 1..Len(u)
      BY <3>1, <1>4
    <3>3. \A i \in 1..Len(a) : u[i] = a[i]
      BY <3>1, <1>4
    <3>4. \A i \in 1..Len(b) : u[Len(a) + i] = b[i]
      BY <3>1, <1>4
    <3> QED BY <3>2, <3>3, <3>4
  <2>2. Len(a) = n - 1 /\ Len(b) = Len(s) - n
    BY <1>2, <1>3
  <2>3. Len(u) = Len(s) - 1
    BY <1>1, <2>1, <2>2
  <2> QED BY <2>1, <2>2, <2>3
<1> DEFINE from(k) == IF k < n THEN k ELSE k + 1
<1>6. ASSUME NEW k \in DOMAIN u
      PROVE  from(k) \in DOMAIN s /\ from(k) # n /\ u[k] = s[from(k)]
  <2>1. k \in 1..(Len(s) - 1) /\ k \in Nat
    BY <1>5
  <2>2. CASE k < n
    BY <1>1, <1>2, <1>5, <2>1, <2>2
  <2>3. CASE ~(k < n)
    <3>1. k - n + 1 \in 1..(Len(s) - n) /\ (n - 1) + (k - n + 1) = k /\ n + (k - n + 1) = k + 1
      BY <1>1, <2>1, <2>3
    <3>2. u[k] = b[k - n + 1] /\ b[k - n + 1] = s[k + 1]
      BY <1>3, <1>5, <3>1
    <3> QED BY <3>2, <1>1, <2>1, <2>3
  <2> QED BY <2>2, <2>3
<1>7. ASSUME NEW i \in DOMAIN s, i # n PROVE \E k \in DOMAIN u : from(k) = i
  <2>1. CASE i < n
    <3>1. i \in DOMAIN u /\ from(i) = i
      BY <1>1, <1>5, <2>1
    <3> QED BY <3>1
  <2>2. CASE ~(i < n)
    <3>1. i - 1 \in DOMAIN u /\ from(i - 1) = i
      BY <1>1, <1>5, <1>7, <2>2
    <3> QED BY <3>1
  <2> QED BY <2>1, <2>2
<1>8. \A j, k \in DOMAIN u : from(j) = from(k) => j = k
  BY <1>5
<1> HIDE DEF from
<1>9. ToSet(u) \subseteq ToSet(s)
  BY <1>6 DEF ToSet
<1>10. ToSet(s) \subseteq ToSet(u) \cup {s[n]}
  <2>1. \A i \in DOMAIN s : i # n => s[i] \in ToSet(u)
    BY <1>6, <1>7 DEF ToSet
  <2>2. \A x \in ToSet(s) : x = s[n] \/ x \in ToSet(u)
    BY <2>1 DEF ToSet
  <2> QED BY <2>2
<1>11. ASSUME NoRepeat(s) PROVE NoRepeat(u) /\ s[n] \notin ToSet(u)
  <2>1. \A j, k \in DOMAIN u : u[j] = u[k] => j = k
    BY <1>6, <1>8, <1>11 DEF NoRepeat
  <2>2. \A k \in DOMAIN u : u[k] # s[n]
    BY <1>6, <1>11 DEF NoRepeat
  <2> QED BY <2>1, <2>2 DEF NoRepeat, ToSet
<1> QED BY <1>5, <1>9, <1>10, <1>11

(* The zones a list may have.                                              *)
Sane == {z \in Zone : NoRepeat(z.members)}

(* The lists are the sequences of zones that repeat no member.             *)
LEMMA ListsAreSeqs == Lists = Seq(Sane)
<1>1. ASSUME NEW zs \in Lists PROVE zs \in Seq(Sane)
  BY ListFacts DEF Sane
<1>2. ASSUME NEW zs \in Seq(Sane) PROVE zs \in Lists
  <2>1. \A k \in DOMAIN zs : zs[k] \in Zone /\ NoRepeat(zs[k].members)
    BY DEF Sane
  <2>2. zs \in Seq(Zone)
    BY <2>1
  <2> QED BY <2>1, <2>2 DEF Lists
<1> QED BY <1>1, <1>2

(* No two zones of a list share an id, said of the list and of its set.    *)
LEMMA UniqueIsNoRepeat ==
  ASSUME NEW zs \in Lists
  PROVE  Unique(zs) <=> /\ NoRepeat(zs)
                        /\ \A x, y \in ToSet(zs) : x.id = y.id => x = y
BY DEF Unique, NoRepeat, ToSet

(* With unique ids the fields a list shows depend on its zones only, not   *)
(* on their order.                                                         *)
LEMMA ShownById ==
  ASSUME NEW zs \in Lists, Unique(zs), NEW i
  PROVE  /\ \A z \in ToSet(zs) : z.id = i => /\ Has(zs, i) /\ Parent(zs, i) = z.parent
                                             /\ Members(zs, i) = z.members
         /\ (\A z \in ToSet(zs) : z.id # i) => /\ Parent(zs, i) = NoZone
                                               /\ Members(zs, i) = <<>>
         /\ Has(zs, i) => \E z \in ToSet(zs) : z.id = i
<1>1. ASSUME NEW k \in DOMAIN zs, zs[k].id = i
      PROVE  Has(zs, i) /\ Parent(zs, i) = zs[k].parent /\ Members(zs, i) = zs[k].members
  BY <1>1, FoundById
<1>2. Has(zs, i) => \E k \in DOMAIN zs : zs[k].id = i
  BY GetFacts
<1>3. ~Has(zs, i) => Parent(zs, i) = NoZone /\ Members(zs, i) = <<>>
  BY GetFacts
<1>4. \A z \in ToSet(zs) : z.id = i => /\ Has(zs, i) /\ Parent(zs, i) = z.parent
                                       /\ Members(zs, i) = z.members
  BY <1>1 DEF ToSet
<1>5. Has(zs, i) => \E z \in ToSet(zs) : z.id = i
  BY <1>2 DEF ToSet
<1> QED BY <1>3, <1>4, <1>5

(* reorder_zone: taking a zone out and putting it elsewhere keeps the      *)
(* zones and a flat list flat.                                             *)
LEMMA MovedKeeps ==
  ASSUME NEW zs \in Lists, NEW i, Has(zs, i), NEW to \in DOMAIN zs,
         NEW u, u = InsertAt(RemoveAt(zs, IndexOf(zs, i)), to, Get(zs, i))
  PROVE  /\ u \in Lists /\ IdsOf(u) = IdsOf(zs)
         /\ zs \in FlatLists => u \in FlatLists
<1> DEFINE n == IndexOf(zs, i)
           r == RemoveAt(zs, n)
<1>1. n \in DOMAIN zs /\ zs \in Seq(Sane) /\ zs[n] \in Sane /\ Get(zs, i) = zs[n]
  <2>1. n \in DOMAIN zs /\ zs \in Seq(Sane)
    BY GetFacts, ListsAreSeqs
  <2> QED BY <2>1 DEF Get
<1> HIDE DEF n
<1>2. /\ r \in Seq(Sane) /\ Len(r) = Len(zs) - 1
      /\ ToSet(r) \subseteq ToSet(zs)
      /\ ToSet(zs) \subseteq ToSet(r) \cup {zs[n]}
      /\ NoRepeat(zs) => NoRepeat(r) /\ zs[n] \notin ToSet(r)
  BY <1>1, RemoveAtFacts
<1>3. u = InsertAt(r, to, zs[n])
  BY <1>1 DEF n
<1> HIDE DEF r
<1>4. to \in 1..(Len(r) + 1)
  BY <1>2, ListFacts
<1>5. /\ u \in Seq(Sane) /\ ToSet(u) = ToSet(r) \cup {zs[n]}
      /\ NoRepeat(r) /\ zs[n] \notin ToSet(r) => NoRepeat(u)
  BY <1>1, <1>2, <1>3, <1>4, InsertAtFacts
<1>6. u \in Lists
  BY <1>5, ListsAreSeqs
<1>7. ToSet(u) = ToSet(zs)
  <2>1. zs[n] \in ToSet(zs)
    BY <1>1 DEF ToSet
  <2> QED BY <2>1, <1>2, <1>5
<1>8. \A ws \in Lists : IdsOf(ws) = {z.id : z \in ToSet(ws)}
  BY DEF IdsOf, ToSet
<1>9. ASSUME zs \in FlatLists PROVE u \in FlatLists
  <2>1. Unique(zs) /\ Agree(zs)
    BY <1>9 DEF FlatLists
  <2>2. Unique(u)
    BY <2>1, <1>2, <1>5, <1>6, <1>7, UniqueIsNoRepeat
  <2>3. ASSUME NEW j PROVE Parent(u, j) = Parent(zs, j) /\ Members(u, j) = Members(zs, j)
    <3>1. CASE \E z \in ToSet(zs) : z.id = j
      BY <3>1, <2>1, <2>2, <1>6, <1>7, ShownById
    <3>2. CASE \A z \in ToSet(zs) : z.id # j
      BY <3>2, <2>1, <2>2, <1>6, <1>7, ShownById
    <3> QED BY <3>1, <3>2
  <2>4. Agree(u)
    BY <2>1, <2>3, AgreeAsBefore DEF Mem
  <2> QED BY <1>6, <2>2, <2>4 DEF FlatLists
<1> QED BY <1>6, <1>7, <1>8, <1>9

(* DeleteZone of a zone outside every stack keeps a flat list flat.        *)
LEMMA RemovedKeeps ==
  ASSUME NEW zs \in Lists, NEW i, Has(zs, i), NEW u, u = RemoveAt(zs, IndexOf(zs, i))
  PROVE  /\ u \in Lists /\ IdsOf(u) \subseteq IdsOf(zs)
         /\ zs \in FlatLists /\ ~InStack(zs, i) => u \in FlatLists
<1> DEFINE n == IndexOf(zs, i)
<1>1. /\ n \in DOMAIN zs /\ zs \in Seq(Sane) /\ zs[n].id = i
      /\ Parent(zs, i) = zs[n].parent /\ Members(zs, i) = zs[n].members
  BY GetFacts, ListsAreSeqs
<1>2. u = RemoveAt(zs, n)
  OBVIOUS
<1> HIDE DEF n
<1>3. /\ u \in Seq(Sane)
      /\ ToSet(u) \subseteq ToSet(zs)
      /\ ToSet(zs) \subseteq ToSet(u) \cup {zs[n]}
      /\ NoRepeat(zs) => NoRepeat(u) /\ zs[n] \notin ToSet(u)
  BY <1>1, <1>2, RemoveAtFacts
<1>4. u \in Lists
  BY <1>3, ListsAreSeqs
<1>5. \A ws \in Lists : IdsOf(ws) = {z.id : z \in ToSet(ws)}
  BY DEF IdsOf, ToSet
<1>6. IdsOf(u) \subseteq IdsOf(zs)
  BY <1>3, <1>4, <1>5
<1>7. ASSUME zs \in FlatLists, ~InStack(zs, i) PROVE u \in FlatLists
  <2>1. Unique(zs) /\ Agree(zs)
    BY <1>7 DEF FlatLists
  <2>2. Unique(u)
    BY <2>1, <1>3, <1>4, UniqueIsNoRepeat
  <2>3. zs[n] \in ToSet(zs) /\ zs[n] \notin ToSet(u)
    BY <1>1, <1>3, <2>1, UniqueIsNoRepeat DEF ToSet
  <2>4. Parent(zs, i) = NoZone /\ Members(zs, i) = <<>>
    BY <1>7 DEF InStack, IsAnchor
  <2>5. ASSUME NEW j PROVE Parent(u, j) = Parent(zs, j) /\ Members(u, j) = Members(zs, j)
    <3>1. CASE \E z \in ToSet(u) : z.id = j
      BY <3>1, <2>1, <2>2, <1>3, <1>4, ShownById
    <3>2. CASE (\A z \in ToSet(u) : z.id # j) /\ j # i
      <4>1. \A z \in ToSet(zs) : z.id # j
        BY <3>2, <1>1, <1>3
      <4> QED BY <3>2, <4>1, <2>1, <2>2, <1>4, ShownById
    <3>3. CASE (\A z \in ToSet(u) : z.id # j) /\ j = i
      BY <3>3, <2>2, <2>4, <1>4, ShownById
    <3> QED BY <3>1, <3>2, <3>3
  <2>6. Agree(u)
    BY <2>1, <2>5, AgreeAsBefore DEF Mem
  <2> QED BY <1>4, <2>2, <2>6 DEF FlatLists
<1> QED BY <1>4, <1>6, <1>7

(* CreateZone with a fresh id keeps a flat list flat.                      *)
LEMMA AppendedKeeps ==
  ASSUME NEW zs \in Lists, NEW i \in Ids,
         NEW u, u = Append(zs, [id |-> i, parent |-> NoZone, members |-> <<>>])
  PROVE  /\ u \in Lists /\ IdsOf(u) = IdsOf(zs) \cup {i}
         /\ zs \in FlatLists /\ i \notin IdsOf(zs) => u \in FlatLists
<1> DEFINE z == [id |-> i, parent |-> NoZone, members |-> <<>>]
<1>1. z \in Sane /\ z.id = i /\ z.parent = NoZone /\ z.members = <<>>
  <2>1. <<>> \in Seq(Ids) /\ NoRepeat(<<>>)
    BY DEF NoRepeat
  <2> QED BY <2>1 DEF Sane, Zone
<1>2. u = Append(zs, z) /\ zs \in Seq(Sane)
  BY ListsAreSeqs
<1> HIDE DEF z
<1>3. u \in Seq(Sane) /\ Len(u) = Len(zs) + 1 /\ u[Len(u)] = z /\ DOMAIN u = 1..Len(u)
      /\ \A k \in 1..Len(zs) : u[k] = zs[k]
  BY <1>1, <1>2
<1>4. DOMAIN zs = 1..Len(zs) /\ Len(zs) \in Nat /\ DOMAIN u = DOMAIN zs \cup {Len(u)}
      /\ Len(u) \notin DOMAIN zs
  BY <1>2, <1>3
<1>5. u \in Lists
  BY <1>3, ListsAreSeqs
<1>6. ToSet(u) = ToSet(zs) \cup {z} /\ IdsOf(u) = IdsOf(zs) \cup {i}
  BY <1>1, <1>3, <1>4 DEF ToSet, IdsOf
<1>7. ASSUME zs \in FlatLists, i \notin IdsOf(zs) PROVE u \in FlatLists
  <2>1. Unique(zs) /\ Agree(zs)
    BY <1>7 DEF FlatLists
  <2>2. \A k \in DOMAIN zs : zs[k].id # i
    BY <1>7 DEF IdsOf
  <2>3. Unique(u)
    BY <2>1, <2>2, <1>1, <1>3, <1>4 DEF Unique
  <2>4. \A x \in ToSet(zs) : x.id # i
    BY <2>2 DEF ToSet
  <2>5. ASSUME NEW j PROVE Parent(u, j) = Parent(zs, j) /\ Members(u, j) = Members(zs, j)
    <3>1. CASE \E x \in ToSet(zs) : x.id = j
      BY <3>1, <2>1, <2>3, <1>5, <1>6, ShownById
    <3>2. CASE (\A x \in ToSet(zs) : x.id # j) /\ j # i
      <4>1. \A x \in ToSet(u) : x.id # j
        BY <3>2, <1>1, <1>6
      <4> QED BY <3>2, <4>1, <2>1, <2>3, <1>5, ShownById
    <3>3. CASE j = i
      <4>1. z \in ToSet(u) /\ \A x \in ToSet(zs) : x.id # j
        BY <3>3, <1>6, <2>4
      <4> QED BY <3>3, <4>1, <2>1, <2>3, <1>1, <1>5, ShownById
    <3> QED BY <3>1, <3>2, <3>3
  <2>6. Agree(u)
    BY <2>1, <2>5, AgreeAsBefore DEF Mem
  <2> QED BY <1>5, <2>3, <2>6 DEF FlatLists
<1> QED BY <1>5, <1>6, <1>7

-----------------------------------------------------------------------------
(* bump_next_zone_id_from_zones leaves the next id above every id there.   *)
LEMMA BumpedFacts ==
  ASSUME NEW zs \in Lists, NEW next \in 1..(MaxId + 1), NEW n, n = Bumped(next, zs)
  PROVE  n \in 1..(MaxId + 1) /\ \A i \in IdsOf(zs) : i < n
<1>1. MaxId \in Nat /\ IdsOf(zs) \in SUBSET (1..MaxId)
  BY ScopesAssumption, ListFacts DEF IdsOf, Ids
<1> DEFINE I == IdsOf(zs)
           Is(i) == i \in I /\ \A j \in I : j <= i
<1>2. CASE zs = <<>>
  <2>1. I = {} /\ LargestId(zs) = 0
    BY <1>2 DEF IdsOf, LargestId
  <2> QED BY <2>1, <1>1 DEF Bumped
<1>3. CASE zs # <<>>
  <2>1. I # {}
    <3>1. 1 \in DOMAIN zs
      BY <1>3, ListFacts
    <3> QED BY <3>1 DEF IdsOf
  <2>2. \E i : Is(i)
    <3> DEFINE G == {MaxId - i : i \in I}
    <3>1. G \in SUBSET Nat /\ G # {}
      BY <1>1, <2>1
    <3>2. PICK g \in G : \A x \in G : g <= x
      <4> HIDE DEF G
      <4> QED BY <3>1, LeastExists
    <3>3. PICK i \in I : g = MaxId - i
      OBVIOUS
    <3>4. \A j \in I : MaxId - i <= MaxId - j
      BY <3>2, <3>3
    <3>5. \A j \in I : j <= i
      BY <1>1, <3>4
    <3> QED BY <3>5
  <2>3. LargestId(zs) = CHOOSE i : Is(i)
    BY <1>3 DEF LargestId
  <2>4. Is(LargestId(zs))
    <3> HIDE DEF Is
    <3> QED BY <2>2, <2>3
  <2> QED BY <2>4, <1>1 DEF Bumped
<1> QED BY <1>2, <1>3

-----------------------------------------------------------------------------
(* The inductive invariant: whatever is done, no zone lists a member       *)
(* twice; and as long as nothing takes stacks apart, the list and the      *)
(* captured one are flat, and the next id is above every id in use.        *)
StacksInv ==
  /\ zones \in Lists /\ captured \in Lists
  /\ nextId \in 1..(MaxId + 1) /\ scope \in Scopes
  /\ NothingTakesStacksApart => /\ zones \in FlatLists /\ captured \in FlatLists
                                /\ \A i \in IdsOf(zones) : i < nextId

(* The empty list is sound.                                                *)
LEMMA InitIsSound == Init => StacksInv
<1> SUFFICES ASSUME Init PROVE StacksInv
  OBVIOUS
<1>1. zones \in FlatLists /\ captured \in FlatLists /\ IdsOf(zones) = {}
  BY NoListMends DEF Init
<1>2. nextId \in 1..(MaxId + 1)
  <2>1. MaxId \in Nat
    BY ScopesAssumption
  <2> QED BY <2>1 DEF Init
<1> QED BY <1>1, <1>2 DEF Init, FlatLists, StacksInv

(* One list in the place of another, the next id and the rest unchanged.   *)
LEMMA ChangeIsSound ==
  ASSUME StacksInv, NEW zs \in Lists, ChangeList(zs), IdsOf(zs) \subseteq IdsOf(zones),
         NothingTakesStacksApart => zs \in FlatLists
  PROVE  StacksInv'
<1>1. zones' = zs /\ nextId' = nextId /\ captured' = captured /\ scope' = scope
  BY DEF ChangeList
<1>2. NothingTakesStacksApart' <=> NothingTakesStacksApart
  BY <1>1 DEF NothingTakesStacksApart
<1>3. IdsOf(zones)' = IdsOf(zs)
  BY <1>1
<1> QED BY <1>1, <1>2, <1>3 DEF StacksInv

(* Every step keeps the inductive invariant: one step per command, a       *)
(* restart, a capture and its return.                                      *)
LEMMA StepIsSound ==
  ASSUME StacksInv, [Next]_vars
  PROVE  StacksInv'
<1> SUFFICES ASSUME Next PROVE StacksInv'
  <2>1. ASSUME UNCHANGED vars PROVE StacksInv'
    BY <2>1 DEF vars, StacksInv, NothingTakesStacksApart
  <2> QED BY <2>1
<1>0. /\ zones \in Lists /\ captured \in Lists /\ nextId \in 1..(MaxId + 1) /\ scope \in Scopes
      /\ scope.ids \in 1..MaxId /\ MaxId \in Nat
      /\ NothingTakesStacksApart => /\ zones \in FlatLists /\ captured \in FlatLists
                                    /\ \A i \in IdsOf(zones) : i < nextId
  BY ScopesAssumption DEF StacksInv
<1>1. ASSUME CreateZone PROVE StacksInv'
  <2>1. nextId \in Ids /\ nextId' = nextId + 1 /\ nextId' \in 1..(MaxId + 1)
    BY <1>0, <1>1 DEF CreateZone, Ids
  <2>2. zones' = Append(zones, [id |-> nextId, parent |-> NoZone, members |-> <<>>])
        /\ captured' = captured /\ scope' = scope
    BY <1>1 DEF CreateZone
  <2>3. /\ zones' \in Lists /\ IdsOf(zones') = IdsOf(zones) \cup {nextId}
        /\ zones \in FlatLists /\ nextId \notin IdsOf(zones) => zones' \in FlatLists
    BY <1>0, <2>1, <2>2, AppendedKeeps
  <2>4. NothingTakesStacksApart' <=> NothingTakesStacksApart
    BY <2>2 DEF NothingTakesStacksApart
  <2>5. ASSUME NothingTakesStacksApart
        PROVE  zones' \in FlatLists /\ \A i \in IdsOf(zones') : i < nextId'
    <3>1. \A i \in IdsOf(zones) : i \in Nat /\ i < nextId
      BY <1>0, <2>5, ListFacts DEF IdsOf, Ids
    <3>2. nextId \notin IdsOf(zones)
      BY <1>0, <3>1
    <3> QED BY <1>0, <2>1, <2>3, <2>5, <3>1, <3>2
  <2> QED BY <1>0, <2>1, <2>2, <2>3, <2>4, <2>5 DEF StacksInv
<1>2. ASSUME NEW i \in Ids, DeleteZone(i) PROVE StacksInv'
  <2> DEFINE zs == RemoveAt(zones, IndexOf(zones, i))
  <2>1. Has(zones, i) /\ ChangeList(zs) /\ (NothingTakesStacksApart => ~InStack(zones, i))
    BY <1>2 DEF DeleteZone, NothingTakesStacksApart
  <2>2. /\ zs \in Lists /\ IdsOf(zs) \subseteq IdsOf(zones)
        /\ zones \in FlatLists /\ ~InStack(zones, i) => zs \in FlatLists
    BY <1>0, <2>1, RemovedKeeps
  <2> HIDE DEF zs
  <2> QED BY <1>0, <2>1, <2>2, ChangeIsSound
<1>3. ASSUME NEW i \in Ids, Dissolve(i) PROVE StacksInv'
  <2> DEFINE a == StackAnchorFor(zones, i)
             zs == Unstacked(zones, a)
  <2>1. ChangeList(zs) /\ StackMemberIds(zones, a) # <<>>
    BY <1>3 DEF Dissolve
  <2> HIDE DEF a
  <2>2. a \in Ids
    <3>1. Own(zones, a) # {}
      BY <1>0, <2>1, StackMemberIdsFacts, NothingListed
    <3>2. Mem(zones, a) # {}
      BY <3>1 DEF Own
    <3> QED BY <1>0, <3>2, MemFacts
  <2>3. zs \in Lists /\ IdsOf(zs) = IdsOf(zones) /\ (zones \in FlatLists => zs \in FlatLists)
    BY <1>0, <2>2, UnstackedKeeps
  <2> HIDE DEF zs
  <2> QED BY <1>0, <2>1, <2>3, ChangeIsSound
<1>4. ASSUME NEW i \in Ids, UnstackZone(i) PROVE StacksInv'
  <2> DEFINE zs == Unstacked(zones, i)
  <2>1. ChangeList(zs)
    BY <1>4 DEF UnstackZone
  <2>2. zs \in Lists /\ IdsOf(zs) = IdsOf(zones) /\ (zones \in FlatLists => zs \in FlatLists)
    BY <1>0, UnstackedKeeps
  <2> HIDE DEF zs
  <2> QED BY <1>0, <2>1, <2>2, ChangeIsSound
<1>5. ASSUME NEW m \in Ids, DetachStackMember(m) PROVE StacksInv'
  <2> DEFINE zs == Detached(zones, m)
  <2>1. ChangeList(zs)
    BY <1>5 DEF DetachStackMember
  <2>2. zs \in Lists /\ IdsOf(zs) = IdsOf(zones) /\ (zones \in FlatLists => zs \in FlatLists)
    BY <1>0, DetachedKeeps
  <2> HIDE DEF zs
  <2> QED BY <1>0, <2>1, <2>2, ChangeIsSound
<1>6. ASSUME NEW p \in Ids, NEW c \in Ids, StackZone(p, c) PROVE StacksInv'
  <2> DEFINE zs == StackUnder(zones, p, c)
  <2>1. ChangeList(zs) /\ CanStack(zones, p, c)
    BY <1>6 DEF StackZone
  <2>2. zs = StackIfPossible(zones, p, c)
    BY <2>1 DEF StackIfPossible
  <2>3. zs \in Lists /\ IdsOf(zs) = IdsOf(zones) /\ (zones \in FlatLists => zs \in FlatLists)
    BY <1>0, <2>2, StackUnderKeeps
  <2> HIDE DEF zs
  <2> QED BY <1>0, <2>1, <2>3, ChangeIsSound
<1>7. ASSUME NEW a \in Ids, NEW m \in Ids, NEW index \in 0..scope.ids,
             ReorderStackMember(a, m, index)
      PROVE  StacksInv'
  <2> DEFINE zs == Reordered(zones, a, m, index)
  <2>1. ChangeList(zs) /\ m \in Mem(zones, a)
    BY <1>0, <1>7, MemFacts DEF ReorderStackMember
  <2>2. index \in Nat
    BY <1>0
  <2>3. zs \in Lists /\ IdsOf(zs) = IdsOf(zones) /\ (zones \in FlatLists => zs \in FlatLists)
    BY <1>0, <2>1, <2>2, ReorderedKeeps
  <2> HIDE DEF zs
  <2> QED BY <1>0, <2>1, <2>3, ChangeIsSound
<1>8. ASSUME NEW i \in Ids, NEW to \in DOMAIN zones, ReorderZone(i, to) PROVE StacksInv'
  <2> DEFINE zs == InsertAt(RemoveAt(zones, IndexOf(zones, i)), to, Get(zones, i))
  <2>1. ChangeList(zs) /\ Has(zones, i)
    BY <1>8 DEF ReorderZone
  <2>2. zs \in Lists /\ IdsOf(zs) = IdsOf(zones) /\ (zones \in FlatLists => zs \in FlatLists)
    BY <1>0, <2>1, MovedKeeps
  <2> HIDE DEF zs
  <2> QED BY <1>0, <2>1, <2>2, ChangeIsSound
<1>9. ASSUME Restart PROVE StacksInv'
  <2>1. zones' = Flattened(zones) /\ nextId' = Bumped(1, zones') /\ captured' = captured /\ scope' = scope
    BY <1>9 DEF Restart
  <2>2. zones' \in Lists /\ (zones \in FlatLists => zones' \in FlatLists)
    BY <1>0, <2>1, FlattenedKeeps
  <2>3. 1 \in 1..(MaxId + 1)
    BY <1>0
  <2>4. nextId' \in 1..(MaxId + 1) /\ \A i \in IdsOf(zones') : i < nextId'
    BY <2>1, <2>2, <2>3, BumpedFacts
  <2>5. NothingTakesStacksApart' <=> NothingTakesStacksApart
    BY <2>1 DEF NothingTakesStacksApart
  <2> QED BY <1>0, <2>1, <2>2, <2>4, <2>5 DEF StacksInv
<1>10. ASSUME RestartLoadsLate PROVE StacksInv'
  <2>1. zones' = Flattened(zones) /\ nextId' = 1 /\ captured' = captured /\ scope' = scope
        /\ ~NothingTakesStacksApart
    BY <1>10 DEF RestartLoadsLate, NothingTakesStacksApart
  <2>2. zones' \in Lists /\ nextId' \in 1..(MaxId + 1)
    BY <1>0, <2>1, FlattenedKeeps
  <2>3. ~NothingTakesStacksApart'
    BY <2>1 DEF NothingTakesStacksApart
  <2> QED BY <1>0, <2>1, <2>2, <2>3 DEF StacksInv
<1>11. ASSUME Capture PROVE StacksInv'
  <2>1. captured' = zones /\ zones' = zones /\ nextId' = nextId /\ scope' = scope
    BY <1>11 DEF Capture
  <2>2. NothingTakesStacksApart' <=> NothingTakesStacksApart
    BY <2>1 DEF NothingTakesStacksApart
  <2> QED BY <1>0, <2>1, <2>2 DEF StacksInv
<1>12. ASSUME ApplyCheckpoint PROVE StacksInv'
  <2>1. zones' = Rebuilt(captured) /\ nextId' = Bumped(nextId, zones')
        /\ captured' = captured /\ scope' = scope
    BY <1>12 DEF ApplyCheckpoint
  <2>2. zones' \in Lists /\ (captured \in FlatLists => zones' \in FlatLists)
    BY <1>0, <2>1, RebuiltKeeps
  <2>3. nextId' \in 1..(MaxId + 1) /\ \A i \in IdsOf(zones') : i < nextId'
    BY <1>0, <2>1, <2>2, BumpedFacts
  <2>4. NothingTakesStacksApart' <=> NothingTakesStacksApart
    BY <2>1 DEF NothingTakesStacksApart
  <2> QED BY <1>0, <2>1, <2>2, <2>3, <2>4 DEF StacksInv
<1>13. ASSUME RestoreCapsule PROVE StacksInv'
  <2>1. zones' = Flattened(captured) /\ nextId' = nextId /\ captured' = captured /\ scope' = scope
        /\ ~NothingTakesStacksApart
    BY <1>13 DEF RestoreCapsule, NothingTakesStacksApart
  <2>2. zones' \in Lists
    BY <1>0, <2>1, FlattenedKeeps
  <2>3. ~NothingTakesStacksApart'
    BY <2>1 DEF NothingTakesStacksApart
  <2> QED BY <1>0, <2>1, <2>2, <2>3 DEF StacksInv
<1> QED BY <1>1, <1>2, <1>3, <1>4, <1>5, <1>6, <1>7, <1>8, <1>9, <1>10, <1>11, <1>12, <1>13 DEF Next

(* What the first start of this build shows of any list of an older one:   *)
(* flat stacks, the trees together.                                        *)
LEMMA LoadIsSound == MCInit => StacksInv /\ TreesStayTogether
<1> SUFFICES ASSUME MCInit PROVE StacksInv /\ TreesStayTogether
  OBVIOUS
<1>1. /\ scope \in Scopes /\ scope.ids \in Ids
      /\ zones = Flattened(old) /\ nextId = Bumped(1, zones) /\ captured = <<>>
      /\ old = <<>> \/ old \in LegacyLists(scope.ids)
  BY ScopesAssumption DEF MCInit, Ids
<1>2. old \in Mendable
  BY <1>1, NoListMends, LegacyListsMend
<1>3. Mended(old, zones) /\ NestedPlaces(zones) = {}
  BY <1>1, <1>2, FlattenedMends
<1>4. zones \in FlatLists /\ zones \in Lists
  BY <1>3, UnnestedIsFlat DEF Mended, FlatLists
<1>5. captured \in FlatLists /\ captured \in Lists
  BY <1>1, NoListMends DEF FlatLists
<1>6. nextId \in 1..(MaxId + 1) /\ \A i \in IdsOf(zones) : i < nextId
  <2>1. MaxId \in Nat
    BY ScopesAssumption
  <2>2. 1 \in 1..(MaxId + 1)
    BY <2>1
  <2> QED BY <1>1, <1>4, <2>2, BumpedFacts
<1>7. ASSUME NEW i \in IdsOf(old), ~OnCycle(old, i) PROVE AnchorOrSelf(zones, i) = Root(old, i)
  <2>1. old \in Lists
    BY <1>2 DEF Mendable
  <2>2. i \in Ids
    BY <1>7, <2>1, ListFacts DEF IdsOf
  <2>3. Root(old, i) \in Ids /\ LeadsTo(old, i, Root(old, i))
    BY <1>7, <2>1, <2>2, TreesLead
  <2>4. LeadsTo(zones, i, Root(old, i))
    BY <1>3, <2>2, <2>3 DEF Mended
  <2> QED BY <1>4, <2>2, <2>3, <2>4, RootIsAnchor
<1> QED BY <1>1, <1>4, <1>5, <1>6, <1>7 DEF StacksInv, TreesStayTogether

(* The stacks stay sound: every behaviour keeps the invariant, from no     *)
(* list and from every list of an older build.                             *)
THEOREM StacksAreSound == Spec \/ MCSpec => []StacksInv
<1>1. StacksInv /\ [Next]_vars => StacksInv'
  BY StepIsSound
<1>2. [Next /\ old' = <<>>]_<<vars, old>> => [Next]_vars
  OBVIOUS
<1>3. MCInit => StacksInv
  BY LoadIsSound
<1> QED BY <1>1, <1>2, <1>3, InitIsSound, PTL DEF Spec, MCSpec

-----------------------------------------------------------------------------
(* A list that repeats nothing has as many elements as places.             *)
LEMMA NoRepeatCounts ==
  ASSUME NEW S, NEW s \in Seq(S), NoRepeat(s)
  PROVE  Cardinality(ToSet(s)) = Len(s)
<1> DEFINE T == ToSet(s)
           I == 1..Len(s)
<1>1. Len(s) \in Nat /\ DOMAIN s = I /\ s \in [I -> T] /\ \A x \in T : \E k \in I : s[k] = x
  BY DEF ToSet
<1>2. IsFiniteSet(I) /\ Cardinality(I) = Len(s)
  <2>1. 1 \in Int /\ Len(s) \in Int
    BY <1>1
  <2>2. IsFiniteSet(1..Len(s)) /\ Cardinality(1..Len(s)) = IF 1 > Len(s) THEN 0 ELSE Len(s) - 1 + 1
    BY <2>1, FS_Interval
  <2> QED BY <1>1, <2>2
<1> HIDE DEF T, I
<1>3. s \in Bijection(I, T)
  BY <1>1 DEF Bijection, Injection, Surjection, IsInjective, NoRepeat
<1>4. Cardinality(T) = Cardinality(I)
  BY <1>2, <1>3, FS_Bijection DEF ExistsBijection
<1> QED BY <1>2, <1>4 DEF T

(* The invariant in the words of the properties.                           *)
LEMMA FlatListsAreFlat ==
  ASSUME NEW zs \in FlatLists
  PROVE  Flat(zs) /\ \A i \in IdsOf(zs) : Shown(zs, i)
<1>1. zs \in Lists /\ Unique(zs) /\ Agree(zs) /\ NoZone \notin Ids
  <2>1. zs \in Lists /\ Unique(zs) /\ Agree(zs)
    BY DEF FlatLists
  <2> QED BY <2>1, ListFacts
<1>2. ASSUME NEW k \in DOMAIN zs
      PROVE  /\ zs[k].parent # NoZone => zs[k].members = <<>>
             /\ zs[k].parent # NoZone => Contains(Members(zs, zs[k].parent), zs[k].id)
             /\ \A m \in ToSet(zs[k].members) : Has(zs, m) /\ Parent(zs, m) = zs[k].id
             /\ Cardinality(ToSet(zs[k].members)) = Len(zs[k].members)
  <2> DEFINE i == zs[k].id
  <2>1. /\ i \in Ids /\ zs[k].parent \in Ids \cup {NoZone}
        /\ zs[k].members \in Seq(Ids) /\ NoRepeat(zs[k].members)
        /\ Parent(zs, i) = zs[k].parent /\ Members(zs, i) = zs[k].members
    BY <1>1, ListFacts, FoundById
  <2>2. zs[k].parent # NoZone => zs[k].members = <<>>
    BY NoneNested DEF IsNested
  <2>3. zs[k].parent # NoZone => Contains(Members(zs, zs[k].parent), i)
    <3>1. zs[k].parent # NoZone => i \in Mem(zs, zs[k].parent)
      BY <1>1, <2>1 DEF Agree
    <3> QED BY <3>1, <1>1, MemFacts
  <2>4. ASSUME NEW m \in ToSet(zs[k].members) PROVE Has(zs, m) /\ Parent(zs, m) = i
    <3>1. m \in Mem(zs, i) /\ m \in Ids
      BY <2>1, <2>4 DEF Mem, ToSet
    <3>2. Parent(zs, m) = i
      BY <1>1, <2>1, <3>1 DEF Agree
    <3> QED BY <1>1, <2>1, <3>2, MemFacts
  <2>5. Cardinality(ToSet(zs[k].members)) = Len(zs[k].members)
    BY <2>1, NoRepeatCounts
  <2> QED BY <2>2, <2>3, <2>4, <2>5
<1>3. Flat(zs)
  BY <1>2 DEF Flat
<1>4. ASSUME NEW i \in IdsOf(zs) PROVE Shown(zs, i)
  <2>1. i \in Ids /\ Has(zs, i)
    BY <1>1, <1>4, GetFacts, ListFacts DEF IdsOf
  <2>2. Parent(zs, i) = NoZone \/ StackAnchorFor(zs, i) # NoZone
    BY <1>1, <2>1, AnchorFacts
  <2> QED BY <2>1, <2>2 DEF Shown
<1> QED BY <1>3, <1>4

(* The types of the state.                                                 *)
THEOREM StacksTypeOK == Spec \/ MCSpec => []TypeOK
<1>1. StacksInv => TypeOK
  BY DEF StacksInv, TypeOK, Lists
<1> QED BY <1>1, StacksAreSound, PTL

(* One flat stack (zone_list.rs line 113): in every list the commands,     *)
(* restarts and checkpoints reach, the two records of a stack agree and no *)
(* zone is a member and an anchor, for any number of zones.                *)
THEOREM StacksStayFlat == Spec \/ MCSpec => []StacksAreFlat
<1>1. StacksInv => StacksAreFlat
  BY FlatListsAreFlat DEF StacksInv, StacksAreFlat
<1> QED BY <1>1, StacksAreSound, PTL

(* No zone is hidden (zone_list.rs line 242): each is drawn on its own or  *)
(* in a stack that has an anchor.                                          *)
THEOREM ZonesStayShown == Spec \/ MCSpec => []EveryZoneIsShown
<1>1. StacksInv => EveryZoneIsShown
  BY FlatListsAreFlat DEF StacksInv, EveryZoneIsShown
<1> QED BY <1>1, StacksAreSound, PTL

(* No zone is in two stacks (zone_list.rs line 153), or twice in one,      *)
(* whatever takes stacks apart.                                            *)
THEOREM ZonesAreShownOnce == Spec \/ MCSpec => []ShownOnce
<1>1. ASSUME zones \in Lists PROVE ShownOnce
  <2> SUFFICES ASSUME NEW i \in IdsOf(zones)
               PROVE  /\ Cardinality(ToSet(Members(zones, i))) = Len(Members(zones, i))
                      /\ Cardinality({a \in IdsOf(zones) \ {i} :
                                        Contains(StackMemberIds(zones, a), i)}) <= 1
    BY DEF ShownOnce
  <2>1. Cardinality(ToSet(Members(zones, i))) = Len(Members(zones, i))
    <3>1. Members(zones, i) \in Seq(Ids) /\ NoRepeat(Members(zones, i))
      BY <1>1, GetFacts
    <3> QED BY <3>1, NoRepeatCounts
  <2> DEFINE Stacks == {a \in IdsOf(zones) \ {i} : Contains(StackMemberIds(zones, a), i)}
             one == {Parent(zones, i)}
  <2>2. ASSUME NEW a \in Stacks PROVE a = Parent(zones, i)
    <3>1. i \in ToSet(StackMemberIds(zones, a)) /\ i # a
      BY <2>2 DEF Contains, ToSet
    <3>2. ToSet(StackMemberIds(zones, a)) = IF Own(zones, a) = {} THEN {} ELSE {a} \cup Own(zones, a)
      BY <1>1, StackMemberIdsFacts
    <3> QED BY <3>1, <3>2 DEF Own
  <2>3. Stacks \in SUBSET one
    BY <2>2
  <2>4. IsFiniteSet(one) /\ Cardinality(one) = 1
    BY FS_Singleton
  <2> HIDE DEF Stacks, one
  <2>5. Cardinality(Stacks) <= 1
    BY <2>3, <2>4, FS_Subset
  <2> QED BY <2>1, <2>5 DEF Stacks
<1>2. StacksInv => ShownOnce
  BY <1>1 DEF StacksInv
<1> QED BY <1>2, StacksAreSound, PTL

(* A checkpoint brings back the stacks it captured, though it stored only  *)
(* the parents.                                                            *)
THEOREM CheckpointsKeepStacks == Spec \/ MCSpec => []CheckpointKeepsStacks
<1>1. ASSUME captured \in Lists, Flat(captured), NEW i \in IdsOf(captured)
      PROVE  ToSet(Members(Rebuilt(captured), i)) = ToSet(Members(captured, i))
  <2> DEFINE zs == captured
             Naming == {zs[j].id : j \in {j \in DOMAIN zs : zs[j].parent = i}}
  <2>1. i \in Ids /\ Has(zs, i) /\ i # NoZone
    BY <1>1, GetFacts, ListFacts DEF IdsOf
  <2>2. Mem(Rebuilt(zs), i) = Naming
    BY <1>1, <2>1, RebuiltFacts
  <2>3. ASSUME NEW j \in DOMAIN zs, zs[j].parent = i PROVE zs[j].id \in Mem(zs, i)
    <3>1. Contains(Members(zs, i), zs[j].id)
      BY <1>1, <2>1, <2>3 DEF Flat
    <3> QED BY <1>1, <3>1, MemFacts
  <2>4. ASSUME NEW m \in Mem(zs, i) PROVE \E j \in DOMAIN zs : zs[j].parent = i /\ zs[j].id = m
    <3> DEFINE k == IndexOf(zs, i)
    <3>1. k \in DOMAIN zs /\ zs[k].id = i /\ Members(zs, i) = zs[k].members
      BY <1>1, <2>1, GetFacts
    <3>2. m \in ToSet(zs[k].members)
      BY <2>4, <3>1 DEF Mem
    <3>3. Has(zs, m) /\ Parent(zs, m) = i
      BY <1>1, <3>1, <3>2 DEF Flat
    <3> QED BY <1>1, <3>3, GetFacts
  <2>5. Naming = Mem(zs, i)
    BY <2>3, <2>4
  <2> QED BY <2>2, <2>5 DEF Mem
<1>2. StacksInv => CheckpointKeepsStacks
  BY <1>1 DEF StacksInv, CheckpointKeepsStacks
<1> QED BY <1>2, StacksAreSound, PTL

(* Flattening keeps the trees of an older build together (zone_list.rs     *)
(* line 223): for any number of zones and any depth, cycles elsewhere in   *)
(* the list included.                                                      *)
THEOREM TreesStay == MCSpec => []TreesStayTogether
<1>1. MCInit => TreesStayTogether
  BY LoadIsSound
<1>2. TreesStayTogether /\ [Next /\ old' = <<>>]_<<vars, old>> => TreesStayTogether'
  <2>1. ASSUME old' = <<>> PROVE TreesStayTogether'
    BY <2>1, NoListMends DEF TreesStayTogether
  <2>2. ASSUME TreesStayTogether, UNCHANGED <<vars, old>> PROVE TreesStayTogether'
    BY <2>2 DEF TreesStayTogether, vars
  <2> QED BY <2>1, <2>2
<1> QED BY <1>1, <1>2, PTL DEF MCSpec
=============================================================================
