--------------------------- MODULE Timeline_proofs ---------------------------
(***************************************************************************)
(* Theorems about Timeline for every set of layouts and scopes, every      *)
(* capacity of the buffer, coalescing window and number of commands and    *)
(* failures: all its properties.                                           *)
(*                                                                         *)
(* TimelineInv is inductive: buffer and disk agree (Sound) whenever a      *)
(* command has ended.  Each operation of ring_buffer.rs takes a sound      *)
(* timeline to a sound one (the ...Facts) and keeps pinned files (Keeps);  *)
(* each command is made of such operations (the ...Step).                  *)
(***************************************************************************)
EXTENDS Timeline, FiniteSetTheorems, TLAPS

(* A set of numbers that is not empty has a least, and if bounded a        *)
(* largest member.                                                         *)
LEMMA LeastExists ==
  ASSUME NEW S \in SUBSET Nat, S # {}
  PROVE  \E m \in S : \A x \in S : m <= x
<1>1. PICK m \in S : \A x \in S : <<x, m>> \notin OpToRel(<, Nat)
  BY NatLessThanWellFounded, WFMin, Zenon
<1>2. \A x \in S : ~(x < m)
  BY <1>1 DEF OpToRel
<1> QED BY <1>2

(* LatestOf picks the largest of a bounded set that is not empty.           *)
LEMMA LargestExists ==
  ASSUME NEW n \in Nat, NEW S \in SUBSET (0..n), S # {}
  PROVE  LatestOf(S) \in S /\ \A x \in S : x <= LatestOf(S)
<1> DEFINE D == {n - x : x \in S}
<1>0. PICK s \in S : TRUE
  OBVIOUS
<1>1. D \in SUBSET Nat /\ D # {}
  <2>1. \A x \in S : n - x \in Nat
    OBVIOUS
  <2>2. n - s \in D
    BY <1>0
  <2> QED BY <2>1, <2>2
<1>2. PICK d \in D : \A x \in D : d <= x
  BY <1>1, LeastExists
<1>3. PICK m \in S : d = n - m
  BY <1>2
<1>4. \A x \in S : n - x \in D
  OBVIOUS
<1>5. \A x \in S : x <= m
  BY <1>2, <1>3, <1>4
<1> QED BY <1>5 DEF LatestOf

(* Numbering the members of a finite set without repetition uses every     *)
(* number.                                                                 *)
LEMMA RanksAreOnto ==
  ASSUME NEW S, IsFiniteSet(S), NEW r \in [S -> 1..Cardinality(S)],
         \A x, y \in S : r[x] = r[y] => x = y
  PROVE  \A k \in 1..Cardinality(S) : \E x \in S : r[x] = k
<1> DEFINE T == 1..Cardinality(S)
<1>1. Cardinality(S) \in Nat
  BY FS_CardinalityType
<1>2. IsFiniteSet(T) /\ Cardinality(T) = Cardinality(S)
  BY <1>1, FS_Interval
<1>3. r \in Injection(S, T)
  BY DEF Injection, IsInjective
<1>4. r \in Surjection(S, T)
  <2> HIDE DEF T
  <2> QED BY <1>2, <1>3, FS_Injection
<1> QED BY <1>4 DEF Surjection

-----------------------------------------------------------------------------
(* ByTime permutes the list, and puts last what no other is behind.        *)
NotAfter(s, j, i) == s[j].at < s[i].at \/ (s[j].at = s[i].at /\ j <= i)

IsPermutation(p, n) ==
    /\ p \in [1..n -> 1..n]
    /\ \A i, j \in 1..n : p[i] = p[j] => i = j
    /\ \A i \in 1..n : \E k \in 1..n : p[k] = i

(* Sorting by time is a permutation p of the list.                         *)
LEMMA ByTimePermutes ==
  ASSUME NEW S, \A c \in S : c.at \in Nat, NEW s \in Seq(S)
  PROVE  \E p : /\ IsPermutation(p, Len(s))
                /\ ByTime(s) = [k \in 1..Len(s) |-> s[p[k]]]
                /\ \A i \in 1..Len(s) :
                      (\A j \in 1..Len(s) : NotAfter(s, j, i)) => p[Len(s)] = i
<1> DEFINE n == Len(s)
           D == 1..n
           Front(i) == {j \in D : NotAfter(s, j, i)}
           r == [i \in D |-> Cardinality(Front(i))]
           p == [k \in D |-> CHOOSE i \in D : Cardinality(Front(i)) = k]
<1>1. n \in Nat /\ D = DOMAIN s /\ \A i \in D : s[i] \in S /\ s[i].at \in Nat
  OBVIOUS
<1>0. n \in Nat
  BY <1>1
<1> HIDE DEF n
<1>2. IsFiniteSet(D) /\ Cardinality(D) = n
  BY <1>0, FS_Interval
<1> HIDE DEF D
<1>3. \A i \in D : IsFiniteSet(Front(i)) /\ Cardinality(Front(i)) \in Nat
                   /\ Cardinality(Front(i)) <= n
  BY <1>2, FS_Subset, FS_CardinalityType
<1>4. \A i \in D : i \in Front(i)
  BY <1>1 DEF NotAfter, D
<1>5. \A i, j \in D : NotAfter(s, i, j) \/ NotAfter(s, j, i)
  BY <1>1 DEF NotAfter, D
<1>6. \A i, j \in D : NotAfter(s, i, j) /\ NotAfter(s, j, i) => i = j
  BY <1>1 DEF NotAfter, D
<1>7. \A i, j, k \in D : NotAfter(s, i, j) /\ NotAfter(s, j, k) => NotAfter(s, i, k)
  BY <1>1 DEF NotAfter, D
<1>8. \A i, j \in D : r[i] = r[j] => i = j
  <2> SUFFICES ASSUME NEW i \in D, NEW j \in D, r[i] = r[j], NotAfter(s, i, j)
               PROVE  i = j
    BY <1>5
  <2>1. Front(i) \in SUBSET Front(j)
    BY <1>7
  <2>2. Front(i) = Front(j)
    <3>1. Cardinality(Front(i)) = Cardinality(Front(j))
      OBVIOUS
    <3> QED BY <2>1, <3>1, <1>3, FS_Subset
  <2> QED BY <2>2, <1>4, <1>6
<1>9. r \in [D -> 1..Cardinality(D)]
  <2> SUFFICES ASSUME NEW i \in D PROVE Cardinality(Front(i)) \in 1..n
    BY <1>2
  <2>1. Cardinality(Front(i)) # 0
    BY <1>3, <1>4, FS_EmptySet
  <2> HIDE DEF Front
  <2> QED BY <2>1, <1>0, <1>3
<1>10. \A k \in D : \E i \in D : r[i] = k
  <2> HIDE DEF r
  <2>1. \A k \in 1..Cardinality(D) : \E i \in D : r[i] = k
    BY <1>2, <1>8, <1>9, RanksAreOnto
  <2> QED BY <2>1, <1>2 DEF D
<1>11. \A k \in D : p[k] \in D /\ r[p[k]] = k
  <2> HIDE DEF Front
  <2> QED BY <1>10
<1>12. \A i \in D : r[i] \in D /\ p[r[i]] = i
  BY <1>2, <1>8, <1>9, <1>11 DEF D
<1>13. IsPermutation(p, n)
  <2>1. p \in [D -> D] /\ (\A i, j \in D : p[i] = p[j] => i = j)
    BY <1>11
  <2>2. \A i \in D : \E k \in D : p[k] = i
    BY <1>12
  <2> HIDE DEF p
  <2> QED BY <2>1, <2>2 DEF IsPermutation, D
<1>14. ByTime(s) = [k \in D |-> s[p[k]]]
  <2>1. ByTime(s) = [k \in D |-> s[CHOOSE i \in D : Cardinality(Front(i)) = k]]
    BY <1>1 DEF ByTime, NotAfter
  <2> QED BY <2>1
<1>15. ASSUME NEW i \in D, \A j \in D : NotAfter(s, j, i)
       PROVE  p[n] = i
  <2>1. Front(i) = D
    BY <1>15
  <2>2. r[i] = n
    BY <2>1, <1>2
  <2> QED BY <2>2, <1>12
<1> QED
  <2> HIDE DEF p
  <2>1. \A i \in D : (\A j \in D : NotAfter(s, j, i)) => p[n] = i
    BY <1>15
  <2> QED BY <1>13, <1>14, <2>1 DEF D, n

DistinctIds(s) == \A i, j \in DOMAIN s : s[i].id = s[j].id => i = j

(* What the permutation keeps.                                             *)
LEMMA ByTimeFacts ==
  ASSUME NEW S, \A c \in S : c.at \in Nat, NEW s \in Seq(S)
  PROVE  /\ ByTime(s) \in Seq(S) /\ Len(ByTime(s)) = Len(s)
         /\ Rng(ByTime(s)) = Rng(s)
         /\ DistinctIds(s) => DistinctIds(ByTime(s))
         /\ \A i \in 1..Len(s) :
               (\A j \in 1..Len(s) : NotAfter(s, j, i)) => ByTime(s)[Len(s)] = s[i]
<1> DEFINE n == Len(s)
<1>1. n \in Nat /\ DOMAIN s = 1..n /\ \A i \in 1..n : s[i] \in S
  OBVIOUS
<1>2. PICK p : /\ IsPermutation(p, n)
               /\ ByTime(s) = [k \in 1..n |-> s[p[k]]]
               /\ \A i \in 1..n : (\A j \in 1..n : NotAfter(s, j, i)) => p[n] = i
  BY ByTimePermutes
<1> HIDE DEF n
<1>3. \A k \in 1..n : p[k] \in 1..n /\ ByTime(s)[k] = s[p[k]]
  BY <1>2 DEF IsPermutation
<1>4. ByTime(s) \in Seq(S) /\ Len(ByTime(s)) = n /\ DOMAIN ByTime(s) = 1..n
  BY <1>1, <1>2, <1>3
<1>5. Rng(ByTime(s)) = Rng(s)
  BY <1>1, <1>2, <1>3, <1>4 DEF Rng, IsPermutation
<1>6. DistinctIds(s) => DistinctIds(ByTime(s))
  BY <1>1, <1>2, <1>3, <1>4 DEF DistinctIds, IsPermutation
<1>7. ASSUME NEW i \in 1..n, \A j \in 1..n : NotAfter(s, j, i)
      PROVE  ByTime(s)[n] = s[i]
  BY <1>1, <1>2, <1>3, <1>7
<1> QED BY <1>4, <1>5, <1>6, <1>7 DEF n

-----------------------------------------------------------------------------
(* The checkpoints there may be when n is the next number to be given, of  *)
(* them the automatic ones and the pinned ones.                            *)
Recorded(n) == {c \in Checkpoint : c.id < n /\ c.at <= now}
Autos(n)    == {c \in Recorded(n) : ~c.pinned}
Pins(n)     == {c \in Recorded(n) : c.pinned}

OneFileEach(files) == \A c, d \in files : c.id = d.id => c = d

(* The fields of a checkpoint.                                              *)
LEMMA CheckpointFacts ==
  ASSUME NEW c \in Checkpoint
  PROVE  /\ c.id \in Nat /\ c.id \in 1..MaxId /\ c.at \in Nat /\ c.layout \in Layouts
         /\ c.pinned \in BOOLEAN
BY DEF Checkpoint

(* The files are listed once each.                                         *)
LEMMA InOrderFacts ==
  ASSUME setting \in Settings, NEW S \in SUBSET Checkpoint, OneFileEach(S)
  PROVE  /\ InOrderOfId(S) \in Seq(S)
         /\ Rng(InOrderOfId(S)) = S
         /\ DistinctIds(InOrderOfId(S))
<1> DEFINE ids == {c.id : c \in S}
           UpTo(c) == {i \in ids : i <= c.id}
           r == [c \in S |-> Cardinality(UpTo(c))]
           N == Cardinality(S)
           idOf == [c \in S |-> c.id]
<1>1. MaxId \in Nat /\ \A c \in S : c.id \in Nat /\ c.id \in 1..MaxId
  BY SettingsAssumption, CheckpointFacts DEF MaxId
<1>2. IsFiniteSet(S)
  <2>1. IsFiniteSet(1..MaxId)
    BY <1>1, FS_Interval
  <2>2. idOf \in Injection(S, 1..MaxId)
    BY <1>1 DEF Injection, IsInjective, OneFileEach
  <2> HIDE DEF idOf
  <2> QED BY <2>1, <2>2, FS_Injection
<1>3. IsFiniteSet(ids) /\ Cardinality(ids) <= N
  <2>1. idOf \in Surjection(S, ids)
    BY DEF Surjection
  <2> HIDE DEF idOf
  <2> QED BY <2>1, <1>2, FS_Surjection
<1>4. N \in Nat /\ Cardinality(ids) \in Nat
  BY <1>2, <1>3, FS_CardinalityType
<1> HIDE DEF N
<1>5. \A c \in S : IsFiniteSet(UpTo(c)) /\ Cardinality(UpTo(c)) \in Nat
                   /\ Cardinality(UpTo(c)) <= N
  <2> SUFFICES ASSUME NEW c \in S
               PROVE  IsFiniteSet(UpTo(c)) /\ Cardinality(UpTo(c)) \in Nat
                      /\ Cardinality(UpTo(c)) <= N
    OBVIOUS
  <2>1. UpTo(c) \in SUBSET ids
    OBVIOUS
  <2> HIDE DEF UpTo, ids
  <2>2. IsFiniteSet(UpTo(c)) /\ Cardinality(UpTo(c)) <= Cardinality(ids)
    BY <2>1, <1>3, FS_Subset
  <2> QED BY <2>2, <1>3, <1>4, FS_CardinalityType
<1>6. \A c \in S : c.id \in UpTo(c)
  BY <1>1
<1>7. \A c, d \in S : r[c] = r[d] => c = d
  <2> SUFFICES ASSUME NEW c \in S, NEW d \in S, r[c] = r[d], c.id <= d.id
               PROVE  c = d
    BY <1>1
  <2>1. UpTo(c) \in SUBSET UpTo(d)
    BY <1>1
  <2>2. UpTo(c) = UpTo(d)
    <3>1. Cardinality(UpTo(c)) = Cardinality(UpTo(d))
      OBVIOUS
    <3> HIDE DEF UpTo
    <3> QED BY <2>1, <3>1, <1>5, FS_Subset
  <2>3. d.id <= c.id
    BY <2>2, <1>6
  <2> QED BY <2>3, <1>1 DEF OneFileEach
<1>8. r \in [S -> 1..N]
  <2> SUFFICES ASSUME NEW c \in S PROVE Cardinality(UpTo(c)) \in 1..N
    OBVIOUS
  <2> HIDE DEF UpTo
  <2>1. Cardinality(UpTo(c)) # 0
    BY <1>5, <1>6, FS_EmptySet
  <2> QED BY <2>1, <1>4, <1>5
<1>9. \A k \in 1..N : \E c \in S : r[c] = k
  <2> HIDE DEF r
  <2> QED BY <1>2, <1>7, <1>8, RanksAreOnto DEF N
<1> DEFINE at(k) == CHOOSE c \in S : Cardinality(UpTo(c)) = k
           L == [k \in 1..N |-> at(k)]
<1>10. \A k \in 1..N : at(k) \in S /\ r[at(k)] = k
  <2> HIDE DEF UpTo
  <2> QED BY <1>9
<1>11. InOrderOfId(S) = L
  BY DEF InOrderOfId, N
<1>12. L \in Seq(S) /\ DOMAIN L = 1..N /\ \A k \in 1..N : L[k] = at(k)
  <2>1. \A k \in 1..N : at(k) \in S
    BY <1>10
  <2> HIDE DEF at
  <2>2. L \in [1..N -> S]
    BY <2>1
  <2>3. L \in Seq(S)
    <3> HIDE DEF L
    <3> QED BY <2>2, <1>4
  <2> QED BY <2>2, <2>3
<1>13. Rng(L) = S
  <2>1. \A c \in S : r[c] \in 1..N /\ L[r[c]] = c
    <3> HIDE DEF r, at, L
    <3> QED BY <1>7, <1>8, <1>10, <1>12
  <2>2. \A k \in 1..N : L[k] \in S
    <3> HIDE DEF L, at
    <3> QED BY <1>10, <1>12
  <2> HIDE DEF L, r
  <2> QED BY <2>1, <2>2, <1>12 DEF Rng
<1>14. DistinctIds(L)
  <2> SUFFICES ASSUME NEW i \in 1..N, NEW j \in 1..N, L[i].id = L[j].id
               PROVE  i = j
    BY <1>12 DEF DistinctIds
  <2> HIDE DEF L, at, r
  <2>1. L[i] = L[j]
    BY <1>10, <1>12 DEF OneFileEach
  <2> QED BY <2>1, <1>10, <1>12
<1> QED BY <1>11, <1>12, <1>13, <1>14

-----------------------------------------------------------------------------
(* The inductive invariant, of a timeline: what is in memory is listed     *)
(* once, automatic and pinned apart; a file is not listed twice; automatic *)
(* checkpoints have their file as it is in memory, pinned ones too unless  *)
(* it was spoiled.                                                         *)
Value(n) == [auto : Seq(Autos(n)), pinned : Seq(Pins(n)),
             cursor : Nat \cup {NoCursor}, disk : SUBSET Recorded(n)]

Apart(s, u) == \A i \in DOMAIN s, j \in DOMAIN u : s[i].id # u[j].id

Sound(t, n, sp) ==
    /\ t \in Value(n)
    /\ Len(t.auto) <= Capacity
    /\ DistinctIds(t.auto) /\ DistinctIds(t.pinned) /\ Apart(t.auto, t.pinned)
    /\ OneFileEach(t.disk)
    /\ t.cursor = NoCursor \/ t.cursor \in 1..(Len(t.auto) + Len(t.pinned))
    /\ \A i \in DOMAIN t.auto : t.auto[i] \in t.disk
    /\ \A i \in DOMAIN t.pinned : t.pinned[i] \in t.disk \/ t.pinned[i].id \in sp

Clock ==
    /\ setting \in Settings
    /\ now \in 0..MaxTime
    /\ nextId \in Nat \ {0}

(* The bounds of a setting; what was recorded stays so as numbers are given.*)
LEMMA SettingFacts ==
  ASSUME Clock
  PROVE  /\ Capacity \in Nat \ {0} /\ MaxId \in Nat /\ now \in Nat
         /\ \A n \in Nat : Recorded(n) \subseteq Recorded(n + 1)
         /\ \A n \in Nat : Autos(n) \subseteq Autos(n + 1) /\ Pins(n) \subseteq Pins(n + 1)
<1>1. Capacity \in Nat \ {0} /\ MaxId \in Nat /\ now \in Nat
  <2>1. setting \in [capacity: Nat \ {0}, ids: Nat, failures: Nat,
                    commands: {"all", "mutate, undo and redo"}]
    BY SettingsAssumption DEF Clock
  <2>2. now \in Nat
    BY TimeAssumption DEF Clock
  <2> QED BY <2>1, <2>2 DEF Capacity, MaxId
<1>2. \A n \in Nat : Recorded(n) \subseteq Recorded(n + 1)
  BY CheckpointFacts DEF Recorded
<1> QED BY <1>1, <1>2 DEF Autos, Pins

(* A member of the timeline is a checkpoint with a number that was given.  *)
LEMMA MemberFacts ==
  ASSUME NEW n \in Nat, NEW sp, NEW t, Sound(t, n, sp)
  PROVE  /\ t = [auto |-> t.auto, pinned |-> t.pinned, cursor |-> t.cursor, disk |-> t.disk]
         /\ Len(t.auto) \in Nat /\ DOMAIN t.auto = 1..Len(t.auto)
         /\ Len(t.pinned) \in Nat /\ DOMAIN t.pinned = 1..Len(t.pinned)
         /\ \A i \in DOMAIN t.auto : t.auto[i] \in Autos(n)
         /\ \A i \in DOMAIN t.pinned : t.pinned[i] \in Pins(n)
         /\ \A c \in Recorded(n) : /\ c \in Checkpoint /\ c.id < n /\ c.at <= now
                                   /\ c.id \in Nat /\ c.at \in Nat
         /\ Autos(n) \subseteq Recorded(n) /\ Pins(n) \subseteq Recorded(n)
<1>1. t.auto \in Seq(Autos(n)) /\ t.pinned \in Seq(Pins(n))
  BY DEF Sound, Value
<1>2. \A c \in Recorded(n) : /\ c \in Checkpoint /\ c.id < n /\ c.at <= now
                             /\ c.id \in Nat /\ c.at \in Nat
  BY CheckpointFacts DEF Recorded
<1>3. t = [auto |-> t.auto, pinned |-> t.pinned, cursor |-> t.cursor, disk |-> t.disk]
  BY DEF Sound, Value
<1>4. Autos(n) \subseteq Recorded(n) /\ Pins(n) \subseteq Recorded(n)
  BY DEF Autos, Pins
<1> QED BY <1>1, <1>2, <1>3, <1>4

(* A timeline stays sound when the next number goes up.                     *)
LEMMA LaterFacts ==
  ASSUME Clock, NEW n \in Nat, NEW sp, NEW t, Sound(t, n, sp)
  PROVE  Sound(t, n + 1, sp)
<1>1. /\ Autos(n) \subseteq Autos(n + 1) /\ Pins(n) \subseteq Pins(n + 1)
      /\ Recorded(n) \subseteq Recorded(n + 1)
  BY SettingFacts
<1>2. t \in Value(n + 1)
  BY <1>1 DEF Sound, Value
<1> QED BY <1>2 DEF Sound

(* reload, whatever is in memory.                                          *)
LEMMA ReloadFacts ==
  ASSUME Clock, NEW n \in Nat, NEW sp, NEW t,
         t.disk \in SUBSET Recorded(n), OneFileEach(t.disk), NEW u \in Reloads(t)
  PROVE  Sound(u, n, sp)
<1> DEFINE A == {c \in t.disk : ~c.pinned}
           P == {c \in t.disk : c.pinned}
           autos == ByTime(InOrderOfId(A))
           pins  == ByTime(InOrderOfId(P))
           kept  == IF Len(autos) > Capacity THEN Newest(autos, Capacity) ELSE autos
<1>0. Capacity \in Nat \ {0} /\ setting \in Settings
  BY SettingFacts DEF Clock
<1>1. /\ A \in SUBSET Checkpoint /\ P \in SUBSET Checkpoint
      /\ A \in SUBSET Autos(n) /\ P \in SUBSET Pins(n)
      /\ OneFileEach(A) /\ OneFileEach(P)
  BY DEF Recorded, Autos, Pins, OneFileEach
<1>2. \A c \in A \cup P : c.at \in Nat
  BY <1>1, CheckpointFacts
<1> HIDE DEF A, P
<1>3. autos \in Seq(A) /\ Rng(autos) = A /\ DistinctIds(autos)
  BY <1>0, <1>1, <1>2, InOrderFacts, ByTimeFacts
<1>4. pins \in Seq(P) /\ Rng(pins) = P /\ DistinctIds(pins)
  BY <1>0, <1>1, <1>2, InOrderFacts, ByTimeFacts
<1> HIDE DEF autos, pins
<1>5. kept \in Seq(A) /\ DistinctIds(kept) /\ Len(kept) <= Capacity
  <2>1. CASE Len(autos) > Capacity
    <3> DEFINE d == Len(autos) - Capacity
    <3>1. /\ kept \in Seq(A) /\ Len(kept) = Capacity /\ DOMAIN kept = 1..Capacity
          /\ \A i \in 1..Capacity : kept[i] = autos[i + d]
      BY <1>0, <1>3, <2>1 DEF Newest
    <3>2. DistinctIds(kept)
      <4> HIDE DEF kept
      <4>1. \A i \in 1..Capacity : i + d \in DOMAIN autos
        BY <1>0, <1>3, <2>1
      <4>2. d \in Nat
        BY <1>0, <1>3, <2>1
      <4> HIDE DEF d
      <4> SUFFICES ASSUME NEW i \in 1..Capacity, NEW j \in 1..Capacity, kept[i].id = kept[j].id
                   PROVE  i = j
        BY <3>1 DEF DistinctIds
      <4>3. i + d = j + d
        BY <1>3, <3>1, <4>1 DEF DistinctIds
      <4> QED BY <4>2, <4>3, <1>0
    <3> QED BY <3>1, <3>2, <1>0
  <2>2. CASE ~(Len(autos) > Capacity)
    BY <1>0, <1>3, <2>2
  <2> QED BY <2>1, <2>2
<1> HIDE DEF kept
<1>6a. PICK gone \in SUBSET (Rng(autos) \ Rng(kept)) :
          u = [auto |-> kept, pinned |-> pins, cursor |-> NoCursor, disk |-> t.disk \ gone]
  BY DEF Reloads, kept, autos, pins, A, P
<1> DEFINE disk2 == t.disk \ gone
<1>6. u = [auto |-> kept, pinned |-> pins, cursor |-> NoCursor, disk |-> disk2]
  BY <1>6a
<1>7. Apart(kept, pins)
  <2>1. \A i \in DOMAIN kept : kept[i] \in A
    BY <1>5
  <2>2. \A j \in DOMAIN pins : pins[j] \in P
    BY <1>4
  <2> QED BY <2>1, <2>2 DEF Apart, OneFileEach, A, P
<1>8. \A i \in DOMAIN kept : kept[i] \in disk2
  BY <1>5 DEF Rng, A
<1>9. \A i \in DOMAIN pins : pins[i] \in disk2
  BY <1>3, <1>4 DEF A, P
<1>10. kept \in Seq(Autos(n)) /\ pins \in Seq(Pins(n)) /\ disk2 \in SUBSET Recorded(n)
  BY <1>1, <1>4, <1>5
<1>11. OneFileEach(disk2)
  BY DEF OneFileEach
<1> HIDE DEF disk2
<1>12. u \in Value(n)
  BY <1>6, <1>10 DEF Value
<1> QED BY <1>4, <1>5, <1>6, <1>7, <1>8, <1>9, <1>11, <1>12 DEF Sound

(* ensure_timeline_loaded.                                                  *)
LEMMA LoadedFacts ==
  ASSUME Clock, NEW n \in Nat, NEW sp, NEW t, Sound(t, n, sp),
         NEW u \in Loaded(t)
  PROVE  Sound(u, n, sp)
<1>1. t.disk \in SUBSET Recorded(n) /\ OneFileEach(t.disk)
  BY DEF Sound, Value
<1> QED BY <1>1, ReloadFacts DEF Loaded

-----------------------------------------------------------------------------
(* Where the members of two lists, one behind the other, come from.         *)
LEMMA ConcatFacts ==
  ASSUME NEW S, NEW a \in Seq(S), NEW b \in Seq(S)
  PROVE  /\ a \o b \in Seq(S) /\ Len(a \o b) = Len(a) + Len(b)
         /\ \A i \in 1..Len(a) : i \in 1..Len(a \o b) /\ (a \o b)[i] = a[i]
         /\ \A i \in 1..Len(a \o b) :
               \/ i \in 1..Len(a) /\ (a \o b)[i] = a[i]
               \/ i > Len(a) /\ i - Len(a) \in 1..Len(b) /\ (a \o b)[i] = b[i - Len(a)]
OBVIOUS

(* What is listed, of the buffer by time.                                  *)
LEMMA MergedFacts ==
  ASSUME NEW n \in Nat, NEW sp, NEW t, Sound(t, n, sp)
  PROVE  /\ Merged(t) \in Seq(Recorded(n))
         /\ Len(Merged(t)) = Len(t.auto) + Len(t.pinned)
         /\ Len(Merged(t)) \in Nat /\ DOMAIN Merged(t) = 1..Len(Merged(t))
         /\ \A i \in 1..Len(Merged(t)) : Merged(t)[i] \in Recorded(n)
<1>1. \A c \in Recorded(n) : c.at \in Nat
  BY MemberFacts
<1>2. t.auto \in Seq(Recorded(n)) /\ t.pinned \in Seq(Recorded(n))
  BY DEF Sound, Value, Autos, Pins
<1>3. /\ t.auto \o t.pinned \in Seq(Recorded(n))
      /\ Len(t.auto \o t.pinned) = Len(t.auto) + Len(t.pinned)
  BY <1>2, ConcatFacts
<1> DEFINE m == Merged(t)
<1>4. m \in Seq(Recorded(n)) /\ Len(m) = Len(t.auto) + Len(t.pinned)
  BY <1>1, <1>3, ByTimeFacts DEF Merged
<1> HIDE DEF m
<1>5. Len(m) \in Nat /\ DOMAIN m = 1..Len(m) /\ \A i \in 1..Len(m) : m[i] \in Recorded(n)
  <2>1. \A S : \A q \in Seq(S) :
           Len(q) \in Nat /\ DOMAIN q = 1..Len(q) /\ \A i \in 1..Len(q) : q[i] \in S
    OBVIOUS
  <2> QED BY <1>4, <2>1
<1> QED BY <1>4, <1>5 DEF m

(* An automatic checkpoint of this second that nothing is behind is last.  *)
LEMMA HeadFacts ==
  ASSUME NEW n \in Nat, NEW sp, NEW t, Sound(t, n, sp),
         NEW i \in DOMAIN t.auto, t.auto[i].at = now,
         \A j \in DOMAIN t.auto : j > i => t.auto[j].at < now,
         \A c \in Rng(t.pinned) : c.at < now
  PROVE  Len(Merged(t)) > 0 /\ Merged(t)[Len(Merged(t))] = t.auto[i]
<1> DEFINE m == Len(t.auto)
           k == Len(t.pinned)
           s == t.auto \o t.pinned
<1>1. /\ m \in Nat /\ DOMAIN t.auto = 1..m
      /\ k \in Nat /\ DOMAIN t.pinned = 1..k
      /\ \A j \in 1..m : t.auto[j] \in Recorded(n)
      /\ \A c \in Recorded(n) : c.at \in Nat /\ c.at <= now
  BY MemberFacts
<1>2. t.auto \in Seq(Recorded(n)) /\ t.pinned \in Seq(Recorded(n))
  BY DEF Sound, Value, Autos, Pins
<1>3. /\ s \in Seq(Recorded(n)) /\ Len(s) = m + k
      /\ \A j \in 1..m : j \in 1..Len(s) /\ s[j] = t.auto[j]
      /\ \A j \in 1..Len(s) :
            \/ j \in 1..m /\ s[j] = t.auto[j]
            \/ j > m /\ j - m \in 1..k /\ s[j] = t.pinned[j - m]
  BY <1>2, ConcatFacts
<1> HIDE DEF s
<1>4. /\ Len(ByTime(s)) = Len(s)
      /\ \A x \in 1..Len(s) :
            (\A j \in 1..Len(s) : NotAfter(s, j, x)) => ByTime(s)[Len(s)] = s[x]
  BY <1>1, <1>3, ByTimeFacts
<1> HIDE DEF m, k
<1>5. i \in 1..m /\ i \in 1..Len(s) /\ s[i] = t.auto[i]
  BY <1>1, <1>3
<1>6. \A j \in 1..k : t.pinned[j].at < now
  BY <1>1 DEF Rng
<1>7. ASSUME NEW j \in 1..Len(s) PROVE NotAfter(s, j, i)
  <2>1. CASE j \in 1..m /\ s[j] = t.auto[j]
    <3>1. t.auto[j].at \in Nat /\ t.auto[j].at <= now
      BY <1>1, <2>1
    <3>2. j > i => t.auto[j].at < now
      BY <1>1, <2>1
    <3> QED BY <1>5, <2>1, <3>1, <3>2, <1>1 DEF NotAfter
  <2>2. CASE j - m \in 1..k /\ s[j] = t.pinned[j - m]
    BY <1>5, <1>6, <2>2 DEF NotAfter
  <2> QED BY <2>1, <2>2, <1>3
<1>8. Len(s) \in Nat /\ Len(s) > 0
  BY <1>1, <1>3, <1>5
<1> QED BY <1>4, <1>5, <1>7, <1>8 DEF Merged, s

(* Taking one checkpoint out of a list.                                    *)
LEMMA DropFacts ==
  ASSUME NEW S, NEW s \in Seq(S), NEW i \in 1..Len(s), DistinctIds(s)
  PROVE  /\ Drop(s, i) \in Seq(S) /\ Len(Drop(s, i)) = Len(s) - 1
         /\ DistinctIds(Drop(s, i))
         /\ \A j \in DOMAIN Drop(s, i) :
               /\ Drop(s, i)[j].id # s[i].id
               /\ \E k \in DOMAIN s : Drop(s, i)[j] = s[k]
<1> DEFINE n == Len(s)
           from(j) == IF j < i THEN j ELSE j + 1
           D == Drop(s, i)
<1>1. n \in Nat /\ n > 0 /\ DOMAIN s = 1..n /\ \A j \in 1..n : s[j] \in S
  OBVIOUS
<1>2. D = [j \in 1..(n - 1) |-> s[from(j)]]
  BY DEF Drop
<1>3. \A j \in 1..(n - 1) : from(j) \in 1..n /\ from(j) # i
  BY <1>1
<1>4. \A j, k \in 1..(n - 1) : from(j) = from(k) => j = k
  BY <1>1
<1> HIDE DEF n, from, D
<1>5. D \in Seq(S) /\ Len(D) = n - 1 /\ DOMAIN D = 1..(n - 1)
      /\ \A j \in 1..(n - 1) : D[j] = s[from(j)]
  BY <1>1, <1>2, <1>3
<1>6. DistinctIds(D)
  BY <1>1, <1>3, <1>4, <1>5 DEF DistinctIds
<1>7. i \in 1..n
  BY DEF n
<1>8. \A j \in DOMAIN D : D[j].id # s[i].id /\ \E k \in DOMAIN s : D[j] = s[k]
  BY <1>1, <1>3, <1>5, <1>7 DEF DistinctIds
<1> QED BY <1>5, <1>6, <1>8 DEF D, n

(* Taking the checkpoint with an identifier out of a list.                  *)
LEMMA WithoutFacts ==
  ASSUME NEW S, NEW s \in Seq(S), NEW id, DistinctIds(s)
  PROVE  /\ Without(s, id) \in Seq(S) /\ Len(Without(s, id)) <= Len(s)
         /\ DistinctIds(Without(s, id))
         /\ \A j \in DOMAIN Without(s, id) :
               /\ Without(s, id)[j].id # id
               /\ \E k \in DOMAIN s : Without(s, id)[j] = s[k]
<1>1. CASE Position(s, id) = {}
  BY <1>1 DEF Without, Position
<1>2. CASE Position(s, id) # {}
  <2>1. Position(s, id) \in SUBSET (0..Len(s)) /\ Len(s) \in Nat
    BY DEF Position
  <2>2. LatestOf(Position(s, id)) \in Position(s, id)
    BY <1>2, <2>1, LargestExists
  <2> DEFINE i == LatestOf(Position(s, id))
  <2>3. i \in 1..Len(s) /\ s[i].id = id
    BY <2>2 DEF Position
  <2>4. Without(s, id) = Drop(s, i)
    BY <1>2 DEF Without
  <2> HIDE DEF i
  <2>5. Len(s) - 1 <= Len(s)
    BY <2>1
  <2> QED BY <2>3, <2>4, <2>5, DropFacts
<1> QED BY <1>1, <1>2

-----------------------------------------------------------------------------
(* The operations of the buffer keep a timeline sound.                     *)
LEMMA AppendFacts ==
  ASSUME NEW S, NEW s \in Seq(S), NEW c \in S, DistinctIds(s),
         \A i \in DOMAIN s : s[i].id # c.id
  PROVE  /\ Append(s, c) \in Seq(S) /\ DistinctIds(Append(s, c))
         /\ Len(Append(s, c)) = Len(s) + 1 /\ Append(s, c)[Len(s) + 1] = c
         /\ \A i \in 1..Len(s) : Append(s, c)[i] = s[i]
<1>1. /\ Append(s, c) \in Seq(S) /\ DOMAIN Append(s, c) = 1..(Len(s) + 1) /\ Len(s) \in Nat
      /\ Len(Append(s, c)) = Len(s) + 1 /\ Append(s, c)[Len(s) + 1] = c
      /\ \A i \in 1..Len(s) : Append(s, c)[i] = s[i]
  OBVIOUS
<1>2. \A i \in 1..(Len(s) + 1) : i \in 1..Len(s) \/ i = Len(s) + 1
  BY <1>1
<1> HIDE DEF DistinctIds
<1>3. DistinctIds(Append(s, c))
  <2> DEFINE a == Append(s, c)
  <2> SUFFICES ASSUME NEW i \in 1..(Len(s) + 1), NEW j \in 1..(Len(s) + 1), a[i].id = a[j].id
               PROVE  i = j
    BY <1>1 DEF DistinctIds
  <2> HIDE DEF a
  <2>1. DOMAIN s = 1..Len(s)
    OBVIOUS
  <2> QED BY <1>1, <1>2, <2>1 DEF DistinctIds, a
<1> QED BY <1>1, <1>3

(* A new automatic checkpoint: push_auto.                                  *)
LEMMA PushAutoFacts ==
  ASSUME Clock, NEW n \in Nat, NEW sp, NEW t, Sound(t, n, sp), NEW outcome,
         NEW c \in Autos(n + 1), c.id = n, NEW u, u = PushAuto(t, c, outcome)
  PROVE  /\ Sound(u, n + 1, sp)
         /\ outcome = "save" => u = t
         /\ outcome # "save" => /\ Len(u.auto) > 0 /\ u.auto[Len(u.auto)] = c
                                /\ u.pinned = t.pinned /\ u.cursor = NoCursor
<1> DEFINE longer == Append(t.auto, c)
           d == Len(t.auto)
<1>0. Capacity \in Nat \ {0}
  BY SettingFacts
<1>1. Sound(t, n + 1, sp)
  BY LaterFacts
<1>2. CASE outcome = "save"
  BY <1>1, <1>2 DEF PushAuto
<1>3. /\ t.auto \in Seq(Autos(n + 1)) /\ t.pinned \in Seq(Pins(n + 1))
      /\ t.disk \in SUBSET Recorded(n + 1) /\ c \in Recorded(n + 1)
  BY <1>1 DEF Sound, Value, Autos
<1>4. /\ d \in Nat /\ DOMAIN t.auto = 1..d /\ DOMAIN t.pinned = 1..Len(t.pinned)
      /\ \A i \in DOMAIN t.auto : t.auto[i].id # c.id
      /\ \A i \in DOMAIN t.pinned : t.pinned[i].id # c.id
      /\ \A f \in t.disk : f.id # c.id
  <2>1. \A f \in Recorded(n) : f.id \in Nat /\ f.id < n
    BY MemberFacts
  <2>2. t.disk \in SUBSET Recorded(n)
    BY DEF Sound, Value
  <2> QED BY <2>1, <2>2, MemberFacts
<1>5. /\ longer \in Seq(Autos(n + 1)) /\ DistinctIds(longer)
      /\ Len(longer) = d + 1 /\ longer[d + 1] = c /\ DOMAIN longer = 1..(d + 1)
      /\ \A i \in 1..d : longer[i] = t.auto[i]
  <2>1. DistinctIds(t.auto)
    BY DEF Sound
  <2>2. /\ longer \in Seq(Autos(n + 1)) /\ DistinctIds(longer)
        /\ Len(longer) = d + 1 /\ longer[d + 1] = c
        /\ \A i \in 1..d : longer[i] = t.auto[i]
    BY <2>1, <1>3, <1>4, AppendFacts
  <2> QED BY <2>2
<1> HIDE DEF longer, d
<1>6. Apart(longer, t.pinned)
  <2>1. \A i \in 1..(d + 1) : i \in 1..d \/ i = d + 1
    BY <1>4
  <2> QED BY <2>1, <1>4, <1>5 DEF Sound, Apart
<1>7. OneFileEach(t.disk \cup {c})
  BY <1>4 DEF Sound, OneFileEach
<1>8. CASE outcome # "save" /\ Len(longer) <= Capacity
  <2> DEFINE D == t.disk \cup {c}
  <2>1. u = [t EXCEPT !.auto = longer, !.cursor = NoCursor, !.disk = @ \cup {c}]
    BY <1>8 DEF PushAuto, longer
  <2>2. t \in Value(n + 1) /\ D \in SUBSET Recorded(n + 1)
    BY <1>1, <1>3 DEF Sound
  <2>3. /\ u \in Value(n + 1)
        /\ u.auto = longer /\ u.pinned = t.pinned /\ u.cursor = NoCursor /\ u.disk = D
    <3> HIDE DEF D
    <3>1. n + 1 \in Nat /\ u = [t EXCEPT !.auto = longer, !.cursor = NoCursor, !.disk = D]
      BY <2>1 DEF D
    <3> QED BY <3>1, <2>2, <1>5 DEF Value
  <2>4. \A i \in DOMAIN longer : longer[i] \in D
    <3>1. \A i \in 1..(d + 1) : i \in 1..d \/ i = d + 1
      BY <1>4
    <3> QED BY <3>1, <1>4, <1>5 DEF Sound
  <2>5. \A i \in DOMAIN t.pinned : t.pinned[i] \in D \/ t.pinned[i].id \in sp
    BY DEF Sound
  <2>6. DistinctIds(t.pinned)
    BY DEF Sound
  <2>7. Sound(u, n + 1, sp)
    <3> HIDE DEF D
    <3> QED BY <2>3, <2>4, <2>5, <2>6, <1>5, <1>6, <1>7, <1>8 DEF Sound, D
  <2> QED BY <2>3, <2>7, <1>4, <1>5, <1>8
<1>9. CASE outcome # "save" /\ ~(Len(longer) <= Capacity)
  <2> DEFINE gone == IF outcome = "delete" THEN {} ELSE {Head(longer)}
             D == (t.disk \cup {c}) \ gone
             tail == Tail(longer)
  <2>1. u = [t EXCEPT !.auto = tail, !.cursor = NoCursor, !.disk = (@ \cup {c}) \ gone]
    BY <1>9 DEF PushAuto, longer
  <2>3. d > 0 /\ Head(longer) = longer[1] /\ longer[1] = t.auto[1]
    BY <1>0, <1>4, <1>5, <1>9
  <2>4. /\ tail \in Seq(Autos(n + 1)) /\ Len(tail) = d /\ DOMAIN tail = 1..d
        /\ \A i \in 1..d : tail[i] = longer[i + 1] /\ i + 1 \in 1..(d + 1)
    BY <1>4, <1>5
  <2> HIDE DEF tail
  <2>5. DistinctIds(tail)
    <3> SUFFICES ASSUME NEW i \in 1..d, NEW j \in 1..d, tail[i].id = tail[j].id PROVE i = j
      BY <2>4 DEF DistinctIds
    <3>1. longer[i + 1].id = longer[j + 1].id /\ i + 1 \in 1..(d + 1) /\ j + 1 \in 1..(d + 1)
      BY <2>4
    <3>2. i + 1 = j + 1
      BY <3>1, <1>5 DEF DistinctIds
    <3> QED BY <3>2, <1>4
  <2>6. Apart(tail, t.pinned)
    BY <2>4, <1>5, <1>6 DEF Apart
  <2>7. OneFileEach(D)
    BY <1>7 DEF OneFileEach
  <2>8. \A i \in DOMAIN tail : tail[i] \in D
    <3> SUFFICES ASSUME NEW i \in 1..d PROVE tail[i] \in D
      BY <2>4
    <3>1. longer[i + 1] \in t.disk \cup {c}
      <4>1. CASE i + 1 \in 1..d
        BY <4>1, <1>4, <1>5 DEF Sound
      <4>2. CASE i + 1 = d + 1
        BY <4>2, <1>5
      <4> QED BY <4>1, <4>2, <1>4
    <3>2. longer[i + 1].id # longer[1].id
      <4>1. 1 \in 1..(d + 1) /\ i + 1 \in 1..(d + 1) /\ i + 1 # 1
        BY <1>4
      <4> QED BY <4>1, <1>5 DEF DistinctIds
    <3> QED BY <3>1, <3>2, <2>3, <2>4
  <2>9. \A i \in DOMAIN t.pinned : t.pinned[i] \in D \/ t.pinned[i].id \in sp
    <3>1. \A i \in DOMAIN t.pinned : t.pinned[i].id # longer[1].id
      <4>1. 1 \in DOMAIN longer
        BY <1>4, <1>5
      <4> QED BY <4>1, <1>6 DEF Apart
    <3> QED BY <3>1, <2>3 DEF Sound
  <2>2. t \in Value(n + 1) /\ D \in SUBSET Recorded(n + 1)
    BY <1>1, <1>3 DEF Sound
  <2>10. /\ u \in Value(n + 1)
         /\ u.auto = tail /\ u.pinned = t.pinned /\ u.cursor = NoCursor /\ u.disk = D
    <3> HIDE DEF D
    <3>1. n + 1 \in Nat /\ u = [t EXCEPT !.auto = tail, !.cursor = NoCursor, !.disk = D]
      BY <2>1 DEF D
    <3> QED BY <3>1, <2>2, <2>4 DEF Value
  <2>11. Len(tail) <= Capacity
    BY <2>4, <1>0, <1>4 DEF Sound, d
  <2>12. DistinctIds(t.pinned)
    BY DEF Sound
  <2>13. Sound(u, n + 1, sp)
    <3> HIDE DEF D
    <3> QED BY <2>5, <2>6, <2>7, <2>8, <2>9, <2>10, <2>11, <2>12 DEF Sound
  <2>14. Len(u.auto) > 0 /\ u.auto[Len(u.auto)] = c
    <3> QED BY <2>10, <2>3, <2>4, <1>4, <1>5
  <2> QED BY <2>10, <2>13, <2>14, <1>9
<1> QED BY <1>2, <1>8, <1>9

(* A new checkpoint that ends a burst: replace_latest_coalesced.  If it    *)
(* was saved and nothing of the same second is behind it, it is last.      *)
LEMMA ReplaceLatestFacts ==
  ASSUME Clock, NEW n \in Nat, NEW sp, NEW t, Sound(t, n, sp), NEW outcome,
         NEW c \in Autos(n + 1), c.id = n, c.at = now,
         NEW u, u = ReplaceLatest(t, c, outcome)
  PROVE  /\ Sound(u, n + 1, sp)
         /\ outcome # "save" /\ NoneBehind(t, c) =>
               /\ Len(Merged(u)) > 0 /\ Merged(u)[Len(Merged(u))] = c
               /\ u.cursor = NoCursor
<1> DEFINE d == Len(t.auto)
<1>1. Sound(t, n + 1, sp) /\ n + 1 \in Nat
  BY LaterFacts
<1>2. /\ t.auto \in Seq(Autos(n + 1)) /\ t.pinned \in Seq(Pins(n + 1))
      /\ t.disk \in SUBSET Recorded(n + 1) /\ c \in Recorded(n + 1)
      /\ d \in Nat /\ DOMAIN t.auto = 1..d
  BY <1>1 DEF Sound, Value, Autos
<1>3. /\ \A i \in DOMAIN t.auto : t.auto[i].id # c.id
      /\ \A i \in DOMAIN t.pinned : t.pinned[i].id # c.id
      /\ \A f \in t.disk : f.id # c.id
  <2>1. \A f \in Recorded(n) : f.id \in Nat /\ f.id < n
    BY MemberFacts
  <2>2. t.disk \in SUBSET Recorded(n)
    BY DEF Sound, Value
  <2> QED BY <2>1, <2>2, MemberFacts
<1>4. NoneBehind(t, c) => \A p \in Rng(t.pinned) : p.at < now
  BY DEF NoneBehind
<1>5. CASE Coalescing(t, c) = {}
  <2>1. u = PushAuto(t, c, outcome)
    BY <1>5 DEF ReplaceLatest
  <2>2. /\ Sound(u, n + 1, sp)
        /\ outcome # "save" => /\ Len(u.auto) > 0 /\ u.auto[Len(u.auto)] = c
                               /\ u.pinned = t.pinned /\ u.cursor = NoCursor
    BY <2>1, PushAutoFacts
  <2>3. ASSUME outcome # "save", NoneBehind(t, c)
        PROVE  Len(Merged(u)) > 0 /\ Merged(u)[Len(Merged(u))] = c
    <3>1. Len(u.auto) \in Nat /\ DOMAIN u.auto = 1..Len(u.auto)
      BY <1>1, <2>2, MemberFacts
    <3>2. Len(u.auto) \in DOMAIN u.auto /\ \A j \in DOMAIN u.auto : ~(j > Len(u.auto))
      BY <2>2, <2>3, <3>1
    <3>3. \A p \in Rng(u.pinned) : p.at < now
      BY <1>4, <2>2, <2>3
    <3>4. u.auto[Len(u.auto)] = c
      BY <2>2, <2>3
    <3> HIDE DEF d
    <3> QED BY <1>1, <2>2, <3>2, <3>3, <3>4, HeadFacts
  <2> QED BY <2>2, <2>3
<1>6. CASE Coalescing(t, c) # {} /\ outcome = "save"
  BY <1>1, <1>6 DEF ReplaceLatest
<1>7. CASE Coalescing(t, c) # {} /\ outcome # "save"
  <2> DEFINE i == LatestOf(Coalescing(t, c))
             gone == IF outcome = "delete" THEN {} ELSE {t.auto[i]}
             D == (t.disk \cup {c}) \ gone
             a == [t.auto EXCEPT ![i] = c]
  <2>1. i \in 1..d
    <3>1. Coalescing(t, c) \in SUBSET (0..d)
      BY <1>2 DEF Coalescing
    <3>2. i \in Coalescing(t, c)
      BY <1>2, <1>7, <3>1, LargestExists
    <3> QED BY <1>2, <3>2 DEF Coalescing
  <2>2. NoneBehind(t, c) => \A j \in DOMAIN t.auto : j > i => t.auto[j].at < now
    BY <1>7 DEF NoneBehind
  <2>3. u = [t EXCEPT !.auto[i] = c, !.cursor = NoCursor, !.disk = (@ \cup {c}) \ gone]
    BY <1>7 DEF ReplaceLatest
  <2> HIDE DEF i
  <2>4. /\ a \in Seq(Autos(n + 1)) /\ Len(a) = d /\ DOMAIN a = 1..d
        /\ a[i] = c /\ \A j \in 1..d : j # i => a[j] = t.auto[j]
    BY <1>2, <2>1
  <2> HIDE DEF a
  <2>5. /\ u \in Value(n + 1)
        /\ u.auto = a /\ u.pinned = t.pinned /\ u.cursor = NoCursor /\ u.disk = D
    <3>1. t \in Value(n + 1) /\ D \in SUBSET Recorded(n + 1)
      BY <1>1, <1>2 DEF Sound
    <3>2. u = [t EXCEPT !.auto = a, !.cursor = NoCursor, !.disk = D]
      BY <2>3, <3>1 DEF D, a, Value
    <3> HIDE DEF D
    <3> QED BY <3>1, <3>2, <2>4 DEF Value
  <2>6. DistinctIds(a)
    <3> SUFFICES ASSUME NEW j \in 1..d, NEW k \in 1..d, a[j].id = a[k].id PROVE j = k
      BY <2>4 DEF DistinctIds
    <3> QED BY <1>2, <1>3, <2>1, <2>4 DEF Sound, DistinctIds
  <2>7. Apart(a, t.pinned)
    BY <1>2, <1>3, <2>1, <2>4 DEF Sound, Apart
  <2>8. OneFileEach(D)
    BY <1>3 DEF Sound, OneFileEach
  <2>9. \A j \in DOMAIN a : a[j] \in D
    <3> SUFFICES ASSUME NEW j \in 1..d PROVE a[j] \in D
      BY <2>4
    <3>1. CASE j = i
      BY <2>1, <2>4, <1>2, <1>3, <3>1
    <3>2. CASE j # i
      <4>1. a[j] = t.auto[j] /\ t.auto[j] \in t.disk
        BY <1>2, <2>4, <3>2 DEF Sound
      <4>2. t.auto[j].id # t.auto[i].id
        BY <1>2, <2>1, <3>2 DEF Sound, DistinctIds
      <4> QED BY <4>1, <4>2
    <3> QED BY <3>1, <3>2
  <2>10. \A j \in DOMAIN t.pinned : t.pinned[j] \in D \/ t.pinned[j].id \in sp
    <3> SUFFICES ASSUME NEW j \in DOMAIN t.pinned, t.pinned[j] \in t.disk
                 PROVE  t.pinned[j] \in D
      BY DEF Sound
    <3>1. t.pinned[j].id # t.auto[i].id
      BY <1>2, <2>1 DEF Sound, Apart
    <3> QED BY <3>1
  <2>11. Len(a) <= Capacity /\ DistinctIds(t.pinned)
    BY <2>4 DEF Sound, d
  <2>12. Sound(u, n + 1, sp)
    <3> HIDE DEF D
    <3> QED BY <2>5, <2>6, <2>7, <2>8, <2>9, <2>10, <2>11 DEF Sound
  <2>13. ASSUME NoneBehind(t, c)
         PROVE  Len(Merged(u)) > 0 /\ Merged(u)[Len(Merged(u))] = c
    <3>1. i \in DOMAIN u.auto /\ u.auto[i] = c /\ u.auto[i].at = now
      BY <2>1, <2>4, <2>5
    <3>2. \A j \in DOMAIN u.auto : j > i => u.auto[j].at < now
      BY <1>2, <2>1, <2>2, <2>4, <2>5, <2>13
    <3>3. \A p \in Rng(u.pinned) : p.at < now
      BY <1>4, <2>5, <2>13
    <3> QED BY <1>1, <2>12, <3>1, <3>2, <3>3, HeadFacts
  <2> QED BY <2>5, <2>12, <2>13
<1> QED BY <1>5, <1>6, <1>7

(* A new checkpoint that begins a burst, or is left out because one of the *)
(* burst is there: keep_first_coalesced.                                   *)
LEMMA KeepFirstFacts ==
  ASSUME Clock, NEW n \in Nat, NEW sp, NEW t, Sound(t, n, sp), NEW outcome,
         NEW c \in Autos(n + 1), c.id = n, NEW u, u = KeepFirst(t, c, outcome)
  PROVE  IF c \in Rng(u.auto) THEN Sound(u, n + 1, sp) ELSE Sound(u, n, sp)
<1>1. CASE Coalescing(t, c) # {}
  <2>1. u = [t EXCEPT !.cursor = NoCursor]
    BY <1>1 DEF KeepFirst
  <2>2. /\ u \in Value(n) /\ u.auto = t.auto /\ u.pinned = t.pinned /\ u.disk = t.disk
        /\ u.cursor = NoCursor
    BY <2>1 DEF Sound, Value
  <2>3. Sound(u, n, sp)
    BY <2>2 DEF Sound
  <2> QED BY <2>3, LaterFacts
<1>2. CASE Coalescing(t, c) = {}
  <2>1. u = PushAuto(t, c, outcome)
    BY <1>2 DEF KeepFirst
  <2>2. CASE outcome = "save"
    BY <2>1, <2>2, PushAutoFacts
  <2>3. CASE outcome # "save"
    <3>1. Sound(u, n + 1, sp) /\ Len(u.auto) > 0 /\ u.auto[Len(u.auto)] = c
      BY <2>1, <2>3, PushAutoFacts
    <3>2. Len(u.auto) \in DOMAIN u.auto
      <4>1. n + 1 \in Nat
        OBVIOUS
      <4>2. Len(u.auto) \in Nat /\ DOMAIN u.auto = 1..Len(u.auto)
        BY <3>1, <4>1, MemberFacts
      <4> QED BY <3>1, <4>2
    <3> QED BY <3>1, <3>2 DEF Rng
  <2> QED BY <2>2, <2>3
<1> QED BY <1>1, <1>2

(* remove.                                                                 *)
LEMMA RemoveFacts ==
  ASSUME NEW n \in Nat, NEW sp, NEW t, Sound(t, n, sp), NEW id, NEW outcome,
         Capacity \in Nat, NEW u, u = Remove(t, id, outcome)
  PROVE  Sound(u, n, sp)
<1> DEFINE D == IF outcome = "delete" THEN t.disk ELSE {c \in t.disk : c.id # id}
           a == Without(t.auto, id)
           p == Without(t.pinned, id)
<1>1. u = [auto |-> a, pinned |-> p, cursor |-> NoCursor, disk |-> D]
  BY DEF Remove
<1>2. /\ t.auto \in Seq(Autos(n)) /\ t.pinned \in Seq(Pins(n)) /\ t.disk \in SUBSET Recorded(n)
      /\ DistinctIds(t.auto) /\ DistinctIds(t.pinned)
  BY DEF Sound, Value
<1>3. /\ a \in Seq(Autos(n)) /\ Len(a) <= Len(t.auto) /\ DistinctIds(a)
      /\ \A j \in DOMAIN a : a[j].id # id /\ \E k \in DOMAIN t.auto : a[j] = t.auto[k]
  BY <1>2, WithoutFacts
<1>4. /\ p \in Seq(Pins(n)) /\ DistinctIds(p)
      /\ \A j \in DOMAIN p : p[j].id # id /\ \E k \in DOMAIN t.pinned : p[j] = t.pinned[k]
  BY <1>2, WithoutFacts
<1> HIDE DEF a, p
<1>5. Len(a) <= Capacity
  BY <1>2, <1>3 DEF Sound
<1>6. Apart(a, p)
  BY <1>3, <1>4 DEF Sound, Apart
<1>7. D \in SUBSET Recorded(n) /\ OneFileEach(D)
  BY <1>2 DEF Sound, OneFileEach
<1>8. \A j \in DOMAIN a : a[j] \in D
  BY <1>3 DEF Sound
<1>9. \A j \in DOMAIN p : p[j] \in D \/ p[j].id \in sp
  BY <1>4 DEF Sound
<1> HIDE DEF D
<1>10. u \in Value(n)
  BY <1>1, <1>3, <1>4, <1>7 DEF Value
<1> QED BY <1>1, <1>3, <1>4, <1>5, <1>6, <1>7, <1>8, <1>9, <1>10 DEF Sound

(* Moving the cursor, by hand or to a checkpoint.                          *)
LEMMA CursorFacts ==
  ASSUME NEW n \in Nat, NEW sp, NEW t, Sound(t, n, sp),
         NEW i \in {NoCursor} \cup 1..Len(Merged(t)),
         NEW u, u = [t EXCEPT !.cursor = i]
  PROVE  /\ Sound(u, n, sp) /\ Merged(u) = Merged(t)
         /\ u = [auto |-> t.auto, pinned |-> t.pinned, cursor |-> i, disk |-> t.disk]
<1>1. Len(t.auto) \in Nat /\ Len(t.pinned) \in Nat
      /\ t = [auto |-> t.auto, pinned |-> t.pinned, cursor |-> t.cursor, disk |-> t.disk]
  BY MemberFacts
<1>2. Len(Merged(t)) = Len(t.auto) + Len(t.pinned)
  BY MergedFacts
<1>3. /\ u \in Value(n) /\ u.auto = t.auto /\ u.pinned = t.pinned /\ u.disk = t.disk
      /\ u.cursor = i
  BY <1>1, <1>2 DEF Sound, Value
<1>4. i = NoCursor \/ i \in 1..(Len(t.auto) + Len(t.pinned))
  BY <1>2
<1>5. Sound(u, n, sp)
  BY <1>3, <1>4 DEF Sound
<1>6. u = [auto |-> u.auto, pinned |-> u.pinned, cursor |-> u.cursor, disk |-> u.disk]
  BY <1>3 DEF Value
<1> QED BY <1>3, <1>5, <1>6 DEF Merged

(* seek: the cursor goes to the checkpoint with an identifier.              *)
LEMMA SeekFacts ==
  ASSUME NEW n \in Nat, NEW sp, NEW t, Sound(t, n, sp), NEW id
  PROVE  Sound(Seek(t, id), n, sp)
<1> DEFINE m == Merged(t)
           at == Position(m, id)
           k == IF m[Len(m)].id = id THEN NoCursor ELSE LatestOf(at)
<1>1. CASE at = {}
  BY <1>1 DEF Seek
<1>2. CASE at # {}
  <2>1. m \in Seq(Recorded(n))
    BY MergedFacts
  <2>2. at \in SUBSET (0..Len(m)) /\ at \in SUBSET (1..Len(m)) /\ Len(m) \in Nat
    BY <2>1 DEF Position
  <2>3. LatestOf(at) \in at
    <3> HIDE DEF at
    <3> QED BY <1>2, <2>2, LargestExists
  <2>4. k \in {NoCursor} \cup 1..Len(m)
    BY <2>2, <2>3
  <2>5. Seek(t, id) = [t EXCEPT !.cursor = k]
    BY <1>2 DEF Seek
  <2> HIDE DEF k
  <2> QED BY <2>4, <2>5, CursorFacts
<1> QED BY <1>1, <1>2

(* A checkpoint added to the pinned ones, which are kept in order.         *)
LEMMA AddPinnedFacts ==
  ASSUME NEW n \in Nat, NEW s \in Seq(Pins(n)), DistinctIds(s), NEW c \in Pins(n),
         \A i \in DOMAIN s : s[i].id # c.id,
         NEW p, p = ByTime(Append(s, c))
  PROVE  /\ p \in Seq(Pins(n)) /\ DistinctIds(p) /\ Len(p) = Len(s) + 1
         /\ \A j \in DOMAIN p : p[j] = c \/ \E k \in DOMAIN s : p[j] = s[k]
<1> DEFINE a == Append(s, c)
<1>1. \A f \in Pins(n) : f.at \in Nat
  BY CheckpointFacts DEF Pins, Recorded
<1>2. /\ a \in Seq(Pins(n)) /\ DistinctIds(a) /\ Len(a) = Len(s) + 1
      /\ a[Len(s) + 1] = c /\ \A i \in 1..Len(s) : a[i] = s[i]
  BY AppendFacts
<1> HIDE DEF a
<1>3. /\ p \in Seq(Pins(n)) /\ Len(p) = Len(a) /\ Rng(p) = Rng(a) /\ DistinctIds(p)
  BY <1>1, <1>2, ByTimeFacts DEF a
<1>4. ASSUME NEW j \in DOMAIN p PROVE p[j] = c \/ \E k \in DOMAIN s : p[j] = s[k]
  <2>1. PICK k \in DOMAIN a : p[j] = a[k]
    BY <1>3 DEF Rng
  <2>2. k \in 1..Len(s) \/ k = Len(s) + 1
    BY <1>2
  <2>3. DOMAIN s = 1..Len(s)
    OBVIOUS
  <2> QED BY <1>2, <2>1, <2>2, <2>3
<1> QED BY <1>2, <1>3, <1>4

(* push_pinned.                                                            *)
LEMMA SaveFacts ==
  ASSUME Clock, NEW n \in Nat, NEW sp, NEW t, Sound(t, n, sp),
         NEW c \in Pins(n + 1), c.id = n,
         NEW u, u = [t EXCEPT !.pinned = ByTime(Append(@, c)), !.disk = @ \cup {c}]
  PROVE  Sound(u, n + 1, sp)
<1> DEFINE p == ByTime(Append(t.pinned, c))
           D == t.disk \cup {c}
<1>1. Sound(t, n + 1, sp) /\ n + 1 \in Nat
  BY LaterFacts
<1>2. /\ t.pinned \in Seq(Pins(n + 1)) /\ D \in SUBSET Recorded(n + 1)
      /\ DistinctIds(t.pinned) /\ DistinctIds(t.auto) /\ t \in Value(n + 1)
      /\ Len(t.pinned) \in Nat /\ Len(t.auto) \in Nat
  BY <1>1 DEF Sound, Value, Pins
<1>3. /\ \A i \in DOMAIN t.auto : t.auto[i].id # c.id
      /\ \A i \in DOMAIN t.pinned : t.pinned[i].id # c.id
      /\ \A f \in t.disk : f.id # c.id
  <2>1. \A f \in Recorded(n) : f.id \in Nat /\ f.id < n
    BY MemberFacts
  <2>2. t.disk \in SUBSET Recorded(n)
    BY DEF Sound, Value
  <2> QED BY <2>1, <2>2, MemberFacts
<1>4. /\ p \in Seq(Pins(n + 1)) /\ DistinctIds(p) /\ Len(p) = Len(t.pinned) + 1
      /\ \A j \in DOMAIN p : p[j] = c \/ \E k \in DOMAIN t.pinned : p[j] = t.pinned[k]
  BY <1>1, <1>2, <1>3, AddPinnedFacts
<1> HIDE DEF p
<1>5. /\ u \in Value(n + 1)
      /\ u.auto = t.auto /\ u.pinned = p /\ u.cursor = t.cursor /\ u.disk = D
  <2>1. u = [t EXCEPT !.pinned = p, !.disk = D]
    BY <1>2 DEF D, p, Value
  <2> HIDE DEF D
  <2> QED BY <2>1, <1>2, <1>4 DEF Value
<1>6. Apart(t.auto, p)
  BY <1>3, <1>4 DEF Sound, Apart
<1>7. OneFileEach(D)
  BY <1>3 DEF Sound, OneFileEach
<1>8. /\ \A i \in DOMAIN t.auto : t.auto[i] \in D
      /\ \A i \in DOMAIN p : p[i] \in D \/ p[i].id \in sp
  BY <1>4 DEF Sound
<1>9. t.cursor = NoCursor \/ t.cursor \in 1..(Len(t.auto) + Len(p))
  <2>1. Len(t.pinned) <= Len(p) /\ Len(t.pinned) \in Nat /\ Len(p) \in Nat /\ Len(t.auto) \in Nat
    BY <1>2, <1>4
  <2>2. \A x, y, z \in Nat : y <= z => 1..(x + y) \subseteq 1..(x + z)
    OBVIOUS
  <2>3. 1..(Len(t.auto) + Len(t.pinned)) \subseteq 1..(Len(t.auto) + Len(p))
    BY <2>1, <2>2
  <2> QED BY <2>3 DEF Sound
<1>10. Len(t.auto) <= Capacity
  BY DEF Sound
<1> HIDE DEF D
<1> QED BY <1>2, <1>4, <1>5, <1>6, <1>7, <1>8, <1>9, <1>10 DEF Sound

(* A checkpoint that was recorded, pinned.                                  *)
LEMMA PinnedFacts ==
  ASSUME NEW n \in Nat, NEW c \in Recorded(n)
  PROVE  [c EXCEPT !.pinned = TRUE] \in Pins(n) /\ [c EXCEPT !.pinned = TRUE].id = c.id
<1> DEFINE K == {<<>>} \cup {<<phase, s>> : phase \in {"pre", "post"}, s \in Scopes}
           new == [c EXCEPT !.pinned = TRUE]
<1>1. c \in [id: 1..MaxId, layout: Layouts, at: 0..MaxTime, key: K, pinned: BOOLEAN]
  BY DEF Recorded, Checkpoint
<1> HIDE DEF K
<1>2. /\ new \in [id: 1..MaxId, layout: Layouts, at: 0..MaxTime, key: K, pinned: BOOLEAN]
      /\ new.id = c.id /\ new.at = c.at /\ new.pinned
  BY <1>1
<1> HIDE DEF new
<1>3. new \in Checkpoint
  BY <1>2 DEF Checkpoint, K
<1>4. new \in Recorded(n)
  BY <1>2, <1>3 DEF Recorded
<1>5. new \in Pins(n) /\ new.id = c.id
  BY <1>2, <1>4 DEF Pins
<1> QED BY <1>5 DEF new

(* pin: the checkpoint is pinned in memory; the file is, too, or it is     *)
(* as it was or lost, and so spoiled.                                      *)
LEMMA PinFacts ==
  ASSUME NEW n \in Nat, NEW sp, NEW t, Sound(t, n, sp), NEW i \in DOMAIN t.auto,
         Capacity \in Nat,
         NEW c, c = t.auto[i], NEW new \in Pins(n), new.id = c.id,
         NEW D, NEW sp2,
         \/ D = (t.disk \ {c}) \cup {new} /\ sp2 = sp
         \/ D \in {t.disk, t.disk \ {c}} /\ sp2 = sp \cup {c.id},
         NEW u, u = [auto |-> Drop(t.auto, i), pinned |-> ByTime(Append(t.pinned, new)),
                     cursor |-> t.cursor, disk |-> D]
  PROVE  Sound(u, n, sp2)
<1> DEFINE a == Drop(t.auto, i)
           p == ByTime(Append(t.pinned, new))
<1>1. /\ t.auto \in Seq(Autos(n)) /\ t.pinned \in Seq(Pins(n)) /\ t.disk \in SUBSET Recorded(n)
      /\ DistinctIds(t.pinned) /\ DistinctIds(t.auto) /\ t.cursor \in Nat \cup {NoCursor}
      /\ Len(t.pinned) \in Nat /\ Len(t.auto) \in Nat /\ i \in 1..Len(t.auto)
  BY DEF Sound, Value
<1>2. c \in Recorded(n) /\ c \in t.disk
  BY <1>1 DEF Sound, Autos
<1>4. \A k \in DOMAIN t.pinned : t.pinned[k].id # c.id
  BY DEF Sound, Apart
<1>5. /\ a \in Seq(Autos(n)) /\ Len(a) = Len(t.auto) - 1 /\ DistinctIds(a)
      /\ \A j \in DOMAIN a : a[j].id # c.id /\ \E k \in DOMAIN t.auto : a[j] = t.auto[k]
  <2>1. \A s \in Seq(Autos(n)) : \A k \in 1..Len(s) : DistinctIds(s) =>
           /\ Drop(s, k) \in Seq(Autos(n)) /\ Len(Drop(s, k)) = Len(s) - 1
           /\ DistinctIds(Drop(s, k))
           /\ \A j \in DOMAIN Drop(s, k) :
                 /\ Drop(s, k)[j].id # s[k].id
                 /\ \E x \in DOMAIN s : Drop(s, k)[j] = s[x]
    BY DropFacts
  <2> QED BY <1>1, <2>1
<1>6. /\ p \in Seq(Pins(n)) /\ DistinctIds(p) /\ Len(p) = Len(t.pinned) + 1
      /\ \A j \in DOMAIN p : p[j] = new \/ \E k \in DOMAIN t.pinned : p[j] = t.pinned[k]
  <2>1. \A k \in DOMAIN t.pinned : t.pinned[k].id # new.id
    BY <1>4
  <2>2. t.pinned \in Seq(Pins(n)) /\ DistinctIds(t.pinned) /\ new \in Pins(n)
    BY <1>1
  <2> HIDE DEF p
  <2>3. p = ByTime(Append(t.pinned, new))
    BY DEF p
  <2> QED BY <2>1, <2>2, <2>3, AddPinnedFacts
<1> HIDE DEF a, p
<1>7. \A f \in t.disk : f.id = c.id => f = c
  BY <1>2 DEF Sound, OneFileEach
<1>8. D \in SUBSET Recorded(n) /\ OneFileEach(D)
  <2>1. new \in Recorded(n)
    BY DEF Pins
  <2> QED BY <1>1, <1>7, <2>1 DEF Sound, OneFileEach
<1>9. Apart(a, p)
  <2> SUFFICES ASSUME NEW j \in DOMAIN a, NEW k \in DOMAIN p PROVE a[j].id # p[k].id
    BY DEF Apart
  <2>1. PICK x \in DOMAIN t.auto : a[j] = t.auto[x] /\ a[j].id # c.id
    BY <1>5
  <2>2. p[k] = new \/ \E y \in DOMAIN t.pinned : p[k] = t.pinned[y]
    BY <1>6
  <2> QED BY <2>1, <2>2 DEF Sound, Apart
<1>10. \A j \in DOMAIN a : a[j] \in D
  BY <1>5 DEF Sound
<1>11. \A j \in DOMAIN p : p[j] \in D \/ p[j].id \in sp2
  <2> SUFFICES ASSUME NEW j \in DOMAIN p PROVE p[j] \in D \/ p[j].id \in sp2
    OBVIOUS
  <2>1. CASE p[j] = new
    BY <2>1
  <2>2. ASSUME NEW k \in DOMAIN t.pinned, p[j] = t.pinned[k]
        PROVE  p[j] \in D \/ p[j].id \in sp2
    BY <1>4, <2>2 DEF Sound
  <2> QED BY <1>6, <2>1, <2>2
<1>12. u \in Value(n)
  BY <1>1, <1>5, <1>6, <1>8 DEF Value, a, p
<1>13. t.cursor = NoCursor \/ t.cursor \in 1..(Len(a) + Len(p))
  <2>1. Len(a) = Len(t.auto) - 1 /\ Len(p) = Len(t.pinned) + 1
    BY <1>5, <1>6
  <2>2. \A x, y \in Nat : (x - 1) + (y + 1) = x + y
    OBVIOUS
  <2>3. Len(a) + Len(p) = Len(t.auto) + Len(t.pinned)
    BY <1>1, <2>1, <2>2
  <2> QED BY <2>3 DEF Sound
<1>14. Len(a) <= Capacity
  BY <1>1, <1>5 DEF Sound
<1>15. u.auto = a /\ u.pinned = p /\ u.cursor = t.cursor /\ u.disk = D
  BY DEF a, p
<1>16. DistinctIds(a) /\ DistinctIds(p) /\ OneFileEach(D)
  BY <1>5, <1>6, <1>8
<1> QED BY <1>9, <1>10, <1>11, <1>12, <1>13, <1>14, <1>15, <1>16 DEF Sound
Keys == {<<>>} \cup {<<phase, s>> : phase \in {"pre", "post"}, s \in Scopes}

(* What a command records has the next number and the time of now.         *)
LEMMA NewFacts ==
  ASSUME Clock, NEW l \in Layouts, NEW id \in 1..MaxId,
         NEW key \in Keys
  PROVE  /\ [id |-> id, layout |-> l, at |-> now, key |-> key, pinned |-> FALSE] \in Autos(id + 1)
         /\ [id |-> id, layout |-> l, at |-> now, key |-> key, pinned |-> TRUE] \in Pins(id + 1)
<1>2. MaxId \in Nat /\ now \in 0..MaxTime /\ now \in Nat
  BY SettingFacts DEF Clock
<1> DEFINE a == [id |-> id, layout |-> l, at |-> now, key |-> key, pinned |-> FALSE]
           p == [id |-> id, layout |-> l, at |-> now, key |-> key, pinned |-> TRUE]
<1>3. ASSUME NEW c, c.id = id, c.at = now,
             c \in [id: 1..MaxId, layout: Layouts, at: 0..MaxTime, key: Keys, pinned: BOOLEAN]
      PROVE  c \in Recorded(id + 1)
  <2>1. c \in Checkpoint
    BY <1>3 DEF Checkpoint, Keys
  <2> QED BY <1>2, <1>3, <2>1 DEF Recorded
<1>4. /\ a \in [id: 1..MaxId, layout: Layouts, at: 0..MaxTime, key: Keys, pinned: BOOLEAN]
      /\ a.id = id /\ a.at = now /\ ~a.pinned
  BY <1>2
<1>5. /\ p \in [id: 1..MaxId, layout: Layouts, at: 0..MaxTime, key: Keys, pinned: BOOLEAN]
      /\ p.id = id /\ p.at = now /\ p.pinned
  BY <1>2
<1> HIDE DEF a, p
<1>6. a \in Autos(id + 1)
  BY <1>3, <1>4 DEF Autos
<1>7. p \in Pins(id + 1)
  BY <1>3, <1>5 DEF Pins
<1> QED BY <1>6, <1>7 DEF a, p

-----------------------------------------------------------------------------
(* The inductive invariant of the specification, and what an operation may *)
(* do to the files: pinned ones stay.                                      *)
TimelineInv == Clock /\ layout \in Layouts /\ Sound(Timeline, nextId, spoiled)

Keeps(files, left) == \A c \in files : c.pinned => c \in left

(* A step whose result is a sound timeline keeps the invariant.             *)
LEMMA BecomesFacts ==
  ASSUME TimelineInv, setting' = setting, now' = now, layout' \in Layouts,
         nextId' \in Nat \ {0}, NEW u, Sound(u, nextId', spoiled'), Becomes(u)
  PROVE  TimelineInv' /\ Timeline' = u /\ disk' = u.disk
<1>1. nextId' \in Nat
  OBVIOUS
<1>2. u = [auto |-> u.auto, pinned |-> u.pinned, cursor |-> u.cursor, disk |-> u.disk]
  BY <1>1, MemberFacts
<1>3. Timeline' = u /\ disk' = u.disk
  BY <1>2 DEF Becomes, Timeline
<1>4. Clock'
  BY DEF TimelineInv, Clock
<1>5. Sound(Timeline, nextId, spoiled)'
  BY <1>3 DEF Sound, Value, Autos, Pins, Recorded, Checkpoint, Capacity, MaxId,
              OneFileEach, DistinctIds, Apart
<1> QED BY <1>3, <1>4, <1>5 DEF TimelineInv

(* Reloading deletes the files of the oldest automatic checkpoints.        *)
LEMMA ReloadKeeps ==
  ASSUME Clock, NEW n \in Nat, NEW t, t.disk \in SUBSET Recorded(n), OneFileEach(t.disk),
         NEW u \in Reloads(t)
  PROVE  Keeps(t.disk, u.disk)
<1> DEFINE A == {c \in t.disk : ~c.pinned}
           autos == ByTime(InOrderOfId(A))
<1>1. /\ A \in SUBSET Checkpoint /\ OneFileEach(A) /\ setting \in Settings
      /\ \A c \in A : c.at \in Nat
  BY CheckpointFacts DEF Clock, Recorded, OneFileEach
<1> HIDE DEF A
<1>2. Rng(autos) = A
  BY <1>1, InOrderFacts, ByTimeFacts
<1>3. \A c \in t.disk : c \notin Rng(autos) => c \in u.disk
  <2>1. PICK kept, pins : \E gone \in SUBSET (Rng(autos) \ Rng(kept)) :
            u = [auto |-> kept, pinned |-> pins, cursor |-> NoCursor, disk |-> t.disk \ gone]
    BY DEF Reloads, A
  <2> QED BY <2>1
<1> QED BY <1>2, <1>3 DEF Keeps, A

(* Loading keeps the timeline sound and the pinned files.                   *)
LEMMA LoadedKeeps ==
  ASSUME TimelineInv, NEW t \in Loaded(Timeline)
  PROVE  Sound(t, nextId, spoiled) /\ Keeps(disk, t.disk)
<1>1. Sound(Timeline, nextId, spoiled) /\ Clock /\ nextId \in Nat
  BY DEF TimelineInv, Clock
<1>2. Sound(t, nextId, spoiled)
  BY <1>1, LoadedFacts
<1>3. disk \in SUBSET Recorded(nextId) /\ OneFileEach(disk) /\ Timeline.disk = disk
  BY <1>1 DEF Sound, Value, Timeline
<1>4. t \in Reloads(Timeline) => Keeps(disk, t.disk)
  BY <1>1, <1>3, ReloadKeeps
<1>5. Keeps(disk, disk)
  BY DEF Keeps
<1> QED BY <1>2, <1>3, <1>4, <1>5 DEF Loaded

(* Recording an automatic checkpoint.                                      *)
LEMMA PushAutoKeeps ==
  ASSUME NEW n \in Nat, NEW sp, NEW t, Sound(t, n, sp), NEW outcome, NEW c, ~c.pinned
  PROVE  Keeps(t.disk, PushAuto(t, c, outcome).disk)
<1> DEFINE longer == Append(t.auto, c)
           S == Autos(n) \cup {c}
<1>1. t.auto \in Seq(S) /\ \A f \in S : ~f.pinned
  BY DEF Sound, Value, Autos
<1> HIDE DEF S
<1>2. longer # <<>> /\ Head(longer) \in S
  <2>1. c \in S
    BY DEF S
  <2>2. longer \in Seq(S) /\ Len(longer) = Len(t.auto) + 1 /\ Len(t.auto) \in Nat
    BY <1>1, <2>1
  <2> HIDE DEF longer
  <2> QED BY <2>2
<1>3. ~Head(longer).pinned
  BY <1>1, <1>2
<1> HIDE DEF longer
<1>4. t \in [auto : Seq(Autos(n)), pinned : Seq(Pins(n)),
             cursor : Nat \cup {NoCursor}, disk : SUBSET Recorded(n)]
  BY DEF Sound, Value
<1>5. \/ PushAuto(t, c, outcome).disk = t.disk
      \/ PushAuto(t, c, outcome).disk = t.disk \cup {c}
      \/ PushAuto(t, c, outcome).disk = (t.disk \cup {c}) \ {Head(longer)}
  BY <1>4 DEF PushAuto, longer
<1> QED BY <1>3, <1>5 DEF Keeps

(* The file of an automatic checkpoint is replaced, no other.               *)
LEMMA RecordKeeps ==
  ASSUME NEW n \in Nat, NEW sp, NEW t, Sound(t, n, sp), NEW outcome, NEW c, ~c.pinned
  PROVE  /\ Keeps(t.disk, KeepFirst(t, c, outcome).disk)
         /\ Keeps(t.disk, ReplaceLatest(t, c, outcome).disk)
<1> DEFINE C == Coalescing(t, c)
           i == LatestOf(C)
<1>1. Keeps(t.disk, PushAuto(t, c, outcome).disk)
  BY PushAutoKeeps
<1>2. Keeps(t.disk, t.disk)
  BY DEF Keeps
<1>3. t \in [auto : Seq(Autos(n)), pinned : Seq(Pins(n)),
             cursor : Nat \cup {NoCursor}, disk : SUBSET Recorded(n)]
  BY DEF Sound, Value
<1>4. Keeps(t.disk, KeepFirst(t, c, outcome).disk)
  BY <1>1, <1>2, <1>3 DEF KeepFirst
<1>5. C # {} => ~t.auto[i].pinned
  <2>1. C \in SUBSET (0..Len(t.auto)) /\ C \in SUBSET (DOMAIN t.auto) /\ Len(t.auto) \in Nat
    BY <1>3 DEF Coalescing
  <2>2. \A j \in DOMAIN t.auto : ~t.auto[j].pinned
    BY MemberFacts DEF Autos
  <2>3. C # {} => LatestOf(C) \in C
    <3> HIDE DEF C
    <3> QED BY <2>1, LargestExists
  <2> QED BY <2>1, <2>2, <2>3
<1> HIDE DEF i
<1>6. C # {} =>
        \/ ReplaceLatest(t, c, outcome).disk = t.disk
        \/ ReplaceLatest(t, c, outcome).disk = t.disk \cup {c}
        \/ ReplaceLatest(t, c, outcome).disk = (t.disk \cup {c}) \ {t.auto[i]}
  BY <1>3 DEF ReplaceLatest, i
<1>7. C = {} => ReplaceLatest(t, c, outcome) = PushAuto(t, c, outcome)
  BY DEF ReplaceLatest
<1>8. C # {} => Keeps(t.disk, ReplaceLatest(t, c, outcome).disk)
  BY <1>5, <1>6 DEF Keeps
<1> HIDE DEF C
<1> QED BY <1>1, <1>4, <1>7, <1>8
-----------------------------------------------------------------------------
(* The commands.                                                           *)
LEMMA MutateStep ==
  ASSUME TimelineInv, setting' = setting, NEW s \in Scopes, NEW l \in Layouts, Mutate(s, l)
  PROVE  TimelineInv' /\ Keeps(disk, disk') /\ HeadIsLatest'
<1> DEFINE pre == New(nextId, layout, <<"pre", s>>, FALSE)
<1>1. PICK before \in Loaded(Timeline), first \in Outcomes, second \in Outcomes :
        LET t    == KeepFirst(before, pre, first)
            used == IF pre \in Rng(t.auto) THEN 1 ELSE 0
            post == New(nextId + used, l, <<"post", s>>, FALSE)
        IN  /\ post.id <= MaxId /\ nextId' = post.id + 1
            /\ Becomes(ReplaceLatest(t, post, second))
            /\ last' = Known("mutate", {}, second # "save" /\ NoneBehind(t, post))
  BY DEF Mutate
<1> DEFINE t == KeepFirst(before, pre, first)
           used == IF pre \in Rng(t.auto) THEN 1 ELSE 0
           n == nextId + used
           post == New(n, l, <<"post", s>>, FALSE)
           u == ReplaceLatest(t, post, second)
<1>2. /\ Clock /\ nextId \in Nat \ {0} /\ layout \in Layouts /\ MaxId \in Nat /\ now \in Nat
      /\ layout' = l /\ now' = now /\ spoiled' = spoiled
  BY SettingFacts DEF TimelineInv, Clock, Mutate
<1>3. Sound(before, nextId, spoiled) /\ Keeps(disk, before.disk)
  BY LoadedKeeps
<1>4. used \in {0, 1} /\ n \in Nat \ {0} /\ nextId <= n
  <2>1. used = 0 \/ used = 1
    <3> HIDE DEF t, pre
    <3> QED OBVIOUS
  <2> HIDE DEF used
  <2> QED BY <1>2, <2>1
<1>5. post.id = n
  BY DEF New
<1>6. n <= MaxId /\ nextId' = n + 1 /\ n \in 1..MaxId /\ nextId \in 1..MaxId
  <2>1. post.id <= MaxId /\ nextId' = post.id + 1
    BY <1>1
  <2> HIDE DEF n, post
  <2> QED BY <1>2, <1>4, <1>5, <2>1
<1>7. pre.id = nextId /\ ~pre.pinned /\ pre \in Autos(nextId + 1)
  <2>1. <<"pre", s>> \in Keys
    BY DEF Keys
  <2>2. pre \in Autos(nextId + 1)
    BY <1>2, <1>6, <2>1, NewFacts DEF New
  <2>3. pre.id = nextId /\ ~pre.pinned
    BY DEF New
  <2> QED BY <2>2, <2>3
<1>8. post.at = now /\ post.layout = l /\ ~post.pinned /\ post \in Autos(n + 1)
  <2>1. <<"post", s>> \in Keys
    BY DEF Keys
  <2> HIDE DEF n
  <2>2. post \in Autos(n + 1)
    BY <1>2, <1>6, <2>1, NewFacts DEF New
  <2>3. post.at = now /\ post.layout = l /\ ~post.pinned
    BY DEF New
  <2> QED BY <2>2, <2>3
<1>9. Becomes(u) /\ last' = Known("mutate", {}, second # "save" /\ NoneBehind(t, post))
  BY <1>1
<1> HIDE DEF pre
<1>10. Sound(t, n, spoiled)
  <2>1. nextId \in Nat
    BY <1>2
  <2>2. IF pre \in Rng(t.auto) THEN Sound(t, nextId + 1, spoiled) ELSE Sound(t, nextId, spoiled)
    BY <1>2, <1>3, <1>7, <2>1, KeepFirstFacts
  <2>3. pre \in Rng(t.auto) => n = nextId + 1
    OBVIOUS
  <2>4. pre \notin Rng(t.auto) => n = nextId
    BY <1>2
  <2> HIDE DEF n, t
  <2> QED BY <2>2, <2>3, <2>4
<1> HIDE DEF t, n, post
<1>11. n \in Nat /\ n + 1 \in Nat \ {0}
  BY <1>4
<1>12. /\ Sound(u, n + 1, spoiled)
       /\ second # "save" /\ NoneBehind(t, post) =>
             /\ Len(Merged(u)) > 0 /\ Merged(u)[Len(Merged(u))] = post
             /\ u.cursor = NoCursor
  BY <1>2, <1>5, <1>8, <1>10, <1>11, ReplaceLatestFacts
<1> HIDE DEF u
<1>13. TimelineInv' /\ Timeline' = u /\ disk' = u.disk
  <2>1. nextId' \in Nat \ {0} /\ Sound(u, nextId', spoiled')
    BY <1>2, <1>6, <1>11, <1>12
  <2> QED BY <1>2, <1>9, <2>1, BecomesFacts
<1>14. Keeps(disk, disk')
  <2>1. Keeps(before.disk, t.disk)
    BY <1>3, <1>7, <1>2, RecordKeeps DEF t
  <2>2. Keeps(t.disk, u.disk)
    BY <1>10, <1>8, <1>11, RecordKeeps DEF u
  <2> QED BY <1>3, <1>13, <2>1, <2>2 DEF Keeps
<1>15. HeadIsLatest'
  <2>1. last'.op = "mutate" => second # "save" /\ NoneBehind(t, post)
    BY <1>9 DEF Known, Nothing
  <2>2. cursor' = u.cursor
    BY <1>9 DEF Becomes
  <2>3. HeadIsLatest' = (last'.op = "mutate" =>
            Merged(u)[Len(Merged(u))].layout = layout' /\ cursor' = NoCursor)
    BY <1>13 DEF HeadIsLatest, Merged
  <2> QED BY <1>2, <1>8, <1>12, <2>1, <2>2, <2>3
<1> QED BY <1>13, <1>14, <1>15

(* Nothing but the layout changes.                                         *)
LEMMA EditStep ==
  ASSUME TimelineInv, setting' = setting, NEW l \in Layouts, Edit(l)
  PROVE  TimelineInv' /\ Keeps(disk, disk')
<1>1. /\ nextId' \in Nat \ {0} /\ layout' \in Layouts /\ now' = now
      /\ Sound(Timeline, nextId', spoiled')
  BY DEF Edit, TimelineInv, Clock
<1>2. Becomes(Timeline) /\ disk' = disk
  BY DEF Edit, Becomes, Timeline
<1> QED BY <1>1, <1>2, BecomesFacts DEF Keeps

(* SaveCheckpoint without an identifier.                                    *)
LEMMA SaveCheckpointStep ==
  ASSUME TimelineInv, setting' = setting, SaveCheckpoint
  PROVE  TimelineInv' /\ Keeps(disk, disk')
<1> DEFINE c == New(nextId, layout, <<>>, TRUE)
<1>0. PICK t \in Loaded(Timeline) :
        Becomes([t EXCEPT !.pinned = ByTime(Append(@, c)), !.disk = @ \cup {c}]) \/ Becomes(t)
  BY DEF SaveCheckpoint
<1> DEFINE u == [t EXCEPT !.pinned = ByTime(Append(@, c)), !.disk = @ \cup {c}]
<1>4. Becomes(u) \/ Becomes(t)
  BY <1>0
<1>1. /\ Clock /\ nextId \in Nat \ {0} /\ layout \in Layouts /\ MaxId \in Nat
      /\ layout' = layout /\ now' = now /\ spoiled' = spoiled
      /\ nextId <= MaxId /\ nextId' = nextId + 1
  BY SettingFacts DEF TimelineInv, Clock, SaveCheckpoint
<1>2. nextId \in Nat /\ nextId' \in Nat \ {0} /\ nextId \in 1..MaxId
  BY <1>1
<1>3. Sound(t, nextId, spoiled) /\ Keeps(disk, t.disk)
  BY LoadedKeeps
<1>5. c.id = nextId /\ c \in Pins(nextId + 1)
  <2>2. <<>> \in Keys
    BY DEF Keys
  <2>1. c \in Pins(nextId + 1)
    BY <1>1, <1>2, <2>2, NewFacts DEF New
  <2> QED BY <2>1 DEF New
<1> HIDE DEF c
<1>6. Sound(t, nextId', spoiled')
  BY <1>1, <1>2, <1>3, LaterFacts
<1>7. Sound(u, nextId', spoiled')
  <2>1. Sound(u, nextId + 1, spoiled)
    BY <1>1, <1>2, <1>3, <1>5, SaveFacts, Zenon
  <2> QED BY <1>1, <2>1
<1>8. Keeps(disk, u.disk)
  <2>1. u.disk = t.disk \cup {c}
    BY <1>3 DEF Sound, Value
  <2> QED BY <1>3, <2>1 DEF Keeps
<1> HIDE DEF u
<1>9. CASE Becomes(u)
  BY <1>1, <1>2, <1>7, <1>8, <1>9, BecomesFacts
<1>10. CASE Becomes(t)
  BY <1>1, <1>2, <1>6, <1>3, <1>10, BecomesFacts
<1> QED BY <1>4, <1>9, <1>10

(* SaveCheckpoint with the identifier of an automatic checkpoint.           *)
LEMMA PinStep ==
  ASSUME TimelineInv, setting' = setting, NEW i, Pin(i)
  PROVE  TimelineInv' /\ Keeps(disk, disk')
<1>0. PICK t \in Loaded(Timeline) :
        LET c    == t.auto[i]
            new  == [c EXCEPT !.pinned = TRUE]
            pins == [t EXCEPT !.auto = Drop(@, i), !.pinned = ByTime(Append(@, new))]
        IN  /\ i \in DOMAIN t.auto
            /\ layout' = layout /\ now' = now /\ nextId' = nextId
            /\ \/ Becomes([pins EXCEPT !.disk = (@ \ {c}) \cup {new}]) /\ spoiled' = spoiled
               \/ /\ spoiled' = spoiled \cup {c.id}
                  /\ Becomes(pins) \/ Becomes([pins EXCEPT !.disk = @ \ {c}])
  BY DEF Pin
<1> DEFINE c == t.auto[i]
           new == [c EXCEPT !.pinned = TRUE]
           pins == [t EXCEPT !.auto = Drop(@, i), !.pinned = ByTime(Append(@, new))]
           result(D) == [auto |-> Drop(t.auto, i), pinned |-> ByTime(Append(t.pinned, new)),
                         cursor |-> t.cursor, disk |-> D]
           saved == (t.disk \ {c}) \cup {new}
<1>4. /\ i \in DOMAIN t.auto
      /\ \/ Becomes([pins EXCEPT !.disk = (@ \ {c}) \cup {new}]) /\ spoiled' = spoiled
         \/ /\ spoiled' = spoiled \cup {c.id}
            /\ Becomes(pins) \/ Becomes([pins EXCEPT !.disk = @ \ {c}])
  BY <1>0
<1>1. /\ Clock /\ nextId \in Nat \ {0} /\ layout \in Layouts /\ Capacity \in Nat
      /\ layout' = layout /\ now' = now /\ nextId' = nextId
  BY <1>0, SettingFacts DEF TimelineInv, Clock
<1>2. nextId \in Nat /\ nextId' \in Nat \ {0}
  BY <1>1
<1>3. Sound(t, nextId, spoiled) /\ Keeps(disk, t.disk)
  BY LoadedKeeps
<1>5. t = [auto |-> t.auto, pinned |-> t.pinned, cursor |-> t.cursor, disk |-> t.disk]
  BY <1>2, <1>3, MemberFacts
<1>6. /\ [pins EXCEPT !.disk = (@ \ {c}) \cup {new}] = result(saved)
      /\ pins = result(t.disk) /\ [pins EXCEPT !.disk = @ \ {c}] = result(t.disk \ {c})
  <2> HIDE DEF c, new
  <2>1. pins = result(t.disk)
    <3>2. ASSUME NEW a, NEW q
          PROVE  [t EXCEPT !.auto = a, !.pinned = q]
                   = [auto |-> a, pinned |-> q, cursor |-> t.cursor, disk |-> t.disk]
      <4>1. t \in [auto : {t.auto, a}, pinned : {t.pinned, q},
                   cursor : {t.cursor}, disk : {t.disk}]
        BY <1>5
      <4> DEFINE u == [t EXCEPT !.auto = a, !.pinned = q]
      <4>2. /\ u \in [auto : {t.auto, a}, pinned : {t.pinned, q},
                      cursor : {t.cursor}, disk : {t.disk}]
            /\ u.auto = a /\ u.pinned = q /\ u.cursor = t.cursor /\ u.disk = t.disk
        BY <4>1
      <4> HIDE DEF u
      <4>3. u = [auto |-> a, pinned |-> q, cursor |-> t.cursor, disk |-> t.disk]
        BY <4>2
      <4> QED BY <4>3 DEF u
    <3> QED BY <3>2
  <2> HIDE DEF pins
  <2>2. \A D : [pins EXCEPT !.disk = D] = result(D)
    BY <2>1
  <2>3. pins.disk = t.disk
    BY <2>1
  <2> HIDE DEF result
  <2> QED BY <2>1, <2>2, <2>3
<1>7. PICK D : /\ Becomes(result(D))
               /\ \/ D = saved /\ spoiled' = spoiled
                  \/ D \in {t.disk, t.disk \ {c}} /\ spoiled' = spoiled \cup {c.id}
  <2> HIDE DEF pins, result, saved, c, new
  <2> QED BY <1>4, <1>6
<1>8. c \in Autos(nextId) /\ c \in Recorded(nextId) /\ ~c.pinned
  BY <1>2, <1>3, <1>4, MemberFacts DEF Autos
<1>9. new \in Pins(nextId) /\ new.id = c.id
  <2> HIDE DEF c
  <2> QED BY <1>2, <1>8, PinnedFacts
<1> DEFINE u == result(D)
<1>10. Sound(u, nextId, spoiled')
  <2>1. c = t.auto[i]
    OBVIOUS
  <2> HIDE DEF c, new
  <2> QED BY <1>1, <1>2, <1>3, <1>4, <1>7, <1>9, <2>1, PinFacts
<1>11. Keeps(disk, u.disk)
  <2>1. u.disk = D
    OBVIOUS
  <2> HIDE DEF c, u
  <2> QED BY <1>3, <1>7, <1>8, <2>1 DEF Keeps, saved
<1> HIDE DEF result, c, new
<1>12. Becomes(u)
  BY <1>7
<1> HIDE DEF u
<1> QED BY <1>1, <1>2, <1>10, <1>11, <1>12, BecomesFacts
(* restore_timeline_checkpoint.                                             *)
LEMMA RestoreStep ==
  ASSUME TimelineInv, setting' = setting, NEW i, Restore(i)
  PROVE  TimelineInv' /\ Keeps(disk, disk')
<1> DEFINE new == New(nextId, layout, <<>>, FALSE)
<1>1. PICK t \in Loaded(Timeline), outcome \in Outcomes :
        /\ i \in DOMAIN Merged(t) /\ layout' = Merged(t)[i].layout
        /\ Becomes(Seek(PushAuto(t, new, outcome), Merged(t)[i].id))
  BY DEF Restore
<1> DEFINE id == Merged(t)[i].id
<1>2. /\ Clock /\ nextId \in Nat \ {0} /\ layout \in Layouts /\ MaxId \in Nat
      /\ i \in DOMAIN Merged(t) /\ layout' = Merged(t)[i].layout
      /\ now' = now /\ spoiled' = spoiled /\ nextId <= MaxId /\ nextId' = nextId + 1
  BY <1>1, SettingFacts DEF TimelineInv, Clock, Restore
<1>3. nextId \in Nat /\ nextId' \in Nat \ {0} /\ nextId \in 1..MaxId
  BY <1>2
<1>4. Sound(t, nextId, spoiled) /\ Keeps(disk, t.disk)
  BY LoadedKeeps
<1>5. new.id = nextId /\ ~new.pinned /\ new \in Autos(nextId + 1)
  <2>1. <<>> \in Keys
    BY DEF Keys
  <2>2. new \in Autos(nextId + 1)
    BY <1>2, <1>3, <2>1, NewFacts DEF New
  <2>3. new.id = nextId /\ ~new.pinned
    BY DEF New
  <2> QED BY <2>2, <2>3
<1>6. layout' \in Layouts
  <2>1. Merged(t) \in Seq(Recorded(nextId))
    BY <1>3, <1>4, MergedFacts
  <2>2. Merged(t)[i] \in Recorded(nextId)
    BY <1>2, <2>1
  <2> QED BY <1>2, <2>2, CheckpointFacts DEF Recorded
<1> DEFINE v == PushAuto(t, new, outcome)
           u == Seek(v, id)
<1> HIDE DEF new
<1>7. Sound(v, nextId + 1, spoiled) /\ Keeps(t.disk, v.disk)
  <2>1. Sound(v, nextId + 1, spoiled)
    BY <1>2, <1>3, <1>4, <1>5, PushAutoFacts
  <2>2. Keeps(t.disk, v.disk)
    BY <1>3, <1>4, <1>5, PushAutoKeeps
  <2> QED BY <2>1, <2>2
<1> HIDE DEF v, id
<1>8. Sound(u, nextId', spoiled')
  BY <1>2, <1>3, <1>7, SeekFacts
<1>9. u.disk = v.disk
  BY <1>7 DEF Sound, Value, Seek
<1>10. Becomes(u)
  BY <1>1 DEF v, id
<1> HIDE DEF u
<1>11. TimelineInv' /\ disk' = u.disk
  BY <1>2, <1>3, <1>6, <1>8, <1>10, BecomesFacts
<1> QED BY <1>4, <1>7, <1>9, <1>11 DEF Keeps

(* What undo and redo share: only the cursor and the layout change.         *)
LEMMA MovesTo ==
  ASSUME TimelineInv, setting' = setting, NEW t \in Loaded(Timeline),
         NEW i \in 1..Len(Merged(t)), NEW k \in {NoCursor} \cup 1..Len(Merged(t)),
         NEW u, u = [t EXCEPT !.cursor = k], Becomes(u),
         layout' = Merged(t)[i].layout, now' = now, nextId' = nextId, spoiled' = spoiled
  PROVE  /\ TimelineInv' /\ Keeps(disk, disk')
         /\ Timeline' = u /\ Merged(u) = Merged(t) /\ u.cursor = k
         /\ Len(Merged(t)) \in Nat
         /\ t.cursor = NoCursor \/ t.cursor \in 1..Len(Merged(t))
<1>1. Clock /\ nextId \in Nat \ {0} /\ nextId \in Nat
  BY DEF TimelineInv, Clock
<1>2. Sound(t, nextId, spoiled) /\ Keeps(disk, t.disk)
  BY LoadedKeeps
<1>3. Merged(t) \in Seq(Recorded(nextId)) /\ Len(Merged(t)) = Len(t.auto) + Len(t.pinned)
  BY <1>1, <1>2, MergedFacts
<1>4. layout' \in Layouts
  <2>1. Merged(t)[i] \in Recorded(nextId)
    BY <1>1, <1>2, MergedFacts
  <2> QED BY <2>1, CheckpointFacts DEF Recorded
<1>5. /\ Sound(u, nextId, spoiled) /\ Merged(u) = Merged(t)
      /\ u = [auto |-> t.auto, pinned |-> t.pinned, cursor |-> k, disk |-> t.disk]
  BY <1>1, <1>2, CursorFacts
<1>6. TimelineInv' /\ Timeline' = u /\ disk' = u.disk
  <2>1. Sound(u, nextId', spoiled') /\ nextId' \in Nat \ {0}
    BY <1>1, <1>5
  <2> QED BY <1>4, <2>1, BecomesFacts
<1>7. u.disk = t.disk /\ u.cursor = k
  BY <1>5
<1>8. t.cursor = NoCursor \/ t.cursor \in 1..Len(Merged(t))
  BY <1>2, <1>3 DEF Sound
<1>9. Len(Merged(t)) \in Nat
  BY <1>1, <1>2, MergedFacts
<1> QED BY <1>2, <1>5, <1>6, <1>7, <1>8, <1>9

(* Undo; a redo would lead back.                                            *)
LEMMA UndoStep ==
  ASSUME TimelineInv, setting' = setting, Undo
  PROVE  TimelineInv' /\ Keeps(disk, disk') /\ RedoTakesBackUndo'
<1>0. PICK t \in Loaded(Timeline) : \E i \in Back(t) :
        /\ Becomes([t EXCEPT !.cursor = i]) /\ layout' = Merged(t)[i].layout
        /\ last' = Known("undo", {layout}, AtCursor(t))
        /\ now' = now /\ nextId' = nextId /\ spoiled' = spoiled
  BY DEF Undo
<1>1. PICK i \in Back(t) :
        /\ Becomes([t EXCEPT !.cursor = i]) /\ layout' = Merged(t)[i].layout
        /\ last' = Known("undo", {layout}, AtCursor(t))
        /\ now' = now /\ nextId' = nextId /\ spoiled' = spoiled
  BY <1>0
<1> DEFINE m == Merged(t)
           n == Len(m)
<1>2. Clock /\ nextId \in Nat
  BY DEF TimelineInv, Clock
<1>3. Sound(t, nextId, spoiled)
  BY LoadedKeeps
<1> DEFINE u == [t EXCEPT !.cursor = i]
<1>4. n \in Nat /\ (t.cursor = NoCursor \/ t.cursor \in 1..n)
  <2>1. m \in Seq(Recorded(nextId)) /\ n = Len(t.auto) + Len(t.pinned)
    BY <1>2, <1>3, MergedFacts
  <2>2. n \in Nat
    BY <1>2, <1>3, MergedFacts
  <2> HIDE DEF n
  <2> QED BY <1>3, <2>1, <2>2 DEF Sound
<1>5. /\ i \in 1..n
      /\ i + 1 = IF t.cursor = NoCursor THEN n ELSE t.cursor
  <2>1. i \in IF t.cursor = NoCursor THEN {k \in {n - 1} : n >= 2}
              ELSE {k \in {t.cursor - 1} : k >= 1}
    BY <1>1 DEF Back
  <2> HIDE DEF n
  <2> QED BY <1>4, <2>1
<1>6. /\ TimelineInv' /\ Keeps(disk, disk')
      /\ Timeline' = u /\ Merged(u) = m /\ u.cursor = i
  <2>1. i \in 1..Len(Merged(t)) /\ i \in {NoCursor} \cup 1..Len(Merged(t))
    BY <1>5
  <2>2. t \in Loaded(Timeline)
    BY <1>1
  <2>3. /\ Becomes(u) /\ layout' = Merged(t)[i].layout
        /\ now' = now /\ nextId' = nextId /\ spoiled' = spoiled
    BY <1>1
  <2> HIDE DEF n, m
  <2> QED BY <2>1, <2>2, <2>3, MovesTo DEF m
<1>7. RedoTakesBackUndo'
  <2> SUFFICES ASSUME last'.op = "undo"
               PROVE  \E k \in Forward(u) : Merged(u)[k].layout \in last'.before
    BY <1>6 DEF RedoTakesBackUndo, Forward, Merged
  <2>1. AtCursor(t) /\ last'.before = {layout}
    BY <1>1 DEF Known, Nothing
  <2>2. layout = m[IF t.cursor = NoCursor THEN n ELSE t.cursor].layout
    BY <2>1 DEF AtCursor
  <2>3. layout = m[i + 1].layout
    BY <1>5, <2>2
  <2>4. i # NoCursor /\ i # n
    <3>1. i \in Nat
      BY <1>5
    <3> HIDE DEF n
    <3>2. i # n
      BY <1>4, <1>5
    <3> QED BY <3>1, <3>2, TimeAssumption
  <2>5. i + 1 \in Forward(u)
    BY <1>6, <2>4 DEF Forward
  <2> QED BY <1>6, <2>1, <2>3, <2>5
<1> QED BY <1>6, <1>7

(* Redo.                                                                    *)
LEMMA RedoStep ==
  ASSUME TimelineInv, setting' = setting, Redo
  PROVE  TimelineInv' /\ Keeps(disk, disk')
<1>0. PICK t \in Loaded(Timeline) : \E i \in Forward(t) :
        /\ Becomes([t EXCEPT !.cursor = IF i = t.cursor THEN NoCursor ELSE i])
        /\ layout' = Merged(t)[i].layout
        /\ now' = now /\ nextId' = nextId /\ spoiled' = spoiled
  BY DEF Redo
<1>1. PICK i \in Forward(t) :
        /\ Becomes([t EXCEPT !.cursor = IF i = t.cursor THEN NoCursor ELSE i])
        /\ layout' = Merged(t)[i].layout
        /\ now' = now /\ nextId' = nextId /\ spoiled' = spoiled
  BY <1>0
<1> DEFINE n == Len(Merged(t))
<1>2. Clock /\ nextId \in Nat
  BY DEF TimelineInv, Clock
<1>3. Sound(t, nextId, spoiled)
  BY LoadedKeeps
<1>4. n \in Nat /\ (t.cursor = NoCursor \/ t.cursor \in 1..n)
  <2>1. Merged(t) \in Seq(Recorded(nextId)) /\ n = Len(t.auto) + Len(t.pinned)
    BY <1>2, <1>3, MergedFacts
  <2>2. n \in Nat
    BY <1>2, <1>3, MergedFacts
  <2> HIDE DEF n
  <2> QED BY <1>3, <2>1, <2>2 DEF Sound
<1>5. i \in 1..n
  <2>1. t.cursor # NoCursor /\ (i = t.cursor \/ (t.cursor # n /\ i = t.cursor + 1))
    BY <1>1 DEF Forward
  <2> HIDE DEF n
  <2> QED BY <1>4, <2>1
<1> DEFINE k == IF i = t.cursor THEN NoCursor ELSE i
           u == [t EXCEPT !.cursor = k]
<1>6. k \in {NoCursor} \cup 1..Len(Merged(t)) /\ i \in 1..Len(Merged(t))
  BY <1>5
<1>7. t \in Loaded(Timeline) /\ Becomes(u)
  BY <1>1
<1> HIDE DEF k
<1> QED BY <1>1, <1>6, <1>7, MovesTo

(* The user deletes a checkpoint: the others stay.                          *)
LEMMA DeleteStep ==
  ASSUME TimelineInv, setting' = setting, NEW id, Delete(id)
  PROVE  TimelineInv' /\ \A c \in disk : c.pinned /\ c.id # id => c \in disk'
<1>1. PICK t \in Loaded(Timeline), outcome \in {"none", "delete"} :
        Becomes(Remove(t, id, outcome))
  BY DEF Delete
<1>2. /\ Clock /\ nextId \in Nat \ {0} /\ nextId \in Nat /\ Capacity \in Nat
      /\ layout' \in Layouts /\ now' = now /\ nextId' = nextId /\ spoiled' = spoiled
  BY SettingFacts DEF Delete, TimelineInv, Clock
<1>3. Sound(t, nextId, spoiled) /\ Keeps(disk, t.disk)
  BY LoadedKeeps
<1> DEFINE u == Remove(t, id, outcome)
<1>4. Sound(u, nextId', spoiled')
  BY <1>2, <1>3, RemoveFacts
<1>5. \A c \in t.disk : c.id # id => c \in u.disk
  BY DEF Remove
<1> HIDE DEF u
<1>6. TimelineInv' /\ disk' = u.disk
  <2>1. Becomes(u)
    BY <1>1 DEF u
  <2> QED BY <1>2, <1>4, <2>1, BecomesFacts
<1> QED BY <1>3, <1>5, <1>6 DEF Keeps

(* OpenTimeline.                                                            *)
LEMMA OpenStep ==
  ASSUME TimelineInv, setting' = setting, Open
  PROVE  TimelineInv' /\ Keeps(disk, disk')
<1>0. PICK u \in Reloads(Timeline) : Becomes(u)
  BY DEF Open
<1>1. /\ Clock /\ nextId' \in Nat \ {0} /\ nextId \in Nat /\ layout' \in Layouts
      /\ now' = now /\ nextId' = nextId /\ spoiled' = spoiled /\ Becomes(u)
  BY <1>0 DEF TimelineInv, Clock, Open
<1>2. Timeline.disk = disk /\ disk \in SUBSET Recorded(nextId) /\ OneFileEach(disk)
  BY DEF TimelineInv, Sound, Value, Timeline
<1>3. Sound(u, nextId', spoiled') /\ Keeps(disk, u.disk)
  BY <1>1, <1>2, ReloadFacts, ReloadKeeps
<1> QED BY <1>1, <1>3, BecomesFacts

-----------------------------------------------------------------------------
(* The clock, and the ends of the program: only the files are left.        *)
LEMMA SecondStep ==
  ASSUME TimelineInv, setting' = setting, Second
  PROVE  TimelineInv' /\ disk' = disk
<1>1. /\ Timeline' = Timeline /\ nextId' = nextId /\ spoiled' = spoiled
      /\ layout' = layout /\ now' = now + 1 /\ now < MaxTime
  BY DEF Second, Timeline
<1>2. now \in Nat /\ Clock
  BY SettingFacts DEF TimelineInv
<1>3. Clock'
  BY <1>1, <1>2, TimeAssumption DEF Clock
<1>4. /\ Recorded(nextId) \subseteq Recorded(nextId)'
      /\ Autos(nextId) \subseteq Autos(nextId)' /\ Pins(nextId) \subseteq Pins(nextId)'
  <2>1. Checkpoint' = Checkpoint
    BY DEF Checkpoint, MaxId
  <2>2. \A c \in Recorded(nextId) : c \in Recorded(nextId)'
    BY <1>1, <1>2, <2>1, CheckpointFacts DEF Recorded
  <2> QED BY <2>2 DEF Autos, Pins
<1>5. (Timeline \in Value(nextId))'
  <2>1. Timeline \in Value(nextId)
    BY DEF TimelineInv, Sound
  <2>2. Value(nextId)' = [auto : Seq(Autos(nextId)'), pinned : Seq(Pins(nextId)'),
                          cursor : Nat \cup {NoCursor}, disk : SUBSET (Recorded(nextId)')]
    BY DEF Value
  <2> QED BY <1>1, <1>4, <2>1, <2>2 DEF Value
<1>6. Sound(Timeline, nextId, spoiled)'
  <2>1. Capacity' = Capacity
    BY DEF Capacity
  <2>2. /\ DistinctIds(Timeline.auto)' /\ DistinctIds(Timeline.pinned)'
        /\ Apart(Timeline.auto, Timeline.pinned)' /\ OneFileEach(Timeline.disk)'
    <3>1. /\ DistinctIds(Timeline.auto) /\ DistinctIds(Timeline.pinned)
          /\ Apart(Timeline.auto, Timeline.pinned) /\ OneFileEach(Timeline.disk)
      BY DEF TimelineInv, Sound
    <3> QED BY <1>1, <3>1 DEF DistinctIds, Apart, OneFileEach
  <2> QED BY <1>1, <1>5, <2>1, <2>2 DEF TimelineInv, Sound
<1> QED BY <1>1, <1>3, <1>6 DEF TimelineInv, Second

(* After the end of the program only the files are left.                    *)
LEMMA ForgottenFacts ==
  ASSUME Clock, NEW n \in Nat, NEW sp, NEW files \in SUBSET Recorded(n), OneFileEach(files),
         NEW u, u = Forgotten(files)
  PROVE  Sound(u, n, sp) /\ u.disk = files
<1>1. /\ u.auto = <<>> /\ u.pinned = <<>> /\ u.cursor = NoCursor /\ u.disk = files
      /\ u \in Value(n)
  BY DEF Forgotten, Value
<1>2. Len(u.auto) <= Capacity
  BY <1>1, SettingFacts
<1> QED BY <1>1, <1>2 DEF Sound, DistinctIds, Apart

(* The program ends, between commands or within one.                        *)
LEMMA DeathsStep ==
  ASSUME TimelineInv, setting' = setting, Deaths
  PROVE  TimelineInv' /\ Keeps(disk, disk')
<1>1. /\ Clock /\ nextId \in Nat \ {0} /\ nextId \in Nat /\ layout \in Layouts /\ MaxId \in Nat
      /\ Sound(Timeline, nextId, spoiled)
  BY SettingFacts DEF TimelineInv, Clock
<1>2. disk \in SUBSET Recorded(nextId) /\ OneFileEach(disk) /\ Timeline.auto = auto
  BY <1>1 DEF Sound, Value, Timeline
<1>3. ASSUME NEW n \in Nat \ {0}, NEW files \in SUBSET Recorded(n), OneFileEach(files),
             Keeps(disk, files), Becomes(Forgotten(files)),
             nextId' = n, layout' = layout, now' = now
      PROVE  TimelineInv' /\ Keeps(disk, disk')
  <2> DEFINE u == Forgotten(files)
  <2>1. Sound(u, n, spoiled') /\ u.disk = files
    BY <1>1, <1>3, ForgottenFacts
  <2>2. Becomes(u)
    BY <1>3
  <2> HIDE DEF u
  <2> QED BY <1>1, <1>3, <2>1, <2>2, BecomesFacts
<1>4. CASE Restart
  <2>1. Keeps(disk, disk)
    BY DEF Keeps
  <2> QED BY <1>1, <1>2, <1>3, <1>4, <2>1 DEF Restart
<1>5. ASSUME NEW s \in Scopes, DieInMutate(s)
      PROVE  TimelineInv' /\ Keeps(disk, disk')
  <2> DEFINE pre == New(nextId, layout, <<"pre", s>>, FALSE)
  <2>0. PICK t \in Loaded(Timeline) : Becomes(Forgotten(KeepFirst(t, pre, "none").disk))
    BY <1>5 DEF DieInMutate
  <2> DEFINE u == KeepFirst(t, pre, "none")
  <2>1. /\ Becomes(Forgotten(u.disk)) /\ nextId <= MaxId /\ nextId' = nextId + 1
        /\ layout' = layout /\ now' = now
    BY <1>5, <2>0 DEF DieInMutate
  <2>2. Sound(t, nextId, spoiled) /\ Keeps(disk, t.disk)
    BY LoadedKeeps
  <2>3. pre.id = nextId /\ ~pre.pinned /\ pre \in Autos(nextId + 1)
    <3>1. <<"pre", s>> \in Keys /\ nextId \in 1..MaxId
      BY <1>1, <2>1 DEF Keys
    <3>2. pre \in Autos(nextId + 1)
      BY <1>1, <3>1, NewFacts DEF New
    <3>3. pre.id = nextId /\ ~pre.pinned
      BY DEF New
    <3> QED BY <3>2, <3>3
  <2> HIDE DEF pre
  <2>4. Sound(u, nextId + 1, spoiled)
    <3>1. IF pre \in Rng(u.auto) THEN Sound(u, nextId + 1, spoiled) ELSE Sound(u, nextId, spoiled)
      BY <1>1, <2>2, <2>3, KeepFirstFacts
    <3> HIDE DEF u
    <3> QED BY <1>1, <3>1, LaterFacts
  <2>5. Keeps(t.disk, u.disk)
    BY <1>1, <2>2, <2>3, RecordKeeps
  <2> HIDE DEF u
  <2>6. u.disk \in SUBSET Recorded(nextId + 1) /\ OneFileEach(u.disk)
    BY <2>4 DEF Sound, Value
  <2>7. Keeps(disk, u.disk) /\ nextId + 1 \in Nat \ {0}
    BY <1>1, <2>2, <2>5 DEF Keeps
  <2> QED BY <1>3, <2>1, <2>6, <2>7
<1>6. ASSUME NEW i, DieInPin(i)
      PROVE  TimelineInv' /\ Keeps(disk, disk')
  <2> DEFINE files == disk \ {auto[i]}
  <2>1. /\ Becomes(Forgotten(files)) /\ i \in DOMAIN auto
        /\ nextId' = nextId /\ layout' = layout /\ now' = now
    BY <1>6 DEF DieInPin
  <2>2. ~auto[i].pinned
    BY <1>1, <1>2, <2>1, MemberFacts DEF Autos
  <2>3. files \in SUBSET Recorded(nextId) /\ OneFileEach(files) /\ Keeps(disk, files)
    BY <1>2, <2>2 DEF OneFileEach, Keeps
  <2> HIDE DEF files
  <2> QED BY <1>1, <1>3, <2>1, <2>3
<1> QED BY <1>4, <1>5, <1>6 DEF Deaths
-----------------------------------------------------------------------------
(* Nothing recorded: the timeline is sound.                                 *)
LEMMA InitSound == Init => TimelineInv
<1> SUFFICES ASSUME Init PROVE TimelineInv
  OBVIOUS
<1>1. Clock /\ layout \in Layouts /\ nextId \in Nat
  BY TimeAssumption DEF Init, Clock
<1>2. /\ Timeline = Forgotten({}) /\ {} \in SUBSET Recorded(nextId) /\ OneFileEach({})
  BY DEF Init, Timeline, Forgotten, OneFileEach
<1> QED BY <1>1, <1>2, ForgottenFacts DEF TimelineInv

(* Every step keeps the invariant and the pinned files, but for the one    *)
(* the user deletes.                                                       *)
LEMMA StepSound ==
  ASSUME TimelineInv, [Next]_vars
  PROVE  TimelineInv' /\ \A c \in disk : c.pinned => c \in disk' \/ Delete(c.id)
<1> DEFINE Goal == TimelineInv' /\ \A c \in disk : c.pinned => c \in disk' \/ Delete(c.id)
<1> SUFFICES Goal
  OBVIOUS
<1>0. ASSUME Next PROVE setting' = setting
  BY <1>0 DEF Next
<1>1. ASSUME TimelineInv', Keeps(disk, disk') PROVE Goal
  BY <1>1 DEF Keeps
<1>2. ASSUME Next, NEW s \in Scopes, NEW l \in Layouts, Mutate(s, l) PROVE Goal
  BY <1>0, <1>1, <1>2, MutateStep
<1>3. ASSUME Next, NEW l \in Layouts, Edit(l) PROVE Goal
  BY <1>0, <1>1, <1>3, EditStep
<1>4. CASE Next /\ Undo
  BY <1>0, <1>1, <1>4, UndoStep
<1>5. CASE Next /\ Redo
  BY <1>0, <1>1, <1>5, RedoStep
<1>6. CASE Next /\ Second
  BY <1>0, <1>6, SecondStep
<1>7. CASE Next /\ SaveCheckpoint
  BY <1>0, <1>1, <1>7, SaveCheckpointStep
<1>8. ASSUME Next, NEW i \in 1..Capacity, Pin(i) PROVE Goal
  BY <1>0, <1>1, <1>8, PinStep
<1>9. ASSUME Next, NEW i \in 1..MaxId, Restore(i) PROVE Goal
  BY <1>0, <1>1, <1>9, RestoreStep
<1>10. ASSUME Next, NEW i \in 1..MaxId, Delete(i) PROVE Goal
  BY <1>0, <1>10, DeleteStep
<1>11. CASE Next /\ Open
  BY <1>0, <1>1, <1>11, OpenStep
<1>12. CASE Next /\ Deaths
  BY <1>0, <1>1, <1>12, DeathsStep
<1>13. CASE UNCHANGED vars
  <2>1. disk' = disk /\ Timeline' = Timeline /\ nextId' = nextId /\ spoiled' = spoiled
        /\ now' = now /\ setting' = setting /\ layout' = layout
    BY <1>13 DEF vars, Timeline
  <2>2. Becomes(Timeline)
    BY <1>13 DEF vars, Timeline, Becomes
  <2>3. nextId' \in Nat \ {0} /\ layout' \in Layouts /\ Sound(Timeline, nextId', spoiled')
    BY <2>1 DEF TimelineInv, Clock
  <2>4. TimelineInv'
    BY <2>1, <2>2, <2>3, BecomesFacts
  <2> QED BY <2>1, <2>4
<1> HIDE DEF Goal
<1>14. CASE Next
  <2>1. MutateUndoRedo \/ Others
    BY <1>14 DEF Next
  <2>2. CASE MutateUndoRedo
    <3>1. \/ \E s \in Scopes, l \in Layouts : Mutate(s, l)
          \/ \E l \in Layouts : Edit(l)
          \/ Undo \/ Redo \/ Second
      BY <2>2, Zenon DEF MutateUndoRedo
    <3>2. ASSUME NEW s \in Scopes, NEW l \in Layouts, Mutate(s, l) PROVE Goal
      BY <1>14, <3>2, <1>2
    <3>3. ASSUME NEW l \in Layouts, Edit(l) PROVE Goal
      BY <1>14, <3>3, <1>3
    <3>4. Undo \/ Redo \/ Second => Goal
      BY <1>14, <1>4, <1>5, <1>6
    <3>5. (\E s \in Scopes, l \in Layouts : Mutate(s, l)) => Goal
      BY <3>2
    <3>6. (\E l \in Layouts : Edit(l)) => Goal
      BY <3>3
    <3> QED BY <3>1, <3>4, <3>5, <3>6
  <2>3. CASE Others
    <3>1. \/ SaveCheckpoint \/ \E i \in 1..Capacity : Pin(i)
          \/ \E i \in 1..MaxId : Restore(i) \/ Delete(i)
          \/ Open \/ Deaths
      BY <2>3, Zenon DEF Others
    <3>2. ASSUME NEW i \in 1..Capacity, Pin(i) PROVE Goal
      BY <1>14, <3>2, <1>8
    <3>3. ASSUME NEW i \in 1..MaxId, Restore(i) \/ Delete(i) PROVE Goal
      BY <1>14, <3>3, <1>9, <1>10
    <3>4. SaveCheckpoint \/ Open \/ Deaths => Goal
      BY <1>14, <1>7, <1>11, <1>12
    <3>5. (\E i \in 1..Capacity : Pin(i)) => Goal
      BY <3>2
    <3>6. (\E i \in 1..MaxId : Restore(i) \/ Delete(i)) => Goal
      BY <3>3
    <3> QED BY <3>1, <3>4, <3>5, <3>6
  <2> QED BY <2>1, <2>2, <2>3
<1> QED BY <1>13, <1>14 DEF Goal

(* Whenever a command has ended, the buffer is listed once, within its     *)
(* capacity, and agrees with the files; each of its properties rests on    *)
(* this.                                                                   *)
THEOREM TimelineIsSound == Spec => []TimelineInv
<1>1. TimelineInv /\ [Next]_vars => TimelineInv'
  BY StepSound
<1> QED BY InitSound, <1>1, PTL DEF Spec

(* Which commands leave something to remember.                             *)
LEMMA Remembered ==
  ASSUME [Next]_vars, last'.op # "none"
  PROVE  \/ UNCHANGED <<layout, auto, pinned, cursor, disk, last>>
         \/ setting' = setting /\ Undo /\ last'.op = "undo"
         \/ /\ setting' = setting /\ last'.op = "mutate"
            /\ \E s \in Scopes, l \in Layouts : Mutate(s, l)
<1> USE DEF Nothing
<1>1. ASSUME NEW s, NEW l, Mutate(s, l) PROVE last'.op \in {"none", "mutate"}
  BY <1>1 DEF Mutate, Known
<1>2. ASSUME Undo PROVE last'.op = "undo"
  <2>1. PICK t \in Loaded(Timeline) : \E i \in Back(t) :
          last' = Known("undo", {layout}, AtCursor(t))
    BY <1>2, Zenon DEF Undo
  <2>2. \/ last' = [op |-> "undo", before |-> {layout}]
        \/ last' = [op |-> "none", before |-> {}]
    BY <2>1, Zenon DEF Known
  <2>3. CASE last' = [op |-> "undo", before |-> {layout}]
    BY <2>3
  <2>4. CASE last' = [op |-> "none", before |-> {}]
    BY <2>4
  <2> QED BY <2>2, <2>3, <2>4
<1>0. last' # [op |-> "none", before |-> {}]
  OBVIOUS
<1>3. ASSUME NEW i PROVE ~Restore(i) /\ ~Delete(i) /\ ~Pin(i) /\ ~DieInPin(i) /\ ~DieInMutate(i)
  <2>1. ~Restore(i)
    BY <1>0 DEF Restore
  <2>2. ~Delete(i)
    BY <1>0 DEF Delete
  <2>3. ~Pin(i)
    BY <1>0 DEF Pin
  <2>4. ~DieInPin(i) /\ ~DieInMutate(i)
    BY <1>0 DEF DieInPin, DieInMutate
  <2> QED BY <2>1, <2>2, <2>3, <2>4
<1>4. ~SaveCheckpoint /\ ~Open /\ ~Deaths /\ ~Redo /\ \A l : ~Edit(l)
  <2>1. ~SaveCheckpoint /\ ~Open /\ ~Restart
    BY <1>0 DEF SaveCheckpoint, Open, Restart
  <2>2. ~Redo
    BY <1>0 DEF Redo
  <2>3. \A l : ~Edit(l)
    BY <1>0 DEF Edit
  <2> QED BY <1>3, <2>1, <2>2, <2>3 DEF Deaths
<1>5. CASE Second
  BY <1>5 DEF Second
<1>6. CASE UNCHANGED vars
  BY <1>6 DEF vars
<1>7. CASE Next
  <2>1. ~Others
    BY <1>3, <1>4 DEF Others
  <2>2. setting' = setting /\ MutateUndoRedo
    BY <1>7, <2>1 DEF Next
  <2> QED BY <2>2, <1>1, <1>2, <1>4, <1>5 DEF MutateUndoRedo
<1> QED BY <1>6, <1>7

-----------------------------------------------------------------------------
(* Checkpoints are recorded ones, within the capacity of the buffer, none  *)
(* is listed twice, and the cursor is at one that is listed.               *)
THEOREM TimelineTypeOK == Spec => []TypeOK
<1>1. TimelineInv => TypeOK
  <2> SUFFICES ASSUME TimelineInv PROVE TypeOK
    OBVIOUS
  <2> DEFINE s == auto \o pinned
             R == Recorded(nextId)
  <2>1. /\ auto \in Seq(R) /\ pinned \in Seq(R) /\ disk \in SUBSET R
        /\ DistinctIds(auto) /\ DistinctIds(pinned) /\ Apart(auto, pinned)
        /\ cursor = NoCursor \/ cursor \in 1..(Len(auto) + Len(pinned))
        /\ Len(auto) <= Capacity /\ layout \in Layouts
    BY DEF TimelineInv, Sound, Timeline, Value, Autos, Pins
  <2>2. R \subseteq Checkpoint
    BY DEF Recorded
  <2> HIDE DEF R
  <2>3. Rng(auto) \cup Rng(pinned) \subseteq Checkpoint /\ disk \subseteq Checkpoint
    BY <2>1, <2>2 DEF Rng
  <2>4. /\ s \in Seq(R) /\ Len(s) = Len(auto) + Len(pinned)
        /\ \A i \in 1..Len(s) :
              \/ i \in 1..Len(auto) /\ s[i] = auto[i]
              \/ i > Len(auto) /\ i - Len(auto) \in 1..Len(pinned) /\ s[i] = pinned[i - Len(auto)]
    BY <2>1, ConcatFacts
  <2> HIDE DEF s
  <2>5. DOMAIN s = 1..Len(s) /\ Len(auto) \in Nat /\ Len(pinned) \in Nat
        /\ DOMAIN auto = 1..Len(auto) /\ DOMAIN pinned = 1..Len(pinned)
    BY <2>1, <2>4
  <2>6. \A i, j \in DOMAIN s : s[i].id = s[j].id => i = j
    <3> SUFFICES ASSUME NEW i \in 1..Len(s), NEW j \in 1..Len(s), s[i].id = s[j].id
                 PROVE  i = j
      BY <2>5
    <3>1. CASE i \in 1..Len(auto) /\ s[i] = auto[i]
      <4>1. CASE j \in 1..Len(auto) /\ s[j] = auto[j]
        BY <3>1, <4>1, <2>1, <2>5 DEF DistinctIds
      <4>2. CASE j - Len(auto) \in 1..Len(pinned) /\ s[j] = pinned[j - Len(auto)]
        BY <3>1, <4>2, <2>1, <2>5 DEF Apart
      <4> QED BY <4>1, <4>2, <2>4
    <3>2. CASE i - Len(auto) \in 1..Len(pinned) /\ s[i] = pinned[i - Len(auto)]
      <4>1. CASE j \in 1..Len(auto) /\ s[j] = auto[j]
        BY <3>2, <4>1, <2>1, <2>5 DEF Apart
      <4>2. CASE j - Len(auto) \in 1..Len(pinned) /\ s[j] = pinned[j - Len(auto)]
        <5>1. i - Len(auto) = j - Len(auto)
          BY <3>2, <4>2, <2>1, <2>5 DEF DistinctIds
        <5> QED BY <5>1, <2>4, <2>5
      <4> QED BY <4>1, <4>2, <2>4
    <3> QED BY <3>1, <3>2, <2>4
  <2>7. cursor = NoCursor \/ cursor \in DOMAIN s
    BY <2>1, <2>4, <2>5
  <2> QED BY <2>1, <2>3, <2>6, <2>7 DEF TypeOK, s
<1> QED BY <1>1, TimelineIsSound, PTL

(* What the timeline shows has its file, through evictions, replacements,  *)
(* pins, deletions, reloads and deaths: but a pinned checkpoint whose file *)
(* was lost when it was written again.                                     *)
THEOREM TimelineShowsItsFiles == Spec => []ShownIsOnDisk
<1>1. TimelineInv => ShownIsOnDisk
  BY DEF TimelineInv, Sound, Timeline, ShownIsOnDisk, Rng
<1> QED BY <1>1, TimelineIsSound, PTL

(* No step of the program takes a pinned file from the disk, but the one   *)
(* by which the user deletes it.                                           *)
THEOREM TimelineKeepsPinned == Spec => PinnedStay
<1>1. TimelineInv /\ [Next]_vars
        => [\A c \in disk : c.pinned => c \in disk' \/ Delete(c.id)]_vars
  BY StepSound
<1> QED BY <1>1, TimelineIsSound, PTL DEF Spec, PinnedStay

(* After an undo, redo goes to the layout the undo left.                   *)
THEOREM TimelineRedoesWhatItUndid == Spec => []RedoTakesBackUndo
<1>1. Init => RedoTakesBackUndo
  BY DEF Init, Nothing, RedoTakesBackUndo
<1>2. ASSUME TimelineInv, RedoTakesBackUndo, [Next]_vars PROVE RedoTakesBackUndo'
  <2>1. CASE last'.op # "undo"
    BY <2>1 DEF RedoTakesBackUndo
  <2>2. CASE UNCHANGED <<layout, auto, pinned, cursor, disk, last>>
    BY <1>2, <2>2 DEF RedoTakesBackUndo, Timeline, Forward, Merged
  <2>3. CASE setting' = setting /\ Undo
    BY <1>2, <2>3, UndoStep
  <2> QED BY <1>2, <2>1, <2>2, <2>3, Remembered
<1> QED BY <1>1, <1>2, TimelineIsSound, PTL DEF Spec

(* After a mutation that was recorded, the last checkpoint listed is the   *)
(* layout, and the cursor is there.                                        *)
THEOREM TimelineHeadIsLatest == Spec => []HeadIsLatest
<1>1. Init => HeadIsLatest
  BY DEF Init, Nothing, HeadIsLatest
<1>2. ASSUME TimelineInv, HeadIsLatest, [Next]_vars PROVE HeadIsLatest'
  <2>1. CASE last'.op # "mutate"
    BY <2>1 DEF HeadIsLatest
  <2>2. CASE UNCHANGED <<layout, auto, pinned, cursor, disk, last>>
    BY <1>2, <2>2 DEF HeadIsLatest, Timeline, Merged
  <2>3. ASSUME setting' = setting, NEW s \in Scopes, NEW l \in Layouts, Mutate(s, l)
        PROVE  HeadIsLatest'
    BY <1>2, <2>3, MutateStep
  <2> QED BY <1>2, <2>1, <2>2, <2>3, Remembered
<1> QED BY <1>1, <1>2, TimelineIsSound, PTL DEF Spec
=============================================================================
