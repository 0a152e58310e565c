--------------------------- MODULE SnapshotProof ---------------------------
(***************************************************************************)
(* Snapshots, for every set of keys and values and every bound: the types  *)
(* and the order of the list, that the nodes changed since a snapshot come *)
(* first among their equals, and that a restore brings the list back, as   *)
(* Versions promises; and what a load makes of the archive of a list.      *)
(*                                                                         *)
(* A restore is two loops.  What they compute is proved by induction on    *)
(* the number of rounds, for which the library's facts about well-founded  *)
(* relations are enough: an induction over a set needs no operator.        *)
(***************************************************************************)
EXTENDS MCSnapshots, FiniteSetTheorems, TLAPS

(* Induction up to a bound.                                                *)
LEMMA UpTo ==
    ASSUME NEW N \in Nat, NEW S, 0 \in S, \A n \in 0 .. N - 1 : n \in S => n + 1 \in S
    PROVE  \A n \in 0 .. N : n \in S
<1> SUFFICES ASSUME NEW m \in 0 .. N, m \notin S PROVE FALSE
  OBVIOUS
<1> DEFINE T == {0 .. n : n \in {x \in 0 .. N : x \notin S}}
<1>1. T # {} OBVIOUS
<1>2. T \subseteq FiniteSubsetsOf(Nat)
  <2>1. \A n \in 0 .. N : 0 .. n \in SUBSET Nat /\ IsFiniteSet(0 .. n)
    BY FS_Interval
  <2> QED BY <2>1 DEF FiniteSubsetsOf
<1>3. PICK x \in T : \A y \in T : ~ (<<y, x>> \in StrictSubsetOrdering(Nat))
  <2>1. IsWellFoundedOn(StrictSubsetOrdering(Nat), FiniteSubsetsOf(Nat))
    BY FS_StrictSubsetOrderingWellFounded
  <2> HIDE DEF T
  <2> QED BY <1>1, <1>2, <2>1, WFMin
<1>4. PICK n \in 0 .. N : n \notin S /\ x = 0 .. n OBVIOUS
<1>5. n # 0 /\ n - 1 \in 0 .. N - 1 BY <1>4
<1>6. n - 1 \notin S BY <1>4, <1>5
<1>7. 0 .. (n - 1) \in T BY <1>5, <1>6
<1>8. 0 .. (n - 1) \subseteq 0 .. n /\ 0 .. (n - 1) # 0 .. n
      /\ 0 .. n \in SUBSET Nat /\ 0 .. (n - 1) \in SUBSET Nat
  <2>1. n \in 0 .. n /\ n \notin 0 .. (n - 1) BY <1>4
  <2> QED BY <1>4, <2>1
<1>9. <<0 .. (n - 1), 0 .. n>> \in StrictSubsetOrdering(Nat)
  BY <1>8 DEF StrictSubsetOrdering
<1> QED BY <1>3, <1>4, <1>7, <1>9

(* A loop of N rounds has a run.                                           *)
RunOf(f, F, b, N) == f[0] = b /\ \A i \in 1 .. N : f[i] = F[<<i, f[i - 1]>>]

LEMMA LoopRuns ==
    ASSUME NEW N \in Nat, NEW S, NEW b \in S, NEW F \in [(1 .. N) \X S -> S]
    PROVE  \E f \in [0 .. N -> S] : RunOf(f, F, b, N)
<1> DEFINE Run(n, f) == f[0] = b /\ \A i \in 1 .. n : f[i] = F[<<i, f[i - 1]>>]
           A == {n \in 0 .. N : \E f \in [0 .. n -> S] : Run(n, f)}
<1>1. 0 \in A
  <2>1. Run(0, [i \in 0 .. 0 |-> b]) /\ [i \in 0 .. 0 |-> b] \in [0 .. 0 -> S]
    OBVIOUS
  <2>2. \E f \in [0 .. 0 -> S] : Run(0, f)
    <3> HIDE DEF Run
    <3> QED BY <2>1
  <2> QED BY <2>2
<1>2. ASSUME NEW n \in 0 .. N - 1, n \in A PROVE n + 1 \in A
  <2>1. PICK f \in [0 .. n -> S] : Run(n, f) BY <1>2
  <2> DEFINE g == [i \in 0 .. n + 1 |-> IF i = n + 1 THEN F[<<n + 1, f[n]>>] ELSE f[i]]
  <2>2. <<n + 1, f[n]>> \in (1 .. N) \X S BY <2>1
  <2>3. g \in [0 .. n + 1 -> S]
    <3>1. \A i \in 0 .. n + 1 : g[i] \in S BY <2>1, <2>2
    <3> QED BY <3>1
  <2>4. g[0] = b BY <2>1
  <2>5. ASSUME NEW i \in 1 .. n + 1 PROVE g[i] = F[<<i, g[i - 1]>>]
    <3>1. i - 1 \in 0 .. n /\ g[i - 1] = f[i - 1]
      <4>1. i - 1 \in 0 .. n /\ i - 1 \in 0 .. n + 1 /\ i - 1 # n + 1 OBVIOUS
      <4> QED BY <4>1
    <3>2. CASE i = n + 1
      <4>1. g[n + 1] = F[<<n + 1, f[n]>>] OBVIOUS
      <4>2. i - 1 = n BY <3>2
      <4> HIDE DEF g
      <4> QED BY <3>1, <3>2, <4>1, <4>2, Zenon
    <3>3. CASE i # n + 1 BY <2>1, <3>1, <3>3
    <3> QED BY <3>2, <3>3
  <2>6. Run(n + 1, g) /\ n + 1 \in 0 .. N
    <3> HIDE DEF g
    <3>1. Run(n + 1, g) BY <2>4, <2>5
    <3>2. n + 1 \in 0 .. N OBVIOUS
    <3> QED BY <3>1, <3>2
  <2> HIDE DEF Run, g
  <2>7. \E h \in [0 .. n + 1 -> S] : Run(n + 1, h) BY <2>3, <2>6
  <2> QED BY <2>6, <2>7
<1>3. N \in A
  <2> HIDE DEF A
  <2>1. \A n \in 0 .. N : n \in A BY <1>1, <1>2, UpTo
  <2>2. N \in 0 .. N OBVIOUS
  <2> QED BY <2>1, <2>2
<1>4. \E f \in [0 .. N -> S] : Run(N, f)
  <2> HIDE DEF Run
  <2> QED BY <1>3
<1> QED BY <1>4 DEF RunOf

-----------------------------------------------------------------------------
(* Sequences with an element put in or taken out.                          *)
Grown(r, l, p, e) ==
    /\ p \in 1 .. Len(l) + 1 /\ Len(r) = Len(l) + 1 /\ r[p] = e
    /\ \A j \in 1 .. Len(l) + 1 :
          (j < p => r[j] = l[j]) /\ (j > p => r[j] = l[j - 1])
Shrunk(r, l, p) ==
    /\ p \in 1 .. Len(l) /\ Len(r) = Len(l) - 1
    /\ \A j \in 1 .. Len(l) - 1 :
          (j < p => r[j] = l[j]) /\ (j >= p => r[j] = l[j + 1])

LEMMA Joined ==
    ASSUME NEW S, NEW a \in Seq(S), NEW c \in Seq(S)
    PROVE  /\ a \o c \in Seq(S) /\ Len(a \o c) = Len(a) + Len(c)
           /\ \A j \in 1 .. Len(a) + Len(c) :
                 (a \o c)[j] = IF j <= Len(a) THEN a[j] ELSE c[j - Len(a)]
OBVIOUS

LEMMA PutIn ==
    ASSUME NEW S, NEW s \in Seq(S), NEW i \in 1 .. Len(s) + 1, NEW e \in S
    PROVE  InsertAt(s, i, e) \in Seq(S) /\ Grown(InsertAt(s, i, e), s, i, e)
<1> DEFINE a == SubSeq(s, 1, i - 1)
           c == SubSeq(s, i, Len(s))
<1>1. /\ a \in Seq(S) /\ Len(a) = i - 1 /\ \A j \in 1 .. i - 1 : a[j] = s[j]
      /\ c \in Seq(S) /\ Len(c) = Len(s) - i + 1
      /\ \A j \in 1 .. Len(s) - i + 1 : c[j] = s[i + j - 1]
  OBVIOUS
<1> HIDE DEF a, c
<1>2. InsertAt(s, i, e) = (a \o <<e>>) \o c BY DEF InsertAt, a, c
<1> DEFINE b == a \o <<e>>
<1>3. /\ b \in Seq(S) /\ Len(b) = i
      /\ \A j \in 1 .. i : b[j] = IF j < i THEN s[j] ELSE e
  BY <1>1
<1> HIDE DEF b
<1>4. InsertAt(s, i, e) = b \o c BY <1>2 DEF b
<1>5. /\ b \o c \in Seq(S) /\ Len(b \o c) = Len(s) + 1
      /\ \A j \in 1 .. Len(s) + 1 : (b \o c)[j] = IF j <= i THEN b[j] ELSE c[j - i]
  <2>1. b \in Seq(S) /\ c \in Seq(S) /\ Len(b) = i /\ Len(b) + Len(c) = Len(s) + 1
    BY <1>1, <1>3
  <2>2. /\ b \o c \in Seq(S) /\ Len(b \o c) = Len(b) + Len(c)
        /\ \A j \in 1 .. Len(b) + Len(c) :
              (b \o c)[j] = IF j <= Len(b) THEN b[j] ELSE c[j - Len(b)]
    BY <2>1, Joined
  <2> QED BY <2>1, <2>2
<1>6. \A j \in 1 .. Len(s) + 1 : j > i => j - i \in 1 .. Len(s) - i + 1 /\ i + (j - i) - 1 = j - 1
  OBVIOUS
<1>7. ASSUME NEW j \in 1 .. Len(s) + 1
      PROVE  /\ j < i => (b \o c)[j] = s[j]
             /\ j = i => (b \o c)[j] = e
             /\ j > i => (b \o c)[j] = s[j - 1]
  <2>1. CASE j <= i BY <1>3, <1>5, <2>1
  <2>2. CASE ~ (j <= i)
    <3>1. j > i /\ ~ (j < i) /\ j # i BY <2>2
    <3> QED BY <1>1, <1>5, <1>6, <2>2, <3>1
  <2> QED BY <2>1, <2>2
<1> QED BY <1>4, <1>5, <1>7 DEF Grown

LEMMA TakeOut ==
    ASSUME NEW S, NEW s \in Seq(S), NEW i \in 1 .. Len(s)
    PROVE  RemoveAt(s, i) \in Seq(S) /\ Shrunk(RemoveAt(s, i), s, i)
<1> DEFINE a == SubSeq(s, 1, i - 1)
           c == SubSeq(s, i + 1, Len(s))
<1>1. /\ a \in Seq(S) /\ Len(a) = i - 1 /\ \A j \in 1 .. i - 1 : a[j] = s[j]
      /\ c \in Seq(S) /\ Len(c) = Len(s) - i
      /\ \A j \in 1 .. Len(s) - i : c[j] = s[i + j]
  OBVIOUS
<1> HIDE DEF a, c
<1>2. RemoveAt(s, i) = a \o c BY DEF RemoveAt, a, c
<1>3. /\ a \o c \in Seq(S) /\ Len(a \o c) = Len(s) - 1
      /\ \A j \in 1 .. Len(s) - 1 : (a \o c)[j] = IF j < i THEN a[j] ELSE c[j - (i - 1)]
  <2>1. Len(a) + Len(c) = Len(s) - 1 BY <1>1
  <2>2. a \o c \in Seq(S) /\ Len(a \o c) = Len(s) - 1 BY <1>1, <2>1, Joined
  <2>3. \A j \in 1 .. Len(s) - 1 :
           (a \o c)[j] = IF j <= i - 1 THEN a[j] ELSE c[j - (i - 1)]
    <3>1. \A j \in 1 .. Len(a) + Len(c) :
             (a \o c)[j] = IF j <= Len(a) THEN a[j] ELSE c[j - Len(a)]
      BY <1>1, Joined
    <3>2. Len(a) = i - 1 BY <1>1
    <3> QED BY <2>1, <3>1, <3>2
  <2>4. \A j \in 1 .. Len(s) - 1 : j <= i - 1 <=> j < i OBVIOUS
  <2> QED BY <2>2, <2>3, <2>4
<1>4. \A j \in 1 .. Len(s) - 1 : j >= i => j - (i - 1) \in 1 .. Len(s) - i /\ i + (j - (i - 1)) = j + 1
  OBVIOUS
<1>5. ASSUME NEW j \in 1 .. Len(s) - 1
      PROVE  /\ j < i => (a \o c)[j] = s[j]
             /\ j >= i => (a \o c)[j] = s[j + 1]
  <2>1. CASE j < i
    <3>1. j \in 1 .. i - 1 /\ ~ (j >= i) BY <2>1
    <3> QED BY <1>1, <1>3, <2>1, <3>1
  <2>2. CASE ~ (j < i)
    <3>1. j >= i BY <2>2
    <3>2. (a \o c)[j] = c[j - (i - 1)] BY <1>3, <2>2
    <3>3. c[j - (i - 1)] = s[i + (j - (i - 1))] BY <1>1, <1>4, <3>1
    <3> QED BY <1>4, <2>2, <3>1, <3>2, <3>3
  <2> QED BY <2>1, <2>2
<1> QED BY <1>2, <1>3, <1>5 DEF Shrunk

(* Sequences are their lengths and their elements.                         *)
LEMMA Same ==
    ASSUME NEW S, NEW T, NEW s \in Seq(S), NEW r \in Seq(T), Len(s) = Len(r),
           \A i \in 1 .. Len(s) : s[i] = r[i]
    PROVE  s = r
OBVIOUS

-----------------------------------------------------------------------------
(* Sequences in the order of their keys.                                   *)
Ascends(l) == \A i, j \in 1 .. Len(l) : i <= j => l[i].key <= l[j].key

LEMMA InKeyOrder ==
    ASSUME NEW S, NEW l \in Seq(S), Ascends(l) PROVE InOrder(l)
<1>1. \A i \in 1 .. Len(l) - 1 :
         i \in 1 .. Len(l) /\ i + 1 \in 1 .. Len(l) /\ i <= i + 1
  OBVIOUS
<1> QED BY <1>1 DEF InOrder, Ascends

(* What locate finds: the first node not less than a key.                  *)
LEMMA FirstIs ==
    ASSUME NEW S, \A x \in S : x.key \in Int, NEW l \in Seq(S), Ascends(l),
           NEW k \in Int
    PROVE  /\ First(l, k) \in 1 .. Len(l) + 1
           /\ \A i \in 1 .. Len(l) : l[i].key < k <=> i < First(l, k)
           /\ Matches(l, k) <=> First(l, k) <= Len(l) /\ l[First(l, k)].key = k
<1> DEFINE N == Len(l)
           Split(n, m) == \A i \in 1 .. n : l[i].key < k <=> i <= m
           A == {n \in 0 .. N : \E m \in 0 .. n : Split(n, m)}
<1>0. N \in Nat /\ \A i \in 1 .. N : l[i].key \in Int OBVIOUS
<1>1. 0 \in A
  <2>1. Split(0, 0) OBVIOUS
  <2> QED BY <1>0, <2>1
<1>2. ASSUME NEW n \in 0 .. N - 1, n \in A PROVE n + 1 \in A
  <2>1. PICK m \in 0 .. n : Split(n, m) BY <1>2
  <2>2. n + 1 \in 1 .. N BY <1>0
  <2>3. CASE l[n + 1].key < k
    <3>1. \A i \in 1 .. n + 1 : l[i].key < k
      <4>1. \A i \in 1 .. n + 1 : i \in 1 .. N /\ i <= n + 1 BY <2>2
      <4>2. \A i \in 1 .. n + 1 : l[i].key <= l[n + 1].key
        BY <2>2, <4>1 DEF Ascends
      <4> QED BY <1>0, <2>2, <2>3, <4>1, <4>2
    <3>2. Split(n + 1, n + 1) BY <3>1
    <3> QED BY <2>2, <3>2
  <2>4. CASE ~ (l[n + 1].key < k)
    <3>1. Split(n + 1, m)
      <4>1. \A i \in 1 .. n + 1 : i \in 1 .. n \/ i = n + 1 OBVIOUS
      <4> QED BY <2>1, <2>4, <4>1
    <3>2. m \in 0 .. n + 1 /\ n + 1 \in 0 .. N BY <2>1, <2>2
    <3> HIDE DEF Split
    <3> QED BY <3>1, <3>2
  <2> QED BY <2>3, <2>4
<1>3. N \in A
  <2>1. \A n \in 0 .. N : n \in A
    <3> HIDE DEF A, N
    <3> QED BY <1>0, <1>1, <1>2, UpTo
  <2>2. N \in 0 .. N BY <1>0
  <2> HIDE DEF A, N
  <2> QED BY <2>1, <2>2
<1>4. PICK m \in 0 .. N : Split(N, m) BY <1>3
<1>5. {i \in DOMAIN l : l[i].key < k} = 1 .. m
  <2>1. DOMAIN l = 1 .. N OBVIOUS
  <2>2. \A i \in 1 .. m : i \in 1 .. N BY <1>0
  <2> QED BY <1>4, <2>1, <2>2
<1>6. First(l, k) = m + 1
  <2>1. Cardinality(1 .. m) = m BY <1>4, FS_Interval
  <2> QED BY <1>5, <2>1 DEF First, Pred
<1>7. First(l, k) \in 1 .. N + 1 BY <1>0, <1>6
<1>8. \A i \in 1 .. N : l[i].key < k <=> i < First(l, k) BY <1>0, <1>4, <1>6
<1>9. ASSUME Matches(l, k) PROVE First(l, k) <= N /\ l[First(l, k)].key = k
  <2>1. PICK i \in 1 .. N : l[i].key = k BY <1>9 DEF Matches
  <2>2. ~ (i < First(l, k)) BY <1>8, <2>1
  <2>3. First(l, k) \in 1 .. N /\ First(l, k) <= i BY <1>0, <1>7, <2>1, <2>2
  <2>4. l[First(l, k)].key <= k BY <2>1, <2>3 DEF Ascends
  <2>5. ~ (l[First(l, k)].key < k) BY <1>8, <2>3
  <2> QED BY <1>0, <2>3, <2>4, <2>5
<1>10. ASSUME First(l, k) <= N, l[First(l, k)].key = k PROVE Matches(l, k)
  <2>1. First(l, k) \in 1 .. N BY <1>0, <1>7, <1>10
  <2> QED BY <1>10, <2>1 DEF Matches
<1> QED BY <1>7, <1>8, <1>9, <1>10

LEMMA FirstUnique ==
    ASSUME NEW S, \A x \in S : x.key \in Int, NEW l \in Seq(S), Ascends(l),
           NEW k \in Int, NEW q \in 1 .. Len(l) + 1,
           \A i \in 1 .. Len(l) : l[i].key < k <=> i < q
    PROVE  First(l, k) = q
<1> DEFINE f == First(l, k)
<1>1. f \in 1 .. Len(l) + 1 /\ \A j \in 1 .. Len(l) : l[j].key < k <=> j < f
  BY FirstIs
<1> HIDE DEF f
<1>2. \A j \in 1 .. Len(l) : j < f <=> j < q BY <1>1
<1>3. f \in Int /\ q \in Int /\ Len(l) \in Nat BY <1>1
<1>4. ~ (f < q)
  <2>1. f < q => f \in 1 .. Len(l) BY <1>1, <1>3
  <2> QED BY <1>2, <1>3, <2>1
<1>5. ~ (q < f)
  <2>1. q < f => q \in 1 .. Len(l) BY <1>1, <1>3
  <2> QED BY <1>2, <1>3, <2>1
<1> QED BY <1>3, <1>4, <1>5 DEF f

LEMMA GrownAscends ==
    ASSUME NEW S, \A x \in S : x.key \in Int, NEW l \in Seq(S), Ascends(l),
           NEW n \in S, NEW r \in Seq(S), NEW p, Grown(r, l, p, n),
           \A i \in 1 .. Len(l) : l[i].key < n.key <=> i < p
    PROVE  Ascends(r)
<1>0. /\ Len(l) \in Nat /\ n.key \in Int /\ p \in 1 .. Len(l) + 1
      /\ \A i \in 1 .. Len(l) : l[i].key \in Int
      /\ Len(r) = Len(l) + 1 /\ r[p] = n
  BY DEF Grown
<1>1. \A x, y \in 1 .. Len(l) : x <= y => l[x].key <= l[y].key BY DEF Ascends
<1>2. ASSUME NEW i \in 1 .. Len(l) + 1, NEW j \in 1 .. Len(l) + 1, i <= j
      PROVE  r[i].key <= r[j].key
  <2>1. ASSUME NEW x \in 1 .. Len(l) + 1, x < p
        PROVE  x \in 1 .. Len(l) /\ r[x] = l[x]
    BY <1>0, <2>1 DEF Grown
  <2>2. ASSUME NEW x \in 1 .. Len(l) + 1, x > p
        PROVE  x - 1 \in 1 .. Len(l) /\ r[x] = l[x - 1]
    BY <1>0, <2>2 DEF Grown
  <2>3. CASE j < p
    <3>1. i < p BY <1>0, <1>2, <2>3
    <3> QED BY <1>1, <1>2, <2>1, <2>3, <3>1
  <2>4. CASE j = p
    <3>1. CASE i = p BY <1>0, <2>4, <3>1
    <3>2. CASE i < p
      <4>1. i \in 1 .. Len(l) /\ r[i] = l[i] /\ l[i].key < n.key
        BY <2>1, <3>2
      <4> QED BY <1>0, <2>4, <4>1
    <3> QED BY <1>0, <1>2, <2>4, <3>1, <3>2
  <2>5. CASE j > p
    <3>1. j - 1 \in 1 .. Len(l) /\ j - 1 >= p /\ r[j] = l[j - 1]
      BY <1>0, <2>2, <2>5
    <3>2. ~ (l[j - 1].key < n.key) BY <1>0, <3>1
    <3>3. CASE i < p
      <4>1. i \in 1 .. Len(l) /\ r[i] = l[i] /\ i <= j - 1
        BY <1>0, <2>1, <3>1, <3>3
      <4> QED BY <1>1, <3>1, <4>1
    <3>4. CASE i = p BY <1>0, <3>1, <3>2, <3>4
    <3>5. CASE i > p
      <4>1. i - 1 \in 1 .. Len(l) /\ r[i] = l[i - 1] /\ i - 1 <= j - 1
        BY <1>0, <1>2, <2>2, <3>5
      <4> QED BY <1>1, <3>1, <4>1
    <3> QED BY <1>0, <3>3, <3>4, <3>5
  <2> QED BY <1>0, <2>3, <2>4, <2>5
<1> QED BY <1>0, <1>2 DEF Ascends

LEMMA InsertedIs ==
    ASSUME NEW S, \A x \in S : x.key \in Int, NEW l \in Seq(S), Ascends(l),
           NEW n \in S
    PROVE  /\ Inserted(l, n) \in Seq(S) /\ Ascends(Inserted(l, n))
           /\ Grown(Inserted(l, n), l, First(l, n.key), n)
<1> DEFINE p == First(l, n.key)
<1>0. Len(l) \in Nat /\ n.key \in Int OBVIOUS
<1>1. /\ p \in 1 .. Len(l) + 1
      /\ \A i \in 1 .. Len(l) : l[i].key < n.key <=> i < p
  BY <1>0, FirstIs
<1> HIDE DEF p
<1>2. Inserted(l, n) = InsertAt(l, p, n) BY DEF Inserted, p
<1>3. InsertAt(l, p, n) \in Seq(S) /\ Grown(InsertAt(l, p, n), l, p, n)
  BY <1>1, PutIn
<1>4. Ascends(InsertAt(l, p, n)) BY <1>1, <1>3, GrownAscends
<1> QED BY <1>2, <1>3, <1>4 DEF p

LEMMA ShrunkAscends ==
    ASSUME NEW S, NEW l \in Seq(S), Ascends(l), NEW r \in Seq(S), NEW p,
           Shrunk(r, l, p)
    PROVE  Ascends(r)
<1>0. Len(l) \in Nat /\ p \in 1 .. Len(l) /\ Len(r) = Len(l) - 1 BY DEF Shrunk
<1>1. ASSUME NEW i \in 1 .. Len(l) - 1, NEW j \in 1 .. Len(l) - 1, i <= j
      PROVE  r[i].key <= r[j].key
  <2> DEFINE at(x) == IF x < p THEN x ELSE x + 1
  <2>1. at(i) \in 1 .. Len(l) /\ at(j) \in 1 .. Len(l) /\ at(i) <= at(j)
    BY <1>0, <1>1
  <2>2. r[i] = l[at(i)] /\ r[j] = l[at(j)] BY <1>0 DEF Shrunk
  <2> HIDE DEF at
  <2> QED BY <2>1, <2>2 DEF Ascends
<1> QED BY <1>0, <1>1 DEF Ascends

LEMMA RemovedIs ==
    ASSUME NEW S, \A x \in S : x.key \in Int, NEW l \in Seq(S), Ascends(l),
           NEW k \in Int, Matches(l, k)
    PROVE  /\ Removed(l, k) \in Seq(S) /\ Ascends(Removed(l, k))
           /\ Shrunk(Removed(l, k), l, First(l, k)) /\ l[First(l, k)].key = k
<1> DEFINE p == First(l, k)
<1>1. p \in 1 .. Len(l) /\ l[p].key = k BY FirstIs
<1> HIDE DEF p
<1>2. Removed(l, k) = RemoveAt(l, p) BY DEF Removed, p
<1>3. RemoveAt(l, p) \in Seq(S) /\ Shrunk(RemoveAt(l, p), l, p)
  BY <1>1, TakeOut
<1>4. Ascends(RemoveAt(l, p)) BY <1>3, ShrunkAscends
<1> QED BY <1>1, <1>2, <1>3, <1>4 DEF p

-----------------------------------------------------------------------------
(* The states a call, or a round of a restore, leaves.                     *)
NodeType == [key : Keys, val : Vals, era : Nat]
CopyType == [node : NodeType, dup : BOOLEAN]
States ==
    {s \in [list : Seq(NodeType), pres : Seq(CopyType), cur : Nat] :
        /\ Ascends(s.list)
        /\ \A i \in 1 .. Len(s.list) : s.list[i].era <= s.cur
        /\ \A i \in 1 .. Len(s.pres) : s.pres[i].node.era <= s.cur}

LEMMA NodeKeys == \A x \in NodeType : x.key \in Int /\ x.key \in Keys /\ x.era \in Nat
BY BoundsAssumption DEF NodeType

LEMMA InsertState ==
    ASSUME NEW s \in States, NEW n \in NodeType, n.era <= s.cur, NEW dup \in BOOLEAN,
           presEra \in Nat
    PROVE  InsertIn(s, n, dup) \in States /\ InsertIn(s, n, dup).cur >= s.cur
<1> DEFINE m == Stamped(s, n)
           r == Inserted(s.list, m)
           u == InsertIn(s, n, dup)
<1>1. /\ s.list \in Seq(NodeType) /\ s.pres \in Seq(CopyType) /\ s.cur \in Nat
      /\ Ascends(s.list)
      /\ \A i \in 1 .. Len(s.list) : s.list[i].era <= s.cur
      /\ \A i \in 1 .. Len(s.pres) : s.pres[i].node.era <= s.cur
  BY DEF States
<1>2. m \in NodeType /\ m.key = n.key /\ m.era <= s.cur
  BY <1>1 DEF Stamped, NodeType
<1> HIDE DEF m
<1>3. r \in Seq(NodeType) /\ Ascends(r) /\ Grown(r, s.list, First(s.list, m.key), m)
  <2>1. \A x \in NodeType : x.key \in Int BY NodeKeys
  <2> QED BY <1>1, <1>2, <2>1, InsertedIs
<1>4. \A j \in 1 .. Len(r) : r[j].era <= s.cur
  <2> HIDE DEF r
  <2>1. PICK p : p = First(s.list, m.key) OBVIOUS
  <2>2. Grown(r, s.list, p, m) BY <1>3, <2>1
  <2>3. TAKE j \in 1 .. Len(r)
  <2>4. p \in 1 .. Len(s.list) + 1 /\ j \in 1 .. Len(s.list) + 1 /\ Len(s.list) \in Nat
    BY <1>1, <2>2 DEF Grown
  <2>5. CASE j < p
    <3>1. j \in 1 .. Len(s.list) /\ r[j] = s.list[j]
      BY <2>2, <2>4, <2>5 DEF Grown
    <3> QED BY <1>1, <3>1
  <2>6. CASE j = p BY <1>2, <2>2, <2>6 DEF Grown
  <2>7. CASE j > p
    <3>1. j - 1 \in 1 .. Len(s.list) /\ r[j] = s.list[j - 1]
      BY <2>2, <2>4, <2>7 DEF Grown
    <3> QED BY <1>1, <3>1
  <2> QED BY <2>4, <2>5, <2>6, <2>7
<1> HIDE DEF r
<1>5. CASE u = s BY <1>1, <1>5
<1>6. CASE u # s
  <2> DEFINE c == IF presEra > 0 THEN s.cur + 1 ELSE s.cur
  <2>1. u = [s EXCEPT !.list = r, !.cur = c]
    BY <1>6 DEF InsertIn, m, r
  <2>2. u = [list |-> r, pres |-> s.pres, cur |-> c]
    BY <1>1, <2>1 DEF States
  <2>3. c \in Nat /\ c >= s.cur BY <1>1
  <2>4. u \in [list : Seq(NodeType), pres : Seq(CopyType), cur : Nat]
    BY <1>1, <1>3, <2>2, <2>3
  <2>5. \A i \in 1 .. Len(r) : r[i].era \in Nat
    BY <1>3, NodeKeys
  <2>6. \A i \in 1 .. Len(s.pres) : s.pres[i].node.era \in Nat
    <3>1. \A x \in CopyType : x.node \in NodeType BY DEF CopyType
    <3>2. \A i \in 1 .. Len(s.pres) : s.pres[i] \in CopyType BY <1>1
    <3> QED BY <3>1, <3>2, NodeKeys
  <2>7. u.list = r /\ u.pres = s.pres /\ u.cur = c BY <2>2
  <2> HIDE DEF c, u
  <2>8. \A i \in 1 .. Len(r) : r[i].era <= c BY <1>1, <1>4, <2>3, <2>5
  <2>9. \A i \in 1 .. Len(s.pres) : s.pres[i].node.era <= c
    BY <1>1, <2>3, <2>6
  <2> QED BY <1>3, <2>3, <2>4, <2>7, <2>8, <2>9 DEF States, u
<1> QED BY <1>5, <1>6

Copy(s, i) == [node |-> s.list[i], dup |-> HasTwin(s.list, i)]

LEMMA PreservedIs ==
    ASSUME NEW s \in States, NEW p \in 1 .. Len(s.list), presEra \in Nat
    PROVE  LET q == Preserved(s, p)
           IN /\ q \in Seq(CopyType)
              /\ \A i \in 1 .. Len(q) : q[i].node.era <= s.cur
              /\ ~ Old(s.list[p]) => q = s.pres
              /\ Old(s.list[p]) =>
                    /\ Len(q) = Len(s.pres) + 1 /\ q[1] = Copy(s, p)
                    /\ \A i \in 1 .. Len(s.pres) : q[i + 1] = s.pres[i]
<1> DEFINE c == Copy(s, p)
           q == Preserved(s, p)
<1>1. /\ s.list \in Seq(NodeType) /\ s.pres \in Seq(CopyType) /\ s.cur \in Nat
      /\ \A i \in 1 .. Len(s.list) : s.list[i].era <= s.cur
      /\ \A i \in 1 .. Len(s.pres) : s.pres[i].node.era <= s.cur
  BY DEF States
<1>2. s.list[p] \in NodeType BY <1>1
<1>3. c \in CopyType /\ c.node = s.list[p]
  BY <1>2 DEF Copy, CopyType, HasTwin
<1>4. CASE ~ Old(s.list[p]) BY <1>1, <1>4 DEF Preserved
<1>5. CASE Old(s.list[p])
  <2>1. q = <<c>> \o s.pres BY <1>5 DEF Preserved, Copy
  <2> HIDE DEF c, q
  <2>2. <<c>> \in Seq(CopyType) /\ Len(<<c>>) = 1 /\ <<c>>[1] = c BY <1>3
  <2>3. /\ q \in Seq(CopyType) /\ Len(q) = Len(s.pres) + 1 /\ q[1] = c
        /\ \A i \in 1 .. Len(s.pres) : q[i + 1] = s.pres[i]
    BY <1>1, <2>1, <2>2
  <2>4. ASSUME NEW i \in 1 .. Len(q) PROVE q[i].node.era <= s.cur
    <3>1. CASE i = 1 BY <1>1, <1>3, <2>3, <3>1
    <3>2. CASE i # 1
      <4>1. PICK j \in 1 .. Len(s.pres) : i = j + 1
        <5>1. i - 1 \in 1 .. Len(s.pres) /\ i = (i - 1) + 1 BY <1>1, <2>3, <3>2
        <5> QED BY <5>1
      <4> QED BY <1>1, <2>3, <4>1
    <3> QED BY <3>1, <3>2
  <2> QED BY <1>5, <2>3, <2>4 DEF c, q
<1> QED BY <1>4, <1>5

LEMMA StateIs ==
    ASSUME NEW l \in Seq(NodeType), NEW q \in Seq(CopyType), NEW c \in Nat, NEW b \in Nat,
           b <= c, Ascends(l), \A i \in 1 .. Len(l) : l[i].era <= c,
           \A i \in 1 .. Len(q) : q[i].node.era <= b
    PROVE  [list |-> l, pres |-> q, cur |-> c] \in States
<1> DEFINE u == [list |-> l, pres |-> q, cur |-> c]
<1>1. u \in [list : Seq(NodeType), pres : Seq(CopyType), cur : Nat] OBVIOUS
<1>2. u.list = l /\ u.pres = q /\ u.cur = c OBVIOUS
<1>3. \A x \in CopyType : x.node \in NodeType BY DEF CopyType
<1>4. \A i \in 1 .. Len(q) : q[i].node.era \in Nat
  <2>1. \A i \in 1 .. Len(q) : q[i] \in CopyType OBVIOUS
  <2> QED BY <1>3, <2>1, NodeKeys
<1>5. \A i \in 1 .. Len(q) : q[i].node.era <= c BY <1>4
<1> HIDE DEF u
<1>6. u \in States BY <1>1, <1>2, <1>5 DEF States
<1> QED BY <1>6 DEF u

LEMMA RemoveState ==
    ASSUME NEW s \in States, NEW k \in Keys, presEra \in Nat
    PROVE  RemoveFrom(s, k) \in States /\ RemoveFrom(s, k).cur >= s.cur
<1> DEFINE p == First(s.list, k)
           r == Removed(s.list, k)
           q == IF presEra > 0 THEN Preserved(s, p) ELSE s.pres
           c == IF presEra > 0 THEN s.cur + 1 ELSE s.cur
<1>1. /\ s.list \in Seq(NodeType) /\ s.pres \in Seq(CopyType) /\ s.cur \in Nat
      /\ Ascends(s.list)
      /\ \A i \in 1 .. Len(s.list) : s.list[i].era <= s.cur
      /\ \A i \in 1 .. Len(s.pres) : s.pres[i].node.era <= s.cur
  BY DEF States
<1>2. CASE ~ Matches(s.list, k) BY <1>1, <1>2 DEF RemoveFrom
<1>3. CASE Matches(s.list, k)
  <2>1. RemoveFrom(s, k) = [list |-> r, pres |-> q, cur |-> c]
    BY <1>3 DEF RemoveFrom
  <2>2. r \in Seq(NodeType) /\ Ascends(r) /\ Shrunk(r, s.list, p)
    <3>1. k \in Int /\ \A x \in NodeType : x.key \in Int
      BY NodeKeys, BoundsAssumption
    <3> QED BY <1>1, <1>3, <3>1, RemovedIs
  <2> HIDE DEF r
  <2>3. p \in 1 .. Len(s.list) BY <2>2 DEF Shrunk
  <2>4. q \in Seq(CopyType) /\ \A i \in 1 .. Len(q) : q[i].node.era <= s.cur
    BY <1>1, <2>3, PreservedIs
  <2>5. c \in Nat /\ s.cur <= c BY <1>1
  <2>6. \A i \in 1 .. Len(r) : r[i].era <= c
    <3> HIDE DEF p, c
    <3>1. TAKE i \in 1 .. Len(r)
    <3>2. PICK j \in 1 .. Len(s.list) : r[i] = s.list[j]
      <4>1. i \in 1 .. Len(s.list) - 1 /\ Len(s.list) \in Nat BY <1>1, <2>2 DEF Shrunk
      <4>2. i < p => i \in 1 .. Len(s.list) /\ r[i] = s.list[i]
        BY <2>2, <4>1 DEF Shrunk
      <4>3. i >= p => i + 1 \in 1 .. Len(s.list) /\ r[i] = s.list[i + 1]
        BY <2>2, <4>1 DEF Shrunk
      <4> QED BY <2>3, <4>1, <4>2, <4>3
    <3>3. s.list[j] \in NodeType BY <1>1
    <3> QED BY <1>1, <2>5, <3>2, <3>3, NodeKeys
  <2> HIDE DEF q, c
  <2>7. [list |-> r, pres |-> q, cur |-> c] \in States
    BY <1>1, <2>2, <2>4, <2>5, <2>6, StateIs
  <2> QED BY <1>1, <2>1, <2>5, <2>7
<1> QED BY <1>2, <1>3

(* A node with two of its fields changed.                                  *)
Changed(l, p, v, e) == [l EXCEPT ![p].val = v, ![p].era = e]
With(l, p, n)       == [l EXCEPT ![p] = n]

LEMMA Renewal ==
    ASSUME NEW l \in Seq(NodeType), NEW p \in 1 .. Len(l), NEW v, NEW e
    PROVE  Changed(l, p, v, e) = With(l, p, [key |-> l[p].key, val |-> v, era |-> e])
<1>1. PICK x \in NodeType : x = l[p] OBVIOUS
<1>2. [x EXCEPT !.val = v] = [key |-> x.key, val |-> v, era |-> x.era]
  BY <1>1 DEF NodeType
<1> DEFINE y == [x EXCEPT !.val = v]
<1>3. [y EXCEPT !.era = e] = [key |-> x.key, val |-> v, era |-> e]
  <2>1. y = [key |-> x.key, val |-> v, era |-> x.era] BY <1>2
  <2>2. ASSUME NEW a, NEW b, NEW c
        PROVE  [[key |-> a, val |-> b, era |-> c] EXCEPT !.era = e]
                  = [key |-> a, val |-> b, era |-> e]
    OBVIOUS
  <2> HIDE DEF y
  <2> QED BY <2>1, <2>2, Zenon
<1>4. [l EXCEPT ![p].val = v, ![p].era = e] = [l EXCEPT ![p] = [y EXCEPT !.era = e]]
  BY <1>1
<1> HIDE DEF y
<1>5. [key |-> l[p].key, val |-> v, era |-> e] = [y EXCEPT !.era = e] BY <1>1, <1>3, Zenon
<1> QED BY <1>4, <1>5, Zenon DEF Changed, With

LEMMA UpdateState ==
    ASSUME NEW s \in States, NEW k \in Keys, NEW v \in Vals, Matches(s.list, k),
           presEra \in Nat
    PROVE  UpdateIn(s, k, v) \in States /\ UpdateIn(s, k, v).cur >= s.cur
<1> DEFINE p == First(s.list, k)
           e == IF presEra > 0 THEN s.cur + 1 ELSE s.list[p].era
           n == [key |-> s.list[p].key, val |-> v, era |-> e]
           r == [s.list EXCEPT ![p] = n]
           q == IF presEra > 0 THEN Preserved(s, p) ELSE s.pres
           c == IF presEra > 0 THEN s.cur + 1 ELSE s.cur
<1>1. /\ s.list \in Seq(NodeType) /\ s.pres \in Seq(CopyType) /\ s.cur \in Nat
      /\ Ascends(s.list)
      /\ \A i \in 1 .. Len(s.list) : s.list[i].era <= s.cur
      /\ \A i \in 1 .. Len(s.pres) : s.pres[i].node.era <= s.cur
      /\ s = [list |-> s.list, pres |-> s.pres, cur |-> s.cur]
  BY DEF States
<1>2. p \in 1 .. Len(s.list)
  <2>1. k \in Int /\ \A x \in NodeType : x.key \in Int
    BY NodeKeys, BoundsAssumption
  <2> QED BY <1>1, <2>1, FirstIs
<1>3. s.list[p] \in NodeType BY <1>1, <1>2
<1>4. UpdateIn(s, k, v) = [list |-> r, pres |-> q, cur |-> c]
  <2> HIDE DEF p
  <2>1. CASE presEra > 0
    <3>1. [s.list EXCEPT ![p].val = v, ![p].era = s.cur + 1] = r
      <4>1. e = s.cur + 1 BY <2>1
      <4>2. s.list \in Seq(NodeType) /\ p \in 1 .. Len(s.list) BY <1>1, <1>2
      <4> HIDE DEF e
      <4>3. Changed(s.list, p, v, s.cur + 1)
               = With(s.list, p, [key |-> s.list[p].key, val |-> v, era |-> s.cur + 1])
        BY <4>2, Renewal
      <4> QED BY <4>1, <4>3, Zenon DEF Changed, With
    <3> HIDE DEF r
    <3> QED BY <2>1, <3>1 DEF UpdateIn, p
  <2>2. CASE ~ (presEra > 0)
    <3>1. [s.list EXCEPT ![p].val = v] = r
      <4>1. e = s.list[p].era BY <2>2
      <4> HIDE DEF e
      <4>2. n = [s.list[p] EXCEPT !.val = v] BY <1>3, <4>1 DEF NodeType
      <4> QED BY <1>1, <1>2, <4>2
    <3> HIDE DEF r
    <3>2. UpdateIn(s, k, v) = [s EXCEPT !.list = r]
      BY <1>1, <2>2, <3>1 DEF UpdateIn, p
    <3> QED BY <1>1, <2>2, <3>2
  <2> QED BY <2>1, <2>2
<1>5. q \in Seq(CopyType) /\ \A i \in 1 .. Len(q) : q[i].node.era <= s.cur
  BY <1>1, <1>2, PreservedIs
<1>6. c \in Nat /\ s.cur <= c /\ e \in Nat /\ e <= c
  BY <1>1, <1>2, <1>3, NodeKeys
<1> HIDE DEF e, c, q, p
<1>7. n \in NodeType /\ n.key = s.list[p].key /\ n.era = e
  BY <1>3, <1>6 DEF NodeType
<1> HIDE DEF n
<1>8. /\ r \in Seq(NodeType) /\ Len(r) = Len(s.list)
      /\ \A i \in 1 .. Len(r) : r[i] = IF i = p THEN n ELSE s.list[i]
  BY <1>1, <1>2, <1>7
<1> HIDE DEF r
<1>9. \A i \in 1 .. Len(r) : r[i].key = s.list[i].key BY <1>7, <1>8
<1>10. Ascends(r) BY <1>1, <1>8, <1>9 DEF Ascends
<1>11. \A i \in 1 .. Len(r) : r[i].era <= c
  <2>1. TAKE i \in 1 .. Len(r)
  <2>2. i # p => r[i] = s.list[i] /\ s.list[i] \in NodeType /\ i \in 1 .. Len(s.list)
    BY <1>1, <1>8
  <2> QED BY <1>1, <1>6, <1>7, <1>8, <2>2, NodeKeys
<1>12. [list |-> r, pres |-> q, cur |-> c] \in States
  BY <1>1, <1>5, <1>6, <1>8, <1>10, <1>11, StateIs
<1> QED BY <1>1, <1>4, <1>6, <1>12

-----------------------------------------------------------------------------
(* The two loops of a restore have runs, and only grow the era.            *)
Later(s) == {u \in States : u.cur >= s.cur}

LEMMA LaterSame == \A s \in States : s \in Later(s)
<1>1. \A s \in States : s.cur \in Nat BY DEF States
<1> QED BY <1>1 DEF Later

DropRound(e, failed, i, x) ==
    IF i \in Newer(e) \ failed THEN RemoveFrom(x, list[i].key) ELSE x

LEMMA DropRoundState ==
    ASSUME State \in States, presEra \in Nat, NEW e, NEW failed,
           NEW i \in 1 .. Len(list), NEW x \in Later(State)
    PROVE  DropRound(e, failed, i, x) \in Later(State)
<1>1. list \in Seq(NodeType) /\ State.cur \in Nat BY DEF States, State
<1>2. list[i].key \in Keys BY <1>1, NodeKeys
<1>3. x \in States /\ x.cur >= State.cur /\ x.cur \in Nat BY DEF Later, States
<1>4. RemoveFrom(x, list[i].key) \in States /\ RemoveFrom(x, list[i].key).cur >= x.cur
  BY <1>2, <1>3, RemoveState
<1>5. RemoveFrom(x, list[i].key).cur \in Nat BY <1>4 DEF States
<1>6. RemoveFrom(x, list[i].key) \in Later(State)
  BY <1>1, <1>3, <1>4, <1>5 DEF Later
<1> QED BY <1>6 DEF DropRound

Drops(f, e, failed) ==
    /\ f[0] = State /\ Dropped(e, failed) = f[Len(list)]
    /\ \A i \in 1 .. Len(list) : f[i] = DropRound(e, failed, i, f[i - 1])

LEMMA DroppedRun ==
    ASSUME State \in States, presEra \in Nat, NEW e, NEW failed
    PROVE  \E f \in [0 .. Len(list) -> Later(State)] : Drops(f, e, failed)
<1> DEFINE N == Len(list)
           S == Later(State)
           Loop(g) == g = [i \in 0 .. N |->
                             IF i = 0 THEN State ELSE DropRound(e, failed, i, g[i - 1])]
           F == [a \in (1 .. N) \X S |-> DropRound(e, failed, a[1], a[2])]
<1>0. N \in Nat
  <2>1. list \in Seq(NodeType) BY DEF States, State
  <2> QED BY <2>1
<1>1. State \in S BY LaterSame
<1>2. F \in [(1 .. N) \X S -> S] BY DropRoundState
<1>3. \A i \in 1 .. N, x \in S : F[<<i, x>>] = DropRound(e, failed, i, x) OBVIOUS
<1>4. PICK f \in [0 .. N -> S] : RunOf(f, F, State, N)
  <2> HIDE DEF F, S, N
  <2> QED BY <1>0, <1>1, <1>2, LoopRuns
<1>5. \A i \in 1 .. N : f[i] = DropRound(e, failed, i, f[i - 1])
  <2>1. \A i \in 1 .. N : i - 1 \in 0 .. N BY <1>0
  <2> HIDE DEF F
  <2> QED BY <1>3, <1>4, <2>1 DEF RunOf
<1>6. Loop(f)
  <2> HIDE DEF F
  <2> QED BY <1>0, <1>4, <1>5 DEF RunOf
<1> DEFINE run == CHOOSE g : Loop(g)
<1>7. Loop(run)
  <2> HIDE DEF Loop
  <2> QED BY <1>6
<1>8. Dropped(e, failed) = run[N] BY DEF Dropped, DropRound
<1> HIDE DEF run
<1>9. /\ run[0] = State
      /\ \A i \in 1 .. N : run[i] = DropRound(e, failed, i, run[i - 1])
  BY <1>0, <1>7
<1> DEFINE A == {n \in 0 .. N : run[n] \in S}
<1>10. \A n \in 0 .. N : n \in A
  <2>1. 0 \in A BY <1>0, <1>1, <1>9
  <2>2. ASSUME NEW n \in 0 .. N - 1, n \in A PROVE n + 1 \in A
    <3>1. n + 1 \in 1 .. N /\ (n + 1) - 1 = n BY <1>0
    <3>2. run[n + 1] = DropRound(e, failed, n + 1, run[n]) BY <1>9, <3>1
    <3> QED BY <2>2, <3>1, <3>2, DropRoundState
  <2> HIDE DEF A, N
  <2> QED BY <1>0, <2>1, <2>2, UpTo
<1>11. run = [i \in 0 .. N |-> run[i]] /\ \A i \in 0 .. N : run[i] \in S
  BY <1>7, <1>10
<1>12. run \in [0 .. N -> S] BY <1>11
<1>13. Drops(run, e, failed) BY <1>8, <1>9 DEF Drops
<1> QED BY <1>12, <1>13

PutRound(s, e, i, x) ==
    IF s.pres[i].node.era <= e THEN InsertIn(x, s.pres[i].node, s.pres[i].dup) ELSE x

LEMMA PutRoundState ==
    ASSUME NEW s \in States, presEra \in Nat, NEW e,
           NEW i \in 1 .. Len(s.pres), NEW x \in Later(s)
    PROVE  PutRound(s, e, i, x) \in Later(s)
<1>1. s.pres \in Seq(CopyType) /\ s.cur \in Nat /\ s.pres[i].node.era <= s.cur
  BY DEF States
<1>2. s.pres[i].node \in NodeType /\ s.pres[i].dup \in BOOLEAN
  <2>1. s.pres[i] \in CopyType BY <1>1
  <2> QED BY <2>1 DEF CopyType
<1>3. x \in States /\ x.cur >= s.cur /\ x.cur \in Nat BY DEF Later, States
<1>4. s.pres[i].node.era <= x.cur BY <1>1, <1>2, <1>3, NodeKeys
<1> DEFINE u == InsertIn(x, s.pres[i].node, s.pres[i].dup)
<1>5. u \in States /\ u.cur >= x.cur BY <1>2, <1>3, <1>4, InsertState
<1> HIDE DEF u
<1>6. u.cur \in Nat BY <1>5 DEF States
<1>7. u \in Later(s) BY <1>1, <1>3, <1>5, <1>6 DEF Later
<1> QED BY <1>7 DEF PutRound, u

PutsBack(f, s, e) ==
    /\ f[0] = [s EXCEPT !.pres = <<>>] /\ PutBack(s, e) = f[Len(s.pres)]
    /\ \A i \in 1 .. Len(s.pres) : f[i] = PutRound(s, e, i, f[i - 1])

LEMMA PutBackRun ==
    ASSUME NEW s \in States, presEra \in Nat, NEW e
    PROVE  \E f \in [0 .. Len(s.pres) -> Later(s)] : PutsBack(f, s, e)
<1> DEFINE N == Len(s.pres)
           S == Later(s)
           b == [s EXCEPT !.pres = <<>>]
           Loop(g) == g = [i \in 0 .. N |->
                             IF i = 0 THEN b ELSE PutRound(s, e, i, g[i - 1])]
           F == [a \in (1 .. N) \X S |-> PutRound(s, e, a[1], a[2])]
<1>0. N \in Nat
  <2>1. s.pres \in Seq(CopyType) BY DEF States
  <2> QED BY <2>1
<1>1. b \in S
  <2>1. /\ s.list \in Seq(NodeType) /\ s.cur \in Nat /\ Ascends(s.list)
        /\ \A i \in 1 .. Len(s.list) : s.list[i].era <= s.cur
        /\ b = [list |-> s.list, pres |-> <<>>, cur |-> s.cur]
    BY DEF States
  <2>2. <<>> \in Seq(CopyType) /\ \A i \in 1 .. Len(<<>>) : <<>>[i].node.era <= s.cur
    OBVIOUS
  <2>3. s.cur <= s.cur /\ b.cur >= s.cur BY <2>1
  <2>4. b \in States
    <3> HIDE DEF b
    <3> QED BY <2>1, <2>2, <2>3, StateIs
  <2> HIDE DEF b
  <2> QED BY <2>3, <2>4 DEF Later
<1> HIDE DEF b
<1>2. F \in [(1 .. N) \X S -> S] BY PutRoundState
<1>3. \A i \in 1 .. N, x \in S : F[<<i, x>>] = PutRound(s, e, i, x) OBVIOUS
<1>4. PICK f \in [0 .. N -> S] : RunOf(f, F, b, N)
  <2> HIDE DEF F, S, N
  <2> QED BY <1>0, <1>1, <1>2, LoopRuns
<1>5. \A i \in 1 .. N : f[i] = PutRound(s, e, i, f[i - 1])
  <2>1. \A i \in 1 .. N : i - 1 \in 0 .. N BY <1>0
  <2> HIDE DEF F
  <2> QED BY <1>3, <1>4, <2>1 DEF RunOf
<1>6. Loop(f)
  <2> HIDE DEF F
  <2> QED BY <1>0, <1>4, <1>5 DEF RunOf
<1> DEFINE run == CHOOSE g : Loop(g)
<1>7. Loop(run)
  <2> HIDE DEF Loop
  <2> QED BY <1>6
<1>8. PutBack(s, e) = run[N] BY DEF PutBack, PutRound, b
<1> HIDE DEF run
<1>9. /\ run[0] = b
      /\ \A i \in 1 .. N : run[i] = PutRound(s, e, i, run[i - 1])
  <2>1. \A i \in 0 .. N :
           run[i] = IF i = 0 THEN b ELSE PutRound(s, e, i, run[i - 1])
    BY <1>7
  <2>2. 0 \in 0 .. N /\ \A i \in 1 .. N : i \in 0 .. N /\ i # 0 BY <1>0
  <2> HIDE DEF N
  <2> QED BY <2>1, <2>2
<1> DEFINE A == {n \in 0 .. N : run[n] \in S}
<1>10. \A n \in 0 .. N : n \in A
  <2>1. 0 \in A BY <1>0, <1>1, <1>9
  <2>2. ASSUME NEW n \in 0 .. N - 1, n \in A PROVE n + 1 \in A
    <3>1. n + 1 \in 1 .. N /\ (n + 1) - 1 = n BY <1>0
    <3>2. run[n + 1] = PutRound(s, e, n + 1, run[n]) BY <1>9, <3>1
    <3> QED BY <2>2, <3>1, <3>2, PutRoundState
  <2> HIDE DEF A, N
  <2> QED BY <1>0, <2>1, <2>2, UpTo
<1>11. run = [i \in 0 .. N |-> run[i]] /\ \A i \in 0 .. N : run[i] \in S
  BY <1>7, <1>10
<1>12. run \in [0 .. N -> S] BY <1>11
<1>13. PutsBack(run, s, e) BY <1>8, <1>9 DEF PutsBack
<1> QED BY <1>12, <1>13 DEF b

LEMMA DroppedState ==
    ASSUME State \in States, presEra \in Nat, NEW e, NEW failed
    PROVE  Dropped(e, failed) \in Later(State)
<1>1. list \in Seq(NodeType) BY DEF States, State
<1>2. Len(list) \in Nat /\ Len(list) \in 0 .. Len(list) BY <1>1
<1> QED BY <1>2, DroppedRun

LEMMA PutBackState ==
    ASSUME NEW s \in States, presEra \in Nat, NEW e
    PROVE  PutBack(s, e) \in Later(s)
<1>1. s.pres \in Seq(CopyType) BY DEF States
<1>2. Len(s.pres) \in Nat /\ Len(s.pres) \in 0 .. Len(s.pres) BY <1>1
<1>3. PICK f \in [0 .. Len(s.pres) -> Later(s)] : PutBack(s, e) = f[Len(s.pres)]
  BY PutBackRun DEF PutsBack
<1> QED BY <1>2, <1>3

LEMMA RestoredState ==
    ASSUME State \in States, presEra \in Nat, NEW e, NEW failed
    PROVE  PutBack(Dropped(e, failed), e) \in Later(State)
<1>1. PICK d : d = Dropped(e, failed) OBVIOUS
<1>2. d \in Later(State) BY <1>1, DroppedState
<1>3. d \in States /\ PutBack(d, e) \in Later(d) BY <1>2, PutBackState DEF Later
<1>4. /\ PutBack(d, e) \in States /\ PutBack(d, e).cur >= d.cur
      /\ d.cur >= State.cur
  BY <1>2, <1>3 DEF Later
<1>5. PutBack(d, e).cur \in Nat /\ d.cur \in Nat /\ State.cur \in Nat
  BY <1>3, <1>4 DEF States
<1>6. PutBack(d, e) \in Later(State) BY <1>4, <1>5 DEF Later
<1> QED BY <1>1, <1>6

-----------------------------------------------------------------------------
(* Types.                                                                  *)
SnapType ==
    /\ State \in States /\ presEra \in 0 .. curEra
    /\ DOMAIN saved \subseteq 1 .. curEra /\ restored \in 0 .. curEra

LEMMA SnapTypeOK == SnapType => TypeOK
<1> SUFFICES ASSUME SnapType PROVE TypeOK
  OBVIOUS
<1>1. /\ list \in Seq(NodeType) /\ pres \in Seq(CopyType) /\ curEra \in Nat
      /\ Ascends(list)
      /\ \A i \in 1 .. Len(list) : list[i].era <= curEra
      /\ \A i \in 1 .. Len(pres) : pres[i].node.era <= curEra
  BY DEF SnapType, States, State
<1>2. \A x \in NodeType : x.era <= curEra => x \in Nodes
  BY <1>1 DEF NodeType, Nodes
<1>3. \A i \in DOMAIN list : list[i] \in Nodes
  <2>1. \A i \in DOMAIN list : list[i] \in NodeType /\ list[i].era <= curEra
    BY <1>1
  <2> QED BY <1>2, <2>1
<1>4. \A i \in DOMAIN pres : pres[i] \in [node : Nodes, dup : BOOLEAN]
  <2>1. \A i \in DOMAIN pres : pres[i] \in CopyType /\ pres[i].node.era <= curEra
    BY <1>1
  <2>2. \A x \in CopyType : x.node \in Nodes => x \in [node : Nodes, dup : BOOLEAN]
    BY DEF CopyType
  <2>3. \A x \in CopyType : x.node \in NodeType BY DEF CopyType
  <2> QED BY <1>2, <2>1, <2>2, <2>3
<1>5. InOrder(list) BY <1>1, InKeyOrder
<1> QED BY <1>1, <1>3, <1>4, <1>5 DEF SnapType, TypeOK

LEMMA EmptyIs ==
    /\ <<>> \in Seq(NodeType) /\ <<>> \in Seq(CopyType) /\ Ascends(<<>>)
    /\ \A c : \A i \in 1 .. Len(<<>>) : <<>>[i].era <= c
    /\ \A c : \A i \in 1 .. Len(<<>>) : <<>>[i].node.era <= c
BY DEF Ascends

LEMMA SnapTypeInit == Init => SnapType
<1> SUFFICES ASSUME Init PROVE SnapType
  OBVIOUS
<1>1. 0 \in Nat /\ 0 <= 0 OBVIOUS
<1>2. [list |-> <<>>, pres |-> <<>>, cur |-> 0] \in States
  BY <1>1, EmptyIs, StateIs
<1>3. DOMAIN <<>> = {} OBVIOUS
<1> QED BY <1>2, <1>3 DEF Init, SnapType, State

(* What is left of a call once its state is right.                         *)
LEMMA Become ==
    ASSUME SnapType, NEW u \in Later(State), Becomes(u)
    PROVE  State' = u /\ State' \in States /\ curEra \in Nat /\ curEra' \in Nat
           /\ curEra' >= curEra
<1>1. u = [list |-> u.list, pres |-> u.pres, cur |-> u.cur] /\ u \in States
      /\ u.cur \in Nat
  BY DEF Later, States
<1>2. State' = u BY <1>1 DEF Becomes, State
<1>3. State.cur = curEra /\ State \in States BY DEF SnapType, State
<1>4. curEra \in Nat BY <1>3 DEF States
<1>5. curEra' = u.cur /\ u.cur >= curEra BY <1>3 DEF Becomes, Later
<1> QED BY <1>1, <1>2, <1>4, <1>5

LEMMA CallState ==
    ASSUME SnapType
    PROVE  /\ presEra \in Nat /\ State \in States
           /\ \A k \in Keys, v \in Vals, dup \in BOOLEAN :
                 InsertIn(State, [key |-> k, val |-> v, era |-> 0], dup) \in Later(State)
           /\ \A k \in Keys, v \in Vals :
                 Matches(list, k) => UpdateIn(State, k, v) \in Later(State)
           /\ \A k \in Keys : RemoveFrom(State, k) \in Later(State)
<1>1. presEra \in Nat /\ State \in States /\ State.list = list /\ State.cur \in Nat
  BY DEF SnapType, State, States
<1>2. \A k \in Keys, v \in Vals :
         [key |-> k, val |-> v, era |-> 0] \in NodeType
  BY DEF NodeType
<1>3. \A k \in Keys, v \in Vals, dup \in BOOLEAN :
         InsertIn(State, [key |-> k, val |-> v, era |-> 0], dup) \in Later(State)
  <2> TAKE k \in Keys, v \in Vals, dup \in BOOLEAN
  <2>1. PICK n \in NodeType : n = [key |-> k, val |-> v, era |-> 0] BY <1>2
  <2>2. n.era <= State.cur BY <1>1, <2>1
  <2>3. InsertIn(State, n, dup) \in Later(State)
    BY <1>1, <2>2, InsertState DEF Later
  <2> QED BY <2>1, <2>3
<1>4. \A k \in Keys, v \in Vals :
         Matches(list, k) => UpdateIn(State, k, v) \in Later(State)
  BY <1>1, UpdateState DEF Later
<1>5. \A k \in Keys : RemoveFrom(State, k) \in Later(State)
  BY <1>1, RemoveState DEF Later
<1> QED BY <1>1, <1>3, <1>4, <1>5

LEMMA SnapTypeStep == ASSUME SnapType, [Next]_vars PROVE SnapType'
<1>0. /\ presEra \in Nat /\ State \in States /\ curEra \in Nat
      /\ presEra \in 0 .. curEra /\ restored \in 0 .. curEra
      /\ DOMAIN saved \subseteq 1 .. curEra
      /\ State = [list |-> list, pres |-> pres, cur |-> curEra]
  <2>1. State.cur = curEra BY DEF State
  <2> QED BY <2>1 DEF SnapType, State, States
<1>1. CASE UNCHANGED vars BY <1>1 DEF vars, SnapType, State
<1>2. ASSUME NEW u \in Later(State), Becomes(u), restored' = 0,
             UNCHANGED <<presEra, saved>>
      PROVE  SnapType'
  <2>1. State' \in States /\ curEra' \in Nat /\ curEra' >= curEra BY <1>2, Become
  <2> QED BY <1>0, <1>2, <2>1 DEF SnapType
<1>3. ASSUME NEW k \in Keys, NEW v \in Vals, NEW dup \in BOOLEAN, Insert(k, v, dup)
      PROVE  SnapType'
  BY <1>2, <1>3, CallState DEF Insert
<1>4. ASSUME NEW k \in Keys, NEW v \in Vals, Update(k, v) PROVE SnapType'
  BY <1>2, <1>4, CallState DEF Update
<1>5. ASSUME NEW k \in Keys, Delete(k) PROVE SnapType'
  BY <1>2, <1>5, CallState DEF Delete
<1>6. CASE Release
  <2>1. /\ list' = <<>> /\ pres' = pres /\ curEra' \in Nat /\ curEra <= curEra'
        /\ presEra' = presEra /\ saved' = saved /\ restored' = 0
    BY <1>0, <1>6 DEF Release
  <2>2. /\ pres \in Seq(CopyType)
        /\ \A i \in 1 .. Len(pres) : pres[i].node.era <= curEra
    BY <1>0 DEF States, State
  <2>4. [list |-> <<>>, pres |-> pres, cur |-> curEra'] \in States
    BY <1>0, <2>1, <2>2, EmptyIs, StateIs
  <2>5. State' \in States BY <2>1, <2>4 DEF State
  <2> QED BY <1>0, <2>1, <2>5 DEF SnapType
<1>7. CASE Snapshot
  <2>1. /\ list' = list /\ pres' = pres /\ curEra' = curEra + 2
        /\ presEra' = curEra + 1 /\ restored' = 0
        /\ DOMAIN saved' = DOMAIN saved \cup {curEra + 1}
    BY <1>7 DEF Snapshot
  <2>2. /\ list \in Seq(NodeType) /\ pres \in Seq(CopyType) /\ Ascends(list)
        /\ \A i \in 1 .. Len(list) : list[i].era <= curEra
        /\ \A i \in 1 .. Len(pres) : pres[i].node.era <= curEra
    BY <1>0 DEF States, State
  <2>3. \A i \in 1 .. Len(list) : list[i].era <= curEra + 2
    <3>1. \A i \in 1 .. Len(list) : list[i] \in NodeType BY <2>2
    <3> QED BY <1>0, <2>2, <3>1, NodeKeys
  <2>4. [list |-> list, pres |-> pres, cur |-> curEra + 2] \in States
    <3>1. curEra + 2 \in Nat /\ curEra <= curEra + 2 BY <1>0
    <3> QED BY <1>0, <2>2, <2>3, <3>1, StateIs
  <2>5. State' \in States BY <2>1, <2>4 DEF State
  <2> QED BY <1>0, <2>1, <2>5 DEF SnapType
<1>8. CASE ReleaseSnapshots
  <2>1. /\ list' = list /\ pres' = <<>> /\ curEra' = curEra
        /\ presEra' = 0 /\ restored' = 0 /\ saved' = <<>>
    BY <1>8 DEF ReleaseSnapshots
  <2>2. /\ list \in Seq(NodeType) /\ Ascends(list)
        /\ \A i \in 1 .. Len(list) : list[i].era <= curEra
    BY <1>0 DEF States, State
  <2>3. DOMAIN <<>> = {} OBVIOUS
  <2>4. [list |-> list, pres |-> <<>>, cur |-> curEra] \in States
    <3>1. curEra <= curEra BY <1>0
    <3> QED BY <1>0, <2>2, <3>1, EmptyIs, StateIs
  <2>5. State' \in States BY <2>1, <2>4 DEF State
  <2> QED BY <1>0, <2>1, <2>3, <2>5 DEF SnapType
<1>9. ASSUME NEW e \in DOMAIN saved, Restore(e) PROVE SnapType'
  <2>1. PICK failed \in SUBSET CopyFails(e) : Becomes(PutBack(Dropped(e, failed), e))
    BY <1>9 DEF Restore
  <2>2. State' \in States /\ curEra' \in Nat /\ curEra' >= curEra
    BY <1>0, <2>1, RestoredState, Become
  <2>3. /\ presEra' = 0 /\ restored' = e
        /\ DOMAIN saved' \subseteq DOMAIN saved
    BY <1>9 DEF Restore
  <2> QED BY <1>0, <2>2, <2>3 DEF SnapType
<1>10. ASSUME NEW e \in DOMAIN saved, RestoreFails(e) PROVE SnapType'
  <2>1. PICK failed \in SUBSET CopyFails(e) : Becomes(Dropped(e, failed))
    BY <1>10 DEF RestoreFails
  <2>2. Dropped(e, failed) \in Later(State) BY <1>0, DroppedState
  <2> QED BY <1>2, <1>10, <2>1, <2>2 DEF RestoreFails
<1> QED BY <1>1, <1>3, <1>4, <1>5, <1>6, <1>7, <1>8, <1>9, <1>10 DEF Next

(* Whatever calls are made, and however often memory runs out, the list    *)
(* keeps its order and no node or copy is from a later era than the list.  *)
THEOREM TypeCorrect == Spec => []TypeOK
<1>1. SnapType /\ [Next]_vars => SnapType' BY SnapTypeStep
<1> QED BY <1>1, SnapTypeInit, SnapTypeOK, PTL DEF Spec

-----------------------------------------------------------------------------
(* Of the nodes with one key, those newer than e come first.               *)
NewerFirst(l, e) ==
    \A i, j \in 1 .. Len(l) :
        i < j /\ l[i].key = l[j].key /\ l[i].era <= e => l[j].era <= e

LEMMA GrownNewer ==
    ASSUME NEW l \in Seq(NodeType), NEW r \in Seq(NodeType), NEW n \in NodeType,
           NEW p, NEW e \in Int,
           Grown(r, l, p, n), n.era > e, NewerFirst(l, e),
           \A i \in 1 .. Len(l) : l[i].key < n.key <=> i < p
    PROVE  NewerFirst(r, e)
<1>0. Len(l) \in Nat /\ p \in 1 .. Len(l) + 1 /\ Len(r) = Len(l) + 1 /\ r[p] = n
      /\ n.era \in Nat /\ n.key \in Int
  BY NodeKeys DEF Grown
<1>1. ASSUME NEW x \in 1 .. Len(r), x # p
      PROVE  LET y == IF x < p THEN x ELSE x - 1
             IN y \in 1 .. Len(l) /\ r[x] = l[y]
  BY <1>0, <1>1 DEF Grown
<1>2. ASSUME NEW i \in 1 .. Len(r), NEW j \in 1 .. Len(r),
             i < j, r[i].key = r[j].key, r[i].era <= e
      PROVE  r[j].era <= e
  <2>1. i # p BY <1>0, <1>2
  <2>2. PICK x \in 1 .. Len(l) : x = (IF i < p THEN i ELSE i - 1) /\ r[i] = l[x]
    BY <1>1, <2>1
  <2>3. j # p
    <3>1. SUFFICES ASSUME j = p PROVE FALSE
      OBVIOUS
    <3>2. x < p BY <1>0, <1>2, <2>2, <3>1
    <3>3. l[x].key < n.key BY <3>2
    <3> QED BY <1>0, <1>2, <2>2, <3>1, <3>3
  <2>4. PICK y \in 1 .. Len(l) : y = (IF j < p THEN j ELSE j - 1) /\ r[j] = l[y]
    BY <1>1, <2>3
  <2>5. x < y BY <1>0, <1>2, <2>1, <2>2, <2>3, <2>4
  <2> QED BY <1>2, <2>2, <2>4, <2>5 DEF NewerFirst
<1> QED BY <1>2 DEF NewerFirst

LEMMA ShrunkNewer ==
    ASSUME NEW l \in Seq(NodeType), NEW r \in Seq(NodeType), NEW p, NEW e \in Int,
           Shrunk(r, l, p), NewerFirst(l, e)
    PROVE  NewerFirst(r, e)
<1>0. Len(l) \in Nat /\ p \in 1 .. Len(l) /\ Len(r) = Len(l) - 1 BY DEF Shrunk
<1>1. ASSUME NEW x \in 1 .. Len(r)
      PROVE  LET y == IF x < p THEN x ELSE x + 1
             IN y \in 1 .. Len(l) /\ r[x] = l[y]
  BY <1>0 DEF Shrunk
<1>2. ASSUME NEW i \in 1 .. Len(r), NEW j \in 1 .. Len(r),
             i < j, r[i].key = r[j].key, r[i].era <= e
      PROVE  r[j].era <= e
  <2>1. PICK x \in 1 .. Len(l) : x = (IF i < p THEN i ELSE i + 1) /\ r[i] = l[x]
    BY <1>1
  <2>2. PICK y \in 1 .. Len(l) : y = (IF j < p THEN j ELSE j + 1) /\ r[j] = l[y]
    BY <1>1
  <2>3. x < y BY <1>0, <1>2, <2>1, <2>2
  <2> QED BY <1>2, <2>1, <2>2, <2>3 DEF NewerFirst
<1> QED BY <1>2 DEF NewerFirst

(* A node that was renewed in place.                                       *)
Renewed(r, l, p, n) ==
    /\ p \in 1 .. Len(l) /\ Len(r) = Len(l)
    /\ r[p] = n /\ n.key = l[p].key
    /\ \A i \in 1 .. Len(l) : i # p => r[i] = l[i]

LEMMA RenewedNewer ==
    ASSUME NEW l \in Seq(NodeType), NEW r \in Seq(NodeType), NEW n \in NodeType,
           NEW p, NEW e \in Int,
           Renewed(r, l, p, n), n.era > e, NewerFirst(l, e),
           \A i \in 1 .. Len(l) : l[i].key < n.key <=> i < p
    PROVE  NewerFirst(r, e)
<1>0. /\ Len(l) \in Nat /\ p \in 1 .. Len(l) /\ Len(r) = Len(l) /\ r[p] = n
      /\ n.era \in Nat /\ n.key \in Int
      /\ \A i \in 1 .. Len(l) : i # p => r[i] = l[i]
  BY NodeKeys DEF Renewed
<1>1. ASSUME NEW i \in 1 .. Len(r), NEW j \in 1 .. Len(r),
             i < j, r[i].key = r[j].key, r[i].era <= e
      PROVE  r[j].era <= e
  <2>1. i # p BY <1>0, <1>1
  <2>2. r[i] = l[i] /\ i \in 1 .. Len(l) /\ j \in 1 .. Len(l) BY <1>0, <2>1
  <2>3. j # p
    <3>1. SUFFICES ASSUME j = p PROVE FALSE
      OBVIOUS
    <3>2. l[i].key < n.key BY <1>1, <2>2, <3>1
    <3> QED BY <1>0, <1>1, <2>2, <3>1, <3>2
  <2>4. r[j] = l[j] BY <1>0, <2>2, <2>3
  <2> QED BY <1>1, <2>2, <2>4 DEF NewerFirst
<1> QED BY <1>1 DEF NewerFirst

(* What the calls do to the list under a snapshot.                         *)
LEMMA InsertUnder ==
    ASSUME NEW s \in States, NEW n \in NodeType, NEW dup \in BOOLEAN, presEra > 0,
           ~ (Matches(s.list, n.key) /\ ~ dup)
    PROVE  LET m == [n EXCEPT !.era = s.cur]
               u == InsertIn(s, n, dup)
           IN /\ m \in NodeType /\ m.key = n.key /\ m.era = s.cur
              /\ u.list = Inserted(s.list, m) /\ u.pres = s.pres
              /\ Grown(u.list, s.list, First(s.list, n.key), m)
              /\ \A i \in 1 .. Len(s.list) :
                    s.list[i].key < n.key <=> i < First(s.list, n.key)
<1> DEFINE m == [n EXCEPT !.era = s.cur]
           u == InsertIn(s, n, dup)
           r == Inserted(s.list, m)
<1>1. /\ s.list \in Seq(NodeType) /\ s.pres \in Seq(CopyType) /\ s.cur \in Nat
      /\ Ascends(s.list)
      /\ s = [list |-> s.list, pres |-> s.pres, cur |-> s.cur]
  BY DEF States
<1>2. m \in NodeType /\ m.key = n.key /\ m.era = s.cur BY <1>1 DEF NodeType
<1>3. u = [s EXCEPT !.list = r, !.cur = s.cur + 1]
  BY DEF InsertIn, Stamped
<1> HIDE DEF m
<1>4. u.list = r /\ u.pres = s.pres
  <2> HIDE DEF r, u
  <2> QED BY <1>1, <1>3
<1>5. \A x \in NodeType : x.key \in Int BY NodeKeys
<1>6. Grown(r, s.list, First(s.list, n.key), m) BY <1>1, <1>2, <1>5, InsertedIs
<1>7. \A i \in 1 .. Len(s.list) :
         s.list[i].key < n.key <=> i < First(s.list, n.key)
  BY <1>1, <1>5, FirstIs
<1> QED BY <1>2, <1>4, <1>6, <1>7 DEF m

LEMMA RemoveUnder ==
    ASSUME NEW s \in States, NEW k \in Keys, presEra > 0, Matches(s.list, k)
    PROVE  LET p == First(s.list, k)
               u == RemoveFrom(s, k)
           IN /\ u.list = Removed(s.list, k) /\ u.list \in Seq(NodeType)
              /\ Shrunk(u.list, s.list, p)
              /\ p \in 1 .. Len(s.list) /\ s.list[p].key = k
              /\ u.pres = Preserved(s, p)
              /\ \A i \in 1 .. Len(s.list) : s.list[i].key < k <=> i < p
<1> DEFINE p == First(s.list, k)
           u == RemoveFrom(s, k)
<1>1. s.list \in Seq(NodeType) /\ Ascends(s.list) BY DEF States
<1>2. u = [list |-> Removed(s.list, k), pres |-> Preserved(s, p), cur |-> s.cur + 1]
  BY DEF RemoveFrom
<1>3. u.list = Removed(s.list, k) /\ u.pres = Preserved(s, p)
  <2> HIDE DEF u, p
  <2> QED BY <1>2
<1>4. k \in Int /\ \A x \in NodeType : x.key \in Int BY NodeKeys, BoundsAssumption
<1>5. /\ Removed(s.list, k) \in Seq(NodeType)
      /\ Shrunk(Removed(s.list, k), s.list, p) /\ s.list[p].key = k
  BY <1>1, <1>4, RemovedIs
<1>6. \A i \in 1 .. Len(s.list) : s.list[i].key < k <=> i < p
  BY <1>1, <1>4, FirstIs
<1>7. p \in 1 .. Len(s.list) BY <1>5 DEF Shrunk
<1> QED BY <1>3, <1>5, <1>6, <1>7

LEMMA UpdateUnder ==
    ASSUME NEW s \in States, NEW k \in Keys, NEW v \in Vals, presEra > 0,
           Matches(s.list, k)
    PROVE  LET p == First(s.list, k)
               n == [key |-> k, val |-> v, era |-> s.cur + 1]
               u == UpdateIn(s, k, v)
           IN /\ n \in NodeType
              /\ u.list = [s.list EXCEPT ![p] = n] /\ u.list \in Seq(NodeType)
              /\ Renewed(u.list, s.list, p, n) /\ u.pres = Preserved(s, p)
              /\ \A i \in 1 .. Len(s.list) : s.list[i].key < k <=> i < p
<1> DEFINE p == First(s.list, k)
           n == [key |-> k, val |-> v, era |-> s.cur + 1]
           u == UpdateIn(s, k, v)
           r == [s.list EXCEPT ![p] = n]
<1>1. s.list \in Seq(NodeType) /\ Ascends(s.list) /\ s.cur \in Nat BY DEF States
<1>2. k \in Int /\ \A x \in NodeType : x.key \in Int BY NodeKeys, BoundsAssumption
<1>3. p \in 1 .. Len(s.list) /\ s.list[p].key = k
      /\ \A i \in 1 .. Len(s.list) : s.list[i].key < k <=> i < p
  <2>1. p \in 1 .. Len(s.list) + 1 BY <1>1, <1>2, FirstIs
  <2>2. p <= Len(s.list) /\ s.list[p].key = k BY <1>1, <1>2, FirstIs
  <2>3. \A i \in 1 .. Len(s.list) : s.list[i].key < k <=> i < p
    BY <1>1, <1>2, FirstIs
  <2>4. Len(s.list) \in Nat BY <1>1
  <2> HIDE DEF p
  <2> QED BY <2>1, <2>2, <2>3, <2>4
<1>4. s.list[p] \in NodeType BY <1>1, <1>3
<1> HIDE DEF p
<1>5. n \in NodeType /\ n.key = k BY <1>1 DEF NodeType
<1>6. [s.list EXCEPT ![p].val = v, ![p].era = s.cur + 1] = r
  <2>1. s.list[p].key = k /\ s.list \in Seq(NodeType) /\ p \in 1 .. Len(s.list)
    BY <1>1, <1>3
  <2>2. Changed(s.list, p, v, s.cur + 1)
           = With(s.list, p, [key |-> s.list[p].key, val |-> v, era |-> s.cur + 1])
    BY <2>1, Renewal
  <2> QED BY <2>1, <2>2, Zenon DEF Changed, With
<1> HIDE DEF n
<1>7. u = [list |-> r, pres |-> Preserved(s, p), cur |-> s.cur + 1]
  <2> HIDE DEF r
  <2> QED BY <1>6 DEF UpdateIn, p
<1>8. r \in Seq(NodeType) /\ Renewed(r, s.list, p, n)
  BY <1>1, <1>3, <1>5 DEF Renewed
<1>9. u.list = r /\ u.pres = Preserved(s, p)
  <2> HIDE DEF u, r
  <2> QED BY <1>7
<1> QED BY <1>3, <1>5, <1>8, <1>9 DEF n, p

-----------------------------------------------------------------------------
(* Under each snapshot the nodes changed since come first.                 *)
SnapInv ==
    /\ SnapType
    /\ presEra > 0 => presEra < curEra /\ presEra \in DOMAIN saved
    /\ presEra = 0 => pres = <<>>
    /\ \A e \in DOMAIN saved : e <= presEra /\ NewerFirst(list, e)

LEMMA SnapFacts ==
    ASSUME SnapType
    PROVE  /\ State \in States /\ presEra \in Nat /\ curEra \in Nat
           /\ \A e \in DOMAIN saved : e \in Nat /\ e > 0
           /\ State.list = list /\ State.pres = pres /\ State.cur = curEra
           /\ list \in Seq(NodeType) /\ pres \in Seq(CopyType)
<1>1. State.list = list /\ State.pres = pres /\ State.cur = curEra BY DEF State
<1> QED BY <1>1 DEF SnapType, States

LEMMA InsertNewer ==
    ASSUME NEW s \in States, NEW n \in NodeType, NEW dup \in BOOLEAN, presEra > 0,
           NEW e \in Int, e < s.cur, NewerFirst(s.list, e)
    PROVE  NewerFirst(InsertIn(s, n, dup).list, e)
<1>1. CASE Matches(s.list, n.key) /\ ~ dup BY <1>1 DEF InsertIn
<1>2. CASE ~ (Matches(s.list, n.key) /\ ~ dup)
  <2> DEFINE u == InsertIn(s, n, dup)
             m == [n EXCEPT !.era = s.cur]
             p == First(s.list, n.key)
  <2>1. /\ m \in NodeType /\ m.key = n.key /\ m.era = s.cur
        /\ u.list = Inserted(s.list, m)
        /\ Grown(u.list, s.list, p, m)
        /\ \A i \in 1 .. Len(s.list) : s.list[i].key < n.key <=> i < p
    BY <1>2, InsertUnder
  <2>2. s.list \in Seq(NodeType) /\ Ascends(s.list) /\ s.cur \in Nat BY DEF States
  <2>3. \A x \in NodeType : x.key \in Int BY NodeKeys
  <2> HIDE DEF m, p, u
  <2>4. u.list \in Seq(NodeType) BY <2>1, <2>2, <2>3, InsertedIs
  <2>5. \A i \in 1 .. Len(s.list) : s.list[i].key < m.key <=> i < p BY <2>1
  <2>6. m.era > e BY <2>1, <2>2
  <2>7. NewerFirst(u.list, e) BY <2>1, <2>2, <2>4, <2>5, <2>6, GrownNewer
  <2> QED BY <2>7 DEF u
<1> QED BY <1>1, <1>2

LEMMA RemoveNewer ==
    ASSUME NEW s \in States, NEW k \in Keys, presEra > 0,
           NEW e \in Int, NewerFirst(s.list, e)
    PROVE  NewerFirst(RemoveFrom(s, k).list, e)
<1>1. CASE ~ Matches(s.list, k) BY <1>1 DEF RemoveFrom
<1>2. CASE Matches(s.list, k)
  <2> DEFINE u == RemoveFrom(s, k)
             p == First(s.list, k)
  <2>1. u.list \in Seq(NodeType) /\ Shrunk(u.list, s.list, p)
    BY <1>2, RemoveUnder
  <2>2. s.list \in Seq(NodeType) BY DEF States
  <2> HIDE DEF u, p
  <2>3. NewerFirst(u.list, e) BY <2>1, <2>2, ShrunkNewer
  <2> QED BY <2>3 DEF u
<1> QED BY <1>1, <1>2

LEMMA UpdateNewer ==
    ASSUME NEW s \in States, NEW k \in Keys, NEW v \in Vals, Matches(s.list, k),
           presEra > 0, NEW e \in Int, e < s.cur, NewerFirst(s.list, e)
    PROVE  NewerFirst(UpdateIn(s, k, v).list, e)
<1> DEFINE u == UpdateIn(s, k, v)
           p == First(s.list, k)
           n == [key |-> k, val |-> v, era |-> s.cur + 1]
<1>1. /\ n \in NodeType /\ u.list \in Seq(NodeType) /\ Renewed(u.list, s.list, p, n)
      /\ \A i \in 1 .. Len(s.list) : s.list[i].key < k <=> i < p
  BY UpdateUnder
<1>2. s.list \in Seq(NodeType) /\ s.cur \in Nat BY DEF States
<1>3. n.era > e /\ n.key = k BY <1>2
<1> HIDE DEF u, p, n
<1>4. \A i \in 1 .. Len(s.list) : s.list[i].key < n.key <=> i < p BY <1>1, <1>3
<1>5. NewerFirst(u.list, e) BY <1>1, <1>2, <1>3, <1>4, RenewedNewer
<1> QED BY <1>5 DEF u

LEMMA DropNewer ==
    ASSUME State \in States, presEra \in Nat, presEra > 0, NEW e, NEW failed,
           NEW g \in Int, NewerFirst(list, g)
    PROVE  NewerFirst(Dropped(e, failed).list, g)
<1>0. list \in Seq(NodeType) /\ State.list = list BY DEF States, State
<1> DEFINE N == Len(list)
<1>1. PICK f \in [0 .. N -> Later(State)] :
         /\ f[0] = State /\ Dropped(e, failed) = f[N]
         /\ \A i \in 1 .. N : f[i] = DropRound(e, failed, i, f[i - 1])
  <2>1. PICK f \in [0 .. N -> Later(State)] : Drops(f, e, failed) BY DroppedRun
  <2> QED BY <2>1 DEF Drops
<1> DEFINE A == {n \in 0 .. N : NewerFirst(f[n].list, g)}
<1>2. N \in Nat /\ 0 \in A BY <1>0, <1>1
<1>3. ASSUME NEW n \in 0 .. N - 1, n \in A PROVE n + 1 \in A
  <2>1. n + 1 \in 1 .. N /\ (n + 1) - 1 = n /\ n \in 0 .. N BY <1>2
  <2>2. f[n + 1] = DropRound(e, failed, n + 1, f[n]) BY <1>1, <2>1
  <2>3. f[n] \in States BY <1>1, <2>1 DEF Later
  <2>4. list[n + 1].key \in Keys BY <1>0, <2>1, NodeKeys
  <2>5. NewerFirst(f[n].list, g) BY <1>3
  <2>6. NewerFirst(RemoveFrom(f[n], list[n + 1].key).list, g)
    BY <2>3, <2>4, <2>5, RemoveNewer
  <2>7. NewerFirst(f[n + 1].list, g) BY <2>2, <2>5, <2>6 DEF DropRound
  <2> QED BY <2>1, <2>7
<1>4. N \in A
  <2>1. \A n \in 0 .. N : n \in A
    <3> HIDE DEF A, N
    <3> QED BY <1>2, <1>3, UpTo
  <2>2. N \in 0 .. N BY <1>2
  <2> HIDE DEF A, N
  <2> QED BY <2>1, <2>2
<1> QED BY <1>1, <1>4

(* An insertion preserves nothing, so that none is left after a restore.   *)
LEMMA PutBackEmpty ==
    ASSUME NEW s \in States, presEra \in Nat, NEW e
    PROVE  PutBack(s, e).pres = <<>>
<1>0. s.pres \in Seq(CopyType) BY DEF States
<1> DEFINE N == Len(s.pres)
<1>1. PICK f \in [0 .. N -> Later(s)] :
         /\ f[0] = [s EXCEPT !.pres = <<>>] /\ PutBack(s, e) = f[N]
         /\ \A i \in 1 .. N : f[i] = PutRound(s, e, i, f[i - 1])
  <2>1. PICK f \in [0 .. N -> Later(s)] : PutsBack(f, s, e) BY PutBackRun
  <2> QED BY <2>1 DEF PutsBack
<1> DEFINE A == {n \in 0 .. N : f[n].pres = <<>>}
<1>2. N \in Nat /\ 0 \in A
  <2>1. [s EXCEPT !.pres = <<>>].pres = <<>> BY DEF States
  <2> QED BY <1>0, <1>1, <2>1
<1>3. ASSUME NEW n \in 0 .. N - 1, n \in A PROVE n + 1 \in A
  <2>1. n + 1 \in 1 .. N /\ (n + 1) - 1 = n /\ n \in 0 .. N BY <1>2
  <2>2. f[n + 1] = PutRound(s, e, n + 1, f[n]) BY <1>1, <2>1
  <2>3. f[n] \in States BY <1>1, <2>1 DEF Later
  <2>4. \A m, dup : InsertIn(f[n], m, dup).pres = f[n].pres
    BY <2>3 DEF InsertIn, States
  <2>5. f[n + 1].pres = <<>> BY <1>3, <2>2, <2>4 DEF PutRound
  <2> QED BY <2>1, <2>5
<1>4. N \in A
  <2>1. \A n \in 0 .. N : n \in A
    <3> HIDE DEF A, N
    <3> QED BY <1>2, <1>3, UpTo
  <2>2. N \in 0 .. N BY <1>2
  <2> HIDE DEF A, N
  <2> QED BY <2>1, <2>2
<1> QED BY <1>1, <1>4

Oldest == "oldest" \in Contract

LEMMA SnapInvInit == Init => SnapInv
<1> SUFFICES ASSUME Init PROVE SnapInv
  OBVIOUS
<1>1. DOMAIN saved = {} BY DEF Init
<1> QED BY <1>1, SnapTypeInit DEF SnapInv, Init

(* Before there is a snapshot no call makes a copy.                        *)
LEMMA NoCopies ==
    ASSUME NEW s \in States, presEra = 0
    PROVE  /\ \A n, dup : InsertIn(s, n, dup).pres = s.pres
           /\ \A k : RemoveFrom(s, k).pres = s.pres
           /\ \A k, v : UpdateIn(s, k, v).pres = s.pres
<1>1. \A n, dup : InsertIn(s, n, dup).pres = s.pres BY DEF InsertIn, States
<1>2. \A k : RemoveFrom(s, k).pres = s.pres BY DEF RemoveFrom, States
<1>3. \A k, v : UpdateIn(s, k, v).pres = s.pres BY DEF UpdateIn, States
<1> QED BY <1>1, <1>2, <1>3

LEMMA SnapInvKeep ==
    ASSUME SnapInv, SnapType', UNCHANGED <<presEra, saved>>, curEra' >= curEra,
           \A e \in DOMAIN saved : NewerFirst(list', e), presEra = 0 => pres' = <<>>
    PROVE  SnapInv'
<1>1. presEra \in Nat /\ curEra \in Nat BY SnapFacts DEF SnapInv
<1>2. curEra' \in Nat BY DEF SnapType, States, State
<1> QED BY <1>1, <1>2 DEF SnapInv

LEMMA SnapInvCall ==
    ASSUME SnapInv, SnapType', NEW u \in Later(State), Becomes(u),
           UNCHANGED <<presEra, saved>>,
           presEra > 0 => \A e \in DOMAIN saved : NewerFirst(u.list, e),
           presEra = 0 => u.pres = pres
    PROVE  SnapInv'
<1>1. SnapType BY DEF SnapInv
<1>2. presEra \in Nat /\ \A e \in DOMAIN saved : e \in Nat /\ e > 0
  BY <1>1, SnapFacts
<1>3. \A e \in DOMAIN saved : presEra > 0 BY <1>2 DEF SnapInv
<1>4. list' = u.list /\ pres' = u.pres BY DEF Becomes
<1>5. \A e \in DOMAIN saved : NewerFirst(list', e) BY <1>3, <1>4
<1>6. presEra = 0 => pres' = <<>> BY <1>4 DEF SnapInv
<1>7. curEra' >= curEra BY <1>1, Become
<1> QED BY <1>5, <1>6, <1>7, SnapInvKeep

LEMMA SnapInvStep == ASSUME Oldest, SnapInv, [Next]_vars PROVE SnapInv'
<1>0. /\ SnapType /\ SnapType' BY SnapTypeStep DEF SnapInv
<1>1. /\ State \in States /\ presEra \in Nat /\ curEra \in Nat
      /\ \A e \in DOMAIN saved : e \in Nat /\ e > 0
      /\ State.list = list /\ State.pres = pres /\ State.cur = curEra
      /\ list \in Seq(NodeType)
  BY <1>0, SnapFacts
<1>2. \A e \in DOMAIN saved :
         e \in Int /\ presEra > 0 /\ e < curEra /\ NewerFirst(State.list, e)
  BY <1>1 DEF SnapInv
<1>3. CASE UNCHANGED vars BY <1>3 DEF vars, SnapInv, SnapType, State
<1>4. ASSUME NEW k \in Keys, NEW v \in Vals, NEW dup \in BOOLEAN, Insert(k, v, dup)
      PROVE  SnapInv'
  <2>1. PICK n \in NodeType : n = [key |-> k, val |-> v, era |-> 0]
    BY DEF NodeType
  <2>2. PICK u : u = InsertIn(State, n, dup) OBVIOUS
  <2>3. u \in Later(State) BY <1>0, <2>1, <2>2, CallState
  <2>4. Becomes(u) /\ UNCHANGED <<presEra, saved>> BY <1>4, <2>1, <2>2 DEF Insert
  <2>5. \A e \in DOMAIN saved : NewerFirst(u.list, e)
    BY <1>1, <1>2, <2>2, InsertNewer
  <2>6. presEra = 0 => u.pres = pres BY <1>1, <2>2, NoCopies
  <2> QED BY <1>0, <2>3, <2>4, <2>5, <2>6, SnapInvCall
<1>5. ASSUME NEW k \in Keys, NEW v \in Vals, Update(k, v) PROVE SnapInv'
  <2>1. PICK u : u = UpdateIn(State, k, v) OBVIOUS
  <2>2. Matches(list, k) BY <1>5 DEF Update
  <2>3. u \in Later(State) BY <1>0, <2>1, <2>2, CallState
  <2>4. Becomes(u) /\ UNCHANGED <<presEra, saved>> BY <1>5, <2>1 DEF Update
  <2>5. \A e \in DOMAIN saved : NewerFirst(u.list, e)
    BY <1>1, <1>2, <2>1, <2>2, UpdateNewer
  <2>6. presEra = 0 => u.pres = pres BY <1>1, <2>1, NoCopies
  <2> QED BY <1>0, <2>3, <2>4, <2>5, <2>6, SnapInvCall
<1>6. ASSUME NEW k \in Keys, Delete(k) PROVE SnapInv'
  <2>1. PICK u : u = RemoveFrom(State, k) OBVIOUS
  <2>2. u \in Later(State) BY <1>0, <2>1, CallState
  <2>3. Becomes(u) /\ UNCHANGED <<presEra, saved>> BY <1>6, <2>1 DEF Delete
  <2>4. \A e \in DOMAIN saved : NewerFirst(u.list, e)
    BY <1>1, <1>2, <2>1, RemoveNewer
  <2>5. presEra = 0 => u.pres = pres BY <1>1, <2>1, NoCopies
  <2> QED BY <1>0, <2>2, <2>3, <2>4, <2>5, SnapInvCall
<1>7. CASE Release
  <2>1. /\ list' = <<>> /\ pres' = pres /\ UNCHANGED <<presEra, saved>>
        /\ curEra' >= curEra
    BY <1>1, <1>7 DEF Release
  <2>2. \A e : NewerFirst(<<>>, e) BY DEF NewerFirst
  <2>3. presEra = 0 => pres' = <<>> BY <2>1 DEF SnapInv
  <2> QED BY <1>0, <2>1, <2>2, <2>3, SnapInvKeep
<1>8. CASE Snapshot
  <2>1. /\ list' = list /\ pres' = pres /\ curEra' = curEra + 2
        /\ presEra' = curEra + 1 /\ DOMAIN saved' = DOMAIN saved \cup {curEra + 1}
    BY <1>8 DEF Snapshot
  <2>2. NewerFirst(list, curEra + 1)
    <3>1. \A i \in 1 .. Len(list) : list[i].era <= curEra /\ list[i] \in NodeType
      BY <1>1 DEF States
    <3>2. \A i \in 1 .. Len(list) : list[i].era <= curEra + 1
      BY <1>1, <3>1, NodeKeys
    <3> QED BY <3>2 DEF NewerFirst
  <2>3. \A e \in DOMAIN saved : e <= curEra + 1 /\ NewerFirst(list, e)
    BY <1>1, <1>2
  <2>4. \A e \in DOMAIN saved' : e <= presEra' /\ NewerFirst(list', e)
    BY <1>1, <2>1, <2>2, <2>3
  <2>5. presEra' < curEra' /\ presEra' \in DOMAIN saved' /\ presEra' # 0
    BY <1>1, <2>1
  <2> QED BY <1>0, <2>4, <2>5 DEF SnapInv
<1>9. CASE ReleaseSnapshots
  <2>1. pres' = <<>> /\ presEra' = 0 /\ saved' = <<>> BY <1>9 DEF ReleaseSnapshots
  <2>2. DOMAIN saved' = {} BY <2>1
  <2> QED BY <1>0, <2>1, <2>2 DEF SnapInv
<1>10. ASSUME NEW e \in DOMAIN saved, Restore(e) PROVE SnapInv'
  <2>1. PICK failed \in SUBSET CopyFails(e) : Becomes(PutBack(Dropped(e, failed), e))
    BY <1>10 DEF Restore
  <2>2. PICK d : d = Dropped(e, failed) OBVIOUS
  <2>3. d \in States BY <1>1, <2>2, DroppedState DEF Later
  <2>4. pres' = <<>> BY <1>1, <2>1, <2>2, <2>3, PutBackEmpty DEF Becomes
  <2>5. presEra' = 0 /\ DOMAIN saved' = {g \in DOMAIN saved : g < e}
    BY <1>10 DEF Restore
  <2>6. \A g \in DOMAIN saved : e <= g BY <1>10 DEF Restore, Restorable, Oldest
  <2>7. DOMAIN saved' = {} BY <1>1, <2>5, <2>6
  <2> QED BY <1>0, <2>4, <2>5, <2>7 DEF SnapInv
<1>11. ASSUME NEW e \in DOMAIN saved, RestoreFails(e) PROVE SnapInv'
  <2>1. PICK failed \in SUBSET CopyFails(e) : Becomes(Dropped(e, failed))
    BY <1>11 DEF RestoreFails
  <2>2. PICK u : u = Dropped(e, failed) OBVIOUS
  <2>3. u \in Later(State) BY <1>1, <2>2, DroppedState
  <2>4. Becomes(u) /\ UNCHANGED <<presEra, saved>> BY <1>11, <2>1, <2>2 DEF RestoreFails
  <2>5. \A g \in DOMAIN saved : NewerFirst(u.list, g)
    BY <1>1, <1>2, <2>2, DropNewer
  <2>6. presEra > 0 BY <1>2
  <2> QED BY <1>0, <1>1, <2>3, <2>4, <2>5, <2>6, SnapInvCall
<1> QED BY <1>3, <1>4, <1>5, <1>6, <1>7, <1>8, <1>9, <1>10, <1>11 DEF Next

(* The node that a restore takes out by its key is the one it means: those *)
(* changed since the snapshot come first, when only the oldest is restored.*)
THEOREM ChangedFirst ==
    ASSUME Oldest
    PROVE  Spec => []NewestFirst
<1>1. SnapInv => NewestFirst
  <2> SUFFICES ASSUME SnapInv PROVE NewestFirst
    OBVIOUS
  <2>1. list \in Seq(NodeType) BY SnapFacts DEF SnapInv
  <2>2. \A i \in 1 .. Len(list) - 1 :
           i \in 1 .. Len(list) /\ i + 1 \in 1 .. Len(list) /\ i < i + 1
    BY <2>1
  <2> QED BY <2>2 DEF SnapInv, NewestFirst, NewerFirst
<1>2. SnapInv /\ [Next]_vars => SnapInv' BY SnapInvStep
<1> QED BY <1>1, <1>2, SnapInvInit, PTL DEF Spec

-----------------------------------------------------------------------------
(* The list as Versions sees it.                                           *)
LEMMA SameOps ==
    /\ \A l, n : V!Inserted(l, n) = Inserted(l, n)
    /\ \A l, n : V!Updated(l, n) = Updated(l, n)
    /\ \A l, k : V!Removed(l, k) = Removed(l, k)
    /\ \A l, k : V!Matches(l, k) <=> Matches(l, k)
<1>0. \A S : V!Cardinality(S) = Cardinality(S) BY DEF V!Cardinality, Cardinality
<1>1. \A l, k : V!First(l, k) = First(l, k)
  BY <1>0 DEF V!First, V!Pred, First, Pred
<1>2. \A l, n : V!Inserted(l, n) = Inserted(l, n)
  BY <1>1 DEF V!Inserted, Inserted, V!InsertAt, InsertAt
<1>3. \A l, n : V!Updated(l, n) = Updated(l, n) BY <1>1 DEF V!Updated, Updated
<1>4. \A l, k : V!Removed(l, k) = Removed(l, k)
  BY <1>1 DEF V!Removed, Removed, V!RemoveAt, RemoveAt
<1>5. \A l, k : V!Matches(l, k) <=> Matches(l, k) BY DEF V!Matches, Matches
<1> QED BY <1>2, <1>3, <1>4, <1>5

PairType == [key : Keys, val : Vals]
Pair(n) == [key |-> n.key, val |-> n.val]

LEMMA PairKeys == \A x \in PairType : x.key \in Int
BY BoundsAssumption DEF PairType

LEMMA PairIs == \A n \in NodeType : Pair(n) \in PairType /\ Pair(n).key = n.key
BY DEF Pair, PairType, NodeType

LEMMA ContentIs ==
    ASSUME NEW l \in Seq(NodeType), Ascends(l)
    PROVE  /\ Content(l) \in Seq(PairType) /\ Len(Content(l)) = Len(l)
           /\ \A i \in 1 .. Len(l) :
                 Content(l)[i] = Pair(l[i]) /\ Content(l)[i].key = l[i].key
           /\ Ascends(Content(l))
           /\ \A k \in Int : First(Content(l), k) = First(l, k)
           /\ \A k : Matches(Content(l), k) <=> Matches(l, k)
<1> DEFINE c == Content(l)
<1>1. DOMAIN l = 1 .. Len(l) /\ Len(l) \in Nat OBVIOUS
<1>2. c = [i \in 1 .. Len(l) |-> Pair(l[i])] BY <1>1 DEF Content, Pair
<1>3. \A i \in 1 .. Len(l) : l[i] \in NodeType OBVIOUS
<1>4. \A i \in 1 .. Len(l) : Pair(l[i]) \in PairType /\ Pair(l[i]).key = l[i].key
  BY <1>3, PairIs
<1> HIDE DEF c
<1>5. c \in Seq(PairType) /\ Len(c) = Len(l) /\ DOMAIN c = 1 .. Len(l)
  BY <1>1, <1>2, <1>4
<1>6. \A i \in 1 .. Len(l) : c[i] = Pair(l[i]) /\ c[i].key = l[i].key
  BY <1>2, <1>4
<1>7. Ascends(c) BY <1>5, <1>6 DEF Ascends
<1>8. \A k : First(c, k) = First(l, k)
  <2>1. \A k : {i \in DOMAIN c : c[i].key < k} = {i \in DOMAIN l : l[i].key < k}
    BY <1>1, <1>5, <1>6
  <2> QED BY <2>1 DEF First, Pred
<1>9. \A k : Matches(c, k) <=> Matches(l, k) BY <1>1, <1>5, <1>6 DEF Matches
<1> QED BY <1>5, <1>6, <1>7, <1>8, <1>9 DEF c

LEMMA GrownSame ==
    ASSUME NEW S, NEW r \in Seq(S), NEW u \in Seq(S), NEW l \in Seq(S), NEW p, NEW n,
           Grown(r, l, p, n), Grown(u, l, p, n)
    PROVE  r = u
<1>1. /\ Len(r) = Len(l) + 1 /\ Len(u) = Len(l) + 1 /\ p \in 1 .. Len(l) + 1
      /\ r[p] = u[p] /\ Len(l) \in Nat
  BY DEF Grown
<1>2. \A j \in 1 .. Len(l) + 1 : r[j] = u[j]
  <2> TAKE j \in 1 .. Len(l) + 1
  <2>1. j < p => r[j] = u[j] BY DEF Grown
  <2>2. j > p => r[j] = u[j] BY DEF Grown
  <2> QED BY <1>1, <2>1, <2>2
<1> QED BY <1>1, <1>2, Same

LEMMA ShrunkSame ==
    ASSUME NEW S, NEW r \in Seq(S), NEW u \in Seq(S), NEW l \in Seq(S), NEW p,
           Shrunk(r, l, p), Shrunk(u, l, p)
    PROVE  r = u
<1>1. /\ Len(r) = Len(l) - 1 /\ Len(u) = Len(l) - 1 /\ p \in 1 .. Len(l)
      /\ Len(l) \in Nat
  BY DEF Shrunk
<1>2. \A j \in 1 .. Len(l) - 1 : r[j] = u[j]
  <2> TAKE j \in 1 .. Len(l) - 1
  <2>1. j < p => r[j] = u[j] BY DEF Shrunk
  <2>2. j >= p => r[j] = u[j] BY DEF Shrunk
  <2> QED BY <1>1, <2>1, <2>2
<1> QED BY <1>1, <1>2, Same

(* The content of a changed list is the changed content.                   *)
LEMMA ContentInserted ==
    ASSUME NEW l \in Seq(NodeType), Ascends(l), NEW n \in NodeType
    PROVE  Content(Inserted(l, n)) = Inserted(Content(l), Pair(n))
<1> DEFINE r == Inserted(l, n)
           c == Content(l)
           p == First(l, n.key)
<1>1. \A x \in NodeType : x.key \in Int BY NodeKeys
<1>2. r \in Seq(NodeType) /\ Ascends(r) /\ Grown(r, l, p, n)
  BY <1>1, InsertedIs
<1>3. Pair(n) \in PairType /\ Pair(n).key = n.key BY PairIs
<1>4. /\ c \in Seq(PairType) /\ Len(c) = Len(l) /\ Ascends(c)
      /\ \A i \in 1 .. Len(l) : c[i] = Pair(l[i])
      /\ First(c, n.key) = p
  BY <1>1, ContentIs
<1>5. Inserted(c, Pair(n)) \in Seq(PairType) /\ Grown(Inserted(c, Pair(n)), c, p, Pair(n))
  <2>1. /\ Inserted(c, Pair(n)) \in Seq(PairType)
        /\ Grown(Inserted(c, Pair(n)), c, First(c, Pair(n).key), Pair(n))
    <3> HIDE DEF c
    <3> QED BY <1>3, <1>4, PairKeys, InsertedIs
  <2> QED BY <1>3, <1>4, <2>1
<1> HIDE DEF r, p
<1>6. /\ Content(r) \in Seq(PairType) /\ Len(Content(r)) = Len(r)
      /\ \A i \in 1 .. Len(r) : Content(r)[i] = Pair(r[i])
  BY <1>2, ContentIs
<1> HIDE DEF c
<1>7. Grown(Content(r), c, p, Pair(n))
  <2>1. /\ p \in 1 .. Len(l) + 1 /\ Len(r) = Len(l) + 1 /\ r[p] = n /\ Len(l) \in Nat
    BY <1>2 DEF Grown
  <2>2. \A j \in 1 .. Len(l) + 1 : j < p => Content(r)[j] = c[j]
    <3> TAKE j \in 1 .. Len(l) + 1
    <3> HAVE j < p
    <3>1. r[j] = l[j] /\ j \in 1 .. Len(l) BY <1>2, <2>1 DEF Grown
    <3> QED BY <1>4, <1>6, <2>1, <3>1
  <2>3. \A j \in 1 .. Len(l) + 1 : j > p => Content(r)[j] = c[j - 1]
    <3> TAKE j \in 1 .. Len(l) + 1
    <3> HAVE j > p
    <3>1. r[j] = l[j - 1] /\ j - 1 \in 1 .. Len(l) BY <1>2, <2>1 DEF Grown
    <3> QED BY <1>4, <1>6, <2>1, <3>1
  <2> QED BY <1>4, <1>6, <2>1, <2>2, <2>3 DEF Grown
<1> QED BY <1>4, <1>5, <1>6, <1>7, GrownSame DEF r, c

LEMMA ContentRemoved ==
    ASSUME NEW l \in Seq(NodeType), Ascends(l), NEW k \in Keys, Matches(l, k)
    PROVE  Content(Removed(l, k)) = Removed(Content(l), k)
<1> DEFINE r == Removed(l, k)
           c == Content(l)
           p == First(l, k)
<1>1. k \in Int /\ \A x \in NodeType : x.key \in Int BY NodeKeys, BoundsAssumption
<1>2. r \in Seq(NodeType) /\ Ascends(r) /\ Shrunk(r, l, p)
  BY <1>1, RemovedIs
<1>3. /\ c \in Seq(PairType) /\ Len(c) = Len(l) /\ Ascends(c)
      /\ \A i \in 1 .. Len(l) : c[i] = Pair(l[i])
      /\ First(c, k) = p /\ Matches(c, k)
  BY <1>1, ContentIs
<1>4. Removed(c, k) \in Seq(PairType) /\ Shrunk(Removed(c, k), c, p)
  <2>1. Removed(c, k) \in Seq(PairType) /\ Shrunk(Removed(c, k), c, First(c, k))
    <3> HIDE DEF c, p
    <3> QED BY <1>1, <1>3, PairKeys, RemovedIs
  <2> QED BY <1>3, <2>1
<1> HIDE DEF r, p
<1>5. /\ Content(r) \in Seq(PairType) /\ Len(Content(r)) = Len(r)
      /\ \A i \in 1 .. Len(r) : Content(r)[i] = Pair(r[i])
  BY <1>2, ContentIs
<1> HIDE DEF c
<1>6. Shrunk(Content(r), c, p)
  <2>1. p \in 1 .. Len(l) /\ Len(r) = Len(l) - 1 /\ Len(l) \in Nat
    BY <1>2 DEF Shrunk
  <2>2. \A j \in 1 .. Len(l) - 1 : j < p => Content(r)[j] = c[j]
    <3> TAKE j \in 1 .. Len(l) - 1
    <3> HAVE j < p
    <3>1. r[j] = l[j] /\ j \in 1 .. Len(l) BY <1>2, <2>1 DEF Shrunk
    <3> QED BY <1>3, <1>5, <2>1, <3>1
  <2>3. \A j \in 1 .. Len(l) - 1 : j >= p => Content(r)[j] = c[j + 1]
    <3> TAKE j \in 1 .. Len(l) - 1
    <3> HAVE j >= p
    <3>1. r[j] = l[j + 1] /\ j + 1 \in 1 .. Len(l) BY <1>2, <2>1 DEF Shrunk
    <3> QED BY <1>3, <1>5, <2>1, <3>1
  <2> QED BY <1>3, <1>5, <2>1, <2>2, <2>3 DEF Shrunk
<1> QED BY <1>3, <1>4, <1>5, <1>6, ShrunkSame DEF r, c

LEMMA ContentRenewed ==
    ASSUME NEW l \in Seq(NodeType), Ascends(l), NEW n \in NodeType,
           NEW p \in 1 .. Len(l), l[p].key = n.key
    PROVE  Content([l EXCEPT ![p] = n]) = [Content(l) EXCEPT ![p] = Pair(n)]
BY DEF Content, Pair

-----------------------------------------------------------------------------
(* K is what is left of c when only the places in I are kept.              *)
Picks(f, K, c, I) ==
    /\ \A i, j \in 1 .. Len(K) : i < j => f[i] < f[j]
    /\ \A x \in I : \E j \in 1 .. Len(K) : f[j] = x
    /\ \A j \in 1 .. Len(K) : K[j] = c[f[j]]
Part(K, c, I) == \E f \in [1 .. Len(K) -> I] : Picks(f, K, c, I)

LEMMA PartSame ==
    ASSUME NEW c, NEW I \in SUBSET Int, NEW T, NEW U,
           NEW K \in Seq(T), NEW M \in Seq(U), Part(K, c, I), Part(M, c, I)
    PROVE  K = M
<1> SUFFICES ASSUME NEW k \in Seq(T \cup U), NEW m \in Seq(T \cup U),
                    Part(k, c, I), Part(m, c, I)
             PROVE  Len(k) <= Len(m) /\ \A j \in 1 .. Len(k) : k[j] = m[j]
  <2>1. K \in Seq(T \cup U) /\ M \in Seq(T \cup U) OBVIOUS
  <2>2. Len(K) <= Len(M) /\ Len(M) <= Len(K) /\ \A j \in 1 .. Len(K) : K[j] = M[j]
    BY <2>1
  <2>3. Len(K) = Len(M)
    <3>1. Len(K) \in Nat /\ Len(M) \in Nat OBVIOUS
    <3> QED BY <2>2, <3>1
  <2> QED BY <2>2, <2>3, Same
<1>1. PICK f \in [1 .. Len(k) -> I] : Picks(f, k, c, I) BY DEF Part
<1>2. PICK g \in [1 .. Len(m) -> I] : Picks(g, m, c, I) BY DEF Part
<1>3. /\ Len(k) \in Nat /\ Len(m) \in Nat /\ \A x \in I : x \in Int
      /\ \A j \in 1 .. Len(k) : f[j] \in Int
      /\ \A j \in 1 .. Len(m) : g[j] \in Int
  <2>0. Len(k) \in Nat /\ Len(m) \in Nat /\ \A x \in I : x \in Int OBVIOUS
  <2>1. \A j \in 1 .. Len(k) : f[j] \in I BY <1>1
  <2>2. \A j \in 1 .. Len(m) : g[j] \in I BY <1>2
  <2>3. \A j \in 1 .. Len(k) : f[j] \in Int BY <2>0, <2>1, Zenon
  <2>4. \A j \in 1 .. Len(m) : g[j] \in Int BY <2>0, <2>2, Zenon
  <2> QED BY <2>0, <2>3, <2>4
<1> DEFINE N == Len(k)
           A == {n \in 0 .. N : n <= Len(m) /\ \A j \in 1 .. n : f[j] = g[j]}
<1>4. 0 \in A BY <1>3
<1>5. ASSUME NEW n \in 0 .. N - 1, n \in A PROVE n + 1 \in A
  <2>0. n + 1 \in 1 .. N /\ n \in Nat BY <1>3
  <2>1. f[n + 1] \in I BY <1>1, <2>0
  <2>2. PICK x \in 1 .. Len(m) : g[x] = f[n + 1] BY <1>2, <2>1 DEF Picks
  <2>3. ~ (x <= n)
    <3>1. SUFFICES ASSUME x <= n PROVE FALSE
      OBVIOUS
    <3>2. x \in 1 .. n /\ x \in 1 .. N /\ x < n + 1 BY <2>0, <3>1
    <3>3. f[x] = g[x] BY <1>5, <3>2
    <3>4. f[x] < f[n + 1] BY <1>1, <2>0, <3>2 DEF Picks
    <3>5. f[x] = f[n + 1] BY <2>2, <3>3
    <3>6. f[x] \in Int BY <1>3, <3>2
    <3> QED BY <3>4, <3>5, <3>6
  <2>4. n + 1 <= x /\ n + 1 \in 1 .. Len(m) BY <1>3, <2>0, <2>2, <2>3
  <2>5. g[n + 1] \in I BY <1>2, <2>4
  <2>6. g[n + 1] <= f[n + 1]
    <3>0. g[n + 1] \in Int /\ g[x] \in Int BY <1>3, <2>2, <2>4
    <3>1. CASE n + 1 = x BY <2>2, <3>0, <3>1
    <3>2. CASE n + 1 < x
      <4>1. g[n + 1] < g[x] BY <1>2, <2>4, <3>2 DEF Picks
      <4> QED BY <2>2, <3>0, <4>1
    <3>3. n + 1 = x \/ n + 1 < x BY <2>0, <2>2, <2>4
    <3> QED BY <3>1, <3>2, <3>3
  <2>7. PICK y \in 1 .. N : f[y] = g[n + 1] BY <1>1, <2>5 DEF Picks
  <2>8. ~ (y <= n)
    <3>1. SUFFICES ASSUME y <= n PROVE FALSE
      OBVIOUS
    <3>2. y \in 1 .. n /\ y \in 1 .. Len(m) /\ y < n + 1
      BY <1>3, <2>0, <2>4, <3>1
    <3>3. f[y] = g[y] BY <1>5, <3>2
    <3>4. g[y] < g[n + 1] BY <1>2, <2>4, <3>2 DEF Picks
    <3>5. g[y] = g[n + 1] BY <2>7, <3>3
    <3>6. g[y] \in Int BY <1>3, <3>2
    <3> QED BY <3>4, <3>5, <3>6
  <2>9. f[n + 1] <= g[n + 1]
    <3>0. f[n + 1] \in Int /\ f[y] \in Int BY <1>3, <2>0, <2>7
    <3>1. CASE n + 1 = y BY <2>7, <3>0, <3>1
    <3>2. CASE n + 1 < y
      <4>1. f[n + 1] < f[y] BY <1>1, <2>0, <3>2 DEF Picks
      <4> QED BY <2>7, <3>0, <4>1
    <3>3. n + 1 = y \/ n + 1 < y BY <1>3, <2>0, <2>7, <2>8
    <3> QED BY <3>1, <3>2, <3>3
  <2>10. f[n + 1] = g[n + 1]
    <3>1. f[n + 1] \in Int /\ g[n + 1] \in Int BY <1>3, <2>0, <2>4
    <3> QED BY <2>6, <2>9, <3>1
  <2>11. \A j \in 1 .. n + 1 : j \in 1 .. n \/ j = n + 1 BY <2>0
  <2>12. \A j \in 1 .. n + 1 : f[j] = g[j] BY <1>5, <2>10, <2>11
  <2>13. n + 1 \in 0 .. N /\ n + 1 <= Len(m) BY <1>3, <2>0, <2>4
  <2> QED BY <2>12, <2>13
<1>6. N \in A
  <2>1. \A n \in 0 .. N : n \in A
    <3> HIDE DEF A, N
    <3>1. N \in Nat BY <1>3 DEF N
    <3> QED BY <1>4, <1>5, <3>1, UpTo
  <2>2. N \in 0 .. N BY <1>3
  <2> HIDE DEF A, N
  <2> QED BY <2>1, <2>2
<1>7. N <= Len(m) /\ \A j \in 1 .. N : f[j] = g[j] BY <1>6
<1>8. ASSUME NEW j \in 1 .. N PROVE k[j] = m[j]
  <2>1. j \in 1 .. Len(m) BY <1>3, <1>7
  <2>2. k[j] = c[f[j]] BY <1>1 DEF Picks
  <2>3. m[j] = c[g[j]] BY <1>2, <2>1 DEF Picks
  <2>4. f[j] = g[j] BY <1>7
  <2> QED BY <2>2, <2>3, <2>4, Zenon
<1> QED BY <1>7, <1>8

LEMMA PartShorter ==
    ASSUME NEW n \in Nat, NEW c, NEW I \in SUBSET (1 .. n), NEW T,
           NEW K \in Seq(T), Part(K, c, I)
    PROVE  Len(K) <= n
<1>1. PICK f \in [1 .. Len(K) -> I] : Picks(f, K, c, I) BY DEF Part
<1>2. Len(K) \in Nat OBVIOUS
<1>3. \A j \in 1 .. Len(K) : f[j] \in Int /\ 1 <= f[j] /\ f[j] <= n
  <2>1. \A j \in 1 .. Len(K) : f[j] \in I BY <1>1
  <2>2. \A x \in I : x \in Int /\ 1 <= x /\ x <= n OBVIOUS
  <2> QED BY <2>1, <2>2, Zenon
<1> DEFINE N == Len(K)
           A == {i \in 0 .. N : i > 0 => i <= f[i]}
<1>4. 0 \in A BY <1>2
<1>5. ASSUME NEW i \in 0 .. N - 1, i \in A PROVE i + 1 \in A
  <2>1. i + 1 \in 1 .. N /\ i + 1 \in 0 .. N /\ i \in Nat BY <1>2
  <2>2. f[i + 1] \in Int /\ 1 <= f[i + 1] BY <1>3, <2>1
  <2>3. CASE i = 0 BY <2>1, <2>2, <2>3
  <2>4. CASE i # 0
    <3>1. i \in 1 .. N /\ i < i + 1 BY <1>2, <2>1, <2>4
    <3>2. i <= f[i] BY <1>5, <3>1
    <3>3. f[i] < f[i + 1] BY <1>1, <2>1, <3>1 DEF Picks
    <3>4. f[i] \in Int BY <1>3, <3>1
    <3> QED BY <2>1, <2>2, <3>2, <3>3, <3>4
  <2> QED BY <2>3, <2>4
<1>6. \A i \in 0 .. N : i \in A
  <2> HIDE DEF A, N
  <2>1. N \in Nat BY <1>2 DEF N
  <2> QED BY <1>4, <1>5, <2>1, UpTo
<1>7. CASE N = 0 BY <1>7
<1>8. CASE N # 0
  <2>1. N \in 1 .. N /\ N \in 0 .. N /\ N > 0 BY <1>2, <1>8
  <2>2. N <= f[N] BY <1>6, <2>1
  <2>3. f[N] \in Int /\ f[N] <= n BY <1>3, <2>1
  <2> QED BY <1>2, <2>2, <2>3
<1> QED BY <1>7, <1>8

(* The kept places move with their nodes.                                  *)
LEMMA PartMoves ==
    ASSUME NEW K, NEW c, NEW d, NEW I \in SUBSET Int, NEW J \in SUBSET Int,
           Part(K, c, I), NEW h \in [I -> J],
           \A x, y \in I : x < y => h[x] < h[y],
           \A y \in J : \E x \in I : h[x] = y,
           \A x \in I : d[h[x]] = c[x]
    PROVE  Part(K, d, J)
<1>1. PICK f \in [1 .. Len(K) -> I] : Picks(f, K, c, I) BY DEF Part
<1> DEFINE g == [j \in 1 .. Len(K) |-> h[f[j]]]
<1>2. g \in [1 .. Len(K) -> J] /\ \A j \in 1 .. Len(K) : f[j] \in I /\ g[j] = h[f[j]]
  BY <1>1
<1> HIDE DEF g
<1>3. Picks(g, K, d, J)
  <2>1. ASSUME NEW i \in 1 .. Len(K), NEW j \in 1 .. Len(K), i < j PROVE g[i] < g[j]
    <3>1. f[i] < f[j] BY <1>1, <2>1, Zenon DEF Picks
    <3>2. f[i] \in I /\ f[j] \in I /\ g[i] = h[f[i]] /\ g[j] = h[f[j]] BY <1>2, Zenon
    <3>3. h[f[i]] < h[f[j]] BY <3>1, <3>2, Zenon
    <3> QED BY <3>2, <3>3, Zenon
  <2>2. ASSUME NEW y \in J PROVE \E j \in 1 .. Len(K) : g[j] = y
    <3>1. PICK x \in I : h[x] = y OBVIOUS
    <3>2. PICK j \in 1 .. Len(K) : f[j] = x BY <1>1 DEF Picks
    <3> QED BY <1>2, <3>1, <3>2
  <2>3. ASSUME NEW j \in 1 .. Len(K) PROVE K[j] = d[g[j]]
    <3>1. K[j] = c[f[j]] BY <1>1, Zenon DEF Picks
    <3>2. f[j] \in I /\ g[j] = h[f[j]] BY <1>2, Zenon
    <3>3. d[h[f[j]]] = c[f[j]] BY <3>2, Zenon
    <3> QED BY <3>1, <3>2, <3>3, Zenon
  <2> QED BY <2>1, <2>2, <2>3 DEF Picks
<1> QED BY <1>2, <1>3 DEF Part

(* One kept place less.                                                    *)
Less(K, c, I, p, q) ==
    /\ K[q] = c[p] /\ Part(RemoveAt(K, q), c, I \ {p})
    /\ \A j \in 1 .. Len(K) :
          \E x \in I : K[j] = c[x] /\ (j < q => x < p) /\ (j > q => x > p)

LEMMA PartLess ==
    ASSUME NEW S, NEW K \in Seq(S), NEW c, NEW I \in SUBSET Int, Part(K, c, I),
           NEW p \in I
    PROVE  \E q \in 1 .. Len(K) : Less(K, c, I, p, q)
<1>1. PICK f \in [1 .. Len(K) -> I] : Picks(f, K, c, I) BY DEF Part
<1>2. PICK q \in 1 .. Len(K) : f[q] = p BY <1>1 DEF Picks
<1>3. Len(K) \in Nat /\ \A j \in 1 .. Len(K) : f[j] \in I /\ f[j] \in Int
  <2>1. \A j \in 1 .. Len(K) : f[j] \in I BY <1>1
  <2>2. \A x \in I : x \in Int OBVIOUS
  <2>3. \A j \in 1 .. Len(K) : f[j] \in Int BY <2>1, <2>2, Zenon
  <2> QED BY <2>1, <2>3
<1>4. \A j \in 1 .. Len(K) : (j < q => f[j] < p) /\ (j > q => f[j] > p)
  BY <1>1, <1>2 DEF Picks
<1> DEFINE R == RemoveAt(K, q)
           at(j) == IF j < q THEN j ELSE j + 1
           g == [j \in 1 .. Len(K) - 1 |-> f[at(j)]]
<1>5. Len(R) = Len(K) - 1 /\ Shrunk(R, K, q)
  <2>1. Shrunk(R, K, q) BY TakeOut
  <2> HIDE DEF R
  <2> QED BY <2>1 DEF Shrunk
<1> HIDE DEF R
<1>6. \A j \in 1 .. Len(K) - 1 : at(j) \in 1 .. Len(K) /\ at(j) # q /\ R[j] = K[at(j)]
  <2> TAKE j \in 1 .. Len(K) - 1
  <2>1. at(j) \in 1 .. Len(K) /\ at(j) # q BY <1>3
  <2>2. (j < q => R[j] = K[j]) /\ (j >= q => R[j] = K[j + 1]) BY <1>5 DEF Shrunk
  <2> QED BY <2>1, <2>2
<1>7. \A i, j \in 1 .. Len(K) - 1 : i < j => at(i) < at(j) BY <1>3
<1>8. \A y \in 1 .. Len(K) : y # q => \E j \in 1 .. Len(K) - 1 : at(j) = y
  <2> TAKE y \in 1 .. Len(K)
  <2> HAVE y # q
  <2>1. CASE y < q
    <3>1. y \in 1 .. Len(K) - 1 /\ at(y) = y BY <1>3, <2>1
    <3> QED BY <3>1
  <2>2. CASE y > q
    <3>1. y - 1 \in 1 .. Len(K) - 1 /\ at(y - 1) = y BY <1>3, <2>2
    <3> QED BY <3>1
  <2> QED BY <1>3, <2>1, <2>2
<1> HIDE DEF at
<1>9. \A j \in 1 .. Len(K) - 1 : f[at(j)] \in I \ {p}
  <2> TAKE j \in 1 .. Len(K) - 1
  <2>1. at(j) \in 1 .. Len(K) /\ at(j) \in Int /\ at(j) # q BY <1>6
  <2>2. at(j) < q \/ at(j) > q BY <2>1
  <2>3. f[at(j)] # p
    <3>1. p \in Int OBVIOUS
    <3> QED BY <1>3, <1>4, <2>1, <2>2, <3>1
  <2> QED BY <1>3, <2>1, <2>3
<1>10. g \in [1 .. Len(R) -> I \ {p}] BY <1>5, <1>9
<1>11. Picks(g, R, c, I \ {p})
  <2>1. \A j \in 1 .. Len(R) : g[j] = f[at(j)] /\ j \in 1 .. Len(K) - 1 BY <1>5
  <2> HIDE DEF g
  <2>2. \A i, j \in 1 .. Len(R) : i < j => g[i] < g[j]
    BY <1>1, <1>6, <1>7, <2>1 DEF Picks
  <2>3. ASSUME NEW x \in I \ {p} PROVE \E j \in 1 .. Len(R) : g[j] = x
    <3>1. PICK y \in 1 .. Len(K) : f[y] = x BY <1>1 DEF Picks
    <3>2. y # q BY <1>2, <3>1
    <3>3. PICK j \in 1 .. Len(K) - 1 : at(j) = y BY <1>8, <3>2
    <3> QED BY <1>5, <2>1, <3>1, <3>3
  <2>4. \A j \in 1 .. Len(R) : R[j] = c[g[j]] BY <1>1, <1>6, <2>1 DEF Picks
  <2> QED BY <2>2, <2>3, <2>4 DEF Picks
<1>12. Part(R, c, I \ {p})
  <2> HIDE DEF g
  <2> QED BY <1>10, <1>11 DEF Part
<1>13. K[q] = c[p] BY <1>1, <1>2 DEF Picks
<1>14. \A j \in 1 .. Len(K) :
          \E x \in I : K[j] = c[x] /\ (j < q => x < p) /\ (j > q => x > p)
  BY <1>1, <1>3, <1>4 DEF Picks
<1>15. Less(K, c, I, p, q) BY <1>12, <1>13, <1>14 DEF R, Less
<1> QED BY <1>15

-----------------------------------------------------------------------------
(* What a restore will build.  The copies, taken back from the newest, are *)
(* a chain of contents; one newer than the era is passed over, any other   *)
(* is put in, and the flag is set whenever the put would need it.          *)
OldAt(l, e) == {i \in 1 .. Len(l) : l[i].era <= e}

Puts(a, b, p, e) ==
    /\ p.node.era > e => b = a
    /\ p.node.era <= e => /\ b = Inserted(a, Pair(p.node))
                          /\ Matches(a, p.node.key) => p.dup

Links(L, K, c, e, T) ==
    /\ L[0] = K /\ L[Len(c)] = T
    /\ \A i \in 1 .. Len(c) : Puts(L[i - 1], L[i], c[i], e)
Chain(K, c, e, T) == \E L \in [0 .. Len(c) -> Seq(PairType)] : Links(L, K, c, e, T)

(* From the nodes not newer than the era, the copies lead to T.            *)
Rebuilds(l, c, e, T) ==
    \E K \in Seq(PairType) : Part(K, Content(l), OldAt(l, e)) /\ Chain(K, c, e, T)

(* A copy in front comes first.                                            *)
LEMMA ChainFront ==
    ASSUME NEW c \in Seq(CopyType), NEW q \in Seq(CopyType), NEW K \in Seq(PairType),
           NEW M \in Seq(PairType), NEW e, NEW T,
           Len(q) = Len(c) + 1, \A i \in 1 .. Len(c) : q[i + 1] = c[i],
           Chain(K, c, e, T), Puts(M, K, q[1], e)
    PROVE  Chain(M, q, e, T)
<1>1. PICK L \in [0 .. Len(c) -> Seq(PairType)] : Links(L, K, c, e, T) BY DEF Chain
<1>2. Len(c) \in Nat /\ Len(q) \in Nat OBVIOUS
<1> DEFINE N == [i \in 0 .. Len(q) |-> IF i = 0 THEN M ELSE L[i - 1]]
<1>3. /\ N \in [0 .. Len(q) -> Seq(PairType)] /\ N[0] = M
      /\ \A i \in 1 .. Len(q) : N[i] = L[i - 1]
  <2>1. \A i \in 0 .. Len(q) : i # 0 => i - 1 \in 0 .. Len(c) BY <1>2
  <2>2. \A i \in 0 .. Len(q) : i # 0 => L[i - 1] \in Seq(PairType) BY <1>1, <2>1
  <2>3. 0 \in 0 .. Len(q) /\ \A i \in 1 .. Len(q) : i \in 0 .. Len(q) /\ i # 0 BY <1>2
  <2> QED BY <2>2, <2>3
<1> HIDE DEF N
<1>4. L[0] = K /\ L[Len(c)] = T BY <1>1 DEF Links
<1>5. N[Len(q)] = T
  <2>1. Len(q) \in 1 .. Len(q) /\ Len(q) - 1 = Len(c) BY <1>2
  <2> QED BY <1>3, <1>4, <2>1
<1>6. ASSUME NEW i \in 1 .. Len(q) PROVE Puts(N[i - 1], N[i], q[i], e)
  <2>1. CASE i = 1
    <3>1. i - 1 = 0 /\ N[1] = L[0] BY <1>3, <2>1
    <3> QED BY <1>3, <1>4, <2>1, <3>1
  <2>2. CASE i # 1
    <3>1. i - 1 \in 1 .. Len(q) /\ i - 1 \in 1 .. Len(c) /\ (i - 1) + 1 = i
      BY <1>2, <2>2
    <3>2. Puts(L[(i - 1) - 1], L[i - 1], c[i - 1], e) BY <1>1, <3>1 DEF Links
    <3>3. q[i] = c[i - 1] BY <3>1
    <3>4. N[i] = L[i - 1] /\ N[i - 1] = L[(i - 1) - 1] BY <1>3, <3>1
    <3> QED BY <3>2, <3>3, <3>4
  <2> QED BY <2>1, <2>2
<1>7. Links(N, M, q, e, T) BY <1>3, <1>5, <1>6 DEF Links
<1> QED BY <1>3, <1>7 DEF Chain

(* A node put in that is newer than the era changes nothing of it.         *)
LEMMA GrownRebuilds ==
    ASSUME NEW l \in Seq(NodeType), NEW r \in Seq(NodeType), NEW p, NEW n \in NodeType,
           Grown(r, l, p, n), NEW e \in Int, n.era > e, NEW c, NEW T,
           Rebuilds(l, c, e, T)
    PROVE  Rebuilds(r, c, e, T)
<1>1. PICK K \in Seq(PairType) : Part(K, Content(l), OldAt(l, e)) /\ Chain(K, c, e, T)
  BY DEF Rebuilds
<1> DEFINE I == OldAt(l, e)
           J == OldAt(r, e)
           h == [i \in I |-> IF i < p THEN i ELSE i + 1]
<1>2. /\ p \in 1 .. Len(l) + 1 /\ Len(r) = Len(l) + 1 /\ r[p] = n
      /\ \A j \in 1 .. Len(l) + 1 : (j < p => r[j] = l[j]) /\ (j > p => r[j] = l[j - 1])
      /\ Len(l) \in Nat /\ p \in Int
  BY DEF Grown
<1>3. I \in SUBSET Int /\ J \in SUBSET Int BY DEF OldAt
<1>4. \A i \in I : i \in 1 .. Len(l) /\ i \in Int /\ l[i].era <= e BY DEF OldAt
<1>5. \A i \in I : (i < p => h[i] = i) /\ (i >= p => h[i] = i + 1) BY <1>2, <1>4
<1>6. ASSUME NEW i \in I
      PROVE  h[i] \in 1 .. Len(r) /\ h[i] \in Int /\ r[h[i]] = l[i]
  <2>1. i \in 1 .. Len(l) /\ i \in Int BY <1>4
  <2>2. CASE i < p
    <3>1. h[i] = i /\ i \in 1 .. Len(l) + 1 BY <1>2, <1>5, <2>1, <2>2
    <3> QED BY <1>2, <2>1, <2>2, <3>1
  <2>3. CASE i >= p
    <3>1. h[i] = i + 1 /\ i + 1 \in 1 .. Len(l) + 1 /\ i + 1 > p /\ (i + 1) - 1 = i
      BY <1>2, <1>5, <2>1, <2>3
    <3>2. r[i + 1] = l[i] BY <1>2, <3>1
    <3> QED BY <1>2, <3>1, <3>2
  <2> QED BY <1>2, <2>1, <2>2, <2>3
<1>7. \A i \in I : h[i] \in J BY <1>4, <1>6 DEF OldAt
<1>8. h \in [I -> J] BY <1>7
<1>9. \A x, y \in I : x < y => h[x] < h[y] BY <1>2, <1>4, <1>5
<1>10. ASSUME NEW y \in J PROVE \E x \in I : h[x] = y
  <2>1. y \in 1 .. Len(r) /\ y \in Int /\ r[y].era <= e BY DEF OldAt
  <2>2. y # p
    <3>1. n.era \in Int BY NodeKeys
    <3> QED BY <1>2, <2>1, <3>1
  <2>3. CASE y < p
    <3>1. y \in 1 .. Len(l) /\ y \in 1 .. Len(l) + 1 BY <1>2, <2>1, <2>3
    <3>2. y \in I BY <1>2, <2>1, <2>3, <3>1 DEF OldAt
    <3> QED BY <1>5, <2>3, <3>2
  <2>4. CASE y > p
    <3>1. y - 1 \in 1 .. Len(l) /\ y \in 1 .. Len(l) + 1 /\ y - 1 >= p /\ (y - 1) + 1 = y
      BY <1>2, <2>1, <2>4
    <3>2. r[y] = l[y - 1] BY <1>2, <2>4, <3>1
    <3>3. y - 1 \in I BY <2>1, <3>1, <3>2 DEF OldAt
    <3>4. h[y - 1] = y BY <1>5, <3>1, <3>3
    <3> QED BY <3>3, <3>4
  <2>5. y < p \/ y > p BY <1>2, <2>1, <2>2
  <2> HIDE DEF h, I
  <2> QED BY <2>3, <2>4, <2>5
<1>11. \A x \in I : Content(r)[h[x]] = Content(l)[x]
  <2> TAKE x \in I
  <2>1. x \in DOMAIN l /\ h[x] \in DOMAIN r BY <1>4, <1>6
  <2> HIDE DEF h, I
  <2>2. r[h[x]] = l[x] BY <1>6
  <2>3. Content(r)[h[x]] = Pair(r[h[x]]) BY <2>1 DEF Content, Pair
  <2>4. Content(l)[x] = Pair(l[x]) BY <2>1 DEF Content, Pair
  <2> QED BY <2>2, <2>3, <2>4
<1>12. Part(K, Content(r), J)
  <2>1. Part(K, Content(l), I) BY <1>1
  <2> HIDE DEF h, I, J
  <2> QED BY <1>3, <1>8, <1>9, <1>10, <1>11, <2>1, PartMoves
<1> QED BY <1>1, <1>12 DEF Rebuilds

(* What a node taken out, or renewed, leaves of the old ones.              *)
LEMMA ShrunkPart ==
    ASSUME NEW l \in Seq(NodeType), NEW r \in Seq(NodeType), NEW p, Shrunk(r, l, p),
           NEW e \in Int, NEW K, Part(K, Content(l), OldAt(l, e) \ {p})
    PROVE  Part(K, Content(r), OldAt(r, e))
<1> DEFINE I == OldAt(l, e) \ {p}
           J == OldAt(r, e)
           h == [i \in I |-> IF i < p THEN i ELSE i - 1]
<1>2. /\ p \in 1 .. Len(l) /\ Len(r) = Len(l) - 1
      /\ \A j \in 1 .. Len(l) - 1 : (j < p => r[j] = l[j]) /\ (j >= p => r[j] = l[j + 1])
      /\ Len(l) \in Nat /\ p \in Int
  BY DEF Shrunk
<1>3. I \in SUBSET Int /\ J \in SUBSET Int BY DEF OldAt
<1>4. \A i \in I : i \in 1 .. Len(l) /\ i \in Int /\ l[i].era <= e /\ i # p BY DEF OldAt
<1>5. \A i \in I : (i < p => h[i] = i) /\ (i > p => h[i] = i - 1) BY <1>2, <1>4
<1>6. ASSUME NEW i \in I
      PROVE  h[i] \in 1 .. Len(r) /\ h[i] \in Int /\ r[h[i]] = l[i]
  <2>1. i \in 1 .. Len(l) /\ i \in Int /\ i # p BY <1>4
  <2>2. CASE i < p
    <3>1. h[i] = i /\ i \in 1 .. Len(l) - 1 BY <1>2, <1>5, <2>1, <2>2
    <3>2. r[i] = l[i] BY <1>2, <2>2, <3>1
    <3> QED BY <1>2, <2>1, <3>1, <3>2
  <2>3. CASE i > p
    <3>1. h[i] = i - 1 /\ i - 1 \in 1 .. Len(l) - 1 /\ i - 1 >= p /\ (i - 1) + 1 = i
      BY <1>2, <1>5, <2>1, <2>3
    <3>2. r[i - 1] = l[i] BY <1>2, <3>1
    <3> QED BY <1>2, <2>1, <3>1, <3>2
  <2>4. i < p \/ i > p BY <1>2, <2>1
  <2> HIDE DEF h, I
  <2> QED BY <2>2, <2>3, <2>4
<1>7. \A i \in I : h[i] \in J BY <1>4, <1>6 DEF OldAt
<1>8. h \in [I -> J] BY <1>7
<1>9. \A x, y \in I : x < y => h[x] < h[y]
  <2> TAKE x, y \in I
  <2> HAVE x < y
  <2>1. x \in Int /\ y \in Int /\ x # p /\ y # p BY <1>4
  <2>2. (x < p => h[x] = x) /\ (x > p => h[x] = x - 1) BY <1>5
  <2>3. (y < p => h[y] = y) /\ (y > p => h[y] = y - 1) BY <1>5
  <2> HIDE DEF h, I
  <2> QED BY <1>2, <2>1, <2>2, <2>3
<1>10. ASSUME NEW y \in J PROVE \E x \in I : h[x] = y
  <2>1. y \in 1 .. Len(r) /\ y \in Int /\ r[y].era <= e BY DEF OldAt
  <2>2. CASE y < p
    <3>1. y \in 1 .. Len(l) /\ y \in 1 .. Len(l) - 1 /\ y # p BY <1>2, <2>1, <2>2
    <3>2. r[y] = l[y] BY <1>2, <2>2, <3>1
    <3>3. y \in I BY <2>1, <3>1, <3>2 DEF OldAt
    <3>4. h[y] = y BY <1>5, <2>2, <3>3
    <3> QED BY <3>3, <3>4
  <2>3. CASE y >= p
    <3>1. y + 1 \in 1 .. Len(l) /\ y \in 1 .. Len(l) - 1 /\ y + 1 > p /\ (y + 1) - 1 = y
          /\ y + 1 # p
      BY <1>2, <2>1, <2>3
    <3>2. r[y] = l[y + 1] BY <1>2, <2>3, <3>1
    <3>3. y + 1 \in I BY <2>1, <3>1, <3>2 DEF OldAt
    <3>4. h[y + 1] = y BY <1>5, <3>1, <3>3
    <3> QED BY <3>3, <3>4
  <2>4. y < p \/ y >= p BY <1>2, <2>1
  <2> HIDE DEF h, I
  <2> QED BY <2>2, <2>3, <2>4
<1>11. \A x \in I : Content(r)[h[x]] = Content(l)[x]
  <2> TAKE x \in I
  <2>1. x \in DOMAIN l /\ h[x] \in DOMAIN r BY <1>4, <1>6
  <2> HIDE DEF h, I
  <2>2. r[h[x]] = l[x] BY <1>6
  <2>3. Content(r)[h[x]] = Pair(r[h[x]]) BY <2>1 DEF Content, Pair
  <2>4. Content(l)[x] = Pair(l[x]) BY <2>1 DEF Content, Pair
  <2> QED BY <2>2, <2>3, <2>4
<1>12. Part(K, Content(l), I) OBVIOUS
<1> HIDE DEF h, I, J
<1>13. Part(K, Content(r), J) BY <1>3, <1>8, <1>9, <1>10, <1>11, <1>12, PartMoves
<1> QED BY <1>13 DEF J

LEMMA RenewedPart ==
    ASSUME NEW l \in Seq(NodeType), NEW r \in Seq(NodeType), NEW p, NEW n \in NodeType,
           Renewed(r, l, p, n), NEW e \in Int, n.era > e,
           NEW K, Part(K, Content(l), OldAt(l, e) \ {p})
    PROVE  Part(K, Content(r), OldAt(r, e))
<1> DEFINE I == OldAt(l, e) \ {p}
           J == OldAt(r, e)
           h == [i \in I |-> i]
<1>1. /\ p \in 1 .. Len(l) /\ Len(r) = Len(l) /\ r[p] = n
      /\ \A i \in 1 .. Len(l) : i # p => r[i] = l[i]
  BY DEF Renewed
<1>2. n.era \in Int BY NodeKeys
<1>3. I \in SUBSET Int /\ J \in SUBSET Int BY DEF OldAt
<1>4. \A i : i \in I <=> i \in 1 .. Len(l) /\ l[i].era <= e /\ i # p BY DEF OldAt
<1>5. \A i : i \in J <=> i \in 1 .. Len(r) /\ r[i].era <= e BY DEF OldAt
<1>6. p \notin J BY <1>1, <1>2, <1>5
<1>7. \A i : i \in I <=> i \in J BY <1>1, <1>4, <1>5, <1>6
<1>8. \A x \in I : Content(r)[x] = Content(l)[x]
  <2> TAKE x \in I
  <2>1. x \in DOMAIN l /\ x \in DOMAIN r /\ r[x] = l[x] BY <1>1, <1>4
  <2> QED BY <2>1 DEF Content
<1>9. \A x \in I : h[x] = x OBVIOUS
<1>10. h \in [I -> J] BY <1>7
<1>12. Part(K, Content(l), I) OBVIOUS
<1> HIDE DEF h, I, J
<1>13. \A x \in I : Content(r)[h[x]] = Content(l)[x] BY <1>8, <1>9
<1>14. \A y \in J : \E x \in I : h[x] = y BY <1>7, <1>9
<1>15. \A x, y \in I : x < y => h[x] < h[y] BY <1>9
<1>16. Part(K, Content(r), J) BY <1>3, <1>10, <1>12, <1>13, <1>14, <1>15, PartMoves
<1> QED BY <1>16 DEF J

(* A part of a list that is in order is in order.                          *)
LEMMA PartAscends ==
    ASSUME NEW S, \A x \in S : x.key \in Int, NEW c \in Seq(S), Ascends(c),
           NEW I \in SUBSET (1 .. Len(c)), NEW K \in Seq(S), Part(K, c, I)
    PROVE  Ascends(K)
<1>1. PICK f \in [1 .. Len(K) -> I] : Picks(f, K, c, I) BY DEF Part
<1>2. SUFFICES ASSUME NEW i \in 1 .. Len(K), NEW j \in 1 .. Len(K), i <= j
               PROVE  K[i].key <= K[j].key
  BY DEF Ascends
<1>3. K[i] = c[f[i]] /\ K[j] = c[f[j]] /\ (i < j => f[i] < f[j]) BY <1>1 DEF Picks
<1>4. f[i] \in 1 .. Len(c) /\ f[j] \in 1 .. Len(c)
  <2>1. f[i] \in I /\ f[j] \in I BY <1>1
  <2>2. \A x \in I : x \in 1 .. Len(c) OBVIOUS
  <2> QED BY <2>1, <2>2, Zenon
<1>5. CASE i = j
  <2>1. K[i] \in S OBVIOUS
  <2>2. K[i].key \in Int BY <2>1
  <2> QED BY <1>5, <2>2
<1>6. CASE i < j
  <2>1. f[i] <= f[j] BY <1>3, <1>4, <1>6
  <2>2. c[f[i]].key <= c[f[j]].key BY <1>4, <2>1 DEF Ascends
  <2> QED BY <1>3, <2>2
<1>7. i = j \/ i < j BY <1>2
<1> QED BY <1>5, <1>6, <1>7

(* The first old node of a key is taken out: to put it back is to insert   *)
(* it, and the flag says whether that needs to pass an equal.              *)
Without(M, K, s, p, e) ==
    /\ Part(M, Content(s.list), OldAt(s.list, e) \ {p})
    /\ K = Inserted(M, Pair(s.list[p]))
    /\ Matches(M, s.list[p].key) => HasTwin(s.list, p)

LEMMA OldTaken ==
    ASSUME NEW s \in States, NEW k \in Keys, NEW p \in 1 .. Len(s.list),
           s.list[p].key = k, \A i \in 1 .. Len(s.list) : s.list[i].key < k <=> i < p,
           NEW e \in Int, s.list[p].era <= e,
           NEW K \in Seq(PairType), Part(K, Content(s.list), OldAt(s.list, e))
    PROVE  \E M \in Seq(PairType) : Without(M, K, s, p, e)
<1> DEFINE l == s.list
           c == Content(l)
           I == OldAt(l, e)
           n == Pair(l[p])
<1>1. l \in Seq(NodeType) /\ Ascends(l) /\ Len(l) \in Nat /\ k \in Int
  BY BoundsAssumption DEF States
<1>2. /\ c \in Seq(PairType) /\ Ascends(c) /\ Len(c) = Len(l)
      /\ \A i \in 1 .. Len(l) : c[i] = Pair(l[i]) /\ c[i].key = l[i].key
  BY <1>1, ContentIs
<1>3. /\ I \in SUBSET Int /\ I \in SUBSET (1 .. Len(c)) /\ p \in I
      /\ \A i \in I : i \in 1 .. Len(l) /\ i \in Int
  BY <1>2 DEF OldAt
<1>4. Part(K, c, I) OBVIOUS
<1>5. n \in PairType /\ n.key = k /\ l[p] \in NodeType
  <2>1. l[p] \in NodeType BY <1>1
  <2> QED BY <2>1, PairIs
<1>6. l[p].key = k /\ \A i \in 1 .. Len(l) : l[i].key < k <=> i < p OBVIOUS
<1>7. Ascends(K)
  <2> HIDE DEF l, c, I, n
  <2> QED BY <1>2, <1>3, <1>4, PairKeys, PartAscends
<1>8. PICK q \in 1 .. Len(K) : Less(K, c, I, p, q)
  <2> HIDE DEF l, c, I, n
  <2> QED BY <1>3, <1>4, PartLess
<1> DEFINE M == RemoveAt(K, q)
<1>9. M \in Seq(PairType) /\ Shrunk(M, K, q) BY TakeOut
<1>10. Part(M, c, I \ {p}) BY <1>8 DEF Less
<1> HIDE DEF l, c, I, n, M
<1>11. Ascends(M) BY <1>7, <1>9, ShrunkAscends
<1>12. /\ Len(K) \in Nat /\ Len(M) \in Nat /\ Len(M) = Len(K) - 1
       /\ \A j \in 1 .. Len(M) : (j < q => M[j] = K[j]) /\ (j >= q => M[j] = K[j + 1])
       /\ q \in 1 .. Len(M) + 1 /\ q \in Int
  BY <1>9 DEF Shrunk
<1>13. ASSUME NEW j \in 1 .. Len(M)
       PROVE  /\ j < q => M[j].key < k
              /\ j >= q => \E x \in 1 .. Len(l) : x > p /\ l[x].key = M[j].key
  <2>1. CASE j < q
    <3>1. M[j] = K[j] /\ j \in 1 .. Len(K) BY <1>12, <2>1
    <3>2. PICK x \in I : K[j] = c[x] /\ (j < q => x < p) BY <1>8, <3>1 DEF Less
    <3>3. x \in 1 .. Len(l) /\ x < p BY <1>3, <2>1, <3>2
    <3>4. M[j].key = l[x].key BY <1>2, <3>1, <3>2, <3>3
    <3>5. l[x].key < k BY <1>6, <3>3
    <3>6. ~ (j >= q) BY <1>12, <2>1
    <3> QED BY <3>4, <3>5, <3>6
  <2>2. CASE j >= q
    <3>1. M[j] = K[j + 1] /\ j + 1 \in 1 .. Len(K) /\ j + 1 > q BY <1>12, <2>2
    <3>2. PICK x \in I : K[j + 1] = c[x] /\ (j + 1 > q => x > p)
      BY <1>8, <3>1 DEF Less
    <3>3. x \in 1 .. Len(l) /\ x > p BY <1>3, <3>1, <3>2
    <3>4. M[j].key = l[x].key BY <1>2, <3>1, <3>2, <3>3
    <3>5. ~ (j < q) BY <1>12, <2>2
    <3> QED BY <3>3, <3>4, <3>5
  <2>3. j < q \/ j >= q BY <1>12
  <2> QED BY <2>1, <2>2, <2>3
<1>14. \A x \in 1 .. Len(l) : x > p => l[x].key >= k /\ l[x].key \in Int
  <2> TAKE x \in 1 .. Len(l)
  <2> HAVE x > p
  <2>1. l[x] \in NodeType /\ ~ (x < p) BY <1>1
  <2>2. l[x].key \in Int /\ ~ (l[x].key < k) BY <1>6, <2>1, NodeKeys
  <2> QED BY <1>1, <2>2
<1>15. \A j \in 1 .. Len(M) : M[j].key < k <=> j < q
  <2> TAKE j \in 1 .. Len(M)
  <2>1. CASE j < q BY <1>13, <2>1
  <2>2. CASE j >= q
    <3>1. PICK x \in 1 .. Len(l) : x > p /\ l[x].key = M[j].key BY <1>13, <2>2
    <3>2. M[j].key >= k /\ M[j].key \in Int BY <1>14, <3>1
    <3> QED BY <1>1, <1>12, <2>2, <3>2
  <2>3. j < q \/ j >= q BY <1>12
  <2> QED BY <2>1, <2>2, <2>3
<1>16. First(M, k) = q
  BY <1>1, <1>9, <1>11, <1>12, <1>15, PairKeys, FirstUnique
<1>17. K = Inserted(M, n)
  <2>1. Inserted(M, n) \in Seq(PairType) /\ Grown(Inserted(M, n), M, q, n)
    BY <1>5, <1>9, <1>11, <1>16, PairKeys, InsertedIs
  <2>2. Grown(K, M, q, n)
    <3>1. K[q] = n BY <1>2, <1>3, <1>8 DEF n, Less
    <3>2. \A j \in 1 .. Len(M) + 1 :
             (j < q => K[j] = M[j]) /\ (j > q => K[j] = M[j - 1])
      <4> TAKE j \in 1 .. Len(M) + 1
      <4>1. j < q => j \in 1 .. Len(M) BY <1>12
      <4>2. j > q => j - 1 \in 1 .. Len(M) /\ j - 1 >= q /\ (j - 1) + 1 = j BY <1>12
      <4> QED BY <1>12, <4>1, <4>2
    <3> QED BY <1>12, <3>1, <3>2 DEF Grown
  <2> QED BY <1>9, <2>1, <2>2, GrownSame
<1>18. ASSUME Matches(M, k) PROVE HasTwin(l, p)
  <2>1. q <= Len(M) /\ M[q].key = k
    BY <1>1, <1>9, <1>11, <1>16, <1>18, PairKeys, FirstIs
  <2>2. q \in 1 .. Len(M) /\ q >= q BY <1>12, <2>1
  <2>3. PICK x \in 1 .. Len(l) : x > p /\ l[x].key = k BY <1>13, <2>1, <2>2
  <2>4. p + 1 \in 1 .. Len(l) /\ p + 1 <= x /\ p < Len(l) /\ p + 1 > p BY <1>1, <2>3
  <2>5. l[p + 1].key <= k BY <1>1, <2>3, <2>4 DEF Ascends
  <2>6. l[p + 1].key >= k /\ l[p + 1].key \in Int BY <1>14, <2>4
  <2>7. l[p + 1].key = l[p].key BY <1>1, <1>6, <2>5, <2>6
  <2> QED BY <2>4, <2>7 DEF HasTwin
<1>19. Matches(M, s.list[p].key) => HasTwin(s.list, p) BY <1>6, <1>18 DEF l
<1> QED BY <1>9, <1>10, <1>17, <1>19 DEF l, c, I, n, Without

(* The first node of a key is preserved, unless it is new: with the copy   *)
(* in front the others lead to what they led to with the node.             *)
LEMMA Taken ==
    ASSUME NEW s \in States, NEW k \in Keys, NEW p \in 1 .. Len(s.list),
           s.list[p].key = k, \A i \in 1 .. Len(s.list) : s.list[i].key < k <=> i < p,
           presEra \in Nat, NEW e \in Int, e <= presEra,
           NEW T, Rebuilds(s.list, s.pres, e, T)
    PROVE  \E M \in Seq(PairType) :
              /\ Part(M, Content(s.list), OldAt(s.list, e) \ {p})
              /\ Chain(M, Preserved(s, p), e, T)
<1>1. PICK K \in Seq(PairType) :
         Part(K, Content(s.list), OldAt(s.list, e)) /\ Chain(K, s.pres, e, T)
  BY DEF Rebuilds
<1> DEFINE n == s.list[p]
           q == Preserved(s, p)
<1>2. /\ q \in Seq(CopyType)
      /\ ~ Old(n) => q = s.pres
      /\ Old(n) => /\ Len(q) = Len(s.pres) + 1 /\ q[1] = Copy(s, p)
                   /\ \A i \in 1 .. Len(s.pres) : q[i + 1] = s.pres[i]
  BY PreservedIs
<1>3. n \in NodeType /\ n.era \in Int /\ s.pres \in Seq(CopyType)
  <2>1. s.list \in Seq(NodeType) /\ s.pres \in Seq(CopyType) BY DEF States
  <2>2. n \in NodeType BY <2>1
  <2> QED BY <2>1, <2>2, NodeKeys
<1>4. Copy(s, p).node = n /\ Copy(s, p).dup = HasTwin(s.list, p) BY DEF Copy
<1>5. n.key = k OBVIOUS
<1> HIDE DEF n, q
<1>6. CASE n.era > e
  <2>1. OldAt(s.list, e) \ {p} = OldAt(s.list, e)
    <3>1. ~ (s.list[p].era <= e) BY <1>3, <1>6 DEF n
    <3> QED BY <3>1 DEF OldAt
  <2>2. Chain(K, q, e, T)
    <3>1. CASE ~ Old(n) BY <1>1, <1>2, <3>1
    <3>2. CASE Old(n)
      <4>1. Puts(K, K, q[1], e)
        <5>1. q[1].node.era = n.era BY <1>2, <1>4, <3>2
        <5>2. ~ (q[1].node.era <= e) BY <1>3, <1>6, <5>1
        <5> QED BY <5>2 DEF Puts
      <4> QED BY <1>1, <1>2, <1>3, <3>2, <4>1, ChainFront
    <3> QED BY <3>1, <3>2
  <2> QED BY <1>1, <2>1, <2>2 DEF q
<1>7. CASE ~ (n.era > e)
  <2>1. n.era <= e /\ Old(n) BY <1>3, <1>7 DEF Old
  <2>2. PICK M \in Seq(PairType) : Without(M, K, s, p, e)
    <3>1. s.list[p].era <= e BY <2>1 DEF n
    <3> QED BY <1>1, <3>1, OldTaken
  <2>3. Puts(M, K, q[1], e)
    <3>1. q[1].node = n /\ q[1].dup = HasTwin(s.list, p) BY <1>2, <1>4, <2>1
    <3>2. ~ (q[1].node.era > e) BY <1>7, <3>1
    <3> QED BY <1>5, <2>2, <3>1, <3>2 DEF Puts, Without, n
  <2>4. Chain(M, q, e, T) BY <1>1, <1>2, <1>3, <2>1, <2>3, ChainFront
  <2> QED BY <2>2, <2>4 DEF q, Without
<1> QED BY <1>6, <1>7

(* No call under a snapshot changes what a restore of it will build.       *)
LEMMA InsertRebuilds ==
    ASSUME NEW s \in States, NEW n \in NodeType, NEW dup \in BOOLEAN, presEra > 0,
           NEW e \in Int, e < s.cur, NEW T, Rebuilds(s.list, s.pres, e, T)
    PROVE  Rebuilds(InsertIn(s, n, dup).list, InsertIn(s, n, dup).pres, e, T)
<1>1. CASE Matches(s.list, n.key) /\ ~ dup BY <1>1 DEF InsertIn
<1>2. CASE ~ (Matches(s.list, n.key) /\ ~ dup)
  <2> DEFINE m == [n EXCEPT !.era = s.cur]
             u == InsertIn(s, n, dup)
             p == First(s.list, n.key)
  <2>1. /\ m \in NodeType /\ m.era = s.cur
        /\ u.list = Inserted(s.list, m) /\ u.pres = s.pres /\ Grown(u.list, s.list, p, m)
        /\ m.key = n.key
    BY <1>2, InsertUnder
  <2>2. s.list \in Seq(NodeType) /\ Ascends(s.list) /\ s.cur \in Nat BY DEF States
  <2> HIDE DEF m, u, p
  <2>3. u.list \in Seq(NodeType) BY <2>1, <2>2, NodeKeys, InsertedIs
  <2>4. m.era > e BY <2>1, <2>2
  <2>5. Rebuilds(u.list, s.pres, e, T) BY <2>1, <2>2, <2>3, <2>4, GrownRebuilds
  <2> QED BY <2>1, <2>5 DEF u
<1> QED BY <1>1, <1>2

LEMMA RemoveRebuilds ==
    ASSUME NEW s \in States, NEW k \in Keys, presEra \in Nat, presEra > 0,
           NEW e \in Int, e <= presEra, NEW T, Rebuilds(s.list, s.pres, e, T)
    PROVE  Rebuilds(RemoveFrom(s, k).list, RemoveFrom(s, k).pres, e, T)
<1>1. CASE ~ Matches(s.list, k) BY <1>1 DEF RemoveFrom
<1>2. CASE Matches(s.list, k)
  <2> DEFINE u == RemoveFrom(s, k)
             p == First(s.list, k)
  <2>1. /\ u.list \in Seq(NodeType) /\ Shrunk(u.list, s.list, p)
        /\ p \in 1 .. Len(s.list) /\ s.list[p].key = k
        /\ u.pres = Preserved(s, p)
        /\ \A i \in 1 .. Len(s.list) : s.list[i].key < k <=> i < p
    BY <1>2, RemoveUnder
  <2>2. s.list \in Seq(NodeType) BY DEF States
  <2> HIDE DEF u, p
  <2>3. PICK M \in Seq(PairType) :
           /\ Part(M, Content(s.list), OldAt(s.list, e) \ {p})
           /\ Chain(M, Preserved(s, p), e, T)
    BY <2>1, Taken
  <2>4. Part(M, Content(u.list), OldAt(u.list, e)) BY <2>1, <2>2, <2>3, ShrunkPart
  <2>5. Rebuilds(u.list, u.pres, e, T) BY <2>1, <2>3, <2>4 DEF Rebuilds
  <2> QED BY <2>5 DEF u
<1> QED BY <1>1, <1>2

LEMMA UpdateRebuilds ==
    ASSUME NEW s \in States, NEW k \in Keys, NEW v \in Vals, Matches(s.list, k),
           presEra \in Nat, presEra > 0,
           NEW e \in Int, e <= presEra, e < s.cur, NEW T, Rebuilds(s.list, s.pres, e, T)
    PROVE  Rebuilds(UpdateIn(s, k, v).list, UpdateIn(s, k, v).pres, e, T)
<1> DEFINE u == UpdateIn(s, k, v)
           p == First(s.list, k)
           n == [key |-> k, val |-> v, era |-> s.cur + 1]
<1>1. /\ n \in NodeType /\ u.list \in Seq(NodeType)
      /\ Renewed(u.list, s.list, p, n) /\ u.pres = Preserved(s, p)
      /\ \A i \in 1 .. Len(s.list) : s.list[i].key < k <=> i < p
  BY UpdateUnder
<1>2. s.list \in Seq(NodeType) /\ s.cur \in Nat /\ n.era = s.cur + 1 /\ n.key = k
  BY DEF States
<1> HIDE DEF u, p, n
<1>3. p \in 1 .. Len(s.list) /\ s.list[p].key = k BY <1>1, <1>2 DEF Renewed
<1>4. PICK M \in Seq(PairType) :
         /\ Part(M, Content(s.list), OldAt(s.list, e) \ {p})
         /\ Chain(M, Preserved(s, p), e, T)
  BY <1>1, <1>3, Taken
<1>5. n.era > e BY <1>2
<1>6. Part(M, Content(u.list), OldAt(u.list, e)) BY <1>1, <1>2, <1>4, <1>5, RenewedPart
<1>7. Rebuilds(u.list, u.pres, e, T) BY <1>1, <1>4, <1>6 DEF Rebuilds
<1> QED BY <1>7 DEF u

-----------------------------------------------------------------------------
(* The first loop of a restore: what it will build stays the same, and     *)
(* what is left of the list is what is not newer than the era.             *)
LEMMA DropRebuilds ==
    ASSUME State \in States, presEra \in Nat, presEra > 0, NEW e \in Int, e <= presEra,
           NEW failed, NEW T, Rebuilds(list, pres, e, T)
    PROVE  Rebuilds(Dropped(e, failed).list, Dropped(e, failed).pres, e, T)
<1>0. list \in Seq(NodeType) /\ State.list = list /\ State.pres = pres
  BY DEF States, State
<1> DEFINE N == Len(list)
<1>1. PICK f \in [0 .. N -> Later(State)] :
         /\ f[0] = State /\ Dropped(e, failed) = f[N]
         /\ \A i \in 1 .. N : f[i] = DropRound(e, failed, i, f[i - 1])
  <2>1. PICK f \in [0 .. N -> Later(State)] : Drops(f, e, failed) BY DroppedRun
  <2> QED BY <2>1 DEF Drops
<1> DEFINE A == {n \in 0 .. N : Rebuilds(f[n].list, f[n].pres, e, T)}
<1>2. N \in Nat /\ 0 \in A BY <1>0, <1>1
<1>3. ASSUME NEW n \in 0 .. N - 1, n \in A PROVE n + 1 \in A
  <2>1. n + 1 \in 1 .. N /\ (n + 1) - 1 = n /\ n \in 0 .. N BY <1>2
  <2>2. f[n + 1] = DropRound(e, failed, n + 1, f[n]) BY <1>1, <2>1
  <2>3. f[n] \in States BY <1>1, <2>1 DEF Later
  <2>4. list[n + 1].key \in Keys BY <1>0, <2>1, NodeKeys
  <2>5. Rebuilds(f[n].list, f[n].pres, e, T) BY <1>3
  <2> DEFINE u == RemoveFrom(f[n], list[n + 1].key)
  <2>6. Rebuilds(u.list, u.pres, e, T) BY <2>3, <2>4, <2>5, RemoveRebuilds
  <2>7. f[n + 1] = f[n] \/ f[n + 1] = u BY <2>2 DEF DropRound
  <2> HIDE DEF u
  <2>8. Rebuilds(f[n + 1].list, f[n + 1].pres, e, T) BY <2>5, <2>6, <2>7
  <2> QED BY <2>1, <2>8
<1>4. N \in A
  <2>1. \A n \in 0 .. N : n \in A
    <3> HIDE DEF A, N
    <3> QED BY <1>2, <1>3, UpTo
  <2>2. N \in 0 .. N BY <1>2
  <2> HIDE DEF A, N
  <2> QED BY <2>1, <2>2
<1> QED BY <1>1, <1>4

LEMMA PartAll ==
    ASSUME NEW S, NEW K \in Seq(S) PROVE Part(K, K, 1 .. Len(K))
<1> DEFINE f == [j \in 1 .. Len(K) |-> j]
<1>1. f \in [1 .. Len(K) -> 1 .. Len(K)] OBVIOUS
<1>2. \A j \in 1 .. Len(K) : f[j] = j OBVIOUS
<1> HIDE DEF f
<1>3. Picks(f, K, K, 1 .. Len(K)) BY <1>2 DEF Picks
<1> QED BY <1>1, <1>3 DEF Part

(* What is left before round i + 1.                                        *)
Left(e, i) == {j \in 1 .. Len(list) : j > i \/ list[j].era <= e}

(* A round removes the very node it is for.                                *)
LEMMA DropsIt ==
    ASSUME list \in Seq(NodeType), Ascends(list), presEra \in Nat, presEra > 0,
           NEW e \in Int, NewerFirst(list, e),
           NEW i \in 1 .. Len(list), list[i].era > e,
           NEW s \in States, Part(s.list, list, Left(e, i - 1))
    PROVE  Part(RemoveFrom(s, list[i].key).list, list, Left(e, i))
<1> DEFINE I == Left(e, i - 1)
           k == list[i].key
           K == s.list
<1>1. K \in Seq(NodeType) /\ Ascends(K) /\ Len(K) \in Nat BY DEF States
<1>2. list[i] \in NodeType /\ k \in Int /\ k \in Keys /\ list[i].era \in Int
      /\ Len(list) \in Nat
  <2>1. list[i] \in NodeType OBVIOUS
  <2> QED BY <2>1, NodeKeys
<1>3. I \in SUBSET Int /\ i \in I /\ Left(e, i) = I \ {i}
  <2>1. ~ (list[i].era <= e) BY <1>2
  <2>2. \A j \in 1 .. Len(list) : j > i - 1 <=> j > i \/ j = i OBVIOUS
  <2>3. ASSUME NEW j PROVE j \in Left(e, i) <=> j \in I \ {i}
    <3>1. CASE j = i BY <2>1, <3>1 DEF Left
    <3>2. CASE j # i BY <2>2, <3>2 DEF Left
    <3> QED BY <3>1, <3>2
  <2>4. i \in I BY DEF Left
  <2>5. I \in SUBSET Int BY DEF Left
  <2> HIDE DEF I
  <2> QED BY <2>3, <2>4, <2>5
<1>4. \A x \in I : /\ x \in 1 .. Len(list) /\ x \in Int
                   /\ x < i => list[x].era <= e
  BY DEF Left
<1>5. Part(K, list, I) OBVIOUS
<1> HIDE DEF I, K
<1>6. PICK q \in 1 .. Len(K) : Less(K, list, I, i, q) BY <1>1, <1>3, <1>5, PartLess
<1>7. K[q].key = k BY <1>6 DEF Less
<1>8. \A x \in 1 .. Len(list) : list[x] \in NodeType /\ list[x].key \in Int
  <2>1. \A x \in 1 .. Len(list) : list[x] \in NodeType OBVIOUS
  <2> QED BY <2>1, NodeKeys
<1>9. ASSUME NEW j \in 1 .. Len(K) PROVE K[j].key < k <=> j < q
  <2>1. PICK x \in I : K[j] = list[x] /\ (j < q => x < i) /\ (j > q => x > i)
    BY <1>6 DEF Less
  <2>2. x \in 1 .. Len(list) /\ x \in Int /\ (x < i => list[x].era <= e) BY <1>4
  <2>3. CASE j < q
    <3>1. x < i /\ x <= i /\ list[x].era <= e BY <2>1, <2>2, <2>3
    <3>2. list[x].key <= k BY <2>2, <3>1 DEF Ascends
    <3>3. list[x].key # k
      <4>1. SUFFICES ASSUME list[x].key = k PROVE FALSE
        OBVIOUS
      <4>2. list[i].era <= e BY <2>2, <3>1, <4>1 DEF NewerFirst
      <4> QED BY <1>2, <4>2
    <3>4. list[x].key < k BY <1>2, <1>8, <2>2, <3>2, <3>3
    <3> QED BY <2>1, <2>3, <3>4
  <2>4. CASE j = q
    <3>1. ~ (k < k) /\ ~ (q < q) BY <1>1, <1>2
    <3> QED BY <1>7, <2>4, <3>1
  <2>5. CASE j > q
    <3>1. x > i /\ i <= x BY <2>1, <2>2, <2>5
    <3>2. k <= list[x].key BY <2>2, <3>1 DEF Ascends
    <3>3. ~ (list[x].key < k) BY <1>2, <1>8, <2>2, <3>2
    <3>4. ~ (j < q) BY <1>1, <2>5
    <3> QED BY <2>1, <3>3, <3>4
  <2>6. j < q \/ j = q \/ j > q BY <1>1
  <2> QED BY <2>3, <2>4, <2>5, <2>6
<1>10. First(K, k) = q
  <2>1. q \in 1 .. Len(K) + 1 BY <1>1
  <2> HIDE DEF k
  <2> QED BY <1>1, <1>2, <1>9, <2>1, NodeKeys, FirstUnique
<1>11. Matches(K, k)
  <2>1. q \in DOMAIN K BY <1>1
  <2> QED BY <1>7, <2>1 DEF Matches
<1>12. RemoveFrom(s, k).list = RemoveAt(K, q)
  <2>1. RemoveFrom(s, k).list = Removed(s.list, k) BY <1>2, <1>11, RemoveUnder DEF K
  <2> QED BY <1>10, <2>1 DEF Removed, K
<1>13. Part(RemoveAt(K, q), list, I \ {i}) BY <1>6 DEF Less
<1> QED BY <1>3, <1>12, <1>13

(* When every removal of a newer node succeeds, the old nodes are left.    *)
LEMMA DropsAll ==
    ASSUME State \in States, presEra \in Nat, presEra > 0, NEW e \in Int,
           NewerFirst(list, e)
    PROVE  Part(Dropped(e, {}).list, list, OldAt(list, e))
<1>0. list \in Seq(NodeType) /\ State.list = list /\ Ascends(list)
  BY DEF States, State
<1> DEFINE N == Len(list)
<1>1. PICK f \in [0 .. N -> Later(State)] : Drops(f, e, {}) BY DroppedRun
<1>2. /\ f[0] = State /\ Dropped(e, {}) = f[N] /\ N \in Nat
      /\ \A i \in 1 .. N : f[i] = DropRound(e, {}, i, f[i - 1])
  BY <1>0, <1>1 DEF Drops
<1> DEFINE A == {n \in 0 .. N : Part(f[n].list, list, Left(e, n))}
<1>3. 0 \in A
  <2>1. Left(e, 0) = 1 .. N BY <1>2 DEF Left
  <2>2. Part(list, list, 1 .. N) BY <1>0, PartAll
  <2> QED BY <1>0, <1>2, <2>1, <2>2
<1>4. ASSUME NEW n \in 0 .. N - 1, n \in A PROVE n + 1 \in A
  <2>1. n + 1 \in 1 .. N /\ (n + 1) - 1 = n /\ n \in 0 .. N /\ n + 1 \in 0 .. N
    BY <1>2
  <2>2. f[n + 1] = DropRound(e, {}, n + 1, f[n]) BY <1>2, <2>1
  <2>3. f[n] \in States BY <1>1, <2>1 DEF Later
  <2>4. Part(f[n].list, list, Left(e, n)) BY <1>4
  <2>5. list[n + 1].era \in Int
    <3>1. list[n + 1] \in NodeType BY <1>0, <2>1
    <3> QED BY <3>1, NodeKeys
  <2>6. CASE list[n + 1].era <= e
    <3>1. n + 1 \notin Newer(e) BY <2>5, <2>6 DEF Newer
    <3>2. f[n + 1] = f[n] BY <2>2, <3>1 DEF DropRound
    <3>3. Left(e, n + 1) = Left(e, n)
      <4>1. \A j \in 1 .. N : j > n <=> j > n + 1 \/ j = n + 1 BY <1>2, <2>1
      <4> QED BY <2>6, <4>1 DEF Left
    <3> QED BY <2>1, <2>4, <3>2, <3>3
  <2>7. CASE ~ (list[n + 1].era <= e)
    <3>1. list[n + 1].era > e BY <2>5, <2>7
    <3>2. n + 1 \in Newer(e) \ {} BY <1>0, <2>1, <3>1 DEF Newer
    <3>3. f[n + 1] = RemoveFrom(f[n], list[n + 1].key) BY <2>2, <3>2 DEF DropRound
    <3>4. Part(f[n].list, list, Left(e, (n + 1) - 1)) BY <2>1, <2>4
    <3>5. Part(RemoveFrom(f[n], list[n + 1].key).list, list, Left(e, n + 1))
      BY <1>0, <2>1, <2>3, <3>1, <3>4, DropsIt
    <3> QED BY <2>1, <3>3, <3>5
  <2> QED BY <2>6, <2>7
<1>5. N \in A
  <2>1. \A n \in 0 .. N : n \in A
    <3> HIDE DEF A, N
    <3> QED BY <1>2, <1>3, <1>4, UpTo
  <2>2. N \in 0 .. N BY <1>2
  <2> HIDE DEF A, N
  <2> QED BY <2>1, <2>2
<1>6. Left(e, N) = OldAt(list, e)
  <2>1. \A j \in 1 .. N : ~ (j > N) BY <1>2
  <2> QED BY <2>1 DEF Left, OldAt
<1> QED BY <1>2, <1>5, <1>6

LEMMA DropsOnlyNew ==
    ASSUME NEW l \in Seq(NodeType), NEW c \in Seq(NodeType), NEW e,
           Part(c, l, OldAt(l, e))
    PROVE  OldAt(c, e) = 1 .. Len(c)
<1>1. PICK f \in [1 .. Len(c) -> OldAt(l, e)] : Picks(f, c, l, OldAt(l, e)) BY DEF Part
<1>2. ASSUME NEW j \in 1 .. Len(c) PROVE c[j].era <= e
  <2>1. f[j] \in OldAt(l, e) /\ c[j] = l[f[j]] BY <1>1 DEF Picks
  <2> QED BY <2>1 DEF OldAt
<1> QED BY <1>2 DEF OldAt

(* The second loop: from the old nodes, the copies lead to what was to be  *)
(* built.                                                                  *)
LEMMA PutsChain ==
    ASSUME NEW s \in States, presEra \in Nat, NEW e \in Int, NEW T,
           Chain(Content(s.list), s.pres, e, T)
    PROVE  Content(PutBack(s, e).list) = T
<1>0. s.list \in Seq(NodeType) /\ s.pres \in Seq(CopyType) /\ Ascends(s.list)
  BY DEF States
<1> DEFINE N == Len(s.pres)
<1>1. PICK L \in [0 .. N -> Seq(PairType)] : Links(L, Content(s.list), s.pres, e, T)
  BY DEF Chain
<1>2. /\ L[0] = Content(s.list) /\ L[N] = T /\ N \in Nat
      /\ \A i \in 1 .. N : Puts(L[i - 1], L[i], s.pres[i], e)
  BY <1>0, <1>1 DEF Links
<1>3. PICK f \in [0 .. N -> Later(s)] : PutsBack(f, s, e) BY PutBackRun
<1>4. /\ f[0] = [s EXCEPT !.pres = <<>>] /\ PutBack(s, e) = f[N]
      /\ \A i \in 1 .. N : f[i] = PutRound(s, e, i, f[i - 1])
  BY <1>3 DEF PutsBack
<1> DEFINE A == {n \in 0 .. N : Content(f[n].list) = L[n]}
<1>5. 0 \in A
  <2>1. f[0].list = s.list BY <1>4 DEF States
  <2> QED BY <1>2, <2>1
<1>6. ASSUME NEW n \in 0 .. N - 1, n \in A PROVE n + 1 \in A
  <2>1. n + 1 \in 1 .. N /\ (n + 1) - 1 = n /\ n \in 0 .. N /\ n + 1 \in 0 .. N
    BY <1>2
  <2> DEFINE x == f[n]
             m == s.pres[n + 1].node
             d == s.pres[n + 1].dup
  <2>2. f[n + 1] = PutRound(s, e, n + 1, x) BY <1>4, <2>1
  <2>3. x \in States BY <1>3, <2>1 DEF Later
  <2>4. x.list \in Seq(NodeType) /\ Ascends(x.list) /\ x.cur \in Nat
        /\ x = [list |-> x.list, pres |-> x.pres, cur |-> x.cur]
    BY <2>3 DEF States
  <2>5. s.pres[n + 1] \in CopyType BY <1>0, <2>1
  <2>6. m \in NodeType /\ d \in BOOLEAN BY <2>5 DEF CopyType
  <2>7. m.era \in Int /\ m.key \in Int BY <2>6, NodeKeys
  <2>8. Puts(L[n], L[n + 1], s.pres[n + 1], e) BY <1>2, <2>1
  <2>9. Content(x.list) = L[n] BY <1>6
  <2>10. CASE ~ (m.era <= e)
    <3>1. f[n + 1] = x BY <2>2, <2>10 DEF PutRound
    <3>2. m.era > e BY <2>7, <2>10
    <3>3. L[n + 1] = L[n] BY <2>8, <3>2 DEF Puts
    <3> QED BY <2>1, <2>9, <3>1, <3>3
  <2>11. CASE m.era <= e
    <3>1. f[n + 1] = InsertIn(x, m, d) BY <2>2, <2>11 DEF PutRound
    <3>2. L[n + 1] = Inserted(L[n], Pair(m)) /\ (Matches(L[n], m.key) => d)
      BY <2>8, <2>11 DEF Puts
    <3>3. Matches(x.list, m.key) => d
      <4>1. Matches(Content(x.list), m.key) <=> Matches(x.list, m.key)
        BY <2>4, ContentIs
      <4> QED BY <2>9, <3>2, <4>1
    <3> DEFINE w == Stamped(x, m)
    <3>4. w \in NodeType /\ Pair(w) = Pair(m)
      BY <2>4, <2>6 DEF Stamped, NodeType, Pair
    <3> HIDE DEF w, x, m, d
    <3>5. InsertIn(x, m, d).list = Inserted(x.list, w)
      BY <2>4, <3>3 DEF InsertIn, w
    <3>6. Content(Inserted(x.list, w)) = Inserted(L[n], Pair(m))
      BY <2>4, <2>9, <3>4, ContentInserted
    <3>7. Content(f[n + 1].list) = L[n + 1] BY <3>1, <3>2, <3>5, <3>6
    <3> QED BY <2>1, <3>7
  <2> QED BY <2>10, <2>11
<1>7. N \in A
  <2>1. \A n \in 0 .. N : n \in A
    <3> HIDE DEF A, N
    <3> QED BY <1>2, <1>5, <1>6, UpTo
  <2>2. N \in 0 .. N BY <1>2
  <2> HIDE DEF A, N
  <2> QED BY <2>1, <2>2
<1> QED BY <1>2, <1>4, <1>7

(* A restore builds what was to be built.                                  *)
LEMMA RestoreBuilds ==
    ASSUME State \in States, presEra \in Nat, presEra > 0, NEW e \in Int, e <= presEra,
           NewerFirst(list, e), NEW T, Rebuilds(list, pres, e, T)
    PROVE  Content(PutBack(Dropped(e, {}), e).list) = T
<1> DEFINE d == Dropped(e, {})
<1>1. d \in States BY DroppedState DEF Later
<1>2. list \in Seq(NodeType) /\ d.list \in Seq(NodeType) /\ Ascends(d.list)
  <2>1. list \in Seq(NodeType) BY DEF States, State
  <2> QED BY <1>1, <2>1 DEF States
<1>3. OldAt(d.list, e) = 1 .. Len(d.list) BY <1>2, DropsAll, DropsOnlyNew
<1>4. Rebuilds(d.list, d.pres, e, T) BY DropRebuilds
<1> HIDE DEF d
<1>5. PICK K \in Seq(PairType) :
         Part(K, Content(d.list), OldAt(d.list, e)) /\ Chain(K, d.pres, e, T)
  BY <1>4 DEF Rebuilds
<1>6. Content(d.list) \in Seq(PairType) /\ Len(Content(d.list)) = Len(d.list)
  BY <1>2, ContentIs
<1>7. Part(Content(d.list), Content(d.list), 1 .. Len(d.list)) BY <1>6, PartAll
<1>8. K = Content(d.list)
  <2>1. 1 .. Len(d.list) \in SUBSET Int OBVIOUS
  <2> QED BY <1>3, <1>5, <1>6, <1>7, <2>1, PartSame
<1>9. Content(PutBack(d, e).list) = T BY <1>1, <1>5, <1>8, PutsChain
<1> QED BY <1>9 DEF d

-----------------------------------------------------------------------------
(* What a restore of the oldest snapshot would build is its content.       *)
ExactInv ==
    /\ SnapInv
    /\ \A e \in DOMAIN saved :
          (\A f \in DOMAIN saved : e <= f) => Rebuilds(list, pres, e, saved[e])

(* The caller restores only the oldest snapshot and does not release the   *)
(* list under one, and memory does not run out while nodes are removed.    *)
Kept == {"oldest", "keep", "memory"} \subseteq Contract

LEMMA ExactInvInit == Init => ExactInv
<1> SUFFICES ASSUME Init PROVE ExactInv
  OBVIOUS
<1>1. DOMAIN saved = {} BY DEF Init
<1> QED BY <1>1, SnapInvInit DEF ExactInv

LEMMA ExactKeep ==
    ASSUME ExactInv, SnapInv', UNCHANGED saved,
           \A e \in DOMAIN saved :
              Rebuilds(list, pres, e, saved[e]) => Rebuilds(list', pres', e, saved[e])
    PROVE  ExactInv'
<1>1. ASSUME NEW e \in DOMAIN saved', \A f \in DOMAIN saved' : e <= f
      PROVE  Rebuilds(list', pres', e, saved'[e])
  BY <1>1 DEF ExactInv
<1> QED BY <1>1 DEF ExactInv

(* The first snapshot: the whole list is from before it.                   *)
LEMMA FirstBuilds ==
    ASSUME NEW l \in Seq(NodeType), Ascends(l), NEW e \in Int,
           \A i \in 1 .. Len(l) : l[i].era <= e
    PROVE  Rebuilds(l, <<>>, e, Content(l))
<1> DEFINE K == Content(l)
<1>1. K \in Seq(PairType) /\ Len(K) = Len(l) BY ContentIs
<1>2. OldAt(l, e) = 1 .. Len(l) BY DEF OldAt
<1> HIDE DEF K
<1>3. Part(K, K, OldAt(l, e)) BY <1>1, <1>2, PartAll
<1>4. Chain(K, <<>>, e, K)
  <2> DEFINE L == [i \in 0 .. 0 |-> K]
  <2>1. Len(<<>>) = 0 OBVIOUS
  <2>2. L \in [0 .. Len(<<>>) -> Seq(PairType)] BY <1>1, <2>1
  <2>3. L[0] = K OBVIOUS
  <2> HIDE DEF L
  <2>4. Links(L, K, <<>>, e, K) BY <2>1, <2>3 DEF Links
  <2> QED BY <2>2, <2>4 DEF Chain
<1> QED BY <1>1, <1>3, <1>4 DEF Rebuilds, K

LEMMA ExactInvStep == ASSUME Kept, ExactInv, [Next]_vars PROVE ExactInv'
<1>0. SnapInv /\ SnapType /\ SnapInv'
  <2>1. Oldest BY DEF Kept, Oldest
  <2> QED BY <2>1, SnapInvStep DEF ExactInv, SnapInv
<1>1. /\ State \in States /\ presEra \in Nat /\ curEra \in Nat
      /\ State.list = list /\ State.pres = pres /\ State.cur = curEra
      /\ list \in Seq(NodeType) /\ Ascends(list)
      /\ \A i \in 1 .. Len(list) : list[i].era <= curEra
  BY <1>0, SnapFacts DEF States
<1>2. \A e \in DOMAIN saved : e \in Int /\ presEra > 0 /\ e <= presEra /\ e < curEra
  <2>1. \A e \in DOMAIN saved : e \in Nat /\ e > 0 BY <1>0, SnapFacts
  <2> QED BY <1>0, <1>1, <2>1 DEF SnapInv
<1>3. CASE UNCHANGED vars BY <1>0, <1>3, ExactKeep DEF vars
<1>4. ASSUME NEW k \in Keys, NEW v \in Vals, NEW dup \in BOOLEAN, Insert(k, v, dup)
      PROVE  ExactInv'
  <2>1. PICK n \in NodeType : n = [key |-> k, val |-> v, era |-> 0]
    BY DEF NodeType
  <2>2. PICK u : u = InsertIn(State, n, dup) OBVIOUS
  <2>3. list' = u.list /\ pres' = u.pres /\ saved' = saved
    BY <1>4, <2>1, <2>2 DEF Insert, Becomes
  <2>4. \A e \in DOMAIN saved :
           Rebuilds(list, pres, e, saved[e]) => Rebuilds(u.list, u.pres, e, saved[e])
    <3> TAKE e \in DOMAIN saved
    <3> HAVE Rebuilds(list, pres, e, saved[e])
    <3> QED BY <1>1, <1>2, <2>2, InsertRebuilds
  <2> QED BY <1>0, <2>3, <2>4, ExactKeep
<1>5. ASSUME NEW k \in Keys, NEW v \in Vals, Update(k, v) PROVE ExactInv'
  <2>1. PICK u : u = UpdateIn(State, k, v) OBVIOUS
  <2>2. Matches(list, k) /\ list' = u.list /\ pres' = u.pres /\ saved' = saved
    BY <1>5, <2>1 DEF Update, Becomes
  <2>3. \A e \in DOMAIN saved :
           Rebuilds(list, pres, e, saved[e]) => Rebuilds(u.list, u.pres, e, saved[e])
    <3> TAKE e \in DOMAIN saved
    <3> HAVE Rebuilds(list, pres, e, saved[e])
    <3> QED BY <1>1, <1>2, <2>1, <2>2, UpdateRebuilds
  <2> QED BY <1>0, <2>2, <2>3, ExactKeep
<1>6. ASSUME NEW k \in Keys, Delete(k) PROVE ExactInv'
  <2>1. PICK u : u = RemoveFrom(State, k) OBVIOUS
  <2>2. list' = u.list /\ pres' = u.pres /\ saved' = saved
    BY <1>6, <2>1 DEF Delete, Becomes
  <2>3. \A e \in DOMAIN saved :
           Rebuilds(list, pres, e, saved[e]) => Rebuilds(u.list, u.pres, e, saved[e])
    <3> TAKE e \in DOMAIN saved
    <3> HAVE Rebuilds(list, pres, e, saved[e])
    <3> QED BY <1>1, <1>2, <2>1, RemoveRebuilds
  <2> QED BY <1>0, <2>2, <2>3, ExactKeep
<1>7. CASE Release
  <2>1. presEra = 0 /\ saved' = saved BY <1>7 DEF Release, Kept
  <2>2. \A e \in DOMAIN saved : FALSE BY <1>1, <1>2, <2>1
  <2> QED BY <1>0, <2>1, <2>2, ExactKeep
<1>8. CASE Snapshot
  <2> DEFINE p == curEra + 1
  <2>1. /\ list' = list /\ pres' = pres /\ DOMAIN saved' = DOMAIN saved \cup {p}
        /\ saved'[p] = Content(list)
        /\ \A e \in DOMAIN saved : e # p => saved'[e] = saved[e]
    BY <1>8 DEF Snapshot
  <2>2. p \in Int /\ \A e \in DOMAIN saved : e < p BY <1>1, <1>2
  <2>3. ASSUME NEW e \in DOMAIN saved', \A f \in DOMAIN saved' : e <= f
        PROVE  Rebuilds(list', pres', e, saved'[e])
    <3>1. CASE e \in DOMAIN saved
      <4>1. \A f \in DOMAIN saved : e <= f BY <2>1, <2>3
      <4>2. e # p BY <2>2, <3>1
      <4>3. saved'[e] = saved[e] BY <2>1, <3>1, <4>2
      <4> QED BY <2>1, <3>1, <4>1, <4>3 DEF ExactInv
    <3>2. CASE e \notin DOMAIN saved
      <4>1. e = p BY <2>1, <3>2
      <4>2. DOMAIN saved = {}
        <5>1. \A f \in DOMAIN saved : e <= f /\ f < e /\ f \in Int /\ e \in Int
          BY <1>2, <2>1, <2>2, <2>3, <4>1
        <5>2. \A f \in DOMAIN saved : FALSE BY <5>1
        <5> QED BY <5>2
      <4>3. pres = <<>> BY <1>0, <1>1, <4>2 DEF SnapInv
      <4>4. \A i \in 1 .. Len(list) : list[i].era <= p
        <5>1. \A i \in 1 .. Len(list) : list[i] \in NodeType BY <1>1
        <5> QED BY <1>1, <5>1, NodeKeys
      <4>5. Rebuilds(list, <<>>, p, Content(list)) BY <1>1, <2>2, <4>4, FirstBuilds
      <4> QED BY <2>1, <4>1, <4>3, <4>5
    <3> QED BY <3>1, <3>2
  <2> QED BY <1>0, <2>3 DEF ExactInv
<1>9. CASE ReleaseSnapshots
  <2>1. saved' = <<>> BY <1>9 DEF ReleaseSnapshots
  <2>2. DOMAIN saved' = {} BY <2>1
  <2> QED BY <1>0, <2>2 DEF ExactInv
<1>10. ASSUME NEW e \in DOMAIN saved, Restore(e) PROVE ExactInv'
  <2>1. DOMAIN saved' = {g \in DOMAIN saved : g < e} BY <1>10 DEF Restore
  <2>2. \A g \in DOMAIN saved : e <= g BY <1>10 DEF Restore, Restorable, Kept
  <2>3. DOMAIN saved' = {} BY <1>2, <2>1, <2>2
  <2> QED BY <1>0, <2>3 DEF ExactInv
<1>11. ASSUME NEW e \in DOMAIN saved, RestoreFails(e) PROVE ExactInv'
  <2>1. PICK failed \in SUBSET CopyFails(e) : Becomes(Dropped(e, failed))
    BY <1>11 DEF RestoreFails
  <2>2. PICK u : u = Dropped(e, failed) OBVIOUS
  <2>3. list' = u.list /\ pres' = u.pres /\ saved' = saved
    BY <1>11, <2>1, <2>2 DEF RestoreFails, Becomes
  <2>4. \A g \in DOMAIN saved : e <= g BY <1>11 DEF RestoreFails, Restorable, Kept
  <2>5. \A g \in DOMAIN saved : (\A f \in DOMAIN saved : g <= f) => g = e
    <3> TAKE g \in DOMAIN saved
    <3> HAVE \A f \in DOMAIN saved : g <= f
    <3>1. g <= e /\ e <= g /\ g \in Int /\ e \in Int BY <1>2, <2>4
    <3> QED BY <3>1
  <2>6. Rebuilds(list, pres, e, saved[e]) BY <2>4 DEF ExactInv
  <2>7. Rebuilds(u.list, u.pres, e, saved[e])
    <3>1. e \in Int /\ presEra > 0 /\ e <= presEra BY <1>2
    <3> QED BY <1>1, <2>2, <2>6, <3>1, DropRebuilds
  <2>8. ASSUME NEW g \in DOMAIN saved', \A f \in DOMAIN saved' : g <= f
        PROVE  Rebuilds(list', pres', g, saved'[g])
    <3>1. g = e BY <2>3, <2>5, <2>8
    <3> QED BY <2>3, <2>7, <3>1
  <2> QED BY <1>0, <2>8 DEF ExactInv
<1> QED BY <1>3, <1>4, <1>5, <1>6, <1>7, <1>8, <1>9, <1>10, <1>11 DEF Next

-----------------------------------------------------------------------------
(* The steps, as Versions sees them.                                       *)
LEMMA UpdateContent ==
    ASSUME NEW s \in States, NEW k \in Keys, NEW v \in Vals, Matches(s.list, k),
           presEra \in Nat
    PROVE  Content(UpdateIn(s, k, v).list)
              = Updated(Content(s.list), [key |-> k, val |-> v])
<1> DEFINE p == First(s.list, k)
           c == Content(s.list)
           u == UpdateIn(s, k, v)
           x == [key |-> k, val |-> v]
           n == [key |-> k, val |-> v, era |-> IF presEra > 0 THEN s.cur + 1
                                                ELSE s.list[p].era]
<1>1. /\ s.list \in Seq(NodeType) /\ s.cur \in Nat /\ Ascends(s.list)
      /\ s = [list |-> s.list, pres |-> s.pres, cur |-> s.cur]
  BY DEF States
<1>2. k \in Int /\ \A y \in NodeType : y.key \in Int BY NodeKeys, BoundsAssumption
<1>3. p \in 1 .. Len(s.list) /\ s.list[p].key = k BY <1>1, <1>2, FirstIs
<1>4. s.list[p] \in NodeType BY <1>1, <1>3
<1>5. First(c, k) = p BY <1>1, <1>2, ContentIs
<1>6. u.list = [s.list EXCEPT ![p] = n]
  <2>1. CASE presEra > 0 BY <2>1, UpdateUnder
  <2>2. CASE ~ (presEra > 0)
    <3> HIDE DEF p
    <3>1. n = [s.list[p] EXCEPT !.val = v] BY <1>3, <1>4, <2>2 DEF NodeType
    <3> HIDE DEF n
    <3>2. [s.list EXCEPT ![p].val = v] = [s.list EXCEPT ![p] = n]
      BY <1>1, <1>3, <3>1
    <3>3. u = [s EXCEPT !.list = [s.list EXCEPT ![p] = n]]
      BY <1>1, <2>2, <3>2 DEF UpdateIn, p
    <3> HIDE DEF u
    <3> QED BY <1>1, <3>3
  <2> QED BY <2>1, <2>2
<1>7. n \in NodeType /\ n.key = k /\ Pair(n) = x
  <2>1. s.list[p].era \in Nat BY <1>4, NodeKeys
  <2> HIDE DEF p
  <2> QED BY <1>1, <2>1 DEF NodeType, Pair
<1> HIDE DEF p, n
<1>8. Content([s.list EXCEPT ![p] = n]) = [c EXCEPT ![p] = Pair(n)]
  BY <1>1, <1>3, <1>7, ContentRenewed
<1>9. Updated(c, x) = [c EXCEPT ![p] = x]
  <2>1. x.key = k OBVIOUS
  <2> HIDE DEF c, x
  <2> QED BY <1>5, <2>1 DEF Updated
<1> QED BY <1>6, <1>7, <1>8, <1>9

(* Nodes that are gone and no others changed: a call that failed.          *)
LEMMA FailPart ==
    ASSUME list \in Seq(NodeType), Ascends(list),
           list' \in Seq(NodeType), Ascends(list'),
           NEW I \in SUBSET (1 .. Len(list)), Part(Content(list'), Content(list), I),
           restored' = 0, UNCHANGED saved
    PROVE  V!Fail
<1> DEFINE c == Content(list)
           K == Content(list')
<1>1. c \in Seq(PairType) /\ K \in Seq(PairType) /\ Len(c) = Len(list)
  BY ContentIs
<1> HIDE DEF c, K
<1>2. PICK f \in [1 .. Len(K) -> I] : Picks(f, K, c, I) BY DEF Part, c, K
<1>3. Len(K) \in Nat /\ Len(c) \in Nat /\ DOMAIN c = 1 .. Len(c) BY <1>1
<1>4. Len(K) \in 0 .. Len(c)
  <2>1. Part(K, c, I) BY DEF c, K
  <2>2. Len(K) <= Len(c) BY <1>1, <1>3, <2>1, PartShorter
  <2> QED BY <1>3, <2>2
<1>5. f \in [1 .. Len(K) -> DOMAIN c] BY <1>1, <1>2, <1>3
<1>6. \A i, j \in 1 .. Len(K) : i < j => f[i] < f[j] BY <1>2 DEF Picks
<1>7. K = [i \in 1 .. Len(K) |-> c[f[i]]]
  <2>1. \A j \in 1 .. Len(K) : K[j] = c[f[j]] BY <1>2 DEF Picks
  <2>2. K = [i \in 1 .. Len(K) |-> K[i]] BY <1>1
  <2> QED BY <2>1, <2>2
<1>8. \E n \in 0 .. Len(c) : \E kept \in [1 .. n -> DOMAIN c] :
         /\ \A i, j \in 1 .. n : i < j => kept[i] < kept[j]
         /\ K = [i \in 1 .. n |-> c[kept[i]]]
  BY <1>4, <1>5, <1>6, <1>7
<1> QED BY <1>8 DEF V!Fail, c, K

LEMMA FailIdle ==
    ASSUME list \in Seq(NodeType), Ascends(list), UNCHANGED <<list, saved>>,
           restored' = 0
    PROVE  V!Fail
<1> DEFINE c == Content(list)
<1>1. c \in Seq(PairType) /\ Len(c) = Len(list) BY ContentIs
<1> HIDE DEF c
<1>2. Part(c, c, 1 .. Len(list)) BY <1>1, PartAll
<1>3. Content(list') = c BY DEF c
<1>4. list' \in Seq(NodeType) /\ Ascends(list') OBVIOUS
<1>5. 1 .. Len(list) \in SUBSET (1 .. Len(list)) OBVIOUS
<1>6. Part(Content(list'), Content(list), 1 .. Len(list)) BY <1>2, <1>3 DEF c
<1> QED BY <1>4, <1>5, <1>6, FailPart

LEMMA InsertVersions ==
    ASSUME SnapType, NEW k \in Keys, NEW v \in Vals, NEW dup \in BOOLEAN,
           Insert(k, v, dup)
    PROVE  V!Next
<1>1. /\ State \in States /\ list \in Seq(NodeType) /\ Ascends(list)
      /\ State.list = list /\ curEra \in Nat /\ State.cur = curEra
  BY SnapFacts DEF States
<1> DEFINE n == [key |-> k, val |-> v, era |-> 0]
           x == [key |-> k, val |-> v]
<1>2. /\ list' = InsertIn(State, n, dup).list /\ restored' = 0 /\ saved' = saved
  BY DEF Insert, Becomes
<1>3. CASE Matches(list, k) /\ ~ dup
  <2>1. list' = list BY <1>1, <1>2, <1>3 DEF InsertIn
  <2> QED BY <1>1, <1>2, <2>1, FailIdle DEF V!Next
<1>4. CASE ~ (Matches(list, k) /\ ~ dup)
  <2> DEFINE m == Stamped(State, n)
  <2>1. m \in NodeType /\ Pair(m) = x BY <1>1 DEF Stamped, NodeType, Pair
  <2>2. list' = Inserted(list, m)
    <3>1. n.key = k OBVIOUS
    <3> HIDE DEF n
    <3>2. InsertIn(State, n, dup).list = Inserted(State.list, m)
      BY <1>1, <1>4, <3>1 DEF InsertIn, States
    <3> QED BY <1>1, <1>2, <3>2
  <2> HIDE DEF m, n
  <2>3. Content(list') = Inserted(Content(list), x)
    BY <1>1, <2>1, <2>2, ContentInserted
  <2>4. Content(list') = V!Inserted(Content(list), x) BY <2>3, SameOps
  <2>5. V!Put BY <2>4 DEF V!Put
  <2> QED BY <1>2, <2>5 DEF V!Next, V!Change
<1> QED BY <1>3, <1>4

LEMMA UpdateVersions ==
    ASSUME SnapType, NEW k \in Keys, NEW v \in Vals, Update(k, v) PROVE V!Next
<1>1. /\ State \in States /\ list \in Seq(NodeType) /\ Ascends(list)
      /\ State.list = list /\ presEra \in Nat
  BY SnapFacts DEF States
<1> DEFINE x == [key |-> k, val |-> v]
<1>2. /\ list' = UpdateIn(State, k, v).list /\ restored' = 0 /\ saved' = saved
      /\ Matches(list, k)
  BY DEF Update, Becomes
<1>3. Content(list') = Updated(Content(list), x) BY <1>1, <1>2, UpdateContent
<1>4. Matches(Content(list), k) BY <1>1, <1>2, ContentIs
<1>5. Content(list') = V!Updated(Content(list), x) BY <1>3, SameOps
<1>6. V!Matches(Content(list), k) BY <1>4, SameOps
<1>7. V!Set BY <1>5, <1>6 DEF V!Set
<1> QED BY <1>2, <1>7 DEF V!Next, V!Change

LEMMA DeleteVersions ==
    ASSUME SnapType, NEW k \in Keys, Delete(k) PROVE V!Next
<1>1. /\ State \in States /\ list \in Seq(NodeType) /\ Ascends(list)
      /\ State.list = list
  BY SnapFacts DEF States
<1>2. list' = RemoveFrom(State, k).list /\ restored' = 0 /\ saved' = saved
  BY DEF Delete, Becomes
<1>3. CASE ~ Matches(list, k)
  <2>1. list' = list BY <1>1, <1>2, <1>3 DEF RemoveFrom
  <2> QED BY <1>1, <1>2, <2>1, FailIdle DEF V!Next
<1>4. CASE Matches(list, k)
  <2>1. list' = Removed(list, k) BY <1>1, <1>2, <1>4 DEF RemoveFrom
  <2>2. Content(list') = Removed(Content(list), k)
    BY <1>1, <1>4, <2>1, ContentRemoved
  <2>3. Matches(Content(list), k) BY <1>1, <1>4, ContentIs
  <2>4. Content(list') = V!Removed(Content(list), k) BY <2>2, SameOps
  <2>5. V!Matches(Content(list), k) BY <2>3, SameOps
  <2>6. V!Del BY <2>4, <2>5 DEF V!Del
  <2> QED BY <1>2, <2>6 DEF V!Next, V!Change
<1> QED BY <1>3, <1>4

LEMMA PartContent ==
    ASSUME NEW l \in Seq(NodeType), Ascends(l), NEW r \in Seq(NodeType), Ascends(r),
           NEW I \in SUBSET (1 .. Len(l)), Part(r, l, I)
    PROVE  Part(Content(r), Content(l), I)
<1> DEFINE c == Content(l)
           K == Content(r)
<1>1. /\ Len(K) = Len(r) /\ \A j \in 1 .. Len(r) : K[j] = Pair(r[j])
      /\ \A j \in 1 .. Len(l) : c[j] = Pair(l[j])
  BY ContentIs
<1> HIDE DEF c, K
<1>2. PICK f \in [1 .. Len(r) -> I] : Picks(f, r, l, I) BY DEF Part
<1>3. ASSUME NEW j \in 1 .. Len(K) PROVE K[j] = c[f[j]]
  <2>1. f[j] \in 1 .. Len(l)
    <3>1. f[j] \in I BY <1>1, <1>2
    <3>2. \A x \in I : x \in 1 .. Len(l) OBVIOUS
    <3> QED BY <3>1, <3>2, Zenon
  <2>2. r[j] = l[f[j]] /\ j \in 1 .. Len(r) BY <1>1, <1>2 DEF Picks
  <2> QED BY <1>1, <2>1, <2>2
<1>4. Picks(f, K, c, I) BY <1>1, <1>2, <1>3 DEF Picks
<1>5. Part(K, c, I) BY <1>1, <1>2, <1>4 DEF Part
<1> QED BY <1>5 DEF c, K

LEMMA SnapshotVersions ==
    ASSUME SnapInv, Snapshot PROVE V!Next
<1>1. SnapType BY DEF SnapInv
<1>2. curEra \in Nat /\ presEra \in Nat /\ \A f \in DOMAIN saved : f \in Nat /\ f > 0
  BY <1>1, SnapFacts
<1> DEFINE e == curEra + 1
<1>3. /\ list' = list /\ restored' = 0 /\ e + 1 <= MaxEra
      /\ saved' = [f \in DOMAIN saved \cup {e} |-> IF f = e THEN Content(list) ELSE saved[f]]
  BY <1>2 DEF Snapshot
<1>4. e \in 1 .. MaxEra BY <1>2, <1>3, BoundsAssumption
<1>5. \A f \in DOMAIN saved : f < e
  <2>1. \A f \in DOMAIN saved : f <= presEra BY DEF SnapInv
  <2>2. presEra <= curEra BY <1>1 DEF SnapType
  <2> QED BY <1>2, <2>1, <2>2
<1>6. Content(list') = Content(list) BY <1>3
<1> HIDE DEF e
<1>7. V!Take BY <1>3, <1>4, <1>5, <1>6 DEF V!Take
<1> QED BY <1>7 DEF V!Next

LEMMA RestoreVersions ==
    ASSUME Kept, ExactInv, NEW e \in DOMAIN saved, Restore(e) PROVE V!Next
<1>1. SnapInv /\ SnapType BY DEF ExactInv, SnapInv
<1>2. State \in States /\ presEra \in Nat /\ e \in Nat /\ e > 0 BY <1>1, SnapFacts
<1>3. e <= presEra /\ NewerFirst(list, e) BY <1>1 DEF SnapInv
<1>4. e \in Int /\ presEra > 0 BY <1>2, <1>3
<1>5. Rebuilds(list, pres, e, saved[e])
  <2>1. \A f \in DOMAIN saved : e <= f BY DEF Restore, Restorable, Kept
  <2> QED BY <2>1 DEF ExactInv
<1>6. Content(PutBack(Dropped(e, {}), e).list) = saved[e]
  BY <1>2, <1>3, <1>4, <1>5, RestoreBuilds
<1>7. CopyFails(e) = {} BY DEF CopyFails, Kept
<1>8. list' = PutBack(Dropped(e, {}), e).list
  <2>1. PICK failed \in SUBSET CopyFails(e) : Becomes(PutBack(Dropped(e, failed), e))
    BY DEF Restore
  <2>2. failed = {} BY <1>7, <2>1
  <2> QED BY <2>1, <2>2 DEF Becomes
<1>9. Content(list') = saved[e] BY <1>6, <1>8
<1>10. /\ saved' = [f \in {g \in DOMAIN saved : g < e} |-> saved[f]]
       /\ restored' = e
  BY DEF Restore
<1>11. V!Restore BY <1>9, <1>10 DEF V!Restore
<1> QED BY <1>11 DEF V!Next

LEMMA RestoreFailsVersions ==
    ASSUME Kept, ExactInv, NEW e \in DOMAIN saved, RestoreFails(e) PROVE V!Next
<1>1. SnapInv /\ SnapType BY DEF ExactInv, SnapInv
<1>2. /\ State \in States /\ presEra \in Nat /\ e \in Nat /\ e > 0
      /\ list \in Seq(NodeType) /\ Ascends(list)
  BY <1>1, SnapFacts DEF States
<1>3. e <= presEra /\ NewerFirst(list, e) BY <1>1 DEF SnapInv
<1>4. e \in Int /\ presEra > 0 BY <1>2, <1>3
<1>5. CopyFails(e) = {} BY DEF CopyFails, Kept
<1>6. PICK d : d = Dropped(e, {}) OBVIOUS
<1>7. list' = d.list /\ restored' = 0 /\ saved' = saved
  <2>1. PICK failed \in SUBSET CopyFails(e) : Becomes(Dropped(e, failed))
    BY DEF RestoreFails
  <2>2. failed = {} BY <1>5, <2>1
  <2> QED BY <1>6, <2>1, <2>2 DEF RestoreFails, Becomes
<1>8. d \in States BY <1>2, <1>6, DroppedState DEF Later
<1>9. d.list \in Seq(NodeType) /\ Ascends(d.list) BY <1>8 DEF States
<1>10. Part(d.list, list, OldAt(list, e)) BY <1>2, <1>3, <1>4, <1>6, DropsAll
<1>11. OldAt(list, e) \in SUBSET (1 .. Len(list)) BY DEF OldAt
<1>12. Part(Content(d.list), Content(list), OldAt(list, e))
  BY <1>2, <1>9, <1>10, <1>11, PartContent
<1>13. V!Fail BY <1>2, <1>7, <1>9, <1>11, <1>12, FailPart
<1> QED BY <1>13 DEF V!Next

LEMMA VersionsInit == Init => V!Init
<1>1. Content(<<>>) = <<>> BY DEF Content
<1> QED BY <1>1 DEF Init, V!Init

LEMMA VersionsStep ==
    ASSUME Kept, ExactInv, [Next]_vars
    PROVE  [V!Next]_<<Content(list), saved, restored>>
<1>1. SnapInv /\ SnapType BY DEF ExactInv, SnapInv
<1>2. CASE UNCHANGED vars BY <1>2 DEF vars
<1>3. ASSUME NEW k \in Keys, NEW v \in Vals, NEW dup \in BOOLEAN, Insert(k, v, dup)
      PROVE  V!Next
  BY <1>1, <1>3, InsertVersions
<1>4. ASSUME NEW k \in Keys, NEW v \in Vals, Update(k, v) PROVE V!Next
  BY <1>1, <1>4, UpdateVersions
<1>5. ASSUME NEW k \in Keys, Delete(k) PROVE V!Next
  BY <1>1, <1>5, DeleteVersions
<1>6. CASE Release
  <2>1. list' = <<>> /\ restored' = 0 /\ saved' = saved BY <1>6 DEF Release
  <2>2. Content(list') = <<>> BY <2>1 DEF Content
  <2> QED BY <2>1, <2>2 DEF V!Next, V!Change, V!Clear
<1>7. CASE Snapshot BY <1>1, <1>7, SnapshotVersions
<1>8. CASE ReleaseSnapshots
  <2>1. list' = list /\ restored' = 0 /\ saved' = <<>> BY <1>8 DEF ReleaseSnapshots
  <2>2. Content(list') = Content(list) BY <2>1
  <2> QED BY <2>1, <2>2 DEF V!Next, V!Forget
<1>9. ASSUME NEW e \in DOMAIN saved, Restore(e) PROVE V!Next
  BY <1>9, RestoreVersions
<1>10. ASSUME NEW e \in DOMAIN saved, RestoreFails(e) PROVE V!Next
  BY <1>10, RestoreFailsVersions
<1> QED BY <1>2, <1>3, <1>4, <1>5, <1>6, <1>7, <1>8, <1>9, <1>10 DEF Next

(* As long as the caller keeps to the oldest snapshot, does not release    *)
(* the list under one, and memory lasts for the copies a restore makes,    *)
(* snapshots keep what Versions promises: after whatever inserts, removals,*)
(* updates and failed restores, a restore brings back the content the list *)
(* had when the snapshot was taken, equal keys in their old order.         *)
THEOREM RestoresExactly ==
    ASSUME Kept
    PROVE  Spec => Exact
<1>1. ExactInv /\ [Next]_vars => ExactInv' BY ExactInvStep
<1>2. ExactInv /\ [Next]_vars => [V!Next]_<<Content(list), saved, restored>>
  BY VersionsStep
<1> QED BY <1>1, <1>2, ExactInvInit, VersionsInit, PTL DEF Spec, Exact, V!Spec

-----------------------------------------------------------------------------
(* The archive.                                                            *)
LEMMA LeastIs ==
    ASSUME NEW N \in Nat, NEW S \in SUBSET (1 .. N), S # {}
    PROVE  Min(S) \in S /\ \A y \in S : Min(S) <= y
<1>1. \E x \in S : \A y \in S : x <= y
  <2> SUFFICES ASSUME \A x \in S : \E y \in S : ~ (x <= y) PROVE FALSE
    OBVIOUS
  <2> DEFINE A == {n \in 0 .. N : \A x \in 1 .. n : x \notin S}
  <2>1. 0 \in A OBVIOUS
  <2>2. ASSUME NEW n \in 0 .. N - 1, n \in A PROVE n + 1 \in A
    <3>1. n + 1 \notin S
      <4>1. SUFFICES ASSUME n + 1 \in S PROVE FALSE
        OBVIOUS
      <4>2. PICK y \in S : ~ (n + 1 <= y) BY <4>1
      <4>3. y \in 1 .. n BY <4>2
      <4> QED BY <2>2, <4>3
    <3>2. \A x \in 1 .. n + 1 : x = n + 1 \/ x \in 1 .. n OBVIOUS
    <3> QED BY <2>2, <3>1, <3>2
  <2>3. N \in A
    <3>1. \A n \in 0 .. N : n \in A
      <4> HIDE DEF A
      <4> QED BY <2>1, <2>2, UpTo
    <3> HIDE DEF A
    <3> QED BY <3>1
  <2> QED BY <2>3
<1> QED BY <1>1 DEF Min

(* What a save writes.                                                     *)
Record(x) == [ok |-> TRUE, node |-> x]

LEMMA SaveIs ==
    ASSUME NEW c \in Seq(PairType)
    PROVE  /\ DOMAIN Save(c) = 1 .. 3 + 2 * Len(c) /\ Len(Save(c)) = 3 + 2 * Len(c)
           /\ Save(c) = [i \in 1 .. 3 + 2 * Len(c) |-> Save(c)[i]]
           /\ Save(c)[1] = "SKPL" /\ Save(c)[2] = 1 /\ Save(c)[3] = Len(c)
           /\ \A n \in 1 .. Len(c) :
                 /\ 2 + 2 * n \in 1 .. 3 + 2 * Len(c) /\ 3 + 2 * n \in 1 .. 3 + 2 * Len(c)
                 /\ Save(c)[2 + 2 * n] = "fit" /\ Save(c)[3 + 2 * n] = Record(c[n])
<1> DEFINE N == Len(c)
           S == {"SKPL", 1, N, "fit"} \cup [ok : BOOLEAN, node : PairType]
           a == <<"SKPL", 1, N>>
           b == [i \in 1 .. 2 * N |-> IF i % 2 = 1 THEN "fit" ELSE Record(c[i \div 2])]
<1>0. N \in Nat OBVIOUS
<1>1. \A i \in 1 .. 2 * N : i % 2 # 1 => i \div 2 \in 1 .. N BY <1>0
<1>2. \A n \in 1 .. N : Record(c[n]) \in S
  <2>1. \A n \in 1 .. N : c[n] \in PairType OBVIOUS
  <2> QED BY <2>1 DEF Record
<1>3. a \in Seq(S) /\ Len(a) = 3 /\ a[1] = "SKPL" /\ a[2] = 1 /\ a[3] = N OBVIOUS
<1>4. \A i \in 1 .. 2 * N : b[i] \in S
  <2> TAKE i \in 1 .. 2 * N
  <2>1. CASE i % 2 = 1 BY <2>1
  <2>2. CASE i % 2 # 1
    <3>1. b[i] = Record(c[i \div 2]) BY <2>2
    <3>2. i \div 2 \in 1 .. N BY <1>1, <2>2
    <3> HIDE DEF b, S, N
    <3> QED BY <1>2, <3>1, <3>2
  <2> QED BY <2>1, <2>2
<1>5. b \in Seq(S) /\ Len(b) = 2 * N
  <2>1. b = [i \in 1 .. 2 * N |-> b[i]] OBVIOUS
  <2>2. 2 * N \in Nat BY <1>0
  <2> HIDE DEF b, S
  <2> QED BY <1>4, <2>1, <2>2
<1>6. ASSUME NEW n \in 1 .. N
      PROVE  /\ 2 * n - 1 \in 1 .. 2 * N /\ 2 * n \in 1 .. 2 * N
             /\ b[2 * n - 1] = "fit" /\ b[2 * n] = Record(c[n])
  <2>1. /\ 2 * n - 1 \in 1 .. 2 * N /\ 2 * n \in 1 .. 2 * N
        /\ (2 * n - 1) % 2 = 1 /\ (2 * n) % 2 # 1 /\ (2 * n) \div 2 = n
    BY <1>0
  <2> QED BY <2>1
<1>7. Save(c) = a \o b BY DEF Save, Record
<1> HIDE DEF a, b, S
<1>8. /\ a \o b \in Seq(S) /\ Len(a \o b) = 3 + 2 * N
      /\ \A j \in 1 .. 3 + 2 * N : (a \o b)[j] = IF j <= 3 THEN a[j] ELSE b[j - 3]
  <2>1. /\ a \o b \in Seq(S) /\ Len(a \o b) = Len(a) + Len(b)
        /\ \A j \in 1 .. Len(a) + Len(b) :
              (a \o b)[j] = IF j <= Len(a) THEN a[j] ELSE b[j - Len(a)]
    <3>1. a \in Seq(S) /\ b \in Seq(S) BY <1>3, <1>5
    <3> QED BY <3>1, Joined
  <2>2. Len(a) + Len(b) = 3 + 2 * N /\ Len(a) = 3 BY <1>3, <1>5
  <2> QED BY <2>1, <2>2
<1>9. ASSUME NEW n \in 1 .. N
      PROVE  /\ 2 + 2 * n \in 1 .. 3 + 2 * N /\ 3 + 2 * n \in 1 .. 3 + 2 * N
             /\ (a \o b)[2 + 2 * n] = "fit" /\ (a \o b)[3 + 2 * n] = Record(c[n])
  <2>1. /\ 2 + 2 * n \in 1 .. 3 + 2 * N /\ 3 + 2 * n \in 1 .. 3 + 2 * N
        /\ ~ (2 + 2 * n <= 3) /\ ~ (3 + 2 * n <= 3)
        /\ (2 + 2 * n) - 3 = 2 * n - 1 /\ (3 + 2 * n) - 3 = 2 * n
    BY <1>0
  <2>2. (a \o b)[2 + 2 * n] = b[2 * n - 1] BY <1>8, <2>1
  <2>3. (a \o b)[3 + 2 * n] = b[2 * n] BY <1>8, <2>1
  <2> QED BY <1>6, <2>1, <2>2, <2>3
<1>10. (a \o b)[1] = "SKPL" /\ (a \o b)[2] = 1 /\ (a \o b)[3] = N
  <2>1. 1 \in 1 .. 3 + 2 * N /\ 2 \in 1 .. 3 + 2 * N /\ 3 \in 1 .. 3 + 2 * N BY <1>0
  <2> QED BY <1>3, <1>8, <2>1
<1>11. DOMAIN (a \o b) = 1 .. 3 + 2 * N
       /\ (a \o b) = [i \in 1 .. 3 + 2 * N |-> (a \o b)[i]]
  <2> DEFINE x == a \o b
  <2>1. x \in Seq(S) /\ Len(x) = 3 + 2 * N BY <1>8
  <2> HIDE DEF x
  <2>2. DOMAIN x = 1 .. Len(x) /\ x = [i \in 1 .. Len(x) |-> x[i]] BY <2>1
  <2>3. DOMAIN x = 1 .. 3 + 2 * N /\ x = [i \in 1 .. 3 + 2 * N |-> x[i]]
    BY <2>1, <2>2, Zenon
  <2> QED BY <2>3 DEF x
<1> QED BY <1>7, <1>8, <1>9, <1>10, <1>11

(* The first nodes of a list.                                              *)
LEMMA PrefixIs ==
    ASSUME NEW c \in Seq(PairType), NEW k \in 0 .. Len(c)
    PROVE  /\ SubSeq(c, 1, k) \in Seq(PairType) /\ Len(SubSeq(c, 1, k)) = k
           /\ \A i \in 1 .. k : SubSeq(c, 1, k)[i] = c[i]
           /\ IsPrefix(SubSeq(c, 1, k), c)
<1> DEFINE p == SubSeq(c, 1, k)
<1>1. p \in Seq(PairType) /\ Len(p) = k /\ \A i \in 1 .. k : p[i] = c[i] OBVIOUS
<1>2. SubSeq(p, 1, k) = p
  <2> HIDE DEF p
  <2>1. SubSeq(p, 1, k) \in Seq(PairType) /\ Len(SubSeq(p, 1, k)) = k
        /\ \A i \in 1 .. k : SubSeq(p, 1, k)[i] = p[i]
    BY <1>1
  <2> QED BY <1>1, <2>1, Same
<1>3. Len(c) \in Nat OBVIOUS
<1> QED BY <1>1, <1>2, <1>3 DEF IsPrefix

(* A node whose key no node before it has goes to the end.                 *)
Fresh(c, n) == ~ Matches(SubSeq(c, 1, n - 1), c[n].key)

LEMMA LoadsNext ==
    ASSUME NEW c \in Seq(PairType), Ascends(c), NEW n \in 1 .. Len(c), Fresh(c, n)
    PROVE  Inserted(SubSeq(c, 1, n - 1), c[n]) = SubSeq(c, 1, n)
<1> DEFINE p == SubSeq(c, 1, n - 1)
           q == SubSeq(c, 1, n)
           x == c[n]
<1>0. n - 1 \in 0 .. Len(c) /\ n \in 0 .. Len(c) /\ Len(c) \in Nat OBVIOUS
<1>1. p \in Seq(PairType) /\ Len(p) = n - 1 /\ \A i \in 1 .. n - 1 : p[i] = c[i]
  BY <1>0, PrefixIs
<1>2. q \in Seq(PairType) /\ Len(q) = n /\ \A i \in 1 .. n : q[i] = c[i]
  BY <1>0, PrefixIs
<1>3. ~ Matches(p, x.key) BY DEF Fresh
<1>4. x \in PairType /\ x.key \in Int
  <2>1. x \in PairType OBVIOUS
  <2> QED BY <2>1, PairKeys
<1> HIDE DEF p, q
<1>5. \A i \in 1 .. n - 1 : i \in 1 .. Len(c) /\ i <= n /\ n \in 1 .. Len(c) BY <1>0
<1>6. Ascends(p)
  <2>1. \A i, j \in 1 .. n - 1 : i <= j => c[i].key <= c[j].key
    BY <1>5 DEF Ascends
  <2> QED BY <1>1, <2>1 DEF Ascends
<1>7. \A i \in 1 .. n - 1 : p[i].key < x.key
  <2> TAKE i \in 1 .. n - 1
  <2>1. c[i].key <= x.key BY <1>5 DEF Ascends
  <2>2. p[i].key # x.key
    <3>1. i \in DOMAIN p BY <1>1
    <3> QED BY <1>3, <3>1 DEF Matches
  <2>3. c[i] \in PairType BY <1>5
  <2>4. p[i] = c[i] /\ c[i].key \in Int BY <1>1, <2>3, PairKeys
  <2> HIDE DEF x
  <2> QED BY <1>4, <2>1, <2>2, <2>4
<1> HIDE DEF x
<1>8. First(p, x.key) = n
  <2>1. n \in 1 .. Len(p) + 1 BY <1>1
  <2>2. \A i \in 1 .. Len(p) : p[i].key < x.key <=> i < n BY <1>1, <1>7
  <2> QED BY <1>1, <1>4, <1>6, <2>1, <2>2, PairKeys, FirstUnique
<1>9. Inserted(p, x) \in Seq(PairType) /\ Grown(Inserted(p, x), p, n, x)
  BY <1>1, <1>4, <1>6, <1>8, PairKeys, InsertedIs
<1>10. Grown(q, p, n, x)
  <2>1. q[n] = x BY <1>2 DEF x
  <2>2. n \in 1 .. Len(p) + 1 /\ Len(q) = Len(p) + 1 BY <1>1, <1>2
  <2>3. \A j \in 1 .. Len(p) + 1 : (j < n => q[j] = p[j]) /\ ~ (j > n)
    BY <1>1, <1>2
  <2> QED BY <2>1, <2>2, <2>3 DEF Grown
<1>11. Inserted(p, x) = q BY <1>1, <1>2, <1>9, <1>10, GrownSame
<1> QED BY <1>11 DEF p, q, x

(* A load is a loop over the records, if the header is right.              *)
Records(s) == IF LoadHeader(s) = "ok" THEN s[3] ELSE 0

LEMMA LoadRun ==
    ASSUME NEW s, Records(s) \in Nat, NEW g,
           g = [n \in 0 .. Records(s) |-> g[n]],
           g[0] = [rc |-> LoadHeader(s), list |-> <<>>],
           \A n \in 1 .. Records(s) : g[n] = LoadOne(s, g[n - 1], n)
    PROVE  Load(s) = g[Records(s)]
<1> DEFINE N == Records(s)
           b == [rc |-> LoadHeader(s), list |-> <<>>]
           Loop(h) == h = [n \in 0 .. N |-> IF n = 0 THEN b ELSE LoadOne(s, h[n - 1], n)]
           run == CHOOSE h : Loop(h)
<1>0. N \in Nat OBVIOUS
<1>1. Loop(g)
  <2>1. \A n \in 0 .. N : g[n] = IF n = 0 THEN b ELSE LoadOne(s, g[n - 1], n)
    <3> TAKE n \in 0 .. N
    <3>1. CASE n = 0
      <4>1. g[0] = b OBVIOUS
      <4> HIDE DEF b, N
      <4> QED BY <3>1, <4>1
    <3>2. CASE n # 0
      <4>1. n \in 1 .. N BY <1>0, <3>2
      <4>2. g[n] = LoadOne(s, g[n - 1], n) BY <4>1
      <4> HIDE DEF b, N
      <4> QED BY <3>2, <4>2
    <3> QED BY <3>1, <3>2
  <2> HIDE DEF N, b
  <2> QED BY <2>1
<1>2. Loop(run)
  <2> HIDE DEF Loop
  <2> QED BY <1>1
<1>3. Load(s) = run[N] BY DEF Load, Records
<1> HIDE DEF run
<1>4. run[0] = b /\ \A n \in 1 .. N : run[n] = LoadOne(s, run[n - 1], n)
  <2>1. \A n \in 0 .. N : run[n] = IF n = 0 THEN b ELSE LoadOne(s, run[n - 1], n)
    BY <1>2
  <2>2. 0 \in 0 .. N /\ \A n \in 1 .. N : n \in 0 .. N /\ n # 0 BY <1>0
  <2> HIDE DEF N, b
  <2> QED BY <2>1, <2>2
<1> DEFINE A == {n \in 0 .. N : run[n] = g[n]}
<1>5. \A n \in 0 .. N : n \in A
  <2>1. 0 \in A BY <1>0, <1>4
  <2>2. ASSUME NEW n \in 0 .. N - 1, n \in A PROVE n + 1 \in A
    <3>1. n + 1 \in 1 .. N /\ (n + 1) - 1 = n /\ n + 1 \in 0 .. N BY <1>0
    <3>2. run[n + 1] = LoadOne(s, run[n], n + 1) BY <1>4, <3>1
    <3>3. g[n + 1] = LoadOne(s, g[n], n + 1) BY <3>1
    <3> QED BY <2>2, <3>1, <3>2, <3>3
  <2> HIDE DEF A, N
  <2> QED BY <1>0, <2>1, <2>2, UpTo
<1>6. N \in A
  <2>1. N \in 0 .. N BY <1>0
  <2> HIDE DEF A, N
  <2> QED BY <1>5, <2>1
<1> QED BY <1>3, <1>6

LEMMA ResultSet ==
    ASSUME NEW a, NEW x, NEW y
    PROVE  /\ [[rc |-> a, list |-> x] EXCEPT !.list = y] = [rc |-> a, list |-> y]
           /\ [[rc |-> a, list |-> x] EXCEPT !.rc = y] = [rc |-> y, list |-> x]
OBVIOUS

(* One that stops at record m, or past the last one.                       *)
Loads(s, c, n) ==
    Fresh(c, n) /\ s[3 + 2 * n].node = c[n] /\ Refused(s, n, SubSeq(c, 1, n - 1)) = "ok"

Reaches(s, c, N, m) ==
    m \in 1 .. N + 1 /\ m <= Len(c) + 1 /\ \A n \in 1 .. m - 1 : Loads(s, c, n)

EndsWith(s, c, m, err) == err # "ok" /\ Refused(s, m, SubSeq(c, 1, m - 1)) = err

LEMMA LoadUntil ==
    ASSUME NEW c \in Seq(PairType), Ascends(c), NEW s, LoadHeader(s) = "ok",
           NEW N \in Nat, s[3] = N, NEW m, Reaches(s, c, N, m), NEW err,
           m <= N => EndsWith(s, c, m, err)
    PROVE  /\ m <= N => Load(s) = [rc |-> err, list |-> SubSeq(c, 1, m - 1)]
           /\ ~ (m <= N) => Load(s) = [rc |-> "ok", list |-> SubSeq(c, 1, m - 1)]
<1> DEFINE A(k) == [rc |-> "ok", list |-> SubSeq(c, 1, k)]
           B == [rc |-> err, list |-> SubSeq(c, 1, m - 1)]
           g == [n \in 0 .. N |-> IF n < m THEN A(n) ELSE B]
<1>0. Records(s) = N /\ m \in Int /\ m >= 1 BY DEF Records, Reaches
<1>1. g[0] = [rc |-> LoadHeader(s), list |-> <<>>]
  <2>1. SubSeq(c, 1, 0) = <<>> OBVIOUS
  <2> QED BY <1>0, <2>1
<1>2. ASSUME NEW n \in 1 .. N PROVE g[n] = LoadOne(s, g[n - 1], n)
  <2>0. n - 1 \in 0 .. N /\ n \in 0 .. N OBVIOUS
  <2>1. CASE n < m
    <3>1. g[n] = A(n) /\ g[n - 1] = A(n - 1) BY <1>0, <2>0, <2>1
    <3>2. n \in 1 .. m - 1 /\ n \in 1 .. Len(c) BY <1>0, <2>1 DEF Reaches
    <3>3. Fresh(c, n) /\ s[3 + 2 * n].node = c[n]
          /\ Refused(s, n, SubSeq(c, 1, n - 1)) = "ok"
      BY <3>2 DEF Loads, Reaches
    <3>4. Inserted(SubSeq(c, 1, n - 1), c[n]) = SubSeq(c, 1, n)
      BY <3>2, <3>3, LoadsNext
    <3>5. LoadOne(s, A(n - 1), n) = [A(n - 1) EXCEPT !.list = SubSeq(c, 1, n)]
      BY <3>3, <3>4 DEF LoadOne, Header
    <3>6. [A(n - 1) EXCEPT !.list = SubSeq(c, 1, n)] = A(n)
      <4> DEFINE x == SubSeq(c, 1, n - 1)
                 y == SubSeq(c, 1, n)
      <4> HIDE DEF x, y
      <4>1. [[rc |-> "ok", list |-> x] EXCEPT !.list = y] = [rc |-> "ok", list |-> y]
        BY ResultSet
      <4> QED BY <4>1 DEF x, y
    <3> HIDE DEF A, g
    <3> QED BY <3>1, <3>5, <3>6
  <2>2. CASE n = m
    <3>1. g[n] = B /\ g[n - 1] = A(m - 1) BY <1>0, <2>0, <2>2
    <3>2. err # "ok" /\ Refused(s, n, SubSeq(c, 1, m - 1)) = err BY <2>2 DEF EndsWith
    <3>3. LoadOne(s, A(m - 1), n) = [A(m - 1) EXCEPT !.rc = err]
      BY <3>2 DEF LoadOne
    <3>4. [A(m - 1) EXCEPT !.rc = err] = B
      <4> DEFINE x == SubSeq(c, 1, m - 1)
      <4> HIDE DEF x
      <4>1. [[rc |-> "ok", list |-> x] EXCEPT !.rc = err] = [rc |-> err, list |-> x]
        BY ResultSet
      <4> QED BY <4>1 DEF x
    <3> HIDE DEF A, B, g
    <3> QED BY <3>1, <3>3, <3>4
  <2>3. CASE n > m
    <3>1. g[n] = B /\ g[n - 1] = B
      <4>1. ~ (n < m) /\ ~ (n - 1 < m) BY <1>0, <2>3
      <4> QED BY <2>0, <4>1
    <3>2. err # "ok"
      <4>1. m <= N BY <1>0, <2>3
      <4> QED BY <4>1 DEF EndsWith
    <3>3. LoadOne(s, B, n) = [B EXCEPT !.rc = err] BY <3>2 DEF LoadOne
    <3>4. [B EXCEPT !.rc = err] = B
      <4> DEFINE x == SubSeq(c, 1, m - 1)
      <4> HIDE DEF x
      <4>1. [[rc |-> err, list |-> x] EXCEPT !.rc = err] = [rc |-> err, list |-> x]
        BY ResultSet
      <4> QED BY <4>1 DEF x
    <3> HIDE DEF B, g
    <3> QED BY <3>1, <3>3, <3>4
  <2>4. n < m \/ n = m \/ n > m BY <1>0
  <2> QED BY <2>1, <2>2, <2>3, <2>4
<1>3. g = [n \in 0 .. N |-> g[n]] OBVIOUS
<1>4. Load(s) = g[N]
  <2> HIDE DEF g
  <2>1. Records(s) \in Nat BY <1>0
  <2>2. g = [n \in 0 .. Records(s) |-> g[n]] BY <1>0, <1>3, Zenon
  <2>3. \A n \in 1 .. Records(s) : g[n] = LoadOne(s, g[n - 1], n) BY <1>0, <1>2, Zenon
  <2>4. Load(s) = g[Records(s)] BY <1>1, <2>1, <2>2, <2>3, LoadRun, Zenon
  <2> QED BY <1>0, <2>4, Zenon
<1>5. CASE m <= N
  <2>1. g[N] = B BY <1>0, <1>5
  <2> QED BY <1>4, <1>5, <2>1
<1>6. CASE ~ (m <= N)
  <2>1. N = m - 1 /\ N < m /\ N \in 0 .. N BY <1>0, <1>6 DEF Reaches
  <2>2. g[N] = A(m - 1) BY <2>1
  <2> QED BY <1>4, <1>6, <2>2
<1> QED BY <1>5, <1>6

Ended(s, c, m, rc) == Load(s) = [rc |-> rc, list |-> SubSeq(c, 1, m - 1)]

LEMMA LoadEnds ==
    ASSUME NEW c \in Seq(PairType), Ascends(c), NEW s, LoadHeader(s) = "ok",
           NEW N \in Nat, s[3] = N, NEW m, Reaches(s, c, N, m)
    PROVE  /\ m <= N => \A err : EndsWith(s, c, m, err) => Ended(s, c, m, err)
           /\ ~ (m <= N) => Ended(s, c, m, "ok")
<1>1. ASSUME m <= N, NEW err, EndsWith(s, c, m, err) PROVE Ended(s, c, m, err)
  BY <1>1, LoadUntil DEF Ended
<1>2. ASSUME ~ (m <= N) PROVE Ended(s, c, m, "ok")
  <2>1. m <= N => EndsWith(s, c, m, "ok") BY <1>2
  <2> QED BY <1>2, <2>1, LoadUntil DEF Ended
<1> QED BY <1>1, <1>2

(* Record n of a stream is x, whole; or there is something wrong with it.  *)
Whole(s, n, x) ==
    3 + 2 * n <= Len(s) /\ s[2 + 2 * n] = "fit" /\ s[3 + 2 * n] = Record(x)

Broken(s, n) == Len(s) < 3 + 2 * n \/ s[2 + 2 * n] # "fit" \/ ~ s[3 + 2 * n].ok

LEMMA WholeLoads ==
    ASSUME NEW s, Len(s) \in Nat, NEW n \in Nat, NEW x, Whole(s, n, x), NEW l
    PROVE  /\ s[3 + 2 * n].node = x
           /\ ~ Matches(l, x.key) => Refused(s, n, l) = "ok"
           /\ Matches(l, x.key) => Refused(s, n, l) = "EEXIST"
<1>1. s[3 + 2 * n].node = x /\ s[3 + 2 * n].ok = TRUE BY DEF Whole, Record
<1>2. ~ (3 + 2 * n > Len(s)) /\ ~ (3 + 2 * n - 1 > Len(s)) /\ 3 + 2 * n - 1 = 2 + 2 * n
  BY DEF Whole
<1>3. s[3 + 2 * n - 1] = "fit" BY <1>2 DEF Whole
<1>4. ~ Matches(l, x.key) => Refused(s, n, l) = "ok"
  BY <1>1, <1>2, <1>3 DEF Refused, Header
<1>5. Matches(l, x.key) => Refused(s, n, l) = "EEXIST"
  BY <1>1, <1>2, <1>3 DEF Refused, Header
<1> QED BY <1>1, <1>4, <1>5

LEMMA BrokenStops ==
    ASSUME NEW s, Len(s) \in Nat, NEW n \in Nat, Broken(s, n), NEW l
    PROVE  Refused(s, n, l) # "ok"
<1>1. 3 + 2 * n - 1 = 2 + 2 * n OBVIOUS
<1>2. \/ 3 + 2 * n - 1 > Len(s) \/ s[3 + 2 * n - 1] # "fit"
      \/ 3 + 2 * n > Len(s) \/ ~ s[3 + 2 * n].ok
  BY <1>1 DEF Broken
<1> QED BY <1>2 DEF Refused, Header

(* A key that a node before it has, its neighbour has.                     *)
LEMMA FreshIs ==
    ASSUME NEW c \in Seq(PairType), Ascends(c), NEW n \in 1 .. Len(c)
    PROVE  ~ Fresh(c, n) <=> n > 1 /\ c[n - 1].key = c[n].key
<1> DEFINE p == SubSeq(c, 1, n - 1)
           k == c[n].key
<1>0. n - 1 \in 0 .. Len(c) /\ Len(c) \in Nat OBVIOUS
<1>1. p \in Seq(PairType) /\ Len(p) = n - 1 /\ \A i \in 1 .. n - 1 : p[i] = c[i]
  BY <1>0, PrefixIs
<1>2. \A i \in 1 .. Len(c) : c[i].key \in Int
  <2>1. \A i \in 1 .. Len(c) : c[i] \in PairType OBVIOUS
  <2> QED BY <2>1, PairKeys
<1> HIDE DEF p
<1>3. DOMAIN p = 1 .. n - 1
  <2>1. DOMAIN p = 1 .. Len(p) BY <1>1
  <2> QED BY <1>1, <2>1
<1>4. Matches(p, k) <=> \E i \in 1 .. n - 1 : c[i].key = k
  BY <1>1, <1>3 DEF Matches
<1>5. ASSUME NEW i \in 1 .. n - 1, c[i].key = k PROVE n > 1 /\ c[n - 1].key = k
  <2>1. n > 1 /\ i \in 1 .. Len(c) /\ n - 1 \in 1 .. Len(c) /\ i <= n - 1 /\ n - 1 <= n
    BY <1>0
  <2>2. c[i].key <= c[n - 1].key /\ c[n - 1].key <= c[n].key
    BY <2>1 DEF Ascends
  <2>3. c[i].key \in Int /\ c[n - 1].key \in Int /\ c[n].key \in Int BY <1>2, <2>1
  <2> QED BY <1>5, <2>1, <2>2, <2>3
<1>6. n > 1 => n - 1 \in 1 .. n - 1 BY <1>0
<1>7. Matches(p, k) <=> n > 1 /\ c[n - 1].key = k
  <2> HIDE DEF k
  <2> QED BY <1>4, <1>5, <1>6
<1> QED BY <1>7 DEF Fresh, p

-----------------------------------------------------------------------------
(* A load of records that are whole up to number b: it stops at the first  *)
(* one with a key that is taken, or at b.                                  *)
Early(c, b) == {n \in 1 .. b - 1 : ~ Fresh(c, n)}

LEMMA LoadEarly ==
    ASSUME NEW c \in Seq(PairType), Ascends(c), NEW s, Len(s) \in Nat,
           LoadHeader(s) = "ok", NEW N \in Nat, s[3] = N,
           NEW b \in 1 .. N + 1, b <= Len(c) + 1,
           \A n \in 1 .. b - 1 : Whole(s, n, c[n]),
           Early(c, b) # {}
    PROVE  /\ Min(Early(c, b)) \in 1 .. Len(c)
           /\ Load(s) = [rc |-> "EEXIST", list |-> SubSeq(c, 1, Min(Early(c, b)) - 1)]
<1> DEFINE E == Early(c, b)
           m == Min(E)
<1>0. Len(c) \in Nat /\ b \in Int OBVIOUS
<1>1. m \in E /\ \A y \in E : m <= y
  <2>1. b - 1 \in Nat BY <1>0
  <2>2. E \in SUBSET (1 .. b - 1) BY DEF Early
  <2> HIDE DEF E
  <2>3. E # {} BY DEF E
  <2> QED BY <2>1, <2>2, <2>3, LeastIs
<1>2. m \in 1 .. b - 1 /\ ~ Fresh(c, m) BY <1>1 DEF Early
<1>3. \A n \in 1 .. b - 1 : n < m => Fresh(c, n)
  <2> TAKE n \in 1 .. b - 1
  <2> HAVE n < m
  <2>1. m \in Int /\ n \in Int BY <1>2
  <2>2. ~ (m <= n) BY <2>1
  <2>3. n \notin E BY <1>1, <2>2
  <2> QED BY <2>3 DEF Early
<1> HIDE DEF m, E
<1>4. m \in 1 .. Len(c) /\ m \in 1 .. N + 1 /\ m <= N /\ m <= Len(c) + 1 /\ m \in Nat
  BY <1>0, <1>2
<1>5. Whole(s, m, c[m]) BY <1>2
<1>6. Refused(s, m, SubSeq(c, 1, m - 1)) = "EEXIST"
  BY <1>2, <1>4, <1>5, WholeLoads DEF Fresh
<1>7. ASSUME NEW n \in 1 .. m - 1
      PROVE  Fresh(c, n) /\ s[3 + 2 * n].node = c[n]
             /\ Refused(s, n, SubSeq(c, 1, n - 1)) = "ok"
  <2>1. n \in 1 .. b - 1 /\ n < m /\ n \in Nat BY <1>0, <1>2
  <2>2. Fresh(c, n) /\ Whole(s, n, c[n]) BY <1>3, <2>1
  <2>3. ~ Matches(SubSeq(c, 1, n - 1), c[n].key) BY <2>2 DEF Fresh
  <2> QED BY <2>1, <2>2, <2>3, WholeLoads
<1>8. m <= N => Load(s) = [rc |-> "EEXIST", list |-> SubSeq(c, 1, m - 1)]
  <2>1. m <= N => EndsWith(s, c, m, "EEXIST") BY <1>6 DEF EndsWith
  <2>2. \A n \in 1 .. m - 1 : Loads(s, c, n) BY <1>7 DEF Loads
  <2>3. Reaches(s, c, N, m) BY <1>4, <2>2 DEF Reaches
  <2>4. m <= N => Ended(s, c, m, "EEXIST") BY <2>1, <2>3, LoadEnds
  <2> QED BY <2>4 DEF Ended
<1>9. Load(s) = [rc |-> "EEXIST", list |-> SubSeq(c, 1, m - 1)] BY <1>4, <1>8
<1> QED BY <1>4, <1>9 DEF m, E

LEMMA LoadAll ==
    ASSUME NEW c \in Seq(PairType), Ascends(c), NEW s, Len(s) \in Nat,
           LoadHeader(s) = "ok", NEW N \in Nat, s[3] = N,
           NEW b \in 1 .. N + 1, b <= Len(c) + 1,
           \A n \in 1 .. b - 1 : Whole(s, n, c[n]),
           Early(c, b) = {},
           b <= N => Broken(s, b)
    PROVE  /\ Load(s).list = SubSeq(c, 1, b - 1)
           /\ b <= N => Load(s).rc # "ok"
           /\ b = N + 1 => Load(s) = [rc |-> "ok", list |-> SubSeq(c, 1, N)]
<1> DEFINE err == Refused(s, b, SubSeq(c, 1, b - 1))
           p == SubSeq(c, 1, b - 1)
<1>0. b \in Nat /\ b \in Int OBVIOUS
<1>1. ASSUME NEW n \in 1 .. b - 1
      PROVE  Fresh(c, n) /\ s[3 + 2 * n].node = c[n]
             /\ Refused(s, n, SubSeq(c, 1, n - 1)) = "ok"
  <2>1. n \in Nat OBVIOUS
  <2>2. Fresh(c, n) /\ Whole(s, n, c[n]) BY DEF Early
  <2>3. ~ Matches(SubSeq(c, 1, n - 1), c[n].key) BY <2>2 DEF Fresh
  <2> QED BY <2>1, <2>2, <2>3, WholeLoads
<1>2. b <= N => err # "ok"
  BY <1>0, BrokenStops
<1>3. b <= N => EndsWith(s, c, b, err) BY <1>2 DEF EndsWith
<1> HIDE DEF err
<1>4. /\ b <= N => Load(s) = [rc |-> err, list |-> p]
      /\ ~ (b <= N) => Load(s) = [rc |-> "ok", list |-> p]
  <2>1. \A n \in 1 .. b - 1 : Loads(s, c, n) BY <1>1 DEF Loads
  <2>2. /\ b <= N => Load(s) = [rc |-> err, list |-> SubSeq(c, 1, b - 1)]
        /\ ~ (b <= N) => Load(s) = [rc |-> "ok", list |-> SubSeq(c, 1, b - 1)]
    <3>1. Reaches(s, c, N, b) BY <2>1 DEF Reaches
    <3> HIDE DEF p
    <3>2. CASE b <= N
      <4>1. Load(s) = [rc |-> err, list |-> SubSeq(c, 1, b - 1)]
        <5>1. EndsWith(s, c, b, err) BY <1>3, <3>2
        <5>2. Ended(s, c, b, err) BY <3>1, <3>2, <5>1, LoadEnds
        <5> QED BY <5>2 DEF Ended
      <4> QED BY <3>2, <4>1
    <3>3. CASE ~ (b <= N)
      <4>1. Load(s) = [rc |-> "ok", list |-> SubSeq(c, 1, b - 1)]
        <5>1. Ended(s, c, b, "ok") BY <3>1, <3>3, LoadEnds
        <5> QED BY <5>1 DEF Ended
      <4> QED BY <3>3, <4>1
    <3> QED BY <3>2, <3>3
  <2> QED BY <2>2
<1>5. b = N + 1 => ~ (b <= N) /\ b - 1 = N BY <1>0
<1>6. b = N + 1 => p = SubSeq(c, 1, N) BY <1>5
<1> HIDE DEF p
<1>7. b = N + 1 => Load(s) = [rc |-> "ok", list |-> SubSeq(c, 1, N)]
  BY <1>4, <1>5, <1>6
<1>8. Load(s).list = p /\ (b <= N => Load(s).rc = err)
  <2>1. CASE b <= N BY <1>4, <2>1
  <2>2. CASE ~ (b <= N) BY <1>4, <2>2
  <2> QED BY <2>1, <2>2
<1> QED BY <1>2, <1>7, <1>8 DEF p

(* What is true of every load that does not take its whole stream.         *)
Stopped(s, c) == Load(s).rc # "ok" /\ IsPrefix(Load(s).list, c)

LEMMA HeaderStops ==
    ASSUME NEW c \in Seq(PairType), NEW s, LoadHeader(s) # "ok"
    PROVE  Stopped(s, c)
<1> DEFINE b == [rc |-> LoadHeader(s), list |-> <<>>]
           g == [n \in 0 .. Records(s) |-> b]
<1>0. Records(s) = 0 BY DEF Records
<1>1. Load(s) = g[Records(s)]
  <2>1. Records(s) \in Nat BY <1>0
  <2>2. g = [n \in 0 .. Records(s) |-> g[n]] OBVIOUS
  <2>3. g[0] = [rc |-> LoadHeader(s), list |-> <<>>] BY <1>0
  <2>4. \A n \in 1 .. Records(s) : g[n] = LoadOne(s, g[n - 1], n)
    <3>1. ~ \E n : n \in 1 .. Records(s) BY <1>0
    <3> QED BY <3>1
  <2> HIDE DEF g
  <2> QED BY <2>1, <2>2, <2>3, <2>4, LoadRun
<1>2. Load(s) = b BY <1>0, <1>1
<1>3. IsPrefix(<<>>, c)
  <2>1. 0 \in 0 .. Len(c) /\ SubSeq(c, 1, 0) = <<>> OBVIOUS
  <2> QED BY <2>1, PrefixIs
<1> QED BY <1>2, <1>3 DEF Stopped

LEMMA RecordStops ==
    ASSUME NEW c \in Seq(PairType), Ascends(c), NEW s, Len(s) \in Nat,
           LoadHeader(s) = "ok", NEW N \in Nat, s[3] = N,
           NEW b \in 1 .. N, b <= Len(c) + 1,
           \A n \in 1 .. b - 1 : Whole(s, n, c[n]), Broken(s, b)
    PROVE  Stopped(s, c)
<1>0. b \in 1 .. N + 1 /\ b <= N /\ Len(c) \in Nat OBVIOUS
<1>1. CASE Early(c, b) = {}
  <2>1. Load(s).list = SubSeq(c, 1, b - 1) /\ Load(s).rc # "ok"
    BY <1>0, <1>1, LoadAll
  <2>2. b - 1 \in 0 .. Len(c) BY <1>0
  <2>3. IsPrefix(SubSeq(c, 1, b - 1), c) BY <2>2, PrefixIs
  <2> QED BY <2>1, <2>3 DEF Stopped
<1>2. CASE Early(c, b) # {}
  <2> DEFINE m == Min(Early(c, b))
  <2>1. m \in 1 .. Len(c) /\ Load(s) = [rc |-> "EEXIST", list |-> SubSeq(c, 1, m - 1)]
    BY <1>0, <1>2, LoadEarly
  <2> HIDE DEF m
  <2>2. m - 1 \in 0 .. Len(c) BY <1>0, <2>1
  <2>3. IsPrefix(SubSeq(c, 1, m - 1), c) BY <2>2, PrefixIs
  <2>4. Load(s).rc = "EEXIST" /\ Load(s).list = SubSeq(c, 1, m - 1) BY <2>1
  <2> QED BY <2>3, <2>4 DEF Stopped
<1> QED BY <1>1, <1>2

(* The records of a stream that a save wrote.                              *)
LEMMA SaveWhole ==
    ASSUME NEW c \in Seq(PairType)
    PROVE  /\ LoadHeader(Save(c)) = "ok" /\ Len(Save(c)) = 3 + 2 * Len(c)
           /\ \A n \in 1 .. Len(c) : Whole(Save(c), n, c[n])
<1> DEFINE s == Save(c)
<1>0. Len(c) \in Nat OBVIOUS
<1>1. /\ Len(s) = 3 + 2 * Len(c) /\ s[1] = "SKPL" /\ s[2] = 1 /\ s[3] = Len(c)
      /\ \A n \in 1 .. Len(c) : s[2 + 2 * n] = "fit" /\ s[3 + 2 * n] = Record(c[n])
  BY SaveIs
<1> HIDE DEF s
<1>2. ~ (Len(s) < 1) /\ ~ (Len(s) < 2) /\ ~ (Len(s) < 3) BY <1>0, <1>1
<1>3. LoadHeader(s) = "ok" BY <1>1, <1>2 DEF LoadHeader, Header
<1>4. \A n \in 1 .. Len(c) : 3 + 2 * n <= Len(s) BY <1>0, <1>1
<1> QED BY <1>1, <1>3, <1>4 DEF Whole, s

-----------------------------------------------------------------------------
(* What each damage does.                                                  *)
Pieces(s, L) == s = [i \in 1 .. L |-> s[i]]

LEMMA PiecesLen ==
    ASSUME NEW L \in Nat, NEW s, Pieces(s, L)
    PROVE  Len(s) = L
<1> DEFINE S == {s[i] : i \in 1 .. L}
<1>1. \A i \in 1 .. L : s[i] \in S OBVIOUS
<1>2. s = [i \in 1 .. L |-> s[i]] BY DEF Pieces
<1> HIDE DEF S
<1>3. s \in Seq(S) /\ Len(s) = L BY <1>1, <1>2
<1> QED BY <1>3

LEMMA PieceSet ==
    ASSUME NEW L \in Nat, NEW t, t = [i \in 1 .. L |-> t[i]], NEW j \in 1 .. L,
           NEW v, NEW s, s = [t EXCEPT ![j] = v]
    PROVE  /\ Len(s) = L /\ s[j] = v
           /\ \A i \in 1 .. L : i # j => s[i] = t[i]
<1>1. Pieces(s, L) /\ s[j] = v /\ \A i \in 1 .. L : i # j => s[i] = t[i]
  <2>1. DOMAIN t = 1 .. L OBVIOUS
  <2>2. DOMAIN s = 1 .. L BY <2>1
  <2>3. s = [i \in DOMAIN s |-> s[i]] OBVIOUS
  <2>4. s[j] = v /\ \A i \in 1 .. L : i # j => s[i] = t[i] BY <2>1
  <2> QED BY <2>2, <2>3, <2>4, Zenon DEF Pieces
<1>2. Len(s) = L BY <1>1, PiecesLen
<1> QED BY <1>1, <1>2

LEMMA CutStops ==
    ASSUME NEW c \in Seq(PairType), Ascends(c), NEW k \in 0 .. Len(Save(c)) - 1
    PROVE  Stopped(SubSeq(Save(c), 1, k), c)
<1> DEFINE t == Save(c)
           s == SubSeq(t, 1, k)
           L == 3 + 2 * Len(c)
           b == (k - 1) \div 2
<1>0. Len(c) \in Nat OBVIOUS
<1>1. /\ Len(t) = L /\ t = [i \in 1 .. L |-> t[i]]
      /\ t[1] = "SKPL" /\ t[2] = 1 /\ t[3] = Len(c)
      /\ \A n \in 1 .. Len(c) : t[2 + 2 * n] = "fit" /\ t[3 + 2 * n] = Record(c[n])
  BY SaveIs
<1> HIDE DEF t
<1>2. k \in 0 .. L - 1 /\ L \in Nat BY <1>0, <1>1 DEF t
<1>3. Len(s) = k /\ \A i \in 1 .. k : s[i] = t[i]
  <2> DEFINE S == {t[i] : i \in 1 .. L}
  <2>1. \A i \in 1 .. L : t[i] \in S OBVIOUS
  <2> HIDE DEF S, L
  <2>2. t \in Seq(S) /\ Len(t) = L BY <1>1, <1>2, <2>1
  <2>3. k \in 0 .. Len(t) BY <1>2, <2>2
  <2> QED BY <2>2, <2>3
<1> HIDE DEF s
<1>4. CASE k < 3
  <2>0. (k >= 1 => 1 \in 1 .. k) /\ (k >= 2 => 2 \in 1 .. k) BY <1>2
  <2>1. k >= 1 => s[1] = "SKPL"
    <3> HIDE DEF L
    <3> QED BY <1>1, <1>3, <2>0
  <2>2. k >= 2 => s[2] = 1
    <3> HIDE DEF L
    <3> QED BY <1>1, <1>3, <2>0
  <2>3. k \in Int BY <1>2
  <2>4. LoadHeader(s) # "ok"
    BY <1>3, <1>4, <2>1, <2>2, <2>3 DEF LoadHeader, Header
  <2> QED BY <2>4, HeaderStops DEF s, t
<1>5. CASE ~ (k < 3)
  <2>1. /\ 1 \in 1 .. k /\ 2 \in 1 .. k /\ 3 \in 1 .. k
        /\ ~ (k < 1) /\ ~ (k < 2) /\ ~ (k < 3)
    BY <1>2, <1>5
  <2>2. s[1] = "SKPL" /\ s[2] = 1 /\ s[3] = Len(c) BY <1>1, <1>3, <2>1
  <2>3. LoadHeader(s) = "ok" BY <1>3, <2>1, <2>2 DEF LoadHeader, Header
  <2>4. /\ b \in 1 .. Len(c) /\ k < 3 + 2 * b
        /\ \A n \in 1 .. b - 1 : 3 + 2 * n \in 1 .. k /\ 2 + 2 * n \in 1 .. k
                                 /\ n \in 1 .. Len(c)
    BY <1>0, <1>2, <1>5
  <2> HIDE DEF b, L
  <2>5. \A n \in 1 .. b - 1 : Whole(s, n, c[n])
    <3> TAKE n \in 1 .. b - 1
    <3>1. s[2 + 2 * n] = "fit" /\ s[3 + 2 * n] = Record(c[n]) BY <1>1, <1>3, <2>4
    <3>2. 3 + 2 * n <= Len(s) BY <1>3, <2>4
    <3> QED BY <3>1, <3>2 DEF Whole
  <2>6. Broken(s, b) BY <1>3, <2>4 DEF Broken
  <2>7. Len(s) \in Nat /\ b <= Len(c) + 1 BY <1>0, <1>2, <1>3, <2>4
  <2>8. Stopped(s, c) BY <1>0, <2>2, <2>3, <2>4, <2>5, <2>6, <2>7, RecordStops
  <2> QED BY <2>8 DEF s, t
<1> QED BY <1>4, <1>5

(* A piece of the header that is wrong.                                    *)
LEMMA HeadStops ==
    ASSUME NEW c \in Seq(PairType), Ascends(c)
    PROVE  /\ Stopped([Save(c) EXCEPT ![1] = "PLKS"], c)
           /\ Stopped([Save(c) EXCEPT ![2] = 2], c)
           /\ Stopped([Save(c) EXCEPT ![3] = @ + 1], c)
<1> DEFINE t == Save(c)
           L == 3 + 2 * Len(c)
<1>0. Len(c) \in Nat /\ L \in Nat OBVIOUS
<1>1. /\ Len(t) = L /\ t = [i \in 1 .. L |-> t[i]]
      /\ t[1] = "SKPL" /\ t[2] = 1 /\ t[3] = Len(c)
      /\ \A n \in 1 .. Len(c) :
            /\ 2 + 2 * n \in 1 .. L /\ 3 + 2 * n \in 1 .. L
            /\ t[2 + 2 * n] = "fit" /\ t[3 + 2 * n] = Record(c[n])
  BY SaveIs
<1> HIDE DEF t
<1>2. /\ 1 \in 1 .. L /\ 2 \in 1 .. L /\ 3 \in 1 .. L
      /\ ~ (L < 1) /\ ~ (L < 2) /\ ~ (L < 3)
  BY <1>0
<1>3. Stopped([t EXCEPT ![1] = "PLKS"], c)
  <2> DEFINE s == [t EXCEPT ![1] = "PLKS"]
  <2>1. Len(s) = L /\ s[1] = "PLKS"
    <3> HIDE DEF L
    <3> QED BY <1>0, <1>1, <1>2, PieceSet
  <2> HIDE DEF s
  <2>2. LoadHeader(s) # "ok"
    <3>1. "PLKS" # "SKPL" OBVIOUS
    <3> QED BY <1>2, <2>1, <3>1 DEF LoadHeader, Header
  <2>3. Stopped(s, c) BY <2>2, HeaderStops
  <2> QED BY <2>3 DEF s
<1>4. Stopped([t EXCEPT ![2] = 2], c)
  <2> DEFINE s == [t EXCEPT ![2] = 2]
  <2>1. Len(s) = L /\ s[2] = 2 /\ s[1] = "SKPL"
    <3>1. 1 # 2 OBVIOUS
    <3> HIDE DEF L
    <3> QED BY <1>0, <1>1, <1>2, <3>1, PieceSet
  <2> HIDE DEF s
  <2>2. LoadHeader(s) # "ok" BY <1>2, <2>1 DEF LoadHeader, Header
  <2>3. Stopped(s, c) BY <2>2, HeaderStops
  <2> QED BY <2>3 DEF s
<1>5. Stopped([t EXCEPT ![3] = @ + 1], c)
  <2> DEFINE N == Len(c) + 1
             s == [t EXCEPT ![3] = N]
  <2>1. [t EXCEPT ![3] = @ + 1] = s
    <3>1. t[3] + 1 = N BY <1>1
    <3> QED BY <3>1
  <2>2. Len(s) = L /\ s[3] = N /\ \A i \in 1 .. L : i # 3 => s[i] = t[i]
    <3> HIDE DEF L, N
    <3> QED BY <1>0, <1>1, <1>2, PieceSet
  <2> HIDE DEF s
  <2>3. s[1] = "SKPL" /\ s[2] = 1 BY <1>1, <1>2, <2>2
  <2>4. LoadHeader(s) = "ok" BY <1>2, <2>2, <2>3 DEF LoadHeader, Header
  <2>5. \A n \in 1 .. Len(c) : 2 + 2 * n # 3 /\ 3 + 2 * n # 3 /\ 3 + 2 * n <= L BY <1>0
  <2>6. \A n \in 1 .. Len(c) : Whole(s, n, c[n])
    <3> TAKE n \in 1 .. Len(c)
    <3>1. s[2 + 2 * n] = "fit" /\ s[3 + 2 * n] = Record(c[n]) BY <1>1, <2>2, <2>5
    <3>2. 3 + 2 * n <= Len(s) BY <2>2, <2>5
    <3> QED BY <3>1, <3>2 DEF Whole
  <2>7. N \in Nat /\ N \in 1 .. N /\ N <= Len(c) + 1 /\ N - 1 = Len(c) /\ L < 3 + 2 * N
    BY <1>0
  <2>8. Broken(s, N) BY <2>2, <2>7 DEF Broken
  <2>9. Len(s) \in Nat /\ \A n \in 1 .. N - 1 : Whole(s, n, c[n]) BY <1>0, <2>2, <2>6, <2>7
  <2> HIDE DEF N, L
  <2>10. Stopped(s, c) BY <2>2, <2>4, <2>7, <2>8, <2>9, RecordStops
  <2> QED BY <2>1, <2>10
<1> QED BY <1>3, <1>4, <1>5 DEF t

(* A piece of a record that is wrong.                                      *)
LEMMA PieceStops ==
    ASSUME NEW c \in Seq(PairType), Ascends(c), NEW b \in 1 .. Len(c),
           NEW j, NEW v,
           (j = 2 + 2 * b /\ v # "fit") \/ (j = 3 + 2 * b /\ ~ v.ok),
           NEW s, s = [Save(c) EXCEPT ![j] = v]
    PROVE  Stopped(s, c)
<1> DEFINE t == Save(c)
           L == 3 + 2 * Len(c)
<1>0. Len(c) \in Nat /\ L \in Nat /\ j \in 4 .. L OBVIOUS
<1>1. /\ Len(t) = L /\ t = [i \in 1 .. L |-> t[i]]
      /\ t[1] = "SKPL" /\ t[2] = 1 /\ t[3] = Len(c)
      /\ \A n \in 1 .. Len(c) :
            /\ 2 + 2 * n \in 1 .. L /\ 3 + 2 * n \in 1 .. L
            /\ t[2 + 2 * n] = "fit" /\ t[3 + 2 * n] = Record(c[n])
  BY SaveIs
<1>2. s = [t EXCEPT ![j] = v] OBVIOUS
<1> HIDE DEF t
<1>3. /\ 1 \in 1 .. L /\ 2 \in 1 .. L /\ 3 \in 1 .. L
      /\ ~ (L < 1) /\ ~ (L < 2) /\ ~ (L < 3) /\ j \in 1 .. L
      /\ 1 # j /\ 2 # j /\ 3 # j
  BY <1>0
<1>4. Len(s) = L /\ s[j] = v /\ \A i \in 1 .. L : i # j => s[i] = t[i]
  <2>1. t = [i \in 1 .. L |-> t[i]] /\ L \in Nat /\ j \in 1 .. L BY <1>0, <1>1, <1>3
  <2> HIDE DEF L
  <2> QED BY <1>2, <2>1, PieceSet
<1>5. s[1] = "SKPL" /\ s[2] = 1 /\ s[3] = Len(c) BY <1>1, <1>3, <1>4
<1>6. LoadHeader(s) = "ok" BY <1>3, <1>4, <1>5 DEF LoadHeader, Header
<1>7. \A n \in 1 .. b - 1 : /\ 2 + 2 * n # j /\ 3 + 2 * n # j /\ 3 + 2 * n <= L
                            /\ n \in 1 .. Len(c)
  BY <1>0
<1>8. \A n \in 1 .. b - 1 : Whole(s, n, c[n])
  <2> TAKE n \in 1 .. b - 1
  <2>1. s[2 + 2 * n] = "fit" /\ s[3 + 2 * n] = Record(c[n]) BY <1>1, <1>4, <1>7
  <2>2. 3 + 2 * n <= Len(s) BY <1>4, <1>7
  <2> QED BY <2>1, <2>2 DEF Whole
<1>9. Broken(s, b)
  <2>1. s[j] = v BY <1>4
  <2>2. CASE j = 2 + 2 * b /\ v # "fit" BY <2>1, <2>2 DEF Broken
  <2>3. CASE j = 3 + 2 * b /\ ~ v.ok BY <2>1, <2>3 DEF Broken
  <2> QED BY <2>2, <2>3
<1>10. Len(s) \in Nat /\ b \in 1 .. Len(c) /\ b <= Len(c) + 1 BY <1>0, <1>4
<1> QED BY <1>0, <1>5, <1>6, <1>8, <1>9, <1>10, RecordStops

LEMMA OddPiece ==
    ASSUME NEW N \in Nat, NEW i \in 4 .. 3 + 2 * N, i % 2 = 1
    PROVE  (i - 3) \div 2 \in 1 .. N /\ i = 3 + 2 * ((i - 3) \div 2)
<1>1. i # 4 OBVIOUS
<1>2. i >= 5 /\ i \in Int BY <1>1
<1>3. (i - 3) % 2 = 0 BY <1>2
<1>4. i - 3 = 2 * ((i - 3) \div 2) BY <1>2, <1>3
<1> QED BY <1>2, <1>4

LEMMA OkSet ==
    ASSUME NEW a, NEW x, NEW y
    PROVE  [[ok |-> a, node |-> x] EXCEPT !.ok = y] = [ok |-> y, node |-> x]
OBVIOUS

LEMMA DamagedStops ==
    ASSUME NEW c \in Seq(PairType), Ascends(c), NEW s \in Damaged(Save(c))
    PROVE  Stopped(s, c)
<1> DEFINE t == Save(c)
           L == 3 + 2 * Len(c)
<1>0. Len(c) \in Nat /\ Len(t) = L /\ L \in Nat
  <2>1. Len(t) = L BY SaveIs
  <2> QED BY <2>1
<1>1. CASE \E k \in 0 .. Len(t) - 1 : s = SubSeq(t, 1, k)
  BY <1>1, CutStops
<1>2. CASE \/ s = [t EXCEPT ![1] = "PLKS"] \/ s = [t EXCEPT ![2] = 2]
           \/ s = [t EXCEPT ![3] = @ + 1]
  BY <1>2, HeadStops
<1>3. ASSUME NEW i \in 4 .. Len(t), i % 2 = 0, s = [t EXCEPT ![i] = "unfit"]
      PROVE  Stopped(s, c)
  <2> DEFINE b == (i - 2) \div 2
  <2>1. b \in 1 .. Len(c) /\ i = 2 + 2 * b BY <1>0, <1>3
  <2>2. "unfit" # "fit" OBVIOUS
  <2> HIDE DEF b
  <2> QED BY <1>3, <2>1, <2>2, PieceStops
<1>4. ASSUME NEW i \in 4 .. Len(t), i % 2 = 1, s = [t EXCEPT ![i].ok = FALSE]
      PROVE  Stopped(s, c)
  <2> DEFINE b == (i - 3) \div 2
             v == [ok |-> FALSE, node |-> c[b]]
  <2>1. b \in 1 .. Len(c) /\ i = 3 + 2 * b
    <3>1. i \in 4 .. 3 + 2 * Len(c) BY <1>0, <1>4
    <3> QED BY <1>0, <1>4, <3>1, OddPiece
  <2>2. t[i] = Record(c[b]) BY <2>1, SaveIs
  <2>3. [t[i] EXCEPT !.ok = FALSE] = v
    <3> DEFINE x == c[b]
    <3> HIDE DEF x, b, t
    <3>1. [[ok |-> TRUE, node |-> x] EXCEPT !.ok = FALSE] = [ok |-> FALSE, node |-> x]
      BY OkSet, Zenon
    <3>2. t[i] = [ok |-> TRUE, node |-> x] BY <2>2 DEF Record, x
    <3> QED BY <3>1, <3>2 DEF x
  <2>4. s = [t EXCEPT ![i] = v]
    <3> HIDE DEF t, v
    <3> QED BY <1>4, <2>3
  <2>5. ~ v.ok OBVIOUS
  <2> HIDE DEF b, v
  <2> QED BY <2>1, <2>4, <2>5, PieceStops
<1>5. \/ \E k \in 0 .. Len(t) - 1 : s = SubSeq(t, 1, k)
      \/ \/ s = [t EXCEPT ![1] = "PLKS"] \/ s = [t EXCEPT ![2] = 2]
         \/ s = [t EXCEPT ![3] = @ + 1]
      \/ \E i \in 4 .. Len(t) : i % 2 = 0 /\ s = [t EXCEPT ![i] = "unfit"]
      \/ \E i \in 4 .. Len(t) : i % 2 = 1 /\ s = [t EXCEPT ![i].ok = FALSE]
  <2> HIDE DEF t
  <2>1. s \in Damaged(t) BY DEF t
  <2> QED BY <2>1 DEF Damaged, Header
<1> HIDE DEF t, L
<1> QED BY <1>1, <1>2, <1>3, <1>4, <1>5

-----------------------------------------------------------------------------
(* What a save writes is loaded, up to the first key that repeats.         *)
Twins(c) == {i \in DOMAIN c : i > 1 /\ c[i - 1].key = c[i].key}

LEMMA SaveLoads ==
    ASSUME NEW c \in Seq(PairType), Ascends(c)
    PROVE  /\ Twins(c) = {} => Load(Save(c)) = [rc |-> "ok", list |-> c]
           /\ Twins(c) # {} => /\ Load(Save(c)).rc = "EEXIST"
                               /\ Load(Save(c)).list = SubSeq(c, 1, Min(Twins(c)) - 1)
<1> DEFINE s == Save(c)
           N == Len(c)
           b == N + 1
<1>0. N \in Nat /\ b \in 1 .. N + 1 /\ b <= Len(c) + 1 /\ b - 1 = N OBVIOUS
<1>1. LoadHeader(s) = "ok" /\ Len(s) \in Nat /\ s[3] = N
      /\ \A n \in 1 .. b - 1 : Whole(s, n, c[n])
  <2>1. LoadHeader(s) = "ok" /\ Len(s) = 3 + 2 * N /\ \A n \in 1 .. N : Whole(s, n, c[n])
    BY SaveWhole
  <2>2. s[3] = N BY SaveIs
  <2>3. Len(s) \in Nat BY <1>0, <2>1
  <2> HIDE DEF s, N
  <2> QED BY <1>0, <2>1, <2>2, <2>3
<1>2. Twins(c) = Early(c, b)
  <2>1. DOMAIN c = 1 .. N OBVIOUS
  <2>2. \A n \in 1 .. N : ~ Fresh(c, n) <=> n > 1 /\ c[n - 1].key = c[n].key
    BY FreshIs
  <2> QED BY <1>0, <2>1, <2>2 DEF Twins, Early
<1> HIDE DEF s, N, b
<1>3. CASE Early(c, b) = {}
  <2>1. b = N + 1 /\ ~ (b <= N) BY <1>0 DEF b
  <2>2. Load(s) = [rc |-> "ok", list |-> SubSeq(c, 1, N)]
    BY <1>0, <1>1, <1>3, <2>1, LoadAll
  <2>3. SubSeq(c, 1, N) = c
    <3>1. /\ SubSeq(c, 1, N) \in Seq(PairType) /\ Len(SubSeq(c, 1, N)) = N
          /\ \A i \in 1 .. N : SubSeq(c, 1, N)[i] = c[i]
      BY DEF N
    <3>2. Len(c) = N BY DEF N
    <3> QED BY <3>1, <3>2, Same
  <2> QED BY <1>2, <1>3, <2>2, <2>3 DEF s
<1>4. CASE Early(c, b) # {}
  <2>1. Load(s) = [rc |-> "EEXIST", list |-> SubSeq(c, 1, Min(Early(c, b)) - 1)]
    BY <1>0, <1>1, <1>4, LoadEarly
  <2>2. Load(s).rc = "EEXIST" /\ Load(s).list = SubSeq(c, 1, Min(Early(c, b)) - 1)
    <3> DEFINE x == SubSeq(c, 1, Min(Early(c, b)) - 1)
    <3> HIDE DEF x
    <3>1. Load(s) = [rc |-> "EEXIST", list |-> x] BY <2>1 DEF x
    <3>2. Load(s).rc = "EEXIST" /\ Load(s).list = x BY <3>1
    <3> QED BY <3>2 DEF x
  <2> QED BY <1>2, <1>4, <2>2 DEF s
<1> QED BY <1>3, <1>4

LEMMA ContentNow ==
    ASSUME SnapType
    PROVE  Content(list) \in Seq(PairType) /\ Ascends(Content(list))
<1>1. list \in Seq(NodeType) /\ Ascends(list) BY DEF SnapType, States, State
<1> QED BY <1>1, ContentIs

(* What skip_serialize_ writes of any list the calls reach, and however    *)
(* long, skip_deserialize_ reads back: the whole list if no key repeats,   *)
(* and otherwise the nodes before the first that does (sl.h:3530).         *)
THEOREM ArchiveRoundTrip == Spec => []RoundTrip
<1>1. SnapType => RoundTrip
  <2> SUFFICES ASSUME SnapType PROVE RoundTrip
    OBVIOUS
  <2> DEFINE c == Content(list)
  <2>1. c \in Seq(PairType) /\ Ascends(c) BY ContentNow
  <2> HIDE DEF c
  <2>2. /\ Twins(c) = {} => Load(Save(c)) = [rc |-> "ok", list |-> c]
        /\ Twins(c) # {} => /\ Load(Save(c)).rc = "EEXIST"
                            /\ Load(Save(c)).list = SubSeq(c, 1, Min(Twins(c)) - 1)
    BY <2>1, SaveLoads
  <2>3. IF Twins(c) = {} THEN Load(Save(c)) = [rc |-> "ok", list |-> c]
        ELSE Load(Save(c)).rc = "EEXIST"
             /\ Load(Save(c)).list = SubSeq(c, 1, Min(Twins(c)) - 1)
    BY <2>2, Zenon
  <2> QED BY <2>3 DEF RoundTrip, Twins, c
<1>2. SnapType /\ [Next]_vars => SnapType' BY SnapTypeStep
<1> QED BY <1>1, <1>2, SnapTypeInit, PTL DEF Spec

(* A stream that is cut anywhere, or wrong in any one piece of it, is      *)
(* reported, and leaves only a beginning of the list (sl.h:3322-3326).     *)
THEOREM ArchiveStops == Spec => []LoadStops
<1>1. SnapType => LoadStops
  <2> SUFFICES ASSUME SnapType PROVE LoadStops
    OBVIOUS
  <2> DEFINE c == Content(list)
  <2>1. c \in Seq(PairType) /\ Ascends(c) BY ContentNow
  <2> HIDE DEF c
  <2>2. \A s \in Damaged(Save(c)) : Load(s).rc # "ok" /\ IsPrefix(Load(s).list, c)
    BY <2>1, DamagedStops DEF Stopped
  <2> QED BY <2>2 DEF LoadStops, c
<1>2. SnapType /\ [Next]_vars => SnapType' BY SnapTypeStep
<1> QED BY <1>1, <1>2, SnapTypeInit, PTL DEF Spec

=============================================================================
