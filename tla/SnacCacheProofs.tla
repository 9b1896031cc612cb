-------------------------- MODULE SnacCacheProofs --------------------------
(***************************************************************************)
(* What holds of the SNAC cache for every size of the hash table, every    *)
(* width of the ids and every way to age the entries.                      *)
(***************************************************************************)
EXTENDS SnacCache, SequenceTheorems, NaturalsInduction, WellFoundedInduction, TLAPS

-----------------------------------------------------------------------------
(* Natural numbers *)

\* A nonempty set of naturals has a least member: what stands in for induction.
LEMMA NatMin ==
    ASSUME NEW T \in SUBSET Nat, T # {}
    PROVE  \E n \in T : \A m \in T : n <= m
  <1>1. PICK n \in T : \A m \in T : ~(<<m, n>> \in OpToRel(<, Nat))
    BY NatLessThanWellFounded, WFMin, Zenon
  <1>2. \A m \in T : ~(m < n)
    BY <1>1 DEF OpToRel
  <1> QED
    BY <1>2

LEMMA ModOfSum ==
    ASSUME NEW m \in Nat \ {0}, NEW q \in Nat, NEW r \in 0..(m - 1)
    PROVE  (m * q + r) % m = r
  OBVIOUS

LEMMA DivMod ==
    ASSUME NEW m \in Nat \ {0}, NEW a \in Nat
    PROVE  /\ a = m * (a \div m) + (a % m)
           /\ a \div m \in Nat /\ a % m \in 0..(m - 1)
  <1>1. a = m * (a \div m) + (a % m)
    OBVIOUS
  <1>2. a \div m \in Nat
    OBVIOUS
  <1>3. a % m \in 0..(m - 1)
    OBVIOUS
  <1> QED
    BY <1>1, <1>2, <1>3

LEMMA MulMonotone ==
    ASSUME NEW m \in Nat \ {0}, NEW p \in Nat, NEW q \in Nat, p < q
    PROVE  m * p + m <= m * q
  OBVIOUS

\* Numbers less than m apart have different remainders.
LEMMA ModInjective ==
    ASSUME NEW m \in Nat \ {0}, NEW a \in Nat, NEW b \in Nat,
           a % m = b % m, b <= a, a - b < m
    PROVE  a = b
  <1> DEFINE p == a \div m
             q == b \div m
             r == a % m
             c == m * p
             d == m * q
  <1>1. a = c + r /\ b = d + r /\ p \in Nat /\ q \in Nat /\ r \in 0..(m - 1)
    BY DivMod
  <1>2. c \in Nat /\ d \in Nat
    BY <1>1
  <1>3. ~(q < p)
    <2> SUFFICES ASSUME q < p PROVE FALSE
      OBVIOUS
    <2>1. d + m <= c
      BY <1>1, MulMonotone
    <2> HIDE DEF c, d, r, p, q
    <2> QED
      BY <1>1, <1>2, <2>1
  <1>4. ~(p < q)
    <2> SUFFICES ASSUME p < q PROVE FALSE
      OBVIOUS
    <2>1. c + m <= d
      BY <1>1, MulMonotone
    <2> HIDE DEF c, d, r, p, q
    <2> QED
      BY <1>1, <1>2, <2>1
  <1>5. p = q
    <2> HIDE DEF p, q
    <2> QED
      BY <1>1, <1>3, <1>4
  <1>6. c = d
    BY <1>5
  <1> HIDE DEF c, d, r, p, q
  <1> QED
    BY <1>1, <1>2, <1>6

\* Counting modulo the width commutes with taking the remainder.
LEMMA ModSucc ==
    ASSUME NEW m \in Nat \ {0}, NEW n \in Nat
    PROVE  ((n % m) + 1) % m = (n + 1) % m
  <1> DEFINE q == n \div m
             r == n % m
  <1>1. n = m * q + r /\ q \in Nat /\ r \in 0..(m - 1)
    BY DivMod
  <1> HIDE DEF q, r
  <1>2. CASE r + 1 < m
    <2>1. n + 1 = m * q + (r + 1) /\ r + 1 \in 0..(m - 1)
      BY <1>1, <1>2
    <2>2. (n + 1) % m = r + 1
      BY <1>1, <2>1, ModOfSum
    <2>3. (r + 1) % m = r + 1
      BY <2>1
    <2> QED
      BY <2>2, <2>3 DEF r
  <1>3. CASE r + 1 = m
    <2>1. n + 1 = m * (q + 1) + 0 /\ 0 \in 0..(m - 1) /\ q + 1 \in Nat
      BY <1>1, <1>3
    <2>2. (n + 1) % m = 0
      BY <2>1, ModOfSum
    <2>3. m % m = 0
      OBVIOUS
    <2> QED
      BY <1>3, <2>2, <2>3 DEF r
  <1> QED
    BY <1>1, <1>2, <1>3

-----------------------------------------------------------------------------
(* Lists from which entries were unlinked *)

\* r holds what list has at the positions kept, in their order.
Sublist(r, list, kept) ==
    \E w \in [1..Len(r) -> kept] :
        /\ \A j, k \in 1..Len(r) : j < k => w[j] < w[k]
        /\ \A a \in kept : \E j \in 1..Len(r) : w[j] = a
        /\ \A j \in 1..Len(r) : r[j] = list[w[j]]

LEMMA RemoveAtSublist ==
    ASSUME NEW S, NEW list \in Seq(S), NEW i \in 1..Len(list)
    PROVE  RemoveAt(list, i) \in Seq(S) /\ Sublist(RemoveAt(list, i), list, 1..Len(list) \ {i})
  <1> DEFINE a == SubSeq(list, 1, i - 1)
             b == SubSeq(list, i + 1, Len(list))
             r == RemoveAt(list, i)
             n == Len(list)
             w == [j \in 1..(n - 1) |-> IF j < i THEN j ELSE j + 1]
  <1>0. n \in Nat /\ i \in Nat /\ 1 <= i /\ i <= n
    OBVIOUS
  <1>1. /\ a \in Seq(S) /\ Len(a) = i - 1
        /\ \A j \in 1..(i - 1) : a[j] = list[j]
    OBVIOUS
  <1>2. /\ b \in Seq(S) /\ Len(b) = n - i
        /\ \A j \in 1..(n - i) : b[j] = list[i + j]
    OBVIOUS
  <1>3. r = a \o b
    BY DEF RemoveAt
  <1> HIDE DEF a, b, r, n
  <1>4. /\ r \in Seq(S) /\ Len(r) = Len(a) + Len(b)
        /\ \A j \in 1..(Len(a) + Len(b)) : r[j] = IF j <= Len(a) THEN a[j] ELSE b[j - Len(a)]
    BY <1>1, <1>2, <1>3, ConcatProperties
  <1>5. r \in Seq(S) /\ Len(r) = n - 1
    BY <1>0, <1>1, <1>2, <1>4
  <1>6. ASSUME NEW j \in 1..(n - 1) PROVE r[j] = list[w[j]]
    <2>1. CASE j < i
      <3>1. r[j] = a[j] /\ j \in 1..(i - 1)
        BY <1>0, <1>1, <1>2, <1>4, <2>1
      <3> QED
        BY <1>1, <2>1, <3>1
    <2>2. CASE ~(j < i)
      <3>1. r[j] = b[j - (i - 1)]
        BY <1>0, <1>1, <1>2, <1>4, <2>2
      <3>2. j - (i - 1) \in 1..(n - i) /\ i + (j - (i - 1)) = j + 1
        BY <1>0, <2>2
      <3> QED
        BY <1>2, <2>2, <3>1, <3>2
    <2> QED
      BY <2>1, <2>2
  <1>7. w \in [1..(n - 1) -> 1..n \ {i}]
    BY <1>0
  <1>8. \A j, k \in 1..(n - 1) : j < k => w[j] < w[k]
    BY <1>0
  <1>9. \A k \in 1..n \ {i} : \E j \in 1..(n - 1) : w[j] = k
    <2> TAKE k \in 1..n \ {i}
    <2>1. CASE k < i
      <3>1. k \in 1..(n - 1) /\ w[k] = k
        BY <1>0, <2>1
      <3> QED
        BY <3>1
    <2>2. CASE ~(k < i)
      <3>1. k - 1 \in 1..(n - 1) /\ w[k - 1] = k
        BY <1>0, <2>2
      <3> QED
        BY <3>1
    <2> QED
      BY <2>1, <2>2
  <1> HIDE DEF w
  <1>10. Sublist(r, list, 1..n \ {i})
    BY <1>5, <1>6, <1>7, <1>8, <1>9 DEF Sublist
  <1> QED
    BY <1>5, <1>10 DEF r, n

LEMMA SublistAppend ==
    ASSUME NEW S, NEW r \in Seq(S), NEW list \in Seq(S), NEW n \in 1..Len(list),
           NEW kept \in SUBSET (1..(n - 1)), Sublist(r, list, kept)
    PROVE  Sublist(Append(r, list[n]), list, kept \cup {n})
  <1>0. Len(r) \in Nat /\ n \in Nat /\ list[n] \in S
    OBVIOUS
  <1>1. PICK w \in [1..Len(r) -> kept] :
           /\ \A j, k \in 1..Len(r) : j < k => w[j] < w[k]
           /\ \A a \in kept : \E j \in 1..Len(r) : w[j] = a
           /\ \A j \in 1..Len(r) : r[j] = list[w[j]]
    BY DEF Sublist
  <1> DEFINE m == Len(r) + 1
             r2 == Append(r, list[n])
             v == [j \in 1..m |-> IF j = m THEN n ELSE w[j]]
  <1>2. Len(r2) = m /\ r2[m] = list[n] /\ \A j \in 1..Len(r) : r2[j] = r[j]
    BY <1>0
  <1>3. \A j : j \in 1..m <=> j \in 1..Len(r) \/ j = m
    BY <1>0
  <1>4. ASSUME NEW j \in 1..Len(r)
        PROVE  j # m /\ j < m /\ v[j] = w[j] /\ w[j] \in kept /\ w[j] < n
    <2>1. j # m /\ j < m /\ j \in 1..m
      BY <1>0
    <2>2. w[j] \in kept
      OBVIOUS
    <2>3. w[j] \in 1..(n - 1)
      BY <2>2
    <2>4. w[j] < n
      BY <1>0, <2>3
    <2> HIDE DEF m
    <2> QED
      BY <2>1, <2>2, <2>4
  <1>5. v[m] = n /\ m \in 1..m /\ m \in Nat
    BY <1>0
  <1> HIDE DEF m, r2
  <1>6. v \in [1..m -> kept \cup {n}]
    BY <1>3, <1>4, <1>5
  <1> HIDE DEF v
  <1>7. \A j, k \in 1..m : j < k => v[j] < v[k]
    <2> SUFFICES ASSUME NEW j \in 1..m, NEW k \in 1..m, j < k PROVE v[j] < v[k]
      OBVIOUS
    <2>1. j \in 1..Len(r)
      BY <1>0, <1>3 DEF m
    <2>2. CASE k = m
      BY <1>4, <1>5, <2>1, <2>2
    <2>3. CASE k \in 1..Len(r)
      BY <1>1, <1>4, <2>1, <2>3
    <2> QED
      BY <1>3, <2>2, <2>3
  <1>8. \A a \in kept \cup {n} : \E j \in 1..m : v[j] = a
    BY <1>1, <1>3, <1>4, <1>5
  <1>9. \A j \in 1..m : r2[j] = list[v[j]]
    BY <1>1, <1>2, <1>3, <1>4, <1>5
  <1>10. Sublist(r2, list, kept \cup {n})
    BY <1>2, <1>6, <1>7, <1>8, <1>9 DEF Sublist
  <1> QED
    BY <1>10 DEF r2

\* The walk that unlinks entries, as far as it got: f[n] is what it leaves of the
\* first n entries.
IsWalk(f, list, old, n) ==
    /\ f = [k \in 0..n |-> f[k]]
    /\ f[0] = <<>>
    /\ \A k \in 1..n : f[k] = IF k \in old THEN f[k - 1] ELSE Append(f[k - 1], list[k])

LEMMA WalkExists ==
    ASSUME NEW list, NEW old, NEW n \in Nat
    PROVE  \E f : IsWalk(f, list, old, n)
  <1> DEFINE T == {m \in Nat : ~\E f : IsWalk(f, list, old, m)}
  <1> SUFFICES ASSUME T # {} PROVE FALSE
    OBVIOUS
  <1>1. PICK m \in T : \A k \in T : m <= k
    BY NatMin
  <1>2. CASE m = 0
    <2>1. IsWalk([k \in 0..0 |-> <<>>], list, old, 0)
      BY DEF IsWalk
    <2> QED
      BY <1>2, <2>1
  <1>3. CASE m # 0
    <2>1. m \in Nat /\ m - 1 \in Nat /\ m - 1 \notin T
      BY <1>1, <1>3
    <2>2. PICK f : IsWalk(f, list, old, m - 1)
      BY <2>1
    <2> DEFINE last == IF m \in old THEN f[m - 1] ELSE Append(f[m - 1], list[m])
               g == [k \in 0..m |-> IF k = m THEN last ELSE f[k]]
    <2>3. /\ g[m] = last
          /\ \A k \in 0..(m - 1) : g[k] = f[k]
      BY <2>1
    <2>4. 0 \in 0..(m - 1) /\ m - 1 \in 0..(m - 1)
      BY <1>3, <2>1
    <2>5. g = [k \in 0..m |-> g[k]]
      OBVIOUS
    <2> HIDE DEF g, last
    <2>6. ASSUME NEW k \in 1..m
          PROVE  g[k] = IF k \in old THEN g[k - 1] ELSE Append(g[k - 1], list[k])
      <3>1. CASE k = m
        BY <2>3, <2>4, <3>1 DEF last
      <3>2. CASE k # m
        <4>1. k \in 1..(m - 1) /\ k \in 0..(m - 1) /\ k - 1 \in 0..(m - 1)
          BY <2>1, <3>2
        <4> QED
          BY <2>2, <2>3, <4>1 DEF IsWalk
      <3> QED
        BY <3>1, <3>2
    <2>7. g[0] = <<>>
      BY <2>2, <2>3, <2>4 DEF IsWalk
    <2>8. IsWalk(g, list, old, m)
      BY <2>5, <2>6, <2>7 DEF IsWalk
    <2> QED
      BY <2>8
  <1> QED
    BY <1>2, <1>3

\* So the recursion in Unlink defines its function.
LEMMA UnlinkWalk ==
    ASSUME NEW S, NEW list \in Seq(S), NEW old
    PROVE  \E f : IsWalk(f, list, old, Len(list)) /\ Unlink(list, old) = f[Len(list)]
  <1> DEFINE n == Len(list)
             Rec(g) == [k \in 0..n |-> IF k = 0 THEN <<>>
                                       ELSE IF k \in old THEN g[k - 1]
                                       ELSE Append(g[k - 1], list[k])]
             left == CHOOSE g : g = Rec(g)
  <1>1. n \in Nat
    OBVIOUS
  <1>2. \E g : g = Rec(g)
    <2>1. PICK g : IsWalk(g, list, old, n)
      BY <1>1, WalkExists
    <2> HIDE DEF n
    <2>2. ASSUME NEW k \in 0..n
          PROVE  g[k] = IF k = 0 THEN <<>>
                        ELSE IF k \in old THEN g[k - 1] ELSE Append(g[k - 1], list[k])
      <3>1. k = 0 \/ k \in 1..n
        BY <1>1
      <3>2. CASE k = 0
        BY <2>1, <3>2 DEF IsWalk
      <3>3. CASE k \in 1..n
        <4>1. k # 0
          BY <3>3
        <4> QED
          BY <2>1, <3>3, <4>1 DEF IsWalk
      <3> QED
        BY <3>1, <3>2, <3>3
    <2>3. g = [k \in 0..n |-> g[k]]
      BY <2>1 DEF IsWalk
    <2>4. [k \in 0..n |-> g[k]] = Rec(g)
      BY <2>2
    <2> QED
      BY <2>3, <2>4
  <1>3. left = Rec(left)
    BY <1>2
  <1>4. Unlink(list, old) = left[n]
    BY DEF Unlink
  <1> HIDE DEF left, n
  <1>5. ASSUME NEW k \in 0..n
        PROVE  left[k] = IF k = 0 THEN <<>>
                         ELSE IF k \in old THEN left[k - 1] ELSE Append(left[k - 1], list[k])
    BY <1>3
  <1>6. left = [k \in 0..n |-> left[k]]
    BY <1>3, <1>5
  <1>7. left[0] = <<>>
    BY <1>1, <1>5
  <1>8. \A k \in 1..n : k \in 0..n /\ k # 0
    BY <1>1
  <1>9. IsWalk(left, list, old, n)
    BY <1>5, <1>6, <1>7, <1>8 DEF IsWalk
  <1> QED
    BY <1>4, <1>9 DEF n

LEMMA UnlinkSublist ==
    ASSUME NEW S, NEW list \in Seq(S), NEW old
    PROVE  /\ Unlink(list, old) \in Seq(S)
           /\ Sublist(Unlink(list, old), list, 1..Len(list) \ old)
  <1>1. PICK f : IsWalk(f, list, old, Len(list)) /\ Unlink(list, old) = f[Len(list)]
    BY UnlinkWalk
  <1> DEFINE Good(m) == f[m] \in Seq(S) /\ Sublist(f[m], list, 1..m \ old)
             T == {m \in 0..Len(list) : ~Good(m)}
  <1>2. Len(list) \in Nat /\ 0..Len(list) \subseteq Nat
    OBVIOUS
  <1>3. T = {}
    <2> SUFFICES ASSUME T # {} PROVE FALSE
      OBVIOUS
    <2>1. T \in SUBSET Nat
      BY <1>2
    <2>2. PICK m \in T : \A k \in T : m <= k
      BY <2>1, NatMin
    <2>3. CASE m = 0
      <3>1. f[0] = <<>> /\ 1..0 \ old = {} /\ Len(<<>>) = 0
        BY <1>1 DEF IsWalk
      <3>2. [j \in 1..0 |-> j] \in [1..0 -> {}]
        OBVIOUS
      <3>3. Sublist(<<>>, list, {})
        BY <3>1, <3>2 DEF Sublist
      <3>4. <<>> \in Seq(S)
        OBVIOUS
      <3> QED
        BY <2>2, <2>3, <3>1, <3>3, <3>4
    <2>4. CASE m # 0
      <3>1. m \in 1..Len(list) /\ m - 1 \in 0..Len(list) /\ ~(m <= m - 1)
        BY <1>2, <2>2, <2>4
      <3>2. Good(m - 1)
        BY <2>2, <3>1
      <3>3. f[m] = IF m \in old THEN f[m - 1] ELSE Append(f[m - 1], list[m])
        BY <1>1, <3>1 DEF IsWalk
      <3>4. CASE m \in old
        <4>1. 1..m \ old = 1..(m - 1) \ old
          BY <3>1, <3>4
        <4> QED
          BY <2>2, <3>2, <3>3, <3>4, <4>1
      <3>5. CASE m \notin old
        <4>1. 1..m \ old = (1..(m - 1) \ old) \cup {m}
          BY <3>1, <3>5
        <4>2. 1..(m - 1) \ old \in SUBSET (1..(m - 1))
          OBVIOUS
        <4>3. Sublist(Append(f[m - 1], list[m]), list, (1..(m - 1) \ old) \cup {m})
          BY <3>1, <3>2, <4>2, SublistAppend
        <4>4. list[m] \in S
          BY <3>1
        <4>5. Append(f[m - 1], list[m]) \in Seq(S)
          BY <3>2, <4>4
        <4> QED
          BY <2>2, <3>3, <3>5, <4>1, <4>3, <4>5
      <3> QED
        BY <3>4, <3>5
    <2> QED
      BY <2>3, <2>4
  <1>4. Good(Len(list))
    <2>1. Len(list) \in 0..Len(list)
      BY <1>2
    <2> HIDE DEF Good
    <2> QED
      BY <1>3, <2>1
  <1> QED
    BY <1>1, <1>4

\* What is left of a list holds the entries that were kept and stays sorted.
Sorted(list) == \A j, k \in 1..Len(list) : j < k => list[j].tag > list[k].tag

LEMMA SublistFacts ==
    ASSUME NEW r, NEW list, NEW kept \in SUBSET (1..Len(list)), Sublist(r, list, kept)
    PROVE  /\ \A j \in 1..Len(r) : \E a \in kept : r[j] = list[a]
           /\ \A a \in kept : \E j \in 1..Len(r) : r[j] = list[a]
           /\ Sorted(list) => Sorted(r)
  <1>1. PICK w \in [1..Len(r) -> kept] :
           /\ \A j, k \in 1..Len(r) : j < k => w[j] < w[k]
           /\ \A a \in kept : \E j \in 1..Len(r) : w[j] = a
           /\ \A j \in 1..Len(r) : r[j] = list[w[j]]
    BY DEF Sublist
  <1>2. \A j \in 1..Len(r) : w[j] \in kept
    OBVIOUS
  <1>3. \A a \in kept : a \in 1..Len(list)
    OBVIOUS
  <1>4. Sorted(list) => Sorted(r)
    <2> SUFFICES ASSUME Sorted(list), NEW j \in 1..Len(r), NEW k \in 1..Len(r), j < k
                 PROVE  r[j].tag > r[k].tag
      BY DEF Sorted
    <2>1. w[j] \in 1..Len(list) /\ w[k] \in 1..Len(list) /\ w[j] < w[k]
      BY <1>1, <1>2, <1>3
    <2>2. list[w[j]].tag > list[w[k]].tag
      BY <2>1 DEF Sorted
    <2> QED
      BY <1>1, <2>2
  <1>5. \A j \in 1..Len(r) : \E a \in kept : r[j] = list[a]
    BY <1>1, <1>2
  <1>6. \A a \in kept : \E j \in 1..Len(r) : r[j] = list[a]
    BY <1>1
  <1> QED
    BY <1>4, <1>5, <1>6

-----------------------------------------------------------------------------
(* The inductive invariant *)

\* What the hash table holds.
Entries == UNION {ToSet(snac_hash[i]) : i \in Buckets}

\* Each entry is in the list of its id, and the newest is first.
ListsOK ==
    \A b \in Buckets :
        /\ Sorted(snac_hash[b])
        /\ \A j \in 1..Len(snac_hash[b]) : snac_hash[b][j].id % HashSize = b

\* The id of a request is its number, as far as ids are wide enough.
Counted ==
    /\ snacid_next = (issued + 1) % IdMod
    /\ \A s \in Entries : s.tag \in 1..issued /\ s.id = s.tag % IdMod
    /\ \A r \in pending : r.tag <= issued /\ r.id = r.tag % IdMod

\* The server keeps one record of each request that has an id of its own.
Single == \A r, q \in pending : r.tag = q.tag /\ r.tag # 0 => r = q

\* A later request was issued no earlier.
Aged == /\ \A s \in Entries : s.issuetime <= now
        /\ \A s, t \in Entries : s.tag <= t.tag => s.issuetime <= t.issuetime

\* While an earlier entry with its id is left over, the entry of a request that the
\* server has yet to answer is there as well.  A second answer to it would have taken
\* that entry already, and so would one to an uncached request, whose id is 0.
Unanswered(r) == ~r.again /\ r.id # 0 /\ issued - r.tag < IdMod

Shadowed ==
    \A r \in pending, s \in Entries :
        Unanswered(r) /\ s.id = r.id /\ s.tag < r.tag => \E t \in Entries : t.tag = r.tag

IInv == TypeOK /\ ListsOK /\ Counted /\ Single /\ Aged /\ Shadowed

LEMMA BucketOf ==
    ASSUME NEW id \in Nat
    PROVE  id % HashSize \in Buckets
  BY SizesAssumption, DivMod DEF Buckets

LEMMA IdsAreNats == Ids \subseteq Nat /\ \A n \in Nat : n % IdMod \in Ids
  <1>1. IdMod \in Nat \ {0}
    BY SizesAssumption
  <1>2. \A n \in Nat : n % IdMod \in 0..(IdMod - 1)
    BY <1>1, DivMod
  <1> QED
    BY <1>1, <1>2 DEF Ids

LEMMA EntryAt ==
    ASSUME snac_hash \in [Buckets -> Seq(Snacs)]
    PROVE  \A s : s \in Entries <=> \E b \in Buckets : \E j \in 1..Len(snac_hash[b]) : s = snac_hash[b][j]
  <1>1. \A b \in Buckets : DOMAIN snac_hash[b] = 1..Len(snac_hash[b])
    BY LenProperties
  <1> QED
    BY <1>1 DEF Entries, ToSet

LEMMA ListType ==
    ASSUME snac_hash \in [Buckets -> Seq(Snacs)], NEW b \in Buckets
    PROVE  /\ snac_hash[b] \in Seq(Snacs) /\ Len(snac_hash[b]) \in Nat
           /\ \A j \in 1..Len(snac_hash[b]) : /\ snac_hash[b][j] \in Snacs
                                              /\ snac_hash[b][j].id \in Ids
                                              /\ snac_hash[b][j].tag \in Nat
                                              /\ snac_hash[b][j].issuetime \in Nat
  <1>1. snac_hash[b] \in Seq(Snacs)
    OBVIOUS
  <1>2. Len(snac_hash[b]) \in Nat /\ \A j \in 1..Len(snac_hash[b]) : snac_hash[b][j] \in Snacs
    BY <1>1, LenProperties, ElementOfSeq
  <1> QED
    BY <1>1, <1>2 DEF Snacs

LEMMA EntryType ==
    ASSUME TypeOK, NEW s \in Entries
    PROVE  s \in Snacs /\ s.id \in Ids /\ s.tag \in Nat /\ s.issuetime \in Nat
  <1>1. PICK b, j : b \in Buckets /\ j \in 1..Len(snac_hash[b]) /\ s = snac_hash[b][j]
    BY EntryAt DEF TypeOK
  <1>2. s \in Snacs
    BY <1>1, ListType DEF TypeOK
  <1> QED
    BY <1>2 DEF Snacs

\* Every entry is in the list its id says.
LEMMA EntryInList ==
    ASSUME TypeOK, ListsOK, NEW s \in Entries
    PROVE  \E j \in 1..Len(snac_hash[s.id % HashSize]) : s = snac_hash[s.id % HashSize][j]
  <1>1. PICK b, j : b \in Buckets /\ j \in 1..Len(snac_hash[b]) /\ s = snac_hash[b][j]
    BY EntryAt DEF TypeOK
  <1>2. s.id % HashSize = b
    BY <1>1 DEF ListsOK
  <1> QED
    BY <1>1, <1>2

\* No two entries stand for the same request.
LEMMA TagsUnique ==
    ASSUME TypeOK, ListsOK, Counted, NEW s \in Entries, NEW t \in Entries, s.tag = t.tag
    PROVE  s = t
  <1>1. s.id = t.id
    BY DEF Counted
  <1> DEFINE b == s.id % HashSize
  <1>2. PICK j \in 1..Len(snac_hash[b]) : s = snac_hash[b][j]
    BY EntryInList
  <1>3. PICK k \in 1..Len(snac_hash[b]) : t = snac_hash[b][k]
    BY <1>1, EntryInList
  <1>4. b \in Buckets
    BY EntryType, BucketOf, IdsAreNats
  <1> HIDE DEF b
  <1>5. s.tag \in Nat /\ t.tag \in Nat /\ j \in Nat /\ k \in Nat
    BY EntryType
  <1>6. ~(j < k) /\ ~(k < j)
    BY <1>2, <1>3, <1>4, <1>5 DEF ListsOK, Sorted
  <1> QED
    BY <1>2, <1>3, <1>5, <1>6

-----------------------------------------------------------------------------
(* What the operations do to the entries *)

LEMMA NewsnacEffect ==
    ASSUME TypeOK, ListsOK, NEW snac \in Snacs, aim_newsnac(snac),
           \A s \in Entries : s.tag < snac.tag
    PROVE  /\ snac_hash' \in [Buckets -> Seq(Snacs)]
           /\ Entries' = Entries \cup {snac}
           /\ ListsOK'
  <1> DEFINE b == snac.id % HashSize
             new == <<snac>> \o snac_hash[b]
  <1>1. b \in Buckets
    BY BucketOf, IdsAreNats DEF Snacs
  <1>2. snac_hash' = [snac_hash EXCEPT ![b] = new] /\ snac_hash \in [Buckets -> Seq(Snacs)]
    BY DEF aim_newsnac, TypeOK
  <1> DEFINE n == Len(snac_hash[b])
  <1>3. /\ new \in Seq(Snacs) /\ n \in Nat /\ Len(new) = n + 1
        /\ new[1] = snac
        /\ \A j \in 1..n : new[j + 1] = snac_hash[b][j]
    <2>1. snac_hash[b] \in Seq(Snacs) /\ <<snac>> \in Seq(Snacs)
      BY <1>1, <1>2
    <2>2. Len(<<snac>>) = 1 /\ <<snac>>[1] = snac /\ n \in Nat
      BY <2>1
    <2>3. /\ new \in Seq(Snacs) /\ Len(new) = 1 + n
          /\ \A j \in 1..(1 + n) : new[j] = IF j <= 1 THEN <<snac>>[j] ELSE snac_hash[b][j - 1]
      BY <2>1, <2>2, ConcatProperties
    <2> HIDE DEF new, n
    <2>4. new[1] = snac
      BY <2>2, <2>3
    <2>5. ASSUME NEW j \in 1..n PROVE new[j + 1] = snac_hash[b][j]
      <3>1. j + 1 \in 1..(1 + n) /\ ~(j + 1 <= 1) /\ (j + 1) - 1 = j
        BY <2>2
      <3> QED
        BY <2>3, <3>1
    <2> QED
      BY <2>2, <2>3, <2>4, <2>5
  <1> HIDE DEF new, b
  <1>4. \A j : j \in 1..(n + 1) <=> j = 1 \/ \E k \in 1..n : j = k + 1
    <2>1. \A j \in 2..(n + 1) : j - 1 \in 1..n /\ j = (j - 1) + 1
      BY <1>3
    <2>2. \A j \in 1..(n + 1) : j = 1 \/ j \in 2..(n + 1)
      BY <1>3
    <2>3. \A k \in 1..n : k + 1 \in 1..(n + 1)
      BY <1>3
    <2>4. 1 \in 1..(n + 1)
      BY <1>3
    <2> QED
      BY <2>1, <2>2, <2>3, <2>4
  <1>5. snac_hash' \in [Buckets -> Seq(Snacs)]
    BY <1>2, <1>3
  <1>6. \A c \in Buckets : snac_hash'[c] = IF c = b THEN new ELSE snac_hash[c]
    BY <1>2
  <1>7. \A s : s \in Entries' <=> \E c \in Buckets : \E j \in 1..Len(snac_hash'[c]) : s = snac_hash'[c][j]
    <2>1. \A c \in Buckets : DOMAIN snac_hash'[c] = 1..Len(snac_hash'[c])
      BY <1>5, LenProperties
    <2> QED
      BY <2>1 DEF Entries, ToSet
  <1>8. \A s : s \in Entries' <=> s \in Entries \/ s = snac
    <2>1. ASSUME NEW j \in 1..Len(new)
          PROVE  new[j] = snac \/ \E k \in 1..n : new[j] = snac_hash[b][k]
      <3>1. CASE j = 1
        BY <1>3, <3>1
      <3>2. ASSUME NEW k \in 1..n, j = k + 1 PROVE new[j] = snac_hash[b][k]
        BY <1>3, <3>2
      <3> QED
        BY <1>3, <1>4, <3>1, <3>2
    <2>2. \A k \in 1..n : \E j \in 1..Len(new) : new[j] = snac_hash[b][k]
      BY <1>3, <1>4
    <2>3. \E j \in 1..Len(new) : new[j] = snac
      BY <1>3, <1>4
    <2>4. \A s : s \in Entries <=> \E c \in Buckets : \E j \in 1..Len(snac_hash[c]) : s = snac_hash[c][j]
      BY <1>2, EntryAt
    <2>5. ASSUME NEW s \in Entries' PROVE s \in Entries \/ s = snac
      <3>1. PICK c, j : c \in Buckets /\ j \in 1..Len(snac_hash'[c]) /\ s = snac_hash'[c][j]
        BY <1>7
      <3>2. CASE c # b
        BY <1>6, <2>4, <3>1, <3>2
      <3>3. CASE c = b
        <4>1. j \in 1..Len(new) /\ s = new[j]
          BY <1>6, <3>1, <3>3
        <4> QED
          BY <1>1, <2>1, <2>4, <4>1
      <3> QED
        BY <3>2, <3>3
    <2>6. ASSUME NEW s \in Entries PROVE s \in Entries'
      <3>1. PICK c, j : c \in Buckets /\ j \in 1..Len(snac_hash[c]) /\ s = snac_hash[c][j]
        BY <2>4
      <3>2. CASE c # b
        BY <1>6, <1>7, <3>1, <3>2
      <3>3. CASE c = b
        BY <1>1, <1>6, <1>7, <2>2, <3>1, <3>3
      <3> QED
        BY <3>2, <3>3
    <2>7. snac \in Entries'
      BY <1>1, <1>6, <1>7, <2>3
    <2> QED
      BY <2>5, <2>6, <2>7
  <1>9. Sorted(new)
    <2> SUFFICES ASSUME NEW j \in 1..Len(new), NEW k \in 1..Len(new), j < k
                 PROVE  new[j].tag > new[k].tag
      BY DEF Sorted
    <2>1. PICK l \in 1..n : k = l + 1
      BY <1>3, <1>4
    <2>2. new[k] = snac_hash[b][l]
      BY <1>3, <2>1
    <2>6. new[k] \in Entries
      BY <1>1, <1>2, <2>2, EntryAt
    <2>3. new[k].tag < snac.tag /\ new[k].tag \in Nat /\ snac.tag \in Nat
      BY <2>6, EntryType DEF Snacs
    <2>4. CASE j = 1
      BY <1>3, <2>3, <2>4
    <2>5. ASSUME NEW i \in 1..n, j = i + 1 PROVE new[j].tag > new[k].tag
      <3>1. i < l
        BY <2>1, <2>5, <1>3
      <3>2. snac_hash[b][i].tag > snac_hash[b][l].tag
        BY <1>1, <3>1 DEF ListsOK, Sorted
      <3>3. new[j] = snac_hash[b][i]
        BY <1>3, <2>5
      <3> QED
        BY <2>2, <3>2, <3>3
    <2> QED
      BY <1>3, <1>4, <2>4, <2>5
  <1>10. ASSUME NEW j \in 1..Len(new)
         PROVE  new[j].id % HashSize = b
    <2>1. new[1].id % HashSize = b
      BY <1>3 DEF b
    <2>2. \A k \in 1..n : snac_hash[b][k].id % HashSize = b
      BY <1>1 DEF ListsOK
    <2>3. \A k \in 1..n : new[k + 1].id % HashSize = b
      BY <1>3, <2>2
    <2>4. j = 1 \/ \E k \in 1..n : j = k + 1
      BY <1>3, <1>4
    <2> QED
      BY <2>1, <2>3, <2>4
  <1>11. ListsOK'
    BY <1>1, <1>6, <1>9, <1>10 DEF ListsOK
  <1> QED
    BY <1>5, <1>8, <1>11

\* The newest entry under an id, as Map!Newest has it.
NewestEntry(id) ==
    {e \in Entries : e.id = id /\ \A d \in Entries : d.id = id => d.tag <= e.tag}

LEMMA RemsnacEffect ==
    ASSUME TypeOK, ListsOK, Counted, NEW id \in Ids, aim_remsnac(id)
    PROVE  /\ snac_hash' \in [Buckets -> Seq(Snacs)]
           /\ taken' = NewestEntry(id)
           /\ Entries' = Entries \ taken'
           /\ ListsOK'
  <1> DEFINE b == id % HashSize
             list == snac_hash[b]
             found == Positions(list, id)
             first == CHOOSE i \in found : \A j \in found : i <= j
             r == RemoveAt(list, first)
  <1>1. b \in Buckets
    BY BucketOf, IdsAreNats
  <1>2. IF found = {}
        THEN taken' = {} /\ UNCHANGED snac_hash
        ELSE taken' = {list[first]} /\ snac_hash' = [snac_hash EXCEPT ![b] = r]
    BY DEF aim_remsnac
  <1>3. /\ list \in Seq(Snacs) /\ Len(list) \in Nat /\ Sorted(list)
        /\ \A j \in 1..Len(list) : list[j] \in Snacs /\ list[j].tag \in Nat
    BY <1>1, ListType DEF TypeOK, ListsOK
  <1>4. \A i : i \in found <=> i \in 1..Len(list) /\ list[i].id = id
    BY DEF Positions
  <1>5. ASSUME NEW d \in Entries, d.id = id
        PROVE  \E k \in found : d = list[k]
    BY <1>4, <1>5, EntryInList
  <1> HIDE DEF found, first, list, r
  <1>6. CASE found = {}
    <2>1. NewestEntry(id) = {}
      BY <1>5, <1>6 DEF NewestEntry
    <2>2. taken' = {} /\ UNCHANGED snac_hash
      BY <1>2, <1>6
    <2> QED
      BY <2>1, <2>2 DEF TypeOK, Entries, ListsOK
  <1>7. CASE found # {}
    <2>1. found \in SUBSET Nat
      BY <1>4
    <2>2. first \in found /\ \A j \in found : first <= j
      <3>1. \E i \in found : \A j \in found : i <= j
        BY <1>7, <2>1, NatMin
      <3> QED
        BY <3>1 DEF first
    <2> DEFINE t == list[first]
               kept == 1..Len(list) \ {first}
    <2>3. first \in 1..Len(list) /\ t.id = id
      BY <1>4, <2>2
    <2>4. t \in Entries
      BY <1>1, <2>3, EntryAt DEF TypeOK, list
    <2>5. ASSUME NEW d \in Entries, d.id = id PROVE d.tag <= t.tag
      <3>1. PICK k \in found : d = list[k]
        BY <1>5, <2>5
      <3>2. k \in 1..Len(list) /\ first <= k /\ k \in Nat /\ first \in Nat
        BY <1>4, <2>1, <2>2
      <3>3. CASE k = first
        BY <1>3, <3>1, <3>2, <3>3
      <3>4. CASE first < k
        BY <1>3, <2>3, <3>1, <3>2, <3>4 DEF Sorted
      <3> QED
        BY <3>2, <3>3, <3>4
    <2>6. NewestEntry(id) = {t}
      <3>1. t \in NewestEntry(id)
        BY <2>3, <2>4, <2>5 DEF NewestEntry
      <3>2. ASSUME NEW e \in NewestEntry(id) PROVE e = t
        <4>1. e \in Entries /\ e.id = id /\ t.tag <= e.tag
          BY <2>3, <2>4 DEF NewestEntry
        <4>2. e.tag <= t.tag
          BY <2>5, <4>1
        <4>3. e.tag = t.tag
          BY <2>4, <4>1, <4>2, EntryType
        <4> QED
          BY <2>4, <4>1, <4>3, TagsUnique
      <3> QED
        BY <3>1, <3>2
    <2>7. taken' = {t} /\ snac_hash' = [snac_hash EXCEPT ![b] = r]
      BY <1>2, <1>7
    <2>8. r \in Seq(Snacs) /\ Sublist(r, list, kept)
      BY <1>3, <2>3, RemoveAtSublist DEF r
    <2>9. /\ \A j \in 1..Len(r) : \E a \in kept : r[j] = list[a]
          /\ \A a \in kept : \E j \in 1..Len(r) : r[j] = list[a]
          /\ Sorted(r)
      <3>1. kept \in SUBSET (1..Len(list))
        OBVIOUS
      <3> HIDE DEF kept
      <3>2. /\ \A j \in 1..Len(r) : \E a \in kept : r[j] = list[a]
            /\ \A a \in kept : \E j \in 1..Len(r) : r[j] = list[a]
            /\ Sorted(list) => Sorted(r)
        BY <2>8, <3>1, SublistFacts, Zenon
      <3> QED
        BY <1>3, <3>2
    <2>10. ASSUME NEW a \in kept PROVE list[a] # t /\ a \in 1..Len(list)
      <3>1. a \in 1..Len(list) /\ (a < first \/ first < a)
        BY <1>3, <2>3
      <3>2. list[a].tag # t.tag
        BY <1>3, <2>3, <3>1 DEF Sorted
      <3> QED
        BY <3>1, <3>2
    <2>11. ASSUME NEW a \in 1..Len(list), list[a] # t PROVE a \in kept
      BY <2>11
    <2> HIDE DEF kept, t, b
    <2>12. snac_hash' \in [Buckets -> Seq(Snacs)]
           /\ \A c \in Buckets : snac_hash'[c] = IF c = b THEN r ELSE snac_hash[c]
      BY <2>7, <2>8 DEF TypeOK
    <2>13. \A s : s \in Entries' <=> \E c \in Buckets : \E j \in 1..Len(snac_hash'[c]) : s = snac_hash'[c][j]
      <3>1. \A c \in Buckets : DOMAIN snac_hash'[c] = 1..Len(snac_hash'[c])
        BY <2>12, LenProperties
      <3> QED
        BY <3>1 DEF Entries, ToSet
    <2>14. \A s : s \in Entries <=> \E c \in Buckets : \E j \in 1..Len(snac_hash[c]) : s = snac_hash[c][j]
      BY EntryAt DEF TypeOK
    <2>15. ASSUME NEW s \in Entries' PROVE s \in Entries /\ s # t
      <3>1. PICK c, j : c \in Buckets /\ j \in 1..Len(snac_hash'[c]) /\ s = snac_hash'[c][j]
        BY <2>13
      <3>2. CASE c # b
        <4>1. s = snac_hash[c][j] /\ j \in 1..Len(snac_hash[c])
          BY <2>12, <3>1, <3>2
        <4>2. s \in Entries
          BY <2>14, <3>1, <4>1
        <4>3. s.id % HashSize = c
          BY <3>1, <4>1 DEF ListsOK
        <4>4. s.id # id
          BY <3>2, <4>3 DEF b
        <4> QED
          BY <2>3, <4>2, <4>4
      <3>3. CASE c = b
        <4>1. PICK a \in kept : s = list[a]
          BY <2>9, <2>12, <3>1, <3>3
        <4> QED
          BY <1>1, <2>10, <2>14, <4>1 DEF list
      <3> QED
        BY <3>2, <3>3
    <2>16. ASSUME NEW s \in Entries, s # t PROVE s \in Entries'
      <3>1. PICK c, j : c \in Buckets /\ j \in 1..Len(snac_hash[c]) /\ s = snac_hash[c][j]
        BY <2>14
      <3>2. CASE c # b
        BY <2>12, <2>13, <3>1, <3>2
      <3>3. CASE c = b
        <4>1. j \in kept /\ s = list[j]
          BY <2>11, <2>16, <3>1, <3>3 DEF list
        <4>2. PICK k \in 1..Len(r) : s = r[k]
          BY <2>9, <4>1
        <4> QED
          BY <2>12, <2>13, <3>1, <3>3, <4>2
      <3> QED
        BY <3>2, <3>3
    <2>17. \A j \in 1..Len(r) : r[j].id % HashSize = b
      <3> TAKE j \in 1..Len(r)
      <3>1. PICK a \in kept : r[j] = list[a]
        BY <2>9
      <3> QED
        BY <1>1, <2>10, <3>1 DEF ListsOK, list
    <2>18. ListsOK'
      BY <2>9, <2>12, <2>17 DEF ListsOK
    <2> QED
      BY <2>6, <2>7, <2>12, <2>15, <2>16, <2>18
  <1> QED
    BY <1>6, <1>7

LEMMA CleanEffect ==
    ASSUME TypeOK, ListsOK, NEW a \in Int, aim_cleansnacs(a)
    PROVE  /\ snac_hash' \in [Buckets -> Seq(Snacs)]
           /\ Entries' = {e \in Entries : now - e.issuetime <= a}
           /\ ListsOK'
  <1> DEFINE old(c) == {n \in 1..Len(snac_hash[c]) : now - snac_hash[c][n].issuetime > a}
             kept(c) == 1..Len(snac_hash[c]) \ old(c)
             r(c) == Unlink(snac_hash[c], old(c))
  <1>1. snac_hash' = [c \in Buckets |-> r(c)]
    BY DEF aim_cleansnacs
  <1>2. ASSUME NEW c \in Buckets
        PROVE  /\ r(c) \in Seq(Snacs)
               /\ \A j \in 1..Len(r(c)) : \E k \in kept(c) : r(c)[j] = snac_hash[c][k]
               /\ \A k \in kept(c) : \E j \in 1..Len(r(c)) : r(c)[j] = snac_hash[c][k]
               /\ Sorted(r(c))
    <2>1. snac_hash[c] \in Seq(Snacs) /\ Sorted(snac_hash[c])
      BY DEF TypeOK, ListsOK
    <2> HIDE DEF old
    <2>2. r(c) \in Seq(Snacs) /\ Sublist(r(c), snac_hash[c], kept(c))
      BY <2>1, UnlinkSublist
    <2>3. kept(c) \in SUBSET (1..Len(snac_hash[c]))
      OBVIOUS
    <2> HIDE DEF r, kept
    <2>4. /\ \A j \in 1..Len(r(c)) : \E k \in kept(c) : r(c)[j] = snac_hash[c][k]
          /\ \A k \in kept(c) : \E j \in 1..Len(r(c)) : r(c)[j] = snac_hash[c][k]
          /\ Sorted(snac_hash[c]) => Sorted(r(c))
      BY <2>2, <2>3, SublistFacts, Zenon
    <2> QED
      BY <2>1, <2>2, <2>4
  <1>3. ASSUME NEW c \in Buckets
        PROVE  \A k : k \in kept(c) <=> /\ k \in 1..Len(snac_hash[c])
                                        /\ now - snac_hash[c][k].issuetime <= a
    <2>1. now \in Nat /\ \A k \in 1..Len(snac_hash[c]) : snac_hash[c][k].issuetime \in Nat
      BY ListType DEF TypeOK
    <2> QED
      BY <2>1
  <1> HIDE DEF r, kept, old
  <1>4. /\ snac_hash' \in [Buckets -> Seq(Snacs)]
        /\ \A c \in Buckets : snac_hash'[c] = r(c)
    BY <1>1, <1>2
  <1>5. \A s : s \in Entries' <=> \E c \in Buckets : \E j \in 1..Len(r(c)) : s = r(c)[j]
    <2>1. \A c \in Buckets : DOMAIN snac_hash'[c] = 1..Len(snac_hash'[c])
      BY <1>4, LenProperties
    <2> QED
      BY <1>4, <2>1 DEF Entries, ToSet
  <1>6. \A s : s \in Entries <=> \E c \in Buckets : \E j \in 1..Len(snac_hash[c]) : s = snac_hash[c][j]
    BY EntryAt DEF TypeOK
  <1>7. ASSUME NEW s \in Entries' PROVE s \in Entries /\ now - s.issuetime <= a
    <2>1. PICK c, j : c \in Buckets /\ j \in 1..Len(r(c)) /\ s = r(c)[j]
      BY <1>5
    <2>2. PICK k \in kept(c) : s = snac_hash[c][k]
      BY <1>2, <2>1
    <2> QED
      BY <1>3, <1>6, <2>1, <2>2
  <1>8. ASSUME NEW s \in Entries, now - s.issuetime <= a PROVE s \in Entries'
    <2>1. PICK c, k : c \in Buckets /\ k \in 1..Len(snac_hash[c]) /\ s = snac_hash[c][k]
      BY <1>6
    <2>2. k \in kept(c)
      BY <1>3, <1>8, <2>1
    <2>3. PICK j \in 1..Len(r(c)) : r(c)[j] = s
      BY <1>2, <2>1, <2>2
    <2> QED
      BY <1>5, <2>1, <2>3
  <1>9. ASSUME NEW c \in Buckets, NEW j \in 1..Len(r(c)) PROVE r(c)[j].id % HashSize = c
    <2>1. PICK k \in kept(c) : r(c)[j] = snac_hash[c][k]
      BY <1>2
    <2> QED
      BY <1>3, <2>1 DEF ListsOK
  <1>10. ListsOK'
    BY <1>2, <1>4, <1>9 DEF ListsOK
  <1> QED
    BY <1>4, <1>7, <1>8, <1>10

-----------------------------------------------------------------------------
(* The invariant is inductive *)

LEMMA PendingType ==
    ASSUME TypeOK, NEW r \in pending
    PROVE  r \in Requests /\ r.id \in Ids /\ r.tag \in Nat /\ r.again \in BOOLEAN
  BY DEF TypeOK, Requests

\* Numbers that share an id are equal or a whole round of the ids apart.
LEMMA SameId ==
    ASSUME NEW m \in Nat, NEW n \in Nat, m % IdMod = n % IdMod, m < n
    PROVE  m + IdMod <= n
  <1>1. IdMod \in Nat \ {0}
    BY SizesAssumption
  <1>2. ASSUME n - m < IdMod PROVE FALSE
    <2>1. m <= n
      OBVIOUS
    <2>2. m = n
      BY <1>1, <1>2, <2>1, ModInjective
    <2> QED
      BY <2>2
  <1> QED
    BY <1>1, <1>2

\* The heart of the matter: the newest entry under the id of a reply, if there is
\* one, is the request that is answered, or the reply was not the first or not to a
\* cached request and the entry is at least a round of the ids older.
LEMMA AnswersItself ==
    ASSUME IInv, NEW r \in pending, r.tag # 0 => issued - r.tag < IdMod,
           NEW s \in NewestEntry(r.id)
    PROVE  \/ s.tag = r.tag
           \/ (r.again \/ r.id = 0) /\ s.tag + IdMod <= r.tag
           \/ r.tag = 0 /\ IdMod <= s.tag
  <1> USE DEF IInv
  <1>1. /\ r.tag \in Nat /\ r.tag <= issued /\ issued \in Nat
        /\ r.id = r.tag % IdMod /\ r.again \in BOOLEAN
    BY PendingType DEF Counted, TypeOK
  <1>2. /\ s \in Entries /\ s.id = r.id
        /\ \A d \in Entries : d.id = r.id => d.tag <= s.tag
    BY DEF NewestEntry
  <1>3. s.tag \in Nat /\ s.tag \in 1..issued /\ s.id = s.tag % IdMod
    BY <1>2, EntryType DEF Counted
  <1>4. IdMod \in Nat \ {0}
    BY SizesAssumption
  <1>5. CASE r.tag < s.tag
    <2>1. r.tag + IdMod <= s.tag
      BY <1>1, <1>2, <1>3, <1>5, SameId
    <2>2. r.tag = 0
      BY <1>1, <1>3, <1>4, <2>1
    <2> QED
      BY <1>4, <2>1, <2>2
  <1>6. CASE s.tag < r.tag
    <2>1. s.tag + IdMod <= r.tag
      BY <1>1, <1>2, <1>3, <1>6, SameId
    <2>2. r.again \/ r.id = 0
      <3> SUFFICES ASSUME ~r.again, r.id # 0 PROVE FALSE
        OBVIOUS
      <3>1. r.tag # 0
        BY <1>3, <1>6
      <3>2. Unanswered(r)
        BY <3>1 DEF Unanswered
      <3>3. PICK t \in Entries : t.tag = r.tag
        BY <1>2, <1>6, <3>2 DEF Shadowed
      <3>4. t.id = r.id
        BY <1>1, <3>3 DEF Counted
      <3>5. t.tag <= s.tag
        BY <1>2, <3>4
      <3> QED
        BY <1>1, <1>3, <1>6, <3>3, <3>5
    <2> QED
      BY <2>1, <2>2
  <1> QED
    BY <1>1, <1>3, <1>5, <1>6

LEMMA IssueNext ==
    ASSUME TypeOK, Counted
    PROVE  ((snacid_next + 1) % IdMod) = (issued + 2) % IdMod /\ (snacid_next + 1) % IdMod \in Ids
  <1>1. IdMod \in Nat \ {0} /\ issued + 1 \in Nat /\ snacid_next = (issued + 1) % IdMod
    BY SizesAssumption DEF TypeOK, Counted
  <1>2. issued \in Nat
    BY DEF TypeOK
  <1>3. (((issued + 1) % IdMod) + 1) % IdMod = ((issued + 1) + 1) % IdMod
    BY <1>1, ModSucc
  <1>4. (issued + 1) + 1 = issued + 2 /\ issued + 2 \in Nat
    BY <1>2
  <1> QED
    BY <1>1, <1>3, <1>4, IdsAreNats

LEMMA InvStep == IInv /\ [Next]_vars => IInv'
  <1> SUFFICES ASSUME IInv, [Next]_vars PROVE IInv'
    OBVIOUS
  <1> USE DEF IInv, cacheVars
  <1>0. /\ issued \in Nat /\ now \in Nat /\ snacid_next \in Ids /\ snacid_next \in Nat
        /\ IdMod \in Nat \ {0} /\ 0 \in Ids
    BY IdsAreNats, SizesAssumption DEF TypeOK, Ids
  <1>1. ASSUME aim_cachesnac PROVE IInv'
    <2> DEFINE snac == [id |-> snacid_next, tag |-> issued + 1, issuetime |-> now]
               req == [id |-> snacid_next, tag |-> issued + 1, again |-> FALSE]
    <2>1. /\ issued' = issued + 1 /\ snacid_next' = (snacid_next + 1) % IdMod
          /\ aim_newsnac(snac) /\ pending' = pending \cup {req}
          /\ asked' = NoId /\ taken' = {} /\ UNCHANGED now
      BY <1>1 DEF aim_cachesnac, Send
    <2>2. /\ snac \in Snacs /\ req \in Requests
          /\ snac.id = snacid_next /\ snac.tag = issued + 1 /\ snac.issuetime = now
          /\ req.id = snacid_next /\ req.tag = issued + 1
      BY <1>0 DEF Snacs, Requests
    <2> HIDE DEF snac, req
    <2>3. \A s \in Entries : s.tag \in Nat /\ s.tag <= issued /\ s.tag < snac.tag
      BY <1>0, <2>2, EntryType DEF Counted
    <2>4. snac_hash' \in [Buckets -> Seq(Snacs)] /\ Entries' = Entries \cup {snac} /\ ListsOK'
      BY <2>1, <2>2, <2>3, NewsnacEffect
    <2>5. TypeOK'
      BY <1>0, <2>1, <2>2, <2>4, IssueNext DEF TypeOK
    <2>6. Counted'
      <3>1. snacid_next' = (issued' + 1) % IdMod
        <4>1. issued' + 1 = issued + 2
          BY <1>0, <2>1
        <4> QED
          BY <2>1, <4>1, IssueNext
      <3>2. ASSUME NEW s \in Entries' PROVE s.tag \in 1..issued' /\ s.id = s.tag % IdMod
        <4>1. CASE s \in Entries
          BY <1>0, <2>1, <4>1 DEF Counted
        <4>2. CASE s = snac
          BY <1>0, <2>1, <2>2, <4>2 DEF Counted
        <4> QED
          BY <2>4, <4>1, <4>2
      <3>3. ASSUME NEW r \in pending'
            PROVE  r.tag <= issued' /\ r.id = r.tag % IdMod
        <4>1. CASE r \in pending
          BY <1>0, <2>1, <4>1, PendingType DEF Counted
        <4>2. CASE r = req
          BY <1>0, <2>1, <2>2, <4>2 DEF Counted
        <4> QED
          BY <2>1, <4>1, <4>2
      <3> QED
        BY <2>1, <3>1, <3>2, <3>3 DEF Counted
    <2>7. Aged'
      <3>1. \A s \in Entries : s.issuetime \in Nat /\ s.issuetime <= now
        BY EntryType DEF Aged
      <3> QED
        BY <1>0, <2>1, <2>2, <2>3, <2>4, <3>1 DEF Aged
    <2>8. Shadowed'
      <3> SUFFICES ASSUME NEW r \in pending', NEW s \in Entries', Unanswered(r)',
                          s.id = r.id, s.tag < r.tag
                   PROVE  \E t \in Entries' : t.tag = r.tag
        BY DEF Shadowed
      <3>1. CASE r = req
        BY <2>2, <2>4, <3>1
      <3>2. CASE r \in pending
        <4>1. s # snac
          BY <1>0, <2>2, <3>2, PendingType DEF Counted
        <4>2. Unanswered(r)
          BY <1>0, <2>1, <3>2, PendingType DEF Unanswered
        <4> QED
          BY <2>4, <3>2, <4>1, <4>2 DEF Shadowed
      <3> QED
        BY <2>1, <3>1, <3>2
    <2>9. Single'
      <3>1. \A r \in pending : r.tag # req.tag
        BY <1>0, <2>2, PendingType DEF Counted
      <3> QED
        BY <2>1, <3>1 DEF Single
    <2> QED
      BY <2>4, <2>5, <2>6, <2>7, <2>8, <2>9
  <1>a. ASSUME Send(0, 0)
        PROVE  /\ pending' \subseteq Requests
               /\ \A r \in pending' : r \in pending \/ (r.id = 0 /\ r.tag = 0)
    <2> DEFINE req == [id |-> 0, tag |-> 0, again |-> FALSE]
    <2>1. pending' = pending \cup {req}
      BY <1>a DEF Send
    <2>2. req \in Requests /\ req.id = 0 /\ req.tag = 0
      BY <1>0 DEF Requests
    <2> HIDE DEF req
    <2> QED
      BY <2>1, <2>2 DEF TypeOK
  <1>b. 0 % IdMod = 0
    BY <1>0
  <1>2. ASSUME CacheSnacFails PROVE IInv'
    <2>1. /\ issued' = issued + 1 /\ snacid_next' = (snacid_next + 1) % IdMod
          /\ Send(0, 0) /\ asked' = NoId /\ taken' = {} /\ UNCHANGED <<snac_hash, now>>
      BY <1>2 DEF CacheSnacFails
    <2>2. /\ pending' \subseteq Requests
          /\ \A r \in pending' : r \in pending \/ (r.id = 0 /\ r.tag = 0)
      BY <1>a, <2>1
    <2>3. TypeOK'
      BY <1>0, <2>1, <2>2, IssueNext DEF TypeOK
    <2>4. Entries' = Entries /\ ListsOK' /\ Aged'
      BY <2>1 DEF Entries, ListsOK, Aged
    <2>5. Counted'
      <3>1. snacid_next' = (issued' + 1) % IdMod
        <4>1. issued' + 1 = issued + 2
          BY <1>0, <2>1
        <4> QED
          BY <2>1, <4>1, IssueNext
      <3>2. \A s \in Entries : s.tag \in 1..issued' /\ s.id = s.tag % IdMod
        BY <1>0, <2>1 DEF Counted
      <3>3. \A r \in pending' : r.tag <= issued' /\ r.id = r.tag % IdMod
        BY <1>0, <1>b, <2>1, <2>2, PendingType DEF Counted
      <3> QED
        BY <2>1, <2>4, <3>1, <3>2, <3>3 DEF Counted
    <2>6. Single'
      BY <2>2 DEF Single
    <2>7. Shadowed'
      <3>1. \A r \in pending' : Unanswered(r)' => r \in pending /\ Unanswered(r)
        BY <1>0, <2>1, <2>2, PendingType DEF Unanswered
      <3> QED
        BY <2>4, <3>1 DEF Shadowed
    <2> QED
      BY <2>3, <2>4, <2>5, <2>6, <2>7
  <1>3. ASSUME aim_genericreq_n PROVE IInv'
    <2>1. Send(0, 0) /\ UNCHANGED <<snac_hash, snacid_next, issued, now, asked, taken>>
      BY <1>3 DEF aim_genericreq_n
    <2>2. /\ pending' \subseteq Requests
          /\ \A r \in pending' : r \in pending \/ (r.id = 0 /\ r.tag = 0)
      BY <1>a, <2>1
    <2>3. Entries' = Entries /\ ListsOK' /\ Aged' /\ TypeOK'
      BY <2>1, <2>2 DEF Entries, ListsOK, Aged, TypeOK
    <2>4. Counted'
      BY <1>0, <1>b, <2>1, <2>2, <2>3 DEF Counted
    <2>5. Single'
      BY <2>2 DEF Single
    <2>6. Shadowed'
      <3>1. \A r \in pending' : Unanswered(r)' => r \in pending /\ Unanswered(r)
        BY <2>1, <2>2 DEF Unanswered
      <3> QED
        BY <2>3, <3>1 DEF Shadowed
    <2> QED
      BY <2>3, <2>4, <2>5, <2>6
  <1>4. ASSUME NEW r \in pending, Reply(r) PROVE IInv'
    <2> DEFINE more == [r EXCEPT !.again = TRUE]
    <2>1. /\ r.tag # 0 => issued - r.tag < IdMod
          /\ asked' = r.id /\ aim_remsnac(r.id)
          /\ pending' = pending \ {r} \/ pending' = (pending \ {r}) \cup {more}
          /\ UNCHANGED <<snacid_next, issued, now>>
      BY <1>4 DEF Reply
    <2>2. r \in Requests /\ r.id \in Ids /\ r.tag \in Nat
      BY PendingType
    <2>3. /\ more \in Requests /\ more.id = r.id /\ more.tag = r.tag /\ more.again = TRUE
      BY <2>2 DEF Requests
    <2> HIDE DEF more
    <2>4. \A q \in pending' : (q \in pending /\ q # r) \/ q = more
      BY <2>1
    <2>5. /\ snac_hash' \in [Buckets -> Seq(Snacs)] /\ taken' = NewestEntry(r.id)
          /\ Entries' = Entries \ taken' /\ ListsOK'
      BY <2>1, <2>2, RemsnacEffect
    <2>6. TypeOK'
      <3>1. taken' \subseteq Snacs
        BY <2>5, EntryType DEF NewestEntry
      <3>2. pending' \subseteq Requests
        BY <2>3, <2>4, PendingType
      <3> QED
        BY <2>1, <2>2, <2>5, <3>1, <3>2 DEF TypeOK
    <2>7. Counted' /\ Aged'
      <3>1. \A q \in pending' : q.tag <= issued /\ q.id = q.tag % IdMod
        BY <2>3, <2>4 DEF Counted
      <3> QED
        BY <2>1, <2>5, <3>1 DEF Counted, Aged
    <2>8. Single'
      <3>1. \A q \in pending : q # r => q.tag # r.tag \/ q.tag = 0
        BY DEF Single
      <3> QED
        BY <2>3, <2>4, <3>1 DEF Single
    <2>9. Shadowed'
      <3> SUFFICES ASSUME NEW q \in pending', NEW s \in Entries', Unanswered(q)',
                          s.id = q.id, s.tag < q.tag
                   PROVE  \E t \in Entries' : t.tag = q.tag
        BY DEF Shadowed
      <3>1. q \in pending /\ q # r /\ s \in Entries /\ Unanswered(q)
        BY <2>1, <2>3, <2>4, <2>5 DEF Unanswered
      <3>2. PICK t \in Entries : t.tag = q.tag
        BY <3>1 DEF Shadowed
      <3>3. CASE t \notin taken'
        BY <2>5, <3>2, <3>3
      <3>4. CASE t \in taken'
        <4>1. /\ q.tag \in Nat /\ q.tag <= issued /\ q.id = q.tag % IdMod
              /\ r.tag \in Nat /\ r.tag <= issued /\ r.id = r.tag % IdMod
              /\ issued \in Nat /\ IdMod \in Nat \ {0}
          BY <1>0, <3>1, PendingType DEF Counted
        <4>2. t.id = r.id /\ t.id = t.tag % IdMod
          BY <2>5, <3>2, <3>4 DEF NewestEntry, Counted
        <4>3. q.id = r.id
          BY <3>2, <4>1, <4>2
        <4>4. q.id # 0 /\ issued - q.tag < IdMod
          BY <3>1 DEF Unanswered
        <4>5. q.tag # 0 /\ r.tag # 0
          BY <1>b, <4>1, <4>3, <4>4
        <4>6. ~(q.tag < r.tag) /\ ~(r.tag < q.tag)
          <5>1. issued - r.tag < IdMod
            BY <2>1, <4>5
          <5>2. q.tag < r.tag => q.tag + IdMod <= r.tag
            BY <4>1, <4>3, SameId
          <5>3. r.tag < q.tag => r.tag + IdMod <= q.tag
            BY <4>1, <4>3, SameId
          <5> QED
            BY <4>1, <4>4, <5>1, <5>2, <5>3
        <4>7. q.tag = r.tag
          BY <4>1, <4>6
        <4> QED
          BY <3>1, <4>5, <4>7 DEF Single
      <3> QED
        BY <3>3, <3>4
    <2> QED
      BY <2>5, <2>6, <2>7, <2>8, <2>9
  <1>5. ASSUME NEW r \in pending, NeverLookedUp(r) PROVE IInv'
    <2>1. UNCHANGED cacheVars /\ pending' = pending \ {r}
      BY <1>5 DEF NeverLookedUp
    <2>2. /\ Entries' = Entries /\ ListsOK' /\ Aged' /\ TypeOK'
          /\ Single' /\ Shadowed'
      BY <2>1 DEF Entries, ListsOK, Aged, Unanswered, Shadowed, TypeOK, Single
    <2> QED
      BY <2>1, <2>2 DEF Counted
  <1>6. ASSUME NEW a \in Ages, aim_cleansnacs(a) PROVE IInv'
    <2>1. UNCHANGED <<snacid_next, issued, now, pending>> /\ asked' = NoId /\ taken' = {}
      BY <1>6 DEF aim_cleansnacs
    <2>2. a \in Int
      BY AgesAssumption
    <2>3. /\ snac_hash' \in [Buckets -> Seq(Snacs)] /\ ListsOK'
          /\ Entries' = {e \in Entries : now - e.issuetime <= a}
      BY <1>6, <2>2, CleanEffect
    <2>4. TypeOK' /\ Counted' /\ Aged' /\ Single'
      BY <2>1, <2>3 DEF TypeOK, Counted, Aged, Single
    <2>5. Shadowed'
      <3> SUFFICES ASSUME NEW r \in pending, NEW s \in Entries', Unanswered(r),
                          s.id = r.id, s.tag < r.tag
                   PROVE  \E t \in Entries' : t.tag = r.tag
        BY <2>1 DEF Shadowed, Unanswered
      <3>1. s \in Entries /\ now - s.issuetime <= a
        BY <2>3
      <3>2. PICK t \in Entries : t.tag = r.tag
        BY <3>1 DEF Shadowed
      <3>3. s.tag \in Nat /\ t.tag \in Nat /\ s.issuetime \in Nat /\ t.issuetime \in Nat
        BY <3>1, EntryType
      <3>4. s.issuetime <= t.issuetime
        BY <3>1, <3>2, <3>3 DEF Aged
      <3>5. now - t.issuetime <= a
        BY <1>0, <2>2, <3>1, <3>3, <3>4
      <3> QED
        BY <2>3, <3>2, <3>5
    <2> QED
      BY <2>3, <2>4, <2>5
  <1>7. ASSUME Tick PROVE IInv'
    <2>1. now' = now + 1 /\ UNCHANGED <<snac_hash, snacid_next, issued, asked, taken, pending>>
      BY <1>7 DEF Tick
    <2>2. Entries' = Entries /\ ListsOK' /\ Shadowed' /\ Single' /\ TypeOK'
      BY <1>0, <2>1 DEF Entries, ListsOK, Shadowed, Unanswered, Single, TypeOK
    <2>3. Counted'
      BY <2>1, <2>2 DEF Counted
    <2>4. Aged'
      BY <1>0, <2>1, <2>2, EntryType DEF Aged
    <2> QED
      BY <2>2, <2>3, <2>4
  <1>8. CASE UNCHANGED vars
    <2>1. Entries' = Entries /\ ListsOK' /\ Shadowed' /\ Single' /\ TypeOK'
      BY <1>8 DEF vars, Entries, ListsOK, Shadowed, Unanswered, Single, TypeOK
    <2> QED
      BY <1>8, <2>1 DEF vars, Counted, Aged
  <1> QED
    BY <1>1, <1>2, <1>3, <1>4, <1>5, <1>6, <1>7, <1>8 DEF Next

LEMMA InitInv == Init => IInv
  <1> SUFFICES ASSUME Init PROVE IInv
    OBVIOUS
  <1>1. IdMod \in Nat /\ 1 < IdMod /\ 0 \in Ids /\ 1 \in Ids /\ (0 + 1) % IdMod = 1
    BY SizesAssumption DEF Ids
  <1>2. /\ snac_hash = [i \in Buckets |-> <<>>] /\ snacid_next = 1 /\ issued = 0 /\ now = 0
        /\ asked = NoId /\ taken = {} /\ pending = {}
    BY DEF Init
  <1>3. snac_hash \in [Buckets -> Seq(Snacs)]
    BY <1>2
  <1>4. Entries = {}
    BY <1>2, <1>3, EntryAt
  <1>5. TypeOK
    BY <1>1, <1>2, <1>3 DEF TypeOK
  <1>6. ListsOK
    BY <1>2 DEF ListsOK, Sorted
  <1>7. Counted
    BY <1>1, <1>2, <1>4 DEF Counted
  <1>8. Aged /\ Shadowed /\ Single
    BY <1>2, <1>4 DEF Aged, Shadowed, Single
  <1> QED
    BY <1>5, <1>6, <1>7, <1>8 DEF IInv

\* The cache keeps its type; in particular ids stay within aim_snacid_t (snac.c:31-48).
THEOREM TypeCorrect == Spec => []TypeOK
  <1>1. IInv => TypeOK
    BY DEF IInv
  <1> QED
    BY <1>1, InitInv, InvStep, PTL DEF Spec

\* Whatever stays unanswered, comes late, twice or out of order, is not cached or is
\* forgotten, and however often the ids have wrapped around, all at once: as long as the
\* server answers no request whose id was given out again, aim_remsnac (snac.c:82-105)
\* returns for the first answer to a request with an id of its own that request, or
\* nothing.  Only a repeated answer or one with id 0 can find another request, and then
\* one whose number is IdMod or more away; a repeated answer finds an older one.
THEOREM RightRequestReturned == Spec => RightRequest
  <1>1. IInv /\ [Next]_vars =>
            [\A r \in pending : Reply(r) => \A s \in taken' :
                \/ s.tag = r.tag
                \/ (r.again \/ r.id = 0) /\ s.tag + IdMod <= r.tag
                \/ r.tag = 0 /\ IdMod <= s.tag]_vars
    <2> SUFFICES ASSUME IInv, NEW r \in pending, Reply(r), NEW s \in taken'
                 PROVE  \/ s.tag = r.tag
                        \/ (r.again \/ r.id = 0) /\ s.tag + IdMod <= r.tag
                        \/ r.tag = 0 /\ IdMod <= s.tag
      OBVIOUS
    <2>1. r.id \in Ids /\ (r.tag # 0 => issued - r.tag < IdMod) /\ aim_remsnac(r.id)
      BY PendingType DEF Reply, IInv
    <2>2. s \in NewestEntry(r.id)
      BY <2>1, RemsnacEffect DEF IInv
    <2> QED
      BY <2>1, <2>2, AnswersItself
  <1> QED
    BY <1>1, InitInv, InvStep, PTL DEF Spec, RightRequest

-----------------------------------------------------------------------------
(* The hash table implements the collection of outstanding requests *)

LEMMA MapStep == IInv /\ [Next]_vars => [Map!Next]_(Map!vars)
  <1> SUFFICES ASSUME IInv, [Next]_vars PROVE [Map!Next]_(Map!vars)
    OBVIOUS
  <1> USE DEF IInv, cacheVars
  <1>0. /\ issued \in Nat /\ now \in Nat /\ snacid_next \in Ids /\ NoId = Map!NoId
        /\ snac_hash \in [Buckets -> Seq(Snacs)]
    BY DEF TypeOK, NoId, Map!NoId
  <1>1. ASSUME aim_cachesnac PROVE Map!Issue
    <2> DEFINE snac == [id |-> snacid_next, tag |-> issued + 1, issuetime |-> now]
    <2>1. /\ issued < MaxReqs /\ issued' = issued + 1 /\ snacid_next' = (snacid_next + 1) % IdMod
          /\ aim_newsnac(snac) /\ asked' = NoId /\ taken' = {} /\ UNCHANGED now
      BY <1>1 DEF aim_cachesnac
    <2>2. snac \in Snacs /\ snac.tag = issued + 1
      BY <1>0 DEF Snacs
    <2>3. \A s \in Entries : s.tag < issued + 1
      BY <1>0, EntryType DEF Counted
    <2>4. Entries' = Entries \cup {snac}
      BY <2>1, <2>2, <2>3, NewsnacEffect
    <2>5. snac = [id |-> snacid_next, tag |-> issued', issuetime |-> now]
      BY <2>1
    <2> HIDE DEF snac
    <2> QED
      BY <1>0, <2>1, <2>4, <2>5 DEF Map!Issue, Entries
  <1>2. ASSUME CacheSnacFails PROVE Map!Issue
    BY <1>0, <1>2 DEF CacheSnacFails, Map!Issue
  <1>3. ASSUME NEW r \in pending, Reply(r) PROVE \E id \in 0..(IdMod - 1) : Map!Take(id)
    <2>1. r.id \in Ids /\ asked' = r.id /\ aim_remsnac(r.id) /\ UNCHANGED <<snacid_next, issued, now>>
      BY <1>3, PendingType DEF Reply
    <2>2. taken' = NewestEntry(r.id) /\ Entries' = Entries \ taken'
      BY <2>1, RemsnacEffect
    <2>3. NewestEntry(r.id) = Map!Newest(r.id)
      BY DEF NewestEntry, Entries, Map!Newest
    <2>4. Map!Take(r.id)
      BY <2>1, <2>2, <2>3 DEF Map!Take, Entries
    <2> QED
      BY <2>1, <2>4 DEF Ids
  <1>4. ASSUME NEW a \in Ages, aim_cleansnacs(a) PROVE Map!Expire(a)
    <2>1. UNCHANGED <<snacid_next, issued, now>> /\ asked' = NoId /\ taken' = {}
      BY <1>4 DEF aim_cleansnacs
    <2>2. Entries' = {e \in Entries : now - e.issuetime <= a}
      BY <1>4, AgesAssumption, CleanEffect
    <2> QED
      BY <1>0, <2>1, <2>2 DEF Map!Expire, Entries
  <1>5. ASSUME Tick PROVE Map!Tick
    BY <1>5 DEF Tick, Map!Tick
  <1>6. ASSUME UNCHANGED cacheVars PROVE UNCHANGED Map!vars
    BY <1>6 DEF Map!vars
  <1> QED
    BY <1>1, <1>2, <1>3, <1>4, <1>5, <1>6 DEF Next, Map!Next, vars, aim_genericreq_n,
       NeverLookedUp

\* The table of lists behaves as the collection of SnacMap at every step: a lookup
\* takes the newest request under an id and no other, although aim_remsnac stops at the
\* first match in the list, and aim_cleansnacs, which unlinks while it walks
\* (snac.c:107-135), drops exactly what is too old.
THEOREM HashTableImplementsMap == Spec => ImplementsMap
  <1>1. Init => Map!Init
    <2> SUFFICES ASSUME Init PROVE Map!Init
      OBVIOUS
    <2>1. snac_hash \in [Buckets -> Seq(Snacs)] /\ \A b \in Buckets : Len(snac_hash[b]) = 0
      BY DEF Init
    <2>2. Entries = {}
      BY <2>1, EntryAt
    <2> QED
      BY <2>2 DEF Init, Map!Init, Entries, NoId, Map!NoId
  <1> QED
    BY <1>1, MapStep, InitInv, InvStep, PTL DEF Spec, ImplementsMap, Map!Spec
=============================================================================
