--------------------------- MODULE RequestsProofs ---------------------------
(***************************************************************************)
(* Proofs about Requests.  A frame carries the id its request was cached   *)
(* under, wherever the rest of it ends and whatever did not fit; so what a *)
(* handler takes from the cache for an answer is what was kept with the    *)
(* request that is answered.                                               *)
(***************************************************************************)
EXTENDS Requests, TlvProofs

-----------------------------------------------------------------------------
(* Numbers of 32 bits *)

LEMMA ByteAt ==
    ASSUME NEW b \in Seq(Byte), NEW i \in 1..Len(b)
    PROVE  b[i] \in Nat
  BY ElementOfSeq, ByteNat

LEMMA TwoBytes ==
    ASSUME NEW b \in Seq(Byte), Len(b) = 2
    PROVE  b[1] \in Nat /\ b[2] \in Nat
  <1>1. 1 \in 1..Len(b) /\ 2 \in 1..Len(b)
    OBVIOUS
  <1> QED
    BY <1>1, ByteAt

\* Four bytes are read from the first to the last.
LEMMA GetFour ==
    ASSUME NEW b \in Seq(Byte), Len(b) = 4
    PROVE  aimutil_get(b) = 256 * (256 * (256 * b[1] + b[2]) + b[3]) + b[4]
  <1>1. PICK f : Iterates(f, Len(b), Nat, 0, GetStep(b)) /\ aimutil_get(b) = f[Len(b)]
    BY GetIterates
  <1>2. /\ f \in [0..4 -> Nat] /\ f[0] = 0
        /\ \A k \in 1..4 : f[k] = GetStep(b)[k][f[k - 1]]
        /\ aimutil_get(b) = f[4]
    BY <1>1 DEF Iterates
  <1> DEFINE Shifted(v, k) == 256 * v + b[k]
  <1>3. \A k \in 1..4 : \A v \in Nat : GetStep(b)[k][v] = Shifted(v, k)
    BY DEF GetStep
  <1>4. \A k \in 1..4 : k - 1 \in 0..4 /\ k - 1 \in Nat
    OBVIOUS
  <1>5. ASSUME NEW k \in 1..4 PROVE f[k] = Shifted(f[k - 1], k)
    <2> HIDE DEF Shifted
    <2>1. f[k - 1] \in Nat
      BY <1>2, <1>4
    <2>2. f[k] = GetStep(b)[k][f[k - 1]]
      BY <1>2
    <2>3. GetStep(b)[k][f[k - 1]] = Shifted(f[k - 1], k)
      BY <1>3, <2>1
    <2> QED
      BY <2>2, <2>3
  <1>6. 1 \in 1..4 /\ 2 \in 1..4 /\ 3 \in 1..4 /\ 4 \in 1..4
        /\ 1 - 1 = 0 /\ 2 - 1 = 1 /\ 3 - 1 = 2 /\ 4 - 1 = 3
    OBVIOUS
  <1>7. f[1] = 256 * f[0] + b[1] /\ f[2] = 256 * f[1] + b[2]
    BY <1>5, <1>6
  <1>8. f[3] = 256 * f[2] + b[3] /\ f[4] = 256 * f[3] + b[4]
    BY <1>5, <1>6
  <1>9. 256 * 0 + b[1] = b[1]
    <2>1. b[1] \in Nat
      <3>1. 1 \in 1..Len(b)
        OBVIOUS
      <3> QED
        BY <3>1, ByteAt
    <2> QED
      BY <2>1
  <1>10. f[1] = b[1]
    BY <1>2, <1>7, <1>9
  <1>11. aimutil_get(b) = f[4]
    BY <1>2
  <1> QED
    BY <1>7, <1>8, <1>10, <1>11

Word(n) == n \in Nat /\ n < 65536 * 65536

\* A number of 32 bits is its upper 16 and its lower.
AreHalves(n, q, r) == q = n \div 65536 /\ r = n % 65536
Halved(n, q, r) == q \in Nat /\ q <= 65535 /\ r \in Nat /\ r <= 65535 /\ n = 65536 * q + r

LEMMA Halves ==
    ASSUME NEW n, Word(n), NEW q, NEW r, AreHalves(n, q, r)
    PROVE  Halved(n, q, r)
  <1>1. n \in Nat /\ q = n \div 65536 /\ r = n % 65536
    BY DEF Word, AreHalves
  <1>2. q \in Nat /\ r \in Nat /\ r <= 65535 /\ n = 65536 * q + r
    BY <1>1, SMT
  <1> QED
    BY <1>2, SMT DEF Word, Halved

\* What aimutil_put32 puts, aimutil_get32 gets.
LEMMA Put32 ==
    ASSUME NEW n, Word(n)
    PROVE  /\ aimutil_put32(n) \in Seq(Byte) /\ Len(aimutil_put32(n)) = 4
           /\ aimutil_get(aimutil_put32(n)) = n
  <1> DEFINE hi == n \div 65536
             lo == n % 65536
             h == aimutil_put16(hi)
             l == aimutil_put16(lo)
             b == aimutil_put32(n)
  <1>2. b = h \o l
    BY DEF aimutil_put32
  <1>14. AreHalves(n, hi, lo)
    BY DEF AreHalves
  <1> HIDE DEF hi, lo, b
  <1>1. Halved(n, hi, lo)
    BY <1>14, Halves
  <1>3. /\ h \in Seq(Byte) /\ Len(h) = 2 /\ 256 * h[1] + h[2] = hi
        /\ l \in Seq(Byte) /\ Len(l) = 2 /\ 256 * l[1] + l[2] = lo
        /\ n = 65536 * hi + lo
    BY <1>1, Put16 DEF Halved
  <1> HIDE DEF h, l
  <1>4. h \in Seq(Byte) /\ Len(h) = 2 /\ l \in Seq(Byte) /\ Len(l) = 2
    BY <1>3
  <1>5. /\ h \o l \in Seq(Byte) /\ Len(h \o l) = Len(h) + Len(l)
        /\ \A k \in 1..Len(h) : (h \o l)[k] = h[k]
        /\ \A k \in 1..Len(l) : (h \o l)[Len(h) + k] = l[k]
    <2>1. h \in Seq(Byte) /\ l \in Seq(Byte)
      BY <1>4
    <2> QED
      BY <2>1, Joined
  <1>6. 1 \in 1..2 /\ 2 \in 1..2 /\ 2 + 1 = 3 /\ 2 + 2 = 4
    OBVIOUS
  <1>7. b \in Seq(Byte) /\ Len(b) = 4 /\ b[1] = h[1] /\ b[2] = h[2] /\ b[3] = l[1] /\ b[4] = l[2]
    BY <1>2, <1>4, <1>5, <1>6
  <1>8. aimutil_get(b) = 256 * (256 * (256 * b[1] + b[2]) + b[3]) + b[4]
    BY <1>7, GetFour
  <1>9. h[1] \in Nat /\ h[2] \in Nat /\ l[1] \in Nat /\ l[2] \in Nat
    <2>1. h[1] \in Nat /\ h[2] \in Nat
      BY <1>4, TwoBytes
    <2>2. l[1] \in Nat /\ l[2] \in Nat
      BY <1>4, TwoBytes
    <2> QED
      BY <2>1, <2>2
  <1> DEFINE v == h[1]
             x == h[2]
             y == l[1]
             z == l[2]
  <1>10. 256 * v + x = hi /\ 256 * y + z = lo /\ n = 65536 * hi + lo
    BY <1>3
  <1>11. v \in Nat /\ x \in Nat /\ y \in Nat /\ z \in Nat
    BY <1>9
  <1>12. aimutil_get(b) = 256 * (256 * (256 * v + x) + y) + z
    BY <1>7, <1>8
  <1> HIDE DEF v, x, y, z
  <1>13. aimutil_get(b) = n
    BY <1>10, <1>11, <1>12, SMT
  <1> QED
    BY <1>7, <1>13 DEF b

-----------------------------------------------------------------------------
(* Several puts *)

\* What the first k puts make of a stream, for each k.
Turned(w, pieces) ==
    LET put[k \in 0..Len(pieces)] == IF k = 0 THEN w ELSE aimbs_put(put[k - 1], pieces[k])
    IN  put

PutStep(pieces) == [i \in 1..Len(pieces) |-> [x \in Writers |-> aimbs_put(x, pieces[i])]]

LEMMA PutsAre ==
    ASSUME NEW pieces \in Seq(Seq(Byte)), NEW w \in Writers
    PROVE  /\ Turned(w, pieces) \in [0..Len(pieces) -> Writers]
           /\ Turned(w, pieces)[0] = w
           /\ \A k \in 1..Len(pieces) :
                  Turned(w, pieces)[k] = aimbs_put(Turned(w, pieces)[k - 1], pieces[k])
           /\ Puts(w, pieces) = Turned(w, pieces)[Len(pieces)]
  <1> DEFINE n == Len(pieces)
             Rec(g) == [i \in 0..n |-> IF i = 0 THEN w ELSE aimbs_put(g[i - 1], pieces[i])]
             put == CHOOSE g : g = Rec(g)
  <1>1. n \in Nat /\ \A i \in 1..n : \A x \in Writers : aimbs_put(x, pieces[i]) \in Writers
    <2>1. \A i \in 1..n : pieces[i] \in Seq(Byte)
      BY ElementOfSeq
    <2> QED
      BY <2>1, PutIs, LenProperties
  <1>2. PutStep(pieces) \in [1..n -> [Writers -> Writers]]
    BY <1>1 DEF PutStep
  <1>3. \A k \in 1..n : \A x \in Writers : PutStep(pieces)[k][x] = aimbs_put(x, pieces[k])
    BY DEF PutStep
  <1>4. Turned(w, pieces) = put /\ Puts(w, pieces) = put[n]
    BY DEF Turned, Puts
  <1> HIDE DEF n
  <1>5. PICK f : Iterates(f, n, Writers, w, PutStep(pieces))
    BY <1>1, <1>2, Recursion
  <1>6. f \in [0..n -> Writers] /\ f[0] = w /\ \A k \in 1..n : f[k] = PutStep(pieces)[k][f[k - 1]]
    BY <1>5 DEF Iterates
  <1>7. ASSUME NEW k \in 0..n PROVE f[k] = IF k = 0 THEN w ELSE aimbs_put(f[k - 1], pieces[k])
    <2>1. CASE k = 0
      BY <1>6, <2>1
    <2>2. CASE k # 0
      <3>1. k \in 1..n /\ k - 1 \in 0..n
        BY <1>1, <2>2
      <3>2. f[k - 1] \in Writers
        BY <1>6, <3>1
      <3>3. f[k] = PutStep(pieces)[k][f[k - 1]]
        BY <1>6, <3>1
      <3>4. PutStep(pieces)[k][f[k - 1]] = aimbs_put(f[k - 1], pieces[k])
        BY <1>3, <3>1, <3>2
      <3> QED
        BY <2>2, <3>3, <3>4
    <2> QED
      BY <2>1, <2>2
  <1>8. f = Rec(f)
    BY <1>6, <1>7
  <1>9. put = Rec(put)
    BY <1>8
  <1> HIDE DEF put
  <1>10. \A k \in 0..n : put[k] = IF k = 0 THEN w ELSE aimbs_put(put[k - 1], pieces[k])
    BY <1>9
  <1>11. put = [k \in 0..n |-> put[k]] /\ put[0] = w
    BY <1>1, <1>9, <1>10
  <1>12. ASSUME NEW k \in 1..n, put[k - 1] \in Writers PROVE put[k] = PutStep(pieces)[k][put[k - 1]]
    <2>1. k \in 0..n /\ k # 0
      BY <1>1
    <2>2. put[k] = aimbs_put(put[k - 1], pieces[k])
      BY <1>10, <2>1
    <2>3. PutStep(pieces)[k][put[k - 1]] = aimbs_put(put[k - 1], pieces[k])
      BY <1>3, <1>12
    <2> QED
      BY <2>2, <2>3
  <1>13. put = f
    <2>1. Obeys(put, n, Writers, w, PutStep(pieces))
      BY <1>11, <1>12 DEF Obeys
    <2> QED
      BY <1>1, <1>5, <2>1, SameIteration
  <1>14. \A k \in 1..n : k \in 0..n /\ k # 0
    BY <1>1
  <1> QED
    BY <1>4, <1>6, <1>10, <1>13, <1>14 DEF n

\* What a stream begins with.
Starts(p, s) == Len(p) <= Len(s) /\ \A j \in 1..Len(p) : s[j] = p[j]

\* A put, whether it fits or not, leaves what was there.
LEMMA PutKeeps ==
    ASSUME NEW w \in Writers, NEW b \in Seq(Byte), NEW p \in Seq(Byte), Starts(p, w.data)
    PROVE  Starts(p, aimbs_put(w, b).data)
  <1> DEFINE d == w.data
  <1>1. d \in Seq(Byte)
    BY DEF Writers
  <1>2. aimbs_put(w, b).data = d \/ aimbs_put(w, b).data = d \o b
    BY PutIs
  <1>3. Len(p) <= Len(d) /\ \A j \in 1..Len(p) : d[j] = p[j]
    BY DEF Starts
  <1>4. Len(p) \in Nat /\ Len(d) \in Nat /\ Len(b) \in Nat
    BY <1>1, LenProperties
  <1> HIDE DEF d
  <1>5. /\ Len(d \o b) = Len(d) + Len(b)
        /\ \A k \in 1..Len(d) : (d \o b)[k] = d[k]
    BY <1>1, Joined
  <1>6. Starts(p, d \o b)
    <2>1. Len(p) <= Len(d \o b)
      BY <1>3, <1>4, <1>5
    <2>2. ASSUME NEW j \in 1..Len(p) PROVE (d \o b)[j] = p[j]
      <3>1. j \in 1..Len(d)
        BY <1>3, <1>4
      <3> QED
        BY <1>3, <1>5, <3>1
    <2> QED
      BY <2>1, <2>2 DEF Starts
  <1>7. Starts(p, d)
    BY <1>3 DEF Starts
  <1> QED
    BY <1>2, <1>6, <1>7

\* So do all the puts behind the first m.
LEMMA PutsKeep ==
    ASSUME NEW n \in Nat, NEW f \in [0..n -> Writers], NEW b,
           \A k \in 1..n : b[k] \in Seq(Byte) /\ f[k] = aimbs_put(f[k - 1], b[k]),
           NEW m \in 0..n, NEW p \in Seq(Byte), Starts(p, f[m].data)
    PROVE  Starts(p, f[n].data)
  <1> DEFINE T == {k \in Nat : m <= k /\ k <= n /\ ~Starts(p, f[k].data)}
  <1>1. ASSUME T # {} PROVE FALSE
    <2>1. PICK k \in T : \A j \in T : k <= j
      BY <1>1, NatMin
    <2>2. k \in Nat /\ m <= k /\ k <= n /\ ~Starts(p, f[k].data)
      BY <2>1
    <2>3. k # m
      BY <2>2
    <2>4. k \in 1..n /\ k - 1 \in Nat /\ k - 1 \in 0..n /\ m <= k - 1 /\ k - 1 <= n /\ ~(k <= k - 1)
      BY <2>2, <2>3
    <2>5. Starts(p, f[k - 1].data)
      BY <2>1, <2>4
    <2>6. f[k] = aimbs_put(f[k - 1], b[k]) /\ b[k] \in Seq(Byte) /\ f[k - 1] \in Writers
      BY <2>4
    <2> QED
      BY <2>2, <2>5, <2>6, PutKeeps
  <1>2. n \notin T
    BY <1>1
  <1> QED
    BY <1>2

-----------------------------------------------------------------------------
(* Frames *)

\* The header of a frame: its last four bytes are the id.
IsHeader(h, id) ==
    h \in Seq(Byte) /\ Len(h) = 10 /\ \A k \in 1..4 : h[6 + k] = aimutil_put32(id)[k]

LEMMA PutSnac ==
    ASSUME NEW family \in Nat, NEW type \in Nat, NEW id, Word(id),
           NEW h, h = aim_putsnac(family, type, id)
    PROVE  IsHeader(h, id)
  <1> DEFINE f == aimutil_put16(family)
             t == aimutil_put16(type)
             z == <<0, 0>>
             i == aimutil_put32(id)
             a == f \o t
             c == a \o z
  <1>1. h = c \o i
    BY DEF aim_putsnac
  <1>2. f \in Seq(Byte) /\ t \in Seq(Byte) /\ z \in Seq(Byte) /\ i \in Seq(Byte)
    <2>1. 0 \in Byte
      BY ByteIs
    <2>2. z \in Seq(Byte)
      BY <2>1
    <2> QED
      BY <2>2, Put16, Put32
  <1>3. Len(f) = 2 /\ Len(t) = 2 /\ Len(i) = 4
    BY Put16, Put32
  <1>4. Len(z) = 2
    OBVIOUS
  <1> HIDE DEF f, t, z, i
  <1>5. a \in Seq(Byte) /\ Len(a) = Len(f) + Len(t)
    BY <1>2, Joined
  <1> HIDE DEF a
  <1>6. c \in Seq(Byte) /\ Len(c) = Len(a) + Len(z)
    BY <1>2, <1>5, Joined
  <1>7. Len(c) = 6
    BY <1>3, <1>4, <1>5, <1>6
  <1> HIDE DEF c
  <1>8. /\ c \o i \in Seq(Byte) /\ Len(c \o i) = Len(c) + Len(i)
        /\ \A k \in 1..Len(i) : (c \o i)[Len(c) + k] = i[k]
    <2>1. c \in Seq(Byte)
      BY <1>6
    <2> QED
      BY <1>2, <2>1, Joined
  <1>9. Len(h) = 10 /\ \A k \in 1..4 : h[6 + k] = i[k]
    <2>1. Len(c) = 6 /\ Len(i) = 4
      BY <1>3, <1>7
    <2>2. Len(c \o i) = 6 + 4 /\ \A k \in 1..4 : (c \o i)[6 + k] = i[k]
      BY <1>8, <2>1
    <2> QED
      BY <1>1, <2>2
  <1> QED
    BY <1>1, <1>8, <1>9 DEF i, IsHeader

\* The chain behind the puts leaves what they put.
LEMMA ChainKeeps ==
    ASSUME NEW w \in Writers, NEW list \in Seq(Tlvs), NEW p \in Seq(Byte), Starts(p, w.data)
    PROVE  aim_writetlvchain(w, list) \in Writers /\ Starts(p, aim_writetlvchain(w, list).data)
  <1> DEFINE n == Len(list)
             f == PutsOf(w, list)
             b == [k \in 1..n |-> TlvBytes(list[k])]
  <1>1. n \in Nat /\ 0 \in 0..n /\ n \in 0..n
    BY LenProperties
  <1>2. f \in [0..n -> Writers] /\ f[0] = w
        /\ (aim_writetlvchain(w, list) = w \/ aim_writetlvchain(w, list) = f[n])
    BY WrittenIs
  <1>3. ASSUME NEW k \in 1..n PROVE b[k] \in Seq(Byte) /\ f[k] = aimbs_put(f[k - 1], b[k])
    <2>1. b[k] = TlvBytes(list[k])
      OBVIOUS
    <2>2. list[k] \in Tlvs
      BY ElementOfSeq
    <2>3. TlvBytes(list[k]) \in Seq(Byte)
      BY <2>2, TlvBytesAre
    <2>4. f[k] = aimbs_put(f[k - 1], TlvBytes(list[k]))
      BY WrittenIs
    <2> QED
      BY <2>1, <2>3, <2>4
  <1> HIDE DEF n, f, b
  <1>4. f[n] \in Writers
    BY <1>1, <1>2
  <1>5. Starts(p, f[0].data)
    BY <1>2
  <1>6. Starts(p, f[n].data)
    <2>1. f \in [0..n -> Writers]
      BY <1>2
    <2> QED
      BY <1>1, <1>3, <1>5, <2>1, PutsKeep
  <1> QED
    BY <1>2, <1>4, <1>6

\* The id in the header of a request's frame, given the one of the cache.
NamedBy(r, snacid, id) == id = IF r.named THEN snacid ELSE 0
HeaderOf(r, id) == aim_putsnac(r.family, r.type, id)

\* Whatever did not fit behind it, a frame begins with its header.
LEMMA FrameStarts ==
    ASSUME NEW r, IsRequest(r), NEW id, Word(id), NEW snacid,
           NamedBy(r, snacid, id)
    PROVE  FrameOf(r, snacid) \in Seq(Byte) /\ Starts(HeaderOf(r, id), FrameOf(r, snacid))
  <1> DEFINE h == HeaderOf(r, id)
             w == Writer(r.room)
             all == <<h>> \o r.pieces
             n == Len(all)
             f == Turned(w, all)
             x == Puts(w, all)
  <1>1. /\ r.room \in Nat /\ r.room >= 10 /\ r.pieces \in Seq(Seq(Byte)) /\ r.chain \in Seq(Tlvs)
        /\ r.family \in Nat /\ r.type \in Nat
    BY DEF IsRequest, Tlvs
  <1>2. h \in Seq(Byte) /\ Len(h) = 10
    <2>1. r.family \in Nat /\ r.type \in Nat
      BY <1>1
    <2>2. h = aim_putsnac(r.family, r.type, id)
      BY DEF HeaderOf
    <2> HIDE DEF h
    <2>3. IsHeader(h, id)
      BY <2>1, <2>2, PutSnac
    <2> QED
      BY <2>3 DEF IsHeader
  <1>3. FrameOf(r, snacid) = aim_writetlvchain(x, r.chain).data
    BY DEF FrameOf, NamedBy, HeaderOf
  <1> HIDE DEF h
  <1>4. w \in Writers /\ w.data = <<>> /\ w.room = r.room
    BY <1>1, EmptySeq DEF Writer, Writers
  <1> HIDE DEF w
  <1>5. all \in Seq(Seq(Byte)) /\ n \in Nat /\ 1 \in 1..n /\ all[1] = h
    <2> DEFINE one == <<h>>
               S == Seq(Byte)
    <2>5. h \in S
      BY <1>2
    <2> HIDE DEF S
    <2>1. one \in Seq(S) /\ Len(one) = 1 /\ one[1] = h
      BY <2>5
    <2>2. r.pieces \in Seq(S)
      BY <1>1 DEF S
    <2> HIDE DEF one
    <2>3. /\ one \o r.pieces \in Seq(S) /\ Len(one \o r.pieces) = Len(one) + Len(r.pieces)
          /\ Len(r.pieces) \in Nat
          /\ \A k \in 1..Len(one) : (one \o r.pieces)[k] = one[k]
      <3>1. one \in Seq(S)
        BY <2>1
      <3> QED
        BY <2>2, <3>1, Joined
    <2>4. 1 \in 1..1
      OBVIOUS
    <2> QED
      BY <2>1, <2>3, <2>4 DEF one, S
  <1> HIDE DEF all
  <1>6. f \in [0..n -> Writers] /\ f[0] = w /\ x = f[n]
        /\ \A k \in 1..n : f[k] = aimbs_put(f[k - 1], all[k])
    BY <1>4, <1>5, PutsAre
  <1> HIDE DEF n, f, x
  <1>7. f[1].data = <<>> \o h
    <2>1. f[1] = aimbs_put(w, h)
      <3>1. 1 - 1 = 0
        OBVIOUS
      <3> QED
        BY <1>5, <1>6, <3>1
    <2>2. ~(Len(w.data) + Len(h) > w.room)
      <3>1. Len(w.data) = 0 /\ Len(h) = 10
        BY <1>2, <1>4, EmptySeq
      <3>2. w.room \in Nat /\ w.room >= 10
        BY <1>1, <1>4
      <3> DEFINE l == Len(w.data)
                 m == Len(h)
                 room == w.room
      <3>3. l = 0 /\ m = 10 /\ room \in Nat /\ room >= 10
        BY <3>1, <3>2
      <3> HIDE DEF l, m, room
      <3>4. ~(l + m > room)
        BY <3>3
      <3> QED
        BY <3>4 DEF l, m, room
    <2>3. aimbs_put(w, h).data = w.data \o h
      BY <1>2, <1>4, <2>2, PutIs
    <2> QED
      BY <1>4, <2>1, <2>3
  <1>8. Starts(h, f[1].data)
    <2> DEFINE e == <<>>
    <2>1. e \in Seq(Byte) /\ Len(e) = 0
      BY EmptySeq
    <2> HIDE DEF e
    <2>2. /\ Len(e \o h) = Len(e) + Len(h)
          /\ \A k \in 1..Len(h) : (e \o h)[Len(e) + k] = h[k]
      <3>1. e \in Seq(Byte) /\ h \in Seq(Byte)
        BY <1>2, <2>1
      <3> QED
        BY <3>1, Joined
    <2>3. Len(h) \in Nat
      BY <1>2
    <2>4. Len(e \o h) = Len(h) /\ \A k \in 1..Len(h) : (e \o h)[k] = h[k]
      BY <2>1, <2>2, <2>3
    <2>5. Starts(h, e \o h)
      BY <2>3, <2>4 DEF Starts
    <2> QED
      BY <1>7, <2>5 DEF e
  <1>9. ASSUME NEW k \in 1..n PROVE all[k] \in Seq(Byte)
    <2> DEFINE S == Seq(Byte)
    <2>1. all \in Seq(S) /\ k \in 1..Len(all)
      BY <1>5 DEF n
    <2> HIDE DEF S
    <2>2. all[k] \in S
      BY <2>1, ElementOfSeq
    <2> QED
      BY <2>2 DEF S
  <1>10. Starts(h, x.data) /\ x \in Writers
    <2>1. 1 \in 0..n /\ n \in 0..n
      BY <1>5
    <2>2. f \in [0..n -> Writers] /\ x = f[n]
      BY <1>6
    <2>3. \A k \in 1..n : all[k] \in Seq(Byte) /\ f[k] = aimbs_put(f[k - 1], all[k])
      BY <1>6, <1>9
    <2>4. Starts(h, f[n].data)
      BY <1>2, <1>5, <1>8, <2>1, <2>2, <2>3, PutsKeep
    <2> QED
      BY <2>1, <2>2, <2>4
  <1>11. aim_writetlvchain(x, r.chain) \in Writers /\ Starts(h, aim_writetlvchain(x, r.chain).data)
    BY <1>1, <1>2, <1>10, ChainKeeps
  <1> QED
    BY <1>3, <1>11 DEF Writers, h

-----------------------------------------------------------------------------
(* Reading the header *)

\* A field read behind others.
Field(a, n) ==
    LET g == IF n > 0 THEN aimbs_get(a.bs, n) ELSE GetCounted(a.bs, -n)
    IN  [v |-> Append(a.v, g.v), bs |-> g.bs]

\* Four fields are read one after the other.
LEMMA FourFields ==
    ASSUME NEW bs, NEW a, a = [v |-> <<>>, bs |-> bs]
    PROVE  Gets(bs, <<2, 2, 2, 4>>) = Field(Field(Field(Field(a, 2), 2), 2), 4)
  <1> DEFINE fields == <<2, 2, 2, 4>>
             Rec(g) == [k \in 0..Len(fields) |-> IF k = 0 THEN a ELSE Field(g[k - 1], fields[k])]
             at == CHOOSE g : g = Rec(g)
             b == Field(a, 2)
             c == Field(b, 2)
             d == Field(c, 2)
             e == Field(d, 4)
             f == [k \in 0..4 |-> IF k = 0 THEN a ELSE IF k = 1 THEN b ELSE IF k = 2 THEN c
                                   ELSE IF k = 3 THEN d ELSE e]
  <1>1. Gets(bs, fields) = at[Len(fields)]
    BY DEF Gets, Field
  <1>2. Len(fields) = 4 /\ fields[1] = 2 /\ fields[2] = 2 /\ fields[3] = 2 /\ fields[4] = 4
    OBVIOUS
  <1> HIDE DEF fields
  <1>3. f[0] = a /\ f[1] = b /\ f[2] = c /\ f[3] = d /\ f[4] = e
    <2> HIDE DEF b, c, d, e
    <2> QED
      OBVIOUS
  <1>4. f = [k \in 0..4 |-> f[k]]
    <2> HIDE DEF b, c, d, e
    <2> QED
      OBVIOUS
  <1>5. b = Field(a, 2) /\ c = Field(b, 2) /\ d = Field(c, 2) /\ e = Field(d, 4)
    OBVIOUS
  <1> HIDE DEF b, c, d, e, f
  <1>6. ASSUME NEW k \in 0..4 PROVE f[k] = IF k = 0 THEN a ELSE Field(f[k - 1], fields[k])
    <2>1. CASE k = 0
      BY <1>3, <2>1
    <2>2. CASE k = 1
      <3>1. k - 1 = 0
        BY <2>2
      <3> QED
        BY <1>2, <1>3, <1>5, <2>2, <3>1
    <2>3. CASE k = 2
      <3>1. k - 1 = 1
        BY <2>3
      <3> QED
        BY <1>2, <1>3, <1>5, <2>3, <3>1
    <2>4. CASE k = 3
      <3>1. k - 1 = 2
        BY <2>4
      <3> QED
        BY <1>2, <1>3, <1>5, <2>4, <3>1
    <2>5. CASE k = 4
      <3>1. k - 1 = 3
        BY <2>5
      <3> QED
        BY <1>2, <1>3, <1>5, <2>5, <3>1
    <2> QED
      BY <2>1, <2>2, <2>3, <2>4, <2>5
  <1>7. f = Rec(f)
    BY <1>2, <1>4, <1>6
  <1>8. at = Rec(at)
    BY <1>7
  <1> HIDE DEF at
  <1>9. \A k \in 0..4 : at[k] = IF k = 0 THEN a ELSE Field(at[k - 1], fields[k])
    BY <1>2, <1>8
  <1>10. at[0] = a
    BY <1>9
  <1>11. at[1] = b
    <2>1. at[1] = Field(at[1 - 1], fields[1]) /\ 1 - 1 = 0
      BY <1>9
    <2> QED
      BY <1>2, <1>5, <1>10, <2>1
  <1>12. at[2] = c
    <2>1. at[2] = Field(at[2 - 1], fields[2]) /\ 2 - 1 = 1
      BY <1>9
    <2> QED
      BY <1>2, <1>5, <1>11, <2>1
  <1>13. at[3] = d
    <2>1. at[3] = Field(at[3 - 1], fields[3]) /\ 3 - 1 = 2
      BY <1>9
    <2> QED
      BY <1>2, <1>5, <1>12, <2>1
  <1>14. at[4] = e
    <2>1. at[4] = Field(at[4 - 1], fields[4]) /\ 4 - 1 = 3
      BY <1>9
    <2> QED
      BY <1>2, <1>5, <1>13, <2>1
  <1> QED
    BY <1>1, <1>2, <1>14 DEF b, c, d, e, fields

\* A field of two bytes in front of the place it ends at.
LEMMA FieldAt ==
    ASSUME NEW a, Within(a.bs), NEW n \in Nat, n > 0, a.bs.offset + n <= Len(a.bs.data)
    PROVE  /\ Within(Field(a, n).bs)
           /\ Field(a, n).bs.data = a.bs.data
           /\ Field(a, n).bs.offset = a.bs.offset + n
           /\ Field(a, n).v = Append(a.v, aimbs_get(a.bs, n).v)
           /\ aimbs_get(a.bs, n).v \in Nat
           /\ aimbs_get(a.bs, n).v = aimutil_get(Ahead(a.bs, n))
  <1> DEFINE bs == a.bs
             g == aimbs_get(bs, n)
  <1>1. Field(a, n) = [v |-> Append(a.v, g.v), bs |-> g.bs]
    BY DEF Field
  <1>2. g.bs = aim_bstream_advance(bs, n) /\ g.v \in Nat
    BY GetField
  <1>3. Within(aim_bstream_advance(bs, n)) /\ aim_bstream_advance(bs, n).data = bs.data
    BY Advances
  <1>4. aim_bstream_advance(bs, n).offset = bs.offset + n
    BY AdvancesBy
  <1>5. g.v = aimutil_get(Ahead(bs, n))
    <2>1. bs.offset \in Nat /\ Len(bs.data) \in Nat
      BY DEF Within, Streams
    <2>2. ~(aim_bstream_empty(bs) < n)
      BY <2>1 DEF aim_bstream_empty
    <2> QED
      BY <2>2 DEF aimbs_get
  <1> QED
    BY <1>1, <1>2, <1>3, <1>4, <1>5

LEMMA AppendIs ==
    ASSUME NEW s \in Seq(Nat), NEW x \in Nat, NEW l \in Nat, Len(s) = l
    PROVE  Append(s, x) \in Seq(Nat) /\ Len(Append(s, x)) = l + 1 /\ Append(s, x)[l + 1] = x
  BY AppendProperties

\* l fields have been read, the first o bytes of d.
HasRead(a, d, o, l) ==
    Within(a.bs) /\ a.bs.data = d /\ a.bs.offset = o /\ a.v \in Seq(Nat) /\ Len(a.v) = l

LastIs(a, m, v) == a.v[m] = v

\* The next field, of n bytes.
Further(d, n, o, p, l, m) ==
    o \in Nat /\ l \in Nat /\ n \in Nat /\ n > 0 /\ p = o + n /\ p <= Len(d) /\ m = l + 1

LEMMA FieldBehind ==
    ASSUME NEW a, NEW d, NEW n, NEW o, NEW p, NEW l, NEW m, Further(d, n, o, p, l, m),
           HasRead(a, d, o, l)
    PROVE  /\ HasRead(Field(a, n), d, p, m)
           /\ LastIs(Field(a, n), m, aimutil_get(Ahead(a.bs, n)))
  <1> DEFINE x == aimbs_get(a.bs, n).v
             f == Field(a, n)
  <1>1. Within(a.bs) /\ a.bs.data = d /\ a.bs.offset = o /\ a.v \in Seq(Nat) /\ Len(a.v) = l
    BY DEF HasRead
  <1>7. o \in Nat /\ l \in Nat /\ n \in Nat /\ n > 0 /\ p = o + n /\ p <= Len(d) /\ m = l + 1
    BY DEF Further
  <1>2. Within(a.bs) /\ n \in Nat /\ n > 0 /\ a.bs.offset + n <= Len(a.bs.data)
    BY <1>1, <1>7
  <1>3. /\ Within(f.bs) /\ f.bs.data = a.bs.data /\ f.bs.offset = a.bs.offset + n
        /\ f.v = Append(a.v, x) /\ x \in Nat /\ x = aimutil_get(Ahead(a.bs, n))
    BY <1>2, FieldAt
  <1> HIDE DEF x, f
  <1>4. Append(a.v, x) \in Seq(Nat) /\ Len(Append(a.v, x)) = l + 1 /\ Append(a.v, x)[l + 1] = x
    <2>1. a.v \in Seq(Nat) /\ Len(a.v) = l /\ x \in Nat /\ l \in Nat
      BY <1>1, <1>3, <1>7
    <2> QED
      BY <2>1, AppendIs
  <1>5. f.bs.data = d /\ f.bs.offset = p
    BY <1>1, <1>3, <1>7
  <1>6. HasRead(f, d, p, m)
    BY <1>3, <1>4, <1>5, <1>7 DEF HasRead
  <1>8. LastIs(f, m, aimutil_get(Ahead(a.bs, n)))
    BY <1>3, <1>4, <1>7 DEF LastIs
  <1> QED
    BY <1>6, <1>8 DEF f

\* The fourth field of a header is the id that was put.
LEMMA HeaderRead ==
    ASSUME NEW d \in Seq(Byte), NEW id, Word(id), NEW h, IsHeader(h, id), Starts(h, d)
    PROVE  Snac(d)[4] = id
  <1> DEFINE bs == aim_bstream_init(d)
             a == [v |-> <<>>, bs |-> bs]
             b == Field(a, 2)
             c == Field(b, 2)
             e == Field(c, 2)
             f == Field(e, 4)
             i == aimutil_put32(id)
             r == Ahead(e.bs, 4)
  <1>1. Len(d) \in Nat /\ 10 <= Len(d) /\ \A j \in 1..10 : d[j] = h[j]
    <2>1. 10 <= Len(d) /\ \A j \in 1..10 : d[j] = h[j]
      <3>1. Len(h) = 10 /\ Len(h) <= Len(d) /\ \A j \in 1..Len(h) : d[j] = h[j]
        BY DEF Starts, IsHeader
      <3> QED
        BY <3>1
    <2>2. Len(d) \in Nat
      OBVIOUS
    <2> QED
      BY <2>1, <2>2
  <1>2. 2 <= Len(d) /\ 4 <= Len(d) /\ 6 <= Len(d) /\ 10 <= Len(d) /\ 0 <= Len(d)
    BY <1>1
  <1>3. HasRead(a, d, 0, 0)
    <2>1. bs = [data |-> d, offset |-> 0]
      BY DEF aim_bstream_init
    <2>2. Within(bs) /\ bs.data = d /\ bs.offset = 0
      BY <1>2, <2>1 DEF Within, Streams
    <2>3. a.bs = bs /\ a.v \in Seq(Nat) /\ Len(a.v) = 0
      BY EmptySeq
    <2> HIDE DEF a, bs
    <2> QED
      BY <2>2, <2>3 DEF HasRead
  <1>4. Snac(d) = f.v
    BY FourFields DEF Snac
  <1> HIDE DEF a
  <1>5. HasRead(b, d, 2, 1)
    <2>1. Further(d, 2, 0, 2, 0, 1)
      BY <1>2 DEF Further
    <2> QED
      BY <1>3, <2>1, FieldBehind
  <1> HIDE DEF b
  <1>6. HasRead(c, d, 4, 2)
    <2>1. Further(d, 2, 2, 4, 1, 2)
      BY <1>2 DEF Further
    <2> QED
      BY <1>5, <2>1, FieldBehind
  <1> HIDE DEF c
  <1>7. HasRead(e, d, 6, 3)
    <2>1. Further(d, 2, 4, 6, 2, 3)
      BY <1>2 DEF Further
    <2> QED
      BY <1>6, <2>1, FieldBehind
  <1> HIDE DEF e
  <1>8. f.v[4] = aimutil_get(r)
    <2>1. Further(d, 4, 6, 10, 3, 4)
      BY <1>2 DEF Further
    <2>2. LastIs(f, 4, aimutil_get(r))
      BY <1>7, <2>1, FieldBehind
    <2> HIDE DEF f, r
    <2> QED
      BY <2>2 DEF LastIs
  <1> HIDE DEF f
  <1>10. r \in Seq(Byte) /\ Len(r) = 4 /\ \A k \in 1..4 : r[k] = d[6 + k]
    <2>1. Within(e.bs) /\ e.bs.data = d /\ e.bs.offset = 6
      BY <1>7 DEF HasRead
    <2>2. e.bs.offset + 4 <= Len(e.bs.data) /\ 4 \in Nat
      BY <1>2, <2>1
    <2>3. r \in Seq(Byte) /\ Len(r) = 4 /\ \A k \in 1..4 : r[k] = e.bs.data[e.bs.offset + k]
      BY <2>1, <2>2, AheadBytes
    <2> QED
      BY <2>1, <2>3
  <1>11. i \in Seq(Byte) /\ Len(i) = 4 /\ aimutil_get(i) = id
    BY Put32
  <1>12. \A k \in 1..4 : h[6 + k] = i[k]
    BY DEF IsHeader
  <1> HIDE DEF r, i
  <1>13. \A k \in 1..4 : r[k] = i[k]
    <2>1. \A k \in 1..4 : 6 + k \in 1..10
      OBVIOUS
    <2> QED
      BY <1>1, <1>10, <1>12, <2>1
  <1>14. r = i
    <2>1. r \in Seq(Byte) /\ i \in Seq(Byte)
      BY <1>10, <1>11
    <2>2. Len(r) = Len(i) /\ \A k \in 1..Len(r) : r[k] = i[k]
      BY <1>10, <1>11, <1>13
    <2> QED
      BY <2>1, <2>2, SeqEqual
  <1> QED
    BY <1>4, <1>8, <1>11, <1>14

\* The id in a frame is the one the request was given, whatever else is in the frame.
LEMMA SnacOfFrame ==
    ASSUME NEW r, IsRequest(r), NEW id, Word(id)
    PROVE  Snac(FrameOf(r, id))[4] = IF r.named THEN id ELSE 0
  <1> DEFINE i == IF r.named THEN id ELSE 0
             h == HeaderOf(r, i)
             f == FrameOf(r, id)
  <1>1. Word(i)
    <2>1. Word(0)
      BY DEF Word
    <2> QED
      BY <2>1
  <1>2. r.family \in Nat /\ r.type \in Nat
    BY DEF IsRequest
  <1>3. NamedBy(r, id, i)
    BY DEF NamedBy
  <1>4. h = aim_putsnac(r.family, r.type, i)
    BY DEF HeaderOf
  <1> HIDE DEF i
  <1>6. f \in Seq(Byte) /\ Starts(h, f)
    BY <1>1, <1>3, FrameStarts
  <1> HIDE DEF h
  <1>5. IsHeader(h, i)
    BY <1>1, <1>2, <1>4, PutSnac
  <1> HIDE DEF f
  <1>7. Snac(f)[4] = i
    BY <1>1, <1>5, <1>6, HeaderRead
  <1> QED
    BY <1>7 DEF f, i

-----------------------------------------------------------------------------
(* What the handlers give to the callbacks *)

\* Callbacks are given the data of this request or none.
Bound(calls, snac2) ==
    \A i \in DOMAIN calls : calls[i].data # Absent => snac2 # Absent /\ calls[i].data = snac2.data

LEMMA NoCall == ASSUME NEW snac2 PROVE Bound(<<>>, snac2)
  BY DEF Bound

LEMMA OneCall ==
    ASSUME NEW snac2, NEW form, NEW data, NEW v,
           data = Absent \/ (snac2 # Absent /\ data = snac2.data)
    PROVE  Bound(<<Args(form, data, v)>>, snac2)
  BY DEF Bound, Args

LEMMA ToldBound == ASSUME NEW snac2, NEW v PROVE Bound(Told(v), snac2)
  BY OneCall DEF Told

LEMMA EachBound == ASSUME NEW snac2, NEW told PROVE Bound(Each(told), snac2)
  BY DEF Bound, Each, Args

LEMMA FieldsBound == ASSUME NEW snac2, NEW bs, NEW fields PROVE Bound(FromFields(bs, fields), snac2)
  BY ToldBound, Zenon DEF FromFields

LEMMA TlvsBound == ASSUME NEW snac2, NEW bs, NEW types PROVE Bound(FromTlvs(bs, types), snac2)
  BY ToldBound, Zenon DEF FromTlvs

\* Handlers that do not look the request up.
LEMMA UnaskedBound ==
    ASSUME NEW snac2, NEW bs
    PROVE  /\ Bound(paraminfo(bs), snac2) /\ Bound(clienterr(bs), snac2) /\ Bound(msgack(bs), snac2)
           /\ Bound(ratechange(bs), snac2) /\ Bound(accountconfirm(bs), snac2)
           /\ Bound(reportinterval(bs), snac2) /\ Bound(serverresume(bs), snac2)
           /\ Bound(parserights(bs), snac2) /\ Bound(parsedataunchanged(bs), snac2)
           /\ Bound(locate_rights(bs), snac2) /\ Bound(buddylist_rights(bs), snac2)
           /\ Bound(bos_rights(bs), snac2) /\ Bound(missedcall(bs), snac2)
           /\ Bound(userlistchange(bs), snac2) /\ Bound(selfinfo(bs), snac2)
           /\ Bound(buddychange(bs), snac2) /\ Bound(parsepopup(bs), snac2)
  <1>1. /\ Bound(paraminfo(bs), snac2) /\ Bound(clienterr(bs), snac2) /\ Bound(msgack(bs), snac2)
        /\ Bound(ratechange(bs), snac2) /\ Bound(accountconfirm(bs), snac2)
        /\ Bound(reportinterval(bs), snac2) /\ Bound(serverresume(bs), snac2)
        /\ Bound(parserights(bs), snac2) /\ Bound(parsedataunchanged(bs), snac2)
    BY FieldsBound, Zenon DEF paraminfo, clienterr, msgack, ratechange, accountconfirm,
                              reportinterval, serverresume, parserights, parsedataunchanged
  <1>2. Bound(locate_rights(bs), snac2) /\ Bound(buddylist_rights(bs), snac2) /\ Bound(bos_rights(bs), snac2)
    BY TlvsBound, Zenon DEF locate_rights, buddylist_rights, bos_rights
  <1>3. Bound(missedcall(bs), snac2)
    BY EachBound, Zenon DEF missedcall
  <1>4. /\ Bound(userlistchange(bs), snac2) /\ Bound(selfinfo(bs), snac2)
        /\ Bound(buddychange(bs), snac2) /\ Bound(parsepopup(bs), snac2)
    BY ToldBound, Zenon DEF userlistchange, selfinfo, buddychange, parsepopup
  <1> QED
    BY <1>1, <1>2, <1>3, <1>4

LEMMA NoticesBound ==
    ASSUME NEW snac2, NEW bs
    PROVE  /\ Bound(evilnotify(bs), snac2) /\ Bound(motd(bs), snac2) /\ Bound(memrequest(bs), snac2)
           /\ Bound(parsedata(bs), snac2)
           /\ \A change : Bound(infochange(bs, change), snac2)
  <1>1. Bound(evilnotify(bs), snac2)
    BY ToldBound, Zenon DEF evilnotify
  <1>2. \A fields, t : Bound(FieldsAndString(bs, fields, t), snac2)
    BY ToldBound, Zenon DEF FieldsAndString
  <1>3. Bound(motd(bs), snac2) /\ Bound(memrequest(bs), snac2)
    BY <1>2, Zenon DEF motd, memrequest
  <1>4. Bound(parsedata(bs), snac2)
    BY ToldBound, Zenon DEF parsedata
  <1>5. \A change : Bound(infochange(bs, change), snac2)
    BY EachBound, Zenon DEF infochange
  <1> QED
    BY <1>1, <1>3, <1>4, <1>5

LEMMA IcqBound == ASSUME NEW snac2, NEW bs PROVE Bound(icqresponse(bs), snac2)
  BY ToldBound, NoCall, SMT DEF icqresponse

LEMMA ChatBound == ASSUME NEW snac2, NEW bs PROVE Bound(infoupdate(bs), snac2)
  BY ToldBound, NoCall, SMT DEF infoupdate

\* Handlers that do.
LEMMA SearchBound ==
    ASSUME NEW snac2, NEW bs
    PROVE  Bound(error(snac2), snac2) /\ Bound(reply(bs, snac2), snac2) /\ Bound(generror(bs, snac2), snac2)
  <1> DEFINE data == IF snac2 = Absent THEN Absent ELSE snac2.data
  <1>1. data = Absent \/ (snac2 # Absent /\ data = snac2.data)
    OBVIOUS
  <1>2. Bound(error(snac2), snac2)
    BY OneCall, NoCall, Zenon DEF error
  <1>3. /\ \E v : reply(bs, snac2) = <<Args("answer", data, v)>>
        /\ \E v : generror(bs, snac2) = <<Args("error", data, v)>>
    BY Zenon DEF reply, generror
  <1> HIDE DEF data
  <1> QED
    BY <1>1, <1>2, <1>3, OneCall

LEMMA UserinfoBound == ASSUME NEW snac2, NEW bs PROVE Bound(userinfo(bs, snac2), snac2)
  <1>1. CASE snac2 = Absent
    BY <1>1, NoCall, Zenon DEF userinfo
  <1>2. CASE snac2 # Absent
    <2>1. ASSUME NEW user, NEW list, NEW need
          PROVE  Bound(InfoCall(user, list, need, snac2.data), snac2)
      <3>1. \A v : Bound(<<Args("answer", snac2.data, v)>>, snac2)
        BY <1>2, OneCall
      <3> QED
        BY <3>1, NoCall, Zenon DEF InfoCall
    <2> QED
      BY <1>2, <2>1, Zenon DEF userinfo
  <1> QED
    BY <1>1, <1>2

LEMMA ParseinfoBound == ASSUME NEW snac2, NEW bs PROVE Bound(parseinfo(bs, snac2), snac2)
  <1>1. CASE snac2 = Absent
    BY <1>1, NoCall, Zenon DEF parseinfo
  <1>2. CASE snac2 # Absent
    <2>1. \A v : Bound(<<Args("answer", snac2.data, v)>>, snac2)
      BY <1>2, OneCall
    <2>2. \A list : Bound(parseinfo_perms(list, snac2), snac2)
      BY <2>1, Zenon DEF parseinfo_perms
    <2>3. \A list : Bound(parseinfo_create(list, snac2), snac2)
      BY <2>1, NoCall, SMT DEF parseinfo_create
    <2> QED
      BY <1>2, <2>2, <2>3, NoCall DEF parseinfo
  <1> QED
    BY <1>1, <1>2

\* The handler of every family.
LEMMA HandlerBound ==
    ASSUME NEW snac, NEW bs, NEW snac2
    PROVE  Bound(snachandler(snac, bs, snac2), snac2)
  BY NoCall, UnaskedBound, NoticesBound, IcqBound, ChatBound, SearchBound, UserinfoBound, ParseinfoBound
     DEF snachandler

\* Only the one of searches takes an error itself.
LEMMA ErrorHandler ==
    ASSUME NEW snac, NEW bs, NEW snac2, snac[2] = 1
    PROVE  snachandler(snac, bs, snac2) = IF snac = <<10, 1>> THEN error(snac2) ELSE <<>>
  BY DEF snachandler

-----------------------------------------------------------------------------
(* The invariant *)

\* A request as Ask makes it: its frame is made with the id it is kept under.
Made == {[call |-> c, id |-> i, frame |-> FrameOf(Calls[c].req[i], i)] :
             c \in DOMAIN Calls, i \in 0..MaxRequests}

IInv == requests \in Seq(Made) /\ TypeOK

LEMMA MadeIs ==
    ASSUME NEW r \in Made
    PROVE  /\ r.call \in DOMAIN Calls /\ r.id \in 0..MaxRequests
           /\ r.frame = FrameOf(Calls[r.call].req[r.id], r.id)
  BY DEF Made

\* What is left of a cache.
Left(c, d) == \A i \in DOMAIN c : i \in DOMAIN d /\ c[i] = d[i]

LEMMA WithoutLeft == ASSUME NEW c, NEW id PROVE Left(Without(c, id), c)
  BY DEF Left, Without

LEMMA LeftLeft == ASSUME NEW c, NEW d, NEW e, Left(c, d), Left(d, e) PROVE Left(c, e)
  BY DEF Left

LEMMA LeftSelf == ASSUME NEW c PROVE Left(c, c)
  BY DEF Left

\* A SNAC that arrives only takes from the cache.
LEMMA Consumed ==
    ASSUME NEW a, NEW id, NEW ret, NEW made
    PROVE  Left(consumesnac(a, id, ret, made).cache, cache)
  <1> DEFINE left == IF a.snac \in LooksUp THEN Without(cache, id) ELSE cache
             end  == consumesnac(a, id, ret, made).cache
  <1>1. Left(left, cache)
    BY WithoutLeft, LeftSelf
  <1>2. end = left \/ end = Without(left, id)
    BY DEF consumesnac
  <1> HIDE DEF left, end
  <1>3. Left(end, cache)
    BY <1>1, <1>2, WithoutLeft, LeftLeft
  <1> QED
    BY <1>3 DEF end

LEMMA IInvInit == Init => IInv
  <1> SUFFICES ASSUME Init PROVE IInv
    OBVIOUS
  <1>1. requests \in Seq(Made) /\ Len(requests) = 0
    BY EmptySeq DEF Init
  <1>2. DOMAIN cache = {} /\ open = {}
    BY DEF Init
  <1>3. MaxRequests \in Nat
    BY RequestsAssumption
  <1> QED
    BY <1>1, <1>2, <1>3 DEF IInv, TypeOK

\* The parts of TypeOK, for a later state in which the requests are the same.
LEMMA Keeps ==
    ASSUME IInv, UNCHANGED requests, Left(cache', cache), open' \subseteq open
    PROVE  IInv'
  <1>1. \A i : Kept(i)' = Kept(i)
    BY DEF Kept
  <1>2. \A id \in DOMAIN cache' : id \in 1..Len(requests) /\ cache'[id] = Kept(id)
    BY DEF IInv, TypeOK, Left
  <1> QED
    BY <1>1, <1>2 DEF IInv, TypeOK

LEMMA AskKeeps ==
    ASSUME IInv, NEW c \in DOMAIN Calls, NEW fails, Ask(c, fails)
    PROVE  IInv' /\ got' = Nothing
  <1>14. PICK n : n = Len(requests) + 1
    OBVIOUS
  <1> DEFINE req == Calls[c].req
             id  == IF fails \/ ~req[n].cached THEN 0 ELSE n
             new == [call |-> c, id |-> id, frame |-> FrameOf(req[id], id)]
  <1>1. /\ n <= MaxRequests /\ requests' = Append(requests, new)
        /\ cache' = (IF id = 0 THEN cache ELSE With(cache, id, req[id].kept))
        /\ open' = open \cup {n} /\ got' = Nothing
    BY <1>14 DEF Ask
  <1>2. requests \in Seq(Made) /\ Len(requests) \in Nat /\ MaxRequests \in Nat
    BY RequestsAssumption, LenProperties DEF IInv
  <1>3. id \in {0, n} /\ id \in 0..MaxRequests
    BY <1>1, <1>2, <1>14
  <1>4. new \in Made
    <2> HIDE DEF id
    <2> QED
      BY <1>3 DEF Made
  <1>5. new.call = c /\ new.id = id
    OBVIOUS
  <1> HIDE DEF id, new
  <1>6. /\ requests' \in Seq(Made) /\ Len(requests') = n /\ requests'[n] = new
        /\ \A i \in 1..Len(requests) : requests'[i] = requests[i]
    BY <1>1, <1>2, <1>4, <1>14, AppendProperties
  <1>7. n \in Nat /\ n \in 1..n /\ \A i \in 1..Len(requests) : i \in 1..n /\ i # n
    BY <1>2, <1>14
  <1>8. \A i \in 1..n : i = n \/ i \in 1..Len(requests)
    BY <1>2, <1>14
  <1>9. \A i \in 1..Len(requests) : Kept(i)' = Kept(i)
    BY <1>6 DEF Kept
  <1>10. \A i \in 1..n : requests'[i].id \in {0, i}
    <2>1. \A i \in 1..Len(requests) : requests[i].id \in {0, i}
      BY DEF IInv, TypeOK
    <2> QED
      BY <1>3, <1>5, <1>6, <1>8, <2>1
  <1>11. \A i \in DOMAIN cache' : i \in 1..n /\ cache'[i] = Kept(i)'
    <2>1. \A i \in DOMAIN cache : i \in 1..Len(requests) /\ cache[i] = Kept(i)
      BY DEF IInv, TypeOK
    <2>2. CASE id = 0
      BY <1>1, <1>7, <1>9, <2>1, <2>2
    <2>3. CASE id # 0
      <3>1. id = n
        BY <1>3, <2>3
      <3>2. cache' = With(cache, n, req[n].kept)
        BY <1>1, <2>3, <3>1
      <3>3. /\ \A i \in DOMAIN cache' : i \in DOMAIN cache \/ i = n
            /\ \A i \in DOMAIN cache : i # n => cache'[i] = cache[i]
            /\ cache'[n] = req[n].kept
        BY <3>2 DEF With
      <3>4. n \notin DOMAIN cache
        BY <1>7, <2>1
      <3>5. Kept(n)' = req[n].kept
        BY <1>5, <1>6, <3>1 DEF Kept
      <3> QED
        BY <1>7, <1>9, <2>1, <3>3, <3>4, <3>5
    <2> QED
      BY <2>2, <2>3
  <1>12. open' \subseteq 1..n
    BY <1>1, <1>7 DEF IInv, TypeOK
  <1>13. TypeOK'
    BY <1>1, <1>6, <1>10, <1>11, <1>12 DEF TypeOK
  <1> QED
    BY <1>1, <1>6, <1>13 DEF IInv

LEMMA CleansnacsKeeps ==
    ASSUME IInv, NEW oldest, aim_cleansnacs(oldest)
    PROVE  IInv' /\ got' = Nothing
  <1>1. cache' = [id \in {i \in DOMAIN cache : i >= oldest} |-> cache[id]]
        /\ got' = Nothing /\ UNCHANGED <<requests, open>>
    BY DEF aim_cleansnacs
  <1>2. Left(cache', cache)
    BY <1>1 DEF Left
  <1> QED
    BY <1>1, <1>2, Keeps

LEMMA ArriveKeeps ==
    ASSUME IInv, NEW n, NEW a, NEW id, NEW ret, Arrive(n, a, id, ret)
    PROVE  IInv'
  <1>1. /\ \E made : cache' = consumesnac(a, id, ret, made).cache
        /\ open' = open \ {n} /\ UNCHANGED requests
    BY DEF Arrive
  <1>2. Left(cache', cache)
    BY <1>1, Consumed
  <1> QED
    BY <1>1, <1>2, Keeps

\* A step is a call, an arrival or the cleaning of the cache.
LEMMA IInvStep == IInv /\ [Next]_vars => IInv'
  <1> SUFFICES ASSUME IInv, [Next]_vars PROVE IInv'
    OBVIOUS
  <1>1. ASSUME NEW c \in DOMAIN Calls, NEW fails \in Failures, Ask(c, fails) PROVE IInv'
    BY <1>1, AskKeeps
  <1>2. ASSUME NEW n \in 0..MaxRequests, NEW ret \in Returns, NEW w \in Incoming(n), Arrive(n, w.a, w.id, ret)
        PROVE  IInv'
    BY <1>2, ArriveKeeps
  <1>3. ASSUME NEW id \in 2..(MaxRequests + 1), aim_cleansnacs(id) PROVE IInv'
    BY <1>3, CleansnacsKeeps
  <1>4. ASSUME UNCHANGED vars PROVE IInv'
    <2>1. UNCHANGED requests /\ open' \subseteq open /\ Left(cache', cache)
      BY <1>4, LeftSelf DEF vars
    <2> QED
      BY <2>1, Keeps
  <1> QED
    BY <1>1, <1>2, <1>3, <1>4 DEF Next

\* Ids are those of requests, and what the cache keeps under one is what its request
\* stored, whatever was asked, answered and forgotten in between (snac.c as the
\* functions that send and the handlers use it).
THEOREM TypeCorrect == Spec => []TypeOK
  <1>1. Init => IInv
    BY IInvInit
  <1>2. IInv /\ [Next]_vars => IInv'
    BY IInvStep
  <1>3. IInv => TypeOK
    BY DEF IInv
  <1> QED
    BY <1>1, <1>2, <1>3, PTL DEF Spec

-----------------------------------------------------------------------------
(* The right data *)

\* The ids a frame can carry.
LEMMA WordsBelow ==
    ASSUME NEW m \in Nat, m < 65536 * 65536, NEW i \in 0..m
    PROVE  Word(i)
  BY SMT DEF Word

\* What arrives carries the id of the request it answers, if the cache knows that.
LEMMA IdOf ==
    ASSUME IInv, NEW n \in 0..MaxRequests, NEW w \in Incoming(n), \A i \in 0..MaxRequests : Word(i)
    PROVE  w.id = 0 \/ (w.id = n /\ n # 0 /\ requests[n].id = n)
  <1>1. CASE n \in open
    <2> DEFINE r == requests[n]
               req == Calls[r.call].req[r.id]
    <2>1. n \in 1..Len(requests) /\ r.id \in {0, n}
      BY <1>1 DEF IInv, TypeOK
    <2>2. r \in Made
      BY <2>1, ElementOfSeq DEF IInv
    <2> HIDE DEF r
    <2>3. r.call \in DOMAIN Calls /\ r.id \in 0..MaxRequests /\ r.frame = FrameOf(req, r.id)
      BY <2>2, MadeIs
    <2>4. IsRequest(req)
      BY <2>3, CallsAssumption
    <2>5. Word(r.id)
      BY <2>3
    <2> HIDE DEF req
    <2>6. Snac(r.frame)[4] = IF req.named THEN r.id ELSE 0
      BY <2>3, <2>4, <2>5, SnacOfFrame
    <2>7. n # 0
      BY <2>1
    <2>8. w.id = Snac(r.frame)[4]
      <3>1. Incoming(n) = {[a |-> a, id |-> Snac(requests[n].frame)[4]] :
                             a \in ServerAnswers(requests[n].frame)}
        BY <1>1, <2>7, Zenon DEF Incoming
      <3>2. PICK a : w = [a |-> a, id |-> Snac(requests[n].frame)[4]]
        BY <3>1
      <3> QED
        BY <3>2 DEF r
    <2> QED
      BY <2>1, <2>6, <2>7, <2>8 DEF r
  <1>2. CASE n \notin open
    <2>1. Incoming(n) \subseteq {[a |-> Notices[i], id |-> 0] : i \in DOMAIN Notices}
      BY <1>2 DEF Incoming
    <2> QED
      BY <2>1
  <1> QED
    BY <1>1, <1>2

\* Calls of two handlers, one after the other.
LEMMA BothBound ==
    ASSUME NEW S, NEW a \in Seq(S), NEW b \in Seq(S), NEW s, Bound(a, s), Bound(b, s)
    PROVE  Bound(a \o b, s)
  <1> DEFINE c == a \o b
  <1>1. /\ c \in Seq(S) /\ Len(c) = Len(a) + Len(b) /\ Len(a) \in Nat /\ Len(b) \in Nat
        /\ \A k \in 1..Len(a) : c[k] = a[k]
        /\ \A k \in 1..Len(b) : c[Len(a) + k] = b[k]
    BY Joined
  <1>2. DOMAIN c = 1..(Len(a) + Len(b)) /\ DOMAIN a = 1..Len(a) /\ DOMAIN b = 1..Len(b)
    BY <1>1, LenProperties
  <1> HIDE DEF c
  <1>3. ASSUME NEW i \in DOMAIN c
        PROVE  (\E k \in DOMAIN a : c[i] = a[k]) \/ (\E k \in DOMAIN b : c[i] = b[k])
    <2>1. CASE i \in 1..Len(a)
      BY <1>1, <1>2, <2>1
    <2>2. CASE i \notin 1..Len(a)
      <3> DEFINE k == i - Len(a)
      <3>1. k \in 1..Len(b) /\ Len(a) + k = i
        BY <1>1, <1>2, <2>2
      <3> QED
        BY <1>1, <1>2, <3>1
    <2> QED
      BY <2>1, <2>2
  <1>4. Bound(c, s)
    BY <1>3 DEF Bound
  <1> QED
    BY <1>4 DEF c

\* An error is taken by at most one handler before the catch-all's: the calls are
\* those of one, or those of both.
LEMMA CallsBound ==
    ASSUME NEW a, NEW bs, NEW id, NEW ret, NEW snac2, snac2 = aim_remsnac(cache, id),
           NEW made, made = snachandler(a.snac, bs, snac2)
    PROVE  Bound(consumesnac(a, id, ret, made).calls, snac2)
  <1> DEFINE left == IF a.snac \in LooksUp THEN Without(cache, id) ELSE cache
             rest == aim_remsnac(left, id)
             gen  == generror(aim_bstream_init(a.body), rest)
             calls == consumesnac(a, id, ret, made).calls
  <1>1. calls = made \/ (a.snac[2] = 1 /\ calls = made \o gen)
    BY DEF consumesnac
  <1>2. Bound(made, snac2)
    BY HandlerBound
  <1>3. rest = Absent \/ rest = snac2
    BY DEF aim_remsnac, Without
  <1>4. Bound(gen, snac2)
    <2>1. Bound(gen, rest)
      BY SearchBound
    <2> HIDE DEF gen, rest
    <2> QED
      BY <1>3, <2>1 DEF Bound
  <1>5. ASSUME a.snac[2] = 1 PROVE Bound(made \o gen, snac2)
    <2>1. \E x : gen = <<x>>
      BY DEF generror
    <2>2. made = <<>> \/ \E x : made = <<x>>
      <3>1. made = IF a.snac = <<10, 1>> THEN error(snac2) ELSE <<>>
        BY <1>5, ErrorHandler
      <3> QED
        BY <3>1 DEF error
    <2> HIDE DEF gen
    <2>3. PICK x : gen = <<x>>
      BY <2>1
    <2>4. PICK y : made = <<>> \/ made = <<y>>
      BY <2>2
    <2> DEFINE S == {x, y}
    <2>5. <<>> \in Seq(S) /\ \A z \in S : <<z>> \in Seq(S)
      <3> HIDE DEF S
      <3> QED
        OBVIOUS
    <2>6. made \in Seq(S) /\ gen \in Seq(S)
      <3>1. x \in S /\ y \in S
        OBVIOUS
      <3> HIDE DEF S
      <3> QED
        BY <2>3, <2>4, <2>5, <3>1
    <2> HIDE DEF S
    <2> QED
      BY <1>2, <1>4, <2>6, BothBound
  <1> HIDE DEF calls, gen
  <1>6. Bound(calls, snac2)
    BY <1>1, <1>2, <1>5
  <1> QED
    BY <1>6 DEF calls

LEMMA ArriveAttributes ==
    ASSUME IInv, \A i \in 0..MaxRequests : Word(i),
           NEW n \in 0..MaxRequests, NEW ret, NEW w \in Incoming(n), Arrive(n, w.a, w.id, ret)
    PROVE  Attributed'
  <1> DEFINE snac2 == aim_remsnac(cache, w.id)
             bs == aim_bstream_init(w.a.body)
             made == snachandler(w.a.snac, bs, snac2)
             calls == consumesnac(w.a, w.id, ret, made).calls
  <1>1. got'.request = n /\ got'.calls = calls /\ requests' = requests
    BY DEF Arrive
  <1>2. Bound(calls, snac2)
    BY CallsBound
  <1>3. ASSUME snac2 # Absent PROVE n # 0 /\ snac2 = Kept(n)
    <2>1. w.id \in DOMAIN cache /\ snac2 = cache[w.id]
      BY <1>3 DEF aim_remsnac
    <2>2. w.id \in 1..Len(requests) /\ cache[w.id] = Kept(w.id)
      BY <2>1 DEF IInv, TypeOK
    <2>3. w.id # 0
      BY <2>2
    <2>4. w.id = n /\ n # 0
      BY <2>3, IdOf
    <2> QED
      BY <2>1, <2>2, <2>4
  <1> HIDE DEF calls, snac2
  <1>4. Kept(n)' = Kept(n)
    BY <1>1 DEF Kept
  <1> QED
    BY <1>1, <1>2, <1>3, <1>4 DEF Bound, Attributed

\* No callback is given the data of another request than the one answered: the id in
\* the frame is where the server finds it, whatever could not be put behind it, and
\* what a handler takes from the cache under the id of an answer was kept with that
\* request.  Ids do not wrap: fewer requests are made than 32 bits count.
THEOREM RightData ==
    ASSUME MaxRequests < 65536 * 65536
    PROVE  Spec => []Attributed
  <1>1. \A i \in 0..MaxRequests : Word(i)
    BY RequestsAssumption, WordsBelow
  <1>2. Init => IInv /\ Attributed
    BY IInvInit DEF Init, Nothing, Attributed
  <1>3. IInv /\ Attributed /\ [Next]_vars => IInv' /\ Attributed'
    <2> SUFFICES ASSUME IInv, Attributed, [Next]_vars PROVE IInv' /\ Attributed'
      OBVIOUS
    <2>1. IInv'
      BY IInvStep
    <2>2. ASSUME got' = Nothing PROVE Attributed'
      BY <2>2 DEF Nothing, Attributed
    <2>3. ASSUME NEW c \in DOMAIN Calls, NEW fails \in Failures, Ask(c, fails) PROVE Attributed'
      BY <2>2, <2>3, AskKeeps
    <2>4. ASSUME NEW n \in 0..MaxRequests, NEW ret \in Returns, NEW w \in Incoming(n),
                 Arrive(n, w.a, w.id, ret)
          PROVE  Attributed'
      BY <1>1, <2>4, ArriveAttributes
    <2>5. ASSUME NEW id \in 2..(MaxRequests + 1), aim_cleansnacs(id) PROVE Attributed'
      BY <2>2, <2>5, CleansnacsKeeps
    <2>6. ASSUME UNCHANGED vars PROVE Attributed'
      BY <2>6 DEF vars, Attributed, Kept
    <2> QED
      BY <2>1, <2>3, <2>4, <2>5, <2>6 DEF Next
  <1> QED
    BY <1>2, <1>3, PTL DEF Spec

-----------------------------------------------------------------------------
(* An answer for every request *)

\* What an answer has in which the handler finds what was asked for: one of the three
\* kinds of information there are, or exchanges, or a room in full detail.
Fits(a, kept) ==
    LET block == aim_gettlv(aim_readtlvchain(aim_bstream_init(a.body)), 4, 1)
    IN  /\ a.snac = <<2, 6>> => kept.data.infotype \in {1, 3, 4}
        /\ a.snac = <<13, 9>> =>
              /\ kept.family = 13
              /\ \/ kept.type = 2
                 \/ /\ kept.type = 8
                    /\ block # NULL
                    /\ Gets(aim_bstream_init(block), <<2, -1, 2, 1, 2>>).v[4] = 2

\* The server's answers are such.
AnswersFit ==
    \A c \in DOMAIN Calls, id \in 1..MaxRequests :
        \A a \in ServerAnswers(FrameOf(Calls[c].req[id], id)) : Fits(a, Calls[c].req[id].kept)

\* One callback.
One(calls, form, data) == Len(calls) = 1 /\ calls[1].form = form /\ calls[1].data = data

LEMMA OneMade == ASSUME NEW form, NEW data, NEW v PROVE One(<<Args(form, data, v)>>, form, data)
  BY DEF One, Args

LEMMA SearchMakes ==
    ASSUME NEW snac2, snac2 # Absent, NEW bs
    PROVE  /\ One(error(snac2), "address", snac2.data)
           /\ One(reply(bs, snac2), "answer", snac2.data)
           /\ \E v : generror(bs, snac2) = <<Args("error", snac2.data, v)>>
  <1>1. /\ error(snac2) = <<Args("address", snac2.data, Absent)>>
        /\ \E v : reply(bs, snac2) = <<Args("answer", snac2.data, v)>>
        /\ \E v : generror(bs, snac2) = <<Args("error", snac2.data, v)>>
    BY Zenon DEF error, reply, generror
  <1> QED
    BY <1>1, OneMade

LEMMA UserinfoMakes ==
    ASSUME NEW snac2, snac2 # Absent, snac2.data.infotype \in {1, 3, 4}, NEW bs
    PROVE  One(userinfo(bs, snac2), "answer", snac2.data)
  <1>1. \A v : One(<<Args("answer", snac2.data, v)>>, "answer", snac2.data)
    BY OneMade
  <1>2. ASSUME NEW user, NEW list, NEW need \in {1, 3, 4}
        PROVE  One(InfoCall(user, list, need, snac2.data), "answer", snac2.data)
    <2>1. CASE need = 1
      BY <1>1, <2>1, SMT DEF InfoCall
    <2>2. CASE need = 3
      BY <1>1, <2>2, SMT DEF InfoCall
    <2>3. CASE need = 4
      BY <1>1, <2>3, SMT DEF InfoCall
    <2> QED
      BY <2>1, <2>2, <2>3
  <1> QED
    BY <1>2, Zenon DEF userinfo

LEMMA ParseinfoMakes ==
    ASSUME NEW snac2, snac2 # Absent, NEW a, a.snac = <<13, 9>>, Fits(a, snac2)
    PROVE  One(parseinfo(aim_bstream_init(a.body), snac2), "answer", snac2.data)
  <1> DEFINE list == aim_readtlvchain(aim_bstream_init(a.body))
             block == aim_gettlv(list, 4, 1)
             fields == Gets(aim_bstream_init(block), <<2, -1, 2, 1, 2>>)
  <1>1. \A v : One(<<Args("answer", snac2.data, v)>>, "answer", snac2.data)
    BY OneMade
  <1>2. snac2.family = 13 /\ (snac2.type = 2 \/ (snac2.type = 8 /\ block # NULL /\ fields.v[4] = 2))
    BY Zenon DEF Fits
  <1>3. CASE snac2.type = 2
    <2>1. parseinfo(aim_bstream_init(a.body), snac2) = parseinfo_perms(list, snac2)
      <3> HIDE DEF list
      <3> QED
        BY <1>2, <1>3 DEF parseinfo, list
    <2>2. One(parseinfo_perms(list, snac2), "answer", snac2.data)
      BY <1>1, Zenon DEF parseinfo_perms
    <2> QED
      BY <2>1, <2>2
  <1>4. CASE snac2.type # 2
    <2>1. snac2.type = 8 /\ block # NULL /\ fields.v[4] = 2
      BY <1>2, <1>4
    <2>2. parseinfo(aim_bstream_init(a.body), snac2) = parseinfo_create(list, snac2)
      BY <1>2, <2>1 DEF parseinfo
    <2>3. One(parseinfo_create(list, snac2), "answer", snac2.data)
      BY <1>1, <2>1, SMT DEF parseinfo_create
    <2> QED
      BY <2>2, <2>3
  <1> QED
    BY <1>3, <1>4

\* A request that is known and its answer.
LEMMA Known ==
    ASSUME IInv, \A i \in 0..MaxRequests : Word(i), AnswersFit,
           NEW n \in 0..MaxRequests, NEW w \in Incoming(n), w.id \in DOMAIN cache
    PROVE  /\ n \in 1..Len(requests) /\ aim_remsnac(cache, w.id) = Kept(n)
           /\ Kept(n) # Absent /\ Fits(w.a, Kept(n))
  <1>1. w.id \in 1..Len(requests) /\ cache[w.id] = Kept(w.id)
    BY DEF IInv, TypeOK
  <1>2. w.id = n /\ n # 0 /\ requests[n].id = n
    <2>1. w.id # 0
      BY <1>1
    <2> QED
      BY <2>1, IdOf
  <1> DEFINE r == requests[n]
             req == Calls[r.call].req[n]
  <1>3. r \in Made
    BY <1>1, <1>2, ElementOfSeq DEF IInv
  <1>4. r.call \in DOMAIN Calls /\ r.frame = FrameOf(req, n) /\ Kept(n) = req.kept
    <2> HIDE DEF r
    <2>1. r.id = n
      BY <1>2 DEF r
    <2>2. r.call \in DOMAIN Calls /\ r.frame = FrameOf(req, n)
      BY <1>3, <2>1, MadeIs
    <2>3. Kept(n) = req.kept
      BY <1>2 DEF Kept, r
    <2> QED
      BY <2>2, <2>3
  <1>5. Kept(n) # Absent
    <2>1. IsRequest(req)
      BY <1>4, CallsAssumption
    <2>2. DOMAIN req.kept = {"family", "type", "data"}
      BY <2>1 DEF IsRequest
    <2>3. DOMAIN Absent = {"absent"}
      BY DEF Absent
    <2>4. "data" \notin DOMAIN Absent /\ "data" \in DOMAIN req.kept
      BY <2>2, <2>3
    <2> QED
      BY <1>4, <2>4
  <1>6. w.a \in ServerAnswers(r.frame)
    <2>1. n \in open
      <3> SUFFICES ASSUME n \notin open PROVE FALSE
        OBVIOUS
      <3>1. Incoming(n) = {}
        BY <1>2, Zenon DEF Incoming
      <3> QED
        BY <3>1
    <2>2. Incoming(n) = {[a |-> a, id |-> Snac(requests[n].frame)[4]] :
                            a \in ServerAnswers(requests[n].frame)}
      BY <1>2, <2>1, Zenon DEF Incoming
    <2>3. PICK a \in ServerAnswers(requests[n].frame) :
              w = [a |-> a, id |-> Snac(requests[n].frame)[4]]
      BY <2>2
    <2> QED
      BY <2>3
  <1>7. Fits(w.a, Kept(n))
    <2>1. n \in 1..MaxRequests
      BY <1>2
    <2> HIDE DEF r
    <2> QED
      BY <1>4, <1>6, <2>1 DEF AnswersFit
  <1> QED
    BY <1>1, <1>2, <1>5, <1>7 DEF aim_remsnac

\* The calls made for an answer or an error whose request is known.
LEMMA CallsMade ==
    ASSUME NEW a, NEW id, NEW ret, ret # 0, NEW kept, kept = aim_remsnac(cache, id), kept # Absent,
           Fits(a, kept), a.snac \in LooksUp \/ a.snac[2] = 1,
           NEW made, made = snachandler(a.snac, aim_bstream_init(a.body), kept)
    PROVE  One(consumesnac(a, id, ret, made).calls,
               CASE a.snac = <<10, 1>> -> "address"
                 [] a.snac # <<10, 1>> /\ a.snac[2] = 1 -> "error"
                 [] OTHER -> "answer", kept.data)
  <1> DEFINE bs == aim_bstream_init(a.body)
             calls == consumesnac(a, id, ret, made).calls
  <1>1. CASE a.snac = <<10, 1>>
    <2>1. One(made, "address", kept.data)
      BY <1>1, SearchMakes DEF snachandler
    <2>2. made # <<>>
      BY <2>1 DEF One
    <2>3. calls = made
      BY <2>2 DEF consumesnac
    <2> QED
      BY <1>1, <2>1, <2>3
  <1>2. CASE a.snac # <<10, 1>> /\ a.snac[2] = 1
    <2>1. made = <<>>
      BY <1>2, ErrorHandler
    <2>2. a.snac \notin LooksUp
      BY <1>2 DEF LooksUp
    <2>3. calls = <<>> \o generror(bs, kept)
      BY <1>2, <2>1, <2>2 DEF consumesnac
    <2>4. PICK v : generror(bs, kept) = <<Args("error", kept.data, v)>>
      BY SearchMakes
    <2>5. calls = <<Args("error", kept.data, v)>>
      BY <2>3, <2>4
    <2> QED
      BY <1>2, <2>5, OneMade
  <1>3. CASE a.snac \in {<<10, 3>>, <<2, 6>>, <<13, 9>>}
    <2>1. a.snac[2] # 1 /\ a.snac # <<10, 1>>
      BY <1>3
    <2>2. calls = made
      BY <2>1 DEF consumesnac
    <2>3. One(made, "answer", kept.data)
      <3>1. CASE a.snac = <<10, 3>>
        <4>1. made = reply(bs, kept)
          BY <3>1 DEF snachandler
        <4> QED
          BY <4>1, SearchMakes
      <3>2. CASE a.snac = <<2, 6>>
        <4>1. made = userinfo(bs, kept)
          BY <3>2 DEF snachandler
        <4>2. kept.data.infotype \in {1, 3, 4}
          BY <3>2 DEF Fits
        <4> QED
          BY <4>1, <4>2, UserinfoMakes
      <3>3. CASE a.snac = <<13, 9>>
        <4>1. made = parseinfo(bs, kept)
          BY <3>3 DEF snachandler
        <4> QED
          BY <3>3, <4>1, ParseinfoMakes
      <3> QED
        BY <1>3, <3>1, <3>2, <3>3
    <2> QED
      BY <2>1, <2>2, <2>3
  <1> QED
    BY <1>1, <1>2, <1>3 DEF LooksUp

LEMMA ArriveAnswers ==
    ASSUME IInv, \A i \in 0..MaxRequests : Word(i), AnswersFit,
           NEW n \in 0..MaxRequests, NEW ret, ret # 0, NEW w \in Incoming(n), Arrive(n, w.a, w.id, ret)
    PROVE  Answered'
  <1> DEFINE snac2 == aim_remsnac(cache, w.id)
             made == snachandler(w.a.snac, aim_bstream_init(w.a.body), snac2)
             calls == consumesnac(w.a, w.id, ret, made).calls
  <1>1. /\ got'.request = n /\ got'.calls = calls /\ requests' = requests
        /\ got'.known = (w.id \in DOMAIN cache) /\ got'.snac = w.a.snac
    BY DEF Arrive
  <1> SUFFICES ASSUME w.id \in DOMAIN cache, w.a.snac \in LooksUp \/ w.a.snac[2] = 1
               PROVE  Answered'
    BY <1>1 DEF Answered
  <1>2. snac2 = Kept(n) /\ snac2 # Absent /\ Fits(w.a, snac2)
    BY Known
  <1>3. One(calls,
            CASE w.a.snac = <<10, 1>> -> "address"
              [] w.a.snac # <<10, 1>> /\ w.a.snac[2] = 1 -> "error"
              [] OTHER -> "answer", snac2.data)
    <2> HIDE DEF snac2
    <2> QED
      BY <1>2, CallsMade DEF snac2
  <1> HIDE DEF calls, snac2
  <1>4. Kept(n)' = Kept(n)
    BY <1>1 DEF Kept
  <1> QED
    BY <1>1, <1>2, <1>3, <1>4 DEF One, Answered

\* An answer or an error whose request is still known makes exactly one callback, of
\* the right form and with what the request kept, whichever of the modules takes it
\* and whatever else was asked meanwhile.  Callbacks do not return 0 (the table of
\* the README shows why), and answers have what their handlers look for.
THEOREM OneCallbackEach ==
    ASSUME MaxRequests < 65536 * 65536, 0 \notin Returns, AnswersFit
    PROVE  Spec => []Answered
  <1>1. \A i \in 0..MaxRequests : Word(i)
    BY RequestsAssumption, WordsBelow
  <1>2. Init => IInv /\ Answered
    BY IInvInit DEF Init, Nothing, Answered
  <1>3. IInv /\ Answered /\ [Next]_vars => IInv' /\ Answered'
    <2> SUFFICES ASSUME IInv, Answered, [Next]_vars PROVE IInv' /\ Answered'
      OBVIOUS
    <2>1. IInv'
      BY IInvStep
    <2>2. ASSUME got' = Nothing PROVE Answered'
      BY <2>2 DEF Nothing, Answered
    <2>3. ASSUME NEW c \in DOMAIN Calls, NEW fails \in Failures, Ask(c, fails) PROVE Answered'
      BY <2>2, <2>3, AskKeeps
    <2>4. ASSUME NEW n \in 0..MaxRequests, NEW ret \in Returns, NEW w \in Incoming(n),
                 Arrive(n, w.a, w.id, ret)
          PROVE  Answered'
      BY <1>1, <2>4, ArriveAnswers
    <2>5. ASSUME NEW id \in 2..(MaxRequests + 1), aim_cleansnacs(id) PROVE Answered'
      BY <2>2, <2>5, CleansnacsKeeps
    <2>6. ASSUME UNCHANGED vars PROVE Answered'
      BY <2>6 DEF vars, Answered, Kept
    <2> QED
      BY <2>1, <2>3, <2>4, <2>5, <2>6 DEF Next
  <1> QED
    BY <1>2, <1>3, PTL DEF Spec
=============================================================================
