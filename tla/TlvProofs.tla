----------------------------- MODULE TlvProofs -----------------------------
(***************************************************************************)
(* What the operators on byte streams and TLV chains do, for every input:  *)
(* a number put is the number got, a get moves by a whole field or not at  *)
(* all, a put never exceeds the room, and a chain that was written is read *)
(* one TLV after the other.                                                *)
(***************************************************************************)
EXTENDS Tlv, SequenceTheorems, NaturalsInduction, WellFoundedInduction, TLAPS

-----------------------------------------------------------------------------
(* Recursion on natural numbers *)

\* A nonempty set of naturals has a least member: what stands in for induction.
LEMMA NatMin ==
    ASSUME NEW T \in SUBSET Nat, T # {}
    PROVE  \E n \in T : \A m \in T : n <= m
  <1>1. PICK n \in T : \A m \in T : ~(<<m, n>> \in OpToRel(<, Nat))
    BY NatLessThanWellFounded, WFMin, Zenon
  <1>2. \A m \in T : ~(m < n)
    BY <1>1 DEF OpToRel
  <1> QED
    BY <1>2

\* f is what step makes of base in n steps.
Iterates(f, n, V, base, step) ==
    /\ f \in [0..n -> V]
    /\ f[0] = base
    /\ \A k \in 1..n : f[k] = step[k][f[k - 1]]

LEMMA Recursion ==
    ASSUME NEW N \in Nat, NEW V, NEW base \in V, NEW step \in [1..N -> [V -> V]]
    PROVE  \E f : Iterates(f, N, V, base, step)
  <1> DEFINE T == {m \in Nat : m <= N /\ ~\E f : Iterates(f, m, V, base, step)}
  <1> SUFFICES ASSUME T # {} PROVE FALSE
    OBVIOUS
  <1>1. PICK m \in T : \A k \in T : m <= k
    BY NatMin
  <1>2. CASE m = 0
    <2>1. Iterates([k \in 0..0 |-> base], 0, V, base, step)
      BY DEF Iterates
    <2> QED
      BY <1>2, <2>1
  <1>3. CASE m # 0
    <2>1. m \in Nat /\ m - 1 \in Nat /\ m - 1 \notin T /\ m <= N
      BY <1>1, <1>3
    <2>2. PICK f : Iterates(f, m - 1, V, base, step)
      BY <2>1
    <2> DEFINE g == [k \in 0..m |-> IF k = m THEN step[m][f[m - 1]] ELSE f[k]]
    <2>3. f \in [0..(m - 1) -> V]
      BY <2>2 DEF Iterates
    <2>4. 0 \in 0..(m - 1) /\ m - 1 \in 0..(m - 1) /\ m \in 1..N
      BY <1>3, <2>1
    <2>5. step[m][f[m - 1]] \in V
      BY <2>3, <2>4
    <2>6. g \in [0..m -> V]
      <3>1. ASSUME NEW k \in 0..m PROVE g[k] \in V
        <4>1. k # m => k \in 0..(m - 1)
          BY <2>1
        <4> QED
          BY <2>3, <2>5, <4>1
      <3> QED
        BY <3>1
    <2>7. g[0] = base
      BY <1>3, <2>1, <2>2 DEF Iterates
    <2>8. ASSUME NEW k \in 1..m PROVE g[k] = step[k][g[k - 1]]
      <3>1. k - 1 \in 0..(m - 1) /\ k - 1 # m /\ k \in 0..m /\ k - 1 \in 0..m
        BY <2>1
      <3>2. g[k - 1] = f[k - 1]
        BY <3>1
      <3>3. CASE k = m
        BY <3>1, <3>2, <3>3
      <3>4. CASE k # m
        <4>1. k \in 1..(m - 1)
          BY <2>1, <3>4
        <4>2. f[k] = step[k][f[k - 1]]
          BY <2>2, <4>1 DEF Iterates
        <4> QED
          BY <3>1, <3>2, <3>4, <4>2
      <3> QED
        BY <3>3, <3>4
    <2> HIDE DEF g
    <2>9. Iterates(g, m, V, base, step)
      BY <2>6, <2>7, <2>8 DEF Iterates
    <2> QED
      BY <2>9
  <1> QED
    BY <1>2, <1>3

\* Whatever obeys the same equations is the same function.
Obeys(g, n, V, base, step) ==
    /\ g = [k \in 0..n |-> g[k]]
    /\ g[0] = base
    /\ \A k \in 1..n : g[k - 1] \in V => g[k] = step[k][g[k - 1]]

LEMMA SameIteration ==
    ASSUME NEW N \in Nat, NEW V, NEW base \in V, NEW step,
           NEW f, Iterates(f, N, V, base, step),
           NEW g, Obeys(g, N, V, base, step)
    PROVE  g = f
  <1> DEFINE T == {m \in Nat : m <= N /\ g[m] # f[m]}
  <1>1. f \in [0..N -> V] /\ f[0] = base /\ \A k \in 1..N : f[k] = step[k][f[k - 1]]
    BY DEF Iterates
  <1>2. ASSUME T # {} PROVE FALSE
    <2>1. PICK m \in T : \A k \in T : m <= k
      BY <1>2, NatMin
    <2>2. m # 0
      BY <1>1, <2>1 DEF Obeys
    <2>3. m \in 1..N /\ m - 1 \in Nat /\ m - 1 \in 0..N /\ m - 1 \notin T
      BY <2>1, <2>2
    <2>4. g[m - 1] = f[m - 1] /\ f[m - 1] \in V
      BY <1>1, <2>3
    <2> QED
      BY <1>1, <2>1, <2>3, <2>4 DEF Obeys
  <1>3. \A k \in 0..N : g[k] = f[k]
    BY <1>2
  <1> QED
    BY <1>1, <1>3 DEF Obeys

-----------------------------------------------------------------------------
(* Numbers *)

LEMMA ByteIs == \A x : x \in Byte <=> x \in 0..255
  BY DEF Byte

LEMMA ByteNat == \A x \in Byte : x \in Nat
  BY DEF Byte

LEMMA Put16 ==
    ASSUME NEW n \in Nat
    PROVE  /\ aimutil_put16(n) \in Seq(Byte)
           /\ Len(aimutil_put16(n)) = 2
           /\ n <= 65535 => 256 * aimutil_put16(n)[1] + aimutil_put16(n)[2] = n
  <1> DEFINE q == n \div 256
             r == n % 256
             h == q % 256
  <1>1. q \in Nat /\ r \in 0..255 /\ n = 256 * q + r
    OBVIOUS
  <1>2. h \in 0..255 /\ (q <= 255 => h = q)
    BY <1>1
  <1>3. n <= 65535 => q <= 255
    BY <1>1
  <1>4. aimutil_put16(n) = <<h, r>>
    BY DEF aimutil_put16
  <1> HIDE DEF q, r, h
  <1>5. <<h, r>> \in Seq(Byte) /\ Len(<<h, r>>) = 2 /\ <<h, r>>[1] = h /\ <<h, r>>[2] = r
    <2>1. h \in Byte /\ r \in Byte
      BY <1>1, <1>2, ByteIs
    <2> QED
      BY <2>1
  <1>6. n <= 65535 => 256 * h + r = n
    BY <1>1, <1>2, <1>3
  <1> QED
    BY <1>4, <1>5, <1>6

\* The recursion in aimutil_get.
GetStep(b) == [i \in 1..Len(b) |-> [v \in Nat |-> 256 * v + b[i]]]

LEMMA GetIterates ==
    ASSUME NEW b \in Seq(Byte)
    PROVE  \E f : Iterates(f, Len(b), Nat, 0, GetStep(b)) /\ aimutil_get(b) = f[Len(b)]
  <1> DEFINE n == Len(b)
             Shifted(v, k) == 256 * v + b[k]
             Rec(g) == [i \in 0..n |-> IF i = 0 THEN 0 ELSE Shifted(g[i - 1], i)]
             value == CHOOSE g : g = Rec(g)
  <1>1. n \in Nat /\ \A i \in 1..n : b[i] \in Nat
    <2>1. \A i \in 1..n : b[i] \in Byte
      BY ElementOfSeq
    <2> QED
      BY <2>1, ByteNat, LenProperties
  <1>2. GetStep(b) \in [1..n -> [Nat -> Nat]]
    BY <1>1 DEF GetStep
  <1>3. \A k \in 1..n : \A v \in Nat : GetStep(b)[k][v] = Shifted(v, k)
    BY DEF GetStep
  <1>9. aimutil_get(b) = value[n]
    BY DEF aimutil_get
  <1> HIDE DEF n, Shifted
  <1>4. PICK f : Iterates(f, n, Nat, 0, GetStep(b))
    BY <1>1, <1>2, Recursion
  <1>5. f \in [0..n -> Nat] /\ f[0] = 0 /\ \A k \in 1..n : f[k] = GetStep(b)[k][f[k - 1]]
    BY <1>4 DEF Iterates
  <1>6. ASSUME NEW k \in 0..n PROVE f[k] = IF k = 0 THEN 0 ELSE Shifted(f[k - 1], k)
    <2>1. CASE k = 0
      BY <1>5, <2>1
    <2>2. CASE k # 0
      <3>1. k \in 1..n /\ k - 1 \in 0..n
        BY <1>1, <2>2
      <3>2. f[k - 1] \in Nat
        BY <1>5, <3>1
      <3>3. f[k] = GetStep(b)[k][f[k - 1]]
        BY <1>5, <3>1
      <3>4. GetStep(b)[k][f[k - 1]] = Shifted(f[k - 1], k)
        BY <1>3, <3>1, <3>2
      <3> QED
        BY <2>2, <3>3, <3>4
    <2> QED
      BY <2>1, <2>2
  <1>7. f = Rec(f)
    BY <1>5, <1>6
  <1>8. value = Rec(value)
    BY <1>7
  <1> HIDE DEF value
  <1>10. \A k \in 0..n : value[k] = IF k = 0 THEN 0 ELSE Shifted(value[k - 1], k)
    BY <1>8
  <1>11. value = [k \in 0..n |-> value[k]] /\ value[0] = 0
    BY <1>1, <1>8, <1>10
  <1>12. ASSUME NEW k \in 1..n, value[k - 1] \in Nat PROVE value[k] = GetStep(b)[k][value[k - 1]]
    <2>1. k \in 0..n /\ k # 0
      BY <1>1
    <2>2. value[k] = Shifted(value[k - 1], k)
      BY <1>10, <2>1
    <2>3. GetStep(b)[k][value[k - 1]] = Shifted(value[k - 1], k)
      BY <1>3, <1>12
    <2> QED
      BY <2>2, <2>3
  <1>13. Obeys(value, n, Nat, 0, GetStep(b))
    BY <1>11, <1>12 DEF Obeys
  <1>14. 0 \in Nat
    OBVIOUS
  <1>15. value = f
    BY <1>1, <1>4, <1>13, <1>14, SameIteration
  <1> QED
    BY <1>4, <1>9, <1>15 DEF n

\* What is read is a number; two bytes are the one that was put.
LEMMA GetNumber ==
    ASSUME NEW b \in Seq(Byte)
    PROVE  /\ aimutil_get(b) \in Nat
           /\ Len(b) = 2 => aimutil_get(b) = 256 * b[1] + b[2]
  <1>1. PICK f : Iterates(f, Len(b), Nat, 0, GetStep(b)) /\ aimutil_get(b) = f[Len(b)]
    BY GetIterates
  <1>2. f \in [0..Len(b) -> Nat] /\ f[0] = 0 /\ \A k \in 1..Len(b) : f[k] = GetStep(b)[k][f[k - 1]]
    BY <1>1 DEF Iterates
  <1>3. Len(b) \in Nat
    OBVIOUS
  <1>4. aimutil_get(b) \in Nat
    BY <1>1, <1>2, <1>3
  <1>5. ASSUME Len(b) = 2 PROVE aimutil_get(b) = 256 * b[1] + b[2]
    <2>1. b[1] \in Nat
      <3>1. 1 \in 1..Len(b)
        BY <1>5
      <3> QED
        BY <3>1, ElementOfSeq, ByteNat
    <2>2. \A k \in 1..2 : k - 1 \in 0..2 /\ k - 1 \in Nat
      OBVIOUS
    <2>3. \A k \in 1..2 : \A v \in Nat : GetStep(b)[k][v] = 256 * v + b[k]
      BY <1>5, SMT DEF GetStep
    <2>4. f \in [0..2 -> Nat] /\ f[0] = 0 /\ \A k \in 1..2 : f[k] = GetStep(b)[k][f[k - 1]]
      BY <1>2, <1>5
    <2>5. ASSUME NEW k \in 1..2 PROVE f[k] = 256 * f[k - 1] + b[k]
      <3> DEFINE g == GetStep(b)[k]
                 v == f[k - 1]
      <3>1. v \in Nat /\ f[k] = g[v]
        BY <2>2, <2>4
      <3>2. \A x \in Nat : g[x] = 256 * x + b[k]
        BY <2>3
      <3> HIDE DEF g, v
      <3>3. f[k] = 256 * v + b[k]
        BY <3>1, <3>2
      <3> QED
        BY <3>3 DEF v
    <2>6. 1 \in 1..2 /\ 2 \in 1..2 /\ 1 - 1 = 0 /\ 2 - 1 = 1
      OBVIOUS
    <2>7. f[1] = 256 * 0 + b[1] /\ f[2] = 256 * f[1] + b[2]
      BY <2>4, <2>5, <2>6
    <2>8. f[1] = b[1]
      BY <2>1, <2>7
    <2> QED
      BY <1>1, <1>5, <2>7, <2>8
  <1> QED
    BY <1>4, <1>5

LEMMA Get16Put16 ==
    ASSUME NEW n \in Nat, n <= 65535
    PROVE  aimutil_get(aimutil_put16(n)) = n
  <1>1. /\ aimutil_put16(n) \in Seq(Byte) /\ Len(aimutil_put16(n)) = 2
        /\ 256 * aimutil_put16(n)[1] + aimutil_put16(n)[2] = n
    BY Put16
  <1> QED
    BY <1>1, GetNumber

-----------------------------------------------------------------------------
(* Reading *)

Streams == [data : Seq(Byte), offset : Nat]
Within(bs) == bs \in Streams /\ bs.offset <= Len(bs.data)

\* A stream moves by the whole field or not at all (rxqueue.c), and stays within its bytes.
LEMMA Advances ==
    ASSUME NEW bs, Within(bs), NEW n \in Nat
    PROVE  /\ Within(aim_bstream_advance(bs, n))
           /\ aim_bstream_advance(bs, n).data = bs.data
           /\ aim_bstream_advance(bs, n).offset =
                  IF bs.offset + n <= Len(bs.data) THEN bs.offset + n ELSE bs.offset
  <1>1. bs.data \in Seq(Byte) /\ bs.offset \in Nat /\ Len(bs.data) \in Nat
    BY DEF Within, Streams
  <1> QED
    BY <1>1 DEF Within, Streams, aim_bstream_advance, aim_bstream_empty

LEMMA StaysWithin ==
    ASSUME NEW bs, Within(bs), NEW n \in Nat
    PROVE  Within(aim_bstream_advance(bs, n)) /\ aim_bstream_advance(bs, n).data = bs.data
  BY Advances

LEMMA AheadBytes ==
    ASSUME NEW bs, Within(bs), NEW n \in Nat, bs.offset + n <= Len(bs.data)
    PROVE  /\ Ahead(bs, n) \in Seq(Byte) /\ Len(Ahead(bs, n)) = n
           /\ \A i \in 1..n : Ahead(bs, n)[i] = bs.data[bs.offset + i]
  <1> DEFINE a == bs.offset + 1
             z == bs.offset + n
  <1>1. bs.data \in Seq(Byte) /\ bs.offset \in Nat /\ a \in Int /\ z \in Int
    BY DEF Within, Streams
  <1>2. \A i \in a..z : bs.data[i] \in Byte
    BY <1>1
  <1>3. /\ SubSeq(bs.data, a, z) \in Seq(Byte)
        /\ Len(SubSeq(bs.data, a, z)) = IF a <= z THEN z - a + 1 ELSE 0
        /\ \A i \in 1..(z - a + 1) : SubSeq(bs.data, a, z)[i] = bs.data[a + i - 1]
    <2> HIDE DEF a, z
    <2> QED
      BY <1>1, <1>2, SubSeqProperties
  <1>4. (IF a <= z THEN z - a + 1 ELSE 0) = n /\ z - a + 1 = n
        /\ \A i \in 1..n : a + i - 1 = bs.offset + i
    <2>1. \A o \in Nat : /\ (IF o + 1 <= o + n THEN o + n - (o + 1) + 1 ELSE 0) = n
                        /\ o + n - (o + 1) + 1 = n
                        /\ \A i \in 1..n : o + 1 + i - 1 = o + i
      OBVIOUS
    <2> QED
      BY <1>1, <2>1
  <1>5. Ahead(bs, n) = SubSeq(bs.data, a, z)
    BY DEF Ahead
  <1> HIDE DEF a, z
  <1> QED
    BY <1>3, <1>4, <1>5

LEMMA AdvancesBy ==
    ASSUME NEW bs, Within(bs), NEW n \in Nat, bs.offset + n <= Len(bs.data)
    PROVE  aim_bstream_advance(bs, n).offset = bs.offset + n
  BY Advances

LEMMA GetField ==
    ASSUME NEW bs, Within(bs), NEW n \in Nat
    PROVE  /\ aimbs_get(bs, n).v \in Nat
           /\ aimbs_get(bs, n).bs = aim_bstream_advance(bs, n)
           /\ bs.offset + n > Len(bs.data) => aimbs_get(bs, n).v = 0
           /\ n = 2 /\ bs.offset + 2 <= Len(bs.data) =>
                  aimbs_get(bs, n).v = 256 * bs.data[bs.offset + 1] + bs.data[bs.offset + 2]
  <1>1. bs.offset \in Nat /\ Len(bs.data) \in Nat
    BY DEF Within, Streams
  <1>2. aimbs_get(bs, n).bs = aim_bstream_advance(bs, n)
    BY DEF aimbs_get
  <1>3. CASE bs.offset + n > Len(bs.data)
    BY <1>1, <1>2, <1>3 DEF aimbs_get, aim_bstream_empty
  <1>4. CASE bs.offset + n <= Len(bs.data)
    <2>1. aimbs_get(bs, n).v = aimutil_get(Ahead(bs, n))
      BY <1>1, <1>4 DEF aimbs_get, aim_bstream_empty
    <2>2. /\ Ahead(bs, n) \in Seq(Byte) /\ Len(Ahead(bs, n)) = n
          /\ \A i \in 1..n : Ahead(bs, n)[i] = bs.data[bs.offset + i]
      BY <1>4, AheadBytes
    <2>3. /\ aimutil_get(Ahead(bs, n)) \in Nat
          /\ n = 2 => aimutil_get(Ahead(bs, n)) = 256 * Ahead(bs, n)[1] + Ahead(bs, n)[2]
      BY <2>2, GetNumber
    <2>4. ~(bs.offset + n > Len(bs.data))
      BY <1>1, <1>4
    <2>5. n = 2 => 1 \in 1..n /\ 2 \in 1..n
      OBVIOUS
    <2> QED
      BY <1>2, <2>1, <2>2, <2>3, <2>4, <2>5
  <1> QED
    BY <1>1, <1>3, <1>4

LEMMA GetRaw ==
    ASSUME NEW bs, Within(bs), NEW n \in Nat
    PROVE  /\ aimbs_getraw(bs, n).bs = aim_bstream_advance(bs, n)
           /\ bs.offset + n <= Len(bs.data) =>
                  /\ aimbs_getraw(bs, n).v \in Seq(Byte)
                  /\ Len(aimbs_getraw(bs, n).v) = n
                  /\ \A i \in 1..n : aimbs_getraw(bs, n).v[i] = bs.data[bs.offset + i]
  <1>1. bs.offset \in Nat /\ Len(bs.data) \in Nat
    BY DEF Within, Streams
  <1>2. bs.offset + n <= Len(bs.data) => aimbs_getraw(bs, n).v = Ahead(bs, n)
    BY <1>1 DEF aimbs_getraw, aim_bstream_empty
  <1>3. aimbs_getraw(bs, n).bs = aim_bstream_advance(bs, n)
    BY DEF aimbs_getraw
  <1> QED
    BY <1>2, <1>3, AheadBytes

-----------------------------------------------------------------------------
(* Writing *)

Writers == [room : Nat, data : Seq(Byte)]

\* A put that does not fit writes nothing; one that does is behind what was there.
LEMMA PutIs ==
    ASSUME NEW w \in Writers, NEW b \in Seq(Byte)
    PROVE  /\ aimbs_put(w, b) \in Writers
           /\ aimbs_put(w, b).room = w.room
           /\ Len(w.data) <= w.room => Len(aimbs_put(w, b).data) <= w.room
           /\ aimbs_put(w, b).data =
                  IF Len(w.data) + Len(b) > w.room THEN w.data ELSE w.data \o b
  <1>1. w.data \in Seq(Byte) /\ w.room \in Nat /\ w = [room |-> w.room, data |-> w.data]
    BY DEF Writers
  <1>2. w.data \o b \in Seq(Byte) /\ Len(w.data \o b) = Len(w.data) + Len(b)
        /\ Len(w.data) \in Nat /\ Len(b) \in Nat
    BY <1>1
  <1>3. CASE Len(w.data) + Len(b) > w.room
    BY <1>1, <1>2, <1>3 DEF aimbs_put
  <1>4. CASE ~(Len(w.data) + Len(b) > w.room)
    <2>1. aimbs_put(w, b) = [room |-> w.room, data |-> w.data \o b]
      BY <1>1, <1>4 DEF aimbs_put
    <2> QED
      BY <1>1, <1>2, <1>4, <2>1 DEF Writers
  <1> QED
    BY <1>3, <1>4

-----------------------------------------------------------------------------
(* The size of a chain *)

Tlvs == [type : Nat, value : Seq(Byte)]

\* The bytes of the first k TLVs, for each k: where the next one starts.
Sizes(list) ==
    LET size[i \in 0..Len(list)] == IF i = 0 THEN 0 ELSE size[i - 1] + 4 + Len(list[i].value)
    IN  size

SizeStep(list) == [i \in 1..Len(list) |-> [v \in Nat |-> v + 4 + Len(list[i].value)]]

LEMMA TlvIs ==
    ASSUME NEW tlv \in Tlvs
    PROVE  /\ tlv.type \in Nat /\ tlv.value \in Seq(Byte) /\ Len(tlv.value) \in Nat
           /\ tlv = Tlv(tlv.type, tlv.value)
  BY DEF Tlvs, Tlv

LEMMA Adder == ASSUME NEW m \in Nat PROVE [v \in Nat |-> v + 4 + m] \in [Nat -> Nat]
  OBVIOUS

LEMMA SizesAre ==
    ASSUME NEW list \in Seq(Tlvs)
    PROVE  /\ Sizes(list) \in [0..Len(list) -> Nat]
           /\ Sizes(list)[0] = 0
           /\ \A k \in 1..Len(list) : Sizes(list)[k] = Sizes(list)[k - 1] + 4 + Len(list[k].value)
           /\ aim_sizetlvchain(list) = Sizes(list)[Len(list)]
  <1> DEFINE n == Len(list)
             Rec(g) == [i \in 0..n |-> IF i = 0 THEN 0 ELSE g[i - 1] + 4 + Len(list[i].value)]
             size == CHOOSE g : g = Rec(g)
  <1>1. n \in Nat /\ \A i \in 1..n : Len(list[i].value) \in Nat
    <2>1. \A i \in 1..n : list[i] \in Tlvs
      BY ElementOfSeq
    <2> QED
      BY <2>1, TlvIs, LenProperties
  <1>2. SizeStep(list) \in [1..n -> [Nat -> Nat]]
    <2>1. ASSUME NEW i \in 1..n PROVE [v \in Nat |-> v + 4 + Len(list[i].value)] \in [Nat -> Nat]
      <3>1. Len(list[i].value) \in Nat
        BY <1>1
      <3> QED
        BY <3>1, Adder
    <2> QED
      BY <2>1 DEF SizeStep
  <1>3. \A k \in 1..n : \A v \in Nat : SizeStep(list)[k][v] = v + 4 + Len(list[k].value)
    BY DEF SizeStep
  <1>4. Sizes(list) = size /\ aim_sizetlvchain(list) = size[n]
    BY DEF Sizes, aim_sizetlvchain
  <1> HIDE DEF n
  <1>5. PICK f : Iterates(f, n, Nat, 0, SizeStep(list))
    BY <1>1, <1>2, Recursion
  <1>6. f \in [0..n -> Nat] /\ f[0] = 0 /\ \A k \in 1..n : f[k] = SizeStep(list)[k][f[k - 1]]
    BY <1>5 DEF Iterates
  <1>7. ASSUME NEW k \in 0..n PROVE f[k] = IF k = 0 THEN 0 ELSE f[k - 1] + 4 + Len(list[k].value)
    <2>1. CASE k = 0
      BY <1>6, <2>1
    <2>2. CASE k # 0
      <3>1. k \in 1..n /\ k - 1 \in 0..n
        BY <1>1, <2>2
      <3>2. f[k - 1] \in Nat
        BY <1>6, <3>1
      <3> QED
        BY <1>3, <1>6, <2>2, <3>1, <3>2
    <2> QED
      BY <2>1, <2>2
  <1>8. f = Rec(f)
    BY <1>6, <1>7
  <1>9. size = Rec(size)
    BY <1>8
  <1> HIDE DEF size
  <1>10. \A k \in 0..n : size[k] = IF k = 0 THEN 0 ELSE size[k - 1] + 4 + Len(list[k].value)
    BY <1>9
  <1>11. size = [k \in 0..n |-> size[k]] /\ size[0] = 0
    BY <1>1, <1>9, <1>10
  <1>12. ASSUME NEW k \in 1..n, size[k - 1] \in Nat PROVE size[k] = SizeStep(list)[k][size[k - 1]]
    <2>1. k \in 0..n /\ k # 0
      BY <1>1
    <2>2. size[k] = size[k - 1] + 4 + Len(list[k].value)
      BY <1>10, <2>1
    <2>3. SizeStep(list)[k][size[k - 1]] = size[k - 1] + 4 + Len(list[k].value)
      BY <1>3, <1>12
    <2> QED
      BY <2>2, <2>3
  <1>13. size = f
    <2>1. Obeys(size, n, Nat, 0, SizeStep(list))
      BY <1>11, <1>12 DEF Obeys
    <2>2. 0 \in Nat
      OBVIOUS
    <2> QED
      BY <1>1, <1>5, <2>1, <2>2, SameIteration
  <1>14. \A k \in 1..n : k \in 0..n /\ k # 0
    BY <1>1
  <1> QED
    BY <1>4, <1>6, <1>10, <1>13, <1>14 DEF n

LEMMA SizesGrow ==
    ASSUME NEW list \in Seq(Tlvs), NEW i \in 0..Len(list), NEW j \in 0..Len(list), i <= j
    PROVE  Sizes(list)[i] <= Sizes(list)[j]
  <1> DEFINE n == Len(list)
             s == Sizes(list)
             T == {k \in Nat : i <= k /\ k <= n /\ s[k] < s[i]}
  <1>1. /\ n \in Nat /\ s \in [0..n -> Nat]
        /\ \A k \in 1..n : s[k] = s[k - 1] + 4 + Len(list[k].value) /\ Len(list[k].value) \in Nat
    <2>1. \A k \in 1..n : list[k] \in Tlvs
      BY ElementOfSeq
    <2> QED
      BY <2>1, SizesAre, TlvIs
  <1>2. ASSUME T # {} PROVE FALSE
    <2>1. PICK m \in T : \A k \in T : m <= k
      BY <1>2, NatMin
    <2>2. m # i
      <3>1. s[i] \in Nat
        BY <1>1
      <3> QED
        BY <2>1, <3>1
    <2>3. m \in 1..n /\ m - 1 \in Nat /\ m - 1 \in 0..n /\ i <= m - 1 /\ m \in 0..n
      BY <1>1, <2>1, <2>2
    <2>4. m - 1 \notin T
      BY <2>1, <2>3
    <2>5. s[m] \in Nat /\ s[m - 1] \in Nat /\ s[i] \in Nat
      BY <1>1, <2>3
    <2>6. ~(s[m - 1] < s[i]) /\ s[m] < s[i]
      BY <2>1, <2>3, <2>4
    <2>7. s[m] = s[m - 1] + 4 + Len(list[m].value) /\ Len(list[m].value) \in Nat
      BY <1>1, <2>3
    <2> DEFINE x == s[m - 1]
               y == s[m]
               z == s[i]
               v == Len(list[m].value)
    <2>8. x \in Nat /\ y \in Nat /\ z \in Nat /\ v \in Nat /\ ~(x < z) /\ y < z /\ y = x + 4 + v
      BY <2>5, <2>6, <2>7
    <2> HIDE DEF s, n, T, x, y, z, v
    <2> QED
      BY <2>8
  <1>3. j \notin T
    BY <1>2
  <1>4. s[i] \in Nat /\ s[j] \in Nat /\ j \in Nat /\ i <= j /\ j <= n
    BY <1>1
  <1> QED
    BY <1>3, <1>4

-----------------------------------------------------------------------------
(* Writing a chain *)

LEMMA Joined ==
    ASSUME NEW S, NEW a \in Seq(S), NEW b \in Seq(S)
    PROVE  /\ a \o b \in Seq(S) /\ Len(a \o b) = Len(a) + Len(b)
           /\ Len(a) \in Nat /\ Len(b) \in Nat
           /\ \A k \in 1..Len(a) : (a \o b)[k] = a[k]
           /\ \A k \in 1..Len(b) : (a \o b)[Len(a) + k] = b[k]
  <1>1. Len(a) \in Nat /\ Len(b) \in Nat
    BY LenProperties
  <1>2. a \o b \in Seq(S) /\ Len(a \o b) = Len(a) + Len(b)
    BY ConcatProperties
  <1>3. \A i \in 1..(Len(a) + Len(b)) :
            (a \o b)[i] = IF i <= Len(a) THEN a[i] ELSE b[i - Len(a)]
    BY ConcatProperties
  <1>4. ASSUME NEW k \in 1..Len(a) PROVE (a \o b)[k] = a[k]
    <2>1. k \in 1..(Len(a) + Len(b)) /\ k <= Len(a)
      BY <1>1
    <2> QED
      BY <1>3, <2>1
  <1>5. ASSUME NEW k \in 1..Len(b) PROVE (a \o b)[Len(a) + k] = b[k]
    <2>1. /\ Len(a) + k \in 1..(Len(a) + Len(b)) /\ ~(Len(a) + k <= Len(a))
          /\ Len(a) + k - Len(a) = k
      BY <1>1
    <2> QED
      BY <1>3, <2>1
  <1> QED
    BY <1>1, <1>2, <1>4, <1>5

LEMMA TlvBytesAre ==
    ASSUME NEW tlv \in Tlvs
    PROVE  /\ TlvBytes(tlv) \in Seq(Byte)
           /\ Len(TlvBytes(tlv)) = 4 + Len(tlv.value)
           /\ tlv.type <= 65535 => 256 * TlvBytes(tlv)[1] + TlvBytes(tlv)[2] = tlv.type
           /\ Len(tlv.value) <= 65535 => 256 * TlvBytes(tlv)[3] + TlvBytes(tlv)[4] = Len(tlv.value)
           /\ \A k \in 1..Len(tlv.value) : TlvBytes(tlv)[4 + k] = tlv.value[k]
  <1> DEFINE t == aimutil_put16(tlv.type)
             l == aimutil_put16(Len(tlv.value))
             v == tlv.value
             h == t \o l
  <1>1. tlv.type \in Nat /\ v \in Seq(Byte) /\ Len(v) \in Nat
    BY TlvIs
  <1>2. t \in Seq(Byte) /\ Len(t) = 2 /\ (tlv.type <= 65535 => 256 * t[1] + t[2] = tlv.type)
    BY <1>1, Put16
  <1>3. l \in Seq(Byte) /\ Len(l) = 2 /\ (Len(v) <= 65535 => 256 * l[1] + l[2] = Len(v))
    BY <1>1, Put16
  <1>4. TlvBytes(tlv) = h \o v
    BY DEF TlvBytes
  <1> HIDE DEF t, l, v
  <1>5. h \in Seq(Byte) /\ Len(h) = 4 /\ h[1] = t[1] /\ h[2] = t[2] /\ h[3] = l[1] /\ h[4] = l[2]
    <2>1. /\ h \in Seq(Byte) /\ Len(h) = Len(t) + Len(l)
          /\ \A k \in 1..Len(t) : h[k] = t[k]
          /\ \A k \in 1..Len(l) : h[Len(t) + k] = l[k]
      <3>1. t \in Seq(Byte) /\ l \in Seq(Byte)
        BY <1>2, <1>3
      <3> QED
        BY <3>1, Joined
    <2> HIDE DEF h
    <2>2. 1 \in 1..2 /\ 2 \in 1..2 /\ 2 + 1 = 3 /\ 2 + 2 = 4
      OBVIOUS
    <2>3. h[1] = t[1] /\ h[2] = t[2]
      BY <1>2, <2>1, <2>2
    <2>4. h[2 + 1] = l[1] /\ h[2 + 2] = l[2] /\ Len(h) = 2 + 2
      BY <1>2, <1>3, <2>1, <2>2
    <2> QED
      BY <2>1, <2>2, <2>3, <2>4
  <1> HIDE DEF h
  <1>6. /\ h \o v \in Seq(Byte) /\ Len(h \o v) = 4 + Len(v)
        /\ \A k \in 1..4 : (h \o v)[k] = h[k]
        /\ \A k \in 1..Len(v) : (h \o v)[4 + k] = v[k]
    <2>1. h \in Seq(Byte) /\ v \in Seq(Byte)
      BY <1>1, <1>5
    <2>2. /\ h \o v \in Seq(Byte) /\ Len(h \o v) = Len(h) + Len(v)
          /\ \A k \in 1..Len(h) : (h \o v)[k] = h[k]
          /\ \A k \in 1..Len(v) : (h \o v)[Len(h) + k] = v[k]
      BY <2>1, Joined
    <2>3. Len(h) = 4
      BY <1>5
    <2> QED
      BY <2>2, <2>3
  <1> QED
    BY <1>2, <1>3, <1>4, <1>5, <1>6 DEF v

\* What the first k TLVs make of a stream, for each k.
PutsOf(w, list) ==
    LET put[i \in 0..Len(list)] == IF i = 0 THEN w ELSE aimbs_put(put[i - 1], TlvBytes(list[i]))
    IN  put

WriteStep(list) == [i \in 1..Len(list) |-> [x \in Writers |-> aimbs_put(x, TlvBytes(list[i]))]]

LEMMA WrittenIs ==
    ASSUME NEW list \in Seq(Tlvs), NEW w \in Writers
    PROVE  /\ PutsOf(w, list) \in [0..Len(list) -> Writers]
           /\ PutsOf(w, list)[0] = w
           /\ \A k \in 1..Len(list) :
                  PutsOf(w, list)[k] = aimbs_put(PutsOf(w, list)[k - 1], TlvBytes(list[k]))
           /\ aim_writetlvchain(w, list) =
                  IF aim_sizetlvchain(list) > w.room - Len(w.data) THEN w ELSE PutsOf(w, list)[Len(list)]
  <1> DEFINE n == Len(list)
             Rec(g) == [i \in 0..n |-> IF i = 0 THEN w ELSE aimbs_put(g[i - 1], TlvBytes(list[i]))]
             put == CHOOSE g : g = Rec(g)
  <1>1. n \in Nat /\ \A i \in 1..n : \A x \in Writers : aimbs_put(x, TlvBytes(list[i])) \in Writers
    <2>1. \A i \in 1..n : list[i] \in Tlvs
      BY ElementOfSeq
    <2> QED
      BY <2>1, TlvBytesAre, PutIs, LenProperties
  <1>2. WriteStep(list) \in [1..n -> [Writers -> Writers]]
    BY <1>1 DEF WriteStep
  <1>3. \A k \in 1..n : \A x \in Writers : WriteStep(list)[k][x] = aimbs_put(x, TlvBytes(list[k]))
    BY DEF WriteStep
  <1>4. PutsOf(w, list) = put
        /\ aim_writetlvchain(w, list) =
               IF aim_sizetlvchain(list) > w.room - Len(w.data) THEN w ELSE put[n]
    BY DEF PutsOf, aim_writetlvchain, aim_bstream_curpos
  <1> HIDE DEF n
  <1>5. PICK f : Iterates(f, n, Writers, w, WriteStep(list))
    BY <1>1, <1>2, Recursion
  <1>6. f \in [0..n -> Writers] /\ f[0] = w /\ \A k \in 1..n : f[k] = WriteStep(list)[k][f[k - 1]]
    BY <1>5 DEF Iterates
  <1>7. ASSUME NEW k \in 0..n PROVE f[k] = IF k = 0 THEN w ELSE aimbs_put(f[k - 1], TlvBytes(list[k]))
    <2>1. CASE k = 0
      BY <1>6, <2>1
    <2>2. CASE k # 0
      <3>1. k \in 1..n /\ k - 1 \in 0..n
        BY <1>1, <2>2
      <3>2. f[k - 1] \in Writers
        BY <1>6, <3>1
      <3> QED
        BY <1>3, <1>6, <2>2, <3>1, <3>2
    <2> QED
      BY <2>1, <2>2
  <1>8. f = Rec(f)
    BY <1>6, <1>7
  <1>9. put = Rec(put)
    BY <1>8
  <1> HIDE DEF put
  <1>10. \A k \in 0..n : put[k] = IF k = 0 THEN w ELSE aimbs_put(put[k - 1], TlvBytes(list[k]))
    BY <1>9
  <1>11. put = [k \in 0..n |-> put[k]] /\ put[0] = w
    BY <1>1, <1>9, <1>10
  <1>12. ASSUME NEW k \in 1..n, put[k - 1] \in Writers PROVE put[k] = WriteStep(list)[k][put[k - 1]]
    <2>1. k \in 0..n /\ k # 0
      BY <1>1
    <2>2. put[k] = aimbs_put(put[k - 1], TlvBytes(list[k]))
      BY <1>10, <2>1
    <2>3. WriteStep(list)[k][put[k - 1]] = aimbs_put(put[k - 1], TlvBytes(list[k]))
      BY <1>3, <1>12
    <2> QED
      BY <2>2, <2>3
  <1>13. put = f
    <2>1. Obeys(put, n, Writers, w, WriteStep(list))
      BY <1>11, <1>12 DEF Obeys
    <2> QED
      BY <1>1, <1>5, <2>1, SameIteration
  <1>14. \A k \in 1..n : k \in 0..n /\ k # 0
    BY <1>1
  <1> QED
    BY <1>4, <1>6, <1>10, <1>13, <1>14 DEF n

\* The chain is written as a whole, one TLV behind the other, or not at all.
Holds(data, from, tlv) ==
    \A k \in 1..Len(TlvBytes(tlv)) : data[from + k] = TlvBytes(tlv)[k]

LEMMA PutsFit ==
    ASSUME NEW o \in Nat, NEW before \in Nat, NEW here \in Nat, NEW all \in Nat, NEW room \in Nat,
           before + here <= all, o + all <= room
    PROVE  ~(o + before + here > room) /\ o + before + here = o + (before + here)
  OBVIOUS

LEMMA SumOf ==
    ASSUME NEW x \in Nat, NEW y \in Nat, NEW z \in Nat, NEW h, h = 4 + z, y = x + 4 + z
    PROVE  y = x + h
  OBVIOUS

LEMMA Before ==
    ASSUME NEW o \in Nat, NEW before \in Nat, NEW here \in Nat, NEW end \in Nat,
           before + here <= end, NEW k \in 1..here
    PROVE  o + before + k \in 1..(o + end)
  OBVIOUS

LEMMA Earlier ==
    ASSUME NEW n \in Nat, NEW m \in 1..n, NEW i \in 1..m, i # m
    PROVE  i \in 1..(m - 1) /\ i \in 1..n /\ i \in 0..n /\ i - 1 \in 0..n /\ m - 1 \in 0..n /\ i <= m - 1
  OBVIOUS

LEMMA WrittenChain ==
    ASSUME NEW list \in Seq(Tlvs), NEW w \in Writers, NEW r, r = aim_writetlvchain(w, list),
           Len(w.data) <= w.room
    PROVE  /\ r \in Writers /\ r.room = w.room /\ Len(r.data) <= w.room
           /\ Len(w.data) + aim_sizetlvchain(list) > w.room => r = w
           /\ Len(w.data) + aim_sizetlvchain(list) <= w.room =>
                  /\ Len(r.data) = Len(w.data) + aim_sizetlvchain(list)
                  /\ \A i \in 1..Len(list) :
                         Holds(r.data, Len(w.data) + Sizes(list)[i - 1], list[i])
  <1> DEFINE n == Len(list)
             s == Sizes(list)
             p == PutsOf(w, list)
             o == Len(w.data)
             Good(k) == /\ p[k].room = w.room
                        /\ Len(p[k].data) = o + s[k]
                        /\ \A i \in 1..k : Holds(p[k].data, o + s[i - 1], list[i])
  <1>1. /\ n \in Nat /\ o \in Nat /\ w.room \in Nat /\ w.data \in Seq(Byte)
        /\ s \in [0..n -> Nat] /\ s[0] = 0 /\ aim_sizetlvchain(list) = s[n]
        /\ \A k \in 1..n : s[k] = s[k - 1] + 4 + Len(list[k].value)
        /\ \A k \in 1..n : s[k] <= s[n]
    <2>1. w.data \in Seq(Byte) /\ w.room \in Nat
      BY DEF Writers
    <2>2. \A k \in 1..n : k \in 0..n /\ n \in 0..n /\ k <= n
      BY LenProperties
    <2>3. \A k \in 1..n : s[k] <= s[n]
      BY <2>2, SizesGrow
    <2> QED
      BY <2>1, <2>3, SizesAre, LenProperties
  <1>2. /\ p \in [0..n -> Writers] /\ p[0] = w
        /\ \A k \in 1..n : p[k] = aimbs_put(p[k - 1], TlvBytes(list[k]))
        /\ r = IF s[n] > w.room - o THEN w ELSE p[n]
    BY <1>1, WrittenIs
  <1>3. \A k \in 1..n : list[k] \in Tlvs
    BY ElementOfSeq
  <1> HIDE DEF n, s, p, o
  <1>4. \A k \in 0..n : s[k] \in Nat
    BY <1>1
  <1>5. \A k \in 1..n : s[k] = s[k - 1] + 4 + Len(list[k].value) /\ s[k] <= s[n]
    BY <1>1
  <1>6. CASE o + s[n] <= w.room
    <2> DEFINE T == {k \in Nat : k <= n /\ ~Good(k)}
    <2>1. ASSUME T # {} PROVE FALSE
      <3>1. PICK m \in T : \A k \in T : m <= k
        BY <2>1, NatMin
      <3>2. m \in Nat /\ m <= n /\ ~Good(m)
        BY <3>1
      <3>3. m # 0
        <4>1. Good(0)
          BY <1>1, <1>2 DEF o
        <4> QED
          BY <3>2, <4>1
      <3>4. m \in 1..n /\ m - 1 \in Nat /\ m - 1 \notin T /\ m - 1 <= n /\ m - 1 \in 0..n /\ m \in 0..n
        BY <1>1, <3>1, <3>2, <3>3
      <3>5. Good(m - 1)
        BY <3>4
      <3> DEFINE a == p[m - 1]
                 b == TlvBytes(list[m])
                 c == p[m]
      <3> HIDE DEF T, Good
      <3>6. a \in Writers /\ a.data \in Seq(Byte) /\ a.room = w.room /\ Len(a.data) = o + s[m - 1]
        BY <1>2, <3>4, <3>5 DEF Writers, Good
      <3>7. b \in Seq(Byte) /\ Len(b) = 4 + Len(list[m].value) /\ Len(list[m].value) \in Nat
        BY <1>3, <3>4, TlvBytesAre, TlvIs
      <3>8. s[m] \in Nat /\ s[m - 1] \in Nat /\ s[m] = s[m - 1] + Len(b) /\ s[m] <= s[n] /\ s[n] \in Nat
        <4>1. s[m] \in Nat /\ s[m - 1] \in Nat /\ s[n] \in Nat
          <5>1. m \in 0..n /\ m - 1 \in 0..n /\ n \in 0..n
            BY <1>1, <3>4
          <5> QED
            BY <1>4, <5>1
        <4>2. s[m] = s[m - 1] + 4 + Len(list[m].value) /\ s[m] <= s[n]
          BY <1>5, <3>4
        <4>3. s[m] = s[m - 1] + Len(b)
          <5> DEFINE x == s[m - 1]
                     y == s[m]
                     z == Len(list[m].value)
                     h == Len(b)
          <5>1. x \in Nat /\ y \in Nat /\ z \in Nat /\ y = x + 4 + z /\ h = 4 + z
            BY <3>7, <4>1, <4>2
          <5> HIDE DEF a, b, c, x, y, z, h
          <5>2. y = x + h
            BY <5>1
          <5> QED
            BY <5>2 DEF x, y, z, h
        <4> QED
          BY <4>1, <4>2, <4>3
      <3>9. ~(Len(a.data) + Len(b) > a.room) /\ Len(a.data) + Len(b) = o + s[m]
        <4>1. s[m - 1] \in Nat /\ Len(b) \in Nat /\ s[n] \in Nat /\ s[m] = s[m - 1] + Len(b) /\ s[m] <= s[n]
          BY <3>7, <3>8, LenProperties
        <4>2. o \in Nat /\ w.room \in Nat
          BY <1>1
        <4> HIDE DEF b
        <4>3. ~(o + s[m - 1] + Len(b) > w.room) /\ o + s[m - 1] + Len(b) = o + s[m]
          BY <4>1, <4>2, <1>6, PutsFit
        <4> HIDE DEF a
        <4> QED
          BY <3>6, <4>3
      <3>10. /\ c.room = a.room /\ Len(c.data) = o + s[m]
             /\ \A k \in 1..(o + s[m - 1]) : c.data[k] = a.data[k]
             /\ \A k \in 1..Len(b) : c.data[o + s[m - 1] + k] = b[k]
        <4>1. c = aimbs_put(a, b)
          BY <1>2, <3>4
        <4> HIDE DEF a, b, c
        <4>2. c.room = a.room /\ c.data = a.data \o b
          BY <3>6, <3>7, <3>9, <4>1, PutIs
        <4>3. a.data \in Seq(Byte) /\ b \in Seq(Byte)
          BY <3>6, <3>7
        <4>4. /\ Len(c.data) = Len(a.data) + Len(b)
              /\ \A k \in 1..Len(a.data) : c.data[k] = a.data[k]
              /\ \A k \in 1..Len(b) : c.data[Len(a.data) + k] = b[k]
          BY <4>2, <4>3, Joined
        <4> QED
          BY <3>6, <3>9, <4>2, <4>4
      <3>11. m - 1 \in 0..n /\ n \in Nat
        BY <1>1, <3>4
      <3>12. ASSUME NEW i \in 1..m PROVE Holds(c.data, o + s[i - 1], list[i])
        <4>1. CASE i = m
          BY <3>10, <4>1 DEF Holds
        <4>2. CASE i # m
          <5>1. i \in 1..(m - 1) /\ i \in 1..n /\ i \in 0..n /\ i - 1 \in 0..n
            BY <3>4, <3>11, <4>2, Earlier
          <5>2. Holds(a.data, o + s[i - 1], list[i])
            BY <3>5, <5>1 DEF Good
          <5>3. Len(TlvBytes(list[i])) = 4 + Len(list[i].value) /\ Len(list[i].value) \in Nat
            BY <1>3, <5>1, TlvBytesAre, TlvIs
          <5>4. s[i] = s[i - 1] + Len(TlvBytes(list[i])) /\ s[i] \in Nat /\ s[i - 1] \in Nat
            <6>1. s[i] = s[i - 1] + 4 + Len(list[i].value) /\ s[i] \in Nat /\ s[i - 1] \in Nat
              BY <1>4, <1>5, <5>1
            <6>2. Len(TlvBytes(list[i])) = 4 + Len(list[i].value) /\ Len(list[i].value) \in Nat
              BY <5>3
            <6> DEFINE x == s[i - 1]
                       y == s[i]
                       z == Len(list[i].value)
                       h == Len(TlvBytes(list[i]))
            <6>3. x \in Nat /\ y \in Nat /\ z \in Nat /\ y = x + 4 + z /\ h = 4 + z
              BY <6>1, <6>2
            <6> HIDE DEF a, b, c, x, y, z, h
            <6>4. y = x + h
              BY <6>3
            <6> QED
              BY <6>3, <6>4 DEF x, y, z, h
          <5>5. s[i] <= s[m - 1]
            <6>1. i \in 0..Len(list) /\ m - 1 \in 0..Len(list) /\ i <= m - 1
              BY <3>4, <3>11, <4>2, Earlier DEF n
            <6> QED
              BY <6>1, SizesGrow DEF s
          <5> HIDE DEF a, b, c
          <5>6. ASSUME NEW k \in 1..Len(TlvBytes(list[i]))
                PROVE  c.data[o + s[i - 1] + k] = TlvBytes(list[i])[k]
            <6>1. o + s[i - 1] + k \in 1..(o + s[m - 1])
              <7>1. o \in Nat /\ s[i - 1] \in Nat /\ Len(TlvBytes(list[i])) \in Nat /\ s[m - 1] \in Nat
                    /\ s[i - 1] + Len(TlvBytes(list[i])) <= s[m - 1]
                BY <1>1, <3>8, <5>3, <5>4, <5>5
              <7> QED
                BY <7>1, Before
            <6> QED
              BY <3>10, <5>2, <6>1 DEF Holds
          <5> QED
            BY <5>6 DEF Holds
        <4> QED
          BY <4>1, <4>2
      <3>13. Good(m)
        BY <3>6, <3>10, <3>12 DEF Good
      <3> QED
        BY <3>2, <3>13
    <2>2. Good(n)
      <3>1. n \notin T
        BY <2>1
      <3> QED
        BY <1>1, <3>1
    <2>3. n \in 0..n /\ s[n] \in Nat
      BY <1>1
    <2>4. r = p[n]
      BY <1>1, <1>2, <1>6, <2>3
    <2>5. r \in Writers
      BY <1>2, <2>3, <2>4
    <2> HIDE DEF T
    <2>6. ~(o + s[n] > w.room)
      BY <1>1, <1>6, <2>3
    <2> QED
      BY <1>1, <1>6, <2>2, <2>4, <2>5, <2>6 DEF n, o, s
  <1>7. CASE ~(o + s[n] <= w.room)
    <2>1. n \in 0..n /\ s[n] \in Nat
      BY <1>1
    <2>2. s[n] > w.room - o
      BY <1>1, <1>7, <2>1
    <2>3. r = w
      BY <1>2, <2>2
    <2> QED
      BY <1>1, <1>7, <2>3 DEF n, o, s
  <1> QED
    BY <1>6, <1>7

-----------------------------------------------------------------------------
(* Reading a chain *)

\* A field of 16 bits: the number, and the stream two bytes further.
LEMMA Get16 ==
    ASSUME NEW bs, Within(bs), bs.offset + 2 <= Len(bs.data)
    PROVE  /\ aimbs_get(bs, 2).v = 256 * bs.data[bs.offset + 1] + bs.data[bs.offset + 2]
           /\ Within(aimbs_get(bs, 2).bs)
           /\ aimbs_get(bs, 2).bs.data = bs.data
           /\ aimbs_get(bs, 2).bs.offset = bs.offset + 2
  <1> DEFINE a == aim_bstream_advance(bs, 2)
             g == aimbs_get(bs, 2)
  <1>1. 2 \in Nat /\ bs.offset + 2 <= Len(bs.data)
    OBVIOUS
  <1>2. g.v = 256 * bs.data[bs.offset + 1] + bs.data[bs.offset + 2] /\ g.bs = a
    BY <1>1, GetField
  <1>3. Within(a) /\ a.data = bs.data
        /\ a.offset = IF bs.offset + 2 <= Len(bs.data) THEN bs.offset + 2 ELSE bs.offset
    BY <1>1, Advances
  <1> HIDE DEF a, g
  <1>4. a.offset = bs.offset + 2
    BY <1>1, <1>3
  <1>5. /\ g.v = 256 * bs.data[bs.offset + 1] + bs.data[bs.offset + 2]
        /\ Within(g.bs) /\ g.bs.data = bs.data /\ g.bs.offset = bs.offset + 2
    BY <1>2, <1>3, <1>4
  <1> QED
    BY <1>5 DEF g

LEMMA InsideValue ==
    ASSUME NEW o \in Nat, NEW n \in Nat, NEW i \in 1..n, NEW m, m = 4 + n
    PROVE  4 + i \in 1..m /\ o + (4 + i) = o + 4 + i
  OBVIOUS

LEMMA TlvHeader ==
    ASSUME NEW tlv \in Tlvs, tlv.type <= 65535, Len(tlv.value) <= 65535
    PROVE  /\ Len(TlvBytes(tlv)) = 4 + Len(tlv.value)
           /\ 256 * TlvBytes(tlv)[1] + TlvBytes(tlv)[2] = tlv.type
           /\ 256 * TlvBytes(tlv)[3] + TlvBytes(tlv)[4] = Len(tlv.value)
           /\ \A k \in 1..Len(tlv.value) : TlvBytes(tlv)[4 + k] = tlv.value[k]
  BY TlvBytesAre

LEMMA SizesNat ==
    ASSUME NEW n \in Nat, NEW s \in [0..n -> Nat]
    PROVE  \A i \in 0..n : s[i] \in Nat
  OBVIOUS

\* A TLV is read as it was written, and the stream is behind it.
LEMMA ReadsTlv ==
    ASSUME NEW bs, Within(bs), NEW tlv \in Tlvs, tlv.type <= 65535, Len(tlv.value) <= 65535,
           bs.offset + 4 + Len(tlv.value) <= Len(bs.data), Holds(bs.data, bs.offset, tlv)
    PROVE  /\ ReadTlv(bs).tlv = tlv
           /\ ReadTlv(bs).bs.offset = bs.offset + 4 + Len(tlv.value)
  <1> DEFINE o == bs.offset
             d == bs.data
             n == Len(tlv.value)
             b == TlvBytes(tlv)
             type == aimbs_get(bs, 2)
             length == aimbs_get(type.bs, 2)
             value == aimbs_getraw(length.bs, length.v)
  <1>1. o \in Nat /\ d \in Seq(Byte) /\ Len(d) \in Nat /\ n \in Nat /\ o + 4 + n <= Len(d)
    BY TlvIs DEF Within, Streams
  <1>2. /\ Len(b) = 4 + n /\ 256 * b[1] + b[2] = tlv.type /\ 256 * b[3] + b[4] = n
        /\ \A k \in 1..n : b[4 + k] = tlv.value[k]
    BY TlvHeader
  <1>3. \A k \in 1..Len(b) : d[o + k] = b[k]
    BY DEF Holds
  <1> HIDE DEF b
  <1>4. d[o + 1] = b[1] /\ d[o + 2] = b[2] /\ d[o + 3] = b[3] /\ d[o + 4] = b[4]
    <2>1. 1 \in 1..(4 + n) /\ 2 \in 1..(4 + n) /\ 3 \in 1..(4 + n) /\ 4 \in 1..(4 + n)
      BY <1>1
    <2> QED
      BY <1>2, <1>3, <2>1
  <1>5. type.v = tlv.type /\ Within(type.bs) /\ type.bs.data = d /\ type.bs.offset = o + 2
    <2>1. o + 2 <= Len(d)
      BY <1>1
    <2> QED
      BY <1>2, <1>4, <2>1, Get16
  <1> HIDE DEF type
  <1>6. length.v = n /\ Within(length.bs) /\ length.bs.data = d /\ length.bs.offset = o + 4
    <2>1. o + 2 + 2 <= Len(d) /\ o + 2 + 1 = o + 3 /\ o + 2 + 2 = o + 4
      BY <1>1
    <2>2. type.bs.offset + 2 <= Len(type.bs.data)
      BY <1>5, <2>1
    <2>3. /\ length.v = 256 * d[o + 2 + 1] + d[o + 2 + 2]
          /\ Within(length.bs) /\ length.bs.data = d /\ length.bs.offset = o + 2 + 2
      BY <1>5, <2>2, Get16
    <2> QED
      BY <1>2, <1>4, <2>1, <2>3
  <1> HIDE DEF length
  <1>7. value.v = tlv.value /\ value.bs.offset = o + 4 + n
    <2>1. length.bs.offset + n <= Len(length.bs.data) /\ length.bs.offset + n = o + 4 + n
      BY <1>1, <1>6
    <2>2. /\ value.v \in Seq(Byte) /\ Len(value.v) = n
          /\ \A i \in 1..n : value.v[i] = d[o + 4 + i]
          /\ value.bs = aim_bstream_advance(length.bs, n)
      <3>1. Within(length.bs) /\ n \in Nat /\ length.bs.offset + n <= Len(length.bs.data)
        BY <1>1, <1>6, <2>1
      <3> HIDE DEF n
      <3>2. LET raw == aimbs_getraw(length.bs, n)
            IN  /\ raw.v \in Seq(Byte) /\ Len(raw.v) = n
                /\ \A i \in 1..n : raw.v[i] = length.bs.data[length.bs.offset + i]
                /\ raw.bs = aim_bstream_advance(length.bs, n)
        BY <3>1, GetRaw
      <3>3. value = aimbs_getraw(length.bs, n)
        BY <1>6
      <3> HIDE DEF value
      <3> QED
        BY <1>6, <3>2, <3>3
    <2>3. value.bs.offset = o + 4 + n
      <3>1. Within(length.bs) /\ n \in Nat /\ length.bs.offset + n <= Len(length.bs.data)
        BY <1>1, <1>6, <2>1
      <3> HIDE DEF n, value
      <3>2. aim_bstream_advance(length.bs, n).offset = length.bs.offset + n
        BY <3>1, AdvancesBy
      <3> QED
        BY <2>1, <2>2, <3>2
    <2>4. ASSUME NEW i \in 1..n PROVE value.v[i] = tlv.value[i]
      <3>1. 4 + i \in 1..Len(b) /\ o + (4 + i) = o + 4 + i
        <4>1. o \in Nat /\ n \in Nat /\ Len(b) = 4 + n
          BY <1>1, <1>2
        <4> HIDE DEF o, n
        <4> QED
          BY <4>1, InsideValue
      <3> HIDE DEF o, d, n, value
      <3>2. value.v[i] = d[o + 4 + i]
        BY <2>2
      <3>3. d[o + (4 + i)] = b[4 + i]
        BY <1>3, <3>1
      <3>4. b[4 + i] = tlv.value[i]
        BY <1>2
      <3>5. d[o + 4 + i] = d[o + (4 + i)]
        BY <3>1
      <3> QED
        BY <3>2, <3>3, <3>4, <3>5
    <2>5. tlv.value \in Seq(Byte)
      BY TlvIs
    <2>6. value.v = tlv.value
      BY <2>2, <2>4, <2>5, SeqEqual
    <2> QED
      BY <2>3, <2>6
  <1>8. ~(length.v > aim_bstream_empty(length.bs))
    BY <1>1, <1>6 DEF aim_bstream_empty
  <1>9. ReadTlv(bs) = [tlv |-> Tlv(type.v, value.v), bs |-> value.bs]
    BY <1>8 DEF ReadTlv, ReadValue, type, length
  <1> HIDE DEF value
  <1> QED
    BY <1>5, <1>7, <1>9, TlvIs

\* Two bytes at the end of a stream are read as the type of a TLV without a value.
LEMMA ReadsTail ==
    ASSUME NEW bs, Within(bs), bs.offset + 2 = Len(bs.data)
    PROVE  /\ ReadTlv(bs).tlv = Tlv(256 * bs.data[bs.offset + 1] + bs.data[bs.offset + 2], <<>>)
           /\ ReadTlv(bs).bs.offset = Len(bs.data)
  <1> DEFINE type == aimbs_get(bs, 2)
             length == aimbs_get(type.bs, 2)
             value == aimbs_getraw(length.bs, length.v)
  <1>1. bs.offset \in Nat /\ Len(bs.data) \in Nat /\ 2 \in Nat /\ 0 \in Nat
        /\ bs.offset + 2 <= Len(bs.data) /\ Len(bs.data) + 2 > Len(bs.data)
        /\ Len(bs.data) + 0 <= Len(bs.data) /\ ~(Len(bs.data) + 2 <= Len(bs.data))
        /\ Len(bs.data) + 0 = Len(bs.data)
    BY DEF Within, Streams
  <1>2. /\ type.v = 256 * bs.data[bs.offset + 1] + bs.data[bs.offset + 2]
        /\ Within(type.bs) /\ type.bs.data = bs.data /\ type.bs.offset = Len(bs.data)
    BY <1>1, Get16
  <1> HIDE DEF type
  <1>3. length.v = 0 /\ Within(length.bs) /\ length.bs.data = bs.data /\ length.bs.offset = Len(bs.data)
    <2>1. Within(type.bs) /\ type.bs.offset + 2 > Len(type.bs.data) /\ ~(type.bs.offset + 2 <= Len(type.bs.data))
      BY <1>1, <1>2
    <2>2. aimbs_get(type.bs, 2).v = 0 /\ aimbs_get(type.bs, 2).bs = aim_bstream_advance(type.bs, 2)
      BY <1>1, <2>1, GetField
    <2>3. /\ Within(aim_bstream_advance(type.bs, 2))
          /\ aim_bstream_advance(type.bs, 2).data = type.bs.data
          /\ aim_bstream_advance(type.bs, 2).offset = type.bs.offset
      BY <1>1, <2>1, Advances
    <2> QED
      BY <1>2, <2>2, <2>3
  <1> HIDE DEF length
  <1>4. value.v = <<>> /\ value.bs.offset = Len(bs.data)
    <2>1. length.bs.offset + 0 <= Len(length.bs.data)
      BY <1>1, <1>3
    <2>2. value.v \in Seq(Byte) /\ Len(value.v) = 0 /\ value.bs = aim_bstream_advance(length.bs, 0)
      <3> DEFINE raw == aimbs_getraw(length.bs, 0)
      <3>1. Within(length.bs) /\ 0 \in Nat
        BY <1>1, <1>3
      <3>2. raw.v \in Seq(Byte) /\ Len(raw.v) = 0 /\ raw.bs = aim_bstream_advance(length.bs, 0)
        BY <2>1, <3>1, GetRaw
      <3>3. value = raw
        BY <1>3
      <3> HIDE DEF raw, value
      <3> QED
        BY <3>2, <3>3
    <2>3. aim_bstream_advance(length.bs, 0).offset = length.bs.offset + 0
      BY <1>1, <1>3, <2>1, AdvancesBy
    <2>4. value.bs.offset = Len(bs.data)
      BY <1>1, <1>3, <2>2, <2>3
    <2>5. value.v = <<>>
      BY <2>2, EmptySeq
    <2> QED
      BY <2>4, <2>5
  <1>5. ~(length.v > aim_bstream_empty(length.bs))
    BY <1>1, <1>3 DEF aim_bstream_empty
  <1>6. ReadTlv(bs) = [tlv |-> Tlv(type.v, value.v), bs |-> value.bs]
    BY <1>5 DEF ReadTlv, ReadValue, type, length
  <1> HIDE DEF value
  <1> QED
    BY <1>2, <1>4, <1>6
-----------------------------------------------------------------------------
\* A turn at the start of the ith TLV of a chain that was written yields that TLV and
\* stops at the start of the next.
LEMMA TurnReads ==
    ASSUME NEW list \in Seq(Tlvs), NEW w \in Writers,
           \A i \in 1..Len(list) : list[i].type <= 65535 /\ Len(list[i].value) <= 65535,
           Len(w.data) + aim_sizetlvchain(list) <= w.room,
           NEW bs, Within(bs), bs.data = aim_writetlvchain(w, list).data,
           NEW i \in 1..Len(list), bs.offset = Len(w.data) + Sizes(list)[i - 1]
    PROVE  /\ ReadTlv(bs).tlv = list[i]
           /\ ReadTlv(bs).bs.offset = Len(w.data) + Sizes(list)[i]
  <1> DEFINE n == Len(list)
             s == Sizes(list)
             o == Len(w.data)
             v == Len(list[i].value)
  <1>1. o \in Nat /\ w.room \in Nat /\ n \in Nat
    BY LenProperties DEF Writers
  <1>2. i \in 0..n /\ i - 1 \in 0..n /\ n \in 0..n /\ i <= n
    BY <1>1
  <1>3. s[i] = s[i - 1] + 4 + v /\ s[i] \in Nat /\ s[i - 1] \in Nat /\ s[n] \in Nat
        /\ aim_sizetlvchain(list) = s[n]
    <2>1. s \in [0..n -> Nat] /\ aim_sizetlvchain(list) = s[n]
      BY SizesAre
    <2>2. s[i] = s[i - 1] + 4 + v
      BY SizesAre
    <2>3. s \in [0..n -> Nat]
      BY <2>1
    <2>4. \A k \in 0..n : s[k] \in Nat
      BY <1>1, <2>3, SizesNat
    <2>5. s[i] \in Nat
      BY <1>2, <2>4
    <2>6. s[i - 1] \in Nat
      BY <1>2, <2>4
    <2>7. s[n] \in Nat
      BY <1>2, <2>4
    <2> QED
      BY <2>1, <2>2, <2>5, <2>6, <2>7
  <1>4. s[i] <= s[n]
    BY <1>2, SizesGrow
  <1>5. list[i] \in Tlvs /\ list[i].type <= 65535 /\ v <= 65535 /\ v \in Nat
    BY ElementOfSeq, TlvIs
  <1>6. o <= w.room
    <2>1. o + s[n] <= w.room /\ s[n] \in Nat
      BY <1>3
    <2> HIDE DEF o, s, n
    <2> QED
      BY <1>1, <2>1
  <1>7. Len(bs.data) = o + s[n] /\ Holds(bs.data, o + s[i - 1], list[i])
    <2> DEFINE r == aim_writetlvchain(w, list)
    <2>1. Len(w.data) <= w.room
      BY <1>6
    <2>2. /\ Len(r.data) = Len(w.data) + aim_sizetlvchain(list)
          /\ \A j \in 1..Len(list) : Holds(r.data, Len(w.data) + Sizes(list)[j - 1], list[j])
      BY <2>1, WrittenChain
    <2>3. bs.data = r.data
      OBVIOUS
    <2> HIDE DEF r
    <2> QED
      BY <1>3, <2>2, <2>3
  <1>8. bs.offset + 4 + v <= Len(bs.data) /\ bs.offset + 4 + v = o + s[i]
    <2>1. bs.offset = o + s[i - 1] /\ Len(bs.data) = o + s[n]
      BY <1>7
    <2> DEFINE x == s[i - 1]
               y == s[i]
               z == s[n]
    <2>2. o \in Nat /\ x \in Nat /\ v \in Nat /\ y \in Nat /\ z \in Nat /\ y = x + 4 + v /\ y <= z
      BY <1>1, <1>3, <1>4, <1>5
    <2> HIDE DEF o, s, n, v, x, y, z
    <2>3. o + x + 4 + v <= o + z /\ o + x + 4 + v = o + y
      BY <2>2
    <2> QED
      BY <2>1, <2>3 DEF x, y, z
  <1>9. Holds(bs.data, bs.offset, list[i])
    BY <1>7
  <1> QED
    BY <1>5, <1>8, <1>9, ReadsTlv

\* A chain has at least the four bytes of type and length for each TLV.
LEMMA SizesAtLeast ==
    ASSUME NEW list \in Seq(Tlvs), NEW i \in 0..Len(list)
    PROVE  Sizes(list)[i] >= 4 * i
  <1> DEFINE n == Len(list)
             s == Sizes(list)
             T == {k \in Nat : k <= n /\ s[k] < 4 * k}
  <1>1. /\ n \in Nat /\ s \in [0..n -> Nat] /\ s[0] = 0
        /\ \A k \in 1..n : s[k] = s[k - 1] + 4 + Len(list[k].value) /\ Len(list[k].value) \in Nat
    <2>1. \A k \in 1..n : list[k] \in Tlvs
      BY ElementOfSeq
    <2> QED
      BY <2>1, SizesAre, TlvIs
  <1> HIDE DEF n, s
  <1>2. ASSUME T # {} PROVE FALSE
    <2>1. PICK m \in T : \A k \in T : m <= k
      BY <1>2, NatMin
    <2>2. m \in 1..n /\ m - 1 \in Nat /\ m - 1 \in 0..n /\ m - 1 <= n
      BY <1>1, <2>1
    <2>3. m - 1 \notin T
      BY <2>1
    <2>4. s[m - 1] \in Nat /\ ~(s[m - 1] < 4 * (m - 1)) /\ s[m] < 4 * m
      BY <1>1, <2>1, <2>2, <2>3
    <2>5. s[m] = s[m - 1] + 4 + Len(list[m].value) /\ Len(list[m].value) \in Nat
      BY <1>1, <2>2
    <2> DEFINE x == s[m - 1]
               v == Len(list[m].value)
    <2>6. x \in Nat /\ v \in Nat /\ ~(x < 4 * (m - 1)) /\ x + 4 + v < 4 * m
      BY <2>4, <2>5
    <2> HIDE DEF x, v
    <2> QED
      BY <2>2, <2>6
  <1>3. i \in Nat /\ i <= n /\ s[i] \in Nat
    BY <1>1 DEF n
  <1>4. i \notin T
    BY <1>2
  <1>5. s[i] >= 4 * i
    BY <1>3, <1>4
  <1> QED
    BY <1>5 DEF s

\* The first k TLVs of a chain, newest first.
Back(list, k) == [i \in 1..k |-> list[k - i + 1]]

LEMMA BackIs ==
    ASSUME NEW list \in Seq(Tlvs), NEW k \in 1..Len(list)
    PROVE  <<list[k]>> \o Back(list, k - 1) = Back(list, k)
  <1>1. Len(list) \in Nat /\ k \in Nat /\ k - 1 \in Nat /\ list[k] \in Tlvs
    BY LenProperties, ElementOfSeq
  <1>2. ASSUME NEW m \in 0..Len(list)
        PROVE  Back(list, m) \in Seq(Tlvs) /\ Len(Back(list, m)) = m
    <2>1. \A i \in 1..m : m - i + 1 \in 1..Len(list)
      BY <1>1
    <2>2. \A i \in 1..m : list[m - i + 1] \in Tlvs
      BY <2>1, ElementOfSeq
    <2> QED
      BY <1>1, <2>2 DEF Back
  <1> DEFINE a == <<list[k]>>
             b == Back(list, k - 1)
  <1>3. a \in Seq(Tlvs) /\ Len(a) = 1 /\ a[1] = list[k]
    BY <1>1
  <1>4. b \in Seq(Tlvs) /\ Len(b) = k - 1 /\ Back(list, k) \in Seq(Tlvs) /\ Len(Back(list, k)) = k
    BY <1>1, <1>2
  <1>a. a \in Seq(Tlvs) /\ b \in Seq(Tlvs)
    BY <1>3, <1>4
  <1> HIDE DEF a
  <1>5. /\ a \o b \in Seq(Tlvs) /\ Len(a \o b) = k
        /\ (a \o b)[1] = list[k]
        /\ \A i \in 1..(k - 1) : (a \o b)[1 + i] = b[i]
    <2> HIDE DEF b
    <2>1. /\ a \o b \in Seq(Tlvs) /\ Len(a \o b) = Len(a) + Len(b)
          /\ \A i \in 1..Len(a) : (a \o b)[i] = a[i]
          /\ \A i \in 1..Len(b) : (a \o b)[Len(a) + i] = b[i]
      BY <1>a, Joined
    <2>2. 1 \in 1..Len(a) /\ 1 + (k - 1) = k
      BY <1>1, <1>3
    <2> QED
      BY <1>3, <1>4, <2>1, <2>2
  <1>6. ASSUME NEW i \in 1..k PROVE (a \o b)[i] = Back(list, k)[i]
    <2>1. Back(list, k)[i] = list[k - i + 1]
      BY DEF Back
    <2>2. CASE i = 1
      BY <1>1, <1>5, <2>1, <2>2
    <2>3. CASE i # 1
      <3>1. i - 1 \in 1..(k - 1) /\ 1 + (i - 1) = i /\ (k - 1) - (i - 1) + 1 = k - i + 1
        BY <1>1, <2>3
      <3>2. b[i - 1] = list[(k - 1) - (i - 1) + 1]
        BY <3>1 DEF Back
      <3> HIDE DEF b
      <3>3. (a \o b)[1 + (i - 1)] = b[i - 1]
        BY <1>5, <3>1
      <3> QED
        BY <2>1, <3>1, <3>2, <3>3
    <2> QED
      BY <2>2, <2>3
  <1>7. a \o b = Back(list, k)
    <2> HIDE DEF b
    <2> QED
      BY <1>4, <1>5, <1>6, SeqEqual
  <1> QED
    BY <1>7 DEF a

\* The turns of a loop from base on, of which there is one sequence.
Turns(g, N, base) == g = [k \in 0..N |-> IF k = 0 THEN base ELSE ReadTurn(g[k - 1])]

LEMMA SameTurns ==
    ASSUME NEW N \in Nat, NEW base, NEW f, NEW g, Turns(f, N, base), Turns(g, N, base)
    PROVE  f = g
  <1> DEFINE T == {k \in Nat : k <= N /\ f[k] # g[k]}
  <1>1. /\ \A k \in 0..N : f[k] = IF k = 0 THEN base ELSE ReadTurn(f[k - 1])
        /\ \A k \in 0..N : g[k] = IF k = 0 THEN base ELSE ReadTurn(g[k - 1])
        /\ f = [k \in 0..N |-> f[k]] /\ g = [k \in 0..N |-> g[k]]
    BY DEF Turns
  <1>2. ASSUME T # {} PROVE FALSE
    <2>1. PICK m \in T : \A k \in T : m <= k
      BY <1>2, NatMin
    <2>2. m \in 0..N
      BY <2>1
    <2>3. m # 0
      BY <1>1, <2>1, <2>2
    <2>4. m - 1 \in Nat /\ m - 1 <= N /\ m - 1 \notin T
      BY <2>1, <2>2, <2>3
    <2>5. f[m - 1] = g[m - 1]
      BY <2>4
    <2> QED
      BY <1>1, <2>1, <2>2, <2>3, <2>5
  <1>3. \A k \in 0..N : f[k] = g[k]
    BY <1>2
  <1> QED
    BY <1>1, <1>3

LEMMA IsTurns ==
    ASSUME NEW N \in Nat, NEW base, NEW f, f = [k \in 0..N |-> f[k]], f[0] = base,
           \A k \in 0..N : k # 0 => f[k] = ReadTurn(f[k - 1])
    PROVE  Turns(f, N, base)
  <1>1. \A k \in 0..N : f[k] = IF k = 0 THEN base ELSE ReadTurn(f[k - 1])
    OBVIOUS
  <1>2. f = [k \in 0..N |-> IF k = 0 THEN base ELSE ReadTurn(f[k - 1])]
    BY <1>1
  <1> QED
    BY <1>2 DEF Turns

\* The turns use the stream up, and wherever they have, the list is l.
UsedUp(f, N, l) ==
    /\ \E k \in 0..N : aim_bstream_empty(f[k].bs) = 0
    /\ \A k \in 0..N : aim_bstream_empty(f[k].bs) = 0 => f[k].list = l

\* That list is what aim_readtlvchain reads.
LEMMA ReadIs ==
    ASSUME NEW bs, NEW N \in Nat, N = aim_bstream_empty(bs) \div 4 + 1,
           NEW base, base = [list |-> <<>>, bs |-> bs],
           NEW f, Turns(f, N, base), NEW l,
           UsedUp(f, N, l)
    PROVE  aim_readtlvchain(bs) = l
  <1> DEFINE after == CHOOSE g : g = [k \in 0..N |-> IF k = 0 THEN base ELSE ReadTurn(g[k - 1])]
             ended == CHOOSE k \in 0..N : aim_bstream_empty(after[k].bs) = 0
  <1>1. aim_readtlvchain(bs) = after[ended].list
    BY DEF aim_readtlvchain
  <1>2. f = [k \in 0..N |-> IF k = 0 THEN base ELSE ReadTurn(f[k - 1])]
    BY DEF Turns
  <1>3. after = [k \in 0..N |-> IF k = 0 THEN base ELSE ReadTurn(after[k - 1])]
    BY <1>2
  <1>4. Turns(after, N, base)
    <2> HIDE DEF after
    <2> QED
      BY <1>3 DEF Turns
  <1>5. after = f
    <2> HIDE DEF after
    <2> QED
      BY <1>4, SameTurns
  <1>6. ended \in 0..N /\ aim_bstream_empty(after[ended].bs) = 0
    <2> HIDE DEF after
    <2> QED
      BY <1>5 DEF UsedUp
  <1> HIDE DEF after, ended
  <1> QED
    BY <1>1, <1>5, <1>6 DEF UsedUp

\* Reading does not change what is read, nor leave it.
LEMMA FieldWithin ==
    ASSUME NEW bs, Within(bs), NEW n \in Nat
    PROVE  /\ aimbs_get(bs, n).v \in Nat
           /\ Within(aimbs_get(bs, n).bs) /\ aimbs_get(bs, n).bs.data = bs.data
  <1>1. aimbs_get(bs, n).v \in Nat /\ aimbs_get(bs, n).bs = aim_bstream_advance(bs, n)
    BY GetField
  <1> QED
    BY <1>1, StaysWithin

LEMMA ValueWithin ==
    ASSUME NEW type, NEW length, Within(length.bs), length.v \in Nat
    PROVE  /\ Within(ReadValue(type, length).bs)
           /\ ReadValue(type, length).bs.data = length.bs.data
  <1>1. CASE length.v > aim_bstream_empty(length.bs)
    BY <1>1 DEF ReadValue
  <1>2. CASE ~(length.v > aim_bstream_empty(length.bs))
    <2>1. ReadValue(type, length).bs = aimbs_getraw(length.bs, length.v).bs
      BY <1>2 DEF ReadValue
    <2>2. aimbs_getraw(length.bs, length.v).bs = aim_bstream_advance(length.bs, length.v)
      BY GetRaw
    <2> QED
      BY <2>1, <2>2, StaysWithin
  <1> QED
    BY <1>1, <1>2

LEMMA ReadWithin ==
    ASSUME NEW bs, Within(bs)
    PROVE  Within(ReadTlv(bs).bs) /\ ReadTlv(bs).bs.data = bs.data
  <1>1. PICK type : type = aimbs_get(bs, 2)
    OBVIOUS
  <1>2. PICK length : length = aimbs_get(type.bs, 2)
    OBVIOUS
  <1>3. Within(type.bs) /\ type.bs.data = bs.data
    BY <1>1, FieldWithin
  <1>4. Within(length.bs) /\ length.bs.data = type.bs.data /\ length.v \in Nat
    BY <1>2, <1>3, FieldWithin
  <1>5. ReadTlv(bs) = ReadValue(type.v, length)
    BY <1>1, <1>2 DEF ReadTlv
  <1> QED
    BY <1>3, <1>4, <1>5, ValueWithin

\* The loop after k of the TLVs of list, of which o bytes precede the first in d.
After(list, d, o, k) ==
    [list |-> Back(list, k), bs |-> [data |-> d, offset |-> o + Sizes(list)[k]]]

\* Where the ends of the TLVs are.
LEMMA SizesWithin ==
    ASSUME NEW list \in Seq(Tlvs), NEW k \in 0..Len(list)
    PROVE  /\ Sizes(list)[k] \in Nat /\ Sizes(list)[k] <= Sizes(list)[Len(list)]
           /\ 4 * k <= Sizes(list)[k]
           /\ k # 0 => Sizes(list)[k - 1] \in Nat /\ Sizes(list)[k - 1] < Sizes(list)[k]
  <1>1. Len(list) \in Nat /\ Len(list) \in 0..Len(list) /\ k <= Len(list)
    BY LenProperties
  <1>2. \A i \in 0..Len(list) : Sizes(list)[i] \in Nat
    BY <1>1, SizesAre, SizesNat
  <1>3. ASSUME k # 0
        PROVE  Sizes(list)[k - 1] \in Nat /\ Sizes(list)[k - 1] < Sizes(list)[k]
    <2>1. k \in 1..Len(list) /\ k - 1 \in 0..Len(list)
      BY <1>1, <1>3
    <2>2. Sizes(list)[k] = Sizes(list)[k - 1] + 4 + Len(list[k].value)
      BY <2>1, SizesAre
    <2>3. Len(list[k].value) \in Nat
      BY <2>1, ElementOfSeq, TlvIs
    <2>4. Sizes(list)[k - 1] \in Nat
      BY <1>2, <2>1
    <2> QED
      BY <2>2, <2>3, <2>4
  <1>4. Sizes(list)[k] <= Sizes(list)[Len(list)]
    BY <1>1, SizesGrow
  <1>5. Sizes(list)[k] \in Nat /\ Sizes(list)[k] >= 4 * k
    BY <1>2, SizesAtLeast
  <1> QED
    BY <1>3, <1>4, <1>5

\* After the last TLV the loop has ended.
LEMMA AfterAll ==
    ASSUME NEW list \in Seq(Tlvs), NEW d \in Seq(Byte), NEW o \in Nat,
           Len(d) = o + Sizes(list)[Len(list)]
    PROVE  /\ aim_bstream_empty(After(list, d, o, Len(list)).bs) = 0
           /\ ReadTurn(After(list, d, o, Len(list))) = After(list, d, o, Len(list))
           /\ After(list, d, o, Len(list)).list = Reverse(list)
           /\ After(list, d, o, 0) = [list |-> <<>>, bs |-> [data |-> d, offset |-> o]]
  <1>1. Len(list) \in Nat /\ Sizes(list)[Len(list)] \in Nat /\ Len(d) \in Nat
    <2>1. Len(list) \in Nat /\ Len(list) \in 0..Len(list)
      BY LenProperties
    <2> QED
      BY <2>1, SizesWithin, LenProperties
  <1>2. /\ After(list, d, o, Len(list)).bs.data = d
        /\ After(list, d, o, Len(list)).bs.offset = o + Sizes(list)[Len(list)]
    BY DEF After
  <1>3. aim_bstream_empty(After(list, d, o, Len(list)).bs) = 0
    BY <1>1, <1>2 DEF aim_bstream_empty
  <1>4. ReadTurn(After(list, d, o, Len(list))) = After(list, d, o, Len(list))
    BY <1>3 DEF ReadTurn
  <1>5. After(list, d, o, Len(list)).list = Reverse(list)
    BY DEF After, Back, Reverse
  <1>6. Back(list, 0) = <<>>
    BY DEF Back
  <1>7. o + Sizes(list)[0] = o
    BY SizesAre
  <1> QED
    BY <1>3, <1>4, <1>5, <1>6, <1>7 DEF After

\* Before it the loop goes on.
LEMMA NotYet ==
    ASSUME NEW list \in Seq(Tlvs), NEW d \in Seq(Byte), NEW o \in Nat,
           Len(d) = o + Sizes(list)[Len(list)], NEW k \in Nat, k + 1 \in 1..Len(list)
    PROVE  aim_bstream_empty(After(list, d, o, k).bs) # 0
  <1>1. PICK i \in 1..Len(list) : i = k + 1 /\ i - 1 = k
    OBVIOUS
  <1>2. /\ Sizes(list)[k] \in Nat /\ Sizes(list)[k] < Sizes(list)[i]
        /\ Sizes(list)[i] <= Sizes(list)[Len(list)] /\ Sizes(list)[i] \in Nat
        /\ Sizes(list)[Len(list)] \in Nat
    <2>1. Len(list) \in 0..Len(list) /\ i \in 0..Len(list) /\ i # 0
      BY LenProperties
    <2> QED
      BY <1>1, <2>1, SizesWithin
  <1>3. /\ After(list, d, o, k).bs.data = d
        /\ After(list, d, o, k).bs.offset = o + Sizes(list)[k]
    BY DEF After
  <1>4. Len(d) - (o + Sizes(list)[k]) # 0
    BY <1>2, LenProperties
  <1> QED
    BY <1>3, <1>4 DEF aim_bstream_empty

\* A turn that reads a whole TLV.
LEMMA TurnIs ==
    ASSUME NEW l, NEW c, NEW t, aim_bstream_empty(c) # 0, ReadTlv(c).tlv = t, t # Truncated
    PROVE  ReadTurn([list |-> l, bs |-> c]) = [list |-> <<t>> \o l, bs |-> ReadTlv(c).bs]
  <1>1. ASSUME NEW r, r.bs = c, r.list = l
        PROVE  ReadTurn(r) = [list |-> <<t>> \o l, bs |-> ReadTlv(c).bs]
    BY <1>1 DEF ReadTurn
  <1>2. [list |-> l, bs |-> c].bs = c /\ [list |-> l, bs |-> c].list = l
    OBVIOUS
  <1> QED
    BY <1>1, <1>2

\* Each turn puts the next TLV before the others.
Turning(list, d, o) ==
    \A k \in 1..Len(list) : ReadTurn(After(list, d, o, k - 1)) = After(list, d, o, k)

LEMMA WrittenTurns ==
    ASSUME NEW list \in Seq(Tlvs), NEW w \in Writers,
           \A i \in 1..Len(list) : list[i].type <= 65535 /\ Len(list[i].value) <= 65535,
           Len(w.data) + aim_sizetlvchain(list) <= w.room,
           NEW d \in Seq(Byte), NEW o \in Nat, d = aim_writetlvchain(w, list).data, o = Len(w.data),
           Len(d) = o + Sizes(list)[Len(list)]
    PROVE  Turning(list, d, o)
  <1> SUFFICES ASSUME NEW k \in 1..Len(list)
               PROVE  ReadTurn(After(list, d, o, k - 1)) = After(list, d, o, k)
    BY DEF Turning
  <1> DEFINE c == [data |-> d, offset |-> o + Sizes(list)[k - 1]]
  <1>1. /\ Sizes(list)[k - 1] \in Nat /\ Sizes(list)[k - 1] < Sizes(list)[k]
        /\ Sizes(list)[k] <= Sizes(list)[Len(list)] /\ Sizes(list)[k] \in Nat
        /\ Sizes(list)[Len(list)] \in Nat
    <2>1. Len(list) \in 0..Len(list) /\ k \in 0..Len(list) /\ k # 0
      BY LenProperties
    <2> QED
      BY <2>1, SizesWithin
  <1>2. /\ o + Sizes(list)[k - 1] \in Nat /\ Len(d) \in Nat
        /\ o + Sizes(list)[k - 1] < Len(d)
    BY <1>1
  <1>3. Within(c) /\ aim_bstream_empty(c) # 0
    BY <1>2 DEF Within, Streams, aim_bstream_empty
  <1>4. c.data = d /\ c.offset = o + Sizes(list)[k - 1]
    BY DEF c
  <1>5. After(list, d, o, k - 1) = [list |-> Back(list, k - 1), bs |-> c]
    BY DEF After
  <1> HIDE DEF c
  <1>6. ReadTlv(c).tlv = list[k] /\ ReadTlv(c).bs.offset = o + Sizes(list)[k]
    BY <1>3, <1>4, TurnReads, SMTT(30)
  <1>7. ReadTlv(c).bs = [data |-> d, offset |-> o + Sizes(list)[k]]
    <2>1. Within(ReadTlv(c).bs) /\ ReadTlv(c).bs.data = d
      BY <1>3, <1>4, ReadWithin
    <2> QED
      BY <1>6, <2>1 DEF Within, Streams
  <1>8. list[k] # Truncated
    <2>1. list[k].type \in Nat
      BY ElementOfSeq, TlvIs
    <2>2. Truncated.type = -1
      BY DEF Truncated, Tlv
    <2> QED
      BY <2>1, <2>2
  <1>9. <<list[k]>> \o Back(list, k - 1) = Back(list, k)
    BY BackIs
  <1>10. ReadTurn([list |-> Back(list, k - 1), bs |-> c]) =
             [list |-> <<list[k]>> \o Back(list, k - 1), bs |-> ReadTlv(c).bs]
    BY <1>3, <1>6, <1>8, TurnIs
  <1>11. After(list, d, o, k) = [list |-> Back(list, k), bs |-> ReadTlv(c).bs]
    BY <1>7 DEF After
  <1> QED
    BY <1>5, <1>9, <1>10, <1>11

\* The loop ends with the stream.
LEMMA ReadsBack ==
    ASSUME NEW list \in Seq(Tlvs), NEW d \in Seq(Byte), NEW o \in Nat,
           Len(d) = o + Sizes(list)[Len(list)], Turning(list, d, o),
           NEW bs, bs = [data |-> d, offset |-> o]
    PROVE  aim_readtlvchain(bs) = Reverse(list)
  <1>1. PICK n \in Nat : n = Len(list)
    BY LenProperties
  <1>2. PICK z \in Nat : z = Sizes(list)[n] /\ 4 * n <= z
    BY <1>1, SizesWithin
  <1>3. \A k \in 1..n : ReadTurn(After(list, d, o, k - 1)) = After(list, d, o, k)
    BY <1>1 DEF Turning
  <1>4. aim_bstream_empty(bs) = z
    BY <1>1, <1>2 DEF aim_bstream_empty
  <1>5. PICK N \in Nat : N = z \div 4 + 1 /\ n < N
    BY <1>2
  <1>6. PICK f : f = [k \in 0..N |-> IF k <= n THEN After(list, d, o, k) ELSE After(list, d, o, n)]
    OBVIOUS
  <1>7. \A k \in 0..N : f[k] = IF k <= n THEN After(list, d, o, k) ELSE After(list, d, o, n)
    BY <1>6
  <1>8. ASSUME NEW k \in 0..N, k # 0 PROVE f[k] = ReadTurn(f[k - 1])
    <2>1. k - 1 \in 0..N /\ k \in Nat
      BY <1>8
    <2>2. CASE k <= n
      <3>1. k \in 1..n /\ k - 1 <= n
        BY <1>8, <2>1, <2>2
      <3> QED
        BY <1>3, <1>7, <2>1, <2>2, <3>1
    <2>3. CASE ~(k <= n)
      <3>1. k - 1 <= n => k - 1 = n
        BY <2>1, <2>3
      <3>2. f[k - 1] = After(list, d, o, n) /\ f[k] = After(list, d, o, n)
        BY <1>7, <2>1, <2>3, <3>1
      <3> QED
        BY <1>1, <3>2, AfterAll
    <2> QED
      BY <2>2, <2>3
  <1>9. PICK base : base = [list |-> <<>>, bs |-> bs]
    OBVIOUS
  <1>10. f[0] = base
    <2>1. 0 \in 0..N /\ 0 <= n
      BY <1>5
    <2>2. f[0] = After(list, d, o, 0)
      BY <1>7, <2>1
    <2> QED
      BY <1>9, <2>2, AfterAll
  <1>11. ASSUME NEW k \in 0..N, aim_bstream_empty(f[k].bs) = 0
         PROVE  f[k].list = Reverse(list)
    <2>1. CASE k < n
      <3>1. f[k] = After(list, d, o, k)
        BY <1>7, <2>1
      <3>2. k + 1 \in 1..Len(list) /\ k \in Nat
        BY <1>1, <2>1
      <3>3. aim_bstream_empty(After(list, d, o, k).bs) # 0
        BY <3>2, NotYet
      <3> QED
        BY <1>11, <3>1, <3>3
    <2>2. CASE ~(k < n)
      <3>1. f[k] = After(list, d, o, n)
        BY <1>7, <2>2
      <3> QED
        BY <1>1, <3>1, AfterAll
    <2> QED
      BY <2>1, <2>2
  <1>12. N \in 0..N /\ f[N] = After(list, d, o, n)
    BY <1>5, <1>7
  <1>13. aim_bstream_empty(f[N].bs) = 0
    BY <1>1, <1>12, AfterAll
  <1>14. Turns(f, N, base)
    <2>1. f = [k \in 0..N |-> f[k]]
      BY <1>6
    <2>2. \A k \in 0..N : k # 0 => f[k] = ReadTurn(f[k - 1])
      BY <1>8
    <2> QED
      BY <1>10, <2>1, <2>2, IsTurns
  <1>15. N = aim_bstream_empty(bs) \div 4 + 1
    BY <1>4, <1>5
  <1>16. \E k \in 0..N : aim_bstream_empty(f[k].bs) = 0
    BY <1>12, <1>13
  <1>17. UsedUp(f, N, Reverse(list))
    BY <1>11, <1>16 DEF UsedUp
  <1> QED
    BY <1>9, <1>14, <1>15, <1>17, ReadIs

\* What aim_writetlvchain puts into a stream that has the room, the whole of
\* aim_readtlvchain at the start of it reads as the same chain in reverse (tlv.c): no
\* value or length is changed, no TLV lost, and the loop ends with the stream.
THEOREM WrittenIsRead ==
    ASSUME NEW list \in Seq(Tlvs), NEW w \in Writers,
           \A i \in 1..Len(list) : list[i].type <= 65535 /\ Len(list[i].value) <= 65535,
           Len(w.data) + aim_sizetlvchain(list) <= w.room,
           NEW bs, Within(bs), bs.data = aim_writetlvchain(w, list).data, bs.offset = Len(w.data)
    PROVE  aim_readtlvchain(bs) = Reverse(list)
  <1>1. PICK d, o : d = bs.data /\ o = bs.offset
    OBVIOUS
  <1>2. d \in Seq(Byte) /\ o \in Nat /\ bs = [data |-> d, offset |-> o]
    BY <1>1 DEF Within, Streams
  <1>3. Len(d) = o + Sizes(list)[Len(list)] /\ aim_sizetlvchain(list) = Sizes(list)[Len(list)]
    <2>1. Len(list) \in 0..Len(list) /\ w.room \in Nat /\ Len(w.data) \in Nat
      BY LenProperties DEF Writers
    <2>2. aim_sizetlvchain(list) = Sizes(list)[Len(list)] /\ Sizes(list)[Len(list)] \in Nat
      BY <2>1, SizesAre, SizesWithin
    <2>3. Len(w.data) <= w.room
      BY <2>1, <2>2
    <2>4. Len(aim_writetlvchain(w, list).data) = Len(w.data) + aim_sizetlvchain(list)
      BY <2>3, WrittenChain
    <2> QED
      BY <1>1, <2>2, <2>4
  <1>4. Turning(list, d, o)
    BY <1>1, <1>2, <1>3, WrittenTurns
  <1> QED
    BY <1>2, <1>3, <1>4, ReadsBack

=============================================================================
