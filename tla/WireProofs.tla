----------------------------- MODULE WireProofs -----------------------------
(***************************************************************************)
(* Wire: every variable has its type, and no handler sees a part of a      *)
(* frame or the bytes of two.  The bytes the receiver has not yet dealt    *)
(* with are, one for one, those of the frames that were sent, from a place *)
(* that is known for each state it may be in; or it has lost that place    *)
(* and the byte at which it looks is not the start of a frame.             *)
(***************************************************************************)
EXTENDS Wire, TlvProofs

-----------------------------------------------------------------------------
(* Sequences *)

LEMMA Split ==
    ASSUME NEW S, NEW s \in Seq(S), NEW n \in 0..Len(s)
    PROVE  /\ SubSeq(s, 1, n) \in Seq(S) /\ SubSeq(s, n + 1, Len(s)) \in Seq(S)
           /\ Len(SubSeq(s, 1, n)) = n
           /\ s = SubSeq(s, 1, n) \o SubSeq(s, n + 1, Len(s))
  <1>1. Len(s) \in Nat /\ n \in Nat /\ n <= Len(s)
    BY LenProperties
  <1>2. \A i \in 1..n : s[i] \in S
    BY <1>1, ElementOfSeq
  <1>3. \A i \in (n + 1)..Len(s) : s[i] \in S
    BY <1>1, ElementOfSeq
  <1>4. 1 \in Int /\ n \in Int /\ n + 1 \in Int /\ Len(s) \in Int
    BY <1>1
  <1>5. SubSeq(s, 1, n) \in Seq(S) /\ Len(SubSeq(s, 1, n)) = IF 1 <= n THEN n - 1 + 1 ELSE 0
    BY <1>2, <1>4, SubSeqProperties
  <1>6. SubSeq(s, n + 1, Len(s)) \in Seq(S)
    BY <1>3, <1>4, SubSeqProperties
  <1>7. Len(SubSeq(s, 1, n)) = n
    BY <1>1, <1>5
  <1>8. s = SubSeq(s, 1, n) \o SubSeq(s, n + 1, Len(s))
    <2>1. 1 \in 1..(Len(s) + 1) /\ n \in (1 - 1)..Len(s) /\ Len(s) \in n..Len(s)
      BY <1>1
    <2> QED
      BY <2>1, ConcatAdjacentSubSeq, SubSeqFull
  <1> QED
    BY <1>5, <1>6, <1>7, <1>8

LEMMA Joint ==
    ASSUME NEW S, NEW a \in Seq(S), NEW b \in Seq(S), NEW c, c = a \o b
    PROVE  /\ c \in Seq(S) /\ Len(c) = Len(a) + Len(b)
           /\ Len(a) \in Nat /\ Len(b) \in Nat /\ Len(c) \in Nat /\ Len(a) <= Len(c)
           /\ \A k \in 1..Len(a) : c[k] = a[k] /\ k \in 1..Len(c)
           /\ \A k \in 1..Len(b) : c[Len(a) + k] = b[k] /\ Len(a) + k \in 1..Len(c)
  <1>1. /\ c \in Seq(S) /\ Len(c) = Len(a) + Len(b)
        /\ Len(a) \in Nat /\ Len(b) \in Nat
        /\ \A k \in 1..Len(a) : c[k] = a[k]
        /\ \A k \in 1..Len(b) : c[Len(a) + k] = b[k]
    BY Joined
  <1>2. \A x \in Nat, y \in Nat :
            /\ x + y \in Nat /\ x <= x + y
            /\ \A k \in 1..x : k \in 1..(x + y)
            /\ \A k \in 1..y : x + k \in 1..(x + y)
    OBVIOUS
  <1> QED
    BY <1>1, <1>2

LEMMA JointBytes ==
    ASSUME NEW a \in Seq(Byte), NEW b \in Seq(Byte), NEW c, c = a \o b
    PROVE  /\ c \in Seq(Byte) /\ Len(c) = Len(a) + Len(b)
           /\ Len(a) \in Nat /\ Len(b) \in Nat /\ Len(c) \in Nat /\ Len(a) <= Len(c)
           /\ \A k \in 1..Len(a) : c[k] = a[k] /\ k \in 1..Len(c)
           /\ \A k \in 1..Len(b) : c[Len(a) + k] = b[k] /\ Len(a) + k \in 1..Len(c)
  BY Joint

\* What is coming are the elements of all behind the first p, to the end if nothing is lost.
Follows(coming, all, p, whole) ==
    /\ p + Len(coming) <= Len(all)
    /\ whole => p + Len(coming) = Len(all)
    /\ \A q \in 1..Len(coming) : coming[q] = all[p + q]

LEMMA FollowsRest ==
    ASSUME NEW S, NEW a \in Seq(S), NEW b \in Seq(S), NEW all \in Seq(S), NEW p \in Nat, NEW whole,
           Follows(a \o b, all, p, whole)
    PROVE  /\ Follows(b, all, p + Len(a), whole)
           /\ p + Len(a) <= Len(all)
           /\ \A k \in 1..Len(a) : a[k] = all[p + k]
  <1> DEFINE c == a \o b
  <1>1. /\ Len(c) = Len(a) + Len(b) /\ Len(a) \in Nat /\ Len(b) \in Nat /\ Len(all) \in Nat
        /\ \A k \in 1..Len(a) : c[k] = a[k]
        /\ \A k \in 1..Len(b) : c[Len(a) + k] = b[k]
    BY Joined, LenProperties
  <1>2. /\ p + Len(c) <= Len(all) /\ (whole => p + Len(c) = Len(all))
        /\ \A q \in 1..Len(c) : c[q] = all[p + q]
    BY DEF Follows
  <1> HIDE DEF c
  <1>3. p + Len(a) + Len(b) = p + Len(c) /\ p + Len(a) <= p + Len(c) /\ p + Len(c) \in Nat
    BY <1>1
  <1>4. ASSUME NEW k \in 1..Len(a) PROVE a[k] = all[p + k]
    <2>1. k \in 1..Len(c)
      BY <1>1
    <2> QED
      BY <1>1, <1>2, <2>1
  <1>5. ASSUME NEW k \in 1..Len(b) PROVE b[k] = all[p + Len(a) + k]
    <2>1. Len(a) + k \in 1..Len(c) /\ p + (Len(a) + k) = p + Len(a) + k
      BY <1>1
    <2> QED
      BY <1>1, <1>2, <2>1
  <1>6. p + Len(a) <= Len(all)
    BY <1>1, <1>2, <1>3
  <1> QED
    BY <1>2, <1>3, <1>4, <1>5, <1>6 DEF Follows

LEMMA FollowsCut ==
    ASSUME NEW S, NEW a \in Seq(S), NEW b \in Seq(S), NEW all \in Seq(S), NEW p \in Nat, NEW whole,
           Follows(a \o b, all, p, whole)
    PROVE  Follows(a, all, p, FALSE)
  BY FollowsRest DEF Follows

LEMMA Behind ==
    ASSUME NEW p \in Nat, NEW a \in Nat, NEW b \in Nat, NEW c, c = a + b, NEW all, p + a = all,
           NEW q \in 1..c, ~(q <= a)
    PROVE  q - a \in 1..b /\ a + (q - a) = q /\ all + (q - a) = p + q
  OBVIOUS

LEMMA FollowsMore ==
    ASSUME NEW S, NEW a \in Seq(S), NEW b \in Seq(S), NEW all \in Seq(S), NEW p \in Nat
    PROVE  /\ Follows(a, all, p, FALSE) => Follows(a, all \o b, p, FALSE)
           /\ Follows(a, all, p, TRUE) => Follows(a \o b, all \o b, p, TRUE)
  <1> DEFINE c == a \o b
             d == all \o b
  <1>1. /\ Len(c) = Len(a) + Len(b) /\ Len(a) \in Nat /\ Len(b) \in Nat /\ Len(all) \in Nat
        /\ \A k \in 1..Len(a) : c[k] = a[k]
        /\ \A k \in 1..Len(b) : c[Len(a) + k] = b[k]
    BY Joined
  <1>2. /\ Len(d) = Len(all) + Len(b)
        /\ \A k \in 1..Len(all) : d[k] = all[k]
        /\ \A k \in 1..Len(b) : d[Len(all) + k] = b[k]
    BY Joined
  <1> HIDE DEF c, d
  <1>3. ASSUME p + Len(a) <= Len(all), \A q \in 1..Len(a) : a[q] = all[p + q],
               NEW q \in 1..Len(a)
        PROVE  a[q] = d[p + q]
    <2>1. p + q \in 1..Len(all)
      BY <1>1, <1>3
    <2> QED
      BY <1>2, <1>3, <2>1
  <1>4. ASSUME Follows(a, all, p, FALSE) PROVE Follows(a, d, p, FALSE)
    <2>1. p + Len(a) <= Len(d)
      BY <1>1, <1>2, <1>4 DEF Follows
    <2> QED
      BY <1>3, <1>4, <2>1 DEF Follows
  <1>5. ASSUME Follows(a, all, p, TRUE) PROVE Follows(c, d, p, TRUE)
    <2>1. p + Len(a) = Len(all) /\ \A q \in 1..Len(a) : a[q] = all[p + q]
      BY <1>5 DEF Follows
    <2>2. p + Len(c) = Len(d) /\ p + Len(c) <= Len(d)
      <3>1. Len(c) = Len(a) + Len(b) /\ Len(d) = Len(all) + Len(b) /\ p + Len(a) = Len(all)
            /\ Len(a) \in Nat /\ Len(b) \in Nat
        BY <1>1, <1>2, <2>1
      <3> QED
        <4>1. p + (Len(a) + Len(b)) = (p + Len(a)) + Len(b) /\ p + (Len(a) + Len(b)) <= (p + Len(a)) + Len(b)
          BY <3>1
        <4> QED
          BY <3>1, <4>1
    <2>3. ASSUME NEW q \in 1..Len(c) PROVE c[q] = d[p + q]
      <3>1. CASE q <= Len(a)
        <4>1. q \in 1..Len(a) /\ p + Len(a) <= Len(all)
          BY <1>1, <2>1, <3>1
        <4> QED
          BY <1>1, <1>3, <2>1, <4>1
      <3>2. CASE ~(q <= Len(a))
        <4>1. /\ q - Len(a) \in 1..Len(b) /\ Len(a) + (q - Len(a)) = q
              /\ Len(all) + (q - Len(a)) = p + q
          <5>1. Len(c) = Len(a) + Len(b) /\ p + Len(a) = Len(all) /\ Len(a) \in Nat /\ Len(b) \in Nat
            BY <1>1, <2>1
          <5> QED
            BY <3>2, <5>1, Behind
        <4> QED
          BY <1>1, <1>2, <4>1
      <3> QED
        BY <3>1, <3>2
    <2> QED
      BY <2>2, <2>3 DEF Follows
  <1> QED
    BY <1>4, <1>5 DEF c, d

-----------------------------------------------------------------------------
(* The pieces of a stream, one behind the other *)

\* The first k pieces joined, for each k.
Joins(pieces) ==
    LET joined[i \in 0..Len(pieces)] == IF i = 0 THEN <<>> ELSE joined[i - 1] \o pieces[i]
    IN  joined

JoinStep(pieces, S) == [i \in 1..Len(pieces) |-> [x \in Seq(S) |-> x \o pieces[i]]]

LEMMA JoinsAre ==
    ASSUME NEW S, NEW pieces \in Seq(Seq(S))
    PROVE  /\ Joins(pieces) \in [0..Len(pieces) -> Seq(S)]
           /\ Joins(pieces)[0] = <<>>
           /\ \A k \in 1..Len(pieces) : Joins(pieces)[k] = Joins(pieces)[k - 1] \o pieces[k]
  <1> DEFINE n == Len(pieces)
             Rec(g) == [i \in 0..n |-> IF i = 0 THEN <<>> ELSE g[i - 1] \o pieces[i]]
             joined == CHOOSE g : g = Rec(g)
  <1>1. n \in Nat /\ \A i \in 1..n : \A x \in Seq(S) : x \o pieces[i] \in Seq(S)
    <2>1. \A i \in 1..n : pieces[i] \in Seq(S)
      BY ElementOfSeq
    <2> QED
      BY <2>1, Joined, LenProperties
  <1>2. JoinStep(pieces, S) \in [1..n -> [Seq(S) -> Seq(S)]]
    BY <1>1 DEF JoinStep
  <1>3. \A k \in 1..n : \A x \in Seq(S) : JoinStep(pieces, S)[k][x] = x \o pieces[k]
    BY DEF JoinStep
  <1>4. Joins(pieces) = joined
    BY DEF Joins
  <1> HIDE DEF n
  <1>5. <<>> \in Seq(S)
    BY EmptySeq
  <1>6. PICK f : Iterates(f, n, Seq(S), <<>>, JoinStep(pieces, S))
    BY <1>1, <1>2, <1>5, Recursion
  <1>7. f \in [0..n -> Seq(S)] /\ f[0] = <<>> /\ \A k \in 1..n : f[k] = JoinStep(pieces, S)[k][f[k - 1]]
    BY <1>6 DEF Iterates
  <1>8. ASSUME NEW k \in 0..n PROVE f[k] = IF k = 0 THEN <<>> ELSE f[k - 1] \o pieces[k]
    <2>1. CASE k = 0
      BY <1>7, <2>1
    <2>2. CASE k # 0
      <3>1. k \in 1..n /\ k - 1 \in 0..n
        BY <1>1, <2>2
      <3>2. f[k - 1] \in Seq(S)
        BY <1>7, <3>1
      <3>3. f[k] = JoinStep(pieces, S)[k][f[k - 1]]
        BY <1>7, <3>1
      <3>4. JoinStep(pieces, S)[k][f[k - 1]] = f[k - 1] \o pieces[k]
        BY <1>3, <3>1, <3>2, Zenon
      <3> QED
        BY <2>2, <3>3, <3>4
    <2> QED
      BY <2>1, <2>2
  <1>9. f = Rec(f)
    BY <1>7, <1>8, Zenon
  <1>10. joined = Rec(joined)
    BY <1>9, Zenon
  <1> HIDE DEF joined
  <1>11. \A k \in 0..n : joined[k] = IF k = 0 THEN <<>> ELSE joined[k - 1] \o pieces[k]
    BY <1>10
  <1>12. joined = [k \in 0..n |-> joined[k]] /\ joined[0] = <<>>
    BY <1>1, <1>10, <1>11
  <1>13. ASSUME NEW k \in 1..n, joined[k - 1] \in Seq(S)
         PROVE  joined[k] = JoinStep(pieces, S)[k][joined[k - 1]]
    <2>1. k \in 0..n /\ k # 0
      BY <1>1
    <2> QED
      BY <1>3, <1>11, <1>13, <2>1
  <1>14. joined = f
    <2>1. Obeys(joined, n, Seq(S), <<>>, JoinStep(pieces, S))
      BY <1>12, <1>13 DEF Obeys
    <2> QED
      BY <1>1, <1>5, <1>6, <2>1, SameIteration
  <1>15. \A k \in 1..n : k \in 0..n /\ k # 0
    BY <1>1
  <1> QED
    BY <1>4, <1>7, <1>11, <1>14, <1>15 DEF n

\* Every piece is in the whole, where the pieces before it end.
LEMMA JoinsGrow ==
    ASSUME NEW S, NEW pieces \in Seq(Seq(S)),
           NEW i \in 0..Len(pieces), NEW j \in 0..Len(pieces), i <= j
    PROVE  /\ Len(Joins(pieces)[i]) <= Len(Joins(pieces)[j])
           /\ \A q \in 1..Len(Joins(pieces)[i]) : Joins(pieces)[j][q] = Joins(pieces)[i][q]
  <1> DEFINE n == Len(pieces)
             J == Joins(pieces)
             Good(k) == /\ Len(J[i]) <= Len(J[k])
                        /\ \A q \in 1..Len(J[i]) : J[k][q] = J[i][q]
             T == {k \in Nat : i <= k /\ k <= n /\ ~Good(k)}
  <1>1. /\ n \in Nat /\ J \in [0..n -> Seq(S)]
        /\ \A k \in 1..n : J[k] = J[k - 1] \o pieces[k] /\ pieces[k] \in Seq(S)
    BY JoinsAre, ElementOfSeq, LenProperties
  <1> HIDE DEF n, J
  <1>2. ASSUME T # {} PROVE FALSE
    <2>1. PICK m \in T : \A k \in T : m <= k
      BY <1>2, NatMin
    <2>2. m \in Nat /\ i <= m /\ m <= n /\ ~Good(m)
      BY <2>1
    <2>3. J[i] \in Seq(S) /\ Len(J[i]) \in Nat
      BY <1>1, LenProperties DEF n
    <2>4. m # i
      BY <2>2, <2>3
    <2>5. m \in 1..n /\ m - 1 \in Nat /\ i <= m - 1 /\ m - 1 <= n /\ ~(m <= m - 1) /\ m - 1 \in 0..n
      BY <1>1, <2>2, <2>4
    <2>6. Good(m - 1)
      BY <2>1, <2>5
    <2>7. J[m] = J[m - 1] \o pieces[m] /\ pieces[m] \in Seq(S) /\ J[m - 1] \in Seq(S)
      BY <1>1, <2>5
    <2> DEFINE x == J[m - 1]
               y == J[m]
               z == pieces[m]
               w == J[i]
    <2> HIDE DEF x, y, z, w
    <2>8. /\ Len(x) \in Nat /\ Len(y) \in Nat /\ Len(x) <= Len(y)
          /\ \A k \in 1..Len(x) : y[k] = x[k]
      <3>1. x \in Seq(S) /\ z \in Seq(S) /\ y = x \o z
        BY <2>7 DEF x, y, z
      <3> QED
        BY <3>1, Joint
    <2>9. Len(w) <= Len(x) /\ Len(w) \in Nat /\ \A q \in 1..Len(w) : x[q] = w[q]
      BY <2>3, <2>6 DEF w, x
    <2>10. Len(w) <= Len(y) /\ \A q \in 1..Len(w) : y[q] = w[q]
      <3>1. Len(w) <= Len(y)
        BY <2>8, <2>9
      <3>2. \A q \in 1..Len(w) : q \in 1..Len(x)
        BY <2>8, <2>9
      <3> QED
        BY <2>8, <2>9, <3>1, <3>2
    <2>11. Good(m)
      BY <2>10 DEF w, y
    <2> QED
      BY <2>2, <2>11
  <1>3. j \notin T
    BY <1>2
  <1>4. j \in Nat /\ j <= n /\ i <= j
    BY <1>1 DEF n
  <1> QED
    BY <1>3, <1>4 DEF J

Held(before, after, piece, all) ==
    /\ Len(before) \in Nat
    /\ Len(after) = Len(before) + Len(piece)
    /\ Len(after) <= Len(all)
    /\ \A q \in 1..Len(piece) : all[Len(before) + q] = piece[q]

LEMMA JoinsHold ==
    ASSUME NEW S, NEW pieces \in Seq(Seq(S)), NEW m \in 1..Len(pieces),
           NEW all, all = Joins(pieces)[Len(pieces)]
    PROVE  Held(Joins(pieces)[m - 1], Joins(pieces)[m], pieces[m], all)
  <1> DEFINE n == Len(pieces)
             J == Joins(pieces)
  <1>1. /\ n \in Nat /\ J \in [0..n -> Seq(S)]
        /\ J[m] = J[m - 1] \o pieces[m] /\ pieces[m] \in Seq(S)
    BY JoinsAre, ElementOfSeq, LenProperties
  <1>2. m \in 0..n /\ m - 1 \in 0..n /\ n \in 0..n /\ m <= n
    BY <1>1
  <1>3. J[m - 1] \in Seq(S) /\ J[n] \in Seq(S)
    BY <1>1, <1>2
  <1>4. /\ Len(J[m]) <= Len(J[n])
        /\ \A q \in 1..Len(J[m]) : J[n][q] = J[m][q]
    BY <1>2, JoinsGrow
  <1> HIDE DEF n, J
  <1>5. /\ Len(J[m]) = Len(J[m - 1]) + Len(pieces[m]) /\ Len(J[m - 1]) \in Nat
        /\ \A k \in 1..Len(pieces[m]) : /\ J[m][Len(J[m - 1]) + k] = pieces[m][k]
                                       /\ Len(J[m - 1]) + k \in 1..Len(J[m])
    <2> DEFINE x == J[m - 1]
               y == J[m]
               z == pieces[m]
    <2>1. x \in Seq(S) /\ z \in Seq(S) /\ y = x \o z
      BY <1>1, <1>3
    <2> HIDE DEF x, y, z
    <2>2. /\ Len(y) = Len(x) + Len(z) /\ Len(x) \in Nat
          /\ \A k \in 1..Len(z) : y[Len(x) + k] = z[k] /\ Len(x) + k \in 1..Len(y)
      BY <2>1, Joint
    <2> QED
      BY <2>2 DEF x, y, z
  <1>6. \A q \in 1..Len(pieces[m]) : J[n][Len(J[m - 1]) + q] = pieces[m][q]
    BY <1>4, <1>5 DEF J, n
  <1> QED
    BY <1>3, <1>4, <1>5, <1>6 DEF n, J, Held

\* A piece more leaves the ends of those before it where they are.
OneMore(before, after, n, b) ==
    /\ \A k \in 0..n : after[k] = before[k]
    /\ after[n + 1] = before[n] \o b

LEMMA JoinsAppend ==
    ASSUME NEW S, NEW pieces \in Seq(Seq(S)), NEW b \in Seq(S), NEW more, more = Append(pieces, b)
    PROVE  OneMore(Joins(pieces), Joins(more), Len(pieces), b)
  <1> DEFINE n == Len(pieces)
             J == Joins(pieces)
             K == Joins(more)
             T == {k \in Nat : k <= n /\ K[k] # J[k]}
  <1>1. /\ more \in Seq(Seq(S)) /\ Len(more) = n + 1 /\ n \in Nat
        /\ \A k \in 1..n : more[k] = pieces[k]
        /\ more[n + 1] = b
    BY AppendProperties, LenProperties
  <1>2. J[0] = <<>> /\ \A k \in 1..n : J[k] = J[k - 1] \o pieces[k]
    BY JoinsAre
  <1>3. K[0] = <<>> /\ \A k \in 1..(n + 1) : K[k] = K[k - 1] \o more[k]
    BY <1>1, JoinsAre
  <1> HIDE DEF n, J, K
  <1>4. ASSUME T # {} PROVE FALSE
    <2>1. PICK m \in T : \A k \in T : m <= k
      BY <1>4, NatMin
    <2>2. m \in Nat /\ m <= n /\ K[m] # J[m]
      BY <2>1
    <2>3. m # 0
      BY <1>2, <1>3, <2>2
    <2>4. m \in 1..n /\ m \in 1..(n + 1) /\ m - 1 \in Nat /\ m - 1 <= n /\ ~(m <= m - 1)
      BY <1>1, <2>2, <2>3
    <2>5. K[m - 1] = J[m - 1]
      BY <2>1, <2>4
    <2> QED
      BY <1>1, <1>2, <1>3, <2>2, <2>4, <2>5
  <1>5. \A k \in 0..n : k \in Nat /\ k <= n
    BY <1>1
  <1>6. \A k \in 0..n : K[k] = J[k]
    BY <1>4, <1>5
  <1>7. n \in 0..n /\ n + 1 \in 1..(n + 1) /\ n + 1 - 1 = n
    BY <1>1
  <1>8. K[n + 1] = J[n] \o b
    <2> DEFINE e == n + 1
    <2>1. e \in 1..e /\ e - 1 = n /\ \A k \in 1..e : K[k] = K[k - 1] \o more[k]
      <3>1. \A k \in 1..e : K[k] = K[k - 1] \o more[k]
        BY <1>3
      <3>2. e \in 1..e /\ e - 1 = n
        BY <1>7
      <3> QED
        BY <3>1, <3>2
    <2>2. more[e] = b
      BY <1>1
    <2> HIDE DEF e
    <2>3. K[e] = K[n] \o b
      BY <2>1, <2>2
    <2> QED
      BY <1>6, <1>7, <2>3 DEF e
  <1> QED
    BY <1>6, <1>8 DEF n, J, K, OneMore

-----------------------------------------------------------------------------
(* Frames *)

LEMMA FieldsOf ==
    ASSUME NEW A, NEW B, NEW r \in [type : A, value : B], A \subseteq Nat
    PROVE  r \in [type : Nat, value : B] /\ r.type \in A
  OBVIOUS

LEMMA ChainIs ==
    ASSUME NEW c \in Chains
    PROVE  c \in Seq(Tlvs) /\ \A i \in 1..Len(c) : c[i].type <= 65535
  <1>1. c \in Seq(WireTlvs)
    BY ChainsAssumption
  <1> DEFINE A == 0..65535
             B == Seq(Byte)
  <1>2. WireTlvs = [type : A, value : B] /\ Tlvs = [type : Nat, value : B]
    BY DEF WireTlvs, Tlvs
  <1>3. A \subseteq Nat /\ \A x \in A : x <= 65535
    OBVIOUS
  <1> HIDE DEF A, B
  <1>4. \A tlv \in WireTlvs : tlv \in Tlvs /\ tlv.type \in A
    <2> SUFFICES ASSUME NEW tlv \in WireTlvs PROVE tlv \in Tlvs /\ tlv.type \in A
      OBVIOUS
    <2>1. tlv \in [type : A, value : B] /\ A \subseteq Nat
      BY <1>2, <1>3
    <2>2. tlv \in [type : Nat, value : B] /\ tlv.type \in A
      BY <2>1, FieldsOf
    <2> QED
      BY <1>2, <2>2
  <1>5. WireTlvs \subseteq Tlvs
    BY <1>4
  <1>6. c \in Seq(Tlvs)
    BY <1>1, <1>5, SeqMonotonic
  <1>7. \A i \in 1..Len(c) : c[i] \in WireTlvs
    BY <1>1, ElementOfSeq
  <1>8. \A i \in 1..Len(c) : c[i].type \in A
    BY <1>4, <1>7
  <1>9. ASSUME NEW i \in 1..Len(c) PROVE c[i].type <= 65535
    <2> DEFINE x == c[i].type
    <2>1. x \in A
      BY <1>8
    <2> HIDE DEF x
    <2>2. x <= 65535
      BY <1>3, <2>1
    <2> QED
      BY <2>2 DEF x
  <1> QED
    BY <1>6, <1>9

\* The TLVs and the tail a frame has room for.
Fitting(f) == IF aim_sizetlvchain(f.chain) > Room THEN <<>> ELSE f.chain
FittingTail(f) == IF aim_sizetlvchain(Fitting(f)) + Len(f.tail) > Room THEN <<>> ELSE f.tail

LEMMA FrameIs ==
    ASSUME NEW f \in Frames
    PROVE  /\ f.chain \in Seq(Tlvs) /\ f.tail \in Seq(Byte)
           /\ Fitting(f) \in Seq(Tlvs)
           /\ \A i \in 1..Len(Fitting(f)) : Fitting(f)[i] \in Tlvs /\ Fitting(f)[i].type <= 65535
           /\ FittingTail(f) \in Seq(Byte)
  <1>1. f.chain \in Chains /\ f.tail \in Tails
    BY DEF Frames
  <1>2. f.chain \in Seq(Tlvs) /\ \A i \in 1..Len(f.chain) : f.chain[i].type <= 65535
    BY <1>1, ChainIs
  <1>3. f.tail \in Seq(Byte)
    BY <1>1, ChainsAssumption
  <1>4. <<>> \in Seq(Tlvs) /\ <<>> \in Seq(Byte) /\ \A i \in 1..Len(<<>>) : FALSE
    BY EmptySeq
  <1>5. \A i \in 1..Len(f.chain) : f.chain[i] \in Tlvs
    BY <1>2, ElementOfSeq
  <1>6. FittingTail(f) \in Seq(Byte)
    BY <1>3, <1>4 DEF FittingTail
  <1>7. CASE Fitting(f) = <<>>
    BY <1>2, <1>3, <1>4, <1>6, <1>7
  <1>8. CASE Fitting(f) = f.chain
    BY <1>2, <1>3, <1>5, <1>6, <1>8
  <1> QED
    BY <1>7, <1>8 DEF Fitting

\* The chain of a frame as it is written: all of it that fits, and nothing else.
LEMMA ChainWritten ==
    ASSUME NEW f \in Frames, NEW r, r = aim_writetlvchain(Writer(Room), f.chain)
    PROVE  /\ r \in Writers /\ r.room = Room /\ Len(r.data) <= Room
           /\ Len(r.data) = aim_sizetlvchain(Fitting(f))
           /\ \A i \in 1..Len(Fitting(f)) : Holds(r.data, Sizes(Fitting(f))[i - 1], Fitting(f)[i])
  <1> DEFINE w == Writer(Room)
             c == f.chain
             size == aim_sizetlvchain(c)
  <1>1. w \in Writers /\ w.room = Room /\ w.data = <<>> /\ Len(w.data) = 0 /\ Room \in Nat
    BY BoundsAssumption, EmptySeq DEF Writers, Writer
  <1>2. Len(w.data) <= w.room
    BY <1>1
  <1>3. c \in Seq(Tlvs)
    BY FrameIs
  <1>4. size \in Nat
    <2>1. Len(c) \in 0..Len(c)
      BY <1>3, LenProperties
    <2> QED
      BY <1>3, <2>1, SizesAre
  <1>5. /\ r \in Writers /\ r.room = w.room /\ Len(r.data) <= w.room
        /\ Len(w.data) + size > w.room => r = w
        /\ Len(w.data) + size <= w.room =>
               /\ Len(r.data) = Len(w.data) + size
               /\ \A i \in 1..Len(c) : Holds(r.data, Len(w.data) + Sizes(c)[i - 1], c[i])
    BY <1>1, <1>2, <1>3, WrittenChain
  <1> HIDE DEF w, size
  <1>6. CASE size > Room
    <2>1. Fitting(f) = <<>> /\ Len(<<>>) = 0 /\ <<>> \in Seq(Tlvs) /\ 1..0 = {}
      BY <1>6, EmptySeq DEF Fitting, size
    <2>2. aim_sizetlvchain(<<>>) = 0
      <3>1. Sizes(<<>>)[0] = 0 /\ aim_sizetlvchain(<<>>) = Sizes(<<>>)[Len(<<>>)]
        BY <2>1, SizesAre
      <3> QED
        BY <2>1, <3>1
    <2>3. Len(w.data) + size > w.room
      BY <1>1, <1>4, <1>6
    <2>4. r = w
      BY <1>5, <2>3
    <2> QED
      BY <1>1, <1>5, <2>1, <2>2, <2>4
  <1>7. CASE ~(size > Room)
    <2>1. Fitting(f) = c
      BY <1>7 DEF Fitting, size
    <2>2. Len(w.data) + size <= w.room /\ Len(w.data) + size = size
      BY <1>1, <1>4, <1>7
    <2>3. \A i \in 1..Len(c) : Len(w.data) + Sizes(c)[i - 1] = Sizes(c)[i - 1]
      <3>1. \A i \in 1..Len(c) : i - 1 \in 0..Len(c)
        BY <1>3, LenProperties
      <3>2. \A i \in 1..Len(c) : Sizes(c)[i - 1] \in Nat
        BY <1>3, <3>1, SizesAre
      <3> QED
        BY <1>1, <3>2
    <2> QED
      BY <1>1, <1>5, <2>1, <2>2, <2>3 DEF size
  <1> QED
    BY <1>6, <1>7

\* The payload of a frame: the TLVs, each at its place, and the tail behind them.
LEMMA PayloadIs ==
    ASSUME NEW f \in Frames, NEW c, c = Fitting(f), NEW t, t = FittingTail(f),
           NEW s, s = aim_sizetlvchain(Fitting(f))
    PROVE  /\ Payload(f) \in Seq(Byte) /\ Len(Payload(f)) \in Nat /\ Len(Payload(f)) <= Room
           /\ s \in Nat /\ Len(Payload(f)) = s + Len(t)
           /\ \A i \in 1..Len(c) : Holds(Payload(f), Sizes(c)[i - 1], c[i])
           /\ \A k \in 1..Len(t) : Payload(f)[s + k] = t[k]
  <1> DEFINE r == aim_writetlvchain(Writer(Room), f.chain)
             P == Payload(f)
  <1>1. /\ r \in Writers /\ r.room = Room /\ Len(r.data) <= Room
        /\ Len(r.data) = s
        /\ \A i \in 1..Len(c) : Holds(r.data, Sizes(c)[i - 1], c[i])
    BY ChainWritten
  <1>2. f.tail \in Seq(Byte) /\ c \in Seq(Tlvs) /\ t \in Seq(Byte) /\ \A i \in 1..Len(c) : c[i] \in Tlvs
    BY FrameIs
  <1>3. r.data \in Seq(Byte) /\ s \in Nat /\ Room \in Nat
    BY <1>1, LenProperties, BoundsAssumption DEF Writers
  <1>4. P = aimbs_put(r, f.tail).data
    BY DEF Payload
  <1> HIDE DEF r, P
  <1>5. P = (IF s + Len(f.tail) > Room THEN r.data ELSE r.data \o f.tail) /\ Len(P) <= Room
    BY <1>1, <1>2, <1>4, PutIs
  <1>6. P = r.data \o t
    <2>1. CASE s + Len(f.tail) > Room
      <3>1. t = <<>>
        BY <2>1 DEF FittingTail
      <3> QED
        BY <1>3, <1>5, <2>1, <3>1, ConcatEmptySeq
    <2>2. CASE ~(s + Len(f.tail) > Room)
      <3>1. t = f.tail
        BY <2>2 DEF FittingTail
      <3> QED
        BY <1>5, <2>2, <3>1
    <2> QED
      BY <2>1, <2>2
  <1>7. /\ P \in Seq(Byte) /\ Len(P) = s + Len(t) /\ Len(P) \in Nat
        /\ \A k \in 1..s : P[k] = r.data[k]
        /\ \A k \in 1..Len(t) : P[s + k] = t[k]
    <2> DEFINE d == r.data
    <2>1. d \in Seq(Byte) /\ t \in Seq(Byte) /\ P = d \o t /\ Len(d) = s
      BY <1>1, <1>2, <1>3, <1>6
    <2> HIDE DEF d
    <2>2. /\ P \in Seq(Byte) /\ Len(P) = Len(d) + Len(t) /\ Len(P) \in Nat
          /\ \A k \in 1..Len(d) : P[k] = d[k]
          /\ \A k \in 1..Len(t) : P[Len(d) + k] = t[k]
      <3>1. d \in Seq(Byte) /\ t \in Seq(Byte)
        BY <2>1
      <3>2. P = d \o t
        BY <2>1
      <3> HIDE DEF P
      <3> QED
        BY <3>1, <3>2, JointBytes
    <2> QED
      BY <2>1, <2>2 DEF d
  <1>8. ASSUME NEW i \in 1..Len(c) PROVE Holds(P, Sizes(c)[i - 1], c[i])
    <2> DEFINE o == Sizes(c)[i - 1]
               b == TlvBytes(c[i])
               n == Len(c)
    <2>1. i \in 0..n /\ i - 1 \in 0..n /\ n \in 0..n /\ i <= n
      BY <1>2, LenProperties
    <2>2. o \in Nat /\ Sizes(c)[i] = o + 4 + Len(c[i].value) /\ Sizes(c)[i] <= Sizes(c)[n] /\ s = Sizes(c)[n]
      <3>1. Sizes(c)[i] = o + 4 + Len(c[i].value) /\ s = Sizes(c)[n]
        <4>1. c \in Seq(Tlvs)
          BY <1>2
        <4>2. \A j \in 1..n : Sizes(c)[j] = Sizes(c)[j - 1] + 4 + Len(c[j].value)
          BY <4>1, SizesAre
        <4>3. aim_sizetlvchain(c) = Sizes(c)[n]
          BY <4>1, SizesAre
        <4> QED
          BY <4>2, <4>3
      <3>2. Sizes(c) \in [0..n -> Nat]
        BY <1>2, SizesAre
      <3>3. o \in Nat
        BY <2>1, <3>2
      <3>4. Sizes(c)[i] <= Sizes(c)[n]
        BY <1>2, <2>1, SizesGrow
      <3> QED
        BY <3>1, <3>3, <3>4
    <2>3. Len(b) = 4 + Len(c[i].value) /\ Len(c[i].value) \in Nat
      BY <1>2, TlvBytesAre, TlvIs
    <2>4. \A k \in 1..Len(b) : r.data[o + k] = b[k]
      BY <1>1 DEF Holds
    <2> DEFINE v == Len(c[i].value)
    <2> HIDE DEF o, b, n, v
    <2>5. ASSUME NEW k \in 1..Len(b) PROVE o + k \in 1..s
      <3>1. o \in Nat /\ v \in Nat /\ Len(b) = 4 + v /\ o + 4 + v <= s /\ s \in Nat
        BY <1>3, <2>2, <2>3 DEF v
      <3> QED
        BY <3>1
    <2>6. \A k \in 1..Len(b) : P[o + k] = b[k]
      BY <1>7, <2>4, <2>5
    <2> QED
      BY <2>6 DEF Holds, o, b
  <1> QED
    BY <1>3, <1>5, <1>7, <1>8 DEF P

\* A frame on the wire: 0x2a, the channel, the sequence number and the length of the
\* payload, and the payload.
FlapOf(b, P, i) ==
    /\ Len(b) = 6 + Len(P) /\ Len(P) \in Nat
    /\ b[1] = 42
    /\ i <= 65535 => 256 * b[3] + b[4] = i
    /\ Len(P) <= 65535 => 256 * b[5] + b[6] = Len(P)
    /\ \A k \in 1..Len(P) : b[6 + k] = P[k]

LEMMA FlapIs ==
    ASSUME NEW f \in Frames, NEW i \in Nat, NEW P, P = Payload(f), NEW b, b = sendframe_flap(f, i)
    PROVE  b \in Seq(Byte) /\ FlapOf(b, P, i)
  <1> DEFINE h == <<42, 4>>
             s == aimutil_put16(i)
             l == aimutil_put16(Len(P))
             hs == h \o s
             hsl == hs \o l
  <1>1. P \in Seq(Byte) /\ Len(P) \in Nat
    BY PayloadIs
  <1>2. h \in Seq(Byte) /\ Len(h) = 2 /\ h[1] = 42
    <2>1. 42 \in Byte /\ 4 \in Byte
      BY ByteIs
    <2> QED
      BY <2>1
  <1>3. s \in Seq(Byte) /\ Len(s) = 2
    BY Put16
  <1>4. i <= 65535 => 256 * s[1] + s[2] = i
    BY Put16
  <1>5. l \in Seq(Byte) /\ Len(l) = 2
    BY <1>1, Put16
  <1>6. Len(P) <= 65535 => 256 * l[1] + l[2] = Len(P)
    BY <1>1, Put16
  <1>7. b = hsl \o P
    BY DEF sendframe_flap
  <1>8. 1 \in 1..2 /\ 2 \in 1..2 /\ 1 \in 1..4 /\ 3 \in 1..4 /\ 4 \in 1..4
        /\ 1 \in 1..6 /\ 3 \in 1..6 /\ 4 \in 1..6 /\ 5 \in 1..6 /\ 6 \in 1..6
        /\ 2 + 1 = 3 /\ 2 + 2 = 4 /\ 4 + 1 = 5 /\ 4 + 2 = 6
    OBVIOUS
  <1> HIDE DEF h, s, l
  <1>9. hs \in Seq(Byte) /\ Len(hs) = 4 /\ hs[1] = 42 /\ hs[3] = s[1] /\ hs[4] = s[2]
    <2>1. /\ hs \in Seq(Byte) /\ Len(hs) = Len(h) + Len(s)
          /\ \A k \in 1..Len(h) : hs[k] = h[k]
          /\ \A k \in 1..Len(s) : hs[Len(h) + k] = s[k]
      <3>1. h \in Seq(Byte) /\ s \in Seq(Byte)
        BY <1>2, <1>3
      <3> QED
        BY <3>1, Joined
    <2> HIDE DEF hs
    <2>2. hs[1] = h[1] /\ hs[2 + 1] = s[1] /\ hs[2 + 2] = s[2] /\ Len(hs) = 2 + 2
      BY <1>2, <1>3, <1>8, <2>1
    <2> QED
      BY <1>2, <1>8, <2>1, <2>2
  <1> HIDE DEF hs
  <1>10. /\ hsl \in Seq(Byte) /\ Len(hsl) = 6 /\ hsl[1] = 42 /\ hsl[3] = s[1] /\ hsl[4] = s[2]
         /\ hsl[5] = l[1] /\ hsl[6] = l[2]
    <2>1. /\ hsl \in Seq(Byte) /\ Len(hsl) = Len(hs) + Len(l)
          /\ \A k \in 1..Len(hs) : hsl[k] = hs[k]
          /\ \A k \in 1..Len(l) : hsl[Len(hs) + k] = l[k]
      <3>1. hs \in Seq(Byte) /\ l \in Seq(Byte)
        BY <1>5, <1>9
      <3> QED
        BY <3>1, Joined
    <2> HIDE DEF hsl
    <2>2. /\ hsl[1] = hs[1] /\ hsl[3] = hs[3] /\ hsl[4] = hs[4]
          /\ hsl[4 + 1] = l[1] /\ hsl[4 + 2] = l[2] /\ Len(hsl) = 4 + 2
      BY <1>5, <1>8, <1>9, <2>1
    <2> QED
      BY <1>8, <1>9, <2>1, <2>2
  <1> HIDE DEF hsl
  <1>11. /\ b \in Seq(Byte) /\ Len(b) = 6 + Len(P)
         /\ b[1] = 42 /\ b[3] = s[1] /\ b[4] = s[2] /\ b[5] = l[1] /\ b[6] = l[2]
         /\ \A k \in 1..Len(P) : b[6 + k] = P[k]
    <2>1. hsl \in Seq(Byte) /\ P \in Seq(Byte) /\ b = hsl \o P
      BY <1>1, <1>7, <1>10
    <2>2. /\ b \in Seq(Byte) /\ Len(b) = Len(hsl) + Len(P)
          /\ \A k \in 1..Len(hsl) : b[k] = hsl[k]
          /\ \A k \in 1..Len(P) : b[Len(hsl) + k] = P[k]
      BY <2>1, JointBytes
    <2>3. Len(hsl) = 6
      BY <1>10
    <2>4. \A k \in 1..6 : b[k] = hsl[k]
      BY <2>2, <2>3
    <2>5. /\ b[1] = hsl[1] /\ b[3] = hsl[3] /\ b[4] = hsl[4] /\ b[5] = hsl[5] /\ b[6] = hsl[6]
      BY <1>8, <2>4
    <2> QED
      BY <1>10, <2>2, <2>3, <2>5
  <1> QED
    BY <1>1, <1>4, <1>6, <1>11 DEF FlapOf

\* The two bytes behind the first k, read as a number.
LEMMA HeaderField ==
    ASSUME NEW buf \in Seq(Byte), NEW k \in Nat, NEW m, m = k + 1, NEW n, n = k + 2, n <= Len(buf)
    PROVE  /\ aimutil_get(SubSeq(buf, m, n)) = 256 * buf[m] + buf[n]
           /\ aimutil_get(SubSeq(buf, m, n)) \in Nat
  <1> DEFINE bs == [data |-> buf, offset |-> k]
  <1>1. bs \in Streams /\ bs.data = buf /\ bs.offset = k
    BY DEF Streams
  <1>2. bs.offset <= Len(bs.data) /\ bs.offset + 2 <= Len(bs.data) /\ 2 \in Nat
        /\ 1 \in 1..2 /\ 2 \in 1..2
    BY <1>1, LenProperties
  <1>3. Within(bs)
    BY <1>1, <1>2 DEF Within
  <1>4. Ahead(bs, 2) = SubSeq(buf, m, n)
    BY <1>1 DEF Ahead
  <1> HIDE DEF bs
  <1>5. /\ Ahead(bs, 2) \in Seq(Byte) /\ Len(Ahead(bs, 2)) = 2
        /\ \A i \in 1..2 : Ahead(bs, 2)[i] = bs.data[bs.offset + i]
    BY <1>2, <1>3, AheadBytes
  <1>6. Ahead(bs, 2)[1] = buf[m] /\ Ahead(bs, 2)[2] = buf[n]
    BY <1>1, <1>2, <1>5
  <1>7. aimutil_get(Ahead(bs, 2)) \in Nat
        /\ aimutil_get(Ahead(bs, 2)) = 256 * Ahead(bs, 2)[1] + Ahead(bs, 2)[2]
    BY <1>5, GetNumber
  <1> DEFINE h == Ahead(bs, 2)
  <1>8. aimutil_get(h) \in Nat /\ aimutil_get(h) = 256 * buf[m] + buf[n]
    BY <1>6, <1>7
  <1>9. h = SubSeq(buf, m, n)
    BY <1>4
  <1> HIDE DEF h
  <1> QED
    BY <1>8, <1>9

-----------------------------------------------------------------------------
(* Reading the chain of a frame *)

\* The first j TLVs of a chain, each put before those already read.
ReadSoFar(c, j) == [k \in 1..j |-> c[j - k + 1]]

\* A frame's payload has been read up to pos: some TLVs of its chain, or everything.
Parsing(f, pos, list) ==
    \/ \E j \in 0..Len(Fitting(f)) : /\ pos = Sizes(Fitting(f))[j]
                                    /\ list = ReadSoFar(Fitting(f), j)
    \/ pos = Len(Payload(f)) /\ list = Expected(f)

LEMMA ReadOneMore ==
    ASSUME NEW S, NEW c \in Seq(S), NEW j \in 0..Len(c), j < Len(c)
    PROVE  <<c[j + 1]>> \o ReadSoFar(c, j) = ReadSoFar(c, j + 1)
  <1> DEFINE a == ReadSoFar(c, j)
             b == ReadSoFar(c, j + 1)
             h == <<c[j + 1]>>
             d == h \o a
  <1>1. j \in Nat /\ Len(c) \in Nat /\ j + 1 \in 1..Len(c) /\ j + 1 \in Nat
    BY LenProperties
  <1>2. a \in Seq(S) /\ Len(a) = j /\ \A k \in 1..j : a[k] = c[j - k + 1]
    BY <1>1 DEF ReadSoFar
  <1>3. b \in Seq(S) /\ Len(b) = j + 1 /\ \A k \in 1..(j + 1) : b[k] = c[j + 1 - k + 1]
    BY <1>1 DEF ReadSoFar
  <1>4. h \in Seq(S) /\ Len(h) = 1 /\ h[1] = c[j + 1]
    BY <1>1
  <1> HIDE DEF a, b, h
  <1>5. /\ d \in Seq(S) /\ Len(d) = Len(h) + Len(a)
        /\ \A k \in 1..Len(h) : d[k] = h[k]
        /\ \A k \in 1..Len(a) : d[Len(h) + k] = a[k]
    <2>1. h \in Seq(S) /\ a \in Seq(S)
      BY <1>2, <1>4
    <2> QED
      BY <2>1, Joined
  <1> HIDE DEF d
  <1>6. Len(d) = Len(b)
    BY <1>1, <1>2, <1>3, <1>4, <1>5
  <1>7. ASSUME NEW k \in 1..(j + 1) PROVE d[k] = b[k]
    <2>1. b[k] = c[j + 1 - k + 1]
      BY <1>3
    <2>2. CASE k = 1
      <3>1. j + 1 - 1 + 1 = j + 1 /\ 1 \in 1..1
        BY <1>1
      <3> QED
        BY <1>4, <1>5, <2>1, <2>2, <3>1
    <2>3. CASE k # 1
      <3>1. k - 1 \in 1..j /\ 1 + (k - 1) = k /\ j - (k - 1) + 1 = j + 1 - k + 1
        BY <1>1, <2>3
      <3> QED
        BY <1>2, <1>4, <1>5, <2>1, <3>1
    <2> QED
      BY <2>2, <2>3
  <1> QED
    BY <1>3, <1>5, <1>6, <1>7, SeqEqual DEF d, a, b, h

\* Under which conditions no frame is mistaken: a connection that fails is reset, lengths
\* and sequence numbers keep their 16 bits, what follows a chain in a frame is nothing or
\* two bytes, and a receiver that runs out of memory behind a header meets a payload
\* that does not look like a header.
Sound ==
    /\ Failures \subseteq {"reset"}
    /\ Room <= 65535 /\ MaxFrames <= 65535
    /\ \A t \in Tails : Len(t) \in {0, 2}
    /\ MallocFails => \A f \in Frames : Payload(f) = <<>> \/ Payload(f)[1] # 42

LEMMA TailIs ==
    ASSUME Sound, NEW f \in Frames
    PROVE  \/ FittingTail(f) = <<>> /\ Len(FittingTail(f)) = 0
           \/ FittingTail(f) # <<>> /\ Len(FittingTail(f)) = 2
  <1>1. f.tail \in Tails /\ f.tail \in Seq(Byte)
    BY ChainsAssumption DEF Frames
  <1>2. Len(f.tail) \in {0, 2}
    BY <1>1 DEF Sound
  <1>3. Len(<<>>) = 0 /\ (f.tail = <<>> <=> Len(f.tail) = 0)
    BY <1>1, EmptySeq
  <1>4. FittingTail(f) = <<>> \/ FittingTail(f) = f.tail
    BY DEF FittingTail
  <1> QED
    BY <1>2, <1>3, <1>4

LEMMA ExpectedIs ==
    ASSUME NEW f \in Frames, NEW c, c = Fitting(f), NEW t, t = FittingTail(f)
    PROVE  /\ t = <<>> => Expected(f) = ReadSoFar(c, Len(c))
           /\ t # <<>> => Expected(f) = <<Tlv(aimutil_get(t), <<>>)>> \o ReadSoFar(c, Len(c))
  <1>1. c \in Seq(Tlvs)
    BY FrameIs
  <1>2. Reverse(c) = ReadSoFar(c, Len(c))
    BY DEF Reverse, ReadSoFar
  <1>3. Reverse(c) \in Seq(Tlvs)
    BY <1>1 DEF Reverse
  <1>4. Expected(f) = (IF t = <<>> THEN <<>> ELSE <<Tlv(aimutil_get(t), <<>>)>>) \o Reverse(c)
    BY DEF Expected, Fitting, FittingTail
  <1>5. <<>> \o Reverse(c) = Reverse(c)
    BY <1>3, ConcatEmptySeq
  <1> QED
    BY <1>2, <1>4, <1>5

\* The places between the TLVs of a payload.
LEMMA PlacesIn ==
    ASSUME NEW f \in Frames, NEW c, c = Fitting(f), NEW j \in 0..Len(c)
    PROVE  /\ Sizes(c)[j] \in Nat
           /\ j = Len(c) => Sizes(c)[j] = aim_sizetlvchain(c)
           /\ j # Len(c) => /\ j + 1 \in 1..Len(c) /\ j + 1 \in 0..Len(c) /\ j < Len(c) /\ j + 1 - 1 = j
                            /\ Len(c[j + 1].value) \in Nat
                            /\ Sizes(c)[j + 1] = Sizes(c)[j] + 4 + Len(c[j + 1].value)
                            /\ Sizes(c)[j + 1] <= aim_sizetlvchain(c)
  <1> DEFINE n == Len(c)
             s == Sizes(c)
  <1>1. c \in Seq(Tlvs) /\ n \in Nat
    BY FrameIs, LenProperties
  <1>2. /\ s \in [0..n -> Nat] /\ aim_sizetlvchain(c) = s[n]
        /\ \A k \in 1..n : s[k] = s[k - 1] + 4 + Len(c[k].value)
    BY <1>1, SizesAre
  <1>3. s[j] \in Nat
    BY <1>2
  <1>4. ASSUME j # n
        PROVE  /\ j + 1 \in 1..n /\ j + 1 \in 0..n /\ j < n /\ j + 1 - 1 = j
               /\ Len(c[j + 1].value) \in Nat
               /\ s[j + 1] = s[j] + 4 + Len(c[j + 1].value)
               /\ s[j + 1] <= s[n]
    <2>1. j + 1 \in 1..n /\ j + 1 \in 0..n /\ j < n /\ j + 1 - 1 = j /\ n \in 0..n /\ j + 1 <= n
      BY <1>1, <1>4
    <2>2. c[j + 1] \in Tlvs
      BY <1>1, <2>1, ElementOfSeq
    <2>3. Len(c[j + 1].value) \in Nat
      BY <2>2, TlvIs
    <2> DEFINE k == j + 1
    <2>4. k \in 1..n /\ k - 1 = j
      BY <2>1
    <2> HIDE DEF k
    <2>5. s[k] = s[j] + 4 + Len(c[k].value)
      BY <1>2, <2>4
    <2>6. s[k] <= s[n]
      BY <1>1, <2>1, SizesGrow DEF k
    <2> QED
      BY <2>1, <2>3, <2>5, <2>6 DEF k
  <1> QED
    BY <1>2, <1>3, <1>4

LEMMA ParseEnd ==
    ASSUME Sound, NEW f \in Frames, NEW pos, NEW list,
           Parsing(f, pos, list), pos = Len(Payload(f))
    PROVE  list = Expected(f)
  <1> DEFINE c == Fitting(f)
             t == FittingTail(f)
             s == aim_sizetlvchain(c)
  <1>1. s \in Nat /\ Len(Payload(f)) = s + Len(t)
    BY PayloadIs
  <1>2. ASSUME NEW j \in 0..Len(c), pos = Sizes(c)[j], list = ReadSoFar(c, j)
        PROVE  list = Expected(f)
    <2>1. CASE j = Len(c)
      <3>1. pos = s
        BY <1>2, <2>1, PlacesIn
      <3>2. t = <<>>
        <4>1. t = <<>> \/ Len(t) = 2
          BY TailIs
        <4> HIDE DEF t, s, c
        <4> QED
          BY <1>1, <3>1, <4>1
      <3> QED
        BY <1>2, <2>1, <3>2, ExpectedIs
    <2>2. CASE j # Len(c)
      <3>1. /\ Sizes(c)[j] \in Nat /\ Len(c[j + 1].value) \in Nat
            /\ Sizes(c)[j + 1] = Sizes(c)[j] + 4 + Len(c[j + 1].value)
            /\ Sizes(c)[j + 1] <= s
        BY <2>2, PlacesIn
      <3>2. Len(t) \in Nat
        BY FrameIs, LenProperties
      <3> DEFINE v == Len(c[j + 1].value)
                 x == Sizes(c)[j]
                 y == Sizes(c)[j + 1]
                 z == Len(t)
      <3>3. x \in Nat /\ v \in Nat /\ y = x + 4 + v /\ y <= s /\ s \in Nat /\ z \in Nat /\ x = s + z
        BY <1>1, <1>2, <3>1, <3>2
      <3> HIDE DEF v, x, y, z, s
      <3> QED
        BY <3>3
    <2> QED
      BY <2>1, <2>2
  <1> QED
    BY <1>2 DEF Parsing

LEMMA ParseStep ==
    ASSUME Sound, NEW f \in Frames, NEW pos, NEW list, Parsing(f, pos, list),
           Len(Payload(f)) - pos > 0, NEW r, r = ReadTlv([data |-> Payload(f), offset |-> pos])
    PROVE  /\ r.tlv # Truncated
           /\ Parsing(f, r.bs.offset, <<r.tlv>> \o list)
  <1> DEFINE P == Payload(f)
             c == Fitting(f)
             t == FittingTail(f)
             s == aim_sizetlvchain(c)
             bs == [data |-> P, offset |-> pos]
  <1>1. /\ P \in Seq(Byte) /\ Len(P) \in Nat /\ Len(P) <= Room
        /\ s \in Nat /\ Len(P) = s + Len(t)
        /\ \A i \in 1..Len(c) : Holds(P, Sizes(c)[i - 1], c[i])
        /\ \A k \in 1..Len(t) : P[s + k] = t[k]
    BY PayloadIs, SMTT(30)
  <1>2. /\ c \in Seq(Tlvs) /\ t \in Seq(Byte) /\ Len(t) \in Nat
        /\ \A i \in 1..Len(c) : c[i] \in Tlvs /\ c[i].type <= 65535
    BY FrameIs, LenProperties
  <1>3. \A i \in Nat : Truncated # Tlv(i, <<>>) /\ Truncated \notin Tlvs
    BY DEF Truncated, Tlv, Tlvs
  <1>4. bs.data = P /\ bs.offset = pos /\ r = ReadTlv(bs)
    OBVIOUS
  <1>5. ASSUME pos \in Nat, pos <= Len(P) PROVE Within(bs)
    BY <1>1, <1>5 DEF Within, Streams
  <1> HIDE DEF P, bs, s, t, c
  <1>6. pos # Len(P)
    BY <1>1 DEF P
  <1>7. PICK j \in 0..Len(c) : pos = Sizes(c)[j] /\ list = ReadSoFar(c, j)
    BY <1>6 DEF Parsing, c, P
  <1>8. CASE j # Len(c)
    <2> DEFINE tlv == c[j + 1]
               v == Len(tlv.value)
               k == j + 1
    <2>1. /\ pos \in Nat /\ v \in Nat /\ k \in 1..Len(c) /\ k \in 0..Len(c) /\ j < Len(c) /\ k - 1 = j
          /\ Sizes(c)[k] = pos + 4 + v /\ Sizes(c)[k] <= s
      BY <1>7, <1>8, PlacesIn DEF c, s
    <2>2. pos + 4 + v <= Len(P) /\ pos <= Len(P) /\ v <= 65535
      <3>1. Room <= 65535 /\ Room \in Nat
        BY BoundsAssumption DEF Sound
      <3> DEFINE z == Len(t)
                 l == Len(P)
      <3>2. z \in Nat /\ l = s + z /\ s \in Nat /\ l <= Room /\ pos + 4 + v <= s
        <4> HIDE DEF v, k
        <4>1. pos + 4 + v <= s
          BY <2>1
        <4> HIDE DEF z, l
        <4>2. l = s + z /\ l <= Room
          BY <1>1 DEF l, z
        <4>3. z \in Nat
          BY <1>2 DEF z
        <4> QED
          BY <1>1, <4>1, <4>2, <4>3
      <3> HIDE DEF z, l, v
      <3>3. pos + 4 + v <= l /\ pos <= l /\ v <= 65535
        BY <2>1, <3>1, <3>2
      <3> QED
        BY <3>3 DEF l
    <2>3. Within(bs)
      BY <1>5, <2>1, <2>2
    <2>4. tlv \in Tlvs /\ tlv.type <= 65535
      BY <1>2, <2>1
    <2>5. Holds(bs.data, bs.offset, tlv)
      BY <1>1, <1>4, <1>7, <2>1
    <2>6. r.tlv = tlv /\ r.bs.offset = pos + 4 + v
      BY <1>4, <2>2, <2>3, <2>4, <2>5, ReadsTlv
    <2>7. r.tlv # Truncated
      <3>1. 0 \in Nat
        OBVIOUS
      <3> QED
        BY <1>3, <2>4, <2>6, <3>1
    <2>8. <<r.tlv>> \o list = ReadSoFar(c, k)
      <3>1. c \in Seq(Tlvs)
        BY <1>2
      <3>2. j < Len(c)
        BY <2>1
      <3>3. <<c[j + 1]>> \o ReadSoFar(c, j) = ReadSoFar(c, j + 1)
        BY <3>1, <3>2, ReadOneMore
      <3>4. r.tlv = c[j + 1] /\ list = ReadSoFar(c, j)
        BY <1>7, <2>6
      <3> QED
        BY <3>3, <3>4
    <2>9. r.bs.offset = Sizes(c)[k]
      BY <2>1, <2>6
    <2> QED
      BY <2>1, <2>7, <2>8, <2>9 DEF Parsing, c
  <1>9. CASE j = Len(c)
    <2>1. pos = s
      BY <1>7, <1>9, PlacesIn DEF c, s
    <2>2. Len(t) = 2 /\ t # <<>>
      <3>1. (t = <<>> /\ Len(t) = 0) \/ (t # <<>> /\ Len(t) = 2)
        BY TailIs DEF t
      <3> QED
        BY <1>1, <1>6, <2>1, <3>1
    <2>3. bs.offset + 2 = Len(bs.data) /\ Within(bs)
      BY <1>1, <1>4, <1>5, <2>1, <2>2
    <2>4. P[s + 1] = t[1] /\ P[s + 2] = t[2]
      <3>1. 1 \in 1..2 /\ 2 \in 1..2
        OBVIOUS
      <3> QED
        BY <1>1, <2>2, <3>1
    <2>5. aimutil_get(t) = 256 * P[s + 1] + P[s + 2] /\ aimutil_get(t) \in Nat
      BY <1>2, <2>2, <2>4, GetNumber
    <2>6. r.tlv = Tlv(256 * P[s + 1] + P[s + 2], <<>>) /\ r.bs.offset = Len(P)
      BY <1>4, <2>1, <2>3, ReadsTail
    <2>7. r.tlv = Tlv(aimutil_get(t), <<>>) /\ r.tlv # Truncated
      BY <1>3, <2>5, <2>6
    <2>8. <<r.tlv>> \o list = Expected(f)
      BY <1>7, <1>9, <2>2, <2>7, ExpectedIs DEF c, t
    <2> QED
      BY <2>6, <2>7, <2>8 DEF Parsing, P
  <1> QED
    BY <1>8, <1>9

-----------------------------------------------------------------------------
(* Types *)

RxFields == rx = [pc |-> rx.pc, buf |-> rx.buf, need |-> rx.need,
                  seqnum |-> rx.seqnum, pos |-> rx.pos, list |-> rx.list]

TypeInv ==
    /\ TypeOK
    /\ RxFields
    /\ rx.buf \in Seq(Byte)
    /\ rx.need \in Nat

LEMMA IdleIs ==
    ASSUME rx = Idle
    PROVE  RxFields /\ rx.pc = "idle" /\ rx.buf = <<>> /\ rx.buf \in Seq(Byte) /\ rx.need = 0
           /\ Len(rx.buf) = 0 /\ Len(rx.buf) <= rx.need /\ rx.need \in Nat
  BY EmptySeq DEF Idle, RxFields

LEMMA TypeInit == Init => TypeInv
  <1> SUFFICES ASSUME Init PROVE TypeInv
    OBVIOUS
  <1>1. rx = Idle
    BY DEF Init
  <1>2. sent \in Seq(Frames) /\ out \in Seq(Byte) /\ wire \in Seq(Byte)
    BY EmptySeq DEF Init
  <1>3. {broken, isopen, nomem} \subseteq BOOLEAN
    BY DEF Init
  <1> QED
    BY <1>1, <1>2, <1>3, IdleIs DEF TypeInv, TypeOK

\* What the receiver's steps leave of the others.
LEMMA TypeOfRx ==
    ASSUME TypeInv, UNCHANGED <<sent, out, broken>>, wire' \in Seq(Byte),
           RxFields', rx'.pc \in {"idle", "header", "payload", "parse", "done"},
           rx'.buf \in Seq(Byte), rx'.need \in Nat, Len(rx'.buf) <= rx'.need,
           isopen' \in BOOLEAN, nomem' \in BOOLEAN
    PROVE  TypeInv'
  <1>1. {broken', isopen', nomem'} \subseteq BOOLEAN
    BY DEF TypeInv, TypeOK
  <1>2. sent' \in Seq(Frames)' /\ out' \in Seq(Byte)
    BY DEF TypeInv, TypeOK, Frames
  <1> QED
    BY <1>1, <1>2 DEF TypeInv, TypeOK

\* The receiver's buffer takes what the wire gives up.
LEMMA BytesAssociate ==
    ASSUME NEW x \in Seq(Byte), NEW y \in Seq(Byte), NEW z \in Seq(Byte)
    PROVE  (x \o y) \o z = x \o (y \o z)
  BY ConcatAssociative

LEMMA Moves ==
    ASSUME NEW a \in Seq(Byte), NEW w \in Seq(Byte), NEW n \in 1..Len(w)
    PROVE  /\ n \in Nat /\ n \in 0..Len(w)
           /\ a \o SubSeq(w, 1, n) \in Seq(Byte)
           /\ Len(a \o SubSeq(w, 1, n)) = Len(a) + n
           /\ SubSeq(w, n + 1, Len(w)) \in Seq(Byte)
           /\ (a \o SubSeq(w, 1, n)) \o SubSeq(w, n + 1, Len(w)) = a \o w
  <1>1. n \in Nat /\ n \in 0..Len(w)
    BY LenProperties
  <1> DEFINE x == SubSeq(w, 1, n)
             y == SubSeq(w, n + 1, Len(w))
  <1>2. x \in Seq(Byte) /\ y \in Seq(Byte) /\ Len(x) = n /\ w = x \o y
    BY <1>1, Split
  <1> HIDE DEF x, y
  <1>7. x \in Seq(Byte) /\ y \in Seq(Byte)
    BY <1>2
  <1>3. a \o x \in Seq(Byte) /\ Len(a \o x) = Len(a) + Len(x)
    BY <1>7, Joined
  <1>4. (a \o x) \o y = a \o (x \o y)
    BY <1>7, BytesAssociate
  <1>5. (a \o x) \o y = a \o w
    BY <1>2, <1>4
  <1>6. Len(a \o x) = Len(a) + n
    BY <1>2, <1>3
  <1> QED
    BY <1>1, <1>2, <1>3, <1>5, <1>6 DEF x, y

LEMMA TypeSends ==
    ASSUME TypeInv,
           \/ \E f \in Frames : aim_tx_enqueue(f)
           \/ Sends
           \/ \E how \in Failures : SendFails(how)
    PROVE  TypeInv'
  <1>1. /\ sent \in Seq(Frames) /\ out \in Seq(Byte) /\ wire \in Seq(Byte)
        /\ broken \in BOOLEAN /\ isopen \in BOOLEAN /\ nomem \in BOOLEAN
    BY DEF TypeInv, TypeOK
  <1>2. /\ sent' \in Seq(Frames) /\ out' \in Seq(Byte) /\ wire' \in Seq(Byte)
        /\ broken' \in BOOLEAN /\ UNCHANGED <<rx, isopen, nomem>>
    <2>1. ASSUME NEW f \in Frames, aim_tx_enqueue(f)
          PROVE  /\ sent' \in Seq(Frames) /\ out' \in Seq(Byte) /\ wire' \in Seq(Byte)
                 /\ broken' \in BOOLEAN /\ UNCHANGED <<rx, isopen, nomem>>
      <3>1. sent' = Append(sent, f) /\ out' = sendframe_flap(f, Len(sent'))
            /\ UNCHANGED <<wire, broken, rx, isopen, nomem>>
        BY <2>1 DEF aim_tx_enqueue, rxVars
      <3>2. sent' \in Seq(Frames)
        BY <1>1, <3>1, AppendProperties
      <3>3. Len(sent') \in Nat
        BY <3>2, LenProperties
      <3>4. out' \in Seq(Byte)
        BY <3>1, <3>3, FlapIs
      <3> QED
        BY <1>1, <3>1, <3>2, <3>4
    <2>2. ASSUME NEW n \in 1..Len(out), aim_send(n)
          PROVE  /\ sent' \in Seq(Frames) /\ out' \in Seq(Byte) /\ wire' \in Seq(Byte)
                 /\ broken' \in BOOLEAN /\ UNCHANGED <<rx, isopen, nomem>>
      <3>1. wire' = wire \o SubSeq(out, 1, n) /\ out' = SubSeq(out, n + 1, Len(out))
            /\ UNCHANGED <<sent, broken, rx, isopen, nomem>>
        BY <2>2 DEF aim_send, rxVars
      <3>2. wire' \in Seq(Byte) /\ out' \in Seq(Byte)
        BY <1>1, <3>1, Moves
      <3> QED
        BY <1>1, <3>1, <3>2
    <2>3. ASSUME NEW how \in Failures, SendFails(how)
          PROVE  /\ sent' \in Seq(Frames) /\ out' \in Seq(Byte) /\ wire' \in Seq(Byte)
                 /\ broken' \in BOOLEAN /\ UNCHANGED <<rx, isopen, nomem>>
      <3>1. broken' = (how = "reset") /\ out' = <<>> /\ UNCHANGED <<sent, wire, rx, isopen, nomem>>
        BY <2>3 DEF SendFails, rxVars
      <3>2. broken' \in BOOLEAN
        BY <3>1
      <3> QED
        BY <1>1, <3>1, <3>2, EmptySeq
    <2> QED
      BY <2>1, <2>2, <2>3 DEF Sends
  <1>3. {broken', isopen', nomem'} \subseteq BOOLEAN
    BY <1>1, <1>2
  <1>4. RxFields' /\ rx'.buf \in Seq(Byte) /\ rx'.need \in Nat /\ Len(rx'.buf) <= rx'.need
        /\ rx'.pc \in {"idle", "header", "payload", "parse", "done"}
    BY <1>2 DEF TypeInv, TypeOK, RxFields
  <1> QED
    BY <1>2, <1>3, <1>4 DEF TypeInv, TypeOK

LEMMA CloseIs ==
    ASSUME TypeInv, aim_conn_close
    PROVE  TypeInv'
  <1>1. rx' = Idle /\ isopen' = FALSE /\ UNCHANGED <<sent, out, wire, broken, nomem, parsed>>
    BY DEF aim_conn_close, txVars
  <1>2. RxFields' /\ rx'.pc = "idle" /\ rx'.buf \in Seq(Byte) /\ rx'.need \in Nat /\ Len(rx'.buf) <= rx'.need
    BY <1>1, EmptySeq DEF Idle, RxFields
  <1>3. wire \in Seq(Byte) /\ nomem \in BOOLEAN
    BY DEF TypeInv, TypeOK
  <1> QED
    BY <1>1, <1>2, <1>3, TypeOfRx

LEMMA HeaderReadIs ==
    ASSUME rx.buf \in Seq(Byte), Len(rx.buf) = 6, NEW h, h = HeaderRead
    PROVE  /\ h = [pc |-> IF h.need = 0 THEN "parse" ELSE "payload", buf |-> <<>>, need |-> h.need,
                   seqnum |-> h.seqnum, pos |-> 0, list |-> <<>>]
           /\ h.need = 256 * rx.buf[5] + rx.buf[6] /\ h.need \in Nat
           /\ h.seqnum = 256 * rx.buf[3] + rx.buf[4]
  <1> DEFINE len == aimutil_get(SubSeq(rx.buf, 5, 6))
             num == aimutil_get(SubSeq(rx.buf, 3, 4))
  <1>1. 2 \in Nat /\ 4 \in Nat /\ 3 = 2 + 1 /\ 4 = 2 + 2 /\ 5 = 4 + 1 /\ 6 = 4 + 2 /\ 4 <= 6 /\ 6 <= 6
    OBVIOUS
  <1> DEFINE buf == rx.buf
  <1> HIDE DEF buf
  <1>2. \A k \in Nat : \A m, n : m = k + 1 /\ n = k + 2 /\ n <= Len(buf) =>
            /\ aimutil_get(SubSeq(buf, m, n)) = 256 * buf[m] + buf[n]
            /\ aimutil_get(SubSeq(buf, m, n)) \in Nat
    BY HeaderField DEF buf
  <1>3. num = 256 * buf[3] + buf[4] /\ len = 256 * buf[5] + buf[6] /\ len \in Nat
    <2>1. Len(buf) = 6
      BY DEF buf
    <2>2. num = aimutil_get(SubSeq(buf, 3, 4)) /\ len = aimutil_get(SubSeq(buf, 5, 6))
      BY DEF buf
    <2> HIDE DEF num, len
    <2> DEFINE k2 == 2
               k3 == 3
               k4 == 4
               k5 == 5
               k6 == 6
    <2>4. /\ k2 \in Nat /\ k3 = k2 + 1 /\ k4 = k2 + 2 /\ k4 <= Len(buf)
          /\ k4 \in Nat /\ k5 = k4 + 1 /\ k6 = k4 + 2 /\ k6 <= Len(buf)
      BY <2>1
    <2> HIDE DEF k2, k3, k4, k5, k6
    <2>5. /\ aimutil_get(SubSeq(buf, k3, k4)) = 256 * buf[k3] + buf[k4]
          /\ aimutil_get(SubSeq(buf, k5, k6)) = 256 * buf[k5] + buf[k6]
          /\ aimutil_get(SubSeq(buf, k5, k6)) \in Nat
      BY <1>2, <2>4, SMTT(30)
    <2>3. /\ aimutil_get(SubSeq(buf, 3, 4)) = 256 * buf[3] + buf[4]
          /\ aimutil_get(SubSeq(buf, 5, 6)) = 256 * buf[5] + buf[6]
          /\ aimutil_get(SubSeq(buf, 5, 6)) \in Nat
      BY <2>5 DEF k3, k4, k5, k6
    <2> QED
      BY <2>2, <2>3
  <1> HIDE DEF len, num
  <1>4. h = [pc |-> IF len = 0 THEN "parse" ELSE "payload", buf |-> <<>>, need |-> len,
             seqnum |-> num, pos |-> 0, list |-> <<>>]
    BY DEF HeaderRead, Idle, len, num
  <1>5. h.need = len /\ h.seqnum = num
    BY <1>4
  <1> QED
    BY <1>3, <1>4, <1>5 DEF buf

LEMMA TypeReceives ==
    ASSUME TypeInv, Receives \/ NoMemory
    PROVE  TypeInv'
  <1>1. /\ wire \in Seq(Byte) /\ isopen \in BOOLEAN /\ nomem \in BOOLEAN
        /\ rx.buf \in Seq(Byte) /\ rx.need \in Nat /\ Len(rx.buf) <= rx.need /\ RxFields
        /\ rx.pc \in {"idle", "header", "payload", "parse", "done"}
    BY DEF TypeInv, TypeOK
  <1>2. CASE aim_get_command
    <2>1. rx' = [Idle EXCEPT !.pc = "header", !.need = 6]
          /\ UNCHANGED <<sent, out, wire, broken, isopen, nomem>>
      BY <1>2 DEF aim_get_command, txVars
    <2>2. RxFields' /\ rx'.pc = "header" /\ rx'.buf = <<>> /\ rx'.need = 6
      BY <2>1 DEF Idle, RxFields
    <2>3. rx'.buf \in Seq(Byte) /\ Len(rx'.buf) <= rx'.need /\ rx'.need \in Nat
      BY <2>2, EmptySeq
    <2> QED
      BY <1>1, <2>1, <2>2, <2>3, TypeOfRx
  <1>3. ASSUME NEW n \in 1..Len(wire), aim_recv(n) PROVE TypeInv'
    <2>1. /\ Len(rx.buf) + n <= rx.need
          /\ rx' = [rx EXCEPT !.buf = @ \o SubSeq(wire, 1, n)]
          /\ wire' = SubSeq(wire, n + 1, Len(wire))
          /\ UNCHANGED <<sent, out, broken, isopen, nomem>>
      BY <1>3 DEF aim_recv, txVars
    <2>2. /\ rx.buf \o SubSeq(wire, 1, n) \in Seq(Byte)
          /\ Len(rx.buf \o SubSeq(wire, 1, n)) = Len(rx.buf) + n
          /\ wire' \in Seq(Byte)
      BY <1>1, <2>1, Moves
    <2>3. RxFields' /\ rx'.pc = rx.pc /\ rx'.buf = rx.buf \o SubSeq(wire, 1, n) /\ rx'.need = rx.need
      BY <1>1, <2>1 DEF RxFields
    <2> QED
      BY <1>1, <2>1, <2>2, <2>3, TypeOfRx
  <1>4. CASE RecvFails
    BY <1>4, CloseIs DEF RecvFails
  <1>5. CASE GotHeader
    <2>1. CASE Head(rx.buf) # 42
      BY <1>5, <2>1, CloseIs DEF GotHeader
    <2>2. CASE Head(rx.buf) = 42
      <3>1. rx' = HeaderRead /\ Len(rx.buf) = 6 /\ UNCHANGED <<sent, out, wire, broken, isopen, nomem>>
        BY <1>5, <2>2 DEF GotHeader, txVars
      <3>2. /\ rx' = [pc |-> IF rx'.need = 0 THEN "parse" ELSE "payload", buf |-> <<>>, need |-> rx'.need,
                      seqnum |-> rx'.seqnum, pos |-> 0, list |-> <<>>]
            /\ rx'.need \in Nat
        BY <1>1, <3>1, HeaderReadIs
      <3>3. RxFields' /\ rx'.pc \in {"parse", "payload"} /\ rx'.buf = <<>>
        BY <3>2 DEF RxFields
      <3>4. rx'.buf \in Seq(Byte) /\ Len(rx'.buf) = 0
        BY <3>3, EmptySeq
      <3>5. Len(rx'.buf) <= rx'.need
        BY <3>2, <3>4
      <3> QED
        BY <1>1, <3>1, <3>2, <3>3, <3>4, <3>5, TypeOfRx
    <2> QED
      BY <2>1, <2>2
  <1>6. ASSUME rx' = Idle, UNCHANGED <<sent, out, wire, broken, isopen>>, nomem' \in BOOLEAN PROVE TypeInv'
    <2>1. RxFields' /\ rx'.pc = "idle" /\ rx'.buf \in Seq(Byte) /\ rx'.need \in Nat /\ Len(rx'.buf) <= rx'.need
      BY <1>6, EmptySeq DEF Idle, RxFields
    <2> QED
      BY <1>1, <1>6, <2>1, TypeOfRx
  <1>7. ASSUME NEW pc, rx' = [rx EXCEPT !.pc = pc], pc \in {"parse", "done"},
               UNCHANGED <<sent, out, wire, broken, isopen, nomem>>
        PROVE  TypeInv'
    <2>1. RxFields' /\ rx'.pc = pc /\ rx'.buf = rx.buf /\ rx'.need = rx.need
      BY <1>1, <1>7 DEF RxFields
    <2> QED
      BY <1>1, <1>7, <2>1, TypeOfRx
  <1>8. CASE GotPayload
    BY <1>7, <1>8 DEF GotPayload, txVars
  <1>9. CASE aim_readtlvchain_turn
    <2>1. PICK r : r = ReadTlv(Stream)
      OBVIOUS
    <2>2. /\ rx' = IF r.tlv = Truncated
                   THEN [rx EXCEPT !.pc = "done", !.list = <<>>]
                   ELSE [rx EXCEPT !.pos = r.bs.offset, !.list = <<r.tlv>> \o @]
          /\ UNCHANGED <<sent, out, wire, broken, isopen, nomem>>
      BY <1>9, <2>1 DEF aim_readtlvchain_turn, txVars
    <2>3. RxFields' /\ rx'.pc \in {rx.pc, "done"} /\ rx'.buf = rx.buf /\ rx'.need = rx.need
      BY <1>1, <2>2 DEF RxFields
    <2>4. rx'.pc \in {"idle", "header", "payload", "parse", "done"}
      BY <1>1, <2>3
    <2> QED
      BY <1>1, <2>2, <2>3, <2>4, TypeOfRx
  <1>10. CASE ChainRead
    BY <1>1, <1>6, <1>10 DEF ChainRead, txVars
  <1>11. CASE NoMemory
    BY <1>6, <1>11 DEF NoMemory, txVars
  <1> QED
    BY <1>2, <1>3, <1>4, <1>5, <1>8, <1>9, <1>10, <1>11 DEF Receives

LEMMA TypeStep == TypeInv /\ [Next]_vars => TypeInv'
  <1> SUFFICES ASSUME TypeInv, [Next]_vars PROVE TypeInv'
    OBVIOUS
  <1>1. CASE UNCHANGED vars
    BY <1>1 DEF vars, txVars, rxVars, TypeInv, TypeOK, RxFields, Frames
  <1>2. CASE Next
    BY <1>2, TypeSends, TypeReceives DEF Next
  <1> QED
    BY <1>1, <1>2

\* Every variable of the two ends has its type, and no recv() asks for more than is left
\* of the header or the payload that is being read (aim_recv in rxqueue.c).
THEOREM TypeCorrect == Spec => []TypeOK
  <1>1. TypeInv => TypeOK
    BY DEF TypeInv
  <1> QED
    BY <1>1, TypeInit, TypeStep, PTL DEF Spec

-----------------------------------------------------------------------------
(* The bytes of the frames that were sent *)

PiecesOf(s) == [i \in 1..Len(s) |-> sendframe_flap(s[i], i)]

\* Where the frame m begins, and all of them.
Begin(s, m) == Len(Joins(PiecesOf(s))[m - 1])
All(s) == Joins(PiecesOf(s))[Len(s)]

LEMMA PiecesAre ==
    ASSUME NEW s \in Seq(Frames)
    PROVE  /\ PiecesOf(s) \in Seq(Seq(Byte)) /\ Len(PiecesOf(s)) = Len(s) /\ Len(s) \in Nat
           /\ \A i \in 1..Len(s) : /\ PiecesOf(s)[i] = sendframe_flap(s[i], i)
                                   /\ s[i] \in Frames /\ i \in Nat
  <1>1. Len(s) \in Nat /\ \A i \in 1..Len(s) : s[i] \in Frames /\ i \in Nat
    BY LenProperties, ElementOfSeq
  <1>2. \A i \in 1..Len(s) : sendframe_flap(s[i], i) \in Seq(Byte)
    BY <1>1, FlapIs
  <1> DEFINE B == Seq(Byte)
  <1> HIDE DEF B
  <1>3. PiecesOf(s) \in [1..Len(s) -> B]
    BY <1>2 DEF PiecesOf, B
  <1>4. PiecesOf(s) \in Seq(B) /\ Len(PiecesOf(s)) = Len(s)
    BY <1>1, <1>3
  <1> QED
    BY <1>1, <1>4 DEF PiecesOf, B

LEMMA AllIs ==
    ASSUME NEW s \in Seq(Frames)
    PROVE  /\ All(s) \in Seq(Byte) /\ Len(All(s)) \in Nat
           /\ Begin(s, 1) = 0 /\ Begin(s, Len(s) + 1) = Len(All(s))
           /\ \A m \in 1..(Len(s) + 1) : Begin(s, m) \in Nat /\ Begin(s, m) <= Len(All(s))
  <1> DEFINE J == Joins(PiecesOf(s))
             n == Len(s)
  <1>1. n \in Nat /\ J \in [0..n -> Seq(Byte)] /\ J[0] = <<>> /\ PiecesOf(s) \in Seq(Seq(Byte))
        /\ Len(PiecesOf(s)) = n
    BY PiecesAre, JoinsAre
  <1>2. n \in 0..n /\ 1 - 1 = 0 /\ n + 1 - 1 = n
    BY <1>1
  <1>3. All(s) \in Seq(Byte) /\ Len(All(s)) \in Nat
    BY <1>1, <1>2, LenProperties DEF All
  <1>4. Begin(s, 1) = 0 /\ Begin(s, n + 1) = Len(All(s))
    BY <1>1, <1>2, EmptySeq DEF Begin, All
  <1>5. ASSUME NEW m \in 1..(n + 1) PROVE Begin(s, m) \in Nat /\ Begin(s, m) <= Len(All(s))
    <2>1. m - 1 \in 0..n /\ m - 1 <= n
      BY <1>1
    <2>2. Len(J[m - 1]) \in Nat
      BY <1>1, <2>1, LenProperties
    <2>3. Len(J[m - 1]) <= Len(J[n])
      BY <1>1, <1>2, <2>1, JoinsGrow
    <2> QED
      BY <2>2, <2>3 DEF Begin, All
  <1> QED
    BY <1>3, <1>4, <1>5

\* What stands where a frame begins, and where the next one does.
LEMMA BeginIs ==
    ASSUME NEW s \in Seq(Frames), NEW m \in 1..Len(s), NEW P, P = Payload(s[m])
    PROVE  /\ s[m] \in Frames /\ m \in Nat /\ m \in 1..(Len(s) + 1) /\ m + 1 \in 1..(Len(s) + 1)
           /\ P \in Seq(Byte) /\ Len(P) \in Nat /\ Len(P) <= Room
           /\ Begin(s, m) \in Nat
           /\ Begin(s, m + 1) = Begin(s, m) + 6 + Len(P)
           /\ Begin(s, m + 1) <= Len(All(s))
           /\ All(s)[Begin(s, m) + 1] = 42
           /\ m <= 65535 => 256 * All(s)[Begin(s, m) + 3] + All(s)[Begin(s, m) + 4] = m
           /\ Len(P) <= 65535 => 256 * All(s)[Begin(s, m) + 5] + All(s)[Begin(s, m) + 6] = Len(P)
           /\ \A k \in 1..Len(P) : All(s)[Begin(s, m) + (6 + k)] = P[k]
  <1> DEFINE p == PiecesOf(s)
             o == Begin(s, m)
             a == All(s)
             b == p[m]
  <1>1. p \in Seq(Seq(Byte)) /\ Len(p) = Len(s) /\ Len(s) \in Nat /\ s[m] \in Frames /\ m \in Nat
        /\ b = sendframe_flap(s[m], m)
    BY PiecesAre
  <1>2. m \in 1..(Len(s) + 1) /\ m + 1 \in 1..(Len(s) + 1) /\ m + 1 - 1 = m
    BY <1>1
  <1>3. P \in Seq(Byte) /\ Len(P) \in Nat /\ Len(P) <= Room
    BY <1>1, PayloadIs
  <1>4. /\ Len(b) = 6 + Len(P)
        /\ b[1] = 42
        /\ m <= 65535 => 256 * b[3] + b[4] = m
        /\ Len(P) <= 65535 => 256 * b[5] + b[6] = Len(P)
        /\ \A k \in 1..Len(P) : b[6 + k] = P[k]
    <2> DEFINE f == s[m]
    <2>1. f \in Frames /\ m \in Nat /\ P = Payload(f) /\ b = sendframe_flap(f, m)
      BY <1>1
    <2> HIDE DEF f, b
    <2>2. FlapOf(b, P, m)
      BY <2>1, FlapIs
    <2> QED
      BY <2>2 DEF FlapOf
  <1>5. /\ o \in Nat
        /\ Begin(s, m + 1) = o + Len(b)
        /\ Begin(s, m + 1) <= Len(a)
        /\ \A q \in 1..Len(b) : a[o + q] = b[q]
    <2>1. a = Joins(p)[Len(p)] /\ m \in 1..Len(p)
      BY <1>1 DEF All
    <2>2. /\ Len(Joins(p)[m - 1]) \in Nat
          /\ Len(Joins(p)[m]) = Len(Joins(p)[m - 1]) + Len(p[m])
          /\ Len(Joins(p)[m]) <= Len(a)
          /\ \A q \in 1..Len(p[m]) : a[Len(Joins(p)[m - 1]) + q] = p[m][q]
      <3>1. p \in Seq(Seq(Byte))
        BY <1>1
      <3> HIDE DEF p, a
      <3>2. Held(Joins(p)[m - 1], Joins(p)[m], p[m], a)
        BY <2>1, <3>1, JoinsHold
      <3> QED
        BY <3>2 DEF Held
    <2>3. o = Len(Joins(p)[m - 1]) /\ Begin(s, m + 1) = Len(Joins(p)[m])
      BY <1>2 DEF Begin
    <2> HIDE DEF p, o, a
    <2> QED
      BY <2>2, <2>3
  <1> HIDE DEF b, o, a, p
  <1>6. /\ 1 \in 1..Len(b) /\ 3 \in 1..Len(b) /\ 4 \in 1..Len(b) /\ 5 \in 1..Len(b) /\ 6 \in 1..Len(b)
        /\ \A k \in 1..Len(P) : 6 + k \in 1..Len(b)
        /\ o + Len(b) = o + 6 + Len(P)
    <2>1. Len(b) = 6 + Len(P)
      BY <1>4
    <2> QED
      BY <1>3, <1>5, <2>1
  <1>7. a[o + 1] = b[1] /\ a[o + 3] = b[3] /\ a[o + 4] = b[4] /\ a[o + 5] = b[5] /\ a[o + 6] = b[6]
    BY <1>5, <1>6
  <1>8. ASSUME NEW k \in 1..Len(P) PROVE a[o + (6 + k)] = P[k]
    <2>1. b[6 + k] = P[k]
      BY <1>4
    <2>2. 6 + k \in 1..Len(b)
      BY <1>6
    <2> DEFINE h == 6 + k
    <2> HIDE DEF h
    <2>3. \A i \in 1..Len(b) : a[o + i] = b[i]
      BY <1>5
    <2>4. a[o + h] = b[h]
      BY <2>2, <2>3 DEF h
    <2> QED
      BY <2>1, <2>4 DEF h
  <1> QED
    BY <1>1, <1>2, <1>3, <1>4, <1>5, <1>6, <1>7, <1>8 DEF o, a

\* One frame more: the others stay where they are.
LEMMA SentMore ==
    ASSUME NEW s \in Seq(Frames), NEW f \in Frames, NEW t, t = Append(s, f),
           NEW b, b = sendframe_flap(f, Len(t))
    PROVE  /\ t \in Seq(Frames) /\ Len(t) = Len(s) + 1 /\ Len(s) \in Nat
           /\ \A m \in 1..Len(s) : t[m] = s[m] /\ m \in 1..Len(t)
           /\ b \in Seq(Byte)
           /\ All(t) = All(s) \o b
           /\ \A m \in 1..(Len(s) + 1) : Begin(t, m) = Begin(s, m) /\ m \in 1..(Len(t) + 1)
  <1> DEFINE n == Len(s)
             p == PiecesOf(s)
             q == PiecesOf(t)
  <1>1. t \in Seq(Frames) /\ Len(t) = n + 1 /\ n \in Nat /\ t[n + 1] = f /\ \A m \in 1..n : t[m] = s[m]
    BY AppendProperties, LenProperties
  <1>2. n + 1 \in Nat /\ n + 1 \in 1..(n + 1) /\ \A m \in 1..n : m \in 1..(n + 1)
    BY <1>1
  <1>3. b \in Seq(Byte)
    BY <1>1, <1>2, FlapIs
  <1>4. /\ p \in Seq(Seq(Byte)) /\ Len(p) = n /\ \A i \in 1..n : p[i] = sendframe_flap(s[i], i)
    BY PiecesAre
  <1>5. /\ q \in Seq(Seq(Byte)) /\ Len(q) = n + 1 /\ \A i \in 1..(n + 1) : q[i] = sendframe_flap(t[i], i)
    BY <1>1, PiecesAre
  <1>6. q = Append(p, b)
    <2> DEFINE u == Append(p, b)
    <2>1. u \in Seq(Seq(Byte)) /\ Len(u) = n + 1 /\ u[n + 1] = b /\ \A i \in 1..n : u[i] = p[i]
      BY <1>3, <1>4, AppendProperties
    <2> HIDE DEF u, p, q
    <2>2. ASSUME NEW i \in 1..(n + 1) PROVE q[i] = u[i]
      <3>1. CASE i = n + 1
        BY <1>1, <1>2, <1>5, <2>1, <3>1
      <3>2. CASE i # n + 1
        <4>1. i \in 1..n
          BY <1>1, <3>2
        <4> QED
          BY <1>1, <1>4, <1>5, <2>1, <4>1
      <3> QED
        BY <3>1, <3>2
    <2> QED
      BY <1>5, <2>1, <2>2, SeqEqual DEF u
  <1>7. /\ \A k \in 0..n : Joins(q)[k] = Joins(p)[k]
        /\ Joins(q)[n + 1] = Joins(p)[n] \o b
    <2>1. p \in Seq(Seq(Byte)) /\ Len(p) = n
      BY <1>4
    <2> HIDE DEF p, q
    <2>2. OneMore(Joins(p), Joins(q), Len(p), b)
      BY <1>3, <1>6, <2>1, JoinsAppend
    <2> QED
      BY <2>1, <2>2 DEF OneMore
  <1>8. All(t) = All(s) \o b
    BY <1>1, <1>7 DEF All
  <1>9. ASSUME NEW m \in 1..(n + 1) PROVE Begin(t, m) = Begin(s, m) /\ m \in 1..(n + 1 + 1)
    <2>1. m - 1 \in 0..n /\ m \in 1..(n + 1 + 1)
      BY <1>1
    <2> QED
      BY <1>7, <2>1 DEF Begin
  <1> QED
    BY <1>1, <1>2, <1>3, <1>8, <1>9

-----------------------------------------------------------------------------
(* The inductive invariant *)

\* The bytes the receiver has not dealt with: its buffer, those in flight, and those
\* that are still to be sent.
Left == IF broken THEN <<>> ELSE out
Coming == rx.buf \o (wire \o Left)

\* What may have been read: the chain of a frame that was sent, as it should be.
Reads == {[seqnum |-> i, list |-> Expected(sent[i])] : i \in 1..Len(sent)}
Ordered == \A i \in 1..Len(parsed) : \A j \in 1..(i - 1) : parsed[j].seqnum < parsed[i].seqnum
ParsedBefore(m) == \A i \in 1..Len(parsed) : parsed[i].seqnum < m

Waiting ==
    \/ rx.pc = "idle" /\ rx.buf = <<>>
    \/ rx.pc = "header" /\ rx.need = 6

Closed == ~isopen /\ rx = Idle

\* The receiver lost its place, and will not take what is next for a header.
Stranded ==
    /\ Waiting
    /\ Coming = <<>> => broken
    /\ Coming # <<>> => Coming[1] # 42

\* The next header is that of the frame m.
Between(m) ==
    /\ Waiting
    /\ Follows(Coming, All(sent), Begin(sent, m), ~broken)
    /\ ParsedBefore(m)

\* The header of the frame m was read: its payload is being read, or was.
InFrame(m) ==
    /\ m <= Len(sent)
    /\ rx.need = Len(Payload(sent[m]))
    /\ rx.seqnum = m
    /\ Follows(Coming, All(sent), Begin(sent, m) + 6, ~broken)
    /\ ParsedBefore(m)
    /\ \/ rx.pc = "payload" /\ rx.pos = 0 /\ rx.list = <<>>
       \/ rx.pc = "parse" /\ Len(rx.buf) = rx.need /\ Parsing(sent[m], rx.pos, rx.list)

Tracks == Closed \/ Stranded \/ \E m \in 1..(Len(sent) + 1) : Between(m) \/ InFrame(m)

WireInv ==
    /\ TypeInv
    /\ Len(sent) <= MaxFrames
    /\ parsed \in Seq(Reads)
    /\ Ordered
    /\ Tracks

LEMMA Regroup ==
    ASSUME NEW a \in Seq(Byte), NEW b \in Seq(Byte), NEW c \in Seq(Byte)
    PROVE  (a \o b) \o c = a \o (b \o c)
  BY ConcatAssociative

LEMMA StateIs ==
    ASSUME WireInv
    PROVE  /\ sent \in Seq(Frames) /\ out \in Seq(Byte) /\ wire \in Seq(Byte) /\ rx.buf \in Seq(Byte)
           /\ Left \in Seq(Byte) /\ wire \o Left \in Seq(Byte) /\ rx.buf \o wire \in Seq(Byte)
           /\ Coming \in Seq(Byte)
           /\ Coming = (rx.buf \o wire) \o Left
  <1>1. sent \in Seq(Frames) /\ out \in Seq(Byte) /\ wire \in Seq(Byte) /\ rx.buf \in Seq(Byte)
    BY DEF WireInv, TypeInv, TypeOK
  <1>2. Left \in Seq(Byte)
    BY <1>1, EmptySeq DEF Left
  <1>3. wire \o Left \in Seq(Byte) /\ rx.buf \o wire \in Seq(Byte)
    BY <1>1, <1>2, ConcatProperties
  <1>4. Coming \in Seq(Byte)
    BY <1>1, <1>3, ConcatProperties DEF Coming
  <1>5. Coming = (rx.buf \o wire) \o Left
    <2> DEFINE b == rx.buf
               l == Left
    <2>1. b \in Seq(Byte) /\ wire \in Seq(Byte) /\ l \in Seq(Byte) /\ Coming = b \o (wire \o l)
      BY <1>1, <1>2 DEF Coming
    <2> HIDE DEF b, l
    <2>2. (b \o wire) \o l = b \o (wire \o l)
      BY <2>1, Regroup
    <2> QED
      BY <2>1, <2>2 DEF b, l
  <1> QED
    BY <1>1, <1>2, <1>3, <1>4, <1>5

LEMMA Rebuilds ==
    ASSUME WireInv, TypeInv', UNCHANGED <<sent, parsed>>, Tracks'
    PROVE  WireInv'
  BY DEF WireInv, Reads, Ordered

\* Bytes move from the sender to the wire, and from there to the receiver's buffer: what
\* is to come is the same.
LEMMA Stays ==
    ASSUME WireInv, TypeInv', UNCHANGED <<sent, parsed, broken, isopen>>, Coming' = Coming,
           rx' = rx \/ ~Closed,
           Waiting => Waiting',
           rx.pc # "idle" => /\ rx' = [rx EXCEPT !.buf = rx'.buf]
                             /\ rx.pc = "parse" => rx'.buf = rx.buf
    PROVE  WireInv'
  <1>1. CASE Closed
    BY <1>1, Rebuilds DEF Closed, Tracks
  <1>2. CASE Stranded
    BY <1>2, Rebuilds DEF Stranded, Tracks
  <1>3. ASSUME NEW m \in 1..(Len(sent) + 1), Between(m) PROVE Between(m)'
    BY <1>3 DEF Between, ParsedBefore
  <1>4. ASSUME NEW m \in 1..(Len(sent) + 1), InFrame(m) PROVE InFrame(m)'
    <2>1. rx.pc # "idle" /\ RxFields
      BY <1>4 DEF InFrame, WireInv, TypeInv
    <2>2. /\ rx'.pc = rx.pc /\ rx'.need = rx.need /\ rx'.seqnum = rx.seqnum
          /\ rx'.pos = rx.pos /\ rx'.list = rx.list
          /\ rx.pc = "parse" => rx'.buf = rx.buf
      BY <2>1 DEF RxFields
    <2> QED
      BY <1>4, <2>2 DEF InFrame, ParsedBefore
  <1>5. CASE \E m \in 1..(Len(sent) + 1) : Between(m) \/ InFrame(m)
    BY <1>3, <1>4, <1>5, Rebuilds DEF Tracks
  <1> QED
    BY <1>1, <1>2, <1>5 DEF WireInv, Tracks

LEMMA SendStep ==
    ASSUME WireInv, TypeInv', NEW n \in 1..Len(out), aim_send(n)
    PROVE  WireInv'
  <1>1. /\ ~broken /\ wire' = wire \o SubSeq(out, 1, n) /\ out' = SubSeq(out, n + 1, Len(out))
        /\ UNCHANGED <<sent, broken, rx, isopen, nomem, parsed>>
    BY DEF aim_send, rxVars
  <1>2. wire \in Seq(Byte) /\ out \in Seq(Byte)
    BY StateIs
  <1>3. Left = out /\ Left' = out'
    BY <1>1 DEF Left
  <1>4. wire' \o out' = wire \o out
    BY <1>1, <1>2, Moves
  <1>5. Coming' = Coming
    BY <1>1, <1>3, <1>4 DEF Coming
  <1>6. Waiting => Waiting'
    BY <1>1 DEF Waiting
  <1>7. rx = [rx EXCEPT !.buf = rx.buf]
    BY DEF WireInv, TypeInv, RxFields
  <1> QED
    BY <1>1, <1>5, <1>6, <1>7, Stays

LEMMA RecvStep ==
    ASSUME WireInv, TypeInv', NEW n \in 1..Len(wire), aim_recv(n)
    PROVE  WireInv'
  <1>1. /\ rx.pc \in {"header", "payload"}
        /\ rx' = [rx EXCEPT !.buf = @ \o SubSeq(wire, 1, n)]
        /\ wire' = SubSeq(wire, n + 1, Len(wire))
        /\ UNCHANGED <<sent, out, broken, isopen, nomem, parsed>>
    BY DEF aim_recv, txVars
  <1>2. wire \in Seq(Byte) /\ rx.buf \in Seq(Byte) /\ RxFields /\ out \in Seq(Byte) /\ Left \in Seq(Byte)
    BY StateIs DEF WireInv, TypeInv
  <1>3. /\ rx'.buf = rx.buf \o SubSeq(wire, 1, n) /\ rx'.pc = rx.pc /\ rx'.need = rx.need
        /\ rx' = [rx EXCEPT !.buf = rx'.buf]
    BY <1>1, <1>2 DEF RxFields
  <1>4. rx'.buf \o wire' = rx.buf \o wire /\ rx'.buf \in Seq(Byte) /\ wire' \in Seq(Byte)
    <2> DEFINE a == rx.buf
               b == rx'.buf
               w == wire'
    <2>1. a \in Seq(Byte) /\ wire \in Seq(Byte) /\ b = a \o SubSeq(wire, 1, n) /\ w = SubSeq(wire, n + 1, Len(wire))
      BY <1>1, <1>2, <1>3
    <2> HIDE DEF a, b, w
    <2>2. b \o w = a \o wire /\ b \in Seq(Byte) /\ w \in Seq(Byte)
      BY <2>1, Moves
    <2> QED
      BY <2>2 DEF a, b, w
  <1>5. Left' = Left
    BY <1>1 DEF Left
  <1>6. Coming' = Coming
    <2>1. Coming' = rx'.buf \o (wire' \o Left)
      BY <1>5 DEF Coming
    <2>2. (rx'.buf \o wire') \o Left = rx'.buf \o (wire' \o Left)
      <3> DEFINE b == rx'.buf
                 w == wire'
                 l == Left
      <3>1. b \in Seq(Byte) /\ w \in Seq(Byte) /\ l \in Seq(Byte)
        BY <1>2, <1>4
      <3> HIDE DEF b, w, l
      <3>2. (b \o w) \o l = b \o (w \o l)
        BY <3>1, Regroup
      <3> QED
        BY <3>2 DEF b, w, l
    <2>3. Coming = (rx.buf \o wire) \o Left
      BY StateIs
    <2> QED
      BY <1>4, <2>1, <2>2, <2>3
  <1>7. Waiting => Waiting'
    BY <1>1, <1>3 DEF Waiting
  <1>8. ~Closed
    BY <1>1 DEF Closed, Idle
  <1> QED
    BY <1>1, <1>3, <1>6, <1>7, <1>8, Stays

LEMMA GetCommandStep ==
    ASSUME WireInv, TypeInv', aim_get_command
    PROVE  WireInv'
  <1>1. /\ isopen /\ rx.pc = "idle"
        /\ rx' = [Idle EXCEPT !.pc = "header", !.need = 6]
        /\ UNCHANGED <<sent, out, wire, broken, isopen, nomem, parsed>>
    BY DEF aim_get_command, txVars
  <1>2. rx'.pc = "header" /\ rx'.need = 6 /\ rx'.buf = <<>>
    BY <1>1 DEF Idle
  <1>3. ~Closed /\ \A m : ~InFrame(m)
    BY <1>1 DEF Closed, InFrame
  <1>4. Waiting
    BY <1>3 DEF WireInv, Tracks, Stranded, Between
  <1>5. rx.buf = <<>>
    BY <1>1, <1>4 DEF Waiting
  <1>6. Left' = Left
    BY <1>1 DEF Left
  <1>7. Coming' = Coming /\ Coming = wire \o Left
    <2>1. wire \o Left \in Seq(Byte)
      BY StateIs
    <2> QED
      BY <1>1, <1>2, <1>5, <1>6, <2>1, ConcatEmptySeq DEF Coming
  <1>8. Waiting'
    BY <1>2 DEF Waiting
  <1> QED
    BY <1>1, <1>3, <1>7, <1>8, Stays

LEMMA CloseStep ==
    ASSUME WireInv, TypeInv', aim_conn_close
    PROVE  WireInv'
  <1>1. rx' = Idle /\ isopen' = FALSE /\ UNCHANGED <<sent, parsed>>
    BY DEF aim_conn_close, txVars
  <1>2. Closed'
    BY <1>1 DEF Closed, Idle
  <1> QED
    BY <1>1, <1>2, Rebuilds DEF Tracks

\* The sender gives up: what is to come is cut off where it was.
LEMMA SendFailsStep ==
    ASSUME Sound, WireInv, TypeInv', NEW how \in Failures, SendFails(how)
    PROVE  WireInv'
  <1>1. broken' = TRUE /\ out' = <<>> /\ UNCHANGED <<sent, wire, rx, isopen, nomem, parsed>>
    <2>1. how = "reset"
      BY DEF Sound
    <2>2. broken' = (how = "reset") /\ out' = <<>> /\ UNCHANGED <<sent, wire, rx, isopen, nomem, parsed>>
      BY DEF SendFails, rxVars
    <2> QED
      BY <2>1, <2>2
  <1>2. broken \in BOOLEAN /\ sent \in Seq(Frames)
    BY DEF WireInv, TypeInv, TypeOK
  <1> DEFINE a == rx.buf \o wire
             l == Left
             c == Coming
  <1>3. a \in Seq(Byte) /\ l \in Seq(Byte) /\ c = a \o l /\ c \in Seq(Byte)
    BY StateIs
  <1>4. Coming' = a
    <2>1. Left' = <<>> /\ wire \in Seq(Byte)
      BY <1>1, StateIs DEF Left
    <2>2. wire \o <<>> = wire
      BY <2>1, ConcatEmptySeq
    <2> QED
      BY <1>1, <2>1, <2>2 DEF Coming
  <1>5. ASSUME NEW p \in Nat, NEW all \in Seq(Byte), Follows(c, all, p, ~broken)
        PROVE  Follows(Coming, all, p, ~broken)' 
    <2> HIDE DEF a, l, c
    <2>1. Follows(a, all, p, FALSE)
      BY <1>3, <1>5, FollowsCut
    <2>2. (~broken)' = FALSE
      BY <1>1
    <2> QED
      BY <1>4, <2>1, <2>2 DEF Follows
  <1>6. ASSUME NEW m \in 1..(Len(sent) + 1)
        PROVE  Begin(sent, m) \in Nat /\ Begin(sent, m) + 6 \in Nat /\ All(sent) \in Seq(Byte)
    BY <1>2, AllIs
  <1>7. CASE Closed
    BY <1>1, <1>7, Rebuilds DEF Closed, Tracks
  <1>8. CASE Stranded
    <2>1. Coming' # <<>> => Coming # <<>> /\ Coming'[1] = Coming[1]
      <3>1. /\ Len(c) = Len(a) + Len(l) /\ Len(a) \in Nat /\ Len(l) \in Nat
            /\ \A k \in 1..Len(a) : c[k] = a[k]
        <4> HIDE DEF a, l, c
        <4> QED
          BY <1>3, Joint
      <3>2. ASSUME a # <<>> PROVE c # <<>> /\ c[1] = a[1]
        <4>1. Len(a) # 0
          BY <1>3, <3>2, EmptySeq
        <4>2. 1 \in 1..Len(a) /\ Len(c) # 0
          <5> DEFINE x == Len(a)
                     y == Len(l)
          <5>1. x \in Nat /\ y \in Nat /\ x # 0 /\ Len(c) = x + y
            BY <3>1, <4>1
          <5> HIDE DEF x, y
          <5>2. 1 \in 1..x /\ x + y # 0
            BY <5>1
          <5> QED
            BY <5>1, <5>2 DEF x
        <4>3. Len(<<>>) = 0
          OBVIOUS
        <4> QED
          BY <3>1, <4>2, <4>3
      <3> QED
        BY <1>4, <3>2 DEF c
    <2>2. Waiting'
      BY <1>1, <1>8 DEF Stranded, Waiting
    <2>3. Stranded'
      BY <1>1, <1>8, <2>1, <2>2 DEF Stranded
    <2> QED
      BY <1>1, <2>3, Rebuilds DEF Tracks
  <1>9. ASSUME NEW m \in 1..(Len(sent) + 1), Between(m) PROVE Between(m)'
    <2>1. Follows(c, All(sent), Begin(sent, m), ~broken) /\ Waiting /\ ParsedBefore(m)
      BY <1>9 DEF Between
    <2>2. Follows(Coming, All(sent), Begin(sent, m), ~broken)'
      <3> HIDE DEF c
      <3>1. \A p \in Nat : \A all \in Seq(Byte) : Follows(c, all, p, ~broken) => Follows(Coming', all, p, FALSE)
        BY <1>1, <1>5
      <3> QED
        BY <1>1, <1>6, <2>1, <3>1
    <2> QED
      BY <1>1, <2>1, <2>2 DEF Between, Waiting, ParsedBefore
  <1>10. ASSUME NEW m \in 1..(Len(sent) + 1), InFrame(m) PROVE InFrame(m)'
    <2>1. Follows(c, All(sent), Begin(sent, m) + 6, ~broken) /\ ParsedBefore(m)
      BY <1>10 DEF InFrame
    <2>2. Follows(Coming, All(sent), Begin(sent, m) + 6, ~broken)'
      <3> HIDE DEF c
      <3>1. \A p \in Nat : \A all \in Seq(Byte) : Follows(c, all, p, ~broken) => Follows(Coming', all, p, FALSE)
        BY <1>1, <1>5
      <3> QED
        BY <1>1, <1>6, <2>1, <3>1
    <2> QED
      BY <1>1, <1>10, <2>1, <2>2 DEF InFrame, ParsedBefore
  <1>11. CASE \E m \in 1..(Len(sent) + 1) : Between(m) \/ InFrame(m)
    BY <1>1, <1>9, <1>10, <1>11, Rebuilds DEF Tracks
  <1> QED
    BY <1>7, <1>8, <1>11 DEF WireInv, Tracks

\* A frame more is sent: its bytes are behind all others, in what is to come as well,
\* unless the connection is broken.
LEMMA EnqueueStep ==
    ASSUME WireInv, TypeInv', NEW f \in Frames, aim_tx_enqueue(f)
    PROVE  WireInv'
  <1> DEFINE s == sent
             t == sent'
             b == sendframe_flap(f, Len(t))
             c == Coming
             n == Len(sent)
  <1>1. /\ out = <<>> /\ n < MaxFrames /\ t = Append(s, f) /\ out' = b
        /\ UNCHANGED <<wire, broken, rx, isopen, nomem, parsed>>
    BY DEF aim_tx_enqueue, rxVars
  <1>2. s \in Seq(Frames) /\ c \in Seq(Byte) /\ broken \in BOOLEAN /\ wire \in Seq(Byte) /\ rx.buf \in Seq(Byte)
    BY StateIs DEF WireInv, TypeInv, TypeOK
  <1>3. /\ t \in Seq(Frames) /\ Len(t) = n + 1 /\ n \in Nat
        /\ \A m \in 1..n : t[m] = s[m] /\ m \in 1..Len(t)
        /\ b \in Seq(Byte)
        /\ All(t) = All(s) \o b
        /\ \A m \in 1..(n + 1) : Begin(t, m) = Begin(s, m) /\ m \in 1..(Len(t) + 1)
    BY <1>1, <1>2, SentMore, ZenonT(40)
  <1> HIDE DEF b
  <1>4. Coming' = IF broken THEN c ELSE c \o b
    <2>1. CASE broken
      <3>1. Left = <<>> /\ Left' = <<>>
        BY <1>1, <2>1 DEF Left
      <3> QED
        BY <1>1, <2>1, <3>1 DEF Coming
    <2>2. CASE ~broken
      <3>1. Left = <<>> /\ Left' = b
        BY <1>1, <2>2 DEF Left
      <3>2. wire \o <<>> = wire
        BY <1>2, ConcatEmptySeq
      <3>3. (rx.buf \o wire) \o b = rx.buf \o (wire \o b)
        <4> DEFINE a == rx.buf
        <4>1. a \in Seq(Byte)
          BY <1>2
        <4> HIDE DEF a
        <4>2. (a \o wire) \o b = a \o (wire \o b)
          BY <1>2, <1>3, <4>1, Regroup
        <4> QED
          BY <4>2 DEF a
      <3>4. c = rx.buf \o wire
        BY <3>1, <3>2 DEF Coming
      <3>5. Coming' = rx.buf \o (wire \o b)
        BY <1>1, <3>1 DEF Coming
      <3> QED
        BY <2>2, <3>3, <3>4, <3>5
    <2> QED
      BY <2>1, <2>2
  <1>5. \A m \in 1..(n + 1) : Begin(s, m) \in Nat /\ Begin(s, m) + 6 \in Nat
    BY <1>2, AllIs
  <1>6. All(s) \in Seq(Byte)
    BY <1>2, AllIs
  <1>7. \A p \in Nat : Follows(c, All(s), p, ~broken) => Follows(Coming', All(t), p, ~broken)
    <2> SUFFICES ASSUME NEW p \in Nat, Follows(c, All(s), p, ~broken) PROVE Follows(Coming', All(t), p, ~broken)
      OBVIOUS
    <2> DEFINE all == All(s)
    <2> HIDE DEF c, all
    <2>1. c \in Seq(Byte) /\ all \in Seq(Byte) /\ Follows(c, all, p, ~broken) /\ All(t) = all \o b
      BY <1>2, <1>3, <1>6 DEF all
    <2>2. CASE broken
      <3>1. (~broken) = FALSE
        BY <2>2
      <3>2. Follows(c, all \o b, p, FALSE)
        BY <1>3, <2>1, <3>1, FollowsMore
      <3> QED
        BY <1>4, <2>1, <2>2, <3>1, <3>2
    <2>3. CASE ~broken
      <3>1. (~broken) = TRUE
        BY <2>3
      <3>2. Follows(c \o b, all \o b, p, TRUE)
        BY <1>3, <2>1, <3>1, FollowsMore
      <3> QED
        BY <1>4, <2>1, <2>3, <3>1, <3>2
    <2> QED
      BY <2>2, <2>3
  <1>8. parsed' \in Seq(Reads')
    <2>1. Reads \subseteq Reads'
      BY <1>3 DEF Reads
    <2>2. parsed \in Seq(Reads)
      BY DEF WireInv
    <2> QED
      BY <1>1, <2>1, <2>2, SeqMonotonic
  <1>9. Tracks'
    <2>1. CASE Closed
      BY <1>1, <2>1 DEF Closed, Tracks
    <2>2. CASE Stranded
      <3>1. Waiting'
        BY <1>1, <2>2 DEF Stranded, Waiting
      <3>2. CASE broken
        BY <1>1, <1>4, <2>2, <3>1, <3>2 DEF Stranded, Tracks
      <3>3. CASE ~broken
        <4>1. c # <<>> /\ c[1] # 42
          BY <2>2, <3>3 DEF Stranded
        <4> HIDE DEF c
        <4>2. Coming' = c \o b
          BY <1>4, <3>3
        <4>3. c \o b # <<>> /\ (c \o b)[1] = c[1]
          <5>1. Len(c) # 0 /\ Len(c) \in Nat /\ Len(b) \in Nat
            BY <1>2, <1>3, <4>1, EmptySeq
          <5>2. Len(c \o b) = Len(c) + Len(b) /\ \A k \in 1..Len(c) : (c \o b)[k] = c[k]
            BY <1>2, <1>3, Joined
          <5>3. Len(<<>>) = 0
            OBVIOUS
          <5> DEFINE x == Len(c)
                     y == Len(b)
          <5>4. x # 0 /\ x \in Nat /\ y \in Nat /\ Len(c \o b) = x + y
            BY <5>1, <5>2
          <5> HIDE DEF x, y
          <5>5. 1 \in 1..x /\ x + y # 0
            BY <5>4
          <5> QED
            BY <5>2, <5>3, <5>4, <5>5 DEF x
        <4>4. Coming' # <<>> /\ Coming'[1] # 42
          BY <4>1, <4>2, <4>3
        <4> QED
          BY <3>1, <4>4 DEF Stranded, Tracks
      <3> QED
        BY <3>2, <3>3
    <2>3. ASSUME NEW m \in 1..(n + 1), Between(m) PROVE Between(m)'
      <3>1. Follows(c, All(s), Begin(s, m), ~broken) /\ Waiting /\ ParsedBefore(m)
        BY <2>3 DEF Between
      <3>2. Follows(Coming', All(t), Begin(t, m), ~broken)
        <4> HIDE DEF c, s, t
        <4> QED
          BY <1>3, <1>5, <1>7, <3>1
      <3> QED
        BY <1>1, <3>1, <3>2 DEF Between, Waiting, ParsedBefore
    <2>4. ASSUME NEW m \in 1..(n + 1), InFrame(m) PROVE InFrame(m)'
      <3>1. Follows(c, All(s), Begin(s, m) + 6, ~broken) /\ ParsedBefore(m) /\ m <= n
        BY <2>4 DEF InFrame
      <3>2. Follows(Coming', All(t), Begin(t, m) + 6, ~broken)
        <4> HIDE DEF c, s, t
        <4> QED
          BY <1>3, <1>5, <1>7, <3>1
      <3>3. m \in 1..n /\ m <= Len(t)
        BY <1>3, <3>1
      <3>4. t[m] = s[m]
        BY <1>3, <3>3
      <3> QED
        BY <1>1, <2>4, <3>1, <3>2, <3>3, <3>4 DEF InFrame, ParsedBefore
    <2>5. CASE \E m \in 1..(n + 1) : Between(m) \/ InFrame(m)
      <3>1. \A m \in 1..(n + 1) : m \in 1..(Len(t) + 1)
        BY <1>3
      <3> QED
        BY <2>3, <2>4, <2>5, <3>1 DEF Tracks
    <2> QED
      BY <2>1, <2>2, <2>5 DEF WireInv, Tracks
  <1>10. Len(t) <= MaxFrames
    <2>1. MaxFrames \in Nat
      BY BoundsAssumption
    <2> QED
      BY <1>1, <1>3, <2>1
  <1>11. Ordered'
    BY <1>1 DEF WireInv, Ordered
  <1> QED
    BY <1>8, <1>9, <1>10, <1>11 DEF WireInv

\* With a header in its buffer, in step, the receiver has that of a frame that was sent.
LEMMA AtHeader ==
    ASSUME Sound, WireInv, NEW m \in 1..(Len(sent) + 1), Between(m), Len(rx.buf) = 6
    PROVE  /\ m \in 1..Len(sent) /\ m \in Nat
           /\ rx.buf[1] = 42
           /\ 256 * rx.buf[3] + rx.buf[4] = m
           /\ 256 * rx.buf[5] + rx.buf[6] = Len(Payload(sent[m]))
           /\ Follows(wire \o Left, All(sent), Begin(sent, m) + 6, ~broken)
  <1> DEFINE s == sent
             n == Len(sent)
             buf == rx.buf
             rest == wire \o Left
             all == All(sent)
             o == Begin(sent, m)
             P == Payload(sent[m])
  <1>1. s \in Seq(Frames) /\ buf \in Seq(Byte) /\ rest \in Seq(Byte) /\ Coming = buf \o rest
    BY StateIs DEF Coming
  <1>2. /\ all \in Seq(Byte) /\ o \in Nat /\ Begin(s, n + 1) = Len(all) /\ Len(all) \in Nat /\ n \in Nat
    BY <1>1, AllIs, LenProperties
  <1>3. Follows(buf \o rest, all, o, ~broken) /\ Len(buf) = 6
    BY <1>1 DEF Between
  <1> HIDE DEF buf, rest, all, o, P, n
  <1>4. /\ Follows(rest, all, o + Len(buf), ~broken)
        /\ o + Len(buf) <= Len(all)
        /\ \A k \in 1..Len(buf) : buf[k] = all[o + k]
    <2> DEFINE whole == ~broken
    <2>1. buf \in Seq(Byte) /\ rest \in Seq(Byte) /\ all \in Seq(Byte) /\ o \in Nat
          /\ Follows(buf \o rest, all, o, whole)
      BY <1>1, <1>2, <1>3
    <2> HIDE DEF whole
    <2>2. /\ Follows(rest, all, o + Len(buf), whole)
          /\ o + Len(buf) <= Len(all)
          /\ \A k \in 1..Len(buf) : buf[k] = all[o + k]
      BY <2>1, FollowsRest
    <2> QED
      BY <2>2 DEF whole
  <1>5. m # n + 1
    <2>1. ASSUME m = n + 1 PROVE o = Len(all)
      BY <1>2, <2>1 DEF o
    <2> QED
      BY <1>2, <1>3, <1>4, <2>1
  <1>6. m \in 1..n
    BY <1>2, <1>5 DEF n
  <1>7. /\ m \in Nat /\ Len(P) \in Nat /\ Len(P) <= Room
        /\ all[o + 1] = 42
        /\ m <= 65535 => 256 * all[o + 3] + all[o + 4] = m
        /\ Len(P) <= 65535 => 256 * all[o + 5] + all[o + 6] = Len(P)
    BY <1>1, <1>6, BeginIs DEF n, all, o, P
  <1>8. m <= 65535 /\ Len(P) <= 65535
    <2>1. Room <= 65535 /\ Room \in Nat /\ MaxFrames <= 65535 /\ MaxFrames \in Nat
      BY BoundsAssumption DEF Sound
    <2>2. n <= MaxFrames
      BY DEF WireInv, n
    <2> DEFINE l == Len(P)
    <2>3. l \in Nat /\ l <= Room
      BY <1>7
    <2> HIDE DEF l
    <2>4. l <= 65535
      BY <2>1, <2>3
    <2>5. m <= 65535
      BY <1>2, <1>6, <2>1, <2>2
    <2> QED
      BY <2>4, <2>5 DEF l
  <1>9. /\ buf[1] = all[o + 1] /\ buf[3] = all[o + 3] /\ buf[4] = all[o + 4]
        /\ buf[5] = all[o + 5] /\ buf[6] = all[o + 6]
    <2>1. 1 \in 1..6 /\ 3 \in 1..6 /\ 4 \in 1..6 /\ 5 \in 1..6 /\ 6 \in 1..6
      OBVIOUS
    <2> QED
      BY <1>3, <1>4, <2>1
  <1>10. 256 * buf[3] + buf[4] = m
    BY <1>7, <1>8, <1>9
  <1>11. 256 * buf[5] + buf[6] = Len(P)
    BY <1>7, <1>8, <1>9
  <1>12. buf[1] = 42
    BY <1>7, <1>9
  <1>13. Follows(rest, all, o + 6, ~broken)
    BY <1>3, <1>4
  <1> QED
    BY <1>6, <1>7, <1>10, <1>11, <1>12, <1>13 DEF buf, rest, all, o, P, n

\* Whoever takes 0x2a at the head of its buffer for a header is in step.
LEMMA InStep ==
    ASSUME WireInv, rx.pc = "header", Len(rx.buf) = 6, Head(rx.buf) = 42
    PROVE  \E m \in 1..(Len(sent) + 1) : Between(m)
  <1>1. ~Closed
    BY DEF Closed, Idle
  <1>2. \A m : ~InFrame(m)
    BY DEF InFrame
  <1>3. ~Stranded
    <2> DEFINE buf == rx.buf
               rest == wire \o Left
               c == Coming
    <2>1. buf \in Seq(Byte) /\ rest \in Seq(Byte) /\ c = buf \o rest /\ Len(buf) = 6 /\ buf[1] = 42
      BY StateIs DEF Coming
    <2> HIDE DEF buf, rest, c
    <2>2. Len(c) = Len(buf) + Len(rest) /\ Len(rest) \in Nat /\ \A k \in 1..Len(buf) : c[k] = buf[k]
      <3>1. buf \in Seq(Byte) /\ rest \in Seq(Byte) /\ c = buf \o rest
        BY <2>1
      <3>2. /\ Len(c) = Len(buf) + Len(rest) /\ Len(rest) \in Nat
            /\ \A k \in 1..Len(buf) : c[k] = buf[k] /\ k \in 1..Len(c)
        BY <3>1, JointBytes
      <3> QED
        BY <3>2
    <2>3. 1 \in 1..6 /\ Len(<<>>) = 0 /\ \A x \in Nat : 6 + x # 0
      OBVIOUS
    <2>4. c # <<>> /\ c[1] = 42
      BY <2>1, <2>2, <2>3
    <2> QED
      BY <2>4 DEF Stranded, c
  <1> QED
    BY <1>1, <1>2, <1>3 DEF WireInv, Tracks

\* Nothing of the chain is read yet.
LEMMA ParseBegins ==
    ASSUME NEW f \in Frames
    PROVE  Parsing(f, 0, <<>>)
  <1> DEFINE c == Fitting(f)
  <1>1. c \in Seq(Tlvs)
    BY FrameIs
  <1>2. 0 \in 0..Len(c) /\ Sizes(c)[0] = 0
    BY <1>1, SizesAre, LenProperties
  <1>3. ReadSoFar(c, 0) = <<>>
    BY DEF ReadSoFar
  <1> QED
    BY <1>2, <1>3 DEF Parsing

LEMMA EmptyThen ==
    ASSUME NEW s \in Seq(Byte)
    PROVE  <<>> \o s = s
  BY ConcatEmptySeq

LEMMA HeaderStep ==
    ASSUME Sound, WireInv, TypeInv', GotHeader
    PROVE  WireInv'
  <1>1. CASE Head(rx.buf) # 42
    BY <1>1, CloseStep DEF GotHeader
  <1>2. CASE Head(rx.buf) = 42
    <2>1. /\ rx.pc = "header" /\ Len(rx.buf) = 6 /\ rx' = HeaderRead
          /\ UNCHANGED <<sent, out, wire, broken, isopen, nomem, parsed>>
      BY <1>2 DEF GotHeader, txVars
    <2>2. PICK m \in 1..(Len(sent) + 1) : Between(m)
      BY <1>2, <2>1, InStep
    <2> DEFINE P == Payload(sent[m])
    <2>3. /\ m \in 1..Len(sent)
          /\ 256 * rx.buf[3] + rx.buf[4] = m
          /\ 256 * rx.buf[5] + rx.buf[6] = Len(P)
          /\ Follows(wire \o Left, All(sent), Begin(sent, m) + 6, ~broken)
      BY <2>1, <2>2, AtHeader
    <2>4. rx.buf \in Seq(Byte) /\ wire \o Left \in Seq(Byte) /\ sent \in Seq(Frames) /\ sent[m] \in Frames
      BY <2>3, StateIs, ElementOfSeq
    <2> HIDE DEF P
    <2>5. /\ rx' = [pc |-> IF rx'.need = 0 THEN "parse" ELSE "payload", buf |-> <<>>, need |-> rx'.need,
                    seqnum |-> rx'.seqnum, pos |-> 0, list |-> <<>>]
          /\ rx'.need = Len(P) /\ rx'.seqnum = m
      BY <2>1, <2>3, <2>4, HeaderReadIs
    <2>6. /\ rx'.pc = IF rx'.need = 0 THEN "parse" ELSE "payload"
          /\ rx'.buf = <<>> /\ rx'.pos = 0 /\ rx'.list = <<>>
      BY <2>5
    <2>7. Coming' = wire \o Left
      <3>1. Left' = Left
        BY <2>1 DEF Left
      <3> QED
        BY <2>1, <2>4, <2>6, <3>1, EmptyThen DEF Coming
    <2>8. \/ rx'.pc = "payload" /\ rx'.pos = 0 /\ rx'.list = <<>>
          \/ rx'.pc = "parse" /\ Len(rx'.buf) = rx'.need /\ Parsing(sent[m], rx'.pos, rx'.list)
      <3>1. Parsing(sent[m], 0, <<>>)
        BY <2>4, ParseBegins
      <3>2. Len(<<>>) = 0
        OBVIOUS
      <3> QED
        BY <2>6, <3>1, <3>2
    <2>9. m <= Len(sent)
      BY <2>3
    <2>10. ParsedBefore(m)'
      BY <2>1, <2>2 DEF Between, ParsedBefore
    <2>11. InFrame(m)'
      BY <2>1, <2>3, <2>5, <2>7, <2>8, <2>9, <2>10 DEF InFrame, P
    <2> QED
      BY <2>1, <2>2, <2>11, Rebuilds DEF Tracks
  <1> QED
    BY <1>1, <1>2

\* The payload is left on the socket: either there is none, or it is no header.
LEMMA NoMemoryStep ==
    ASSUME Sound, WireInv, TypeInv', NoMemory
    PROVE  WireInv'
  <1>1. /\ MallocFails /\ rx.pc = "header" /\ Len(rx.buf) = 6 /\ Head(rx.buf) = 42 /\ rx' = Idle
        /\ UNCHANGED <<sent, out, wire, broken, isopen, parsed>>
    BY DEF NoMemory, txVars
  <1>2. PICK m \in 1..(Len(sent) + 1) : Between(m)
    BY <1>1, InStep
  <1> DEFINE P == Payload(sent[m])
             rest == wire \o Left
             all == All(sent)
             o == Begin(sent, m)
  <1>3. m \in 1..Len(sent) /\ m \in Nat /\ Follows(rest, all, o + 6, ~broken)
    BY <1>1, <1>2, AtHeader
  <1>4. rest \in Seq(Byte) /\ sent \in Seq(Frames) /\ broken \in BOOLEAN
    BY StateIs DEF WireInv, TypeInv, TypeOK
  <1>5. rx'.pc = "idle" /\ rx'.buf = <<>>
    BY <1>1 DEF Idle
  <1>6. Coming' = rest /\ Waiting'
    <2>1. Left' = Left
      BY <1>1 DEF Left
    <2> QED
      BY <1>1, <1>4, <1>5, <2>1, EmptyThen DEF Coming, Waiting
  <1>7. /\ sent[m] \in Frames /\ m + 1 \in 1..(Len(sent) + 1)
        /\ P \in Seq(Byte) /\ Len(P) \in Nat /\ o \in Nat /\ Begin(sent, m + 1) = o + 6 + Len(P)
        /\ Begin(sent, m + 1) <= Len(all)
        /\ \A k \in 1..Len(P) : all[o + (6 + k)] = P[k]
    BY <1>3, <1>4, BeginIs
  <1>8. P = <<>> \/ P[1] # 42
    BY <1>1, <1>7 DEF Sound
  <1> HIDE DEF P, rest, all, o
  <1>9. CASE P = <<>>
    <2>1. Begin(sent, m + 1) = o + 6
      <3>1. Len(P) = 0
        BY <1>9
      <3> QED
        BY <1>7, <3>1
    <2>2. ParsedBefore(m + 1)'
      <3> DEFINE N == parsed
      <3>1. \A i \in 1..Len(parsed) : parsed[i].seqnum < m /\ parsed[i].seqnum \in Int
        <4>1. parsed \in Seq(Reads) /\ ParsedBefore(m)
          BY <1>2 DEF WireInv, Between
        <4>2. \A e \in Reads : e.seqnum \in Int
          BY DEF Reads
        <4>3. \A i \in 1..Len(parsed) : parsed[i] \in Reads
          BY <4>1, ElementOfSeq
        <4> QED
          BY <4>1, <4>2, <4>3 DEF ParsedBefore
      <3>2. \A x \in Int : x < m => x < m + 1
        BY <1>3
      <3> QED
        BY <1>1, <3>1, <3>2 DEF ParsedBefore
    <2>3. Between(m + 1)'
      BY <1>1, <1>3, <1>6, <2>1, <2>2 DEF Between, all
    <2> QED
      BY <1>1, <1>7, <2>3, Rebuilds DEF Tracks
  <1>10. CASE P # <<>>
    <2>1. Len(P) # 0
      BY <1>7, <1>10, EmptySeq
    <2>2. rest = <<>> => broken
      <3> SUFFICES ASSUME rest = <<>>, ~broken PROVE FALSE
        OBVIOUS
      <3>1. o + 6 + Len(rest) = Len(all) /\ Len(rest) = 0
        BY <1>3 DEF Follows
      <3> DEFINE x == Len(P)
                 y == Len(all)
      <3>2. x \in Nat /\ x # 0 /\ o \in Nat /\ o + 6 + x <= y /\ o + 6 + 0 = y
        BY <1>7, <2>1, <3>1
      <3> HIDE DEF x, y
      <3> QED
        BY <3>2
    <2>3. rest # <<>> => rest[1] # 42
      <3> SUFFICES ASSUME rest # <<>> PROVE rest[1] # 42
        OBVIOUS
      <3>1. Len(rest) # 0 /\ Len(rest) \in Nat
        BY <1>4, EmptySeq
      <3>2. 1 \in 1..Len(rest) /\ 1 \in 1..Len(P)
        BY <1>7, <2>1, <3>1
      <3>3. rest[1] = all[o + 6 + 1] /\ all[o + (6 + 1)] = P[1]
        BY <1>3, <1>7, <3>2 DEF Follows
      <3>4. o + 6 + 1 = o + (6 + 1)
        BY <1>7
      <3> QED
        BY <1>8, <1>10, <3>3, <3>4
    <2>4. Stranded'
      BY <1>1, <1>6, <2>2, <2>3 DEF Stranded
    <2> QED
      BY <1>1, <2>4, Rebuilds DEF Tracks
  <1> QED
    BY <1>9, <1>10

LEMMA PayloadStep ==
    ASSUME WireInv, TypeInv', GotPayload
    PROVE  WireInv'
  <1>1. /\ rx.pc = "payload" /\ Len(rx.buf) = rx.need /\ rx' = [rx EXCEPT !.pc = "parse"]
        /\ UNCHANGED <<sent, out, wire, broken, isopen, nomem, parsed>>
    BY DEF GotPayload, txVars
  <1>2. ~Closed /\ ~Stranded /\ \A m : ~Between(m)
    BY <1>1 DEF Closed, Idle, Stranded, Between, Waiting
  <1>3. PICK m \in 1..(Len(sent) + 1) : InFrame(m)
    BY <1>2 DEF WireInv, Tracks
  <1>4. /\ rx'.pc = "parse" /\ rx'.buf = rx.buf /\ rx'.need = rx.need /\ rx'.seqnum = rx.seqnum
        /\ rx'.pos = rx.pos /\ rx'.list = rx.list
    BY <1>1 DEF WireInv, TypeInv, RxFields
  <1>5. m \in 1..Len(sent) /\ sent[m] \in Frames /\ rx.pos = 0 /\ rx.list = <<>>
    <2>1. sent \in Seq(Frames) /\ Len(sent) \in Nat
      BY StateIs, LenProperties
    <2>2. m <= Len(sent) /\ rx.pos = 0 /\ rx.list = <<>>
      BY <1>1, <1>3 DEF InFrame
    <2>3. m \in 1..Len(sent)
      BY <2>1, <2>2
    <2> QED
      BY <2>1, <2>2, <2>3, ElementOfSeq
  <1>6. Parsing(sent[m], rx.pos, rx.list)
    BY <1>5, ParseBegins
  <1>7. Coming' = Coming
    BY <1>1, <1>4 DEF Coming, Left
  <1>8. InFrame(m)'
    BY <1>1, <1>3, <1>4, <1>6, <1>7 DEF InFrame, ParsedBefore
  <1> QED
    BY <1>1, <1>3, <1>8, Rebuilds DEF Tracks

\* A handler that reads a chain has the whole payload of a frame that was sent.
LEMMA AtParse ==
    ASSUME WireInv, rx.pc \in {"parse", "done"}
    PROVE  \E m \in 1..Len(sent) :
               /\ InFrame(m) /\ rx.pc = "parse" /\ sent[m] \in Frames
               /\ rx.buf = Payload(sent[m])
               /\ Follows(wire \o Left, All(sent), Begin(sent, m + 1), ~broken)
  <1>1. ~Closed /\ ~Stranded /\ \A m : ~Between(m)
    BY DEF Closed, Idle, Stranded, Between, Waiting
  <1>2. PICK m \in 1..(Len(sent) + 1) : InFrame(m)
    BY <1>1 DEF WireInv, Tracks
  <1> DEFINE P == Payload(sent[m])
             buf == rx.buf
             rest == wire \o Left
             all == All(sent)
             o == Begin(sent, m)
             whole == ~broken
  <1>3. sent \in Seq(Frames) /\ Len(sent) \in Nat /\ buf \in Seq(Byte) /\ rest \in Seq(Byte) /\ Coming = buf \o rest
    BY StateIs, LenProperties DEF Coming
  <1>4. rx.pc = "parse" /\ m <= Len(sent) /\ Len(buf) = Len(P) /\ Follows(Coming, all, o + 6, whole)
    BY <1>2 DEF InFrame
  <1>5. m \in 1..Len(sent)
    BY <1>3, <1>4
  <1>6. /\ sent[m] \in Frames /\ P \in Seq(Byte) /\ Len(P) \in Nat /\ o \in Nat
        /\ Begin(sent, m + 1) = o + 6 + Len(P)
        /\ \A k \in 1..Len(P) : all[o + (6 + k)] = P[k]
    BY <1>3, <1>5, BeginIs
  <1>7. all \in Seq(Byte) /\ o + 6 \in Nat
    BY <1>3, <1>6, AllIs, SMTT(30)
  <1> HIDE DEF P, buf, rest, all, o, whole
  <1>8. /\ Follows(rest, all, o + 6 + Len(buf), whole)
        /\ \A k \in 1..Len(buf) : buf[k] = all[o + 6 + k]
    <2>1. buf \in Seq(Byte) /\ rest \in Seq(Byte) /\ Follows(buf \o rest, all, o + 6, whole)
      BY <1>3, <1>4
    <2> DEFINE p == o + 6
    <2>2. p \in Nat /\ Follows(buf \o rest, all, p, whole)
      BY <1>7, <2>1
    <2> HIDE DEF p
    <2>3. /\ Follows(rest, all, p + Len(buf), whole)
          /\ \A k \in 1..Len(buf) : buf[k] = all[p + k]
      BY <1>7, <2>1, <2>2, FollowsRest
    <2> QED
      BY <2>3 DEF p
  <1>9. buf = P
    <2>1. \A k \in 1..Len(P) : o + 6 + k = o + (6 + k)
      BY <1>6
    <2>2. \A k \in 1..Len(P) : buf[k] = P[k]
      BY <1>4, <1>6, <1>8, <2>1
    <2> QED
      BY <1>3, <1>4, <1>6, <2>2, SeqEqual
  <1>10. Follows(rest, all, Begin(sent, m + 1), whole)
    BY <1>4, <1>6, <1>8
  <1> QED
    BY <1>2, <1>4, <1>5, <1>6, <1>9, <1>10 DEF P, buf, rest, all, whole

LEMMA TurnStep ==
    ASSUME Sound, WireInv, TypeInv', aim_readtlvchain_turn
    PROVE  WireInv'
  <1>1. PICK m \in 1..Len(sent) : /\ InFrame(m) /\ rx.pc = "parse" /\ sent[m] \in Frames
                                  /\ rx.buf = Payload(sent[m])
    BY AtParse DEF aim_readtlvchain_turn
  <1> DEFINE f == sent[m]
             r == ReadTlv(Stream)
  <1>2. /\ Len(Payload(f)) - rx.pos > 0
        /\ rx' = IF r.tlv = Truncated
                 THEN [rx EXCEPT !.pc = "done", !.list = <<>>]
                 ELSE [rx EXCEPT !.pos = r.bs.offset, !.list = <<r.tlv>> \o @]
        /\ UNCHANGED <<sent, out, wire, broken, isopen, nomem, parsed>>
    BY <1>1 DEF aim_readtlvchain_turn, aim_bstream_empty, Stream, txVars
  <1>3. r = ReadTlv([data |-> Payload(f), offset |-> rx.pos])
    BY <1>1 DEF Stream
  <1>4. f \in Frames /\ Parsing(f, rx.pos, rx.list)
    BY <1>1 DEF InFrame
  <1> HIDE DEF f, r
  <1>5. r.tlv # Truncated /\ Parsing(f, r.bs.offset, <<r.tlv>> \o rx.list)
    BY <1>2, <1>3, <1>4, ParseStep
  <1>6. rx' = [rx EXCEPT !.pos = r.bs.offset, !.list = <<r.tlv>> \o @]
    BY <1>2, <1>5
  <1>7. /\ rx'.pc = rx.pc /\ rx'.buf = rx.buf /\ rx'.need = rx.need /\ rx'.seqnum = rx.seqnum
        /\ rx'.pos = r.bs.offset /\ rx'.list = <<r.tlv>> \o rx.list
    BY <1>6 DEF WireInv, TypeInv, RxFields
  <1>8. Coming' = Coming
    BY <1>2, <1>7 DEF Coming, Left
  <1>9. Parsing(f, rx'.pos, rx'.list)
    BY <1>5, <1>7
  <1>10. InFrame(m)'
    BY <1>1, <1>2, <1>7, <1>8, <1>9 DEF InFrame, ParsedBefore, f
  <1>11. m \in 1..(Len(sent) + 1)
    BY StateIs, LenProperties
  <1> QED
    BY <1>2, <1>10, <1>11, Rebuilds DEF Tracks

LEMMA ChainReadStep ==
    ASSUME Sound, WireInv, TypeInv', ChainRead
    PROVE  WireInv'
  <1> DEFINE e == [seqnum |-> rx.seqnum, list |-> rx.list]
             n == Len(parsed)
  <1>1. /\ rx.pc = "done" \/ (rx.pc = "parse" /\ Len(rx.buf) - rx.pos = 0)
        /\ parsed' = Append(parsed, e) /\ rx' = Idle
        /\ UNCHANGED <<sent, out, wire, broken, isopen, nomem>>
    BY DEF ChainRead, aim_bstream_empty, Stream, txVars
  <1>2. PICK m \in 1..Len(sent) :
            /\ InFrame(m) /\ rx.pc = "parse" /\ sent[m] \in Frames
            /\ rx.buf = Payload(sent[m])
            /\ Follows(wire \o Left, All(sent), Begin(sent, m + 1), ~broken)
    BY <1>1, AtParse
  <1>3. rx.list = Expected(sent[m]) /\ rx.seqnum = m
    <2>1. Parsing(sent[m], rx.pos, rx.list) /\ rx.seqnum = m
      BY <1>2 DEF InFrame
    <2>2. rx.pos \in Nat /\ Len(Payload(sent[m])) \in Nat
      <3>1. Len(Payload(sent[m])) \in Nat
        BY <1>2, PayloadIs
      <3>2. \A j \in 0..Len(Fitting(sent[m])) : Sizes(Fitting(sent[m]))[j] \in Nat
        BY <1>2, PlacesIn
      <3> QED
        BY <2>1, <3>1, <3>2 DEF Parsing
    <2>3. rx.pos = Len(Payload(sent[m]))
      <3> DEFINE x == Len(Payload(sent[m]))
                 y == rx.pos
      <3>1. x \in Nat /\ y \in Nat /\ x - y = 0
        BY <1>1, <1>2, <2>2
      <3> HIDE DEF x, y
      <3>2. y = x
        BY <3>1
      <3> QED
        BY <3>2 DEF x, y
    <2> QED
      BY <1>2, <2>1, <2>3, ParseEnd
  <1>4. e \in Reads /\ e.seqnum = m
    BY <1>3 DEF Reads
  <1>5. parsed \in Seq(Reads) /\ Reads' = Reads
    BY <1>1 DEF WireInv, Reads
  <1> HIDE DEF e
  <1>6. /\ parsed' \in Seq(Reads) /\ Len(parsed') = n + 1 /\ n \in Nat
        /\ \A i \in 1..n : parsed'[i] = parsed[i]
        /\ parsed'[n + 1] = e
    BY <1>1, <1>4, <1>5, AppendProperties, LenProperties
  <1>7. \A i \in 1..n : parsed[i].seqnum < m
    BY <1>2 DEF InFrame, ParsedBefore
  <1>8. m \in Nat /\ m + 1 \in 1..(Len(sent) + 1)
    BY StateIs, LenProperties
  <1> HIDE DEF n
  <1>9. ASSUME NEW i \in 1..(n + 1) PROVE i \in 1..n \/ i = n + 1
    BY <1>6
  <1>10. Ordered'
    <2> SUFFICES ASSUME NEW i \in 1..(n + 1), NEW j \in 1..(i - 1)
                 PROVE  parsed'[j].seqnum < parsed'[i].seqnum
      BY <1>6 DEF Ordered
    <2>1. j \in 1..n
      BY <1>6
    <2>2. CASE i = n + 1
      BY <1>4, <1>6, <1>7, <2>1, <2>2
    <2>3. CASE i \in 1..n
      BY <1>6, <2>1, <2>3 DEF WireInv, Ordered, n
    <2> QED
      BY <1>9, <2>2, <2>3
  <1>11. ParsedBefore(m + 1)'
    <2> SUFFICES ASSUME NEW i \in 1..(n + 1) PROVE parsed'[i].seqnum < m + 1
      BY <1>6, <1>1 DEF ParsedBefore
    <2>1. CASE i = n + 1
      BY <1>4, <1>6, <1>8, <2>1
    <2>2. CASE i \in 1..n
      <3>1. parsed'[i].seqnum < m /\ parsed'[i] \in Reads
        BY <1>5, <1>6, <1>7, <2>2, ElementOfSeq DEF n
      <3>2. \A x \in Reads : x.seqnum \in Int
        BY DEF Reads
      <3> DEFINE x == parsed'[i].seqnum
      <3>3. x < m /\ x \in Int
        BY <3>1, <3>2
      <3> HIDE DEF x
      <3>4. x < m + 1
        BY <1>8, <3>3
      <3> QED
        BY <3>4 DEF x
    <2> QED
      BY <1>9, <2>1, <2>2
  <1>12. Coming' = wire \o Left /\ Waiting'
    <2>1. rx'.pc = "idle" /\ rx'.buf = <<>> /\ Left' = Left
      BY <1>1 DEF Idle, Left
    <2>2. wire \o Left \in Seq(Byte)
      BY StateIs
    <2> QED
      BY <1>1, <2>1, <2>2, EmptyThen DEF Coming, Waiting
  <1>13. Between(m + 1)'
    BY <1>1, <1>2, <1>11, <1>12 DEF Between
  <1>14. Tracks'
    BY <1>1, <1>8, <1>13 DEF Tracks
  <1>15. Len(sent') <= MaxFrames
    BY <1>1 DEF WireInv
  <1> QED
    BY <1>5, <1>6, <1>10, <1>14, <1>15 DEF WireInv

-----------------------------------------------------------------------------
LEMMA WireInit == Init => WireInv
  <1> SUFFICES ASSUME Init PROVE WireInv
    OBVIOUS
  <1>1. TypeInv
    BY TypeInit
  <1>2. sent = <<>> /\ out = <<>> /\ wire = <<>> /\ broken = FALSE /\ rx = Idle /\ parsed = <<>>
    BY DEF Init
  <1>3. sent \in Seq(Frames) /\ Len(sent) = 0 /\ 0 <= MaxFrames /\ 1 \in 1..(Len(sent) + 1) /\ Len(sent) + 1 = 1
        /\ Len(parsed) = 0 /\ 1..0 = {}
    BY <1>2, BoundsAssumption, EmptySeq
  <1>4. parsed \in Seq(Reads) /\ Ordered /\ ParsedBefore(1)
    BY <1>2, <1>3, EmptySeq DEF Ordered, ParsedBefore
  <1>5. Waiting /\ Coming = <<>>
    BY <1>2, IdleIs, EmptyThen, EmptySeq DEF Waiting, Coming, Left
  <1>6. Begin(sent, 1) = 0 /\ Len(All(sent)) = 0
    BY <1>3, AllIs
  <1>7. Follows(Coming, All(sent), Begin(sent, 1), ~broken)
    <2>1. Len(<<>>) = 0 /\ 0 + 0 = 0 /\ 0 <= 0 /\ 1..0 = {}
      OBVIOUS
    <2> QED
      BY <1>5, <1>6, <2>1 DEF Follows
  <1>8. Between(1)
    BY <1>4, <1>5, <1>7 DEF Between
  <1> QED
    BY <1>1, <1>3, <1>4, <1>8 DEF WireInv, Tracks

LEMMA WireStep == Sound /\ WireInv /\ [Next]_vars => WireInv'
  <1> SUFFICES ASSUME Sound, WireInv, [Next]_vars PROVE WireInv'
    OBVIOUS
  <1>1. TypeInv'
    BY TypeStep DEF WireInv
  <1>2. CASE UNCHANGED vars
    <2>1. UNCHANGED <<sent, out, wire, broken, rx, isopen, nomem, parsed>>
      BY <1>2 DEF vars, txVars, rxVars
    <2>2. Tracks'
      BY <2>1 DEF WireInv, Tracks, Closed, Stranded, Between, InFrame, Waiting, Coming, Left, ParsedBefore
    <2> QED
      BY <1>1, <2>1, <2>2, Rebuilds
  <1>3. ASSUME NEW f \in Frames, aim_tx_enqueue(f) PROVE WireInv'
    BY <1>1, <1>3, EnqueueStep
  <1>4. CASE Sends
    BY <1>1, <1>4, SendStep DEF Sends
  <1>5. ASSUME NEW how \in Failures, SendFails(how) PROVE WireInv'
    BY <1>1, <1>5, SendFailsStep
  <1>6. CASE aim_get_command
    BY <1>1, <1>6, GetCommandStep
  <1>7. ASSUME NEW n \in 1..Len(wire), aim_recv(n) PROVE WireInv'
    BY <1>1, <1>7, RecvStep
  <1>8. CASE RecvFails
    BY <1>1, <1>8, CloseStep DEF RecvFails
  <1>9. CASE GotHeader
    BY <1>1, <1>9, HeaderStep
  <1>10. CASE GotPayload
    BY <1>1, <1>10, PayloadStep
  <1>11. CASE aim_readtlvchain_turn
    BY <1>1, <1>11, TurnStep
  <1>12. CASE ChainRead
    BY <1>1, <1>12, ChainReadStep
  <1>13. CASE NoMemory
    BY <1>1, <1>13, NoMemoryStep
  <1> QED
    BY <1>2, <1>3, <1>4, <1>5, <1>6, <1>7, <1>8, <1>9, <1>10, <1>11, <1>12, <1>13 DEF Next, Receives

LEMMA WireInvWholeFrames == WireInv => WholeFrames
  <1> SUFFICES ASSUME WireInv, NEW i \in 1..Len(parsed)
               PROVE  /\ parsed[i].seqnum \in 1..Len(sent)
                      /\ parsed[i].list = Expected(sent[parsed[i].seqnum])
                      /\ \A j \in 1..(i - 1) : parsed[j].seqnum < parsed[i].seqnum
    BY DEF WholeFrames
  <1>1. parsed[i] \in Reads
    BY ElementOfSeq DEF WireInv
  <1>2. parsed[i].seqnum \in 1..Len(sent) /\ parsed[i].list = Expected(sent[parsed[i].seqnum])
    BY <1>1 DEF Reads
  <1> QED
    BY <1>2 DEF WireInv, Ordered

\* No handler sees part of a frame or the bytes of two: whatever pieces send() and
\* recv() move the bytes in, and wherever the connection breaks, the chains that are
\* read are those of frames that were sent, each once, in order and whole (aim_recv and
\* aim_get_command in rxqueue.c, aim_readtlvchain in tlv.c).
THEOREM FramesWhole ==
    ASSUME Sound
    PROVE  Spec => []WholeFrames
  <1>1. Init => WireInv
    BY WireInit
  <1>2. WireInv /\ [Next]_vars => WireInv'
    BY WireStep
  <1>3. WireInv => WholeFrames
    BY WireInvWholeFrames
  <1> QED
    BY <1>1, <1>2, <1>3, PTL DEF Spec
=============================================================================
