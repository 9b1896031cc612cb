-------------------------- MODULE RendezvousProofs --------------------------
(***************************************************************************)
(* What holds of connections, their data and the message cookies for every *)
(* number of allocations and of cookie strings.                            *)
(***************************************************************************)
EXTENDS Rendezvous, SequenceTheorems, TLAPS

-----------------------------------------------------------------------------
(* Memories *)

IsAFun(f) == f = [x \in DOMAIN f |-> f[x]]

ConnMap(f) == IsAFun(f) /\ DOMAIN f \subseteq 1 .. MaxAllocs /\ \A c \in DOMAIN f : f[c] \in ConnT
HeapMap(f) == IsAFun(f) /\ DOMAIN f \subseteq 1 .. MaxAllocs /\ \A p \in DOMAIN f : f[p] \in ObjT

Accesses == {"freed twice", "used after free", "NULL followed"}

IsMem(m) ==
    /\ m = [conns |-> m.conns, heap |-> m.heap, cookies |-> m.cookies, bad |-> m.bad]
    /\ ConnMap(m.conns)
    /\ HeapMap(m.heap)
    /\ m.cookies \in Seq(CookieT)
    /\ m.bad \subseteq Accesses

\* UniqueCookies, of any memory.
Unique(m) ==
    \A i, j \in DOMAIN m.cookies :
        m.cookies[i].type = m.cookies[j].type /\ m.cookies[i].ck = m.cookies[j].ck => i = j

\* No two cookies have the same data.
Distinct(m) ==
    \A i, j \in DOMAIN m.cookies :
        m.cookies[i].data = m.cookies[j].data /\ m.cookies[i].data # NULL => i = j

\* The heap of r is that of m without the objects P.
HeapBut(m, r, P) ==
    /\ DOMAIN r.heap = DOMAIN m.heap \ P
    /\ \A q \in DOMAIN r.heap : r.heap[q] = m.heap[q]

\* The cookies of r are those of m, except for one whose data is p.
Thinned(m, r, p) ==
    /\ Unique(r)
    /\ Distinct(m) => Distinct(r) /\ \A i \in DOMAIN r.cookies : r.cookies[i].data = p => p = NULL
    /\ \A i \in DOMAIN r.cookies : \E k \in DOMAIN m.cookies : r.cookies[i] = m.cookies[k]
    /\ \A k \in DOMAIN m.cookies :
          m.cookies[k].data = p \/ \E i \in DOMAIN r.cookies : r.cookies[i] = m.cookies[k]
    /\ p \in Ptrs
    /\ p = NULL \/ \E k \in DOMAIN m.cookies : m.cookies[k].data = p

\* r is m without one cookie and the object that was its data, or m.
Sheds(m, r, p) ==
    /\ IsMem(r)
    /\ Thinned(m, r, p)
    /\ HeapBut(m, r, {p})
    /\ p = NULL \/ p \in DOMAIN m.heap => r.bad = m.bad

\* No cookie of m has this type and this string.
Lacks(m, ck, type) == \A i \in DOMAIN m.cookies : ~(m.cookies[i].type = type /\ m.cookies[i].ck = ck)

-----------------------------------------------------------------------------
(* Lemmas about the operators on functions and sequences *)

LEMMA WithFun ==
    ASSUME NEW f, NEW x, NEW v
    PROVE  /\ IsAFun(With(f, x, v))
           /\ DOMAIN With(f, x, v) = DOMAIN f \cup {x}
           /\ With(f, x, v)[x] = v
           /\ \A y \in DOMAIN f : y # x => With(f, x, v)[y] = f[y]
  BY DEF With, IsAFun

LEMMA WithoutFun ==
    ASSUME NEW f, NEW x
    PROVE  /\ IsAFun(Without(f, x))
           /\ DOMAIN Without(f, x) = DOMAIN f \ {x}
           /\ \A y \in DOMAIN f \ {x} : Without(f, x)[y] = f[y]
  BY DEF Without, IsAFun

\* Where the members of a list without its k-th member come from.
LEMMA RemoveAtMembers ==
    ASSUME NEW S, NEW s \in Seq(S), NEW k \in DOMAIN s
    PROVE  /\ RemoveAt(s, k) \in Seq(S)
           /\ Len(RemoveAt(s, k)) = Len(s) - 1
           /\ \A i \in 1 .. Len(s) - 1 : RemoveAt(s, k)[i] = s[IF i < k THEN i ELSE i + 1]
  <1> DEFINE a == SubSeq(s, 1, k - 1)
             b == SubSeq(s, k + 1, Len(s))
             r == RemoveAt(s, k)
  <1>1. k \in 1 .. Len(s) /\ Len(s) \in Nat
    OBVIOUS
  <1>2. /\ a \in Seq(S) /\ Len(a) = k - 1
        /\ \A i \in 1 .. k - 1 : a[i] = s[i]
    BY <1>1, SubSeqProperties
  <1>3. /\ b \in Seq(S) /\ Len(b) = Len(s) - k
        /\ \A i \in 1 .. Len(s) - k : b[i] = s[k + i]
    BY <1>1, SubSeqProperties
  <1>4. r = a \o b
    BY DEF RemoveAt
  <1> HIDE DEF a, b, r
  <1>5. /\ r \in Seq(S) /\ Len(r) = Len(a) + Len(b)
        /\ \A i \in 1 .. Len(a) + Len(b) : r[i] = IF i <= Len(a) THEN a[i] ELSE b[i - Len(a)]
    BY <1>2, <1>3, <1>4, ConcatProperties
  <1>6. ASSUME NEW i \in 1 .. Len(s) - 1
        PROVE  r[i] = s[IF i < k THEN i ELSE i + 1]
    <2>1. i \in 1 .. Len(a) + Len(b)
      <3>1. Len(a) + Len(b) = Len(s) - 1
        BY <1>1, <1>2, <1>3
      <3> QED
        BY <3>1
    <2>2. CASE i < k
      <3>1. i <= Len(a) /\ i \in 1 .. k - 1
        BY <1>1, <1>2, <2>2
      <3> QED
        BY <1>2, <1>5, <2>1, <2>2, <3>1
    <2>3. CASE ~(i < k)
      <3>1. i - (k - 1) \in 1 .. Len(s) - k /\ k + (i - (k - 1)) = i + 1 /\ ~(i <= k - 1)
        BY <1>1, <2>3
      <3>2. r[i] = b[i - (k - 1)]
        BY <1>2, <1>5, <2>1, <3>1
      <3>3. b[i - (k - 1)] = s[i + 1]
        BY <1>3, <3>1
      <3> QED
        BY <2>3, <3>2, <3>3
    <2> QED
      BY <2>2, <2>3
  <1>7. RemoveAt(s, k) = r
    BY DEF r
  <1>8. Len(r) = Len(s) - 1
    BY <1>1, <1>2, <1>3, <1>5
  <1> QED
    BY <1>5, <1>6, <1>7, <1>8

LEMMA PrependMembers ==
    ASSUME NEW S, NEW s \in Seq(S), NEW x \in S
    PROVE  /\ <<x>> \o s \in Seq(S)
           /\ Len(<<x>> \o s) = Len(s) + 1
           /\ (<<x>> \o s)[1] = x
           /\ \A i \in 2 .. Len(s) + 1 : (<<x>> \o s)[i] = s[i - 1]
  <1>1. <<x>> \in Seq(S) /\ Len(<<x>>) = 1 /\ <<x>>[1] = x /\ Len(s) \in Nat
    OBVIOUS
  <1> QED
    BY <1>1, ConcatProperties

-----------------------------------------------------------------------------
(* Lemmas about malloc() and free() *)

LEMMA NullPtr == NULL \in Ptrs /\ \A m : IsMem(m) => NULL \notin DOMAIN m.heap
  <1>1. NULL \in Ptrs
    <2>1. MaxAllocs \in Nat
      BY RendezvousAssumption, Zenon
    <2> QED
      BY <2>1 DEF Ptrs, NULL
  <1>2. \A m : IsMem(m) => NULL \notin DOMAIN m.heap
    BY DEF IsMem, HeapMap, NULL
  <1> QED
    BY <1>1, <1>2

LEMMA BadMem ==
    ASSUME NEW m, IsMem(m), NEW what \in Accesses
    PROVE  /\ IsMem(Bad(m, what))
           /\ Bad(m, what).conns = m.conns
           /\ Bad(m, what).heap = m.heap
           /\ Bad(m, what).cookies = m.cookies
  <1> DEFINE b == m.bad \cup {what}
  <1>1. Bad(m, what) = [m EXCEPT !.bad = b]
    BY DEF Bad
  <1>2. b \subseteq Accesses
    BY DEF IsMem
  <1> HIDE DEF b
  <1> QED
    BY <1>1, <1>2 DEF IsMem

\* free() takes one object from the heap, if it is there.
LEMMA FreeMem ==
    ASSUME NEW m, IsMem(m), NEW p \in Ptrs
    PROVE  /\ IsMem(Free(m, p))
           /\ Free(m, p).conns = m.conns
           /\ Free(m, p).cookies = m.cookies
           /\ HeapBut(m, Free(m, p), {p})
           /\ p = NULL \/ p \in DOMAIN m.heap => Free(m, p).bad = m.bad
  <1>1. CASE p = NULL
    <2>1. NULL \notin DOMAIN m.heap
      BY DEF IsMem, HeapMap, NULL
    <2> QED
      BY <1>1, <2>1 DEF Free, HeapBut
  <1>2. CASE p # NULL /\ p \in DOMAIN m.heap
    <2> DEFINE h == Without(m.heap, p)
    <2>1. Free(m, p) = [m EXCEPT !.heap = h]
      BY <1>2 DEF Free
    <2>2. HeapMap(h) /\ DOMAIN h = DOMAIN m.heap \ {p} /\ \A q \in DOMAIN h : h[q] = m.heap[q]
      <3>1. IsAFun(h) /\ DOMAIN h = DOMAIN m.heap \ {p} /\ \A q \in DOMAIN m.heap \ {p} : h[q] = m.heap[q]
        BY WithoutFun
      <3> QED
        BY <3>1 DEF IsMem, HeapMap
    <2> HIDE DEF h
    <2> QED
      BY <2>1, <2>2 DEF IsMem, HeapBut
  <1>3. CASE p # NULL /\ p \notin DOMAIN m.heap
    <2>1. Free(m, p) = Bad(m, "freed twice")
      BY <1>3 DEF Free
    <2>2. "freed twice" \in Accesses
      BY DEF Accesses
    <2> QED
      BY <1>3, <2>1, <2>2, BadMem DEF HeapBut
  <1> QED
    BY <1>1, <1>2, <1>3

\* A new object.
Puts(m, k, p, o) ==
    /\ IsMem(k) /\ k.conns = m.conns /\ k.cookies = m.cookies /\ k.bad = m.bad
    /\ DOMAIN k.heap = DOMAIN m.heap \cup {p} /\ k.heap[p] = o
    /\ \A q \in DOMAIN m.heap : q # p => k.heap[q] = m.heap[q]

LEMMA PutMem ==
    ASSUME NEW m, IsMem(m), NEW p \in 1 .. MaxAllocs, NEW o \in ObjT
    PROVE  Puts(m, Put(m, p, o), p, o)
  <1> DEFINE h == With(m.heap, p, o)
  <1>1. Put(m, p, o) = [m EXCEPT !.heap = h]
    BY DEF Put
  <1>2. IsAFun(h) /\ DOMAIN h = DOMAIN m.heap \cup {p} /\ h[p] = o
        /\ \A q \in DOMAIN m.heap : q # p => h[q] = m.heap[q]
    BY DEF With, IsAFun
  <1> HIDE DEF h
  <1>3. HeapMap(h)
    BY <1>2 DEF IsMem, HeapMap
  <1> QED
    BY <1>1, <1>2, <1>3 DEF IsMem, Puts

\* A new connection.
LEMMA AddConnMem ==
    ASSUME NEW m, IsMem(m), NEW c \in 1 .. MaxAllocs, NEW conn \in ConnT
    PROVE  /\ IsMem(AddConn(m, c, conn))
           /\ AddConn(m, c, conn).heap = m.heap
           /\ AddConn(m, c, conn).cookies = m.cookies
           /\ AddConn(m, c, conn).bad = m.bad
           /\ DOMAIN AddConn(m, c, conn).conns = DOMAIN m.conns \cup {c}
           /\ AddConn(m, c, conn).conns[c] = conn
           /\ \A d \in DOMAIN m.conns : d # c => AddConn(m, c, conn).conns[d] = m.conns[d]
  <1> DEFINE f == With(m.conns, c, conn)
  <1>1. AddConn(m, c, conn) = [m EXCEPT !.conns = f]
    BY DEF AddConn
  <1>2. IsAFun(f) /\ DOMAIN f = DOMAIN m.conns \cup {c} /\ f[c] = conn
        /\ \A d \in DOMAIN m.conns : d # c => f[d] = m.conns[d]
    BY DEF With, IsAFun
  <1> HIDE DEF f
  <1>3. ConnMap(f)
    BY <1>2 DEF IsMem, ConnMap
  <1> QED
    BY <1>1, <1>2, <1>3 DEF IsMem

\* An assignment to a connection.
LEMMA SetConnMem ==
    ASSUME NEW m, IsMem(m), NEW c \in DOMAIN m.conns, NEW conn \in ConnT
    PROVE  /\ IsMem([m EXCEPT !.conns[c] = conn])
           /\ [m EXCEPT !.conns[c] = conn].heap = m.heap
           /\ [m EXCEPT !.conns[c] = conn].cookies = m.cookies
           /\ [m EXCEPT !.conns[c] = conn].bad = m.bad
           /\ DOMAIN [m EXCEPT !.conns[c] = conn].conns = DOMAIN m.conns
           /\ [m EXCEPT !.conns[c] = conn].conns[c] = conn
           /\ \A d \in DOMAIN m.conns : d # c => [m EXCEPT !.conns[c] = conn].conns[d] = m.conns[d]
  <1> DEFINE f == [m.conns EXCEPT ![c] = conn]
  <1>1. [m EXCEPT !.conns[c] = conn] = [m EXCEPT !.conns = f]
    BY DEF IsMem
  <1>2. IsAFun(f) /\ DOMAIN f = DOMAIN m.conns /\ f[c] = conn
        /\ \A d \in DOMAIN m.conns : d # c => f[d] = m.conns[d]
    BY DEF IsMem, ConnMap, IsAFun
  <1> HIDE DEF f
  <1>3. ConnMap(f)
    BY <1>2 DEF IsMem, ConnMap
  <1> QED
    BY <1>1, <1>2, <1>3 DEF IsMem

-----------------------------------------------------------------------------
(* Lemmas about the list of cookies *)

LEMMA SetCookiesMem ==
    ASSUME NEW m, IsMem(m), NEW s \in Seq(CookieT)
    PROVE  /\ IsMem([m EXCEPT !.cookies = s])
           /\ [m EXCEPT !.cookies = s].conns = m.conns
           /\ [m EXCEPT !.cookies = s].heap = m.heap
           /\ [m EXCEPT !.cookies = s].bad = m.bad
           /\ [m EXCEPT !.cookies = s].cookies = s
  BY DEF IsMem

LEMMA CookieData ==
    ASSUME NEW m, IsMem(m), NEW k \in DOMAIN m.cookies
    PROVE  m.cookies[k] \in CookieT /\ m.cookies[k].data \in Ptrs
  <1>1. m.cookies[k] \in CookieT
    BY DEF IsMem
  <1> QED
    BY <1>1 DEF CookieT

\* A list of distinct cookies without its k-th.
LEMMA RemoveCookie ==
    ASSUME NEW m, IsMem(m), Unique(m), NEW k \in DOMAIN m.cookies,
           NEW r, r.cookies = RemoveAt(m.cookies, k)
    PROVE  /\ Thinned(m, r, m.cookies[k].data)
           /\ Lacks(r, m.cookies[k].ck, m.cookies[k].type)
  <1> DEFINE s == m.cookies
             t == r.cookies
             From(i) == IF i < k THEN i ELSE i + 1
             p == s[k].data
  <1>1. s \in Seq(CookieT) /\ k \in 1 .. Len(s) /\ Len(s) \in Nat /\ DOMAIN s = 1 .. Len(s)
    BY DEF IsMem
  <1>2. /\ t \in Seq(CookieT) /\ Len(t) = Len(s) - 1
        /\ \A i \in 1 .. Len(s) - 1 : t[i] = s[From(i)]
    BY <1>1, RemoveAtMembers
  <1>3. DOMAIN t = 1 .. Len(s) - 1
    BY <1>2
  <1>4. \A i \in DOMAIN t : From(i) \in DOMAIN s /\ From(i) # k /\ t[i] = s[From(i)]
    <2>1. \A i \in 1 .. Len(s) - 1 : From(i) \in 1 .. Len(s) /\ From(i) # k
      BY <1>1
    <2> QED
      BY <1>1, <1>2, <1>3, <2>1
  <1>5. \A i, j \in DOMAIN t : From(i) = From(j) => i = j
    BY <1>1, <1>3
  <1>6. \A j \in DOMAIN s \ {k} : \E i \in DOMAIN t : From(i) = j
    <2> SUFFICES ASSUME NEW j \in DOMAIN s \ {k} PROVE \E i \in DOMAIN t : From(i) = j
      OBVIOUS
    <2>1. CASE j < k
      BY <1>1, <1>3, <2>1
    <2>2. CASE ~(j < k)
      <3>1. j - 1 \in DOMAIN t /\ From(j - 1) = j
        BY <1>1, <1>3, <2>2
      <3> QED
        BY <3>1
    <2> QED
      BY <2>1, <2>2
  <1>7. p \in Ptrs
    BY CookieData
  <1> HIDE DEF From
  <1>8. Unique(r)
    <2> SUFFICES ASSUME NEW i \in DOMAIN t, NEW j \in DOMAIN t, t[i].type = t[j].type, t[i].ck = t[j].ck
                 PROVE  i = j
      BY DEF Unique
    <2>1. From(i) = From(j)
      BY <1>4 DEF Unique
    <2> QED
      BY <1>5, <2>1
  <1>9. ASSUME Distinct(m)
        PROVE  Distinct(r) /\ \A i \in DOMAIN t : t[i].data = p => p = NULL
    <2>1. ASSUME NEW i \in DOMAIN t, NEW j \in DOMAIN t, t[i].data = t[j].data, t[i].data # NULL
          PROVE  i = j
      <3>1. From(i) = From(j)
        BY <1>4, <1>9, <2>1 DEF Distinct
      <3> QED
        BY <1>5, <3>1
    <2>2. ASSUME NEW i \in DOMAIN t, t[i].data = p, p # NULL
          PROVE  FALSE
      <3>1. From(i) = k
        BY <1>4, <1>9, <2>2 DEF Distinct
      <3> QED
        BY <1>4, <3>1
    <2> QED
      BY <2>1, <2>2 DEF Distinct
  <1>10. \A i \in DOMAIN t : \E j \in DOMAIN s : t[i] = s[j]
    BY <1>4
  <1>11. \A j \in DOMAIN s : s[j].data = p \/ \E i \in DOMAIN t : t[i] = s[j]
    BY <1>4, <1>6
  <1>12. Thinned(m, r, p)
    BY <1>7, <1>8, <1>9, <1>10, <1>11 DEF Thinned
  <1>13. Lacks(r, s[k].ck, s[k].type)
    <2> SUFFICES ASSUME NEW i \in DOMAIN t, t[i].type = s[k].type, t[i].ck = s[k].ck PROVE FALSE
      BY DEF Lacks
    <2>1. From(i) = k
      BY <1>4 DEF Unique
    <2> QED
      BY <1>4, <2>1
  <1> QED
    BY <1>12, <1>13

\* Taking a cookie from the list leaves none like it, and frees its data only.
LEMMA UncacheMem ==
    ASSUME NEW m, IsMem(m), Unique(m), NEW ck, NEW type
    PROVE  /\ aim_uncachecookie(m, ck, type).conns = m.conns
           /\ Lacks(aim_uncachecookie(m, ck, type), ck, type)
           /\ \E p \in Ptrs : Sheds(m, aim_uncachecookie(m, ck, type), p)
  <1> DEFINE at == aim_checkcookie(m, ck, type)
             r == aim_uncachecookie(m, ck, type)
  <1>1. CASE at = {}
    <2>1. r = m
      BY <1>1 DEF aim_uncachecookie
    <2>2. NULL \in Ptrs /\ NULL \notin DOMAIN m.heap
      BY NullPtr
    <2>3. Sheds(m, m, NULL)
      BY <2>2 DEF Sheds, Thinned, HeapBut
    <2>4. Lacks(m, ck, type)
      BY <1>1 DEF Lacks, aim_checkcookie
    <2> QED
      BY <2>1, <2>2, <2>3, <2>4
  <1>2. CASE at # {}
    <2>1. PICK k \in at : TRUE
      BY <1>2
    <2>2. k \in DOMAIN m.cookies /\ m.cookies[k].type = type /\ m.cookies[k].ck = ck
      BY <2>1 DEF aim_checkcookie
    <2>3. at = {k}
      BY <2>1, <2>2 DEF aim_checkcookie, Unique
    <2>4. First(at) = k
      <3>1. k \in Nat
        BY <2>2 DEF IsMem
      <3> QED
        BY <2>3, <3>1 DEF First
    <2> DEFINE p == m.cookies[k].data
               s == RemoveAt(m.cookies, k)
               m1 == [m EXCEPT !.cookies = s]
    <2>5. r = Free(m1, p)
      BY <1>2, <2>4 DEF aim_uncachecookie
    <2>6. s \in Seq(CookieT)
      BY <2>2, RemoveAtMembers DEF IsMem
    <2>7. p \in Ptrs
      BY <2>2, CookieData
    <2>8. /\ IsMem(m1) /\ m1.conns = m.conns /\ m1.heap = m.heap /\ m1.bad = m.bad /\ m1.cookies = s
      BY <2>6, SetCookiesMem
    <2> HIDE DEF m1
    <2>9. /\ IsMem(r) /\ r.conns = m.conns /\ r.cookies = s
          /\ HeapBut(m, r, {p})
          /\ p = NULL \/ p \in DOMAIN m.heap => r.bad = m.bad
      BY <2>5, <2>7, <2>8, FreeMem DEF HeapBut
    <2>10. Thinned(m, r, p) /\ Lacks(r, ck, type)
      BY <2>2, <2>9, RemoveCookie
    <2> QED
      BY <2>7, <2>9, <2>10 DEF Sheds
  <1> QED
    BY <1>1, <1>2

\* r is m with the new cookie, and without the one it replaces and its data p.
Caches(m, r, new, p) ==
    /\ IsMem(r) /\ Unique(r) /\ r.conns = m.conns
    /\ HeapBut(m, r, {p})
    /\ p = NULL \/ p \in DOMAIN m.heap => r.bad = m.bad
    /\ p \in Ptrs
    /\ p = NULL \/ \E k \in DOMAIN m.cookies : m.cookies[k].data = p
    /\ Distinct(m) /\ (new.data = NULL \/ \A k \in DOMAIN m.cookies : m.cookies[k].data # new.data) =>
          Distinct(r) /\ \A i \in DOMAIN r.cookies : r.cookies[i].data = p => p = NULL
    /\ \A i \in DOMAIN r.cookies : \/ r.cookies[i] = new
                                   \/ \E k \in DOMAIN m.cookies : r.cookies[i] = m.cookies[k]
    /\ \A k \in DOMAIN m.cookies :
          m.cookies[k].data = p \/ \E i \in DOMAIN r.cookies : r.cookies[i] = m.cookies[k]
    /\ \E i \in DOMAIN r.cookies : r.cookies[i] = new

CookieTypes == {"OFTIM", "OFTSEND", "CHAT", "INVITE"}

LEMMA CacheMem ==
    ASSUME NEW m, IsMem(m), Unique(m),
           NEW type \in CookieTypes, NEW ck \in Cks, NEW data \in Ptrs
    PROVE  \E p \in Ptrs :
              Caches(m, aim_cachecookie(m, type, ck, data), [type |-> type, ck |-> ck, data |-> data], p)
  <1> DEFINE new == [type |-> type, ck |-> ck, data |-> data]
             m1 == aim_cookie_free(m, ck, type)
             s == <<new>> \o m1.cookies
             r == aim_cachecookie(m, type, ck, data)
  <1>1. m1.conns = m.conns /\ Lacks(m1, ck, type)
    BY UncacheMem DEF aim_cookie_free
  <1>2. PICK p \in Ptrs : Sheds(m, m1, p)
    BY UncacheMem DEF aim_cookie_free
  <1>3. new \in CookieT /\ new.type = type /\ new.ck = ck /\ new.data = data
    BY DEF CookieT, CookieTypes
  <1>4. IsMem(m1) /\ Thinned(m, m1, p) /\ HeapBut(m, m1, {p})
        /\ (p = NULL \/ p \in DOMAIN m.heap => m1.bad = m.bad)
    BY <1>2 DEF Sheds
  <1>5. r = [m1 EXCEPT !.cookies = s]
    BY DEF aim_cachecookie
  <1> HIDE DEF m1, new
  <1> DEFINE old == m1.cookies
  <1>6. old \in Seq(CookieT) /\ DOMAIN old = 1 .. Len(old) /\ Len(old) \in Nat
    BY <1>4 DEF IsMem
  <1>7. /\ s \in Seq(CookieT) /\ Len(s) = Len(old) + 1 /\ s[1] = new
        /\ \A i \in 2 .. Len(old) + 1 : s[i] = old[i - 1]
    BY <1>3, <1>6, PrependMembers
  <1>8. DOMAIN s = 1 .. Len(old) + 1
    BY <1>7
  <1> HIDE DEF s
  <1>9. /\ IsMem(r) /\ r.conns = m1.conns /\ r.heap = m1.heap /\ r.bad = m1.bad /\ r.cookies = s
    BY <1>4, <1>5, <1>7, SetCookiesMem
  <1>10. \A i \in DOMAIN s : i # 1 => i - 1 \in DOMAIN old /\ s[i] = old[i - 1]
    BY <1>6, <1>7, <1>8
  <1>11. \A j \in DOMAIN old : j + 1 \in DOMAIN s /\ s[j + 1] = old[j]
    <2> SUFFICES ASSUME NEW j \in DOMAIN old PROVE j + 1 \in DOMAIN s /\ s[j + 1] = old[j]
      OBVIOUS
    <2>1. j + 1 \in 2 .. Len(old) + 1 /\ (j + 1) - 1 = j
      BY <1>6
    <2> QED
      BY <1>7, <1>8, <2>1
  <1>12. 1 \in DOMAIN s /\ \A i, j \in DOMAIN s : i - 1 = j - 1 => i = j
    BY <1>6, <1>8
  <1> HIDE DEF old
  <1>13. Unique(r)
    <2> SUFFICES ASSUME NEW i \in DOMAIN s, NEW j \in DOMAIN s, s[i].type = s[j].type, s[i].ck = s[j].ck
                 PROVE  i = j
      BY <1>9 DEF Unique
    <2>1. i # 1 /\ j # 1 => i - 1 = j - 1
      BY <1>4, <1>10 DEF Thinned, Unique, old
    <2>2. i = 1 <=> j = 1
      BY <1>1, <1>3, <1>7, <1>10 DEF Lacks, old
    <2> QED
      BY <1>12, <2>1, <2>2
  <1>14. ASSUME Distinct(m), data = NULL \/ \A k \in DOMAIN m.cookies : m.cookies[k].data # data
         PROVE  Distinct(r) /\ \A i \in DOMAIN s : s[i].data = p => p = NULL
    <2>1. /\ \A i, j \in DOMAIN old : old[i].data = old[j].data /\ old[i].data # NULL => i = j
          /\ \A i \in DOMAIN old : old[i].data = p => p = NULL
          /\ \A i \in DOMAIN old : \E k \in DOMAIN m.cookies : old[i] = m.cookies[k]
          /\ p = NULL \/ \E k \in DOMAIN m.cookies : m.cookies[k].data = p
      BY <1>4, <1>14 DEF Thinned, Distinct, old
    <2>2. data = NULL \/ \A i \in DOMAIN old : old[i].data # data
      BY <1>14, <2>1
    <2>3. ASSUME NEW i \in DOMAIN s, NEW j \in DOMAIN s, s[i].data = s[j].data, s[i].data # NULL
          PROVE  i = j
      <3>1. i # 1 /\ j # 1 => i - 1 = j - 1
        BY <1>10, <2>1, <2>3
      <3>2. i = 1 <=> j = 1
        BY <1>3, <1>7, <1>10, <2>2, <2>3
      <3> QED
        BY <1>12, <3>1, <3>2
    <2>4. ASSUME NEW i \in DOMAIN s, s[i].data = p
          PROVE  p = NULL
      <3>1. CASE i = 1
        BY <1>3, <1>7, <1>14, <2>1, <2>4, <3>1
      <3>2. CASE i # 1
        BY <1>10, <2>1, <2>4, <3>2
      <3> QED
        BY <3>1, <3>2
    <2> QED
      BY <1>9, <2>3, <2>4 DEF Distinct
  <1>15. \A i \in DOMAIN s : s[i] = new \/ \E k \in DOMAIN m.cookies : s[i] = m.cookies[k]
    BY <1>4, <1>7, <1>10 DEF Thinned, old
  <1>16. \A k \in DOMAIN m.cookies : m.cookies[k].data = p \/ \E i \in DOMAIN s : s[i] = m.cookies[k]
    BY <1>4, <1>11 DEF Thinned, old
  <1>17. \E i \in DOMAIN s : s[i] = new
    BY <1>7, <1>12
  <1>18. p = NULL \/ \E k \in DOMAIN m.cookies : m.cookies[k].data = p
    BY <1>4 DEF Thinned
  <1>19. HeapBut(m, r, {p})
    BY <1>4, <1>9 DEF HeapBut
  <1>20. Caches(m, r, new, p)
    BY <1>1, <1>3, <1>4, <1>9, <1>13, <1>14, <1>15, <1>16, <1>17, <1>18, <1>19 DEF Caches
  <1> QED
    BY <1>20 DEF new

-----------------------------------------------------------------------------
(* Lemmas about teardown *)

\* r is m after c was closed, which has taken a cookie and its data p.
Closes(m, r, c, p) ==
    /\ IsMem(r)
    /\ DOMAIN r.conns = DOMAIN m.conns
    /\ r.conns[c] = [m.conns[c] EXCEPT !.open = FALSE]
    /\ \A d \in DOMAIN m.conns \ {c} : r.conns[d] = m.conns[d]
    /\ Thinned(m, r, p)
    /\ HeapBut(m, r, {p})
    /\ (p = NULL \/ p \in DOMAIN m.heap)
       /\ (m.conns[c].type = "rend" => m.conns[c].internal \in DOMAIN m.heap) => r.bad = m.bad
    /\ m.conns[c].type = "rend" /\ m.conns[c].subtype = "directim"
       /\ m.conns[c].internal \in DOMAIN m.heap => Lacks(r, m.heap[m.conns[c].internal].ck, "OFTIM")
    /\ ~(m.conns[c].type = "rend" /\ m.conns[c].subtype = "directim") => p = NULL /\ r.cookies = m.cookies

LEMMA Unthinned == ASSUME NEW m, IsMem(m), Unique(m) PROVE Thinned(m, m, NULL) /\ HeapBut(m, m, {NULL})
  BY NullPtr DEF Thinned, HeapBut

LEMMA ConnTypes ==
    ASSUME NEW m, IsMem(m), NEW c \in DOMAIN m.conns
    PROVE  /\ m.conns[c] \in ConnT
           /\ [m.conns[c] EXCEPT !.open = FALSE] \in ConnT
           /\ m.conns[c].internal \in Ptrs /\ m.conns[c].priv \in Ptrs
  <1>1. m.conns[c] \in ConnT
    BY DEF IsMem, ConnMap
  <1> QED
    BY <1>1 DEF ConnT

LEMMA CloseMem ==
    ASSUME NEW m, IsMem(m), Unique(m), NEW c \in DOMAIN m.conns
    PROVE  \E p \in Ptrs : Closes(m, aim_conn_close(m, c), c, p)
  <1> DEFINE conn == [m.conns[c] EXCEPT !.open = FALSE]
             m1 == [m EXCEPT !.conns[c] = conn]
             r == aim_conn_close(m, c)
             q == m.conns[c].internal
  <1>1. [m EXCEPT !.conns[c].open = FALSE] = m1
    BY DEF IsMem, ConnMap, IsAFun
  <1>2. conn \in ConnT
    BY ConnTypes
  <1>3. /\ conn.type = m.conns[c].type /\ conn.subtype = m.conns[c].subtype
        /\ conn.internal = q /\ conn.priv = m.conns[c].priv
    BY ConnTypes DEF ConnT
  <1> HIDE DEF conn
  <1>4. /\ IsMem(m1) /\ m1.heap = m.heap /\ m1.cookies = m.cookies /\ m1.bad = m.bad
        /\ DOMAIN m1.conns = DOMAIN m.conns /\ m1.conns[c] = conn
        /\ \A d \in DOMAIN m.conns : d # c => m1.conns[d] = m.conns[d]
    BY <1>2, SetConnMem
  <1> HIDE DEF m1
  <1>5. Unique(m1)
    BY <1>4 DEF Unique
  <1>6. r = aim_conn_close_rend(m1, c)
    BY <1>1 DEF aim_conn_close
  <1>7. Thinned(m, m, NULL) /\ HeapBut(m, m, {NULL}) /\ NULL \in Ptrs
    BY Unthinned, NullPtr
  <1>8. CASE ~(m.conns[c].type = "rend" /\ m.conns[c].subtype = "directim")
    <2>1. r = m1
      BY <1>3, <1>4, <1>6, <1>8 DEF aim_conn_close_rend
    <2>2. Thinned(m, m1, NULL) /\ HeapBut(m, m1, {NULL})
      BY <1>4, <1>7 DEF Thinned, HeapBut, Unique, Distinct
    <2>3. Closes(m, r, c, NULL)
      BY <1>4, <1>8, <2>1, <2>2 DEF Closes, conn
    <2> QED
      BY <1>7, <2>3
  <1>9. CASE m.conns[c].type = "rend" /\ m.conns[c].subtype = "directim" /\ q \notin DOMAIN m.heap
    <2>1. PICK what \in Accesses : r = Bad(m1, what)
      BY <1>3, <1>4, <1>6, <1>9 DEF aim_conn_close_rend, Follow, Accesses
    <2>2. /\ IsMem(r) /\ r.conns = m1.conns /\ r.heap = m.heap /\ r.cookies = m.cookies
      BY <1>4, <2>1, BadMem
    <2>3. Thinned(m, r, NULL) /\ HeapBut(m, r, {NULL})
      BY <1>7, <2>2 DEF Thinned, HeapBut, Unique, Distinct
    <2>4. Closes(m, r, c, NULL)
      BY <1>4, <1>9, <2>2, <2>3 DEF Closes, conn
    <2> QED
      BY <1>7, <2>4
  <1>10. CASE m.conns[c].type = "rend" /\ m.conns[c].subtype = "directim" /\ q \in DOMAIN m.heap
    <2> DEFINE ck == m.heap[q].ck
    <2>1. q # NULL
      BY <1>10, NullPtr
    <2>2. r = aim_uncachecookie(m1, ck, "OFTIM")
      BY <1>3, <1>4, <1>6, <1>10, <2>1 DEF aim_conn_close_rend, Follow
    <2>3. r.conns = m1.conns /\ Lacks(r, ck, "OFTIM")
      BY <1>4, <1>5, <2>2, UncacheMem
    <2>4. PICK p \in Ptrs : Sheds(m1, r, p)
      BY <1>4, <1>5, <2>2, UncacheMem
    <2>5. /\ IsMem(r) /\ Thinned(m1, r, p) /\ HeapBut(m1, r, {p})
          /\ p = NULL \/ p \in DOMAIN m.heap => r.bad = m.bad
      BY <1>4, <2>4 DEF Sheds
    <2>6. Thinned(m, r, p) /\ HeapBut(m, r, {p})
      BY <1>4, <2>5 DEF Thinned, HeapBut, Distinct
    <2>7. Closes(m, r, c, p)
      BY <1>4, <1>10, <2>3, <2>5, <2>6 DEF Closes, conn
    <2> QED
      BY <2>7
  <1> QED
    BY <1>8, <1>9, <1>10

\* r is m after c was killed: what c owned is gone, and a cookie with its data p.
Kills(m, r, c, p) ==
    /\ IsMem(r)
    /\ DOMAIN r.conns = DOMAIN m.conns \ {c}
    /\ \A d \in DOMAIN m.conns \ {c} : r.conns[d] = m.conns[d]
    /\ Thinned(m, r, p)
    /\ HeapBut(m, r, {p, m.conns[c].priv, IF m.conns[c].type = "rend" THEN m.conns[c].internal ELSE NULL})
    /\ (p = NULL \/ p \in DOMAIN m.heap) /\ m.conns[c].priv = NULL
       /\ (m.conns[c].type = "rend" => m.conns[c].internal \in DOMAIN m.heap \ {p}) => r.bad = m.bad
    /\ m.conns[c].open /\ m.conns[c].type = "rend" /\ m.conns[c].subtype = "directim"
       /\ m.conns[c].internal \in DOMAIN m.heap => Lacks(r, m.heap[m.conns[c].internal].ck, "OFTIM")
    /\ ~(m.conns[c].open /\ m.conns[c].type = "rend" /\ m.conns[c].subtype = "directim") =>
          p = NULL /\ r.cookies = m.cookies

LEMMA SetConnsMem ==
    ASSUME NEW m, IsMem(m), NEW f, ConnMap(f)
    PROVE  /\ IsMem([m EXCEPT !.conns = f])
           /\ [m EXCEPT !.conns = f].heap = m.heap
           /\ [m EXCEPT !.conns = f].cookies = m.cookies
           /\ [m EXCEPT !.conns = f].bad = m.bad
           /\ [m EXCEPT !.conns = f].conns = f
  BY DEF IsMem

\* The name of a chat room is reached through ->priv, which has been freed before.
LEMMA KillChatMem ==
    ASSUME NEW m, IsMem(m), NEW c \in DOMAIN m.conns, m.conns[c].priv \notin DOMAIN m.heap
    PROVE  /\ IsMem(aim_conn_kill_chat(m, c))
           /\ aim_conn_kill_chat(m, c).conns = m.conns
           /\ aim_conn_kill_chat(m, c).heap = m.heap
           /\ aim_conn_kill_chat(m, c).cookies = m.cookies
           /\ m.conns[c].priv = NULL => aim_conn_kill_chat(m, c).bad = m.bad
  <1> DEFINE q == m.conns[c].priv
  <1>1. CASE q = NULL \/ m.conns[c].type # "chat"
    <2>1. aim_conn_kill_chat(m, c) = m
      BY <1>1 DEF aim_conn_kill_chat
    <2> QED
      BY <2>1
  <1>2. CASE q # NULL /\ m.conns[c].type = "chat"
    <2>1. aim_conn_kill_chat(m, c) = Bad(m, "used after free")
      BY <1>2 DEF aim_conn_kill_chat, Follow
    <2>2. "used after free" \in Accesses
      BY DEF Accesses
    <2> QED
      BY <1>2, <2>1, <2>2, BadMem
  <1> QED
    BY <1>1, <1>2

LEMMA KillMem ==
    ASSUME NEW m, IsMem(m), Unique(m), NEW c \in DOMAIN m.conns
    PROVE  \E p \in Ptrs : Kills(m, connkill_real(m, c), c, p)
  <1> DEFINE conn == m.conns[c]
             q == IF conn.type = "rend" THEN conn.internal ELSE NULL
             closed == IF conn.open THEN aim_conn_close(m, c) ELSE m
             freed == Free(closed, conn.priv)
             ended == aim_conn_kill_rend(freed, c)
             gone == aim_conn_kill_chat(ended, c)
             r == connkill_real(m, c)
  <1>1. conn \in ConnT /\ conn.internal \in Ptrs /\ conn.priv \in Ptrs /\ q \in Ptrs
    BY ConnTypes, NullPtr
  <1>2. \E p \in Ptrs :
           /\ IsMem(closed) /\ DOMAIN closed.conns = DOMAIN m.conns
           /\ \A d \in DOMAIN m.conns \ {c} : closed.conns[d] = m.conns[d]
           /\ closed.conns[c].type = conn.type /\ closed.conns[c].internal = conn.internal
           /\ closed.conns[c].priv = conn.priv
           /\ Thinned(m, closed, p) /\ HeapBut(m, closed, {p})
           /\ (p = NULL \/ p \in DOMAIN m.heap)
              /\ (conn.type = "rend" => conn.internal \in DOMAIN m.heap) => closed.bad = m.bad
           /\ conn.open /\ conn.type = "rend" /\ conn.subtype = "directim"
              /\ conn.internal \in DOMAIN m.heap => Lacks(closed, m.heap[conn.internal].ck, "OFTIM")
           /\ ~(conn.open /\ conn.type = "rend" /\ conn.subtype = "directim") =>
                 p = NULL /\ closed.cookies = m.cookies
    <2>1. CASE conn.open
      <3>1. closed = aim_conn_close(m, c)
        BY <2>1
      <3> HIDE DEF closed
      <3>2. PICK p \in Ptrs : Closes(m, closed, c, p)
        BY <3>1, CloseMem
      <3>3. closed.conns[c] = [conn EXCEPT !.open = FALSE]
        BY <3>2 DEF Closes
      <3>4. closed.conns[c].type = conn.type /\ closed.conns[c].internal = conn.internal
            /\ closed.conns[c].priv = conn.priv
        BY <1>1, <3>3 DEF ConnT
      <3> QED
        BY <2>1, <3>2, <3>4 DEF Closes
    <2>2. CASE ~conn.open
      <3>1. closed = m
        BY <2>2
      <3> HIDE DEF closed
      <3>2. Thinned(m, m, NULL) /\ HeapBut(m, m, {NULL}) /\ NULL \in Ptrs
        BY Unthinned, NullPtr
      <3> QED
        BY <2>2, <3>1, <3>2
    <2> QED
      BY <2>1, <2>2
  <1> HIDE DEF closed
  <1>3. PICK p \in Ptrs :
           /\ IsMem(closed) /\ DOMAIN closed.conns = DOMAIN m.conns
           /\ \A d \in DOMAIN m.conns \ {c} : closed.conns[d] = m.conns[d]
           /\ closed.conns[c].type = conn.type /\ closed.conns[c].internal = conn.internal
           /\ closed.conns[c].priv = conn.priv
           /\ Thinned(m, closed, p) /\ HeapBut(m, closed, {p})
           /\ (p = NULL \/ p \in DOMAIN m.heap)
              /\ (conn.type = "rend" => conn.internal \in DOMAIN m.heap) => closed.bad = m.bad
           /\ conn.open /\ conn.type = "rend" /\ conn.subtype = "directim"
              /\ conn.internal \in DOMAIN m.heap => Lacks(closed, m.heap[conn.internal].ck, "OFTIM")
           /\ ~(conn.open /\ conn.type = "rend" /\ conn.subtype = "directim") =>
                 p = NULL /\ closed.cookies = m.cookies
    BY <1>2
  <1>4. /\ IsMem(freed) /\ freed.conns = closed.conns /\ freed.cookies = closed.cookies
        /\ HeapBut(closed, freed, {conn.priv})
        /\ conn.priv = NULL => freed.bad = closed.bad
    BY <1>1, <1>3, FreeMem
  <1> HIDE DEF freed
  <1>5. ended = Free(freed, q)
    <2>1. CASE conn.type = "rend"
      BY <1>3, <1>4, <2>1 DEF aim_conn_kill_rend
    <2>2. CASE conn.type # "rend"
      <3>1. NULL \notin DOMAIN freed.heap
        BY <1>4, NullPtr
      <3> QED
        BY <1>3, <1>4, <2>2, <3>1 DEF aim_conn_kill_rend, Free
    <2> QED
      BY <2>1, <2>2
  <1> HIDE DEF q
  <1>6. /\ IsMem(ended) /\ ended.conns = closed.conns /\ ended.cookies = closed.cookies
        /\ HeapBut(freed, ended, {q})
        /\ q = NULL \/ q \in DOMAIN freed.heap => ended.bad = freed.bad
    BY <1>1, <1>4, <1>5, FreeMem
  <1> HIDE DEF ended
  <1>7. /\ IsMem(gone) /\ gone.conns = closed.conns /\ gone.cookies = closed.cookies /\ gone.heap = ended.heap
        /\ conn.priv = NULL => gone.bad = ended.bad
    <2>1. conn.priv \notin DOMAIN ended.heap
      BY <1>4, <1>6 DEF HeapBut
    <2> QED
      BY <1>3, <1>6, <2>1, KillChatMem
  <1> DEFINE f == Without(gone.conns, c)
  <1>8. r = [gone EXCEPT !.conns = f]
    BY DEF connkill_real, closed, freed, ended
  <1> HIDE DEF gone
  <1>9. /\ IsAFun(f) /\ DOMAIN f = DOMAIN m.conns \ {c}
        /\ \A d \in DOMAIN m.conns \ {c} : f[d] = m.conns[d]
    BY <1>3, <1>7 DEF Without, IsAFun
  <1>10. ConnMap(f)
    BY <1>9 DEF IsMem, ConnMap
  <1> HIDE DEF f
  <1>11. /\ IsMem(r) /\ r.conns = f /\ r.cookies = closed.cookies /\ r.heap = ended.heap /\ r.bad = gone.bad
    BY <1>7, <1>8, <1>10, SetConnsMem
  <1>12. HeapBut(m, r, {p, conn.priv, q})
    BY <1>3, <1>4, <1>6, <1>11 DEF HeapBut
  <1>13. Thinned(m, r, p)
    BY <1>3, <1>11 DEF Thinned, Unique, Distinct
  <1>14. ASSUME p = NULL \/ p \in DOMAIN m.heap, conn.priv = NULL,
                conn.type = "rend" => conn.internal \in DOMAIN m.heap \ {p}
         PROVE  r.bad = m.bad
    <2>1. NULL \notin DOMAIN m.heap
      BY NullPtr
    <2>2. q = NULL \/ q \in DOMAIN freed.heap
      BY <1>3, <1>4, <1>14, <2>1 DEF HeapBut, q
    <2> QED
      BY <1>3, <1>4, <1>6, <1>7, <1>11, <1>14, <2>2
  <1>15. conn.open /\ conn.type = "rend" /\ conn.subtype = "directim" /\ conn.internal \in DOMAIN m.heap
            => Lacks(r, m.heap[conn.internal].ck, "OFTIM")
    BY <1>3, <1>11 DEF Lacks
  <1>16. ~(conn.open /\ conn.type = "rend" /\ conn.subtype = "directim") => p = NULL /\ r.cookies = m.cookies
    BY <1>3, <1>11
  <1>17. Kills(m, r, c, p)
    BY <1>9, <1>11, <1>12, <1>13, <1>14, <1>15, <1>16 DEF Kills, q
  <1> QED
    BY <1>17

-----------------------------------------------------------------------------
(* The invariants *)

\* Types, distinct cookies, and no pointer to what is not allocated yet.
Base ==
    /\ IsMem(mem) /\ Unique(mem)
    /\ nalloc \in 0 .. MaxAllocs
    /\ call \in [op : {"none", "accept", "read"}, conn : Ptrs]
    /\ DOMAIN mem.conns \subseteq 1 .. nalloc
    /\ DOMAIN mem.heap \subseteq 1 .. nalloc
    /\ \A c \in DOMAIN mem.conns : mem.conns[c].internal \in 0 .. nalloc /\ mem.conns[c].priv \in 0 .. nalloc
    /\ \A i \in DOMAIN mem.cookies : mem.cookies[i].data \in 0 .. nalloc

\* Whatever ->internal of c points to lives and belongs to no one else.
OwnedConn(m, c) ==
    /\ m.conns[c].type = "rend" => m.conns[c].internal # NULL
    /\ m.conns[c].internal # NULL =>
          /\ m.conns[c].internal \in DOMAIN m.heap
          /\ \A d \in DOMAIN m.conns \ {c} : m.conns[d].internal # m.conns[c].internal
          /\ \A d \in DOMAIN m.conns : m.conns[d].priv # m.conns[c].internal
          /\ \A i \in DOMAIN m.cookies : m.cookies[i].data # m.conns[c].internal

Owned == \A c \in DOMAIN mem.conns : OwnedConn(mem, c)

\* A listener is without ->internal only while the client is told of its first peer.
Moved ==
    \A c \in DOMAIN mem.conns : mem.conns[c].type = "out" /\ mem.conns[c].internal = NULL =>
        call = [op |-> "accept", conn |-> c]

OwnedInv == Base /\ Owned /\ Moved

\* Every cookie has data of its own, or none.
DataOwned ==
    /\ Distinct(mem)
    /\ \A i \in DOMAIN mem.cookies : mem.cookies[i].data # NULL => mem.cookies[i].data \in DOMAIN mem.heap

NoPriv == \A c \in DOMAIN mem.conns : mem.conns[c].priv = NULL /\ mem.conns[c].type # "chat"

SafeInv == OwnedInv /\ DataOwned /\ NoPriv /\ NoBadAccess

\* Connections of chats have no ->internal, and all others are direct IMs.
AllDirect ==
    \A c \in DOMAIN mem.conns : IF mem.conns[c].type = "chat" THEN mem.conns[c].internal = NULL
                                ELSE mem.conns[c].subtype = "directim"

\* The client is called back for connections to peers.
Reading ==
    /\ call.conn \in 0 .. nalloc
    /\ call.op = "read" /\ call.conn \in DOMAIN mem.conns => mem.conns[call.conn].type = "rend"

RemovedInv == OwnedInv /\ Reading /\ AllDirect /\ CookiesRemoved

NoChats == \A c \in DOMAIN mem.conns : mem.conns[c].type # "chat"

LeakInv == Base /\ NoChats /\ DOMAIN mem.heap \subseteq Roots

-----------------------------------------------------------------------------
(* What each action does, given Base *)

\* The cookies of r are those of m, except for one whose data is p, and those in news.
Listed(m, r, news, p) ==
    /\ Unique(r)
    /\ Distinct(m) /\ (\A x \in news : x.data = NULL \/ \A k \in DOMAIN m.cookies : m.cookies[k].data # x.data) =>
          Distinct(r) /\ \A i \in DOMAIN r.cookies : r.cookies[i].data = p => p = NULL
    /\ \A i \in DOMAIN r.cookies : \/ r.cookies[i] \in news
                                   \/ \E k \in DOMAIN m.cookies : r.cookies[i] = m.cookies[k]
    /\ \A k \in DOMAIN m.cookies :
          m.cookies[k].data = p \/ \E i \in DOMAIN r.cookies : r.cookies[i] = m.cookies[k]
    /\ \A x \in news : \E i \in DOMAIN r.cookies : r.cookies[i] = x
    /\ p \in Ptrs
    /\ p = NULL \/ \E k \in DOMAIN m.cookies : m.cookies[k].data = p

\* The connections K go, S are new or assigned to; the objects P go, A are new; the
\* cookies news are new, and one with the data p goes.
Changes(K, S, P, A, news, p) ==
    /\ IsMem(mem')
    /\ DOMAIN mem'.conns = (DOMAIN mem.conns \ K) \cup S
    /\ \A d \in DOMAIN mem.conns \ (K \cup S) : mem'.conns[d] = mem.conns[d]
    /\ DOMAIN mem'.heap = (DOMAIN mem.heap \ P) \cup A
    /\ \A q \in DOMAIN mem.heap \ P : mem'.heap[q] = mem.heap[q]
    /\ Listed(mem, mem', news, p)

LEMMA CachesListed ==
    ASSUME NEW m, NEW m1, NEW r1, NEW r, m1.cookies = m.cookies, r.cookies = r1.cookies,
           NEW new, NEW p \in Ptrs, Caches(m1, r1, new, p)
    PROVE  Listed(m, r, {new}, p)
  BY DEF Caches, Listed, Unique, Distinct

LEMMA ThinnedListed ==
    ASSUME NEW m, NEW m1, NEW r1, NEW r, m1.cookies = m.cookies, r.cookies = r1.cookies,
           NEW p \in Ptrs, Thinned(m1, r1, p)
    PROVE  Listed(m, r, {}, p)
  BY DEF Thinned, Listed, Unique, Distinct

LEMMA SameListed ==
    ASSUME NEW m, NEW r, r.cookies = m.cookies, Unique(m)
    PROVE  Listed(m, r, {}, NULL)
  BY NullPtr DEF Listed, Unique, Distinct

LEMMA ObjTypes ==
    /\ \A ck \in Cks : Obj(ck, NULL) \in ObjT
    /\ \A q \in Ptrs : Obj(NoCk, q) \in ObjT
  BY NullPtr DEF Obj, ObjT

LEMMA BaseNext ==
    ASSUME Base, nalloc' \in nalloc .. MaxAllocs,
           call' \in [op : {"none", "accept", "read"}, conn : Ptrs],
           NEW K, NEW S \in SUBSET (1 .. nalloc'), NEW P, NEW A \in SUBSET (1 .. nalloc'), NEW news, NEW p,
           Changes(K, S, P, A, news, p),
           \A s \in S : mem'.conns[s].internal \in 0 .. nalloc' /\ mem'.conns[s].priv \in 0 .. nalloc',
           \A x \in news : x.data \in 0 .. nalloc'
    PROVE  Base'
  <1>1. nalloc \in Nat /\ nalloc' \in Nat /\ nalloc <= nalloc' /\ nalloc' \in 0 .. MaxAllocs
    BY DEF Base
  <1>2. IsMem(mem') /\ Unique(mem')
    BY DEF Changes, Listed
  <1>3. 1 .. nalloc \subseteq 1 .. nalloc' /\ 0 .. nalloc \subseteq 0 .. nalloc'
    BY <1>1
  <1>4. DOMAIN mem'.conns \subseteq 1 .. nalloc' /\ DOMAIN mem'.heap \subseteq 1 .. nalloc'
    BY <1>3 DEF Changes, Base
  <1>5. \A c \in DOMAIN mem'.conns : mem'.conns[c].internal \in 0 .. nalloc' /\ mem'.conns[c].priv \in 0 .. nalloc'
    <2> SUFFICES ASSUME NEW c \in DOMAIN mem'.conns
                 PROVE  mem'.conns[c].internal \in 0 .. nalloc' /\ mem'.conns[c].priv \in 0 .. nalloc'
      OBVIOUS
    <2>1. CASE c \in S
      BY <2>1
    <2>2. CASE c \notin S
      <3>1. c \in DOMAIN mem.conns /\ mem'.conns[c] = mem.conns[c]
        BY <2>2 DEF Changes
      <3> QED
        BY <1>3, <3>1 DEF Base
    <2> QED
      BY <2>1, <2>2
  <1>6. \A i \in DOMAIN mem'.cookies : mem'.cookies[i].data \in 0 .. nalloc'
    <2>1. \A i \in DOMAIN mem'.cookies : \/ mem'.cookies[i] \in news
                                         \/ \E k \in DOMAIN mem.cookies : mem'.cookies[i] = mem.cookies[k]
      BY DEF Changes, Listed
    <2>2. \A k \in DOMAIN mem.cookies : mem.cookies[k].data \in 0 .. nalloc'
      BY <1>3 DEF Base
    <2> QED
      BY <2>1, <2>2
  <1> QED
    BY <1>1, <1>2, <1>4, <1>5, <1>6 DEF Base

\* The numbers of the next k objects.
LEMMA Fresh ==
    ASSUME Base, NEW k \in 0 .. 3, Allocates(k)
    PROVE  /\ nalloc' = nalloc + k /\ nalloc' \in nalloc .. MaxAllocs /\ mem.bad = {}
           /\ \A j \in 1 .. k : /\ nalloc + j \in 1 .. MaxAllocs /\ nalloc + j \in Ptrs
                                /\ nalloc + j \in 1 .. nalloc' /\ nalloc + j \in 0 .. nalloc'
                                /\ nalloc + j \notin 0 .. nalloc
                                /\ nalloc + j \notin DOMAIN mem.conns /\ nalloc + j \notin DOMAIN mem.heap
                                /\ nalloc + j # NULL
  <1>1. nalloc \in Nat /\ MaxAllocs \in Nat /\ nalloc + k <= MaxAllocs /\ nalloc' = nalloc + k
    <2>1. MaxAllocs \in Nat
      BY RendezvousAssumption, Zenon
    <2>2. nalloc \in 0 .. MaxAllocs
      BY Zenon DEF Base
    <2>3. nalloc + k <= MaxAllocs /\ nalloc' = nalloc + k
      BY Zenon DEF Allocates
    <2> QED
      BY <2>1, <2>2, <2>3
  <1>2. mem.bad = {}
    BY DEF Allocates
  <1>3. \A j \in 1 .. k : /\ nalloc + j \in 1 .. MaxAllocs /\ nalloc + j \in 0 .. MaxAllocs
                          /\ nalloc + j \in 1 .. nalloc' /\ nalloc + j \in 0 .. nalloc'
                          /\ nalloc + j \notin 0 .. nalloc /\ nalloc + j \notin 1 .. nalloc
                          /\ nalloc + j # 0
    BY <1>1
  <1>4. nalloc' \in nalloc .. MaxAllocs
    BY <1>1
  <1> QED
    BY <1>1, <1>2, <1>3, <1>4 DEF Base, Ptrs, NULL

\* aim_cachecookie after k new objects: what it frees is none of them.
LEMMA CachedAfter ==
    ASSUME Base, NEW m, IsMem(m), m.cookies = mem.cookies,
           NEW type \in CookieTypes, NEW ck \in Cks, NEW data \in Ptrs
    PROVE  \E p \in Ptrs :
              /\ Caches(m, aim_cachecookie(m, type, ck, data), [type |-> type, ck |-> ck, data |-> data], p)
              /\ p \in 0 .. nalloc
  <1>1. Unique(m)
    BY DEF Base, Unique
  <1>2. PICK p \in Ptrs :
           Caches(m, aim_cachecookie(m, type, ck, data), [type |-> type, ck |-> ck, data |-> data], p)
    BY <1>1, CacheMem
  <1>3. p = NULL \/ \E k \in DOMAIN mem.cookies : mem.cookies[k].data = p
    BY <1>2 DEF Caches
  <1>4. NULL \in 0 .. nalloc
    <2>1. nalloc \in 0 .. MaxAllocs
      BY Zenon DEF Base
    <2>2. MaxAllocs \in Nat
      BY RendezvousAssumption, Zenon
    <2> QED
      BY <2>1, <2>2 DEF NULL
  <1>5. p \in 0 .. nalloc
    BY <1>3, <1>4 DEF Base
  <1> QED
    BY <1>2, <1>5

NewData(type, ck, data) == [type |-> type, ck |-> ck, data |-> data]

LEMMA InitiateEffect ==
    ASSUME Base, NEW s \in Subtypes, NEW ck \in Cks, Initiate(s, ck)
    PROVE  /\ \E p \in Ptrs :
                 /\ Changes({}, {nalloc + 3}, {p}, {nalloc + 1, nalloc + 2},
                            {NewData("OFTIM", ck, nalloc + 1)}, p)
                 /\ p = NULL \/ p \in DOMAIN mem.heap => mem'.bad = mem.bad
           /\ mem'.conns[nalloc + 3] = NewConn("out", s, TRUE, nalloc + 2)
           /\ mem'.heap[nalloc + 2] = Obj(ck, NULL)
           /\ Allocates(3) /\ call' = call
  <1> DEFINE n1 == nalloc + 1
             n2 == nalloc + 2
             n3 == nalloc + 3
             o == Obj(ck, NULL)
             conn == NewConn("out", s, TRUE, n2)
             m1 == Put(mem, n1, o)
             m2 == aim_cachecookie(m1, "OFTIM", ck, n1)
             m3 == Put(m2, n2, o)
             new == NewData("OFTIM", ck, n1)
  <1>1. /\ n1 \in 1 .. MaxAllocs /\ n2 \in 1 .. MaxAllocs /\ n3 \in 1 .. MaxAllocs
        /\ n1 \in Ptrs /\ n2 \in Ptrs /\ n1 # n2 /\ n1 \notin 0 .. nalloc
        /\ n1 \notin DOMAIN mem.heap /\ n2 \notin DOMAIN mem.heap /\ n1 # NULL
    <2>1. Allocates(3)
      BY DEF Initiate
    <2>2. 1 \in 1 .. 3 /\ 2 \in 1 .. 3 /\ 3 \in 1 .. 3 /\ 3 \in 0 .. 3
      OBVIOUS
    <2>3. nalloc \in Int
      BY DEF Base
    <2> QED
      BY <2>1, <2>2, <2>3, Fresh
  <1>2. Allocates(3) /\ call' = call /\ mem' = AddConn(m3, n3, conn)
    BY DEF Initiate
  <1>3. o \in ObjT
    BY ObjTypes
  <1>4. conn \in ConnT
    BY <1>1, NullPtr DEF NewConn, ConnT
  <1> HIDE DEF n1, n2, n3, o, conn
  <1>5. /\ IsMem(m1) /\ m1.conns = mem.conns /\ m1.cookies = mem.cookies /\ m1.bad = mem.bad
        /\ DOMAIN m1.heap = DOMAIN mem.heap \cup {n1}
        /\ \A q \in DOMAIN mem.heap : q # n1 => m1.heap[q] = mem.heap[q]
    <2>1. IsMem(mem)
      BY DEF Base
    <2>2. Puts(mem, m1, n1, o)
      BY <1>1, <1>3, <2>1, PutMem, ZenonT(30)
    <2> QED
      BY <2>2 DEF Puts
  <1> HIDE DEF m1
  <1>6. PICK p \in Ptrs : Caches(m1, m2, new, p) /\ p \in 0 .. nalloc
    BY <1>1, <1>5, CachedAfter DEF NewData, CookieTypes
  <1> HIDE DEF m2
  <1>7. /\ IsMem(m2) /\ m2.conns = mem.conns /\ HeapBut(m1, m2, {p})
        /\ p = NULL \/ p \in DOMAIN m1.heap => m2.bad = mem.bad
    BY <1>5, <1>6 DEF Caches
  <1>8. /\ IsMem(m3) /\ m3.conns = m2.conns /\ m3.cookies = m2.cookies /\ m3.bad = m2.bad
        /\ DOMAIN m3.heap = DOMAIN m2.heap \cup {n2} /\ m3.heap[n2] = o
        /\ \A q \in DOMAIN m2.heap : q # n2 => m3.heap[q] = m2.heap[q]
    <2>1. IsMem(m2)
      BY <1>7
    <2>2. Puts(m2, m3, n2, o)
      BY <1>1, <1>3, <2>1, PutMem, ZenonT(30)
    <2> QED
      BY <2>2 DEF Puts
  <1> HIDE DEF m3
  <1>9. /\ IsMem(mem') /\ mem'.heap = m3.heap /\ mem'.cookies = m3.cookies /\ mem'.bad = m3.bad
        /\ DOMAIN mem'.conns = DOMAIN m3.conns \cup {n3} /\ mem'.conns[n3] = conn
        /\ \A d \in DOMAIN m3.conns : d # n3 => mem'.conns[d] = m3.conns[d]
    BY <1>1, <1>2, <1>4, <1>8, AddConnMem
  <1>10. p # n1
    BY <1>1, <1>6
  <1>11. Listed(mem, mem', {new}, p)
    BY <1>5, <1>6, <1>8, <1>9, CachesListed
  <1>12. /\ DOMAIN mem'.heap = (DOMAIN mem.heap \ {p}) \cup {n1, n2}
         /\ \A q \in DOMAIN mem.heap \ {p} : mem'.heap[q] = mem.heap[q]
    BY <1>1, <1>5, <1>7, <1>8, <1>9, <1>10 DEF HeapBut
  <1>13. Changes({}, {n3}, {p}, {n1, n2}, {new}, p)
    BY <1>7, <1>8, <1>9, <1>11, <1>12 DEF Changes
  <1>14. p = NULL \/ p \in DOMAIN mem.heap => mem'.bad = mem.bad
    BY <1>5, <1>7, <1>8, <1>9
  <1> QED
    BY <1>2, <1>8, <1>9, <1>13, <1>14 DEF n1, n2, n3, o, conn

LEMMA InitiateFailsEffect ==
    ASSUME Base, NEW ck \in Cks, InitiateFails(ck)
    PROVE  /\ \E p \in Ptrs :
                 /\ Changes({}, {}, {p}, {nalloc + 1}, {NewData("OFTIM", ck, nalloc + 1)}, p)
                 /\ p = NULL \/ p \in DOMAIN mem.heap => mem'.bad = mem.bad
           /\ Allocates(1) /\ call' = call
  <1> DEFINE n1 == nalloc + 1
             o == Obj(ck, NULL)
             m1 == Put(mem, n1, o)
             new == NewData("OFTIM", ck, n1)
  <1>1. /\ n1 \in 1 .. MaxAllocs /\ n1 \in Ptrs /\ n1 \notin 0 .. nalloc /\ n1 \notin DOMAIN mem.heap
    <2>1. Allocates(1)
      BY DEF InitiateFails
    <2>2. 1 \in 1 .. 1 /\ 1 \in 0 .. 3
      OBVIOUS
    <2> QED
      BY <2>1, <2>2, Fresh
  <1>2. Allocates(1) /\ call' = call /\ mem' = aim_cachecookie(m1, "OFTIM", ck, n1)
    BY DEF InitiateFails
  <1>3. o \in ObjT
    BY ObjTypes
  <1> HIDE DEF n1, o
  <1>4. /\ IsMem(m1) /\ m1.conns = mem.conns /\ m1.cookies = mem.cookies /\ m1.bad = mem.bad
        /\ DOMAIN m1.heap = DOMAIN mem.heap \cup {n1}
        /\ \A q \in DOMAIN mem.heap : q # n1 => m1.heap[q] = mem.heap[q]
    <2>1. IsMem(mem)
      BY DEF Base
    <2>2. Puts(mem, m1, n1, o)
      BY <1>1, <1>3, <2>1, PutMem, ZenonT(30)
    <2> QED
      BY <2>2 DEF Puts
  <1> HIDE DEF m1
  <1>5. PICK p \in Ptrs : Caches(m1, mem', new, p) /\ p \in 0 .. nalloc
    BY <1>1, <1>2, <1>4, CachedAfter DEF NewData, CookieTypes
  <1>6. /\ IsMem(mem') /\ mem'.conns = mem.conns /\ HeapBut(m1, mem', {p})
        /\ p = NULL \/ p \in DOMAIN m1.heap => mem'.bad = mem.bad
    BY <1>4, <1>5 DEF Caches
  <1>7. p # n1
    BY <1>1, <1>5
  <1>8. Listed(mem, mem', {new}, p)
    BY <1>4, <1>5, CachesListed
  <1>9. Changes({}, {}, {p}, {n1}, {new}, p)
    BY <1>1, <1>4, <1>6, <1>7, <1>8 DEF Changes, HeapBut
  <1> QED
    BY <1>2, <1>4, <1>6, <1>9 DEF n1

LEMMA ConnectEffect ==
    ASSUME Base, NEW ck \in Cks, NEW open \in BOOLEAN, aim_directim_connect(ck, open)
    PROVE  /\ Changes({}, {nalloc + 2}, {}, {nalloc + 1}, {}, NULL)
           /\ mem'.conns[nalloc + 2] = NewConn("rend", "directim", open, nalloc + 1)
           /\ mem'.bad = mem.bad
           /\ Allocates(2) /\ call' = call
  <1> DEFINE n1 == nalloc + 1
             n2 == nalloc + 2
             o == Obj(ck, NULL)
             conn == NewConn("rend", "directim", open, n1)
             m1 == Put(mem, n1, o)
  <1>1. /\ n1 \in 1 .. MaxAllocs /\ n2 \in 1 .. MaxAllocs /\ n1 \in Ptrs /\ n1 \notin DOMAIN mem.heap
        /\ n2 \notin DOMAIN mem.conns
    <2>1. Allocates(2)
      BY DEF aim_directim_connect
    <2>2. 1 \in 1 .. 2 /\ 2 \in 1 .. 2 /\ 2 \in 0 .. 3
      OBVIOUS
    <2> QED
      BY <2>1, <2>2, Fresh
  <1>2. Allocates(2) /\ call' = call /\ mem' = AddConn(m1, n2, conn) /\ "directim" \in Subtypes
    BY DEF aim_directim_connect
  <1>3. o \in ObjT
    BY ObjTypes
  <1>4. conn \in ConnT
    BY <1>1, <1>2, NullPtr DEF NewConn, ConnT
  <1> HIDE DEF n1, n2, o, conn
  <1>5. /\ IsMem(m1) /\ m1.conns = mem.conns /\ m1.cookies = mem.cookies /\ m1.bad = mem.bad
        /\ DOMAIN m1.heap = DOMAIN mem.heap \cup {n1}
        /\ \A q \in DOMAIN mem.heap : q # n1 => m1.heap[q] = mem.heap[q]
    <2>1. IsMem(mem)
      BY DEF Base
    <2>2. Puts(mem, m1, n1, o)
      BY <1>1, <1>3, <2>1, PutMem, ZenonT(30)
    <2> QED
      BY <2>2 DEF Puts
  <1> HIDE DEF m1
  <1>6. /\ IsMem(mem') /\ mem'.heap = m1.heap /\ mem'.cookies = m1.cookies /\ mem'.bad = m1.bad
        /\ DOMAIN mem'.conns = DOMAIN m1.conns \cup {n2} /\ mem'.conns[n2] = conn
        /\ \A d \in DOMAIN m1.conns : d # n2 => mem'.conns[d] = m1.conns[d]
    BY <1>1, <1>2, <1>4, <1>5, AddConnMem
  <1>7. Listed(mem, mem', {}, NULL)
    BY <1>5, <1>6, SameListed DEF Base
  <1>8. Changes({}, {n2}, {}, {n1}, {}, NULL)
    BY <1>1, <1>5, <1>6, <1>7 DEF Changes
  <1> QED
    BY <1>2, <1>5, <1>6, <1>8 DEF n1, n2, conn

\* Close, ReadFails, and ReadReturns if the callback fails
LEMMA CloseEffect ==
    ASSUME Base, NEW c \in DOMAIN mem.conns, mem' = aim_conn_close(mem, c)
    PROVE  /\ \E p \in Ptrs :
                 /\ Changes({}, {c}, {p}, {}, {}, p)
                 /\ (p = NULL \/ p \in DOMAIN mem.heap)
                    /\ (mem.conns[c].type = "rend" => mem.conns[c].internal \in DOMAIN mem.heap) =>
                       mem'.bad = mem.bad
           /\ mem'.conns[c] = [mem.conns[c] EXCEPT !.open = FALSE]
           /\ mem.conns[c].type = "rend" /\ mem.conns[c].subtype = "directim"
              /\ mem.conns[c].internal \in DOMAIN mem.heap =>
                 Lacks(mem', mem.heap[mem.conns[c].internal].ck, "OFTIM")
  <1>1. PICK p \in Ptrs : Closes(mem, mem', c, p)
    BY CloseMem DEF Base
  <1>2. Listed(mem, mem', {}, p)
    BY <1>1, ThinnedListed DEF Closes
  <1>3. Changes({}, {c}, {p}, {}, {}, p)
    BY <1>1, <1>2 DEF Changes, Closes, HeapBut
  <1> QED
    BY <1>1, <1>3 DEF Closes

LEMMA KillEffect ==
    ASSUME Base, NEW c \in DOMAIN mem.conns, mem' = connkill_real(mem, c)
    PROVE  /\ \E p \in Ptrs :
                 /\ Changes({c}, {}, {p, mem.conns[c].priv,
                                      IF mem.conns[c].type = "rend" THEN mem.conns[c].internal ELSE NULL},
                            {}, {}, p)
                 /\ (p = NULL \/ p \in DOMAIN mem.heap) /\ mem.conns[c].priv = NULL
                    /\ (mem.conns[c].type = "rend" => mem.conns[c].internal \in DOMAIN mem.heap \ {p}) =>
                       mem'.bad = mem.bad
           /\ mem.conns[c].open /\ mem.conns[c].type = "rend" /\ mem.conns[c].subtype = "directim"
              /\ mem.conns[c].internal \in DOMAIN mem.heap =>
                 Lacks(mem', mem.heap[mem.conns[c].internal].ck, "OFTIM")
  <1>1. PICK p \in Ptrs : Kills(mem, mem', c, p)
    BY KillMem DEF Base
  <1>2. Listed(mem, mem', {}, p)
    BY <1>1, ThinnedListed DEF Kills
  <1>3. Changes({c}, {}, {p, mem.conns[c].priv,
                          IF mem.conns[c].type = "rend" THEN mem.conns[c].internal ELSE NULL}, {}, {}, p)
    BY <1>1, <1>2 DEF Changes, Kills, HeapBut
  <1> QED
    BY <1>1, <1>3 DEF Kills

LEMMA SetPrivEffect ==
    ASSUME Base, NEW c \in DOMAIN mem.conns, SetPriv(c)
    PROVE  /\ Changes({}, {c}, {}, {nalloc + 1}, {}, NULL)
           /\ mem'.conns[c] = [mem.conns[c] EXCEPT !.priv = nalloc + 1]
           /\ mem'.bad = mem.bad
           /\ Allocates(1) /\ call' = call
  <1> DEFINE n1 == nalloc + 1
             o == Obj(NoCk, NULL)
             m1 == Put(mem, n1, o)
             conn == [mem.conns[c] EXCEPT !.priv = n1]
  <1>1. /\ n1 \in 1 .. MaxAllocs /\ n1 \in Ptrs /\ n1 \notin DOMAIN mem.heap
    <2>1. Allocates(1)
      BY DEF SetPriv
    <2>2. 1 \in 1 .. 1 /\ 1 \in 0 .. 3
      OBVIOUS
    <2> QED
      BY <2>1, <2>2, Fresh
  <1>2. Allocates(1) /\ call' = call /\ mem' = [m1 EXCEPT !.conns[c].priv = n1]
    BY DEF SetPriv
  <1>3. o \in ObjT
    BY ObjTypes, NullPtr
  <1>4. conn \in ConnT
    <2>1. mem.conns[c] \in ConnT
      BY ConnTypes DEF Base
    <2> QED
      BY <1>1, <2>1 DEF ConnT
  <1>5. /\ IsMem(m1) /\ m1.conns = mem.conns /\ m1.cookies = mem.cookies /\ m1.bad = mem.bad
        /\ DOMAIN m1.heap = DOMAIN mem.heap \cup {n1}
        /\ \A q \in DOMAIN mem.heap : q # n1 => m1.heap[q] = mem.heap[q]
    <2>1. IsMem(mem)
      BY DEF Base
    <2>2. Puts(mem, m1, n1, o)
      BY <1>1, <1>3, <2>1, PutMem, ZenonT(30)
    <2> QED
      BY <2>2 DEF Puts
  <1> HIDE DEF m1
  <1>6. mem' = [m1 EXCEPT !.conns[c] = conn]
    BY <1>2, <1>5 DEF IsMem, ConnMap
  <1> HIDE DEF n1, o, conn
  <1>7. /\ IsMem(mem') /\ mem'.heap = m1.heap /\ mem'.cookies = m1.cookies /\ mem'.bad = m1.bad
        /\ DOMAIN mem'.conns = DOMAIN m1.conns /\ mem'.conns[c] = conn
        /\ \A d \in DOMAIN m1.conns : d # c => mem'.conns[d] = m1.conns[d]
    BY <1>4, <1>5, <1>6, SetConnMem
  <1>8. Listed(mem, mem', {}, NULL)
    BY <1>5, <1>7, SameListed DEF Base
  <1>9. Changes({}, {c}, {}, {n1}, {}, NULL)
    BY <1>1, <1>5, <1>7, <1>8 DEF Changes
  <1> QED
    BY <1>2, <1>5, <1>7, <1>9 DEF n1, conn

LEMMA JoinChatEffect ==
    ASSUME Base, NEW open \in BOOLEAN, JoinChat(open)
    PROVE  /\ Changes({}, {nalloc + 3}, {}, {nalloc + 1, nalloc + 2}, {}, NULL)
           /\ mem'.conns[nalloc + 3] = [NewConn("chat", "none", open, NULL) EXCEPT !.priv = nalloc + 2]
           /\ mem'.bad = mem.bad
           /\ "chats" \in Habits /\ Allocates(3) /\ call' = call
  <1> DEFINE n1 == nalloc + 1
             n2 == nalloc + 2
             n3 == nalloc + 3
             o == Obj(NoCk, NULL)
             o2 == Obj(NoCk, n1)
             conn == [NewConn("chat", "none", open, NULL) EXCEPT !.priv = n2]
             m1 == Put(mem, n1, o)
             m2 == Put(m1, n2, o2)
  <1>1. /\ n1 \in 1 .. MaxAllocs /\ n2 \in 1 .. MaxAllocs /\ n3 \in 1 .. MaxAllocs
        /\ n1 \in Ptrs /\ n2 \in Ptrs /\ n1 # n2
        /\ n1 \notin DOMAIN mem.heap /\ n2 \notin DOMAIN mem.heap /\ n3 \notin DOMAIN mem.conns
    <2>1. Allocates(3)
      BY DEF JoinChat
    <2>2. 1 \in 1 .. 3 /\ 2 \in 1 .. 3 /\ 3 \in 1 .. 3 /\ 3 \in 0 .. 3
      OBVIOUS
    <2>3. nalloc \in Int
      BY DEF Base
    <2> QED
      BY <2>1, <2>2, <2>3, Fresh
  <1>2. "chats" \in Habits /\ Allocates(3) /\ call' = call /\ mem' = AddConn(m2, n3, conn)
    BY DEF JoinChat
  <1>3. o \in ObjT /\ o2 \in ObjT
    BY <1>1, ObjTypes, NullPtr
  <1>4. conn \in ConnT
    BY <1>1, NullPtr DEF NewConn, ConnT
  <1> HIDE DEF n1, n2, n3, o, o2, conn
  <1>5. /\ IsMem(m1) /\ m1.conns = mem.conns /\ m1.cookies = mem.cookies /\ m1.bad = mem.bad
        /\ DOMAIN m1.heap = DOMAIN mem.heap \cup {n1}
        /\ \A q \in DOMAIN mem.heap : q # n1 => m1.heap[q] = mem.heap[q]
    <2>1. IsMem(mem)
      BY DEF Base
    <2>2. Puts(mem, m1, n1, o)
      BY <1>1, <1>3, <2>1, PutMem, ZenonT(30)
    <2> QED
      BY <2>2 DEF Puts
  <1> HIDE DEF m1
  <1>6. /\ IsMem(m2) /\ m2.conns = m1.conns /\ m2.cookies = m1.cookies /\ m2.bad = m1.bad
        /\ DOMAIN m2.heap = DOMAIN m1.heap \cup {n2}
        /\ \A q \in DOMAIN m1.heap : q # n2 => m2.heap[q] = m1.heap[q]
    <2>1. IsMem(m1)
      BY <1>5
    <2>2. Puts(m1, m2, n2, o2)
      BY <1>1, <1>3, <2>1, PutMem, ZenonT(30)
    <2> QED
      BY <2>2 DEF Puts
  <1> HIDE DEF m2
  <1>7. /\ IsMem(mem') /\ mem'.heap = m2.heap /\ mem'.cookies = m2.cookies /\ mem'.bad = m2.bad
        /\ DOMAIN mem'.conns = DOMAIN m2.conns \cup {n3} /\ mem'.conns[n3] = conn
        /\ \A d \in DOMAIN m2.conns : d # n3 => mem'.conns[d] = m2.conns[d]
    BY <1>1, <1>2, <1>4, <1>6, AddConnMem
  <1>8. Listed(mem, mem', {}, NULL)
    BY <1>5, <1>6, <1>7, SameListed DEF Base
  <1>9. Changes({}, {n3}, {}, {n1, n2}, {}, NULL)
    BY <1>1, <1>5, <1>6, <1>7, <1>8 DEF Changes
  <1> QED
    BY <1>2, <1>5, <1>6, <1>7, <1>9 DEF n1, n2, n3, conn

LEMMA AttachNameEffect ==
    ASSUME Base, NEW c \in DOMAIN mem.conns, aim_chat_attachname(c)
    PROVE  /\ Changes({}, {c}, {mem.conns[c].priv}, {nalloc + 1, nalloc + 2}, {}, NULL)
           /\ mem'.conns[c] = [mem.conns[c] EXCEPT !.priv = nalloc + 2]
           /\ mem.conns[c].type = "chat" /\ Allocates(2) /\ call' = call
  <1> DEFINE n1 == nalloc + 1
             n2 == nalloc + 2
             old == mem.conns[c].priv
             o == Obj(NoCk, NULL)
             o2 == Obj(NoCk, n1)
             conn == [mem.conns[c] EXCEPT !.priv = n2]
             m0 == Free(mem, old)
             m1 == Put(m0, n1, o)
             m2 == Put(m1, n2, o2)
  <1>1. /\ n1 \in 1 .. MaxAllocs /\ n2 \in 1 .. MaxAllocs /\ n1 \in Ptrs /\ n2 \in Ptrs /\ n1 # n2
        /\ n1 \notin DOMAIN mem.heap /\ n2 \notin DOMAIN mem.heap
    <2>1. Allocates(2)
      BY DEF aim_chat_attachname
    <2>2. 1 \in 1 .. 2 /\ 2 \in 1 .. 2 /\ 2 \in 0 .. 3
      OBVIOUS
    <2>3. nalloc \in Int
      BY DEF Base
    <2> QED
      BY <2>1, <2>2, <2>3, Fresh
  <1>2. mem.conns[c].type = "chat" /\ Allocates(2) /\ call' = call /\ mem' = [m2 EXCEPT !.conns[c].priv = n2]
    BY DEF aim_chat_attachname
  <1>3. o \in ObjT /\ o2 \in ObjT
    BY <1>1, ObjTypes, NullPtr
  <1>4. old \in Ptrs /\ conn \in ConnT
    <2>1. mem.conns[c] \in ConnT
      BY ConnTypes DEF Base
    <2> QED
      BY <1>1, <2>1 DEF ConnT
  <1> HIDE DEF n1, o, o2, old
  <1>5. /\ IsMem(m0) /\ m0.conns = mem.conns /\ m0.cookies = mem.cookies /\ HeapBut(mem, m0, {old})
    BY <1>4, FreeMem DEF Base
  <1> HIDE DEF m0
  <1>6. /\ IsMem(m1) /\ m1.conns = m0.conns /\ m1.cookies = m0.cookies
        /\ DOMAIN m1.heap = DOMAIN m0.heap \cup {n1}
        /\ \A q \in DOMAIN m0.heap : q # n1 => m1.heap[q] = m0.heap[q]
    <2>1. IsMem(m0)
      BY <1>5
    <2>2. Puts(m0, m1, n1, o)
      BY <1>1, <1>3, <2>1, PutMem, ZenonT(30)
    <2> QED
      BY <2>2 DEF Puts
  <1> HIDE DEF m1
  <1>7. /\ IsMem(m2) /\ m2.conns = m1.conns /\ m2.cookies = m1.cookies
        /\ DOMAIN m2.heap = DOMAIN m1.heap \cup {n2}
        /\ \A q \in DOMAIN m1.heap : q # n2 => m2.heap[q] = m1.heap[q]
    <2>1. IsMem(m1)
      BY <1>6
    <2>2. Puts(m1, m2, n2, o2)
      BY <1>1, <1>3, <2>1, PutMem, ZenonT(30)
    <2> QED
      BY <2>2 DEF Puts
  <1> HIDE DEF m2
  <1>8. mem' = [m2 EXCEPT !.conns[c] = conn]
    BY <1>2, <1>5, <1>6, <1>7 DEF IsMem, ConnMap
  <1> HIDE DEF n2, conn
  <1>9. /\ IsMem(mem') /\ mem'.heap = m2.heap /\ mem'.cookies = m2.cookies
        /\ DOMAIN mem'.conns = DOMAIN m2.conns /\ mem'.conns[c] = conn
        /\ \A d \in DOMAIN m2.conns : d # c => mem'.conns[d] = m2.conns[d]
    BY <1>4, <1>5, <1>6, <1>7, <1>8, SetConnMem
  <1>10. Listed(mem, mem', {}, NULL)
    BY <1>5, <1>6, <1>7, <1>9, SameListed DEF Base
  <1>11. Changes({}, {c}, {old}, {n1, n2}, {}, NULL)
    BY <1>1, <1>5, <1>6, <1>7, <1>9, <1>10 DEF Changes, HeapBut
  <1> QED
    BY <1>2, <1>9, <1>11 DEF n1, n2, conn, old

LEMMA SendChatEffect ==
    ASSUME Base, NEW ck \in Cks, aim_chat_send_im(ck)
    PROVE  /\ \E p \in Ptrs : Changes({}, {}, {p}, {}, {NewData("CHAT", ck, NULL)}, p)
           /\ "chats" \in Habits /\ Allocates(0) /\ call' = call
  <1>1. "chats" \in Habits /\ Allocates(0) /\ call' = call /\ mem' = aim_cachecookie(mem, "CHAT", ck, NULL)
    BY DEF aim_chat_send_im
  <1> DEFINE new == NewData("CHAT", ck, NULL)
  <1>2. PICK p \in Ptrs : Caches(mem, mem', new, p)
    BY <1>1, NullPtr, CachedAfter DEF NewData, CookieTypes, Base
  <1>3. Listed(mem, mem', {new}, p)
    BY <1>2, CachesListed
  <1>4. Changes({}, {}, {p}, {}, {new}, p)
    BY <1>2, <1>3 DEF Changes, Caches, HeapBut
  <1> QED
    BY <1>1, <1>4

LEMMA IncomingEffect ==
    ASSUME Base, NEW ck \in Cks, incomingmsg(ck)
    PROVE  /\ \E p \in Ptrs : Changes({}, {}, {p}, {}, {}, p)
           /\ "chats" \in Habits /\ nalloc' = nalloc /\ call' = call
  <1>1. "chats" \in Habits /\ nalloc' = nalloc /\ call' = call /\ mem' = aim_uncachecookie(mem, ck, "CHAT")
    BY DEF incomingmsg
  <1>2. PICK p \in Ptrs : Sheds(mem, mem', p)
    BY <1>1, UncacheMem DEF Base
  <1>3. mem'.conns = mem.conns
    BY <1>1, UncacheMem DEF Base
  <1>4. Listed(mem, mem', {}, p)
    BY <1>2, ThinnedListed DEF Sheds
  <1>5. Changes({}, {}, {p}, {}, {}, p)
    BY <1>2, <1>3, <1>4 DEF Changes, Sheds, HeapBut
  <1> QED
    BY <1>1, <1>5

LEMMA InviteEffect ==
    ASSUME Base, NEW ck \in Cks, aim_chat_invite(ck)
    PROVE  /\ \E p \in Ptrs :
                 Changes({}, {}, {p}, {nalloc + 1, nalloc + 2}, {NewData("INVITE", ck, nalloc + 2)}, p)
           /\ "chats" \in Habits /\ Allocates(2) /\ call' = call
  <1> DEFINE n1 == nalloc + 1
             n2 == nalloc + 2
             o == Obj(NoCk, NULL)
             o2 == Obj(NoCk, n1)
             m1 == Put(mem, n1, o)
             m2 == Put(m1, n2, o2)
             new == NewData("INVITE", ck, n2)
  <1>1. /\ n1 \in 1 .. MaxAllocs /\ n2 \in 1 .. MaxAllocs /\ n1 \in Ptrs /\ n2 \in Ptrs /\ n1 # n2
        /\ n1 \notin DOMAIN mem.heap /\ n2 \notin DOMAIN mem.heap /\ n1 \notin 0 .. nalloc /\ n2 \notin 0 .. nalloc
    <2>1. Allocates(2)
      BY DEF aim_chat_invite
    <2>2. 1 \in 1 .. 2 /\ 2 \in 1 .. 2 /\ 2 \in 0 .. 3
      OBVIOUS
    <2>3. nalloc \in Int
      BY DEF Base
    <2> QED
      BY <2>1, <2>2, <2>3, Fresh
  <1>2. "chats" \in Habits /\ Allocates(2) /\ call' = call /\ mem' = aim_cachecookie(m2, "INVITE", ck, n2)
    BY DEF aim_chat_invite
  <1>3. o \in ObjT /\ o2 \in ObjT
    BY <1>1, ObjTypes, NullPtr
  <1> HIDE DEF n1, n2, o, o2
  <1>4. /\ IsMem(m1) /\ m1.conns = mem.conns /\ m1.cookies = mem.cookies
        /\ DOMAIN m1.heap = DOMAIN mem.heap \cup {n1}
        /\ \A q \in DOMAIN mem.heap : q # n1 => m1.heap[q] = mem.heap[q]
    <2>1. IsMem(mem)
      BY DEF Base
    <2>2. Puts(mem, m1, n1, o)
      BY <1>1, <1>3, <2>1, PutMem, ZenonT(30)
    <2> QED
      BY <2>2 DEF Puts
  <1> HIDE DEF m1
  <1>5. /\ IsMem(m2) /\ m2.conns = m1.conns /\ m2.cookies = m1.cookies
        /\ DOMAIN m2.heap = DOMAIN m1.heap \cup {n2}
        /\ \A q \in DOMAIN m1.heap : q # n2 => m2.heap[q] = m1.heap[q]
    <2>1. IsMem(m1)
      BY <1>4
    <2>2. Puts(m1, m2, n2, o2)
      BY <1>1, <1>3, <2>1, PutMem, ZenonT(30)
    <2> QED
      BY <2>2 DEF Puts
  <1> HIDE DEF m2
  <1>6. PICK p \in Ptrs : Caches(m2, mem', new, p) /\ p \in 0 .. nalloc
    BY <1>1, <1>2, <1>4, <1>5, CachedAfter DEF NewData, CookieTypes
  <1>7. IsMem(mem') /\ mem'.conns = mem.conns /\ HeapBut(m2, mem', {p})
    BY <1>4, <1>5, <1>6 DEF Caches
  <1>8. p # n1 /\ p # n2
    BY <1>1, <1>6
  <1>9. Listed(mem, mem', {new}, p)
    BY <1>4, <1>5, <1>6, CachesListed
  <1>10. Changes({}, {}, {p}, {n1, n2}, {new}, p)
    BY <1>1, <1>4, <1>5, <1>7, <1>8, <1>9 DEF Changes, HeapBut
  <1> QED
    BY <1>2, <1>10 DEF n1, n2

\* The conjuncts of Closes and Kills for what is not an open direct IM.
LEMMA CloseOther ==
    ASSUME NEW m, IsMem(m), Unique(m), NEW c \in DOMAIN m.conns,
           ~(m.conns[c].type = "rend" /\ m.conns[c].subtype = "directim")
    PROVE  /\ IsMem(aim_conn_close(m, c))
           /\ aim_conn_close(m, c).heap = m.heap
           /\ aim_conn_close(m, c).cookies = m.cookies
           /\ aim_conn_close(m, c).bad = m.bad
           /\ DOMAIN aim_conn_close(m, c).conns = DOMAIN m.conns
           /\ aim_conn_close(m, c).conns[c] = [m.conns[c] EXCEPT !.open = FALSE]
           /\ \A d \in DOMAIN m.conns : d # c => aim_conn_close(m, c).conns[d] = m.conns[d]
  <1> DEFINE conn == [m.conns[c] EXCEPT !.open = FALSE]
             m1 == [m EXCEPT !.conns[c] = conn]
  <1>1. [m EXCEPT !.conns[c].open = FALSE] = m1
    BY DEF IsMem, ConnMap, IsAFun
  <1>2. conn \in ConnT
    BY ConnTypes
  <1>3. /\ conn.type = m.conns[c].type /\ conn.subtype = m.conns[c].subtype
    BY ConnTypes DEF ConnT
  <1> HIDE DEF conn
  <1>4. /\ IsMem(m1) /\ m1.heap = m.heap /\ m1.cookies = m.cookies /\ m1.bad = m.bad
        /\ DOMAIN m1.conns = DOMAIN m.conns /\ m1.conns[c] = conn
        /\ \A d \in DOMAIN m.conns : d # c => m1.conns[d] = m.conns[d]
    BY <1>2, SetConnMem
  <1> HIDE DEF m1
  <1>5. aim_conn_close(m, c) = m1
    BY <1>1, <1>3, <1>4 DEF aim_conn_close, aim_conn_close_rend
  <1> QED
    BY <1>4, <1>5 DEF conn

LEMMA AcceptFailsEffect ==
    ASSUME Base, NEW c \in DOMAIN mem.conns, AcceptFails(c)
    PROVE  /\ Changes({c}, {}, {mem.conns[c].priv}, {}, {}, NULL)
           /\ mem.conns[c].priv = NULL => mem'.bad = mem.bad
           /\ mem.conns[c].type = "out" /\ Faults # {} /\ nalloc' = nalloc /\ call' = call
  <1> DEFINE m1 == aim_conn_close(mem, c)
  <1>1. /\ Faults # {} /\ nalloc' = nalloc /\ call' = call /\ mem.conns[c].type = "out"
        /\ mem' = connkill_real(m1, c)
    BY DEF AcceptFails, Listening
  <1>2. /\ IsMem(m1) /\ m1.heap = mem.heap /\ m1.cookies = mem.cookies /\ m1.bad = mem.bad
        /\ DOMAIN m1.conns = DOMAIN mem.conns
        /\ m1.conns[c] = [mem.conns[c] EXCEPT !.open = FALSE]
        /\ \A d \in DOMAIN mem.conns : d # c => m1.conns[d] = mem.conns[d]
    BY <1>1, CloseOther DEF Base
  <1> HIDE DEF m1
  <1>3. m1.conns[c].type = "out" /\ m1.conns[c].priv = mem.conns[c].priv
    <2>1. mem.conns[c] \in ConnT
      BY ConnTypes DEF Base
    <2> QED
      BY <1>1, <1>2, <2>1 DEF ConnT
  <1>4. Unique(m1) /\ c \in DOMAIN m1.conns
    BY <1>2 DEF Base, Unique
  <1>5. PICK p \in Ptrs : Kills(m1, mem', c, p)
    BY <1>1, <1>2, <1>4, KillMem
  <1>6. p = NULL /\ mem'.cookies = m1.cookies
    BY <1>3, <1>5 DEF Kills
  <1>7. Listed(mem, mem', {}, NULL)
    BY <1>2, <1>6, SameListed DEF Base
  <1>8. HeapBut(m1, mem', {mem.conns[c].priv})
    <2>1. NULL \notin DOMAIN m1.heap
      BY <1>2, NullPtr
    <2> QED
      BY <1>3, <1>5, <1>6, <2>1 DEF Kills, HeapBut
  <1>9. Changes({c}, {}, {mem.conns[c].priv}, {}, {}, NULL)
    BY <1>2, <1>5, <1>7, <1>8 DEF Changes, Kills, HeapBut
  <1>10. mem.conns[c].priv = NULL => mem'.bad = mem.bad
    BY <1>2, <1>3, <1>5, <1>6 DEF Kills
  <1> QED
    BY <1>1, <1>9, <1>10

\* The connection that aim_cloneconn makes of c.
Cloned(c) == [mem.conns[c] EXCEPT !.type = "rend", !.open = TRUE]

LEMMA CloneEffect ==
    ASSUME Base, NEW c \in DOMAIN mem.conns, NEW n1 \in 1 .. MaxAllocs, n1 \notin DOMAIN mem.conns
    PROVE  /\ Cloned(c) \in ConnT
           /\ IsMem(Clone(mem, c, n1)) /\ Clone(mem, c, n1).heap = mem.heap
           /\ Clone(mem, c, n1).cookies = mem.cookies /\ Clone(mem, c, n1).bad = mem.bad
           /\ DOMAIN Clone(mem, c, n1).conns = DOMAIN mem.conns \cup {n1}
           /\ Clone(mem, c, n1).conns[n1] = Cloned(c)
           /\ \A d \in DOMAIN mem.conns : Clone(mem, c, n1).conns[d] = mem.conns[d]
  <1>1. mem.conns[c] \in ConnT
    BY ConnTypes DEF Base
  <1>2. Cloned(c) \in ConnT
    BY <1>1 DEF Cloned, ConnT
  <1>3. Clone(mem, c, n1) = AddConn(mem, n1, Cloned(c))
    BY DEF Clone, Cloned
  <1>4. IsMem(mem)
    BY DEF Base
  <1> QED
    BY <1>2, <1>3, <1>4, AddConnMem

LEMMA AcceptDirectimEffect ==
    ASSUME Base, NEW c \in DOMAIN mem.conns, AcceptDirectim(c)
    PROVE  /\ Changes({}, {c, nalloc + 1}, {}, {}, {}, NULL)
           /\ mem'.conns[nalloc + 1] = Cloned(c)
           /\ mem'.conns[c] = [mem.conns[c] EXCEPT !.internal = NULL]
           /\ mem.conns[c].internal \in DOMAIN mem.heap => mem'.bad = mem.bad
           /\ mem.conns[c].type = "out" /\ mem.conns[c].open /\ mem.conns[c].subtype = "directim"
           /\ call = NoCall /\ Allocates(1) /\ call' = [op |-> "accept", conn |-> c]
  <1> DEFINE n1 == nalloc + 1
             q == mem.conns[c].internal
             conn == [mem.conns[c] EXCEPT !.internal = NULL]
             m1 == Clone(mem, c, n1)
             m2 == [m1 EXCEPT !.conns[c] = conn]
  <1>1. n1 \in 1 .. MaxAllocs /\ n1 \notin DOMAIN mem.conns
    <2>1. Allocates(1)
      BY DEF AcceptDirectim
    <2>2. 1 \in 1 .. 1 /\ 1 \in 0 .. 3
      OBVIOUS
    <2> QED
      BY <2>1, <2>2, Fresh
  <1>2. /\ mem.conns[c].type = "out" /\ mem.conns[c].open /\ mem.conns[c].subtype = "directim"
        /\ call = NoCall /\ Allocates(1) /\ call' = [op |-> "accept", conn |-> c]
        /\ mem' = Follow([m1 EXCEPT !.conns[c].internal = NULL], q, LAMBDA x : x)
    BY DEF AcceptDirectim, Listening
  <1>3. /\ Cloned(c) \in ConnT
        /\ IsMem(m1) /\ m1.heap = mem.heap /\ m1.cookies = mem.cookies /\ m1.bad = mem.bad
        /\ DOMAIN m1.conns = DOMAIN mem.conns \cup {n1}
        /\ m1.conns[n1] = Cloned(c)
        /\ \A d \in DOMAIN mem.conns : m1.conns[d] = mem.conns[d]
    BY <1>1, CloneEffect
  <1>4. conn \in ConnT
    <2>1. mem.conns[c] \in ConnT
      BY ConnTypes DEF Base
    <2> QED
      BY <2>1, NullPtr DEF ConnT
  <1> HIDE DEF m1
  <1>5. [m1 EXCEPT !.conns[c].internal = NULL] = m2
    BY <1>3 DEF IsMem, ConnMap
  <1> HIDE DEF conn, n1
  <1>6. /\ IsMem(m2) /\ m2.heap = m1.heap /\ m2.cookies = m1.cookies /\ m2.bad = m1.bad
        /\ DOMAIN m2.conns = DOMAIN m1.conns /\ m2.conns[c] = conn
        /\ \A d \in DOMAIN m1.conns : d # c => m2.conns[d] = m1.conns[d]
    BY <1>3, <1>4, SetConnMem
  <1> HIDE DEF m2
  <1>7. /\ IsMem(mem') /\ mem'.conns = m2.conns /\ mem'.heap = m2.heap /\ mem'.cookies = m2.cookies
        /\ q \in DOMAIN mem.heap => mem'.bad = m2.bad
    <2>1. NULL \notin DOMAIN mem.heap
      BY NullPtr DEF Base
    <2>2. CASE q \in DOMAIN mem.heap
      <3>1. mem' = m2
        BY <1>2, <1>3, <1>5, <1>6, <2>1, <2>2 DEF Follow
      <3> QED
        BY <1>6, <3>1
    <2>3. CASE q \notin DOMAIN mem.heap
      <3>1. PICK what \in Accesses : mem' = Bad(m2, what)
        BY <1>2, <1>3, <1>5, <1>6, <2>3 DEF Follow, Accesses
      <3> QED
        BY <1>6, <2>3, <3>1, BadMem
    <2> QED
      BY <2>2, <2>3
  <1>8. Listed(mem, mem', {}, NULL)
    BY <1>3, <1>6, <1>7, SameListed DEF Base
  <1>9. Changes({}, {c, n1}, {}, {}, {}, NULL)
    BY <1>3, <1>6, <1>7, <1>8 DEF Changes
  <1>10. n1 # c
    BY <1>1
  <1> QED
    BY <1>2, <1>3, <1>6, <1>7, <1>9, <1>10 DEF n1, conn

LEMMA AcceptSendfileEffect ==
    ASSUME Base, NEW c \in DOMAIN mem.conns, AcceptSendfile(c)
    PROVE  /\ \/ /\ "keeps listener" \in Habits
                 /\ Changes({}, {nalloc + 1}, {}, {}, {}, NULL)
              \/ /\ Changes({c}, {nalloc + 1}, {mem.conns[c].priv}, {}, {}, NULL)
           /\ mem'.conns[nalloc + 1] = [Cloned(c) EXCEPT !.open = FALSE]
           /\ mem.conns[c].priv = NULL => mem'.bad = mem.bad
           /\ mem.conns[c].type = "out" /\ mem.conns[c].subtype = "sendfile"
           /\ Allocates(1) /\ call' = call
  <1> DEFINE n1 == nalloc + 1
             m1 == Clone(mem, c, n1)
             m2 == aim_conn_close(m1, n1)
  <1>1. n1 \in 1 .. MaxAllocs /\ n1 \notin DOMAIN mem.conns
    <2>1. Allocates(1)
      BY DEF AcceptSendfile
    <2>2. 1 \in 1 .. 1 /\ 1 \in 0 .. 3
      OBVIOUS
    <2> QED
      BY <2>1, <2>2, Fresh
  <1>2. /\ mem.conns[c].type = "out" /\ mem.conns[c].subtype = "sendfile"
        /\ Allocates(1) /\ call' = call
        /\ mem' = IF "keeps listener" \in Habits THEN m2 ELSE connkill_real(m2, c)
    BY DEF AcceptSendfile, Listening
  <1>3. /\ Cloned(c) \in ConnT
        /\ IsMem(m1) /\ m1.heap = mem.heap /\ m1.cookies = mem.cookies /\ m1.bad = mem.bad
        /\ DOMAIN m1.conns = DOMAIN mem.conns \cup {n1}
        /\ m1.conns[n1] = Cloned(c)
        /\ \A d \in DOMAIN mem.conns : m1.conns[d] = mem.conns[d]
    BY <1>1, CloneEffect
  <1> HIDE DEF n1, m1
  <1>4. Cloned(c).subtype = "sendfile"
    <2>1. mem.conns[c] \in ConnT
      BY ConnTypes DEF Base
    <2> QED
      BY <1>2, <2>1 DEF Cloned, ConnT
  <1>5. Unique(m1) /\ n1 \in DOMAIN m1.conns /\ m1.conns[n1].subtype # "directim"
    BY <1>3, <1>4 DEF Base, Unique
  <1>6. /\ IsMem(m2) /\ m2.heap = m1.heap /\ m2.cookies = m1.cookies /\ m2.bad = m1.bad
        /\ DOMAIN m2.conns = DOMAIN m1.conns
        /\ m2.conns[n1] = [Cloned(c) EXCEPT !.open = FALSE]
        /\ \A d \in DOMAIN m1.conns : d # n1 => m2.conns[d] = m1.conns[d]
    BY <1>3, <1>5, CloseOther
  <1> HIDE DEF m2
  <1>7. CASE "keeps listener" \in Habits
    <2>1. mem' = m2
      BY <1>2, <1>7
    <2>2. Listed(mem, mem', {}, NULL)
      BY <1>3, <1>6, <2>1, SameListed DEF Base
    <2>3. Changes({}, {n1}, {}, {}, {}, NULL)
      BY <1>1, <1>3, <1>6, <2>1, <2>2 DEF Changes
    <2> QED
      BY <1>2, <1>3, <1>6, <1>7, <2>1, <2>3 DEF n1
  <1>8. CASE "keeps listener" \notin Habits
    <2>1. mem' = connkill_real(m2, c)
      BY <1>2, <1>8
    <2>2. Unique(m2) /\ c \in DOMAIN m2.conns /\ c # n1 /\ m2.conns[c] = mem.conns[c]
      BY <1>1, <1>3, <1>5, <1>6 DEF Unique
    <2>3. PICK p \in Ptrs : Kills(m2, mem', c, p)
      BY <1>6, <2>1, <2>2, KillMem
    <2>4. p = NULL /\ mem'.cookies = m2.cookies
      BY <1>2, <2>2, <2>3 DEF Kills
    <2>5. Listed(mem, mem', {}, NULL)
      BY <1>3, <1>6, <2>4, SameListed DEF Base
    <2>6. HeapBut(m2, mem', {mem.conns[c].priv})
      <3>1. NULL \notin DOMAIN m2.heap
        BY <1>6, NullPtr
      <3> QED
        BY <1>2, <2>2, <2>3, <2>4, <3>1 DEF Kills, HeapBut
    <2>7. /\ IsMem(mem') /\ DOMAIN mem'.conns = DOMAIN m2.conns \ {c}
          /\ \A d \in DOMAIN m2.conns \ {c} : mem'.conns[d] = m2.conns[d]
      BY <2>3 DEF Kills
    <2>8. Changes({c}, {n1}, {mem.conns[c].priv}, {}, {}, NULL)
      BY <1>1, <1>3, <1>6, <2>2, <2>5, <2>6, <2>7 DEF Changes, HeapBut
    <2>9. mem.conns[c].priv = NULL => mem'.bad = mem.bad
      BY <1>2, <1>3, <1>6, <2>2, <2>3, <2>4 DEF Kills
    <2> QED
      BY <1>2, <1>3, <1>6, <2>2, <2>7, <2>8, <2>9 DEF n1
  <1> QED
    BY <1>7, <1>8

-----------------------------------------------------------------------------
(* Types and one cookie of each kind *)

LEMMA BaseInit == Init => Base
  <1> SUFFICES ASSUME Init PROVE Base
    OBVIOUS
  <1>1. /\ mem = [conns |-> NoConns, heap |-> NoConns, cookies |-> <<>>, bad |-> {}]
        /\ nalloc = 0 /\ call = NoCall
    BY DEF Init
  <1>2. NoConns = [x \in DOMAIN NoConns |-> NoConns[x]] /\ DOMAIN NoConns = {}
    BY DEF NoConns
  <1>3. IsMem(mem)
    BY <1>1, <1>2 DEF IsMem, ConnMap, HeapMap, IsAFun
  <1>4. nalloc \in 0 .. MaxAllocs /\ 0 \in Ptrs
    <2>1. MaxAllocs \in Nat
      BY RendezvousAssumption, Zenon
    <2> QED
      BY <1>1, <2>1 DEF Ptrs
  <1>5. call \in [op : {"none", "accept", "read"}, conn : Ptrs]
    BY <1>1, <1>4 DEF NoCall, NULL
  <1>6. DOMAIN mem.conns = {} /\ DOMAIN mem.heap = {} /\ DOMAIN mem.cookies = {}
    BY <1>1, <1>2
  <1> QED
    BY <1>3, <1>4, <1>5, <1>6 DEF Base, Unique

\* What is not allocated: the list, the call, and the numbers.
LEMMA BaseParts ==
    ASSUME Base
    PROVE  /\ nalloc \in nalloc .. MaxAllocs /\ nalloc \in Nat /\ nalloc \in Ptrs
           /\ NULL \in 0 .. nalloc
           /\ call \in [op : {"none", "accept", "read"}, conn : Ptrs]
           /\ NoCall \in [op : {"none", "accept", "read"}, conn : Ptrs]
           /\ \A c \in DOMAIN mem.conns : /\ c \in 1 .. nalloc /\ c \in Ptrs /\ c # NULL
                                          /\ mem.conns[c] \in ConnT
                                          /\ mem.conns[c].internal \in 0 .. nalloc
                                          /\ mem.conns[c].priv \in 0 .. nalloc
  <1>1. MaxAllocs \in Nat
    BY RendezvousAssumption, Zenon
  <1>2. nalloc \in 0 .. MaxAllocs
    BY Zenon DEF Base
  <1>3. \A c \in DOMAIN mem.conns : c \in 1 .. nalloc
    BY Zenon DEF Base
  <1>4. /\ nalloc \in nalloc .. MaxAllocs /\ nalloc \in Nat /\ nalloc \in Ptrs /\ NULL \in 0 .. nalloc
        /\ \A c \in 1 .. nalloc : c \in Ptrs /\ c # NULL
        /\ NoCall \in [op : {"none", "accept", "read"}, conn : Ptrs]
    BY <1>1, <1>2 DEF Ptrs, NULL, NoCall
  <1>5. \A c \in DOMAIN mem.conns : mem.conns[c] \in ConnT
    BY ConnTypes DEF Base
  <1> QED
    BY <1>3, <1>4, <1>5 DEF Base

\* A step that changes no memory.
LEMMA BaseQuiet ==
    ASSUME Base, UNCHANGED <<mem, nalloc>>, call' \in [op : {"none", "accept", "read"}, conn : Ptrs]
    PROVE  Base'
  BY DEF Base

\* A step that allocates nothing.
LEMMA BaseSheds ==
    ASSUME Base, UNCHANGED nalloc,
           call' \in [op : {"none", "accept", "read"}, conn : Ptrs],
           NEW K, NEW S \in SUBSET DOMAIN mem.conns, NEW P, NEW p, Changes(K, S, P, {}, {}, p),
           \A s \in S : mem'.conns[s].internal = mem.conns[s].internal /\ mem'.conns[s].priv = mem.conns[s].priv
    PROVE  Base'
  <1>1. nalloc' \in nalloc .. MaxAllocs
    BY BaseParts
  <1>2. S \in SUBSET (1 .. nalloc')
    BY BaseParts
  <1>3. \A s \in S : mem'.conns[s].internal \in 0 .. nalloc' /\ mem'.conns[s].priv \in 0 .. nalloc'
    BY BaseParts
  <1> QED
    BY <1>1, <1>2, <1>3, BaseNext

\* Closing a connection changes nothing else about it.
LEMMA OpenOnly ==
    ASSUME Base, NEW c \in DOMAIN mem.conns
    PROVE  /\ [mem.conns[c] EXCEPT !.open = FALSE].internal = mem.conns[c].internal
           /\ [mem.conns[c] EXCEPT !.open = FALSE].priv = mem.conns[c].priv
           /\ [mem.conns[c] EXCEPT !.open = FALSE].type = mem.conns[c].type
           /\ [mem.conns[c] EXCEPT !.open = FALSE].subtype = mem.conns[c].subtype
           /\ [mem.conns[c] EXCEPT !.open = FALSE].open = FALSE
  <1>1. mem.conns[c] \in ConnT
    BY BaseParts
  <1> QED
    BY <1>1 DEF ConnT

LEMMA CloneFields ==
    ASSUME Base, NEW c \in DOMAIN mem.conns
    PROVE  /\ Cloned(c).internal = mem.conns[c].internal /\ Cloned(c).priv = mem.conns[c].priv
           /\ Cloned(c).type = "rend" /\ Cloned(c).subtype = mem.conns[c].subtype /\ Cloned(c).open = TRUE
           /\ [Cloned(c) EXCEPT !.open = FALSE].internal = mem.conns[c].internal
           /\ [Cloned(c) EXCEPT !.open = FALSE].priv = mem.conns[c].priv
           /\ [Cloned(c) EXCEPT !.open = FALSE].type = "rend"
           /\ [Cloned(c) EXCEPT !.open = FALSE].subtype = mem.conns[c].subtype
           /\ [Cloned(c) EXCEPT !.open = FALSE].open = FALSE
           /\ [mem.conns[c] EXCEPT !.internal = NULL].internal = NULL
           /\ [mem.conns[c] EXCEPT !.internal = NULL].priv = mem.conns[c].priv
           /\ [mem.conns[c] EXCEPT !.internal = NULL].type = mem.conns[c].type
           /\ [mem.conns[c] EXCEPT !.internal = NULL].subtype = mem.conns[c].subtype
           /\ [mem.conns[c] EXCEPT !.internal = NULL].open = mem.conns[c].open
  <1>1. mem.conns[c] \in ConnT
    BY BaseParts
  <1> QED
    BY <1>1 DEF ConnT, Cloned

LEMMA NewConnFields ==
    ASSUME NEW type, NEW subtype, NEW open, NEW q, NEW r
    PROVE  /\ NewConn(type, subtype, open, q).type = type /\ NewConn(type, subtype, open, q).subtype = subtype
           /\ NewConn(type, subtype, open, q).open = open /\ NewConn(type, subtype, open, q).internal = q
           /\ NewConn(type, subtype, open, q).priv = NULL
           /\ [NewConn(type, subtype, open, q) EXCEPT !.priv = r].type = type
           /\ [NewConn(type, subtype, open, q) EXCEPT !.priv = r].subtype = subtype
           /\ [NewConn(type, subtype, open, q) EXCEPT !.priv = r].open = open
           /\ [NewConn(type, subtype, open, q) EXCEPT !.priv = r].internal = q
           /\ [NewConn(type, subtype, open, q) EXCEPT !.priv = r].priv = r
  BY DEF NewConn

LEMMA NewDataFields ==
    ASSUME NEW type, NEW ck, NEW data
    PROVE  /\ NewData(type, ck, data).type = type /\ NewData(type, ck, data).ck = ck
           /\ NewData(type, ck, data).data = data
  BY DEF NewData

LEMMA PrivFields ==
    ASSUME Base, NEW c \in DOMAIN mem.conns, NEW q
    PROVE  /\ [mem.conns[c] EXCEPT !.priv = q].internal = mem.conns[c].internal
           /\ [mem.conns[c] EXCEPT !.priv = q].priv = q
           /\ [mem.conns[c] EXCEPT !.priv = q].type = mem.conns[c].type
           /\ [mem.conns[c] EXCEPT !.priv = q].subtype = mem.conns[c].subtype
           /\ [mem.conns[c] EXCEPT !.priv = q].open = mem.conns[c].open
  <1>1. mem.conns[c] \in ConnT
    BY BaseParts
  <1> QED
    BY <1>1 DEF ConnT

\* The connections, objects and cookies that are new have numbers up to nalloc'.
Numbered(S, A, news) ==
    /\ \A s \in S : /\ s \in 1 .. nalloc'
                    /\ mem'.conns[s].internal \in 0 .. nalloc' /\ mem'.conns[s].priv \in 0 .. nalloc'
    /\ \A q \in A : q \in 1 .. nalloc'
    /\ \A x \in news : x.data \in 0 .. nalloc'

LEMMA BaseGrows ==
    ASSUME Base, nalloc' \in nalloc .. MaxAllocs,
           call' \in [op : {"none", "accept", "read"}, conn : Ptrs],
           NEW K, NEW S, NEW P, NEW A, NEW news, NEW p,
           Changes(K, S, P, A, news, p), Numbered(S, A, news)
    PROVE  Base'
  <1>1. S \in SUBSET (1 .. nalloc') /\ A \in SUBSET (1 .. nalloc')
    BY DEF Numbered
  <1>2. \A s \in S : mem'.conns[s].internal \in 0 .. nalloc' /\ mem'.conns[s].priv \in 0 .. nalloc'
    BY DEF Numbered
  <1>3. \A x \in news : x.data \in 0 .. nalloc'
    BY DEF Numbered
  <1> QED
    BY <1>1, <1>2, <1>3, BaseNext

LEMMA BaseStep == Base /\ [Next]_vars => Base'
  <1> SUFFICES ASSUME Base, [Next]_vars PROVE Base'
    OBVIOUS
  <1> DEFINE calls == [op : {"none", "accept", "read"}, conn : Ptrs]
  <1>a. call \in calls /\ NoCall \in calls /\ nalloc \in Nat /\ NULL \in 0 .. nalloc
    BY BaseParts
  <1>b. /\ 1 \in 1 .. 1 /\ 1 \in 1 .. 2 /\ 2 \in 1 .. 2 /\ 1 \in 1 .. 3 /\ 2 \in 1 .. 3 /\ 3 \in 1 .. 3
        /\ 0 \in 0 .. 3 /\ 1 \in 0 .. 3 /\ 2 \in 0 .. 3 /\ 3 \in 0 .. 3
    OBVIOUS
  <1>1. ASSUME NEW s \in Subtypes, NEW ck \in Cks, Initiate(s, ck) PROVE Base'
    <2>1. PICK p \in Ptrs : Changes({}, {nalloc + 3}, {p}, {nalloc + 1, nalloc + 2},
                                    {NewData("OFTIM", ck, nalloc + 1)}, p)
      BY <1>1, InitiateEffect
    <2>2. mem'.conns[nalloc + 3] = NewConn("out", s, TRUE, nalloc + 2) /\ Allocates(3) /\ call' = call
      BY <1>1, InitiateEffect
    <2>3. /\ nalloc' \in nalloc .. MaxAllocs /\ nalloc + 1 \in 1 .. nalloc' /\ nalloc + 2 \in 1 .. nalloc'
          /\ nalloc + 3 \in 1 .. nalloc' /\ nalloc + 1 \in 0 .. nalloc' /\ nalloc + 2 \in 0 .. nalloc'
      BY <1>b, <2>2, Fresh
    <2>4. NULL \in 0 .. nalloc'
      BY <1>a, <2>3 DEF NULL
    <2>5. mem'.conns[nalloc + 3].internal = nalloc + 2 /\ mem'.conns[nalloc + 3].priv = NULL
      BY <2>2 DEF NewConn
    <2>6. NewData("OFTIM", ck, nalloc + 1).data = nalloc + 1
      BY NewDataFields
    <2>7. Numbered({nalloc + 3}, {nalloc + 1, nalloc + 2}, {NewData("OFTIM", ck, nalloc + 1)})
      BY <2>3, <2>4, <2>5, <2>6 DEF Numbered
    <2> QED
      BY <1>a, <2>1, <2>2, <2>3, <2>7, BaseGrows
  <1>2. ASSUME NEW ck \in Cks, InitiateFails(ck) PROVE Base'
    <2>1. PICK p \in Ptrs : Changes({}, {}, {p}, {nalloc + 1}, {NewData("OFTIM", ck, nalloc + 1)}, p)
      BY <1>2, InitiateFailsEffect
    <2>2. Allocates(1) /\ call' = call
      BY <1>2, InitiateFailsEffect
    <2>3. nalloc' \in nalloc .. MaxAllocs /\ nalloc + 1 \in 1 .. nalloc' /\ nalloc + 1 \in 0 .. nalloc'
      BY <1>b, <2>2, Fresh
    <2>4. NewData("OFTIM", ck, nalloc + 1).data \in 0 .. nalloc'
      BY <2>3, NewDataFields
    <2>8. Numbered({}, {nalloc + 1}, {NewData("OFTIM", ck, nalloc + 1)})
      BY <2>1, <2>2, <2>3, <2>4 DEF Numbered
    <2> QED
      BY <1>a, <2>1, <2>2, <2>3, <2>4, <2>8, BaseGrows
  <1>3. ASSUME NEW ck \in Cks, NEW open \in BOOLEAN, aim_directim_connect(ck, open) PROVE Base'
    <2>1. /\ Changes({}, {nalloc + 2}, {}, {nalloc + 1}, {}, NULL)
          /\ mem'.conns[nalloc + 2] = NewConn("rend", "directim", open, nalloc + 1)
          /\ Allocates(2) /\ call' = call
      BY <1>3, ConnectEffect
    <2>2. /\ nalloc' \in nalloc .. MaxAllocs /\ nalloc + 1 \in 1 .. nalloc' /\ nalloc + 2 \in 1 .. nalloc'
          /\ nalloc + 1 \in 0 .. nalloc'
      BY <1>b, <2>1, Fresh
    <2>3. NULL \in 0 .. nalloc'
      BY <1>a, <2>2 DEF NULL
    <2>4. mem'.conns[nalloc + 2].internal \in 0 .. nalloc' /\ mem'.conns[nalloc + 2].priv \in 0 .. nalloc'
      BY <2>1, <2>2, <2>3, NewConnFields
    <2>8. Numbered({nalloc + 2}, {nalloc + 1}, {})
      BY <2>1, <2>2, <2>4 DEF Numbered
    <2> QED
      BY <1>a, <2>1, <2>2, <2>4, <2>8, BaseGrows
  <1>4. ASSUME NEW c \in DOMAIN mem.conns, mem' = aim_conn_close(mem, c), nalloc' = nalloc, call' \in calls
        PROVE  Base'
    <2>1. PICK p \in Ptrs : Changes({}, {c}, {p}, {}, {}, p)
      BY <1>4, CloseEffect
    <2>2. mem'.conns[c].internal = mem.conns[c].internal /\ mem'.conns[c].priv = mem.conns[c].priv
      BY <1>4, CloseEffect, OpenOnly
    <2> QED
      BY <1>4, <2>1, <2>2, BaseSheds
  <1>5. ASSUME NEW c \in DOMAIN mem.conns, aim_conn_kill(c) PROVE Base'
    <2>1. mem' = connkill_real(mem, c) /\ UNCHANGED <<nalloc, call>>
      BY <1>5 DEF aim_conn_kill
    <2>2. PICK p \in Ptrs :
             Changes({c}, {}, {p, mem.conns[c].priv,
                               IF mem.conns[c].type = "rend" THEN mem.conns[c].internal ELSE NULL}, {}, {}, p)
      BY <2>1, KillEffect
    <2> QED
      BY <1>a, <2>1, <2>2, BaseSheds
  <1>6. ASSUME NEW c \in DOMAIN mem.conns, SetPriv(c) PROVE Base'
    <2>1. /\ Changes({}, {c}, {}, {nalloc + 1}, {}, NULL)
          /\ mem'.conns[c] = [mem.conns[c] EXCEPT !.priv = nalloc + 1] /\ Allocates(1) /\ call' = call
      BY <1>6, SetPrivEffect
    <2>2. /\ nalloc' \in nalloc .. MaxAllocs /\ nalloc + 1 \in 1 .. nalloc' /\ nalloc + 1 \in 0 .. nalloc'
      BY <1>b, <2>1, Fresh
    <2>3. c \in 1 .. nalloc' /\ mem.conns[c].internal \in 0 .. nalloc'
      BY <1>a, <2>2, BaseParts
    <2>4. mem'.conns[c].internal \in 0 .. nalloc' /\ mem'.conns[c].priv \in 0 .. nalloc'
      BY <2>1, <2>2, <2>3, PrivFields
    <2>8. Numbered({c}, {nalloc + 1}, {})
      BY <2>1, <2>2, <2>3, <2>4 DEF Numbered
    <2> QED
      BY <1>a, <2>1, <2>2, <2>3, <2>4, <2>8, BaseGrows
  <1>7. ASSUME NEW open \in BOOLEAN, JoinChat(open) PROVE Base'
    <2>1. /\ Changes({}, {nalloc + 3}, {}, {nalloc + 1, nalloc + 2}, {}, NULL)
          /\ mem'.conns[nalloc + 3] = [NewConn("chat", "none", open, NULL) EXCEPT !.priv = nalloc + 2]
          /\ Allocates(3) /\ call' = call
      BY <1>7, JoinChatEffect
    <2>2. /\ nalloc' \in nalloc .. MaxAllocs /\ nalloc + 1 \in 1 .. nalloc' /\ nalloc + 2 \in 1 .. nalloc'
          /\ nalloc + 3 \in 1 .. nalloc' /\ nalloc + 2 \in 0 .. nalloc'
      BY <1>b, <2>1, Fresh
    <2>3. NULL \in 0 .. nalloc'
      BY <1>a, <2>2 DEF NULL
    <2>4. mem'.conns[nalloc + 3].internal \in 0 .. nalloc' /\ mem'.conns[nalloc + 3].priv \in 0 .. nalloc'
      BY <2>1, <2>2, <2>3, NewConnFields
    <2>8. Numbered({nalloc + 3}, {nalloc + 1, nalloc + 2}, {})
      BY <2>1, <2>2, <2>4 DEF Numbered
    <2> QED
      BY <1>a, <2>1, <2>2, <2>4, <2>8, BaseGrows
  <1>8. ASSUME NEW c \in DOMAIN mem.conns, aim_chat_attachname(c) PROVE Base'
    <2>1. /\ Changes({}, {c}, {mem.conns[c].priv}, {nalloc + 1, nalloc + 2}, {}, NULL)
          /\ mem'.conns[c] = [mem.conns[c] EXCEPT !.priv = nalloc + 2]
          /\ Allocates(2) /\ call' = call
      BY <1>8, AttachNameEffect
    <2>2. /\ nalloc' \in nalloc .. MaxAllocs /\ nalloc + 1 \in 1 .. nalloc' /\ nalloc + 2 \in 1 .. nalloc'
          /\ nalloc + 2 \in 0 .. nalloc'
      BY <1>b, <2>1, Fresh
    <2>3. c \in 1 .. nalloc' /\ mem.conns[c].internal \in 0 .. nalloc'
      BY <1>a, <2>2, BaseParts
    <2>4. mem'.conns[c].internal \in 0 .. nalloc' /\ mem'.conns[c].priv \in 0 .. nalloc'
      BY <2>1, <2>2, <2>3, PrivFields
    <2>8. Numbered({c}, {nalloc + 1, nalloc + 2}, {})
      BY <2>1, <2>2, <2>3, <2>4 DEF Numbered
    <2> QED
      BY <1>a, <2>1, <2>2, <2>3, <2>4, <2>8, BaseGrows
  <1>9. ASSUME NEW ck \in Cks, aim_chat_send_im(ck) PROVE Base'
    <2>1. PICK p \in Ptrs : Changes({}, {}, {p}, {}, {NewData("CHAT", ck, NULL)}, p)
      BY <1>9, SendChatEffect
    <2>2. Allocates(0) /\ call' = call
      BY <1>9, SendChatEffect
    <2>3. nalloc' \in nalloc .. MaxAllocs
      BY <1>b, <2>2, Fresh
    <2>4. NewData("CHAT", ck, NULL).data \in 0 .. nalloc'
      BY <1>a, <2>3, NewDataFields DEF NULL
    <2>8. Numbered({}, {}, {NewData("CHAT", ck, NULL)})
      BY <2>1, <2>2, <2>3, <2>4 DEF Numbered
    <2> QED
      BY <1>a, <2>1, <2>2, <2>3, <2>4, <2>8, BaseGrows
  <1>10. ASSUME NEW ck \in Cks, incomingmsg(ck) PROVE Base'
    <2>1. PICK p \in Ptrs : Changes({}, {}, {p}, {}, {}, p)
      BY <1>10, IncomingEffect
    <2>2. nalloc' = nalloc /\ call' = call
      BY <1>10, IncomingEffect
    <2> QED
      BY <1>a, <2>1, <2>2, BaseSheds
  <1>11. ASSUME NEW ck \in Cks, aim_chat_invite(ck) PROVE Base'
    <2>1. PICK p \in Ptrs :
             Changes({}, {}, {p}, {nalloc + 1, nalloc + 2}, {NewData("INVITE", ck, nalloc + 2)}, p)
      BY <1>11, InviteEffect
    <2>2. Allocates(2) /\ call' = call
      BY <1>11, InviteEffect
    <2>3. /\ nalloc' \in nalloc .. MaxAllocs /\ nalloc + 1 \in 1 .. nalloc' /\ nalloc + 2 \in 1 .. nalloc'
          /\ nalloc + 2 \in 0 .. nalloc'
      BY <1>b, <2>2, Fresh
    <2>4. NewData("INVITE", ck, nalloc + 2).data \in 0 .. nalloc'
      BY <2>3, NewDataFields
    <2>8. Numbered({}, {nalloc + 1, nalloc + 2}, {NewData("INVITE", ck, nalloc + 2)})
      BY <2>1, <2>2, <2>3, <2>4 DEF Numbered
    <2> QED
      BY <1>a, <2>1, <2>2, <2>3, <2>4, <2>8, BaseGrows
  <1>12. ASSUME NEW c \in DOMAIN mem.conns, AcceptFails(c) PROVE Base'
    <2>1. Changes({c}, {}, {mem.conns[c].priv}, {}, {}, NULL) /\ nalloc' = nalloc /\ call' = call
      BY <1>12, AcceptFailsEffect
    <2> QED
      BY <1>a, <2>1, BaseSheds
  <1>13. ASSUME NEW c \in DOMAIN mem.conns, AcceptDirectim(c) PROVE Base'
    <2>1. /\ Changes({}, {c, nalloc + 1}, {}, {}, {}, NULL)
          /\ mem'.conns[nalloc + 1] = Cloned(c) /\ mem'.conns[c] = [mem.conns[c] EXCEPT !.internal = NULL]
          /\ Allocates(1) /\ call' = [op |-> "accept", conn |-> c]
      BY <1>13, AcceptDirectimEffect
    <2>2. /\ nalloc' \in nalloc .. MaxAllocs /\ nalloc + 1 \in 1 .. nalloc'
      BY <1>b, <2>1, Fresh
    <2>3. /\ c \in 1 .. nalloc' /\ c \in Ptrs /\ NULL \in 0 .. nalloc'
          /\ mem.conns[c].internal \in 0 .. nalloc' /\ mem.conns[c].priv \in 0 .. nalloc'
      BY <1>a, <2>2, BaseParts DEF NULL
    <2>4. call' \in calls
      BY <2>1, <2>3
    <2>5. /\ mem'.conns[c].internal = NULL /\ mem'.conns[c].priv = mem.conns[c].priv
          /\ mem'.conns[nalloc + 1].internal = mem.conns[c].internal
          /\ mem'.conns[nalloc + 1].priv = mem.conns[c].priv
      BY <2>1, CloneFields
    <2>8. Numbered({c, nalloc + 1}, {}, {})
      BY <2>1, <2>2, <2>3, <2>4, <2>5 DEF Numbered
    <2> QED
      BY <2>1, <2>2, <2>3, <2>4, <2>5, <2>8, BaseGrows
  <1>14. ASSUME NEW c \in DOMAIN mem.conns, AcceptSendfile(c) PROVE Base'
    <2>1. PICK K \in {{}, {c}}, P \in {{}, {mem.conns[c].priv}} : Changes(K, {nalloc + 1}, P, {}, {}, NULL)
      BY <1>14, AcceptSendfileEffect
    <2>2. mem'.conns[nalloc + 1] = [Cloned(c) EXCEPT !.open = FALSE] /\ Allocates(1) /\ call' = call
      BY <1>14, AcceptSendfileEffect
    <2>3. /\ nalloc' \in nalloc .. MaxAllocs /\ nalloc + 1 \in 1 .. nalloc'
      BY <1>b, <2>2, Fresh
    <2>4. mem.conns[c].internal \in 0 .. nalloc' /\ mem.conns[c].priv \in 0 .. nalloc'
      BY <1>a, <2>3, BaseParts
    <2>5. mem'.conns[nalloc + 1].internal \in 0 .. nalloc' /\ mem'.conns[nalloc + 1].priv \in 0 .. nalloc'
      BY <2>2, <2>4, CloneFields
    <2>8. Numbered({nalloc + 1}, {}, {})
      BY <2>1, <2>2, <2>3, <2>5 DEF Numbered
    <2> QED
      BY <1>a, <2>1, <2>2, <2>3, <2>5, <2>8, BaseGrows
  <1>15. CASE AcceptReturns
    BY <1>a, <1>15, BaseQuiet DEF AcceptReturns
  <1>16. ASSUME NEW c \in DOMAIN mem.conns, ReadMessage(c) PROVE Base'
    <2>1. call' = [op |-> "read", conn |-> c] /\ UNCHANGED <<mem, nalloc>>
      BY <1>16 DEF ReadMessage
    <2>2. call' \in calls
      BY <2>1, BaseParts
    <2> QED
      BY <2>1, <2>2, BaseQuiet
  <1>17. ASSUME NEW fails \in BOOLEAN, ReadReturns(fails) PROVE Base'
    <2>1. CASE fails
      BY <1>a, <1>4, <1>17, <2>1 DEF ReadReturns
    <2>2. CASE ~fails
      BY <1>a, <1>17, <2>2, BaseQuiet DEF ReadReturns
    <2> QED
      BY <2>1, <2>2
  <1>18. ASSUME NEW c \in DOMAIN mem.conns, Close(c) \/ ReadFails(c) PROVE Base'
    BY <1>a, <1>4, <1>18 DEF Close, ReadFails
  <1>19. CASE UNCHANGED vars
    BY <1>a, <1>19, BaseQuiet DEF vars
  <1> QED
    BY <1>1, <1>2, <1>3, <1>5, <1>6, <1>7, <1>8, <1>9, <1>10, <1>11, <1>12, <1>13, <1>14, <1>15, <1>16,
       <1>17, <1>18, <1>19 DEF Next

LEMMA BaseAlways == Spec => []Base
  BY BaseInit, BaseStep, PTL DEF Spec

LEMMA BaseTypes == Base => TypeOK
  <1> SUFFICES ASSUME Base PROVE TypeOK
    OBVIOUS
  <1>1. IsMem(mem)
    BY Zenon DEF Base
  <1>2. nalloc \in 0 .. MaxAllocs
    BY Zenon DEF Base
  <1>3. call \in [op : {"none", "accept", "read"}, conn : Ptrs]
    BY BaseParts
  <1>4. /\ DOMAIN mem.conns \subseteq 1 .. MaxAllocs /\ DOMAIN mem.heap \subseteq 1 .. MaxAllocs
        /\ \A c \in DOMAIN mem.conns : mem.conns[c] \in ConnT
        /\ \A p \in DOMAIN mem.heap : mem.heap[p] \in ObjT
        /\ mem.bad \subseteq {"freed twice", "used after free", "NULL followed"}
    BY <1>1, Zenon DEF IsMem, ConnMap, HeapMap, Accesses
  <1>5. \A i \in DOMAIN mem.cookies : mem.cookies[i] \in CookieT
    BY <1>1 DEF IsMem
  <1> QED
    BY <1>2, <1>3, <1>4, <1>5, Zenon DEF TypeOK

\* The library's own structures stay well formed, whatever the client does and
\* whatever fails around it: no step stores a pointer of another kind, and no
\* step of a teardown (conn.c:152-190) makes an access of an unknown sort.
THEOREM TypeCorrect == Spec => []TypeOK
  BY BaseTypes, BaseAlways, PTL

\* msgcookie.c:7-12 and 24-27: caching a cookie again replaces it, so that every
\* search of the list has one answer at most, however often rand() repeats itself.
THEOREM OneCookieEach == Spec => []UniqueCookies
  <1>1. Base => UniqueCookies
    BY DEF Base, Unique, UniqueCookies
  <1> QED
    BY <1>1, BaseAlways, PTL

-----------------------------------------------------------------------------
(* ->internal *)

LEMMA OwnedNext ==
    ASSUME Base, Owned, NEW K, NEW S, NEW P, NEW A, NEW news, NEW p,
           Changes(K, S, P, A, news, p),
           \A d \in DOMAIN mem.conns \ (K \cup S) : mem.conns[d].internal # NULL =>
               /\ mem.conns[d].internal \notin P
               /\ \A s \in S : /\ mem'.conns[s].internal # mem.conns[d].internal
                               /\ mem'.conns[s].priv # mem.conns[d].internal
               /\ \A x \in news : x.data # mem.conns[d].internal,
           \A s \in S : OwnedConn(mem', s)
    PROVE  Owned'
  <1> SUFFICES ASSUME NEW d \in DOMAIN mem'.conns, d \notin S PROVE OwnedConn(mem', d)
    BY DEF Owned
  <1> DEFINE q == mem.conns[d].internal
  <1>1. /\ d \in DOMAIN mem.conns \ (K \cup S) /\ mem'.conns[d] = mem.conns[d]
        /\ DOMAIN mem'.conns = (DOMAIN mem.conns \ K) \cup S
        /\ \A e \in DOMAIN mem.conns \ (K \cup S) : mem'.conns[e] = mem.conns[e]
        /\ DOMAIN mem'.heap = (DOMAIN mem.heap \ P) \cup A
        /\ \A i \in DOMAIN mem'.cookies : \/ mem'.cookies[i] \in news
                                          \/ \E k \in DOMAIN mem.cookies : mem'.cookies[i] = mem.cookies[k]
    BY DEF Changes, Listed
  <1>2. OwnedConn(mem, d)
    BY <1>1 DEF Owned
  <1>3. CASE q = NULL
    BY <1>1, <1>2, <1>3 DEF OwnedConn
  <1>4. CASE q # NULL
    <2>1. /\ q \in DOMAIN mem.heap
          /\ \A e \in DOMAIN mem.conns \ {d} : mem.conns[e].internal # q
          /\ \A e \in DOMAIN mem.conns : mem.conns[e].priv # q
          /\ \A i \in DOMAIN mem.cookies : mem.cookies[i].data # q
      BY <1>2, <1>4 DEF OwnedConn
    <2>2. /\ q \notin P
          /\ \A s \in S : mem'.conns[s].internal # q /\ mem'.conns[s].priv # q
          /\ \A x \in news : x.data # q
      BY <1>1, <1>4
    <2>3. q \in DOMAIN mem'.heap
      BY <1>1, <2>1, <2>2
    <2>4. \A e \in DOMAIN mem'.conns \ {d} : mem'.conns[e].internal # q
      BY <1>1, <2>1, <2>2
    <2>5. \A e \in DOMAIN mem'.conns : mem'.conns[e].priv # q
      BY <1>1, <2>1, <2>2
    <2>6. \A i \in DOMAIN mem'.cookies : mem'.cookies[i].data # q
      BY <1>1, <2>1, <2>2
    <2> QED
      BY <1>1, <1>4, <2>3, <2>4, <2>5, <2>6 DEF OwnedConn
  <1> QED
    BY <1>3, <1>4

\* What may be freed and stored without a look at the other connections: data of
\* cookies, ->priv, the ->internal of what goes, and new objects.
Harmless(K, q) ==
    \/ q = NULL
    \/ q \notin 0 .. nalloc
    \/ \E k \in DOMAIN mem.cookies : q = mem.cookies[k].data
    \/ \E c \in DOMAIN mem.conns : q = mem.conns[c].priv
    \/ \E c \in K \cap DOMAIN mem.conns : q = mem.conns[c].internal

LEMMA HarmlessOther ==
    ASSUME Base, Owned, NEW K, NEW q, Harmless(K, q), NEW d \in DOMAIN mem.conns \ K, mem.conns[d].internal # NULL
    PROVE  q # mem.conns[d].internal
  <1>1. OwnedConn(mem, d)
    BY DEF Owned
  <1>2. mem.conns[d].internal \in 0 .. nalloc
    BY BaseParts
  <1> QED
    BY <1>1, <1>2 DEF OwnedConn, Harmless

FreesHarmless(K, P) == \A q \in P : Harmless(K, q)

StoresHarmless(K, S, news) ==
    /\ \A s \in S : Harmless(K \cup S, mem'.conns[s].internal) /\ Harmless({}, mem'.conns[s].priv)
    /\ \A x \in news : Harmless({}, x.data)

LEMMA OwnedHarmless ==
    ASSUME Base, Owned, NEW K, NEW S, NEW P, NEW A, NEW news, NEW p,
           Changes(K, S, P, A, news, p),
           FreesHarmless(K, P), StoresHarmless(K, S, news), \A s \in S : OwnedConn(mem', s)
    PROVE  Owned'
  <1>1. ASSUME NEW d \in DOMAIN mem.conns \ (K \cup S), mem.conns[d].internal # NULL
        PROVE  /\ mem.conns[d].internal \notin P
               /\ \A s \in S : /\ mem'.conns[s].internal # mem.conns[d].internal
                               /\ mem'.conns[s].priv # mem.conns[d].internal
               /\ \A x \in news : x.data # mem.conns[d].internal
    <2>1. \A q \in P : q # mem.conns[d].internal
      BY <1>1, HarmlessOther DEF FreesHarmless, StoresHarmless
    <2>2. \A s \in S : mem'.conns[s].internal # mem.conns[d].internal
      BY <1>1, HarmlessOther DEF FreesHarmless, StoresHarmless
    <2>3. \A s \in S : mem'.conns[s].priv # mem.conns[d].internal
      BY <1>1, HarmlessOther DEF FreesHarmless, StoresHarmless
    <2>4. \A x \in news : x.data # mem.conns[d].internal
      BY <1>1, HarmlessOther DEF FreesHarmless, StoresHarmless
    <2> QED
      BY <2>1, <2>2, <2>3, <2>4
  <1> QED
    BY <1>1, OwnedNext

\* The data of a cookie that goes.
LEMMA DataHarmless ==
    ASSUME NEW K, NEW S, NEW P, NEW A, NEW news, NEW p, Changes(K, S, P, A, news, p), NEW L
    PROVE  Harmless(L, p)
  BY DEF Changes, Listed, Harmless

\* The same of the cookies alone; none of them has the data q.
NewsHarmless(news, q) == \A x \in news : Harmless({}, x.data) /\ x.data # q

LEMMA HarmlessSets ==
    ASSUME NEW K
    PROVE  /\ Harmless(K, NULL) /\ FreesHarmless(K, {})
           /\ \A q : q \notin 0 .. nalloc => Harmless(K, q)
           /\ \A q : Harmless(K, q) => FreesHarmless(K, {q})
           /\ \A q : NewsHarmless({}, q)
           /\ \A x, q : Harmless({}, x.data) /\ x.data # q => NewsHarmless({x}, q)
           /\ \A c \in DOMAIN mem.conns : Harmless(K, mem.conns[c].priv) /\ FreesHarmless(K, {mem.conns[c].priv})
  BY DEF Harmless, FreesHarmless, NewsHarmless

\* A step that frees and stores only what is harmless, and changes no ->internal.
LEMMA OwnedKept ==
    ASSUME Base, Owned, NEW c \in DOMAIN mem.conns, NEW P, NEW A, NEW p,
           Changes({}, {c}, P, A, {}, p),
           FreesHarmless({}, P),
           mem'.conns[c].type = mem.conns[c].type, mem'.conns[c].internal = mem.conns[c].internal,
           Harmless({}, mem'.conns[c].priv)
    PROVE  Owned'
  <1> DEFINE q == mem.conns[c].internal
  <1>1. /\ DOMAIN mem'.conns = DOMAIN mem.conns
        /\ \A e \in DOMAIN mem.conns \ {c} : mem'.conns[e] = mem.conns[e]
        /\ DOMAIN mem'.heap = (DOMAIN mem.heap \ P) \cup A
        /\ \A i \in DOMAIN mem'.cookies : \E k \in DOMAIN mem.cookies : mem'.cookies[i] = mem.cookies[k]
    BY DEF Changes, Listed
  <1>2. OwnedConn(mem, c)
    BY DEF Owned
  <1>3. OwnedConn(mem', c)
    <2>1. CASE q = NULL
      BY <1>2, <2>1 DEF OwnedConn
    <2>2. CASE q # NULL
      <3>1. q \notin P /\ mem'.conns[c].priv # q
        BY <2>2, HarmlessOther DEF FreesHarmless
      <3>2. /\ q \in DOMAIN mem.heap
            /\ \A e \in DOMAIN mem.conns \ {c} : mem.conns[e].internal # q
            /\ \A e \in DOMAIN mem.conns : mem.conns[e].priv # q
            /\ \A i \in DOMAIN mem.cookies : mem.cookies[i].data # q
        BY <1>2, <2>2 DEF OwnedConn
      <3>3. q \in DOMAIN mem'.heap
        BY <1>1, <3>1, <3>2
      <3>4. \A e \in DOMAIN mem'.conns \ {c} : mem'.conns[e].internal # q
        BY <1>1, <3>2
      <3>5. \A e \in DOMAIN mem'.conns : mem'.conns[e].priv # q
        BY <1>1, <3>1, <3>2
      <3>6. \A i \in DOMAIN mem'.cookies : mem'.cookies[i].data # q
        BY <1>1, <3>2
      <3> QED
        BY <2>2, <3>3, <3>4, <3>5, <3>6 DEF OwnedConn
    <2> QED
      BY <2>1, <2>2
  <1>4. Harmless({} \cup {c}, mem'.conns[c].internal)
    BY DEF Harmless
  <1>5. StoresHarmless({}, {c}, {}) /\ \A s \in {c} : OwnedConn(mem', s)
    BY <1>3, <1>4 DEF StoresHarmless
  <1> QED
    BY <1>5, OwnedHarmless

\* A step that changes no connection.
LEMMA OwnedAside ==
    ASSUME Base, Owned, NEW K, NEW P, NEW A, NEW news, NEW p,
           Changes(K, {}, P, A, news, p),
           FreesHarmless(K, P), NEW q, NewsHarmless(news, q)
    PROVE  Owned'
  <1>1. StoresHarmless(K, {}, news) /\ \A s \in {} : OwnedConn(mem', s)
    BY DEF StoresHarmless, NewsHarmless
  <1> QED
    BY <1>1, OwnedHarmless

\* A connection with a new object or none.
LEMMA OwnedNew ==
    ASSUME Base, Owned, NEW n, NEW P, NEW A, NEW news, NEW p,
           Changes({}, {n}, P, A, news, p), n \notin DOMAIN mem.conns,
           FreesHarmless({}, P), NewsHarmless(news, mem'.conns[n].internal),
           mem'.conns[n].type = "rend" => mem'.conns[n].internal # NULL,
           mem'.conns[n].internal # NULL =>
               /\ mem'.conns[n].internal \in A
               /\ mem'.conns[n].internal \notin 0 .. nalloc
               /\ mem'.conns[n].priv # mem'.conns[n].internal,
           Harmless({}, mem'.conns[n].priv)
    PROVE  Owned'
  <1> DEFINE q == mem'.conns[n].internal
  <1>1. /\ DOMAIN mem'.conns = DOMAIN mem.conns \cup {n}
        /\ \A e \in DOMAIN mem.conns : mem'.conns[e] = mem.conns[e]
        /\ DOMAIN mem'.heap = (DOMAIN mem.heap \ P) \cup A
        /\ \A i \in DOMAIN mem'.cookies : \/ mem'.cookies[i] \in news
                                          \/ \E k \in DOMAIN mem.cookies : mem'.cookies[i] = mem.cookies[k]
    BY DEF Changes, Listed
  <1>2. OwnedConn(mem', n)
    <2>1. CASE q = NULL
      BY <2>1 DEF OwnedConn
    <2>2. CASE q # NULL
      <3>1. /\ \A e \in DOMAIN mem.conns : mem.conns[e].internal # q /\ mem.conns[e].priv # q
            /\ \A i \in DOMAIN mem.cookies : mem.cookies[i].data # q
        BY <2>2 DEF Base
      <3>2. q \in DOMAIN mem'.heap
        BY <1>1, <2>2
      <3>3. \A e \in DOMAIN mem'.conns \ {n} : mem'.conns[e].internal # q
        BY <1>1, <3>1
      <3>4. \A e \in DOMAIN mem'.conns : mem'.conns[e].priv # q
        BY <1>1, <2>2, <3>1
      <3>5. \A i \in DOMAIN mem'.cookies : mem'.cookies[i].data # q
        BY <1>1, <3>1 DEF NewsHarmless
      <3> QED
        BY <2>2, <3>2, <3>3, <3>4, <3>5 DEF OwnedConn
    <2> QED
      BY <2>1, <2>2
  <1>3. Harmless({} \cup {n}, q)
    BY DEF Harmless
  <1>4. StoresHarmless({}, {n}, news) /\ \A s \in {n} : OwnedConn(mem', s)
    BY <1>2, <1>3 DEF StoresHarmless, NewsHarmless
  <1> QED
    BY <1>4, OwnedHarmless

LEMMA OwnedQuiet ==
    ASSUME Owned, mem' = mem
    PROVE  Owned'
  BY DEF Owned

\* The new connection of an accepted listener has the listener's ->internal, which
\* the listener has no more: it is set to NULL, or the listener is gone.
LEMMA OwnedMoves ==
    ASSUME Base, Owned, NEW c \in DOMAIN mem.conns, NEW n, n \notin DOMAIN mem.conns,
           NEW K, NEW S, NEW P, Changes(K, S, P, {}, {}, NULL),
           \/ K = {c} /\ S = {n}
           \/ K = {} /\ S = {c, n} /\ mem'.conns[c].internal = NULL
                     /\ mem'.conns[c].type = "out" /\ mem'.conns[c].priv = mem.conns[c].priv,
           FreesHarmless({}, P),
           mem'.conns[n].internal = mem.conns[c].internal, mem.conns[c].internal # NULL,
           mem'.conns[n].priv = mem.conns[c].priv
    PROVE  Owned'
  <1> DEFINE q == mem.conns[c].internal
  <1>1. /\ DOMAIN mem'.conns = (DOMAIN mem.conns \ K) \cup S
        /\ \A e \in DOMAIN mem.conns \ (K \cup S) : mem'.conns[e] = mem.conns[e]
        /\ DOMAIN mem'.heap = DOMAIN mem.heap \ P
        /\ \A i \in DOMAIN mem'.cookies : \E k \in DOMAIN mem.cookies : mem'.cookies[i] = mem.cookies[k]
    BY DEF Changes, Listed
  <1>2. /\ q \in DOMAIN mem.heap
        /\ \A e \in DOMAIN mem.conns \ {c} : mem.conns[e].internal # q
        /\ \A e \in DOMAIN mem.conns : mem.conns[e].priv # q
        /\ \A i \in DOMAIN mem.cookies : mem.cookies[i].data # q
    BY DEF Owned, OwnedConn
  <1>3. q \notin P
    BY HarmlessOther DEF FreesHarmless
  <1>4. /\ \A e \in DOMAIN mem'.conns \ {n} : \/ e \in DOMAIN mem.conns \ {c} /\ mem'.conns[e] = mem.conns[e]
                                              \/ e = c /\ mem'.conns[e].internal = NULL
                                                       /\ mem'.conns[e].priv = mem.conns[c].priv
    BY <1>1
  <1>5. OwnedConn(mem', n)
    <2>1. q \in DOMAIN mem'.heap
      BY <1>1, <1>2, <1>3
    <2>2. \A e \in DOMAIN mem'.conns \ {n} : mem'.conns[e].internal # q
      BY <1>2, <1>4
    <2>3. \A e \in DOMAIN mem'.conns : mem'.conns[e].priv # q
      BY <1>2, <1>4
    <2>4. \A i \in DOMAIN mem'.cookies : mem'.cookies[i].data # q
      BY <1>1, <1>2
    <2> QED
      BY <2>1, <2>2, <2>3, <2>4 DEF OwnedConn
  <1>6. \A s \in S : OwnedConn(mem', s)
    <2>1. ASSUME K = {}, S = {c, n}, mem'.conns[c].internal = NULL, mem'.conns[c].type = "out"
          PROVE  OwnedConn(mem', c)
      BY <2>1 DEF OwnedConn
    <2> QED
      BY <1>5, <2>1
  <1>7. FreesHarmless(K, P)
    BY DEF FreesHarmless, Harmless
  <1>8. \A s \in S : /\ mem'.conns[s].internal \in {NULL, q}
                     /\ mem'.conns[s].priv = mem.conns[c].priv
    OBVIOUS
  <1>9. StoresHarmless(K, S, {})
    <2>1. Harmless(K \cup S, NULL) /\ Harmless({}, mem.conns[c].priv)
      BY DEF Harmless
    <2>2. Harmless(K \cup S, q)
      BY DEF Harmless
    <2> QED
      BY <1>8, <2>1, <2>2 DEF StoresHarmless
  <1> QED
    BY <1>6, <1>7, <1>9, OwnedHarmless

\* While no call waits for a callback every listener has its ->internal.
LEMMA ListenerOwns ==
    ASSUME Moved, call = NoCall, NEW c \in DOMAIN mem.conns, mem.conns[c].type = "out"
    PROVE  mem.conns[c].internal # NULL
  <1>1. NoCall # [op |-> "accept", conn |-> c]
    BY DEF NoCall
  <1> QED
    BY <1>1 DEF Moved

\* The client kills a listener when its first peer has connected.
KeepsNone == "keeps listener" \notin Habits

LEMMA OwnedStep ==
    ASSUME Base, Owned, Moved, KeepsNone, [Next]_vars
    PROVE  Owned'
  <1>b. /\ 1 \in 1 .. 1 /\ 1 \in 1 .. 2 /\ 2 \in 1 .. 2 /\ 1 \in 1 .. 3 /\ 2 \in 1 .. 3 /\ 3 \in 1 .. 3
        /\ 0 \in 0 .. 3 /\ 1 \in 0 .. 3 /\ 2 \in 0 .. 3 /\ 3 \in 0 .. 3 /\ nalloc \in Nat
    BY BaseParts
  <1>c. Harmless({}, NULL)
    BY DEF Harmless
  <1>1. ASSUME NEW s \in Subtypes, NEW ck \in Cks, Initiate(s, ck) PROVE Owned'
    <2> DEFINE new == NewData("OFTIM", ck, nalloc + 1)
    <2>1. PICK p \in Ptrs : Changes({}, {nalloc + 3}, {p}, {nalloc + 1, nalloc + 2}, {new}, p)
      BY <1>1, InitiateEffect
    <2>2. mem'.conns[nalloc + 3] = NewConn("out", s, TRUE, nalloc + 2) /\ Allocates(3)
      BY <1>1, InitiateEffect
    <2>3. /\ nalloc + 3 \notin DOMAIN mem.conns
          /\ nalloc + 1 \notin 0 .. nalloc /\ nalloc + 2 \notin 0 .. nalloc /\ nalloc + 2 # NULL
      BY <1>b, <2>2, Fresh
    <2>4. /\ mem'.conns[nalloc + 3].internal = nalloc + 2 /\ mem'.conns[nalloc + 3].priv = NULL
          /\ mem'.conns[nalloc + 3].type = "out"
      BY <2>2 DEF NewConn
    <2>5. new.data = nalloc + 1 /\ nalloc + 1 # nalloc + 2
      BY <1>b, NewDataFields
    <2>6. Harmless({}, p) /\ Harmless({}, nalloc + 1)
      BY <2>1, <2>3, DataHarmless, HarmlessSets
    <2>7. FreesHarmless({}, {p}) /\ NewsHarmless({new}, nalloc + 2)
      BY <2>5, <2>6, HarmlessSets
    <2> HIDE DEF new
    <2> QED
      BY <1>c, <2>1, <2>3, <2>4, <2>7, OwnedNew
  <1>2. ASSUME NEW ck \in Cks, InitiateFails(ck) PROVE Owned'
    <2> DEFINE new == NewData("OFTIM", ck, nalloc + 1)
    <2>1. PICK p \in Ptrs : Changes({}, {}, {p}, {nalloc + 1}, {new}, p)
      BY <1>2, InitiateFailsEffect
    <2>2. nalloc + 1 \notin 0 .. nalloc
      BY <1>2, <1>b, InitiateFailsEffect, Fresh
    <2>3. new.data = nalloc + 1
      BY NewDataFields
    <2>4. Harmless({}, p) /\ Harmless({}, nalloc + 1)
      BY <2>1, <2>2, DataHarmless, HarmlessSets
    <2>5. nalloc + 1 # NULL
      BY <1>b DEF NULL
    <2>6. FreesHarmless({}, {p}) /\ NewsHarmless({new}, NULL)
      BY <2>3, <2>4, <2>5, HarmlessSets
    <2> HIDE DEF new
    <2> QED
      BY <2>1, <2>6, OwnedAside
  <1>3. ASSUME NEW ck \in Cks, NEW open \in BOOLEAN, aim_directim_connect(ck, open) PROVE Owned'
    <2>1. /\ Changes({}, {nalloc + 2}, {}, {nalloc + 1}, {}, NULL)
          /\ mem'.conns[nalloc + 2] = NewConn("rend", "directim", open, nalloc + 1) /\ Allocates(2)
      BY <1>3, ConnectEffect
    <2>2. nalloc + 2 \notin DOMAIN mem.conns /\ nalloc + 1 \notin 0 .. nalloc /\ nalloc + 1 # NULL
      BY <1>b, <2>1, Fresh
    <2>3. /\ mem'.conns[nalloc + 2].internal = nalloc + 1 /\ mem'.conns[nalloc + 2].priv = NULL
      BY <2>1 DEF NewConn
    <2>4. FreesHarmless({}, {}) /\ NewsHarmless({}, nalloc + 1)
      BY HarmlessSets
    <2> QED
      BY <1>c, <2>1, <2>2, <2>3, <2>4, OwnedNew
  <1>4. ASSUME NEW c \in DOMAIN mem.conns, mem' = aim_conn_close(mem, c) PROVE Owned'
    <2>1. PICK p \in Ptrs : Changes({}, {c}, {p}, {}, {}, p)
      BY <1>4, CloseEffect
    <2>2. /\ mem'.conns[c].internal = mem.conns[c].internal /\ mem'.conns[c].priv = mem.conns[c].priv
          /\ mem'.conns[c].type = mem.conns[c].type
      BY <1>4, CloseEffect, OpenOnly
    <2>3. FreesHarmless({}, {p}) /\ Harmless({}, mem.conns[c].priv)
      BY <2>1, DataHarmless, HarmlessSets
    <2> QED
      BY <2>1, <2>2, <2>3, OwnedKept
  <1>5. ASSUME NEW c \in DOMAIN mem.conns, aim_conn_kill(c) PROVE Owned'
    <2> DEFINE q == IF mem.conns[c].type = "rend" THEN mem.conns[c].internal ELSE NULL
    <2>1. mem' = connkill_real(mem, c)
      BY <1>5 DEF aim_conn_kill
    <2>2. PICK p \in Ptrs : Changes({c}, {}, {p, mem.conns[c].priv, q}, {}, {}, p)
      BY <2>1, KillEffect
    <2>3. Harmless({c}, p) /\ Harmless({c}, mem.conns[c].priv) /\ Harmless({c}, q)
      BY <2>2, DataHarmless DEF Harmless
    <2> HIDE DEF q
    <2>4. FreesHarmless({c}, {p, mem.conns[c].priv, q})
      BY <2>3 DEF FreesHarmless
    <2>5. NewsHarmless({}, NULL)
      BY HarmlessSets
    <2> QED
      BY <2>2, <2>4, <2>5, OwnedAside
  <1>6. ASSUME NEW c \in DOMAIN mem.conns, SetPriv(c) PROVE Owned'
    <2>1. /\ Changes({}, {c}, {}, {nalloc + 1}, {}, NULL)
          /\ mem'.conns[c] = [mem.conns[c] EXCEPT !.priv = nalloc + 1] /\ Allocates(1)
      BY <1>6, SetPrivEffect
    <2>2. nalloc + 1 \notin 0 .. nalloc
      BY <1>b, <2>1, Fresh
    <2>3. /\ mem'.conns[c].internal = mem.conns[c].internal /\ mem'.conns[c].priv = nalloc + 1
          /\ mem'.conns[c].type = mem.conns[c].type
      BY <2>1, PrivFields
    <2>4. FreesHarmless({}, {}) /\ Harmless({}, nalloc + 1)
      BY <2>2, HarmlessSets
    <2> QED
      BY <2>1, <2>3, <2>4, OwnedKept
  <1>7. ASSUME NEW open \in BOOLEAN, JoinChat(open) PROVE Owned'
    <2>1. /\ Changes({}, {nalloc + 3}, {}, {nalloc + 1, nalloc + 2}, {}, NULL)
          /\ mem'.conns[nalloc + 3] = [NewConn("chat", "none", open, NULL) EXCEPT !.priv = nalloc + 2]
          /\ Allocates(3)
      BY <1>7, JoinChatEffect
    <2>2. nalloc + 3 \notin DOMAIN mem.conns /\ nalloc + 2 \notin 0 .. nalloc
      BY <1>b, <2>1, Fresh
    <2>3. /\ mem'.conns[nalloc + 3].internal = NULL /\ mem'.conns[nalloc + 3].priv = nalloc + 2
          /\ mem'.conns[nalloc + 3].type = "chat"
      BY <2>1 DEF NewConn
    <2>4. FreesHarmless({}, {}) /\ NewsHarmless({}, NULL) /\ Harmless({}, nalloc + 2)
      BY <2>2, HarmlessSets
    <2> QED
      BY <2>1, <2>2, <2>3, <2>4, OwnedNew
  <1>8. ASSUME NEW c \in DOMAIN mem.conns, aim_chat_attachname(c) PROVE Owned'
    <2>1. /\ Changes({}, {c}, {mem.conns[c].priv}, {nalloc + 1, nalloc + 2}, {}, NULL)
          /\ mem'.conns[c] = [mem.conns[c] EXCEPT !.priv = nalloc + 2] /\ Allocates(2)
      BY <1>8, AttachNameEffect
    <2>2. nalloc + 2 \notin 0 .. nalloc
      BY <1>b, <2>1, Fresh
    <2>3. /\ mem'.conns[c].internal = mem.conns[c].internal /\ mem'.conns[c].priv = nalloc + 2
          /\ mem'.conns[c].type = mem.conns[c].type
      BY <2>1, PrivFields
    <2>4. Harmless({}, nalloc + 2) /\ FreesHarmless({}, {mem.conns[c].priv})
      BY <2>2, HarmlessSets
    <2> QED
      BY <2>1, <2>3, <2>4, OwnedKept
  <1>9. ASSUME NEW ck \in Cks, aim_chat_send_im(ck) PROVE Owned'
    <2> DEFINE new == NewData("CHAT", ck, NULL)
    <2>1. PICK p \in Ptrs : Changes({}, {}, {p}, {}, {new}, p)
      BY <1>9, SendChatEffect
    <2>2. FreesHarmless({}, {p})
      BY <2>1, DataHarmless, HarmlessSets
    <2>3. new.data = NULL /\ nalloc + 1 # NULL
      BY <1>b, NewDataFields DEF NULL
    <2>4. NewsHarmless({new}, nalloc + 1)
      BY <1>c, <2>3, HarmlessSets
    <2> HIDE DEF new
    <2> QED
      BY <2>1, <2>2, <2>4, OwnedAside
  <1>10. ASSUME NEW ck \in Cks, incomingmsg(ck) PROVE Owned'
    <2>1. PICK p \in Ptrs : Changes({}, {}, {p}, {}, {}, p)
      BY <1>10, IncomingEffect
    <2>2. FreesHarmless({}, {p}) /\ NewsHarmless({}, NULL)
      BY <2>1, DataHarmless, HarmlessSets
    <2> QED
      BY <2>1, <2>2, OwnedAside
  <1>11. ASSUME NEW ck \in Cks, aim_chat_invite(ck) PROVE Owned'
    <2> DEFINE new == NewData("INVITE", ck, nalloc + 2)
    <2>1. PICK p \in Ptrs : Changes({}, {}, {p}, {nalloc + 1, nalloc + 2}, {new}, p)
      BY <1>11, InviteEffect
    <2>2. nalloc + 2 \notin 0 .. nalloc
      BY <1>11, <1>b, InviteEffect, Fresh
    <2>3. new.data = nalloc + 2
      BY NewDataFields
    <2>4. Harmless({}, p) /\ Harmless({}, nalloc + 2)
      BY <2>1, <2>2, DataHarmless, HarmlessSets
    <2>5. nalloc + 2 # NULL
      BY <1>b DEF NULL
    <2>6. FreesHarmless({}, {p}) /\ NewsHarmless({new}, NULL)
      BY <2>3, <2>4, <2>5, HarmlessSets
    <2> HIDE DEF new
    <2> QED
      BY <2>1, <2>6, OwnedAside
  <1>12. ASSUME NEW c \in DOMAIN mem.conns, AcceptFails(c) PROVE Owned'
    <2>1. Changes({c}, {}, {mem.conns[c].priv}, {}, {}, NULL)
      BY <1>12, AcceptFailsEffect
    <2>2. FreesHarmless({c}, {mem.conns[c].priv}) /\ NewsHarmless({}, NULL)
      BY HarmlessSets
    <2> QED
      BY <2>1, <2>2, OwnedAside
  <1>13. ASSUME NEW c \in DOMAIN mem.conns, AcceptDirectim(c) PROVE Owned'
    <2>1. /\ Changes({}, {c, nalloc + 1}, {}, {}, {}, NULL)
          /\ mem'.conns[nalloc + 1] = Cloned(c) /\ mem'.conns[c] = [mem.conns[c] EXCEPT !.internal = NULL]
          /\ mem.conns[c].type = "out" /\ call = NoCall /\ Allocates(1)
      BY <1>13, AcceptDirectimEffect
    <2>2. nalloc + 1 \notin DOMAIN mem.conns
      BY <1>b, <2>1, Fresh
    <2>3. mem.conns[c].internal # NULL
      BY <2>1, ListenerOwns
    <2>4. /\ mem'.conns[c].internal = NULL /\ mem'.conns[c].type = "out"
          /\ mem'.conns[c].priv = mem.conns[c].priv
          /\ mem'.conns[nalloc + 1].internal = mem.conns[c].internal
          /\ mem'.conns[nalloc + 1].priv = mem.conns[c].priv
      BY <2>1, CloneFields, ZenonT(30)
    <2>5. FreesHarmless({}, {})
      BY HarmlessSets
    <2> QED
      BY <2>1, <2>2, <2>3, <2>4, <2>5, OwnedMoves
  <1>14. ASSUME NEW c \in DOMAIN mem.conns, AcceptSendfile(c) PROVE Owned'
    <2>1. /\ Changes({c}, {nalloc + 1}, {mem.conns[c].priv}, {}, {}, NULL)
          /\ mem'.conns[nalloc + 1] = [Cloned(c) EXCEPT !.open = FALSE]
          /\ mem.conns[c].type = "out" /\ Allocates(1)
      BY <1>14, AcceptSendfileEffect DEF KeepsNone
    <2>2. nalloc + 1 \notin DOMAIN mem.conns
      BY <1>b, <2>1, Fresh
    <2>3. mem.conns[c].internal # NULL
      BY <1>14, <2>1, ListenerOwns DEF AcceptSendfile
    <2>4. /\ mem'.conns[nalloc + 1].internal = mem.conns[c].internal
          /\ mem'.conns[nalloc + 1].priv = mem.conns[c].priv
      BY <2>1, CloneFields
    <2>5. FreesHarmless({}, {mem.conns[c].priv})
      BY HarmlessSets
    <2> QED
      BY <2>1, <2>2, <2>3, <2>4, <2>5, OwnedMoves
  <1>15. CASE ReadReturns(TRUE)
    BY <1>4, <1>15 DEF ReadReturns
  <1>16. ASSUME \/ AcceptReturns \/ ReadReturns(FALSE) \/ UNCHANGED vars
                \/ \E c \in DOMAIN mem.conns : ReadMessage(c)
         PROVE  Owned'
    BY <1>16, OwnedQuiet DEF AcceptReturns, ReadReturns, ReadMessage, vars
  <1>17. ASSUME NEW c \in DOMAIN mem.conns, Close(c) \/ ReadFails(c) PROVE Owned'
    BY <1>4, <1>17 DEF Close, ReadFails
  <1>18. ASSUME NEW fails \in BOOLEAN, ReadReturns(fails) PROVE Owned'
    BY <1>15, <1>16, <1>18
  <1> QED
    BY <1>1, <1>2, <1>3, <1>5, <1>6, <1>7, <1>8, <1>9, <1>10, <1>11, <1>12, <1>13, <1>14, <1>16, <1>17,
       <1>18 DEF Next

\* None of the connections S has lost its ->internal.
NoneMoves(S) ==
    \A s \in S : mem'.conns[s].type = "out" /\ mem'.conns[s].internal = NULL =>
        s \in DOMAIN mem.conns /\ mem.conns[s].type = "out" /\ mem.conns[s].internal = NULL

CallStays ==
    \/ call' = call
    \/ \A c \in DOMAIN mem.conns : ~(mem.conns[c].type = "out" /\ mem.conns[c].internal = NULL)

LEMMA NoneMovesSets ==
    /\ NoneMoves({})
    /\ \A s : mem'.conns[s].type # "out" \/ mem'.conns[s].internal # NULL => NoneMoves({s})
    /\ \A s \in DOMAIN mem.conns :
          mem'.conns[s].type = mem.conns[s].type /\ mem'.conns[s].internal = mem.conns[s].internal => NoneMoves({s})
  BY DEF NoneMoves

LEMMA MovedKept ==
    ASSUME Moved, NEW K, NEW S, NEW P, NEW A, NEW news, NEW p, Changes(K, S, P, A, news, p),
           CallStays, NoneMoves(S)
    PROVE  Moved'
  <1>1. ASSUME NEW c \in DOMAIN mem'.conns, mem'.conns[c].type = "out", mem'.conns[c].internal = NULL
        PROVE  c \in DOMAIN mem.conns /\ mem.conns[c].type = "out" /\ mem.conns[c].internal = NULL
    BY <1>1 DEF Changes, NoneMoves
  <1> QED
    BY <1>1 DEF Moved, CallStays

LEMMA MovedStep ==
    ASSUME Base, Moved, KeepsNone, [Next]_vars
    PROVE  Moved'
  <1>1. ASSUME NEW s \in Subtypes, NEW ck \in Cks, Initiate(s, ck) PROVE Moved'
    <2>1. PICK p \in Ptrs : Changes({}, {nalloc + 3}, {p}, {nalloc + 1, nalloc + 2},
                                    {NewData("OFTIM", ck, nalloc + 1)}, p)
      BY <1>1, InitiateEffect
    <2>2. mem'.conns[nalloc + 3] = NewConn("out", s, TRUE, nalloc + 2) /\ call' = call
      BY <1>1, InitiateEffect
    <2>3. nalloc + 2 # NULL
      BY BaseParts DEF NULL
    <2>4. mem'.conns[nalloc + 3].internal # NULL
      BY <2>2, <2>3 DEF NewConn
    <2>8. CallStays /\ NoneMoves({nalloc + 3})
      BY <2>1, <2>2, <2>4, NoneMovesSets DEF CallStays
    <2> QED
      BY <2>1, <2>2, <2>4, <2>8, MovedKept
  <1>2. ASSUME NEW ck \in Cks, InitiateFails(ck) PROVE Moved'
    <2>1. call' = call
      BY <1>2, InitiateFailsEffect
    <2>2. PICK p \in Ptrs : Changes({}, {}, {p}, {nalloc + 1}, {NewData("OFTIM", ck, nalloc + 1)}, p)
      BY <1>2, InitiateFailsEffect
    <2>3. CallStays /\ NoneMoves({})
      BY <2>1, NoneMovesSets DEF CallStays
    <2> QED
      BY <2>2, <2>3, MovedKept
  <1>3. ASSUME NEW ck \in Cks, NEW open \in BOOLEAN, aim_directim_connect(ck, open) PROVE Moved'
    <2>1. /\ Changes({}, {nalloc + 2}, {}, {nalloc + 1}, {}, NULL)
          /\ mem'.conns[nalloc + 2] = NewConn("rend", "directim", open, nalloc + 1) /\ call' = call
      BY <1>3, ConnectEffect
    <2>2. mem'.conns[nalloc + 2].type = "rend"
      BY <2>1 DEF NewConn
    <2>8. CallStays /\ NoneMoves({nalloc + 2})
      BY <2>1, <2>2, NoneMovesSets DEF CallStays
    <2> QED
      BY <2>1, <2>2, <2>8, MovedKept
  <1>4. ASSUME NEW c \in DOMAIN mem.conns, mem' = aim_conn_close(mem, c),
               CallStays
        PROVE  Moved'
    <2>1. PICK p \in Ptrs : Changes({}, {c}, {p}, {}, {}, p)
      BY <1>4, CloseEffect
    <2>2. /\ mem'.conns[c].internal = mem.conns[c].internal
          /\ mem'.conns[c].type = mem.conns[c].type
      BY <1>4, CloseEffect, OpenOnly
    <2>8. CallStays /\ NoneMoves({c})
      BY <1>4, <2>1, <2>2, NoneMovesSets DEF CallStays
    <2> QED
      BY <1>4, <2>1, <2>2, <2>8, MovedKept
  <1>5. ASSUME NEW c \in DOMAIN mem.conns, aim_conn_kill(c) PROVE Moved'
    <2>1. mem' = connkill_real(mem, c) /\ call' = call
      BY <1>5 DEF aim_conn_kill
    <2>2. PICK p \in Ptrs :
             Changes({c}, {}, {p, mem.conns[c].priv,
                               IF mem.conns[c].type = "rend" THEN mem.conns[c].internal ELSE NULL}, {}, {}, p)
      BY <2>1, KillEffect
    <2>3. CallStays /\ NoneMoves({})
      BY <2>1, NoneMovesSets DEF CallStays
    <2> QED
      BY <2>2, <2>3, MovedKept
  <1>6. ASSUME NEW c \in DOMAIN mem.conns, SetPriv(c) PROVE Moved'
    <2>1. /\ Changes({}, {c}, {}, {nalloc + 1}, {}, NULL)
          /\ mem'.conns[c] = [mem.conns[c] EXCEPT !.priv = nalloc + 1] /\ call' = call
      BY <1>6, SetPrivEffect
    <2>2. mem'.conns[c].internal = mem.conns[c].internal /\ mem'.conns[c].type = mem.conns[c].type
      BY <2>1, PrivFields
    <2>8. CallStays /\ NoneMoves({c})
      BY <2>1, <2>2, NoneMovesSets DEF CallStays
    <2> QED
      BY <2>1, <2>2, <2>8, MovedKept
  <1>7. ASSUME NEW open \in BOOLEAN, JoinChat(open) PROVE Moved'
    <2>1. /\ Changes({}, {nalloc + 3}, {}, {nalloc + 1, nalloc + 2}, {}, NULL)
          /\ mem'.conns[nalloc + 3] = [NewConn("chat", "none", open, NULL) EXCEPT !.priv = nalloc + 2]
          /\ call' = call
      BY <1>7, JoinChatEffect
    <2>2. mem'.conns[nalloc + 3].type = "chat"
      BY <2>1 DEF NewConn
    <2>8. CallStays /\ NoneMoves({nalloc + 3})
      BY <2>1, <2>2, NoneMovesSets DEF CallStays
    <2> QED
      BY <2>1, <2>2, <2>8, MovedKept
  <1>8. ASSUME NEW c \in DOMAIN mem.conns, aim_chat_attachname(c) PROVE Moved'
    <2>1. /\ Changes({}, {c}, {mem.conns[c].priv}, {nalloc + 1, nalloc + 2}, {}, NULL)
          /\ mem'.conns[c] = [mem.conns[c] EXCEPT !.priv = nalloc + 2] /\ call' = call
      BY <1>8, AttachNameEffect
    <2>2. mem'.conns[c].internal = mem.conns[c].internal /\ mem'.conns[c].type = mem.conns[c].type
      BY <2>1, PrivFields
    <2>8. CallStays /\ NoneMoves({c})
      BY <2>1, <2>2, NoneMovesSets DEF CallStays
    <2> QED
      BY <2>1, <2>2, <2>8, MovedKept
  <1>9. ASSUME NEW ck \in Cks, aim_chat_send_im(ck) PROVE Moved'
    <2>1. call' = call
      BY <1>9, SendChatEffect
    <2>2. PICK p \in Ptrs : Changes({}, {}, {p}, {}, {NewData("CHAT", ck, NULL)}, p)
      BY <1>9, SendChatEffect
    <2>3. CallStays /\ NoneMoves({})
      BY <2>1, NoneMovesSets DEF CallStays
    <2> QED
      BY <2>2, <2>3, MovedKept
  <1>10. ASSUME NEW ck \in Cks, incomingmsg(ck) PROVE Moved'
    <2>1. call' = call
      BY <1>10, IncomingEffect
    <2>2. PICK p \in Ptrs : Changes({}, {}, {p}, {}, {}, p)
      BY <1>10, IncomingEffect
    <2>3. CallStays /\ NoneMoves({})
      BY <2>1, NoneMovesSets DEF CallStays
    <2> QED
      BY <2>2, <2>3, MovedKept
  <1>11. ASSUME NEW ck \in Cks, aim_chat_invite(ck) PROVE Moved'
    <2>1. call' = call
      BY <1>11, InviteEffect
    <2>2. PICK p \in Ptrs : Changes({}, {}, {p}, {nalloc + 1, nalloc + 2}, {NewData("INVITE", ck, nalloc + 2)}, p)
      BY <1>11, InviteEffect
    <2>3. CallStays /\ NoneMoves({})
      BY <2>1, NoneMovesSets DEF CallStays
    <2> QED
      BY <2>2, <2>3, MovedKept
  <1>12. ASSUME NEW c \in DOMAIN mem.conns, AcceptFails(c) PROVE Moved'
    <2>1. Changes({c}, {}, {mem.conns[c].priv}, {}, {}, NULL) /\ call' = call
      BY <1>12, AcceptFailsEffect
    <2>2. CallStays /\ NoneMoves({})
      BY <2>1, NoneMovesSets DEF CallStays
    <2> QED
      BY <2>1, <2>2, MovedKept
  <1>13. ASSUME NEW c \in DOMAIN mem.conns, AcceptDirectim(c) PROVE Moved'
    <2>1. /\ Changes({}, {c, nalloc + 1}, {}, {}, {}, NULL)
          /\ mem'.conns[nalloc + 1] = Cloned(c) /\ call = NoCall
          /\ call' = [op |-> "accept", conn |-> c]
      BY <1>13, AcceptDirectimEffect
    <2>2. mem'.conns[nalloc + 1].type = "rend"
      BY <2>1, CloneFields
    <2>3. ASSUME NEW d \in DOMAIN mem'.conns, mem'.conns[d].type = "out", mem'.conns[d].internal = NULL
          PROVE  d = c
      <3>1. d # nalloc + 1
        BY <2>2, <2>3
      <3>2. d = c \/ (d \in DOMAIN mem.conns /\ mem'.conns[d] = mem.conns[d])
        BY <2>1, <3>1 DEF Changes
      <3> QED
        BY <2>1, <2>3, <3>2, ListenerOwns
    <2> QED
      BY <2>1, <2>3 DEF Moved
  <1>14. ASSUME NEW c \in DOMAIN mem.conns, AcceptSendfile(c) PROVE Moved'
    <2>1. PICK K \in {{}, {c}}, P \in {{}, {mem.conns[c].priv}} : Changes(K, {nalloc + 1}, P, {}, {}, NULL)
      BY <1>14, AcceptSendfileEffect
    <2>2. mem'.conns[nalloc + 1] = [Cloned(c) EXCEPT !.open = FALSE] /\ call' = call
      BY <1>14, AcceptSendfileEffect
    <2>3. mem'.conns[nalloc + 1].type = "rend"
      BY <2>2, CloneFields, ZenonT(30)
    <2>8. CallStays /\ NoneMoves({nalloc + 1})
      BY <2>1, <2>2, <2>3, NoneMovesSets DEF CallStays
    <2> QED
      BY <2>1, <2>2, <2>3, <2>8, MovedKept
  <1>15. CASE AcceptReturns
    <2>1. call.conn \notin DOMAIN mem.conns /\ mem' = mem
      BY <1>15 DEF AcceptReturns, KeepsNone
    <2>2. \A c \in DOMAIN mem.conns : call # [op |-> "accept", conn |-> c]
      BY <2>1
    <2> QED
      BY <2>1, <2>2 DEF Moved
  <1>16. ASSUME NEW c \in DOMAIN mem.conns, ReadMessage(c) PROVE Moved'
    <2>1. call = NoCall /\ mem' = mem
      BY <1>16 DEF ReadMessage, Readable
    <2> QED
      BY <2>1, ListenerOwns DEF Moved
  <1>17. ASSUME NEW fails \in BOOLEAN, ReadReturns(fails) PROVE Moved'
    <2>1. \A d \in DOMAIN mem.conns : ~(mem.conns[d].type = "out" /\ mem.conns[d].internal = NULL)
      BY <1>17 DEF ReadReturns, Moved
    <2>2. CASE fails
      BY <1>4, <1>17, <2>1, <2>2 DEF ReadReturns, CallStays
    <2>3. CASE ~fails
      BY <1>17, <2>1, <2>3 DEF ReadReturns, Moved
    <2> QED
      BY <2>2, <2>3
  <1>18. ASSUME NEW c \in DOMAIN mem.conns, Close(c) \/ ReadFails(c) PROVE Moved'
    BY <1>4, <1>18 DEF Close, ReadFails, CallStays
  <1>19. CASE UNCHANGED vars
    BY <1>19 DEF vars, Moved
  <1> QED
    BY <1>1, <1>2, <1>3, <1>5, <1>6, <1>7, <1>8, <1>9, <1>10, <1>11, <1>12, <1>13, <1>14, <1>15, <1>16,
       <1>17, <1>18, <1>19 DEF Next

LEMMA OwnedInvInit == Init => OwnedInv
  <1> SUFFICES ASSUME Init PROVE OwnedInv
    OBVIOUS
  <1>1. DOMAIN mem.conns = {}
    BY DEF Init, NoConns
  <1> QED
    BY <1>1, BaseInit DEF OwnedInv, Owned, Moved

LEMMA OwnedInvStep == KeepsNone => (OwnedInv /\ [Next]_vars => OwnedInv')
  BY BaseStep, OwnedStep, MovedStep DEF OwnedInv

\* ft.c:122, 453 and 958 follow ->internal of a connection to a peer without a look:
\* for every client that lets go of its listeners, it lives and is that connection's
\* alone, in whatever order connections and cookies come and go.
THEOREM InternalIsOwned ==
    ASSUME "keeps listener" \notin Habits
    PROVE  Spec => []InternalOwned
  <1>1. KeepsNone
    BY DEF KeepsNone
  <1>2. OwnedInv => InternalOwned
    BY DEF OwnedInv, Owned, OwnedConn, InternalOwned
  <1> QED
    BY <1>1, <1>2, OwnedInvInit, OwnedInvStep, PTL DEF Spec

-----------------------------------------------------------------------------
(* No bad access, by a client that joins no chats and stores nothing of its own *)

\* The data of new cookies is new, and what is freed is p or no cookie's data.
NewsFresh(news, A) == \A x \in news : x.data \in A /\ x.data \notin 0 .. nalloc
Spares(P, p) == \A q \in P : q = p \/ q = NULL \/ \A k \in DOMAIN mem.cookies : mem.cookies[k].data # q

LEMMA DataNext ==
    ASSUME Base, DataOwned, NEW K, NEW S, NEW P, NEW A, NEW news, NEW p,
           Changes(K, S, P, A, news, p), NewsFresh(news, A), Spares(P, p)
    PROVE  DataOwned'
  <1>1. \A x \in news : x.data = NULL \/ \A k \in DOMAIN mem.cookies : mem.cookies[k].data # x.data
    BY DEF NewsFresh, Base
  <1>2. Distinct(mem')
        /\ \A i \in DOMAIN mem'.cookies : mem'.cookies[i].data = p => p = NULL
    BY <1>1 DEF DataOwned, Changes, Listed
  <1>3. ASSUME NEW i \in DOMAIN mem'.cookies, mem'.cookies[i].data # NULL
        PROVE  mem'.cookies[i].data \in DOMAIN mem'.heap
    <2>1. CASE mem'.cookies[i] \in news
      BY <2>1 DEF NewsFresh, Changes
    <2>2. ASSUME NEW k \in DOMAIN mem.cookies, mem'.cookies[i] = mem.cookies[k]
          PROVE  mem'.cookies[i].data \in DOMAIN mem'.heap
      <3>1. mem.cookies[k].data \in DOMAIN mem.heap
        BY <1>3, <2>2 DEF DataOwned
      <3>2. mem.cookies[k].data \notin P
        BY <1>2, <1>3, <2>2 DEF Spares
      <3> QED
        BY <2>2, <3>1, <3>2 DEF Changes
    <2> QED
      BY <2>1, <2>2 DEF Changes, Listed
  <1> QED
    BY <1>2, <1>3 DEF DataOwned

LEMMA DataLives ==
    ASSUME DataOwned, NEW K, NEW S, NEW P, NEW A, NEW news, NEW p, Changes(K, S, P, A, news, p)
    PROVE  p = NULL \/ p \in DOMAIN mem.heap
  BY DEF DataOwned, Changes, Listed

LEMMA SparesSets ==
    ASSUME NEW p
    PROVE  /\ Spares({}, p) /\ Spares({p}, p) /\ Spares({NULL}, p) /\ NewsFresh({}, {})
           /\ \A q : q = NULL \/ (\A k \in DOMAIN mem.cookies : mem.cookies[k].data # q) => Spares({p, NULL, q}, p)
           /\ \A x, A : x.data \in A /\ x.data \notin 0 .. nalloc => NewsFresh({x}, A)
           /\ \A A : NewsFresh({}, A)
  BY DEF Spares, NewsFresh

PrivNone(S) == \A s \in S : mem'.conns[s].priv = NULL /\ mem'.conns[s].type # "chat"

LEMMA PrivNext ==
    ASSUME NoPriv, NEW K, NEW S, NEW P, NEW A, NEW news, NEW p, Changes(K, S, P, A, news, p), PrivNone(S)
    PROVE  NoPriv'
  BY DEF NoPriv, PrivNone, Changes

\* The client closes and kills connections, and nothing else.
PlainClient == Habits \subseteq {"gives up"}

\* A connection to a peer, and the data of cookies.
LEMMA PeerData ==
    ASSUME Owned, NEW c \in DOMAIN mem.conns, mem.conns[c].type = "rend"
    PROVE  /\ mem.conns[c].internal \in DOMAIN mem.heap
           /\ \A k \in DOMAIN mem.cookies : mem.cookies[k].data # mem.conns[c].internal
  BY DEF Owned, OwnedConn

SafeParts == DataOwned /\ NoPriv /\ NoBadAccess

LEMMA SafeStep ==
    ASSUME SafeInv, PlainClient, [Next]_vars
    PROVE  SafeParts'
  <1>a. Base /\ Owned /\ Moved /\ DataOwned /\ NoPriv /\ mem.bad = {}
    BY DEF SafeInv, OwnedInv, NoBadAccess
  <1>b. /\ 1 \in 1 .. 1 /\ 1 \in 1 .. 2 /\ 2 \in 1 .. 2 /\ 1 \in 1 .. 3 /\ 2 \in 1 .. 3 /\ 3 \in 1 .. 3
        /\ 1 \in 0 .. 3 /\ 2 \in 0 .. 3 /\ 3 \in 0 .. 3
    OBVIOUS
  <1>c. "chats" \notin Habits /\ "own priv" \notin Habits /\ "keeps listener" \notin Habits
    BY DEF PlainClient
  <1>1. ASSUME NEW s \in Subtypes, NEW ck \in Cks, Initiate(s, ck) PROVE SafeParts'
    <2> DEFINE new == NewData("OFTIM", ck, nalloc + 1)
               A == {nalloc + 1, nalloc + 2}
    <2>1. PICK p \in Ptrs : /\ Changes({}, {nalloc + 3}, {p}, A, {new}, p)
                            /\ p = NULL \/ p \in DOMAIN mem.heap => mem'.bad = mem.bad
      BY <1>1, <1>a, InitiateEffect
    <2>2. mem'.conns[nalloc + 3] = NewConn("out", s, TRUE, nalloc + 2) /\ Allocates(3)
      BY <1>1, <1>a, InitiateEffect
    <2>3. nalloc + 1 \notin 0 .. nalloc
      BY <1>a, <1>b, <2>2, Fresh
    <2>4. mem'.conns[nalloc + 3].priv = NULL /\ mem'.conns[nalloc + 3].type # "chat"
      BY <2>2 DEF NewConn
    <2>5. new.data = nalloc + 1
      BY DEF NewData
    <2>6. NewsFresh({new}, A) /\ Spares({p}, p) /\ PrivNone({nalloc + 3})
      BY <2>3, <2>4, <2>5, SparesSets DEF PrivNone
    <2> HIDE DEF new, A
    <2>7. mem'.bad = {}
      BY <1>a, <2>1, DataLives
    <2> QED
      BY <1>a, <2>1, <2>6, <2>7, DataNext, PrivNext DEF SafeParts, NoBadAccess
  <1>2. ASSUME NEW ck \in Cks, InitiateFails(ck) PROVE SafeParts'
    <2> DEFINE new == NewData("OFTIM", ck, nalloc + 1)
    <2>1. PICK p \in Ptrs : /\ Changes({}, {}, {p}, {nalloc + 1}, {new}, p)
                            /\ p = NULL \/ p \in DOMAIN mem.heap => mem'.bad = mem.bad
      BY <1>2, <1>a, InitiateFailsEffect
    <2>2. nalloc + 1 \notin 0 .. nalloc
      BY <1>2, <1>a, <1>b, InitiateFailsEffect, Fresh
    <2>3. new.data = nalloc + 1
      BY DEF NewData
    <2>4. NewsFresh({new}, {nalloc + 1}) /\ Spares({p}, p) /\ PrivNone({})
      BY <2>2, <2>3, SparesSets DEF PrivNone
    <2> HIDE DEF new
    <2>5. mem'.bad = {}
      BY <1>a, <2>1, DataLives
    <2> QED
      BY <1>a, <2>1, <2>4, <2>5, DataNext, PrivNext DEF SafeParts, NoBadAccess
  <1>3. ASSUME NEW ck \in Cks, NEW open \in BOOLEAN, aim_directim_connect(ck, open) PROVE SafeParts'
    <2>1. /\ Changes({}, {nalloc + 2}, {}, {nalloc + 1}, {}, NULL)
          /\ mem'.conns[nalloc + 2] = NewConn("rend", "directim", open, nalloc + 1) /\ mem'.bad = mem.bad
      BY <1>3, <1>a, ConnectEffect
    <2>2. mem'.conns[nalloc + 2].priv = NULL /\ mem'.conns[nalloc + 2].type # "chat"
      BY <2>1 DEF NewConn
    <2>3. NewsFresh({}, {nalloc + 1}) /\ Spares({}, NULL) /\ PrivNone({nalloc + 2})
      BY <2>2, SparesSets DEF PrivNone
    <2> QED
      BY <1>a, <2>1, <2>3, DataNext, PrivNext DEF SafeParts, NoBadAccess
  <1>4. ASSUME NEW c \in DOMAIN mem.conns, mem' = aim_conn_close(mem, c) PROVE SafeParts'
    <2>1. PICK p \in Ptrs :
             /\ Changes({}, {c}, {p}, {}, {}, p)
             /\ (p = NULL \/ p \in DOMAIN mem.heap)
                /\ (mem.conns[c].type = "rend" => mem.conns[c].internal \in DOMAIN mem.heap) =>
                   mem'.bad = mem.bad
      BY <1>4, <1>a, CloseEffect
    <2>2. mem'.conns[c].priv = mem.conns[c].priv /\ mem'.conns[c].type = mem.conns[c].type
      BY <1>4, <1>a, CloseEffect, OpenOnly
    <2>3. NewsFresh({}, {}) /\ Spares({p}, p) /\ PrivNone({c})
      BY <1>a, <2>2, SparesSets DEF PrivNone, NoPriv
    <2>4. mem'.bad = {}
      BY <1>a, <2>1, DataLives, PeerData
    <2> QED
      BY <1>a, <2>1, <2>3, <2>4, DataNext, PrivNext DEF SafeParts, NoBadAccess
  <1>5. ASSUME NEW c \in DOMAIN mem.conns, aim_conn_kill(c) PROVE SafeParts'
    <2> DEFINE q == IF mem.conns[c].type = "rend" THEN mem.conns[c].internal ELSE NULL
    <2>1. mem' = connkill_real(mem, c) /\ mem.conns[c].priv = NULL
      BY <1>5, <1>a DEF aim_conn_kill, NoPriv
    <2>2. PICK p \in Ptrs :
             /\ Changes({c}, {}, {p, NULL, q}, {}, {}, p)
             /\ (p = NULL \/ p \in DOMAIN mem.heap)
                /\ (mem.conns[c].type = "rend" => mem.conns[c].internal \in DOMAIN mem.heap \ {p}) =>
                   mem'.bad = mem.bad
      BY <1>a, <2>1, KillEffect
    <2>3. q = NULL \/ \A k \in DOMAIN mem.cookies : mem.cookies[k].data # q
      BY <1>a, PeerData
    <2>4. mem.conns[c].type = "rend" => mem.conns[c].internal \in DOMAIN mem.heap \ {p}
      <3>1. p = NULL \/ \E k \in DOMAIN mem.cookies : mem.cookies[k].data = p
        BY <2>2 DEF Changes, Listed
      <3>2. NULL \notin DOMAIN mem.heap
        BY <1>a, NullPtr DEF Base
      <3> QED
        BY <1>a, <3>1, <3>2, PeerData
    <2> HIDE DEF q
    <2>5. NewsFresh({}, {}) /\ Spares({p, NULL, q}, p) /\ PrivNone({})
      BY <2>3, SparesSets DEF PrivNone
    <2>6. mem'.bad = {}
      BY <1>a, <2>2, <2>4, DataLives
    <2> QED
      BY <1>a, <2>2, <2>5, <2>6, DataNext, PrivNext DEF SafeParts, NoBadAccess
  <1>6. ASSUME NEW c \in DOMAIN mem.conns, SetPriv(c) PROVE FALSE
    BY <1>6, <1>c DEF SetPriv
  <1>7. ASSUME NEW open \in BOOLEAN, JoinChat(open) PROVE FALSE
    BY <1>7, <1>c DEF JoinChat
  <1>8. ASSUME NEW c \in DOMAIN mem.conns, aim_chat_attachname(c) PROVE FALSE
    BY <1>8, <1>a DEF aim_chat_attachname, NoPriv
  <1>9. ASSUME NEW ck \in Cks, aim_chat_send_im(ck) \/ incomingmsg(ck) \/ aim_chat_invite(ck) PROVE FALSE
    BY <1>9, <1>c DEF aim_chat_send_im, incomingmsg, aim_chat_invite
  <1>12. ASSUME NEW c \in DOMAIN mem.conns, AcceptFails(c) PROVE SafeParts'
    <2>1. mem.conns[c].priv = NULL
      BY <1>a DEF NoPriv
    <2>2. Changes({c}, {}, {NULL}, {}, {}, NULL) /\ mem'.bad = mem.bad
      BY <1>12, <1>a, <2>1, AcceptFailsEffect
    <2>3. NewsFresh({}, {}) /\ Spares({NULL}, NULL) /\ PrivNone({})
      BY SparesSets DEF PrivNone
    <2> QED
      BY <1>a, <2>2, <2>3, DataNext, PrivNext DEF SafeParts, NoBadAccess
  <1>13. ASSUME NEW c \in DOMAIN mem.conns, AcceptDirectim(c) PROVE SafeParts'
    <2>1. /\ Changes({}, {c, nalloc + 1}, {}, {}, {}, NULL)
          /\ mem'.conns[nalloc + 1] = Cloned(c) /\ mem'.conns[c] = [mem.conns[c] EXCEPT !.internal = NULL]
          /\ mem.conns[c].internal \in DOMAIN mem.heap => mem'.bad = mem.bad
          /\ mem.conns[c].type = "out" /\ call = NoCall
      BY <1>13, <1>a, AcceptDirectimEffect
    <2>2. mem.conns[c].internal # NULL
      BY <1>a, <2>1, ListenerOwns
    <2>3. mem'.bad = {}
      BY <1>a, <2>1, <2>2 DEF Owned, OwnedConn
    <2>4. mem.conns[c].priv = NULL
      BY <1>a DEF NoPriv
    <2>5. /\ mem'.conns[nalloc + 1].priv = NULL /\ mem'.conns[nalloc + 1].type # "chat"
          /\ mem'.conns[c].priv = NULL /\ mem'.conns[c].type # "chat"
      BY <1>a, <2>1, <2>4, CloneFields, ZenonT(30)
    <2>6. NewsFresh({}, {}) /\ Spares({}, NULL) /\ PrivNone({c, nalloc + 1})
      BY <2>5, SparesSets DEF PrivNone
    <2> QED
      BY <1>a, <2>1, <2>3, <2>6, DataNext, PrivNext DEF SafeParts, NoBadAccess
  <1>14. ASSUME NEW c \in DOMAIN mem.conns, AcceptSendfile(c) PROVE SafeParts'
    <2>1. mem.conns[c].priv = NULL
      BY <1>a DEF NoPriv
    <2>2. /\ Changes({c}, {nalloc + 1}, {NULL}, {}, {}, NULL)
          /\ mem'.conns[nalloc + 1] = [Cloned(c) EXCEPT !.open = FALSE] /\ mem'.bad = mem.bad
      BY <1>14, <1>a, <1>c, <2>1, AcceptSendfileEffect
    <2>3. mem'.conns[nalloc + 1].priv = NULL /\ mem'.conns[nalloc + 1].type # "chat"
      BY <1>a, <2>1, <2>2, CloneFields
    <2>4. NewsFresh({}, {}) /\ Spares({NULL}, NULL) /\ PrivNone({nalloc + 1})
      BY <2>3, SparesSets DEF PrivNone
    <2> QED
      BY <1>a, <2>2, <2>4, DataNext, PrivNext DEF SafeParts, NoBadAccess
  <1>16. ASSUME mem' = mem PROVE SafeParts'
    BY <1>16, <1>a DEF SafeParts, DataOwned, NoPriv, NoBadAccess
  <1>17. ASSUME NEW fails \in BOOLEAN, ReadReturns(fails) PROVE SafeParts'
    BY <1>4, <1>16, <1>17 DEF ReadReturns
  <1>18. ASSUME NEW c \in DOMAIN mem.conns, Close(c) \/ ReadFails(c) PROVE SafeParts'
    BY <1>4, <1>18 DEF Close, ReadFails
  <1>19. ASSUME AcceptReturns \/ UNCHANGED vars \/ \E c \in DOMAIN mem.conns : ReadMessage(c) PROVE SafeParts'
    BY <1>16, <1>19 DEF AcceptReturns, ReadMessage, vars
  <1> QED
    BY <1>1, <1>2, <1>3, <1>5, <1>6, <1>7, <1>8, <1>9, <1>12, <1>13, <1>14, <1>17, <1>18, <1>19 DEF Next

LEMMA SafeInvInit == Init => SafeInv
  <1> SUFFICES ASSUME Init PROVE SafeInv
    OBVIOUS
  <1>1. DOMAIN mem.conns = {} /\ DOMAIN mem.cookies = {} /\ mem.bad = {}
    BY DEF Init, NoConns
  <1> QED
    BY <1>1, OwnedInvInit DEF SafeInv, DataOwned, Distinct, NoPriv, NoBadAccess

LEMMA SafeInvStep == PlainClient => (SafeInv /\ [Next]_vars => SafeInv')
  <1> SUFFICES ASSUME PlainClient, SafeInv, [Next]_vars PROVE SafeInv'
    OBVIOUS
  <1>1. KeepsNone
    BY DEF PlainClient, KeepsNone
  <1>2. OwnedInv'
    BY <1>1, OwnedInvStep DEF SafeInv
  <1> QED
    BY <1>2, SafeStep DEF SafeInv, SafeParts

\* conn.c:152-190: whatever listeners a client gives up, whichever peers come, fail to
\* come or cannot be served, and however the cookies repeat themselves, no teardown
\* frees anything twice, follows NULL, or touches what has been freed.
THEOREM NothingBad ==
    ASSUME Habits \subseteq {"gives up"}
    PROVE  Spec => []NoBadAccess
  <1>1. PlainClient
    BY DEF PlainClient
  <1>2. SafeInv => NoBadAccess
    BY DEF SafeInv
  <1> QED
    BY <1>1, <1>2, SafeInvInit, SafeInvStep, PTL DEF Spec

-----------------------------------------------------------------------------
(* Cookies of direct IMs *)

\* The connection c of m is open and carries the cookie string ck.
Carries(m, c, ck) ==
    m.conns[c].open /\ m.conns[c].internal \in DOMAIN m.heap /\ m.heap[m.conns[c].internal].ck = ck

Carried(m, ck) == \E c \in DOMAIN m.conns : Carries(m, c, ck)

\* Whoever carried a string among the connections C, someone still does, or there
\* is no cookie with that string any more.
HandsOver(C) ==
    \A c \in DOMAIN mem.conns \cap C : \A ck :
        Carries(mem, c, ck) => Carried(mem', ck) \/ Lacks(mem', ck, "OFTIM")

NewsCarried(news) == \A x \in news : x.type = "OFTIM" => Carried(mem', x.ck)

LEMMA RemovedNext ==
    ASSUME Base, Owned, CookiesRemoved, NEW K, NEW S, NEW P, NEW A, NEW news, NEW p,
           Changes(K, S, P, A, news, p), FreesHarmless(K, P),
           NewsCarried(news), HandsOver(K \cup S)
    PROVE  CookiesRemoved'
  <1>1. ASSUME NEW i \in DOMAIN mem'.cookies, mem'.cookies[i].type = "OFTIM"
        PROVE  Carried(mem', mem'.cookies[i].ck)
    <2>1. CASE mem'.cookies[i] \in news
      BY <1>1, <2>1 DEF NewsCarried
    <2>2. ASSUME NEW k \in DOMAIN mem.cookies, mem'.cookies[i] = mem.cookies[k]
          PROVE  Carried(mem', mem'.cookies[i].ck)
      <3> DEFINE ck == mem.cookies[k].ck
      <3>1. PICK c \in DOMAIN mem.conns : Carries(mem, c, ck)
        BY <1>1, <2>2 DEF CookiesRemoved, Carries
      <3>2. CASE c \in K \cup S
        <4>1. Carried(mem', ck) \/ Lacks(mem', ck, "OFTIM")
          BY <3>1, <3>2 DEF HandsOver
        <4> QED
          BY <1>1, <2>2, <4>1 DEF Lacks
      <3>3. CASE c \notin K \cup S
        <4> DEFINE q == mem.conns[c].internal
        <4>1. q \in DOMAIN mem.heap /\ q # NULL
          BY <3>1, NullPtr DEF Carries, Base
        <4>2. q \notin P
          BY <3>3, <4>1, HarmlessOther DEF FreesHarmless
        <4>3. c \in DOMAIN mem'.conns /\ mem'.conns[c] = mem.conns[c]
          BY <3>3 DEF Changes
        <4>4. q \in DOMAIN mem'.heap /\ mem'.heap[q] = mem.heap[q]
          BY <4>1, <4>2 DEF Changes
        <4> QED
          BY <2>2, <3>1, <4>3, <4>4 DEF Carries, Carried
      <3> QED
        BY <3>2, <3>3
    <2> QED
      BY <2>1, <2>2 DEF Changes, Listed
  <1> QED
    BY <1>1 DEF CookiesRemoved, Carried, Carries

\* A connection that stays open with its ->internal carries what it carried.
LEMMA HandsOverKept ==
    ASSUME Base, Owned, NEW c \in DOMAIN mem.conns, NEW P, NEW A, NEW p,
           Changes({}, {c}, P, A, {}, p), FreesHarmless({}, P),
           mem'.conns[c].open = mem.conns[c].open, mem'.conns[c].internal = mem.conns[c].internal
    PROVE  HandsOver({} \cup {c})
  <1>1. ASSUME NEW ck, Carries(mem, c, ck) PROVE Carried(mem', ck)
    <2> DEFINE q == mem.conns[c].internal
    <2>1. q \in DOMAIN mem.heap /\ q # NULL
      BY <1>1, NullPtr DEF Carries, Base
    <2>2. q \notin P
      BY <2>1, HarmlessOther DEF FreesHarmless
    <2>3. q \in DOMAIN mem'.heap /\ mem'.heap[q] = mem.heap[q] /\ c \in DOMAIN mem'.conns
      BY <2>1, <2>2 DEF Changes
    <2> QED
      BY <1>1, <2>3 DEF Carries, Carried
  <1> QED
    BY <1>1 DEF HandsOver

LEMMA HandsOverSets ==
    /\ HandsOver({} \cup {})
    /\ \A n : n \notin DOMAIN mem.conns => HandsOver({} \cup {n})
    /\ NewsCarried({})
    /\ \A x : x.type # "OFTIM" => NewsCarried({x})
    /\ \A x : Carried(mem', x.ck) => NewsCarried({x})
  BY DEF HandsOver, NewsCarried

DirectNone(S) ==
    \A s \in S : IF mem'.conns[s].type = "chat" THEN mem'.conns[s].internal = NULL
                 ELSE mem'.conns[s].subtype = "directim"

LEMMA DirectNext ==
    ASSUME AllDirect, NEW K, NEW S, NEW P, NEW A, NEW news, NEW p, Changes(K, S, P, A, news, p), DirectNone(S)
    PROVE  AllDirect'
  BY DEF AllDirect, DirectNone, Changes

\* A connection never changes its type, and a new one has a new number.
TypesStay ==
    /\ nalloc' \in Nat /\ nalloc <= nalloc'
    /\ \A d \in DOMAIN mem'.conns :
          d \notin 0 .. nalloc \/ (d \in DOMAIN mem.conns /\ mem'.conns[d].type = mem.conns[d].type)

TypesKept(S) ==
    \A s \in S : s \notin 0 .. nalloc \/ (s \in DOMAIN mem.conns /\ mem'.conns[s].type = mem.conns[s].type)

LEMMA TypesNext ==
    ASSUME NEW K, NEW S, NEW P, NEW A, NEW news, NEW p, Changes(K, S, P, A, news, p), TypesKept(S),
           nalloc' \in Nat, nalloc <= nalloc'
    PROVE  TypesStay
  BY DEF TypesStay, TypesKept, Changes

LEMMA TypesStep ==
    ASSUME Base, [Next]_vars
    PROVE  TypesStay
  <1>a. TypesKept({}) /\ \A s : s \notin 0 .. nalloc => TypesKept({s})
    BY DEF TypesKept
  <1>b. /\ 1 \in 1 .. 1 /\ 1 \in 1 .. 2 /\ 2 \in 1 .. 2 /\ 1 \in 1 .. 3 /\ 2 \in 1 .. 3 /\ 3 \in 1 .. 3
        /\ 0 \in 0 .. 3 /\ 1 \in 0 .. 3 /\ 2 \in 0 .. 3 /\ 3 \in 0 .. 3
    OBVIOUS
  <1>c. ASSUME NEW k \in 0 .. 3, Allocates(k)
        PROVE  /\ nalloc' \in Nat /\ nalloc <= nalloc'
               /\ \A j \in 1 .. k : nalloc + j \notin 0 .. nalloc
    <2>1. nalloc \in Nat
      BY BaseParts
    <2>2. nalloc' = nalloc + k
      BY <1>c, Fresh
    <2> QED
      BY <2>1, <2>2
  <1>d. nalloc' = nalloc => nalloc' \in Nat /\ nalloc <= nalloc'
    <2>1. nalloc \in Nat
      BY BaseParts
    <2> QED
      BY <2>1
  <1>1. ASSUME NEW s \in Subtypes, NEW ck \in Cks, Initiate(s, ck) PROVE TypesStay
    <2>1. PICK p \in Ptrs : Changes({}, {nalloc + 3}, {p}, {nalloc + 1, nalloc + 2},
                                    {NewData("OFTIM", ck, nalloc + 1)}, p)
      BY <1>1, InitiateEffect
    <2>2. nalloc' \in Nat /\ nalloc <= nalloc' /\ nalloc + 3 \notin 0 .. nalloc
      BY <1>1, <1>b, <1>c, InitiateEffect
    <2>3. TypesKept({nalloc + 3})
      BY <1>a, <2>2
    <2> QED
      BY <2>1, <2>2, <2>3, TypesNext
  <1>2. ASSUME NEW ck \in Cks, InitiateFails(ck) PROVE TypesStay
    <2>1. PICK p \in Ptrs : Changes({}, {}, {p}, {nalloc + 1}, {NewData("OFTIM", ck, nalloc + 1)}, p)
      BY <1>2, InitiateFailsEffect
    <2>2. nalloc' \in Nat /\ nalloc <= nalloc'
      BY <1>2, <1>b, <1>c, InitiateFailsEffect
    <2> QED
      BY <1>a, <2>1, <2>2, TypesNext
  <1>3. ASSUME NEW ck \in Cks, NEW open \in BOOLEAN, aim_directim_connect(ck, open) PROVE TypesStay
    <2>1. Changes({}, {nalloc + 2}, {}, {nalloc + 1}, {}, NULL) /\ Allocates(2)
      BY <1>3, ConnectEffect
    <2>2. nalloc' \in Nat /\ nalloc <= nalloc' /\ nalloc + 2 \notin 0 .. nalloc
      BY <1>b, <1>c, <2>1
    <2>3. TypesKept({nalloc + 2})
      BY <1>a, <2>2
    <2> QED
      BY <2>1, <2>2, <2>3, TypesNext
  <1>4. ASSUME NEW c \in DOMAIN mem.conns, mem' = aim_conn_close(mem, c), nalloc' = nalloc PROVE TypesStay
    <2>1. PICK p \in Ptrs : Changes({}, {c}, {p}, {}, {}, p)
      BY <1>4, CloseEffect
    <2>2. mem'.conns[c].type = mem.conns[c].type
      BY <1>4, CloseEffect, OpenOnly
    <2>3. TypesKept({c})
      BY <2>2 DEF TypesKept
    <2> QED
      BY <1>4, <1>d, <2>1, <2>3, TypesNext
  <1>5. ASSUME NEW c \in DOMAIN mem.conns, aim_conn_kill(c) PROVE TypesStay
    <2>1. mem' = connkill_real(mem, c) /\ nalloc' = nalloc
      BY <1>5 DEF aim_conn_kill
    <2>2. PICK p \in Ptrs :
             Changes({c}, {}, {p, mem.conns[c].priv,
                               IF mem.conns[c].type = "rend" THEN mem.conns[c].internal ELSE NULL}, {}, {}, p)
      BY <2>1, KillEffect
    <2> QED
      BY <1>a, <1>d, <2>1, <2>2, TypesNext
  <1>6. ASSUME NEW c \in DOMAIN mem.conns, SetPriv(c) PROVE TypesStay
    <2>1. /\ Changes({}, {c}, {}, {nalloc + 1}, {}, NULL)
          /\ mem'.conns[c] = [mem.conns[c] EXCEPT !.priv = nalloc + 1] /\ Allocates(1)
      BY <1>6, SetPrivEffect
    <2>2. mem'.conns[c].type = mem.conns[c].type /\ nalloc' \in Nat /\ nalloc <= nalloc'
      BY <1>b, <1>c, <2>1, PrivFields
    <2>3. TypesKept({c})
      BY <2>2 DEF TypesKept
    <2> QED
      BY <2>1, <2>2, <2>3, TypesNext
  <1>7. ASSUME NEW open \in BOOLEAN, JoinChat(open) PROVE TypesStay
    <2>1. Changes({}, {nalloc + 3}, {}, {nalloc + 1, nalloc + 2}, {}, NULL) /\ Allocates(3)
      BY <1>7, JoinChatEffect
    <2>2. nalloc' \in Nat /\ nalloc <= nalloc' /\ nalloc + 3 \notin 0 .. nalloc
      BY <1>b, <1>c, <2>1
    <2>3. TypesKept({nalloc + 3})
      BY <1>a, <2>2
    <2> QED
      BY <2>1, <2>2, <2>3, TypesNext
  <1>8. ASSUME NEW c \in DOMAIN mem.conns, aim_chat_attachname(c) PROVE TypesStay
    <2>1. /\ Changes({}, {c}, {mem.conns[c].priv}, {nalloc + 1, nalloc + 2}, {}, NULL)
          /\ mem'.conns[c] = [mem.conns[c] EXCEPT !.priv = nalloc + 2] /\ Allocates(2)
      BY <1>8, AttachNameEffect
    <2>2. mem'.conns[c].type = mem.conns[c].type /\ nalloc' \in Nat /\ nalloc <= nalloc'
      BY <1>b, <1>c, <2>1, PrivFields
    <2>3. TypesKept({c})
      BY <2>2 DEF TypesKept
    <2> QED
      BY <2>1, <2>2, <2>3, TypesNext
  <1>9. ASSUME NEW ck \in Cks, aim_chat_send_im(ck) PROVE TypesStay
    <2>1. PICK p \in Ptrs : Changes({}, {}, {p}, {}, {NewData("CHAT", ck, NULL)}, p)
      BY <1>9, SendChatEffect
    <2>2. nalloc' \in Nat /\ nalloc <= nalloc'
      BY <1>9, <1>b, <1>c, SendChatEffect
    <2> QED
      BY <1>a, <2>1, <2>2, TypesNext
  <1>10. ASSUME NEW ck \in Cks, incomingmsg(ck) PROVE TypesStay
    <2>1. PICK p \in Ptrs : Changes({}, {}, {p}, {}, {}, p)
      BY <1>10, IncomingEffect
    <2>2. nalloc' = nalloc
      BY <1>10, IncomingEffect
    <2> QED
      BY <1>a, <1>d, <2>1, <2>2, TypesNext
  <1>11. ASSUME NEW ck \in Cks, aim_chat_invite(ck) PROVE TypesStay
    <2>1. PICK p \in Ptrs :
             Changes({}, {}, {p}, {nalloc + 1, nalloc + 2}, {NewData("INVITE", ck, nalloc + 2)}, p)
      BY <1>11, InviteEffect
    <2>2. nalloc' \in Nat /\ nalloc <= nalloc'
      BY <1>11, <1>b, <1>c, InviteEffect
    <2> QED
      BY <1>a, <2>1, <2>2, TypesNext
  <1>12. ASSUME NEW c \in DOMAIN mem.conns, AcceptFails(c) PROVE TypesStay
    <2>1. Changes({c}, {}, {mem.conns[c].priv}, {}, {}, NULL) /\ nalloc' = nalloc
      BY <1>12, AcceptFailsEffect
    <2> QED
      BY <1>a, <1>d, <2>1, TypesNext
  <1>13. ASSUME NEW c \in DOMAIN mem.conns, AcceptDirectim(c) PROVE TypesStay
    <2>1. /\ Changes({}, {c, nalloc + 1}, {}, {}, {}, NULL)
          /\ mem'.conns[c] = [mem.conns[c] EXCEPT !.internal = NULL] /\ Allocates(1)
      BY <1>13, AcceptDirectimEffect
    <2>2. /\ mem'.conns[c].type = mem.conns[c].type
      BY <2>1, CloneFields
    <2>3. nalloc' \in Nat /\ nalloc <= nalloc' /\ nalloc + 1 \notin 0 .. nalloc
      BY <1>b, <1>c, <2>1
    <2>4. TypesKept({c, nalloc + 1})
      BY <2>2, <2>3 DEF TypesKept
    <2> QED
      BY <2>1, <2>3, <2>4, TypesNext
  <1>14. ASSUME NEW c \in DOMAIN mem.conns, AcceptSendfile(c) PROVE TypesStay
    <2>1. PICK K \in {{}, {c}}, P \in {{}, {mem.conns[c].priv}} : Changes(K, {nalloc + 1}, P, {}, {}, NULL)
      BY <1>14, AcceptSendfileEffect
    <2>2. nalloc' \in Nat /\ nalloc <= nalloc' /\ nalloc + 1 \notin 0 .. nalloc
      BY <1>14, <1>b, <1>c, AcceptSendfileEffect
    <2>3. TypesKept({nalloc + 1})
      BY <1>a, <2>2
    <2> QED
      BY <2>1, <2>2, <2>3, TypesNext
  <1>16. ASSUME UNCHANGED <<mem, nalloc>> PROVE TypesStay
    BY <1>16, <1>d DEF TypesStay
  <1>17. ASSUME NEW fails \in BOOLEAN, ReadReturns(fails) PROVE TypesStay
    BY <1>4, <1>16, <1>17 DEF ReadReturns
  <1>18. ASSUME NEW c \in DOMAIN mem.conns, Close(c) \/ ReadFails(c) PROVE TypesStay
    BY <1>4, <1>18 DEF Close, ReadFails
  <1>19. ASSUME AcceptReturns \/ UNCHANGED vars \/ \E c \in DOMAIN mem.conns : ReadMessage(c) PROVE TypesStay
    BY <1>16, <1>19 DEF AcceptReturns, ReadMessage, vars
  <1> QED
    BY <1>1, <1>2, <1>3, <1>5, <1>6, <1>7, <1>8, <1>9, <1>10, <1>11, <1>12, <1>13, <1>14, <1>17,
       <1>18, <1>19 DEF Next

\* What becomes of the call.
LEMMA CallStep ==
    ASSUME Base, [Next]_vars
    PROVE  \/ call' = call
           \/ call' = NoCall
           \/ \E c \in DOMAIN mem.conns : call' = [op |-> "accept", conn |-> c]
           \/ \E c \in DOMAIN mem.conns : ReadMessage(c)
  <1>1. ASSUME NEW c \in DOMAIN mem.conns, AcceptDirectim(c)
        PROVE  \E d \in DOMAIN mem.conns : call' = [op |-> "accept", conn |-> d]
    BY <1>1 DEF AcceptDirectim
  <1>2. CASE AcceptReturns \/ \E fails \in BOOLEAN : ReadReturns(fails)
    BY <1>2 DEF AcceptReturns, ReadReturns
  <1>3. ASSUME NEW s \in Subtypes, NEW ck \in Cks, Initiate(s, ck) PROVE call' = call
    BY <1>3 DEF Initiate
  <1>4. ASSUME NEW ck \in Cks, \/ InitiateFails(ck) \/ aim_chat_send_im(ck)
                               \/ incomingmsg(ck) \/ aim_chat_invite(ck)
        PROVE  call' = call
    BY <1>4 DEF InitiateFails, aim_chat_send_im, incomingmsg, aim_chat_invite
  <1>5. ASSUME NEW open \in BOOLEAN, JoinChat(open) \/ \E ck \in Cks : aim_directim_connect(ck, open)
        PROVE  call' = call
    BY <1>5 DEF JoinChat, aim_directim_connect
  <1>6. ASSUME NEW c \in DOMAIN mem.conns,
               \/ Close(c) \/ aim_conn_kill(c) \/ SetPriv(c) \/ aim_chat_attachname(c)
               \/ AcceptFails(c) \/ AcceptSendfile(c) \/ ReadFails(c)
        PROVE  call' = call
    BY <1>6 DEF Close, aim_conn_kill, SetPriv, aim_chat_attachname, AcceptFails, AcceptSendfile, ReadFails
  <1>7. CASE UNCHANGED vars
    BY <1>7 DEF vars
  <1> QED
    BY <1>1, <1>2, <1>3, <1>4, <1>5, <1>6, <1>7 DEF Next

LEMMA ReadingStep ==
    ASSUME Base, Reading, [Next]_vars
    PROVE  Reading'
  <1>1. nalloc \in Nat /\ nalloc' \in Nat /\ nalloc <= nalloc' /\ TypesStay
    BY TypesStep, BaseParts DEF TypesStay
  <1>2. 0 .. nalloc \subseteq 0 .. nalloc'
    BY <1>1
  <1>3. CASE call' = call
    BY <1>1, <1>2, <1>3 DEF Reading, TypesStay
  <1>4. CASE call' = NoCall
    <2>1. NULL \in 0 .. nalloc'
      BY <1>1 DEF NULL
    <2> QED
      BY <1>4, <2>1 DEF NoCall, Reading
  <1>5. ASSUME NEW c \in DOMAIN mem.conns, call' = [op |-> "accept", conn |-> c] PROVE Reading'
    <2>1. c \in 0 .. nalloc'
      BY <1>1, <1>2, BaseParts
    <2> QED
      BY <1>5, <2>1 DEF Reading
  <1>6. ASSUME NEW c \in DOMAIN mem.conns, ReadMessage(c) PROVE Reading'
    <2>1. c \in 0 .. nalloc'
      BY <1>1, <1>2, BaseParts
    <2>2. call' = [op |-> "read", conn |-> c] /\ mem' = mem /\ mem.conns[c].type = "rend"
      BY <1>6 DEF ReadMessage, Readable
    <2> QED
      BY <2>1, <2>2 DEF Reading
  <1> QED
    BY <1>3, <1>4, <1>5, <1>6, CallStep

\* The client starts direct IMs only and lets go of a listener neither too early nor
\* too late, and nothing goes wrong around it.
CarefulClient == Subtypes \subseteq {"directim"} /\ Habits \cap {"gives up", "keeps listener"} = {} /\ Faults = {}

RemovedParts == AllDirect /\ CookiesRemoved

LEMMA RemovedStep ==
    ASSUME RemovedInv, CarefulClient, [Next]_vars
    PROVE  RemovedParts'
  <1>a. Base /\ Owned /\ Moved /\ Reading /\ AllDirect /\ CookiesRemoved
    BY DEF RemovedInv, OwnedInv
  <1>b. /\ 1 \in 1 .. 1 /\ 1 \in 1 .. 2 /\ 2 \in 1 .. 2 /\ 1 \in 1 .. 3 /\ 2 \in 1 .. 3 /\ 3 \in 1 .. 3
        /\ 1 \in 0 .. 3 /\ 2 \in 0 .. 3 /\ 3 \in 0 .. 3
    OBVIOUS
  <1>c. "gives up" \notin Habits /\ Faults = {} /\ Subtypes \subseteq {"directim"}
    BY DEF CarefulClient
  <1>1. ASSUME NEW s \in Subtypes, NEW ck \in Cks, Initiate(s, ck) PROVE RemovedParts'
    <2> DEFINE new == NewData("OFTIM", ck, nalloc + 1)
               n2 == nalloc + 2
               n3 == nalloc + 3
    <2>1. PICK p \in Ptrs : Changes({}, {n3}, {p}, {nalloc + 1, n2}, {new}, p)
      BY <1>1, <1>a, InitiateEffect
    <2>2. /\ mem'.conns[n3] = NewConn("out", s, TRUE, n2) /\ mem'.heap[n2] = Obj(ck, NULL)
          /\ Allocates(3)
      BY <1>1, <1>a, InitiateEffect
    <2>3. n3 \notin DOMAIN mem.conns
      BY <1>a, <1>b, <2>2, Fresh
    <2>4. /\ mem'.conns[n3].open = TRUE /\ mem'.conns[n3].internal = n2
          /\ mem'.conns[n3].type = "out" /\ mem'.conns[n3].subtype = s
      BY <2>2 DEF NewConn
    <2>5. mem'.heap[n2].ck = ck /\ new.ck = ck
      BY <2>2 DEF Obj, NewData
    <2> HIDE DEF new, n2, n3
    <2>6. n3 \in DOMAIN mem'.conns /\ n2 \in DOMAIN mem'.heap
      BY <2>1 DEF Changes
    <2>7. Carried(mem', new.ck)
      BY <2>4, <2>5, <2>6 DEF Carried, Carries
    <2>8. NewsCarried({new}) /\ HandsOver({} \cup {n3})
      BY <2>3, <2>7, HandsOverSets
    <2>9. FreesHarmless({}, {p})
      BY <2>1, DataHarmless, HarmlessSets
    <2>10. s = "directim"
      BY <1>c
    <2>11. DirectNone({n3})
      BY <2>4, <2>10 DEF DirectNone
    <2> QED
      BY <1>a, <2>1, <2>8, <2>9, <2>11, RemovedNext, DirectNext DEF RemovedParts
  <1>2. ASSUME NEW ck \in Cks, InitiateFails(ck) PROVE FALSE
    BY <1>2, <1>c DEF InitiateFails
  <1>3. ASSUME NEW ck \in Cks, NEW open \in BOOLEAN, aim_directim_connect(ck, open) PROVE RemovedParts'
    <2>1. /\ Changes({}, {nalloc + 2}, {}, {nalloc + 1}, {}, NULL)
          /\ mem'.conns[nalloc + 2] = NewConn("rend", "directim", open, nalloc + 1) /\ Allocates(2)
      BY <1>3, <1>a, ConnectEffect
    <2>2. nalloc + 2 \notin DOMAIN mem.conns
      BY <1>a, <1>b, <2>1, Fresh
    <2>3. mem'.conns[nalloc + 2].type = "rend" /\ mem'.conns[nalloc + 2].subtype = "directim"
      BY <2>1 DEF NewConn
    <2>4. DirectNone({nalloc + 2})
      BY <2>3 DEF DirectNone
    <2>5. FreesHarmless({}, {}) /\ NewsCarried({}) /\ HandsOver({} \cup {nalloc + 2})
      BY <2>2, HarmlessSets, HandsOverSets
    <2> QED
      BY <1>a, <2>1, <2>4, <2>5, RemovedNext, DirectNext DEF RemovedParts
  <1>4. ASSUME NEW c \in DOMAIN mem.conns, mem' = aim_conn_close(mem, c),
               mem.conns[c].type = "out" => mem.conns[c].internal = NULL
        PROVE  RemovedParts'
    <2>1. PICK p \in Ptrs : Changes({}, {c}, {p}, {}, {}, p)
      BY <1>4, <1>a, CloseEffect
    <2>2. /\ mem.conns[c].type = "rend" /\ mem.conns[c].subtype = "directim"
             /\ mem.conns[c].internal \in DOMAIN mem.heap =>
                   Lacks(mem', mem.heap[mem.conns[c].internal].ck, "OFTIM")
          /\ mem'.conns[c].internal = mem.conns[c].internal /\ mem'.conns[c].type = mem.conns[c].type
          /\ mem'.conns[c].subtype = mem.conns[c].subtype
      BY <1>4, <1>a, CloseEffect, OpenOnly
    <2>3. ASSUME NEW ck, Carries(mem, c, ck) PROVE Lacks(mem', ck, "OFTIM")
      <3>1. mem.conns[c].internal \in DOMAIN mem.heap /\ mem.heap[mem.conns[c].internal].ck = ck
        BY <2>3 DEF Carries
      <3>2. mem.conns[c].internal # NULL
        BY <1>a, <3>1, NullPtr DEF Base
      <3>3. mem.conns[c].type = "rend" /\ mem.conns[c].subtype = "directim"
        <4>1. mem.conns[c].type \in {"out", "rend", "chat"}
          BY <1>a, BaseParts DEF ConnT
        <4> QED
          BY <1>4, <1>a, <3>2, <4>1 DEF AllDirect
      <3> QED
        BY <2>2, <3>1, <3>3
    <2>4. HandsOver({} \cup {c})
      BY <2>3 DEF HandsOver
    <2>5. DirectNone({c})
      BY <1>a, <2>2 DEF DirectNone, AllDirect
    <2>6. FreesHarmless({}, {p}) /\ NewsCarried({})
      BY <2>1, DataHarmless, HarmlessSets, HandsOverSets
    <2> QED
      BY <1>a, <2>1, <2>4, <2>5, <2>6, RemovedNext, DirectNext DEF RemovedParts
  <1>5. ASSUME NEW c \in DOMAIN mem.conns, aim_conn_kill(c) PROVE RemovedParts'
    <2> DEFINE q == IF mem.conns[c].type = "rend" THEN mem.conns[c].internal ELSE NULL
    <2>1. mem' = connkill_real(mem, c) /\ (mem.conns[c].type = "out" => mem.conns[c].internal = NULL)
      BY <1>5, <1>c DEF aim_conn_kill, MayLetGo
    <2>2. PICK p \in Ptrs : Changes({c}, {}, {p, mem.conns[c].priv, q}, {}, {}, p)
      BY <1>a, <2>1, KillEffect
    <2>3. mem.conns[c].open /\ mem.conns[c].type = "rend" /\ mem.conns[c].subtype = "directim"
          /\ mem.conns[c].internal \in DOMAIN mem.heap =>
                Lacks(mem', mem.heap[mem.conns[c].internal].ck, "OFTIM")
      BY <1>a, <2>1, KillEffect
    <2>4. ASSUME NEW ck, Carries(mem, c, ck) PROVE Lacks(mem', ck, "OFTIM")
      <3>1. /\ mem.conns[c].internal \in DOMAIN mem.heap /\ mem.heap[mem.conns[c].internal].ck = ck
            /\ mem.conns[c].open
        BY <2>4 DEF Carries
      <3>2. mem.conns[c].internal # NULL
        BY <1>a, <3>1, NullPtr DEF Base
      <3>3. mem.conns[c].type = "rend" /\ mem.conns[c].subtype = "directim"
        <4>1. mem.conns[c].type \in {"out", "rend", "chat"}
          BY <1>a, BaseParts DEF ConnT
        <4> QED
          BY <1>a, <2>1, <3>2, <4>1 DEF AllDirect
      <3> QED
        BY <2>3, <3>1, <3>3
    <2>5. HandsOver({c} \cup {})
      BY <2>4 DEF HandsOver
    <2>6. Harmless({c}, p) /\ Harmless({c}, mem.conns[c].priv) /\ Harmless({c}, q)
      BY <2>2, DataHarmless DEF Harmless
    <2> HIDE DEF q
    <2>7. FreesHarmless({c}, {p, mem.conns[c].priv, q}) /\ NewsCarried({}) /\ DirectNone({})
      BY <2>6, HandsOverSets DEF FreesHarmless, DirectNone
    <2> QED
      BY <1>a, <2>2, <2>5, <2>7, RemovedNext, DirectNext DEF RemovedParts
  <1>6. ASSUME NEW c \in DOMAIN mem.conns, SetPriv(c) PROVE RemovedParts'
    <2>1. /\ Changes({}, {c}, {}, {nalloc + 1}, {}, NULL)
          /\ mem'.conns[c] = [mem.conns[c] EXCEPT !.priv = nalloc + 1]
      BY <1>6, <1>a, SetPrivEffect
    <2>2. /\ mem'.conns[c].internal = mem.conns[c].internal /\ mem'.conns[c].open = mem.conns[c].open
          /\ mem'.conns[c].type = mem.conns[c].type /\ mem'.conns[c].subtype = mem.conns[c].subtype
      BY <1>a, <2>1, PrivFields
    <2>3. DirectNone({c})
      BY <1>a, <2>2 DEF DirectNone, AllDirect
    <2>4. FreesHarmless({}, {}) /\ NewsCarried({})
      BY HarmlessSets, HandsOverSets
    <2>5. HandsOver({} \cup {c})
      BY <1>a, <2>1, <2>2, <2>4, HandsOverKept
    <2> QED
      BY <1>a, <2>1, <2>3, <2>4, <2>5, RemovedNext, DirectNext DEF RemovedParts
  <1>7. ASSUME NEW open \in BOOLEAN, JoinChat(open) PROVE RemovedParts'
    <2>1. /\ Changes({}, {nalloc + 3}, {}, {nalloc + 1, nalloc + 2}, {}, NULL)
          /\ mem'.conns[nalloc + 3] = [NewConn("chat", "none", open, NULL) EXCEPT !.priv = nalloc + 2]
          /\ Allocates(3)
      BY <1>7, <1>a, JoinChatEffect
    <2>2. nalloc + 3 \notin DOMAIN mem.conns
      BY <1>a, <1>b, <2>1, Fresh
    <2>3. mem'.conns[nalloc + 3].internal = NULL /\ mem'.conns[nalloc + 3].type = "chat"
      BY <2>1 DEF NewConn
    <2>4. DirectNone({nalloc + 3})
      BY <2>3 DEF DirectNone
    <2>5. FreesHarmless({}, {}) /\ NewsCarried({}) /\ HandsOver({} \cup {nalloc + 3})
      BY <2>2, HarmlessSets, HandsOverSets
    <2> QED
      BY <1>a, <2>1, <2>4, <2>5, RemovedNext, DirectNext DEF RemovedParts
  <1>8. ASSUME NEW c \in DOMAIN mem.conns, aim_chat_attachname(c) PROVE RemovedParts'
    <2>1. /\ Changes({}, {c}, {mem.conns[c].priv}, {nalloc + 1, nalloc + 2}, {}, NULL)
          /\ mem'.conns[c] = [mem.conns[c] EXCEPT !.priv = nalloc + 2]
      BY <1>8, <1>a, AttachNameEffect
    <2>2. /\ mem'.conns[c].internal = mem.conns[c].internal /\ mem'.conns[c].open = mem.conns[c].open
          /\ mem'.conns[c].type = mem.conns[c].type /\ mem'.conns[c].subtype = mem.conns[c].subtype
      BY <1>a, <2>1, PrivFields
    <2>3. DirectNone({c})
      BY <1>a, <2>2 DEF DirectNone, AllDirect
    <2>4. FreesHarmless({}, {mem.conns[c].priv}) /\ NewsCarried({})
      BY HarmlessSets, HandsOverSets
    <2>5. HandsOver({} \cup {c})
      BY <1>a, <2>1, <2>2, <2>4, HandsOverKept
    <2> QED
      BY <1>a, <2>1, <2>3, <2>4, <2>5, RemovedNext, DirectNext DEF RemovedParts
  <1>9. ASSUME NEW p \in Ptrs, NEW A, NEW news, Changes({}, {}, {p}, A, news, p), NewsCarried(news)
        PROVE  RemovedParts'
    <2>1. FreesHarmless({}, {p}) /\ HandsOver({} \cup {})
      BY <1>9, DataHarmless, HarmlessSets, HandsOverSets
    <2>2. DirectNone({})
      BY DEF DirectNone
    <2> QED
      BY <1>9, <1>a, <2>1, <2>2, RemovedNext, DirectNext DEF RemovedParts
  <1>10. ASSUME NEW ck \in Cks, aim_chat_send_im(ck) PROVE RemovedParts'
    <2>1. PICK p \in Ptrs : Changes({}, {}, {p}, {}, {NewData("CHAT", ck, NULL)}, p)
      BY <1>10, <1>a, SendChatEffect
    <2>2. NewsCarried({NewData("CHAT", ck, NULL)})
      BY HandsOverSets DEF NewData
    <2> QED
      BY <1>9, <2>1, <2>2
  <1>11. ASSUME NEW ck \in Cks, incomingmsg(ck) PROVE RemovedParts'
    BY <1>9, <1>11, <1>a, IncomingEffect, HandsOverSets
  <1>12. ASSUME NEW ck \in Cks, aim_chat_invite(ck) PROVE RemovedParts'
    <2>1. PICK p \in Ptrs :
             Changes({}, {}, {p}, {nalloc + 1, nalloc + 2}, {NewData("INVITE", ck, nalloc + 2)}, p)
      BY <1>12, <1>a, InviteEffect
    <2>2. NewsCarried({NewData("INVITE", ck, nalloc + 2)})
      BY HandsOverSets DEF NewData
    <2> QED
      BY <1>9, <2>1, <2>2
  <1>13. ASSUME NEW c \in DOMAIN mem.conns, AcceptFails(c) PROVE FALSE
    BY <1>13, <1>c DEF AcceptFails
  <1>14. ASSUME NEW c \in DOMAIN mem.conns, AcceptDirectim(c) PROVE RemovedParts'
    <2> DEFINE n == nalloc + 1
    <2>1. /\ Changes({}, {c, n}, {}, {}, {}, NULL)
          /\ mem'.conns[n] = Cloned(c) /\ mem'.conns[c] = [mem.conns[c] EXCEPT !.internal = NULL]
          /\ mem.conns[c].subtype = "directim" /\ mem.conns[c].type = "out" /\ Allocates(1)
      BY <1>14, <1>a, AcceptDirectimEffect
    <2>2. n \notin DOMAIN mem.conns
      BY <1>a, <1>b, <2>1, Fresh
    <2>3. /\ mem'.conns[n].internal = mem.conns[c].internal /\ mem'.conns[n].open = TRUE
          /\ mem'.conns[n].type = "rend" /\ mem'.conns[n].subtype = "directim"
          /\ mem'.conns[c].type = "out" /\ mem'.conns[c].subtype = "directim"
      BY <1>a, <2>1, CloneFields, ZenonT(30)
    <2> HIDE DEF n
    <2>4. DirectNone({c, n})
      BY <2>3 DEF DirectNone
    <2>5. n \in DOMAIN mem'.conns /\ \A q \in DOMAIN mem.heap : q \in DOMAIN mem'.heap /\ mem'.heap[q] = mem.heap[q]
      BY <2>1 DEF Changes
    <2>6. ASSUME NEW ck, Carries(mem, c, ck) PROVE Carried(mem', ck)
      BY <2>3, <2>5, <2>6 DEF Carries, Carried
    <2>7. HandsOver({} \cup {c, n})
      BY <2>2, <2>6 DEF HandsOver
    <2>8. FreesHarmless({}, {}) /\ NewsCarried({})
      BY HarmlessSets, HandsOverSets
    <2> QED
      BY <1>a, <2>1, <2>4, <2>7, <2>8, RemovedNext, DirectNext DEF RemovedParts
  <1>15. ASSUME NEW c \in DOMAIN mem.conns, AcceptSendfile(c) PROVE FALSE
    BY <1>15, <1>a DEF AcceptSendfile, Listening, AllDirect
  <1>16. ASSUME mem' = mem PROVE RemovedParts'
    BY <1>16, <1>a DEF RemovedParts, AllDirect, CookiesRemoved
  <1>17. ASSUME NEW fails \in BOOLEAN, ReadReturns(fails) PROVE RemovedParts'
    <2>1. CASE fails
      <3>1. /\ call.conn \in DOMAIN mem.conns /\ mem' = aim_conn_close(mem, call.conn)
            /\ mem.conns[call.conn].type = "rend"
        BY <1>17, <1>a, <2>1 DEF ReadReturns, Reading
      <3> QED
        BY <1>4, <3>1
    <2>2. CASE ~fails
      BY <1>16, <1>17, <2>2 DEF ReadReturns
    <2> QED
      BY <2>1, <2>2
  <1>18. ASSUME NEW c \in DOMAIN mem.conns, Close(c) \/ ReadFails(c) PROVE RemovedParts'
    BY <1>4, <1>18, <1>c DEF Close, ReadFails, MayLetGo, Readable
  <1>19. ASSUME AcceptReturns \/ UNCHANGED vars \/ \E c \in DOMAIN mem.conns : ReadMessage(c) PROVE RemovedParts'
    BY <1>16, <1>19 DEF AcceptReturns, ReadMessage, vars
  <1> QED
    BY <1>1, <1>2, <1>3, <1>5, <1>6, <1>7, <1>8, <1>10, <1>11, <1>12, <1>13, <1>14, <1>15, <1>17,
       <1>18, <1>19 DEF Next

LEMMA RemovedInvInit == Init => RemovedInv
  <1> SUFFICES ASSUME Init PROVE RemovedInv
    OBVIOUS
  <1>1. DOMAIN mem.conns = {} /\ DOMAIN mem.cookies = {} /\ call = NoCall
    BY DEF Init, NoConns
  <1>2. Base
    BY BaseInit
  <1>3. NULL \in 0 .. nalloc
    BY <1>2, BaseParts
  <1> QED
    BY <1>1, <1>3, OwnedInvInit DEF RemovedInv, AllDirect, CookiesRemoved, Reading, NoCall

LEMMA RemovedInvStep == CarefulClient => (RemovedInv /\ [Next]_vars => RemovedInv')
  <1> SUFFICES ASSUME CarefulClient, RemovedInv, [Next]_vars PROVE RemovedInv'
    OBVIOUS
  <1>1. KeepsNone
    BY DEF CarefulClient, KeepsNone
  <1>2. OwnedInv'
    BY <1>1, OwnedInvStep DEF RemovedInv
  <1>3. Reading'
    BY ReadingStep DEF RemovedInv, OwnedInv
  <1> QED
    BY <1>2, <1>3, RemovedStep DEF RemovedInv, RemovedParts

\* conn.c:311-313: the cookie of a direct IM leaves the cache with the connection that
\* carries its string, although the listener, its clone and the cookie each have a
\* copy of their own and the strings may repeat themselves.
THEOREM CookiesAreRemoved ==
    ASSUME Subtypes \subseteq {"directim"},
           Habits \cap {"gives up", "keeps listener"} = {},
           Faults = {}
    PROVE  Spec => []CookiesRemoved
  <1>1. CarefulClient
    BY DEF CarefulClient
  <1>2. RemovedInv => CookiesRemoved
    BY DEF RemovedInv
  <1> QED
    BY <1>1, <1>2, RemovedInvInit, RemovedInvStep, PTL DEF Spec

-----------------------------------------------------------------------------
(* Leaks *)

\* A connection or a cookie of m has the object q.
Rooted(m, q) ==
    \/ \E c \in DOMAIN m.conns : q = m.conns[c].internal \/ q = m.conns[c].priv
    \/ \E i \in DOMAIN m.cookies : q = m.cookies[i].data

LEMMA RootsAre ==
    /\ \A q : q \in Roots <=> Rooted(mem, q)
    /\ \A q : q \in Roots' <=> Rooted(mem', q)
  BY DEF Roots, Rooted

\* What the connections C had is freed, or someone has it still.
PassesOn(C, P) ==
    \A c \in DOMAIN mem.conns \cap C :
        \A q \in {mem.conns[c].internal, mem.conns[c].priv} : q = NULL \/ q \in P \/ Rooted(mem', q)

LEMMA LeakNext ==
    ASSUME Base, DOMAIN mem.heap \subseteq Roots, NEW K, NEW S, NEW P, NEW A, NEW news, NEW p,
           Changes(K, S, P, A, news, p), p \in P \/ p = NULL,
           \A q \in A : Rooted(mem', q), PassesOn(K \cup S, P)
    PROVE  (DOMAIN mem.heap \subseteq Roots)'
  <1> SUFFICES ASSUME NEW q \in DOMAIN mem'.heap PROVE Rooted(mem', q)
    BY RootsAre
  <1>1. CASE q \in A
    BY <1>1
  <1>2. CASE q \notin A
    <2>1. q \in DOMAIN mem.heap /\ q \notin P
      BY <1>2 DEF Changes
    <2>2. q # NULL
      BY <2>1, NullPtr DEF Base
    <2>3. Rooted(mem, q)
      BY <2>1, RootsAre
    <2>4. ASSUME NEW c \in DOMAIN mem.conns, q = mem.conns[c].internal \/ q = mem.conns[c].priv
          PROVE  Rooted(mem', q)
      <3>1. CASE c \in K \cup S
        BY <2>1, <2>2, <2>4, <3>1 DEF PassesOn
      <3>2. CASE c \notin K \cup S
        <4>1. c \in DOMAIN mem'.conns /\ mem'.conns[c] = mem.conns[c]
          BY <3>2 DEF Changes
        <4> QED
          BY <2>4, <4>1 DEF Rooted
      <3> QED
        BY <3>1, <3>2
    <2>5. ASSUME NEW k \in DOMAIN mem.cookies, q = mem.cookies[k].data
          PROVE  Rooted(mem', q)
      <3>1. mem.cookies[k].data # p
        BY <2>1, <2>2, <2>5
      <3>2. PICK i \in DOMAIN mem'.cookies : mem'.cookies[i] = mem.cookies[k]
        BY <3>1 DEF Changes, Listed
      <3> QED
        BY <2>5, <3>2 DEF Rooted
    <2> QED
      BY <2>3, <2>4, <2>5 DEF Rooted
  <1> QED
    BY <1>1, <1>2

LEMMA PassesOnSets ==
    ASSUME NEW P
    PROVE  /\ PassesOn({} \cup {}, P)
           /\ \A n : n \notin DOMAIN mem.conns => PassesOn({} \cup {n}, P)
  BY DEF PassesOn

LEMMA NewsRooted ==
    ASSUME NEW K, NEW S, NEW P, NEW A, NEW news, NEW p, Changes(K, S, P, A, news, p), NEW x \in news
    PROVE  Rooted(mem', x.data)
  BY DEF Changes, Listed, Rooted

LEMMA ConnRooted ==
    ASSUME NEW K, NEW S, NEW P, NEW A, NEW news, NEW p, Changes(K, S, P, A, news, p), NEW s \in S
    PROVE  Rooted(mem', mem'.conns[s].internal) /\ Rooted(mem', mem'.conns[s].priv)
  BY DEF Changes, Rooted

ChatNone(S) == \A s \in S : mem'.conns[s].type # "chat"

LEMMA NoChatsNext ==
    ASSUME NoChats, NEW K, NEW S, NEW P, NEW A, NEW news, NEW p, Changes(K, S, P, A, news, p), ChatNone(S)
    PROVE  NoChats'
  BY DEF NoChats, ChatNone, Changes

LEMMA ChatNoneSets == ChatNone({}) /\ \A s : mem'.conns[s].type # "chat" => ChatNone({s})
  BY DEF ChatNone

\* The client joins no chats and does not give up listeners, and nothing goes wrong.
PatientClient == Habits \subseteq {"own priv", "keeps listener"} /\ Faults = {}

LeakParts == NoChats /\ DOMAIN mem.heap \subseteq Roots

LEMMA LeakStep ==
    ASSUME LeakInv, PatientClient, [Next]_vars
    PROVE  LeakParts'
  <1>a. Base /\ NoChats /\ DOMAIN mem.heap \subseteq Roots
    BY DEF LeakInv
  <1>b. /\ 1 \in 1 .. 1 /\ 1 \in 1 .. 2 /\ 2 \in 1 .. 2 /\ 1 \in 1 .. 3 /\ 2 \in 1 .. 3 /\ 3 \in 1 .. 3
        /\ 1 \in 0 .. 3 /\ 2 \in 0 .. 3 /\ 3 \in 0 .. 3
    OBVIOUS
  <1>c. "gives up" \notin Habits /\ "chats" \notin Habits /\ Faults = {}
    BY DEF PatientClient
  <1>1. ASSUME NEW s \in Subtypes, NEW ck \in Cks, Initiate(s, ck) PROVE LeakParts'
    <2> DEFINE new == NewData("OFTIM", ck, nalloc + 1)
               n1 == nalloc + 1
               n2 == nalloc + 2
               n3 == nalloc + 3
    <2>1. PICK p \in Ptrs : Changes({}, {n3}, {p}, {n1, n2}, {new}, p)
      BY <1>1, <1>a, InitiateEffect
    <2>2. mem'.conns[n3] = NewConn("out", s, TRUE, n2) /\ Allocates(3)
      BY <1>1, <1>a, InitiateEffect
    <2>3. n3 \notin DOMAIN mem.conns
      BY <1>a, <1>b, <2>2, Fresh
    <2>4. mem'.conns[n3].internal = n2 /\ mem'.conns[n3].type # "chat" /\ new.data = n1
      BY <2>2 DEF NewConn, NewData
    <2> HIDE DEF new, n1, n2, n3
    <2>5. Rooted(mem', n1) /\ Rooted(mem', n2)
      BY <2>1, <2>4, NewsRooted, ConnRooted
    <2>6. PassesOn({} \cup {n3}, {p}) /\ ChatNone({n3})
      BY <2>3, <2>4, PassesOnSets, ChatNoneSets
    <2>7. (DOMAIN mem.heap \subseteq Roots)'
      BY <1>a, <2>1, <2>5, <2>6, LeakNext
    <2> QED
      BY <1>a, <2>1, <2>6, <2>7, NoChatsNext DEF LeakParts
  <1>2. ASSUME NEW ck \in Cks, InitiateFails(ck) PROVE FALSE
    BY <1>2, <1>c DEF InitiateFails
  <1>3. ASSUME NEW ck \in Cks, NEW open \in BOOLEAN, aim_directim_connect(ck, open) PROVE LeakParts'
    <2> DEFINE n1 == nalloc + 1
               n2 == nalloc + 2
    <2>1. /\ Changes({}, {n2}, {}, {n1}, {}, NULL)
          /\ mem'.conns[n2] = NewConn("rend", "directim", open, n1) /\ Allocates(2)
      BY <1>3, <1>a, ConnectEffect
    <2>2. n2 \notin DOMAIN mem.conns
      BY <1>a, <1>b, <2>1, Fresh
    <2>3. mem'.conns[n2].internal = n1 /\ mem'.conns[n2].type # "chat"
      BY <2>1 DEF NewConn
    <2> HIDE DEF n1, n2
    <2>4. Rooted(mem', n1)
      BY <2>1, <2>3, ConnRooted
    <2>5. PassesOn({} \cup {n2}, {}) /\ ChatNone({n2})
      BY <2>2, <2>3, PassesOnSets, ChatNoneSets
    <2>6. (DOMAIN mem.heap \subseteq Roots)'
      BY <1>a, <2>1, <2>4, <2>5, LeakNext
    <2> QED
      BY <1>a, <2>1, <2>5, <2>6, NoChatsNext DEF LeakParts
  <1>4. ASSUME NEW c \in DOMAIN mem.conns, mem' = aim_conn_close(mem, c) PROVE LeakParts'
    <2>1. PICK p \in Ptrs : Changes({}, {c}, {p}, {}, {}, p)
      BY <1>4, <1>a, CloseEffect
    <2>2. /\ mem'.conns[c].internal = mem.conns[c].internal /\ mem'.conns[c].priv = mem.conns[c].priv
          /\ mem'.conns[c].type = mem.conns[c].type
      BY <1>4, <1>a, CloseEffect, OpenOnly
    <2>3. Rooted(mem', mem.conns[c].internal) /\ Rooted(mem', mem.conns[c].priv)
      BY <2>1, <2>2, ConnRooted
    <2>4. PassesOn({} \cup {c}, {p}) /\ ChatNone({c})
      BY <1>a, <2>2, <2>3, ChatNoneSets DEF PassesOn, NoChats
    <2>5. (DOMAIN mem.heap \subseteq Roots)'
      BY <1>a, <2>1, <2>4, LeakNext
    <2> QED
      BY <1>a, <2>1, <2>4, <2>5, NoChatsNext DEF LeakParts
  <1>5. ASSUME NEW c \in DOMAIN mem.conns, aim_conn_kill(c) PROVE LeakParts'
    <2> DEFINE q == IF mem.conns[c].type = "rend" THEN mem.conns[c].internal ELSE NULL
    <2>1. mem' = connkill_real(mem, c) /\ (mem.conns[c].type = "out" => mem.conns[c].internal = NULL)
      BY <1>5, <1>c DEF aim_conn_kill, MayLetGo
    <2>2. PICK p \in Ptrs : Changes({c}, {}, {p, mem.conns[c].priv, q}, {}, {}, p)
      BY <1>a, <2>1, KillEffect
    <2>3. mem.conns[c].internal \in {q, NULL}
      <3>1. mem.conns[c].type \in {"out", "rend", "chat"} /\ mem.conns[c].type # "chat"
        BY <1>a, BaseParts DEF ConnT, NoChats
      <3> QED
        BY <2>1, <3>1
    <2> HIDE DEF q
    <2>4. PassesOn({c} \cup {}, {p, mem.conns[c].priv, q}) /\ ChatNone({})
      BY <2>3, ChatNoneSets DEF PassesOn
    <2>5. (DOMAIN mem.heap \subseteq Roots)'
      BY <1>a, <2>2, <2>4, LeakNext
    <2> QED
      BY <1>a, <2>2, <2>4, <2>5, NoChatsNext DEF LeakParts
  <1>6. ASSUME NEW c \in DOMAIN mem.conns, SetPriv(c) PROVE LeakParts'
    <2> DEFINE n1 == nalloc + 1
    <2>1. /\ Changes({}, {c}, {}, {n1}, {}, NULL)
          /\ mem'.conns[c] = [mem.conns[c] EXCEPT !.priv = n1]
      BY <1>6, <1>a, SetPrivEffect
    <2>2. /\ mem'.conns[c].internal = mem.conns[c].internal /\ mem'.conns[c].priv = n1
          /\ mem'.conns[c].type = mem.conns[c].type
      BY <1>a, <2>1, PrivFields
    <2>3. mem.conns[c].priv = NULL
      BY <1>6 DEF SetPriv
    <2> HIDE DEF n1
    <2>4. Rooted(mem', mem.conns[c].internal) /\ Rooted(mem', n1)
      BY <2>1, <2>2, ConnRooted
    <2>5. PassesOn({} \cup {c}, {}) /\ ChatNone({c})
      BY <1>a, <2>2, <2>3, <2>4, ChatNoneSets DEF PassesOn, NoChats
    <2>6. (DOMAIN mem.heap \subseteq Roots)'
      BY <1>a, <2>1, <2>4, <2>5, LeakNext
    <2> QED
      BY <1>a, <2>1, <2>5, <2>6, NoChatsNext DEF LeakParts
  <1>7. ASSUME NEW open \in BOOLEAN, JoinChat(open) PROVE FALSE
    BY <1>7, <1>c DEF JoinChat
  <1>8. ASSUME NEW c \in DOMAIN mem.conns, aim_chat_attachname(c) PROVE FALSE
    BY <1>8, <1>a DEF aim_chat_attachname, NoChats
  <1>9. ASSUME NEW ck \in Cks, aim_chat_send_im(ck) \/ incomingmsg(ck) \/ aim_chat_invite(ck) PROVE FALSE
    BY <1>9, <1>c DEF aim_chat_send_im, incomingmsg, aim_chat_invite
  <1>12. ASSUME NEW c \in DOMAIN mem.conns, AcceptFails(c) PROVE FALSE
    BY <1>12, <1>c DEF AcceptFails
  <1>13. ASSUME NEW c \in DOMAIN mem.conns, AcceptDirectim(c) PROVE LeakParts'
    <2> DEFINE n == nalloc + 1
    <2>1. /\ Changes({}, {c, n}, {}, {}, {}, NULL)
          /\ mem'.conns[n] = Cloned(c) /\ mem'.conns[c] = [mem.conns[c] EXCEPT !.internal = NULL]
          /\ mem.conns[c].type = "out" /\ Allocates(1)
      BY <1>13, <1>a, AcceptDirectimEffect
    <2>2. n \notin DOMAIN mem.conns
      BY <1>a, <1>b, <2>1, Fresh
    <2>3. /\ mem'.conns[n].internal = mem.conns[c].internal /\ mem'.conns[n].priv = mem.conns[c].priv
          /\ mem'.conns[n].type # "chat" /\ mem'.conns[c].type # "chat"
      BY <1>a, <2>1, CloneFields, ZenonT(30)
    <2> HIDE DEF n
    <2>4. Rooted(mem', mem.conns[c].internal) /\ Rooted(mem', mem.conns[c].priv)
      BY <2>1, <2>3, ConnRooted
    <2>5. PassesOn({} \cup {c, n}, {}) /\ ChatNone({c, n})
      BY <2>2, <2>3, <2>4 DEF PassesOn, ChatNone
    <2>6. (DOMAIN mem.heap \subseteq Roots)'
      BY <1>a, <2>1, <2>5, LeakNext
    <2> QED
      BY <1>a, <2>1, <2>5, <2>6, NoChatsNext DEF LeakParts
  <1>14. ASSUME NEW c \in DOMAIN mem.conns, AcceptSendfile(c) PROVE LeakParts'
    <2> DEFINE n == nalloc + 1
    <2>1. PICK K \in {{}, {c}}, P \in {{}, {mem.conns[c].priv}} : Changes(K, {n}, P, {}, {}, NULL)
      BY <1>14, <1>a, AcceptSendfileEffect
    <2>2. mem'.conns[n] = [Cloned(c) EXCEPT !.open = FALSE] /\ Allocates(1)
      BY <1>14, <1>a, AcceptSendfileEffect
    <2>3. n \notin DOMAIN mem.conns
      BY <1>a, <1>b, <2>2, Fresh
    <2>4. /\ mem'.conns[n].internal = mem.conns[c].internal /\ mem'.conns[n].priv = mem.conns[c].priv
          /\ mem'.conns[n].type # "chat"
      BY <1>a, <2>2, CloneFields
    <2> HIDE DEF n
    <2>5. Rooted(mem', mem.conns[c].internal) /\ Rooted(mem', mem.conns[c].priv)
      BY <2>1, <2>4, ConnRooted
    <2>6. PassesOn(K \cup {n}, P) /\ ChatNone({n})
      BY <2>3, <2>4, <2>5 DEF PassesOn, ChatNone
    <2>7. (DOMAIN mem.heap \subseteq Roots)'
      BY <1>a, <2>1, <2>6, LeakNext
    <2> QED
      BY <1>a, <2>1, <2>6, <2>7, NoChatsNext DEF LeakParts
  <1>16. ASSUME mem' = mem PROVE LeakParts'
    BY <1>16, <1>a, RootsAre DEF LeakParts, NoChats
  <1>17. ASSUME NEW fails \in BOOLEAN, ReadReturns(fails) PROVE LeakParts'
    BY <1>4, <1>16, <1>17 DEF ReadReturns
  <1>18. ASSUME NEW c \in DOMAIN mem.conns, Close(c) \/ ReadFails(c) PROVE LeakParts'
    BY <1>4, <1>18 DEF Close, ReadFails
  <1>19. ASSUME AcceptReturns \/ UNCHANGED vars \/ \E c \in DOMAIN mem.conns : ReadMessage(c) PROVE LeakParts'
    BY <1>16, <1>19 DEF AcceptReturns, ReadMessage, vars
  <1> QED
    BY <1>1, <1>2, <1>3, <1>5, <1>6, <1>7, <1>8, <1>9, <1>12, <1>13, <1>14, <1>17, <1>18, <1>19 DEF Next

LEMMA LeakInvInit == Init => LeakInv
  <1> SUFFICES ASSUME Init PROVE LeakInv
    OBVIOUS
  <1>1. DOMAIN mem.conns = {} /\ DOMAIN mem.heap = {}
    BY DEF Init, NoConns
  <1> QED
    BY <1>1, BaseInit DEF LeakInv, NoChats

LEMMA LeakInvStep == PatientClient => (LeakInv /\ [Next]_vars => LeakInv')
  <1> SUFFICES ASSUME PatientClient, LeakInv, [Next]_vars PROVE LeakInv'
    OBVIOUS
  <1>1. Base'
    BY BaseStep DEF LeakInv
  <1> QED
    BY <1>1, LeakStep DEF LeakInv, LeakParts

\* conn.c:152-190: a client that waits for its peers, with any ->priv of its own and
\* even with listeners that are left open, loses no object: what the last connection
\* or cookie to have it lets go of is freed.
THEOREM NoLeaks ==
    ASSUME Habits \subseteq {"own priv", "keeps listener"},
           Faults = {}
    PROVE  Spec => []NothingLeaks
  <1>1. PatientClient
    BY DEF PatientClient
  <1>2. LeakInv => NothingLeaks
    BY DEF LeakInv, NothingLeaks
  <1> QED
    BY <1>1, <1>2, LeakInvInit, LeakInvStep, PTL DEF Spec
=============================================================================
