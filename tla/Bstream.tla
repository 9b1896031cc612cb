------------------------------ MODULE Bstream ------------------------------
(***************************************************************************)
(* Byte streams (aim_bstream_t, src/src/rxqueue.c).  A stream that is read *)
(* is its bytes and an offset; a stream that is written is the room it was *)
(* given and the bytes put so far.  A get or put that does not fit moves   *)
(* nothing: it reads 0 or NULL, or the bytes are silently not written.     *)
(***************************************************************************)
EXTENDS Integers, SequencesExt

Byte == 0..255

\* The pointer nothing was stored in: no byte is negative.
NULL == <<-1>>

Zeros(n) == [i \in 1..n |-> 0]

-----------------------------------------------------------------------------
(* Numbers *)

aimutil_put16(n) == <<(n \div 256) % 256, n % 256>>

aimutil_put32(n) == aimutil_put16(n \div 65536) \o aimutil_put16(n % 65536)

aimutil_putle(bytes) == Reverse(bytes)

\* aimutil_get8, aimutil_get16, aimutil_get32.
aimutil_get(bytes) ==
    LET value[i \in 0..Len(bytes)] == IF i = 0 THEN 0 ELSE 256 * value[i - 1] + bytes[i]
    IN  value[Len(bytes)]

-----------------------------------------------------------------------------
(* Reading *)

aim_bstream_init(data) == [data |-> data, offset |-> 0]

aim_bstream_empty(bs) == Len(bs.data) - bs.offset

aim_bstream_setpos(bs, off) ==
    IF off > Len(bs.data) THEN bs ELSE [bs EXCEPT !.offset = off]

aim_bstream_advance(bs, n) ==
    IF aim_bstream_empty(bs) < n THEN bs ELSE [bs EXCEPT !.offset = @ + n]

Ahead(bs, n) == SubSeq(bs.data, bs.offset + 1, bs.offset + n)

\* aimbs_getraw, aimbs_getstr, aimbs_getrawbuf.
aimbs_getraw(bs, n) ==
    [v  |-> IF aim_bstream_empty(bs) < n THEN NULL ELSE Ahead(bs, n),
     bs |-> aim_bstream_advance(bs, n)]

\* aimbs_get8, aimbs_get16, aimbs_get32: a field of n bytes.
aimbs_get(bs, n) ==
    [v  |-> IF aim_bstream_empty(bs) < n THEN 0 ELSE aimutil_get(Ahead(bs, n)),
     bs |-> aim_bstream_advance(bs, n)]

aimbs_getle(bs, n) ==
    [v  |-> IF aim_bstream_empty(bs) < n THEN 0
            ELSE aimutil_get(Reverse(Ahead(bs, n))),
     bs |-> aim_bstream_advance(bs, n)]

\* A string after its length in a field of n bytes.
GetCounted(bs, n) ==
    LET len == aimbs_get(bs, n) IN aimbs_getraw(len.bs, len.v)

GetCountedLe(bs, n) ==
    LET len == aimbs_getle(bs, n) IN aimbs_getraw(len.bs, len.v)

\* Several fields one after the other: v is the sequence of their values.  A field is
\* the width of a number or, negated, the width of the length before a string.
Gets(bs, fields) ==
    LET Then(a, g) == [v |-> Append(a.v, g.v), bs |-> g.bs]
        Get(a, n)  == Then(a, IF n > 0 THEN aimbs_get(a.bs, n) ELSE GetCounted(a.bs, -n))
        at[k \in 0..Len(fields)] ==
            IF k = 0 THEN [v |-> <<>>, bs |-> bs] ELSE Get(at[k - 1], fields[k])
    IN  at[Len(fields)]

GetsLe(bs, fields) ==
    LET Then(a, g) == [v |-> Append(a.v, g.v), bs |-> g.bs]
        Get(a, n)  == Then(a, IF n > 0 THEN aimbs_getle(a.bs, n) ELSE GetCountedLe(a.bs, -n))
        at[k \in 0..Len(fields)] ==
            IF k = 0 THEN [v |-> <<>>, bs |-> bs] ELSE Get(at[k - 1], fields[k])
    IN  at[Len(fields)]

-----------------------------------------------------------------------------
(* Writing *)

Writer(room) == [room |-> room, data |-> <<>>]

aim_bstream_curpos(w) == Len(w.data)

aimbs_put(w, bytes) ==
    IF Len(w.data) + Len(bytes) > w.room THEN w
    ELSE [w EXCEPT !.data = @ \o bytes]

\* Several puts one after the other.
Puts(w, pieces) ==
    LET put[k \in 0..Len(pieces)] == IF k = 0 THEN w ELSE aimbs_put(put[k - 1], pieces[k])
    IN  put[Len(pieces)]

\* A string before which its length is put as one byte.
Counted(s) == << <<Len(s) % 256>>, s >>
=============================================================================
