-------------------------------- MODULE Tlv --------------------------------
(***************************************************************************)
(* TLV chains (src/src/tlv.c): sequences of typed values, appended to when *)
(* they are built, written to a stream as a whole or not at all, and read  *)
(* from one by prepending, so that a chain that was read is in the reverse *)
(* of the order on the wire.  The length field has 16 bits.                *)
(***************************************************************************)
EXTENDS Bstream

Tlv(t, v) == [type |-> t, value |-> v]

\* aim_addtlvtochain_raw and, with the bytes of a number, _8, _16 and _32.
aim_addtlvtochain_raw(list, t, v) ==
    Append(list, Tlv(t, SubSeq(v, 1, Len(v) % 65536)))

aim_addtlvtochain_noval(list, t) == Append(list, Tlv(t, <<>>))

aim_counttlvchain(list) == Len(list)

TlvBytes(tlv) ==
    aimutil_put16(tlv.type) \o aimutil_put16(Len(tlv.value)) \o tlv.value

aim_sizetlvchain(list) ==
    LET size[i \in 0..Len(list)] == IF i = 0 THEN 0 ELSE size[i - 1] + 4 + Len(list[i].value)
    IN  size[Len(list)]

\* The whole chain, or nothing when there is not enough room for all of it.
aim_writetlvchain(w, list) ==
    LET put[i \in 0..Len(list)] == IF i = 0 THEN w ELSE aimbs_put(put[i - 1], TlvBytes(list[i]))
    IN  IF aim_sizetlvchain(list) > w.room - aim_bstream_curpos(w) THEN w ELSE put[Len(list)]

\* aim_addtlvtochain_frozentlvlist: the inner chain as the value of a TLV.
aim_addtlvtochain_frozentlvlist(list, t, inner) ==
    IF inner = <<>> THEN list
    ELSE aim_addtlvtochain_raw(list, t,
             aim_writetlvchain(Writer(aim_sizetlvchain(inner)), inner).data)

\* A TLV whose length says more than there is.
Truncated == Tlv(-1, <<>>)

\* The value of a TLV after its type and length: the TLV, and the stream behind it.
ReadValue(type, length) ==
    LET value == aimbs_getraw(length.bs, length.v)
    IN  IF length.v > aim_bstream_empty(length.bs)
        THEN [tlv |-> Truncated, bs |-> length.bs]
        ELSE [tlv |-> Tlv(type, value.v), bs |-> value.bs]

\* One turn of the loop of aim_readtlvchain at bs.
ReadTlv(bs) == LET type == aimbs_get(bs, 2) IN ReadValue(type.v, aimbs_get(type.bs, 2))

\* The loop up to its next test: each TLV is put before those already read, and an
\* error frees them all and reads no more.
ReadTurn(c) ==
    LET r == ReadTlv(c.bs)
    IN  IF aim_bstream_empty(c.bs) = 0 THEN c
        ELSE IF r.tlv = Truncated
             THEN [list |-> <<>>, bs |-> aim_bstream_setpos(c.bs, Len(c.bs.data))]
             ELSE [list |-> <<r.tlv>> \o c.list, bs |-> r.bs]

\* The list once the stream is used up: a turn takes four bytes, or the last two.  With
\* one byte left behind a TLV the loop never ends and this has no value: Wire has it as
\* steps, and TLC reads no such stream.
aim_readtlvchain(bs) ==
    LET turns == aim_bstream_empty(bs) \div 4 + 1
        after[k \in 0..turns] ==
            IF k = 0 THEN [list |-> <<>>, bs |-> bs] ELSE ReadTurn(after[k - 1])
    IN  after[CHOOSE k \in 0..turns : aim_bstream_empty(after[k].bs) = 0].list

\* aim_gettlv: the nth TLV of a type, NULL when there are fewer.
aim_gettlv(list, t, n) ==
    LET OfType(tlv) == tlv.type = t
        all         == SelectSeq(list, OfType)
    IN  IF Len(all) < n THEN NULL ELSE all[n].value

\* aim_gettlv8, aim_gettlv16, aim_gettlv32 of the first one; 0 when there is none.
aim_gettlvnum(list, t, width) ==
    LET v == aim_gettlv(list, t, 1)
    IN  IF v = NULL THEN 0 ELSE aimutil_get(SubSeq(v, 1, width))
=============================================================================
