------------------------------- MODULE MCWire -------------------------------
EXTENDS Wire

\* Two TLVs of one type, one of them without a value, and a chain that is too
\* long for the frame although its first TLV would fit.
MCChains ==
    {<<Tlv(1, <<42>>), Tlv(1, <<>>)>>,
     <<Tlv(1, <<7>>), Tlv(2, <<42, 42, 42, 42>>)>>}

MCTails == {<<>>, <<9, 42>>}
=============================================================================
