--------------------------- MODULE MCDifferential ---------------------------
EXTENDS Differential, TLC

\* a1 and a2: equal checksums, unequal sizes.  nl is an empty line, as in a header list.
a1 == [checksum |-> "a", size |-> 1]
a2 == [checksum |-> "a", size |-> 2]
b2 == [checksum |-> "b", size |-> 2]
nl == [checksum |-> "nl", size |-> 2]
x1 == [checksum |-> "x", size |-> 1]
zero == [checksum |-> "zero", size |-> 0]

MCContent ==
  (a1 :> <<"a">>) @@ (a2 :> <<"A1", "A2">>) @@ (b2 :> <<"b1", "b2">>) @@ (nl :> <<"LF", "LF">>)
    @@ (x1 :> <<"x">>) @@ (zero :> <<>>)

\* The second has a block twice.
MCOldMaps == {<<a1, b2>>, <<b2, a1, b2>>}

\* All short files, and some of two batches; the one that begins with x1, b2, x1 asks for several
\* ranges in the second batch too.
MCNewMaps ==
  UNION {[1..n -> {a1, a2, b2, nl}] : n \in 1..3}
    \union {<<x1, b2, nl, b2, a1, x1>>, <<b2, x1, b2, a2, b2, nl, b2>>, <<nl, b2, a1, b2, a1, x1>>,
            <<x1, b2, x1, b2, x1, b2, x1>>, <<zero>>, <<x1, zero, b2>>}

MCByte == {"a", "A1", "A2", "b1", "b2", "x", "metadata", "CR", "LF", "-", "boundary", "header"}
MCFileMetadata == <<"metadata">>
MCCRLF == <<"CR", "LF">>
MCLF == <<"LF">>
=============================================================================
