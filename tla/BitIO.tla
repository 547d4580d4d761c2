-------------------------------- MODULE BitIO --------------------------------
(***************************************************************************)
(* The bit stream of packet headers, src/lib/openjp2/bio.c.  The writer    *)
(* and the reader are records of the fields of opj_bio_t that change: buf  *)
(* holds the byte before and the byte at hand, ct the bits left of it.     *)
(***************************************************************************)
EXTENDS Naturals, Sequences, SequencesExt

\* v in n bits, the most significant one first, and back
Bits(v, n)   == [i \in 1..n |-> (v \div 2^(n - i)) % 2]
Number(bits) == FoldLeft(LAMBDA v, b : 2 * v + b, 0, bits)

\* a byte of ones is followed by a byte of seven bits
Room(buf) == IF buf = 65280 THEN 7 ELSE 8
Shifted(buf) == (buf * 256) % 65536

-----------------------------------------------------------------------------
InitEnc == [bytes |-> <<>>, buf |-> 0, ct |-> 8]

ByteOut(bio) ==
    LET buf == Shifted(bio.buf)
    IN  [bytes |-> Append(bio.bytes, buf \div 256), buf |-> buf, ct |-> Room(buf)]

PutBit(bio, b) ==
    LET o == IF bio.ct = 0 THEN ByteOut(bio) ELSE bio
    IN  [o EXCEPT !.ct = @ - 1, !.buf = @ + b * 2^(o.ct - 1)]

Write(bio, bits) == FoldLeft(PutBit, bio, bits)

\* mutant: no byte is added after a byte of ones
FlushOnce(bio) == ByteOut(bio)
Flush(bio) ==
    LET o == ByteOut(bio)
    IN  IF o.ct = 7 THEN ByteOut(o) ELSE o

-----------------------------------------------------------------------------
InitDec(bytes) == [bytes |-> bytes, bp |-> 0, buf |-> 0, ct |-> 0]

ByteIn(in) ==
    LET buf == Shifted(in.buf)
    IN  IF in.bp = Len(in.bytes) THEN [in EXCEPT !.buf = buf, !.ct = Room(buf)]
        ELSE [in EXCEPT !.buf = buf + in.bytes[in.bp + 1], !.ct = Room(buf), !.bp = @ + 1]

GetBit(in) ==
    LET i == IF in.ct = 0 THEN ByteIn(in) ELSE in
    IN  [in |-> [i EXCEPT !.ct = @ - 1], bit |-> (i.buf \div 2^(i.ct - 1)) % 2]

\* the next n bits
Read(in, n) ==
    FoldLeft(LAMBDA r, i : LET g == GetBit(r.in) IN [in |-> g.in, v |-> 2 * r.v + g.bit],
             [in |-> in, v |-> 0], [i \in 1..n |-> i])

InAlign(in) == [(IF in.buf % 256 = 255 THEN ByteIn(in) ELSE in) EXCEPT !.ct = 0]
=============================================================================
