----------------------------- MODULE Codestream -----------------------------
(***************************************************************************)
(* A JPEG 2000 codestream as the decoder of src/lib/openjp2/j2k.c sees it: *)
(* a sequence of items.  An item stands for what the code reads in one go: *)
(* a marker identifier, the body of a marker segment, or a piece of packet *)
(* data.  Lengths (Psot, what is left in the stream) are counted in items; *)
(* the 12 bytes of an SOT segment are the two items SOT and its body.      *)
(*                                                                         *)
(* A stream is described by a record:                                      *)
(*   nt     the number of tiles, numbered 0 .. nt-1 (one row of tiles)     *)
(*   mh     the markers of the main header, after SOC                      *)
(*   parts  its tile-parts, in order: [tile, tp (TPsot), tn (TNsot),       *)
(*          psot0 (Psot is written as 0), ppt (one PPT segment), len]      *)
(*   tlm    the tile-parts listed by the TLM segment, in order             *)
(*   eoc    whether it ends with an EOC marker                             *)
(*   seek   whether the client's stream can seek                           *)
(*   cut    the number of items missing at the end of the file             *)
(***************************************************************************)
EXTENDS Integers, FiniteSets, Sequences, SequencesExt, Functions

\* "UNK" stands for every marker the decoder does not take there
HeadMarkers == {"SIZ", "COD", "QCD", "TLM", "COM", "UNK"}

StreamOK(s) ==
    /\ s.nt \in Nat \ {0}
    /\ s.mh \in Seq(HeadMarkers)
    /\ s.parts \in Seq([tile : 0..(s.nt - 1), tp : Nat, tn : Nat, psot0 : BOOLEAN,
                       ppt : BOOLEAN, len : Nat])
    /\ s.tlm \in Seq(DOMAIN s.parts)
    /\ s.eoc \in BOOLEAN /\ s.seek \in BOOLEAN
    /\ s.cut \in Nat

(* The SOT and SOD segments as the encoder writes them.                    *)
PartItems(s, i) ==
    LET p == s.parts[i] IN
        <<<<"SOT", i, 0>>, <<"sot", i, 0>>>>
        \o (IF p.ppt THEN <<<<"PPT", i, 0>>, <<"ppt", i, 0>>>> ELSE <<>>)
        \o <<<<"SOD", i, 0>>>>
        \o [k \in 1..p.len |-> <<"data", i, k>>]

MainHeader(s) ==
    <<<<"SOC", 0, 0>>>>
    \o FlattenSeq([h \in 1..Len(s.mh) |-> <<<<s.mh[h], 0, 0>>, <<"seg", 0, 0>>>>])

Items(s) ==
    LET all == MainHeader(s)
               \o FlattenSeq([i \in 1..Len(s.parts) |-> PartItems(s, i)])
               \o (IF s.eoc THEN <<<<"EOC", 0, 0>>>> ELSE <<>>)
    IN  SubSeq(all, 1, Len(all) - s.cut)

(* The number of items of a tile-part, from its SOT marker to its end.     *)
PartLen(s, i) == Len(PartItems(s, i))

(* Psot as read_sot finds it in the body.                                  *)
Psot(s, i) == IF s.parts[i].psot0 THEN 0 ELSE PartLen(s, i)

(* main_head_end: the position of the first SOT marker.                    *)
MainHeadEnd(s) == Len(MainHeader(s))

(* The position the TLM segment gives its n-th entry: Ptlm, summed up.     *)
TlmPos(s, n) ==
    MainHeadEnd(s) + SumFunctionOnSet([k \in 1..(n - 1) |-> PartLen(s, s.tlm[k])], 1..(n - 1))

(* What the file holds of the data of tile-part i.                         *)
PartData(s, i) ==
    LET all  == Items(s)
        held == {n \in DOMAIN all : all[n][1] = "data" /\ all[n][2] = i}
    IN  [k \in 1..Cardinality(held) |-> <<"data", i, k>>]

(* The tile-parts of tile t, and those with the number n in TPsot.         *)
PartsOf(s, t)     == {i \in DOMAIN s.parts : s.parts[i].tile = t}
Numbered(s, t, n) == {i \in PartsOf(s, t) : s.parts[i].tp = n}

(* All the file holds of tile t, in the order its tile-parts are numbered. *)
TileData(s, t) ==
    LET top == Max({0} \cup {s.parts[i].tp + 1 : i \in PartsOf(s, t)})
    IN  FlattenSeq([n \in 1..top |-> IF Numbered(s, t, n - 1) = {} THEN <<>>
                                     ELSE PartData(s, CHOOSE i \in Numbered(s, t, n - 1) : TRUE)])
=============================================================================
