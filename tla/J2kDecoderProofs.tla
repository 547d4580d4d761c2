-------------------------- MODULE J2kDecoderProofs --------------------------
(***************************************************************************)
(* Four results about the decoder, for any number of calls.  The first     *)
(* three are about every file, conforming or not, cut anywhere.            *)
(*   DecodedBeforeFreed  packet data leave the decoder only once they were *)
(*     decoded.  Between the decoding of a tile and the release of its     *)
(*     data lies a step that may read EOC and reset the current tile       *)
(*     number; the argument is that the number kept in the loop's own      *)
(*     variable still names what was decoded.                              *)
(*   TypeCorrect  the stream position never leaves the file, whatever a    *)
(*     TLM segment, Psot or a cut file makes the code seek to, the current *)
(*     tile exists or is one past the last, and no tile-part position is   *)
(*     counted on that has no array to stand in.                           *)
(*   OwnDataOnly  what is collected for a tile is packet data of that      *)
(*     tile.  It rests on where the tile-parts stand in a file (Laid) and  *)
(*     on where the decoder stands in one (OnTrack).                       *)
(*   DataCollectedInOrder  it is all the data of its first tile-parts, in  *)
(*     order.  The invariant says of every place of the code whether a     *)
(*     tile is decided (Ready), which tiles were decoded (Counting), which *)
(*     have the data they should have (Trusted), which may have missed a   *)
(*     tile-part (Slack), and what is planned from a TLM segment (Planned, *)
(*     Indexed).                                                           *)
(***************************************************************************)
EXTENDS J2kDecoder, FoldTheorems, SequenceTheorems, TLAPS

\* what is read in one go: its kind, the tile-part it belongs to, its number there
ItemKinds == HeadMarkers \cup {"SOC", "seg", "SOT", "sot", "PPT", "ppt", "SOD", "data", "EOC"}
Item == ItemKinds \X Nat \X Nat

\* the stream stands at an item or at its end, and lengths are numbers
Placed == /\ str \in Streams
          /\ items = Items(str)
          /\ pos \in Nat
          /\ "sotLen" \in DOMAIN dec /\ dec.sotLen \in Nat

\* one structure per tile, with packet data, and one image
Shaped == /\ tcp = [t \in Tiles |-> tcp[t]]
          /\ \A t \in Tiles : "data" \in DOMAIN tcp[t] /\ tcp[t].data \in Seq(Item)
          /\ out = [t \in Tiles |-> out[t]]
          /\ "tno" \in DOMAIN call

\* l_current_tile_no of the round that decoded a tile names that tile
JustDecoded == pc = "after" => \A t \in Tiles : call.tno = t => out[t] = tcp[t].data

Kept == Shaped /\ JustDecoded
IInv == Placed /\ Kept

\* a step loses data that were not decoded
Dropped == \E t \in Tiles : tcp[t].data # <<>> /\ tcp'[t].data = <<>> /\ out'[t] # tcp[t].data
Freed   == pc' # "refused" => ~Dropped

-----------------------------------------------------------------------------
(* The items of a stream.                                                  *)

\* the body of an SOT segment names its tile-part; a main header holds no tile-part
PartKinds   == {"SOT", "sot", "PPT", "ppt", "SOD", "data"}
PartItem(s) == {x \in Item : x[1] = "sot" => x[2] \in DOMAIN s.parts}
HeadItem(s) == {x \in PartItem(s) : x[1] \notin PartKinds}

LEMMA PartsAre ==
  ASSUME NEW s, StreamOK(s), NEW i \in DOMAIN s.parts
  PROVE  /\ s.parts[i] \in [tile : 0..(s.nt - 1), tp : Nat, tn : Nat, psot0 : BOOLEAN,
                            ppt : BOOLEAN, len : Nat]
         /\ i \in Nat \ {0} /\ DOMAIN s.parts = 1..Len(s.parts) /\ Len(s.parts) \in Nat
<1> DEFINE R == [tile : 0..(s.nt - 1), tp : Nat, tn : Nat, psot0 : BOOLEAN, ppt : BOOLEAN,
                 len : Nat]
<1>1. s.parts \in Seq(R)
  BY DEF StreamOK
<1> HIDE DEF R
<1>2. /\ Len(s.parts) \in Nat /\ DOMAIN s.parts = 1..Len(s.parts)
      /\ \A k \in 1..Len(s.parts) : s.parts[k] \in R
  BY <1>1, LenProperties, ElementOfSeq, Zenon
<1>3. i \in Nat \ {0}
  BY <1>2
<1> QED BY <1>2, <1>3, Zenon DEF R

LEMMA ItemIs ==
  ASSUME NEW s, NEW k \in ItemKinds, NEW i \in Nat, NEW n \in Nat,
         k = "sot" => i \in DOMAIN s.parts
  PROVE  /\ <<k, i, n>> \in PartItem(s)
         /\ k \notin PartKinds => <<k, i, n>> \in HeadItem(s)
<1> DEFINE x == <<k, i, n>>
<1>1. x \in Item /\ x[1] = k /\ x[2] = i
  BY DEF Item
<1> HIDE DEF x
<1>2. x \in PartItem(s) /\ (k \notin PartKinds => x \in HeadItem(s))
  BY <1>1 DEF PartItem, HeadItem
<1> QED BY <1>2 DEF x

\* A tile-part as the encoder writes it: at least SOT, its body and SOD.
LEMMA PartItemsAre ==
  ASSUME NEW s, StreamOK(s), NEW i \in DOMAIN s.parts
  PROVE  PartItems(s, i) \in Seq(PartItem(s)) /\ PartLen(s, i) \in Nat /\ PartLen(s, i) >= 3
<1> DEFINE Mine == PartItem(s)
           a == <<<<"SOT", i, 0>>, <<"sot", i, 0>>>>
           b == IF s.parts[i].ppt THEN <<<<"PPT", i, 0>>, <<"ppt", i, 0>>>> ELSE <<>>
           c == <<<<"SOD", i, 0>>>>
           d == [k \in 1..s.parts[i].len |-> <<"data", i, k>>]
<1>0. i \in Nat /\ s.parts[i].len \in Nat
  BY PartsAre
<1>1. /\ a \in Seq(Mine) /\ b \in Seq(Mine) /\ c \in Seq(Mine) /\ d \in Seq(Mine)
      /\ Len(a) = 2 /\ Len(c) = 1
  <2>0. /\ \A x \in {"SOT", "sot", "PPT", "ppt", "SOD"} : <<x, i, 0>> \in Mine
        /\ \A k \in 1..s.parts[i].len : <<"data", i, k>> \in Mine
    <3>1. \A x \in {"SOT", "sot", "PPT", "ppt", "SOD", "data"} : x \in ItemKinds
      BY DEF ItemKinds
    <3>2. 0 \in Nat /\ "data" # "sot" /\ \A k \in 1..s.parts[i].len : k \in Nat
      BY <1>0
    <3> QED BY <1>0, <3>1, <3>2, ItemIs, Zenon
  <2> HIDE DEF Mine
  <2>1. \A x, y \in Mine : /\ <<x, y>> \in Seq(Mine) /\ <<x>> \in Seq(Mine)
                            /\ Len(<<x, y>>) = 2 /\ Len(<<x>>) = 1
    OBVIOUS
  <2>2. <<>> \in Seq(Mine)
    OBVIOUS
  <2>3. d \in Seq(Mine)
    <3>1. d \in [1..s.parts[i].len -> Mine]
      BY <2>0
    <3> QED BY <1>0, <3>1
  <2> QED BY <2>0, <2>1, <2>2, <2>3
<1>2. PartItems(s, i) = a \o b \o c \o d
  BY DEF PartItems
<1> HIDE DEF Mine, a, b, c, d
<1>3. Len(a \o b \o c \o d) = Len(a) + Len(b) + Len(c) + Len(d)
  <2>1. a \o b \in Seq(Mine) /\ Len(a \o b) = Len(a) + Len(b)
    BY <1>1, ConcatProperties, Zenon
  <2> DEFINE ab == a \o b
  <2> HIDE DEF ab
  <2>2. ab \o c \in Seq(Mine) /\ Len(ab \o c) = Len(ab) + Len(c)
    BY <1>1, <2>1, ConcatProperties, Zenon DEF ab
  <2> DEFINE abc == ab \o c
  <2> HIDE DEF abc
  <2>3. Len(abc \o d) = Len(abc) + Len(d)
    BY <1>1, <2>2, ConcatProperties, Zenon DEF abc
  <2> QED BY <2>1, <2>2, <2>3 DEF ab, abc
<1>4. Len(b) \in Nat /\ Len(d) \in Nat
  BY <1>1
<1>5. a \o b \o c \o d \in Seq(Mine)
  BY <1>1, ConcatProperties, Zenon
<1> QED BY <1>1, <1>2, <1>3, <1>4, <1>5 DEF PartLen, Mine

LEMMA MainHeaderIs ==
  ASSUME NEW s, StreamOK(s)
  PROVE  MainHeader(s) \in Seq(HeadItem(s)) /\ MainHeadEnd(s) \in Nat \ {0}
<1> DEFINE segs == [h \in 1..Len(s.mh) |-> <<<<s.mh[h], 0, 0>>, <<"seg", 0, 0>>>>]
           first == <<<<"SOC", 0, 0>>>>
           H == HeadItem(s)
<1>1. first \in Seq(H) /\ Len(first) = 1
  <2>1. <<"SOC", 0, 0>> \in H
    <3>1. 0 \in Nat /\ "SOC" # "sot" /\ "SOC" \notin PartKinds
      BY DEF PartKinds
    <3>2. "SOC" \in ItemKinds
      BY DEF ItemKinds
    <3> QED BY <3>1, <3>2, ItemIs, Zenon
  <2> HIDE DEF H
  <2> QED BY <2>1
<1>2. segs \in Seq(Seq(H))
  <2>1. Len(s.mh) \in Nat /\ \A h \in 1..Len(s.mh) : s.mh[h] \in HeadMarkers
    BY LenProperties, ElementOfSeq, Zenon DEF StreamOK
  <2>2. \A h \in 1..Len(s.mh) : <<s.mh[h], 0, 0>> \in H /\ <<"seg", 0, 0>> \in H
    <3>1. /\ 0 \in Nat /\ "seg" # "sot" /\ "seg" \notin PartKinds
          /\ \A h \in 1..Len(s.mh) : s.mh[h] \in ItemKinds /\ s.mh[h] # "sot" /\ s.mh[h] \notin PartKinds
      BY <2>1 DEF HeadMarkers, ItemKinds, PartKinds
    <3>2. "seg" \in ItemKinds
      BY DEF ItemKinds
    <3> QED BY <3>1, <3>2, ItemIs, Zenon
  <2> HIDE DEF H
  <2>3. \A h \in 1..Len(s.mh) : segs[h] \in Seq(H)
    BY <2>2
  <2> HIDE DEF segs
  <2>4. DOMAIN segs = 1..Len(s.mh) /\ segs = [h \in 1..Len(s.mh) |-> segs[h]]
    BY DEF segs
  <2>5. segs \in [1..Len(s.mh) -> Seq(H)]
    BY <2>3, <2>4
  <2> QED BY <2>1, <2>5, SeqDef
<1> HIDE DEF segs, first, H
<1>3. FlattenSeq(segs) \in Seq(H)
  BY <1>2, FlattenIn
<1>4. /\ first \o FlattenSeq(segs) \in Seq(H)
      /\ Len(first \o FlattenSeq(segs)) = Len(first) + Len(FlattenSeq(segs))
      /\ Len(FlattenSeq(segs)) \in Nat
  BY <1>1, <1>3, ConcatProperties, LenProperties, Zenon
<1>5. MainHeader(s) = first \o FlattenSeq(segs)
  BY DEF MainHeader, first, segs
<1> QED BY <1>1, <1>4, <1>5 DEF MainHeadEnd, H

\* The items of a file; none of the main header's is an SOT marker.
LEMMA ItemsAre ==
  ASSUME NEW s, StreamOK(s)
  PROVE  /\ Items(s) \in Seq(PartItem(s))
         /\ \A k \in 1..Len(Items(s)) : Items(s)[k][1] = "SOT" => k > MainHeadEnd(s)
<1> DEFINE P == PartItem(s)
           head == MainHeader(s)
           parts == [i \in 1..Len(s.parts) |-> PartItems(s, i)]
           last == IF s.eoc THEN <<<<"EOC", 0, 0>>>> ELSE <<>>
           body == head \o FlattenSeq(parts)
           all == body \o last
<1>1. head \in Seq(P)
  <2>1. HeadItem(s) \subseteq P
    BY DEF HeadItem
  <2> QED BY <2>1, MainHeaderIs, SeqMonotonic, Zenon
<1>2. FlattenSeq(parts) \in Seq(P)
  <2>1. Len(s.parts) \in Nat /\ DOMAIN s.parts = 1..Len(s.parts)
    BY LenProperties, Zenon DEF StreamOK
  <2>2. \A i \in 1..Len(s.parts) : parts[i] \in Seq(P)
    BY <2>1, PartItemsAre
  <2> HIDE DEF P
  <2>3. parts \in [1..Len(s.parts) -> Seq(P)]
    BY <2>2 DEF parts
  <2>4. parts \in Seq(Seq(P))
    BY <2>1, <2>3, SeqDef
  <2> QED BY <2>4, FlattenIn
<1>3. last \in Seq(P)
  <2>1. <<"EOC", 0, 0>> \in P
    <3>1. 0 \in Nat /\ "EOC" # "sot"
      OBVIOUS
    <3>2. "EOC" \in ItemKinds
      BY DEF ItemKinds
    <3> QED BY <3>1, <3>2, ItemIs, Zenon
  <2> HIDE DEF P
  <2> QED BY <2>1
<1> HIDE DEF P, parts, last
<1>4. body \in Seq(P) /\ all \in Seq(P) /\ Len(head) \in Nat /\ Len(all) \in Nat
  <2>1. body \in Seq(P)
    BY <1>1, <1>2, ConcatProperties
  <2> HIDE DEF body
  <2> QED BY <1>1, <1>3, <2>1, ConcatProperties, LenProperties
<1>5. \A k \in 1..Len(all) : k <= Len(head) => all[k] = head[k]
  <2> SUFFICES ASSUME NEW k \in 1..Len(all), k <= Len(head) PROVE all[k] = head[k]
    OBVIOUS
  <2>1. /\ Len(body) = Len(head) + Len(FlattenSeq(parts)) /\ Len(FlattenSeq(parts)) \in Nat
        /\ \A i \in 1..(Len(head) + Len(FlattenSeq(parts))) : i <= Len(head) => body[i] = head[i]
    BY <1>1, <1>2, ConcatProperties, LenProperties
  <2>2. k \in 1..Len(body) /\ k \in 1..(Len(head) + Len(FlattenSeq(parts)))
    BY <1>4, <2>1
  <2>3. body[k] = head[k]
    BY <2>1, <2>2
  <2> HIDE DEF body
  <2>4. all[k] = body[k]
    <3>1. \A i \in 1..(Len(body) + Len(last)) : i <= Len(body) => all[i] = body[i]
      BY <1>3, <1>4, ConcatProperties
    <3>2. Len(all) = Len(body) + Len(last)
      BY <1>3, <1>4, ConcatProperties
    <3> HIDE DEF all
    <3> QED BY <2>2, <3>1, <3>2
  <2> QED BY <2>3, <2>4
<1>6. Items(s) = SubSeq(all, 1, Len(all) - s.cut)
  BY DEF Items, parts, last
<1> HIDE DEF all
<1>7. s.cut \in Nat
  BY DEF StreamOK
<1>8. /\ Items(s) \in Seq(P)
      /\ Len(Items(s)) \in 0..Len(all)
      /\ \A k \in 1..Len(Items(s)) : Items(s)[k] = all[k]
  <2> DEFINE n == Len(all) - s.cut
  <2>1. n \in Int /\ n <= Len(all) /\ \A k \in 1..n : all[k] \in P
    BY <1>4, <1>7
  <2> HIDE DEF n
  <2>2. /\ SubSeq(all, 1, n) \in Seq(P)
        /\ Len(SubSeq(all, 1, n)) = IF 1 <= n THEN n - 1 + 1 ELSE 0
        /\ \A k \in 1..(n - 1 + 1) : SubSeq(all, 1, n)[k] = all[1 + k - 1]
    BY <2>1, SubSeqProperties
  <2>3. Items(s) = SubSeq(all, 1, n)
    BY <1>6 DEF n
  <2> QED BY <1>4, <2>1, <2>2, <2>3
<1>9. \A k \in 1..Len(head) : head[k][1] # "SOT"
  <2>1. \A k \in 1..Len(head) : head[k] \in HeadItem(s)
    BY MainHeaderIs, ElementOfSeq
  <2> QED BY <2>1 DEF HeadItem, PartKinds
<1>10. \A k \in 1..Len(Items(s)) : Items(s)[k][1] = "SOT" => k > Len(head)
  <2> SUFFICES ASSUME NEW k \in 1..Len(Items(s)), k <= Len(head), Items(s)[k][1] = "SOT"
               PROVE FALSE
    BY <1>4, <1>8
  <2>1. k \in 1..Len(all) /\ k \in 1..Len(head)
    BY <1>4, <1>8
  <2>2. Items(s)[k] = head[k]
    BY <1>5, <1>8, <2>1
  <2> QED BY <1>9, <2>1, <2>2
<1> QED BY <1>8, <1>10 DEF P, MainHeadEnd

-----------------------------------------------------------------------------
\* the structures of the tiles, with the data they have
SameData(g) == /\ g = [t \in Tiles |-> g[t]]
               /\ \A t \in Tiles : "data" \in DOMAIN g[t] /\ g[t].data = tcp[t].data

LEMMA FieldsChange ==
  ASSUME Shaped, NEW p, NEW v, NEW w
  PROVE  /\ SameData([tcp EXCEPT ![p].tpno = v, ![p].nb = w])
         /\ SameData([tcp EXCEPT ![p].ppt = v])
         /\ SameData([tcp EXCEPT ![p].merged = v])
  BY DEF Shaped, SameData

LEMMA DataChange ==
  ASSUME Shaped, NEW p, NEW v
  PROVE  LET g == [tcp EXCEPT ![p].data = v]
         IN  /\ g = [t \in Tiles |-> g[t]]
             /\ \A t \in Tiles : /\ "data" \in DOMAIN g[t]
                                 /\ g[t].data = IF t = p THEN v ELSE tcp[t].data
  BY DEF Shaped

LEMMA FreedData ==
  ASSUME Shaped, NEW p, NEW free \in BOOLEAN
  PROVE  LET g == TileFreed(p, free)
         IN  /\ g = [t \in Tiles |-> g[t]]
             /\ \A t \in Tiles : /\ "data" \in DOMAIN g[t]
                                 /\ g[t].data = IF t = p /\ free THEN <<>> ELSE tcp[t].data
  BY DEF Shaped, TileFreed

\* A step that leaves the data and the images alone, and is not one that decodes.
LEMMA Quiet ==
  ASSUME Kept, UNCHANGED <<tcp, str, items, out>>, "tno" \in DOMAIN call', pc' # "after"
  PROVE  Kept' /\ Freed
  BY DEF Kept, Shaped, JustDecoded, Freed, Dropped, Tiles

LEMMA FailQuiet ==
  ASSUME Kept, Fail
  PROVE  Kept' /\ Freed
<1>1. UNCHANGED <<tcp, str, items, out>> /\ "tno" \in DOMAIN call' /\ pc' # "after"
  BY DEF Fail, Kept, Shaped
<1> QED BY <1>1, Quiet

LEMMA HeaderQuiet ==
  ASSUME Kept, ReadHeader
  PROVE  Kept' /\ Freed
<1>1. Fail \/ (UNCHANGED <<tcp, str, items, out, call>> /\ pc' # "after")
  BY DEF ReadHeader, ReadSoc, ReadMainMarker, MainHeaderDone
<1> QED BY <1>1, FailQuiet, Quiet DEF Kept, Shaped

LEMMA Calling ==
  ASSUME Kept, NEW area, NEW whole, NewCall(area, whole), UNCHANGED <<tcp, str, items>>,
         pc' # "after"
  PROVE  Kept' /\ Freed
<1>1. "tno" \in DOMAIN call' /\ out' = [t \in Tiles |-> out'[t]]
  BY DEF NewCall, Kept, Shaped
<1> QED BY <1>1 DEF Kept, Shaped, JustDecoded, Freed, Dropped, Tiles

LEMMA ClientQuiet ==
  ASSUME Kept, Client
  PROVE  Kept' /\ Freed
<1>1. CASE SetAreaAndDecode
  <2>1. \/ UNCHANGED <<tcp, str, items, out, call>> /\ pc' # "after"
        \/ \E area, whole : NewCall(area, whole) /\ UNCHANGED <<tcp, str, items>> /\ pc' # "after"
    BY <1>1 DEF SetAreaAndDecode
  <2> QED BY <2>1, Calling, Quiet DEF Kept, Shaped
<1>2. CASE GetTile
  <2>1. \/ Fail
        \/ \E area, whole : NewCall(area, whole) /\ UNCHANGED <<tcp, str, items>> /\ pc' # "after"
        \/ \E t \in Tiles : /\ NewCall({t}, TRUE) /\ UNCHANGED <<str, items>> /\ pc' = "enter"
                            /\ tcp' = [u \in Tiles |-> [tcp[u] EXCEPT !.tpno = -1]]
    BY <1>2 DEF GetTile
  <2>2. CASE \E t \in Tiles : /\ NewCall({t}, TRUE) /\ UNCHANGED <<str, items>> /\ pc' = "enter"
                              /\ tcp' = [u \in Tiles |-> [tcp[u] EXCEPT !.tpno = -1]]
    <3>1. "tno" \in DOMAIN call' /\ out' = [t \in Tiles |-> out'[t]]
      BY <2>2 DEF NewCall, Kept, Shaped
    <3>2. \A t \in Tiles : "data" \in DOMAIN tcp'[t] /\ tcp'[t].data = tcp[t].data
      BY <2>2 DEF Kept, Shaped
    <3>3. tcp' = [t \in Tiles |-> tcp'[t]] /\ Tiles' = Tiles
      BY <2>2 DEF Tiles
    <3> QED BY <2>2, <3>1, <3>2, <3>3 DEF Kept, Shaped, JustDecoded, Freed, Dropped
  <2> QED BY <2>1, <2>2, FailQuiet, Calling
<1>3. CASE ReadTileHeader
  <2>1. \E area, whole : NewCall(area, whole) /\ UNCHANGED <<tcp, str, items>> /\ pc' # "after"
    BY <1>3 DEF ReadTileHeader
  <2> QED BY <2>1, Calling
<1>4. CASE DecodeTileData
  BY <1>4, Quiet DEF DecodeTileData, Kept, Shaped
<1> QED BY <1>1, <1>2, <1>3, <1>4 DEF Client

-----------------------------------------------------------------------------
\* Joining packet data to what is there cannot leave nothing.
LEMMA JoinedData ==
  ASSUME NEW a \in Seq(Item), NEW b \in Seq(Item), a # <<>>
  PROVE  a \o b # <<>>
<1>1. Len(a) > 0
  OBVIOUS
<1> QED BY <1>1

\* A step that changes structures of tiles, not their data, and decodes nothing.
LEMMA FieldQuiet ==
  ASSUME Kept, UNCHANGED <<str, items, out>>, "tno" \in DOMAIN call', pc' # "after",
         SameData(tcp')
  PROVE  Kept' /\ Freed
  BY Zenon DEF Kept, Shaped, JustDecoded, Freed, Dropped, Tiles, SameData

LEMMA ReadSotQuiet ==
  ASSUME Kept, ReadSot
  PROVE  Kept' /\ Freed
<1> DEFINE i  == items[pos + 1][2]
           p  == str.parts[i]
           n  == IF p.tn = 0 THEN 0 ELSE p.tn + dec.corr
           nb == IF n # 0 THEN n ELSE tcp[p.tile].nb
<1>1. \/ Fail
      \/ /\ tcp' = [tcp EXCEPT ![p.tile].tpno = p.tp, ![p.tile].nb = nb]
         /\ UNCHANGED <<str, items, pc, call, out>> /\ pc = "segment"
  BY Zenon DEF ReadSot
<1> HIDE DEF p, nb
<1>2. CASE /\ tcp' = [tcp EXCEPT ![p.tile].tpno = p.tp, ![p.tile].nb = nb]
           /\ UNCHANGED <<str, items, pc, call, out>> /\ pc = "segment"
  <2>1. "tno" \in DOMAIN call' /\ pc' # "after"
    BY <1>2 DEF Kept, Shaped
  <2>2. SameData(tcp')
    BY <1>2, FieldsChange DEF Kept
  <2> QED BY <1>2, <2>1, <2>2, FieldQuiet
<1> QED BY <1>1, <1>2, FailQuiet

LEMMA ReadTilePartMarkerQuiet ==
  ASSUME Kept, ReadTilePartMarker
  PROVE  Kept' /\ Freed
<1>1. \/ Fail
      \/ /\ tcp' = [tcp EXCEPT ![dec.cur].ppt = TRUE]
         /\ UNCHANGED <<str, items, pc, call, out>> /\ pc = "segment"
  BY DEF ReadTilePartMarker
<1>2. CASE /\ tcp' = [tcp EXCEPT ![dec.cur].ppt = TRUE]
           /\ UNCHANGED <<str, items, pc, call, out>> /\ pc = "segment"
  <2>1. "tno" \in DOMAIN call' /\ pc' # "after"
    BY <1>2 DEF Kept, Shaped
  <2>2. SameData(tcp')
    BY <1>2, FieldsChange DEF Kept
  <2> QED BY <1>2, <2>1, <2>2, FieldQuiet
<1> QED BY <1>1, <1>2, FailQuiet

LEMMA ItemsAreItems ==
  ASSUME Placed
  PROVE  items \in Seq(Item) /\ Len(items) \in Nat
<1>1. items \in Seq(PartItem(str))
  BY StreamsAssumption, ItemsAre DEF Placed
<1> QED BY <1>1 DEF PartItem

LEMMA SubSeqOf ==
  ASSUME NEW S, NEW s \in Seq(S), NEW m \in Nat \ {0}, NEW n \in Int, n <= Len(s)
  PROVE  SubSeq(s, m, n) \in Seq(S)
<1>1. CASE n < m
  <2>1. SubSeq(s, m, n) = << >>
    BY <1>1
  <2> QED BY <2>1
<1>2. CASE n >= m
  BY <1>2, SubSeqProperties
<1> QED BY <1>1, <1>2

LEMMA ReadSodQuiet ==
  ASSUME Placed, Kept, ReadSod
  PROVE  Kept' /\ Freed
<1> DEFINE len == IF dec.lastPart THEN Left - 1
                  ELSE IF dec.sotLen = 0 THEN 0 ELSE dec.sotLen - 1
           got == IF len < Left THEN len ELSE Left
           more == SubSeq(items, pos + 1, pos + got)
<1>1. \/ Fail
      \/ /\ tcp' = [tcp EXCEPT ![dec.cur].data = @ \o more]
         /\ UNCHANGED <<str, items, call, out>> /\ pc' = "read"
  BY DEF ReadSod
<1>2. CASE /\ tcp' = [tcp EXCEPT ![dec.cur].data = @ \o more]
           /\ UNCHANGED <<str, items, call, out>> /\ pc' = "read"
  <2>1. more \in Seq(Item)
    <3>1. Left \in Int /\ Left = Len(items) - pos /\ pos \in Nat /\ dec.sotLen \in Nat
      BY ItemsAreItems DEF Left, Placed
    <3>2. len \in Int
      BY <3>1
    <3>3. got \in Int /\ pos + got <= Len(items)
      BY <3>1, <3>2
    <3> HIDE DEF got
    <3> QED BY <3>1, <3>3, ItemsAreItems, SubSeqOf
  <2> HIDE DEF more
  <2>2. CASE dec.cur \notin Tiles
    <3>1. tcp' = tcp
      BY <1>2, <2>2 DEF Kept, Shaped
    <3> QED BY <1>2, <3>1, Quiet DEF Kept, Shaped
  <2>3. CASE dec.cur \in Tiles
    <3> DEFINE had == tcp[dec.cur].data
               v == had \o more
    <3>1. had \in Seq(Item) /\ v \in Seq(Item) /\ (had # <<>> => v # <<>>)
      BY <2>1, <2>3, JoinedData DEF Kept, Shaped
    <3>2. tcp' = [tcp EXCEPT ![dec.cur].data = v]
      BY <1>2
    <3> HIDE DEF v
    <3>3. /\ tcp' = [t \in Tiles |-> tcp'[t]]
          /\ \A t \in Tiles : /\ "data" \in DOMAIN tcp'[t]
                              /\ tcp'[t].data = IF t = dec.cur THEN v ELSE tcp[t].data
      BY <3>2, DataChange DEF Kept
    <3>4. \A t \in Tiles : /\ "data" \in DOMAIN tcp'[t] /\ tcp'[t].data \in Seq(Item)
                           /\ tcp[t].data # <<>> /\ tcp'[t].data = <<>> => out[t] = tcp[t].data
      BY <3>1, <3>3 DEF Kept, Shaped
    <3>5. "tno" \in DOMAIN call'
      BY <1>2 DEF Kept, Shaped
    <3>6. UNCHANGED <<str, items, out>> /\ pc' # "after"
      BY <1>2
    <3>7. Tiles' = Tiles
      BY <3>6 DEF Tiles
    <3>8. Shaped'
      BY <3>3, <3>4, <3>5, <3>6, <3>7 DEF Kept, Shaped
    <3>9. ~Dropped
      BY <3>4, <3>6 DEF Dropped
    <3> QED BY <3>6, <3>8, <3>9 DEF Kept, JustDecoded, Freed
  <2> QED BY <2>2, <2>3
<1> QED BY <1>1, <1>2, FailQuiet

LEMMA CheckCorrectionQuiet ==
  ASSUME Kept, CheckCorrection
  PROVE  Kept' /\ Freed
<1>1. \/ Fail
      \/ /\ \E v : tcp' = [t \in Tiles |-> [tcp[t] EXCEPT !.nb = v[t]]]
         /\ UNCHANGED <<str, items, call, out>> /\ pc' = "next"
  <2> DEFINE due == dec.canDecode /\ ~dec.corrChecked
             answer == IF due /\ tcp[dec.cur].nb # 1 THEN Correction(dec.cur) ELSE "no"
             v == [t \in Tiles |-> IF answer = "yes" /\ tcp[t].nb # 0
                                   THEN tcp[t].nb + 1 ELSE tcp[t].nb]
  <2>1. \/ Fail
        \/ /\ tcp' = [t \in Tiles |-> [tcp[t] EXCEPT !.nb =
                         IF answer = "yes" /\ @ # 0 THEN @ + 1 ELSE @]]
           /\ UNCHANGED <<str, items, call, out>> /\ pc' = "next"
    BY DEF CheckCorrection
  <2>2. CASE /\ tcp' = [t \in Tiles |-> [tcp[t] EXCEPT !.nb =
                           IF answer = "yes" /\ @ # 0 THEN @ + 1 ELSE @]]
             /\ UNCHANGED <<str, items, call, out>> /\ pc' = "next"
    <3>1. tcp' = [t \in Tiles |-> [tcp[t] EXCEPT !.nb = v[t]]]
      BY <2>2, Zenon
    <3> QED BY <2>2, <3>1
  <2> QED BY <2>1, <2>2
<1>2. CASE /\ \E v : tcp' = [t \in Tiles |-> [tcp[t] EXCEPT !.nb = v[t]]]
           /\ UNCHANGED <<str, items, call, out>> /\ pc' = "next"
  <2>1. SameData(tcp')
    BY <1>2 DEF Kept, Shaped, SameData
  <2> QED BY <1>2, <2>1, FieldQuiet DEF Kept, Shaped
<1> QED BY <1>1, <1>2, FailQuiet

LEMMA ChooseTileQuiet ==
  ASSUME Kept, ChooseTile
  PROVE  Kept' /\ Freed
<1> DEFINE ended == marker = "EOC" /\ dec.state # "EOC"
           from  == IF ended THEN 0 ELSE dec.cur
           cand  == IF dec.canDecode THEN {from}
                    ELSE {t \in Tiles : t >= from /\ tcp[t].data # <<>>}
           u     == CHOOSE c \in cand : \A v \in cand : c <= v
<1>1. \/ Fail
      \/ /\ UNCHANGED <<tcp, str, items, out>> /\ pc' # "after"
         /\ call' = [call EXCEPT !.more = IF call.kind = "header" THEN FALSE ELSE @]
      \/ /\ tcp' = [tcp EXCEPT ![u].merged = tcp[u].ppt]
         /\ UNCHANGED <<str, items, out>> /\ pc' # "after"
         /\ call' = [call EXCEPT !.tno = u]
  BY DEF ChooseTile
<1> HIDE DEF u
<1>2. CASE /\ UNCHANGED <<tcp, str, items, out>> /\ pc' # "after"
           /\ call' = [call EXCEPT !.more = IF call.kind = "header" THEN FALSE ELSE @]
  <2>1. "tno" \in DOMAIN call'
    BY <1>2 DEF Kept, Shaped
  <2> QED BY <1>2, <2>1, Quiet
<1>3. CASE /\ tcp' = [tcp EXCEPT ![u].merged = tcp[u].ppt]
           /\ UNCHANGED <<str, items, out>> /\ pc' # "after"
           /\ call' = [call EXCEPT !.tno = u]
  <2>1. "tno" \in DOMAIN call'
    BY <1>3 DEF Kept, Shaped
  <2>2. SameData(tcp')
    BY <1>3, FieldsChange DEF Kept
  <2> QED BY <1>3, <2>1, <2>2, FieldQuiet
<1> QED BY <1>1, <1>2, <1>3, FailQuiet

-----------------------------------------------------------------------------
\* The steps that give packet data back.
LEMMA DecodeTileFrees ==
  ASSUME Kept, DecodeTile
  PROVE  Kept' /\ Freed
<1> DEFINE header == call.kind = "header"
<1>1. /\ pc' = IF header THEN "idle" ELSE "after"
      /\ tcp' = TileFreed(dec.cur, header)
      /\ out' = [out EXCEPT ![dec.cur] = tcp[dec.cur].data]
      /\ call' = [call EXCEPT !.tno = dec.cur]
      /\ UNCHANGED <<str, items>>
  BY DEF DecodeTile
<1> HIDE DEF header
<1>2. /\ tcp' = [t \in Tiles |-> tcp'[t]]
      /\ \A t \in Tiles : /\ "data" \in DOMAIN tcp'[t]
                          /\ tcp'[t].data = IF t = dec.cur /\ header THEN <<>> ELSE tcp[t].data
  BY <1>1, FreedData DEF Kept, header
<1>3. /\ out' = [t \in Tiles |-> out'[t]]
      /\ dec.cur \in Tiles => out'[dec.cur] = tcp[dec.cur].data
  BY <1>1 DEF Kept, Shaped
<1>4. "tno" \in DOMAIN call' /\ call'.tno = dec.cur
  BY <1>1 DEF Kept, Shaped
<1>5. Tiles' = Tiles
  BY <1>1 DEF Tiles
<1>6. Shaped'
  <2>1. ASSUME NEW t \in Tiles PROVE tcp'[t].data \in Seq(Item)
    <3>1. tcp[t].data \in Seq(Item) /\ <<>> \in Seq(Item)
      BY DEF Kept, Shaped
    <3>2. tcp'[t].data = <<>> \/ tcp'[t].data = tcp[t].data
      BY <1>2
    <3> QED BY <3>1, <3>2
  <2> QED BY <1>2, <1>3, <1>4, <1>5, <2>1 DEF Shaped
<1>7. JustDecoded'
  <2>1. pc' = "after" => ~header
    BY <1>1
  <2> QED BY <1>2, <1>3, <1>4, <1>5, <2>1 DEF JustDecoded
<1>8. ~Dropped
  BY <1>2, <1>3 DEF Dropped
<1> QED BY <1>6, <1>7, <1>8 DEF Kept, Freed

\* Data of the tile decoded in this round, or of any tile when decoding failed.
LEMMA ReleaseFrees ==
  ASSUME Kept, NEW free \in BOOLEAN, NEW no,
         tcp' = TileFreed(no, free), UNCHANGED <<str, items, out>>, "tno" \in DOMAIN call',
         pc' # "after", pc' = "refused" \/ (pc = "after" /\ no = call.tno)
  PROVE  Kept' /\ Freed
<1>1. /\ tcp' = [t \in Tiles |-> tcp'[t]]
      /\ \A t \in Tiles : /\ "data" \in DOMAIN tcp'[t]
                          /\ tcp'[t].data = IF t = no /\ free THEN <<>> ELSE tcp[t].data
  BY FreedData DEF Kept
<1>2. Tiles' = Tiles
  BY DEF Tiles
<1>3. Shaped'
  <2>1. ASSUME NEW t \in Tiles PROVE tcp'[t].data \in Seq(Item)
    <3>1. tcp[t].data \in Seq(Item) /\ <<>> \in Seq(Item)
      BY DEF Kept, Shaped
    <3>2. tcp'[t].data = <<>> \/ tcp'[t].data = tcp[t].data
      BY <1>1
    <3> QED BY <3>1, <3>2
  <2>2. out' = [t \in Tiles |-> out'[t]]
    BY DEF Kept, Shaped
  <2> QED BY <1>1, <1>2, <2>1, <2>2 DEF Shaped
<1>4. pc' # "refused" => ~Dropped
  <2> SUFFICES ASSUME pc' # "refused", NEW t \in Tiles, tcp[t].data # <<>>, tcp'[t].data = <<>>
               PROVE  out'[t] = tcp[t].data
    BY DEF Dropped
  <2>1. t = call.tno /\ pc = "after" /\ out' = out
    BY <1>1
  <2> QED BY <2>1 DEF Kept, JustDecoded
<1> QED BY <1>3, <1>4 DEF Kept, JustDecoded, Freed

LEMMA TileStepFrees ==
  ASSUME Kept, TileStep
  PROVE  Kept' /\ Freed
<1>1. CASE DecodeTileFails
  BY <1>1, FailQuiet DEF DecodeTileFails
<1>2. CASE TileRefused
  <2>1. /\ tcp' = TileFreed(dec.cur, TRUE) /\ pc' = "refused"
        /\ UNCHANGED <<str, items, call, out>>
    BY <1>2 DEF TileRefused
  <2>2. "tno" \in DOMAIN call'
    BY <2>1 DEF Kept, Shaped
  <2> QED BY <2>1, <2>2, ReleaseFrees
<1>3. CASE AfterDecode
  <2>1. /\ tcp' = TileFreed(call.tno, str.nt # 1) /\ pc = "after" /\ pc' # "after"
        /\ UNCHANGED <<str, items, out>> /\ call' = [call EXCEPT !.nr = @ + 1]
    <3> DEFINE single == str.nt = 1 /\ call.whole
               planned == dec.inter # <<>> /\ dec.interIdx = Len(dec.inter)
               ended == Left = 0 /\ dec.state = "NEOC"
    <3>1. pc' = IF single \/ ended \/ planned \/ call.nr + 1 = str.nt THEN "finish" ELSE "enter"
      BY <1>3 DEF AfterDecode
    <3>2. /\ tcp' = TileFreed(call.tno, str.nt # 1) /\ pc = "after"
          /\ UNCHANGED <<str, items, out>> /\ call' = [call EXCEPT !.nr = @ + 1]
      BY <1>3, Zenon DEF AfterDecode
    <3> HIDE DEF single, planned, ended
    <3> QED BY <3>1, <3>2
  <2>2. "tno" \in DOMAIN call'
    BY <2>1 DEF Kept, Shaped
  <2> QED BY <2>1, <2>2, ReleaseFrees
<1>4. CASE AfterTile
  <2>1. \/ Fail
        \/ /\ tcp' = TileFreed(call.tno, TRUE) /\ pc = "after" /\ pc' # "after"
           /\ UNCHANGED <<str, items, call, out>>
    BY <1>4 DEF AfterTile
  <2>2. CASE /\ tcp' = TileFreed(call.tno, TRUE) /\ pc = "after" /\ pc' # "after"
             /\ UNCHANGED <<str, items, call, out>>
    <3>1. "tno" \in DOMAIN call'
      BY <2>2 DEF Kept, Shaped
    <3> QED BY <2>2, <3>1, ReleaseFrees
  <2> QED BY <2>1, <2>2, FailQuiet
<1>5. CASE Finish
  <2>1. Fail \/ (UNCHANGED <<tcp, str, items, out, call>> /\ pc' # "after")
    BY <1>5 DEF Finish
  <2> QED BY <2>1, FailQuiet, Quiet DEF Kept, Shaped
<1> QED BY <1>1, <1>2, <1>3, <1>4, <1>5, DecodeTileFrees DEF TileStep

LEMMA TilePartStepKeeps ==
  ASSUME Placed, Kept, TilePartStep
  PROVE  Kept' /\ Freed
<1>1. CASE EnterHeader \/ LeaveLoop \/ SeekIntersecting \/ ReadOn \/ EndOfStream
             \/ SkipData \/ JumpByTlm \/ NextMarker
  <2>1. Fail \/ (UNCHANGED <<tcp, str, items, out, call>> /\ pc' # "after")
    BY <1>1 DEF EnterHeader, LeaveLoop, SeekIntersecting, ReadOn, EndOfStream, SkipData,
                JumpByTlm, NextMarker
  <2> QED BY <2>1, FailQuiet, Quiet DEF Kept, Shaped
<1> QED BY <1>1, ReadSotQuiet, ReadTilePartMarkerQuiet, ReadSodQuiet, CheckCorrectionQuiet,
           ChooseTileQuiet DEF TilePartStep

-----------------------------------------------------------------------------
(* Where the stream stands.                                                *)

\* Most steps move the stream by a number of items and leave the length alone.
LEMMA Moved ==
  ASSUME Placed, UNCHANGED <<str, items>>, pos' \in Nat,
         "sotLen" \in DOMAIN dec', dec'.sotLen \in Nat
  PROVE  Placed'
  BY DEF Placed

LEMMA FailStays ==
  ASSUME Placed, Fail
  PROVE  Placed'
  BY DEF Fail, Placed

LEMMA FirstSotIsPlace ==
  ASSUME Placed
  PROVE  BehindFirstSot \in Nat
<1>1. StreamOK(str)
  BY StreamsAssumption DEF Placed
<1> QED BY <1>1, MainHeaderIs DEF BehindFirstSot

LEMMA SotIsInside ==
  ASSUME Placed, NEW to, IsSot(to)
  PROVE  to + 1 \in Nat
  BY ItemsAreItems DEF IsSot

LEMMA ReadHeaderMoves ==
  ASSUME Placed, ReadHeader
  PROVE  Placed'
<1>1. CASE ReadSoc
  BY <1>1, FailStays DEF ReadSoc, Placed
<1>2. CASE ReadMainMarker
  <2>1. \/ Fail
        \/ /\ UNCHANGED <<str, items>> /\ pos' = pos + 2
           /\ dec' = [dec EXCEPT !.seen = @ \cup {marker}, !.state = "MH"]
    BY <1>2 DEF ReadMainMarker
  <2>2. CASE /\ UNCHANGED <<str, items>> /\ pos' = pos + 2
             /\ dec' = [dec EXCEPT !.seen = @ \cup {marker}, !.state = "MH"]
    <3>1. "sotLen" \in DOMAIN dec' /\ dec'.sotLen = dec.sotLen
      BY <2>2 DEF Placed
    <3>2. pos' \in Nat
      BY <2>2 DEF Placed
    <3> QED BY <2>2, <3>1, <3>2 DEF Placed
  <2> QED BY <2>1, <2>2, FailStays
<1>3. CASE MainHeaderDone
  BY <1>3, FailStays DEF MainHeaderDone, Placed
<1> QED BY <1>1, <1>2, <1>3 DEF ReadHeader

LEMMA ClientMoves ==
  ASSUME Placed, Client
  PROVE  Placed'
<1>1. CASE SetAreaAndDecode
  BY <1>1 DEF SetAreaAndDecode, Placed
<1>2. CASE GetTile
  <2>1. \/ Fail
        \/ \E t \in Tiles : \E v :
             /\ UNCHANGED <<str, items>>
             /\ \/ pos' = pos
                \/ \E to : IsSot(to) /\ pos' = to + 1
                \/ pos' = BehindFirstSot
             /\ dec' = [dec EXCEPT !.tileInd = t, !.state = v]
    <3> SUFFICES ASSUME ~Fail, NEW t \in Tiles,
                        LET known == index[t].nbTps # 0
                            to == IF known THEN StartPos(t, 0) ELSE BehindFirstSot
                        IN  /\ ~(index[0].alloc /\ (~str.seek \/ (known /\ ~IsSot(to))))
                            /\ pos' = IF ~index[0].alloc THEN pos ELSE IF known THEN to + 1 ELSE to
                            /\ dec' = [dec EXCEPT !.tileInd = t, !.state =
                                 IF index[0].alloc /\ @ = "EOC" THEN "TPHSOT" ELSE @]
                            /\ UNCHANGED <<str, items>>
                 PROVE  \E v :
                         /\ UNCHANGED <<str, items>>
                         /\ \/ pos' = pos
                            \/ \E to : IsSot(to) /\ pos' = to + 1
                            \/ pos' = BehindFirstSot
                         /\ dec' = [dec EXCEPT !.tileInd = t, !.state = v]
      BY <1>2 DEF GetTile
    <3> DEFINE v == IF index[0].alloc /\ dec.state = "EOC" THEN "TPHSOT" ELSE dec.state
    <3>1. dec' = [dec EXCEPT !.tileInd = t, !.state = v]
      OBVIOUS
    <3> HIDE DEF v
    <3> QED BY <3>1
  <2>2. CASE \E t \in Tiles : \E v :
              /\ UNCHANGED <<str, items>>
              /\ \/ pos' = pos
                 \/ \E to : IsSot(to) /\ pos' = to + 1
                 \/ pos' = BehindFirstSot
              /\ dec' = [dec EXCEPT !.tileInd = t, !.state = v]
    <3>1. "sotLen" \in DOMAIN dec' /\ dec'.sotLen = dec.sotLen
      BY <2>2 DEF Placed
    <3>2. pos' \in Nat
      BY <2>2, SotIsInside, FirstSotIsPlace DEF Placed
    <3>3. UNCHANGED <<str, items>>
      BY <2>2
    <3> QED BY <3>1, <3>2, <3>3 DEF Placed
  <2> QED BY <2>1, <2>2, FailStays
<1>3. CASE ReadTileHeader \/ DecodeTileData
  BY <1>3 DEF ReadTileHeader, DecodeTileData, Placed
<1> QED BY <1>1, <1>2, <1>3 DEF Client

LEMMA ReadSotMoves ==
  ASSUME Placed, ReadSot
  PROVE  Placed'
<1> DEFINE i    == items[pos + 1][2]
           p    == str.parts[i]
           n    == IF p.tn = 0 THEN 0 ELSE p.tn + dec.corr
           nb   == IF n # 0 THEN n ELSE tcp[p.tile].nb
           last == dec.lastPart \/ Psot(str, i) = 0
           len  == IF last THEN 0 ELSE Psot(str, i) - 2
           skip == IF dec.tileInd = NoTile THEN p.tile \notin call.area
                                           ELSE p.tile # dec.tileInd
           tlm  == dec.tlm /\ n <= index[p.tile].nbTps
           done == dec.canDecode \/ (nb # 0 /\ nb = p.tp + 1)
<1>1. \/ Fail
      \/ /\ At(pos) = "sot" /\ Left > 0
         /\ UNCHANGED <<str, items>>
         /\ pos' = pos + 1 + (IF skip THEN len ELSE 1)
         /\ dec' = [dec EXCEPT !.cur = p.tile, !.lastPart = last, !.sotLen = len,
                               !.canDecode = done, !.state = "TPH", !.skip = skip, !.tlm = tlm]
  BY Zenon DEF ReadSot
<1>2. CASE /\ At(pos) = "sot" /\ Left > 0
           /\ UNCHANGED <<str, items>>
           /\ pos' = pos + 1 + (IF skip THEN len ELSE 1)
           /\ dec' = [dec EXCEPT !.cur = p.tile, !.lastPart = last, !.sotLen = len,
                                 !.canDecode = done, !.state = "TPH", !.skip = skip, !.tlm = tlm]
  <2>1. pos + 1 \in DOMAIN items /\ pos \in Nat
    <3>1. Left = Len(items) - pos /\ Left > 0 /\ pos \in Nat
      BY <1>2, Zenon DEF Left, Placed
    <3>2. pos + 1 \in 1..Len(items)
      BY <3>1, ItemsAreItems
    <3> QED BY <3>1, <3>2, ItemsAreItems
  <2>2. i \in DOMAIN str.parts
    <3>1. StreamOK(str) /\ items \in Seq(PartItem(str))
      BY StreamsAssumption, ItemsAre DEF Placed
    <3> QED BY <1>2, <2>1, <3>1 DEF At, PartItem
  <2>3. PartLen(str, i) \in Nat /\ PartLen(str, i) >= 3
    BY <2>2, StreamsAssumption, PartItemsAre DEF Placed
  <2>4. len \in Nat
    BY <2>3 DEF Psot
  <2> HIDE DEF p, last, len, skip, tlm, done
  <2>5. "sotLen" \in DOMAIN dec' /\ dec'.sotLen = len
    BY <1>2 DEF Placed
  <2>6. pos' \in Nat
    BY <1>2, <2>1, <2>4
  <2> QED BY <1>2, <2>4, <2>5, <2>6 DEF Placed
<1> QED BY <1>1, <1>2, FailStays

LEMMA ReadSodMoves ==
  ASSUME Placed, ReadSod
  PROVE  Placed'
<1> DEFINE len  == IF dec.lastPart THEN Left - 1
                   ELSE IF dec.sotLen = 0 THEN 0 ELSE dec.sotLen - 1
           got  == IF len < Left THEN len ELSE Left
           v    == IF got < len THEN "NEOC" ELSE "TPHSOT"
<1>1. \/ Fail
      \/ /\ DataReadable(len)
         /\ UNCHANGED <<str, items>> /\ pos' = pos + got
         /\ dec' = [dec EXCEPT !.sotLen = len, !.state = v]
  BY DEF ReadSod
<1>2. CASE /\ DataReadable(len)
           /\ UNCHANGED <<str, items>> /\ pos' = pos + got
           /\ dec' = [dec EXCEPT !.sotLen = len, !.state = v]
  <2>1. /\ Left \in Int /\ Left = Len(items) - pos /\ Len(items) \in Nat
        /\ pos \in Nat /\ dec.sotLen \in Nat
    BY ItemsAreItems DEF Left, Placed
  <2>2. len \in Int
    BY <2>1
  <2>3. len \in Nat
    BY <1>2, <2>1, <2>2 DEF DataReadable
  <2>4. pos + got \in Nat
    BY <2>1, <2>3
  <2> HIDE DEF len, got, v
  <2>5. "sotLen" \in DOMAIN dec' /\ dec'.sotLen = len
    BY <1>2 DEF Placed
  <2> QED BY <1>2, <2>3, <2>4, <2>5 DEF Placed
<1> QED BY <1>1, <1>2, FailStays

LEMMA TilePartMoves ==
  ASSUME Placed, TilePartStep
  PROVE  Placed'
<1>1. CASE EnterHeader \/ LeaveLoop \/ ReadOn \/ EndOfStream \/ SkipData
  BY <1>1, FailStays DEF EnterHeader, LeaveLoop, ReadOn, EndOfStream, SkipData, Placed
<1>2. CASE SeekIntersecting
  BY <1>2, FailStays, SotIsInside DEF SeekIntersecting, Placed
<1>3. CASE JumpByTlm
  BY <1>3, FailStays, SotIsInside DEF JumpByTlm, Placed
<1>4. CASE ReadSot
  BY <1>4, ReadSotMoves
<1>5. CASE ReadTilePartMarker
  BY <1>5, FailStays DEF ReadTilePartMarker, Placed
<1>6. CASE ReadSod
  BY <1>6, ReadSodMoves
<1>7. CASE CheckCorrection
  BY <1>7, FailStays DEF CheckCorrection, Placed
<1>8. CASE NextMarker
  <2>1. UNCHANGED <<str, items>> /\ (pos' = pos \/ pos' = pos + 1)
    BY <1>8 DEF NextMarker
  <2>2. dec' = dec \/ \E v : dec' = [dec EXCEPT !.state = "EOC", !.cur = v]
    BY <1>8 DEF NextMarker
  <2>3. "sotLen" \in DOMAIN dec' /\ dec'.sotLen = dec.sotLen
    BY <2>2 DEF Placed
  <2> QED BY <2>1, <2>3 DEF Placed
<1>9. CASE ChooseTile
  BY <1>9, FailStays DEF ChooseTile, Placed
<1> QED BY <1>1, <1>2, <1>3, <1>4, <1>5, <1>6, <1>7, <1>8, <1>9 DEF TilePartStep

LEMMA TileStepMoves ==
  ASSUME Placed, TileStep
  PROVE  Placed'
<1>1. CASE DecodeTile
  BY <1>1 DEF DecodeTile, Placed
<1>2. CASE DecodeTileFails \/ TileRefused \/ Finish
  BY <1>2, FailStays DEF DecodeTileFails, TileRefused, Finish, Placed
<1>3. CASE AfterDecode
  BY <1>3, ItemsAreItems DEF AfterDecode, Placed
<1>4. CASE AfterTile
  <2>1. \/ Fail
        \/ UNCHANGED <<str, items, dec>> /\ (pos' = pos \/ pos' = BehindFirstSot)
    BY <1>4 DEF AfterTile
  <2> QED BY <2>1, FailStays, FirstSotIsPlace DEF Placed
<1> QED BY <1>1, <1>2, <1>3, <1>4 DEF TileStep

-----------------------------------------------------------------------------
LEMMA InitIInv ==
  ASSUME Init
  PROVE  IInv
<1>1. Placed
  BY DEF Init, Placed
<1>2. Shaped
  <2>1. tcp = [t \in Tiles |-> NewTcp] /\ out = [t \in Tiles |-> Nothing] /\ "tno" \in DOMAIN call
    BY DEF Init
  <2>2. "data" \in DOMAIN NewTcp /\ NewTcp.data \in Seq(Item)
    BY DEF NewTcp
  <2> QED BY <2>1, <2>2 DEF Shaped
<1>3. JustDecoded
  BY DEF Init, JustDecoded
<1> QED BY <1>1, <1>2, <1>3 DEF IInv, Kept

LEMMA StepIInv ==
  ASSUME IInv, [Next]_vars
  PROVE  IInv' /\ Freed
<1>1. CASE ReadHeader
  BY <1>1, HeaderQuiet, ReadHeaderMoves DEF IInv
<1>2. CASE Client
  BY <1>2, ClientQuiet, ClientMoves DEF IInv
<1>3. CASE TilePartStep
  BY <1>3, TilePartStepKeeps, TilePartMoves DEF IInv
<1>4. CASE TileStep
  BY <1>4, TileStepFrees, TileStepMoves DEF IInv
<1>5. CASE UNCHANGED vars
  <2>1. Placed' /\ Shaped' /\ JustDecoded'
    BY <1>5 DEF vars, IInv, Kept, Placed, Shaped, JustDecoded, Tiles
  <2>2. ~Dropped
    BY <1>5 DEF vars, Dropped
  <2> QED BY <2>1, <2>2 DEF IInv, Kept, Freed
<1> QED BY <1>1, <1>2, <1>3, <1>4, <1>5 DEF Next

\* Packet data leave the decoder only once they were decoded: opj_j2k_decode_tiles
\* and _decode_one_tile free what their own l_current_tile_no names (j2k.c:12122,
\* 12281), not m_current_tile_number, which EOC has reset by then (j2k.c:10199).
THEOREM DecodedBeforeFreed == Spec => OnlyDecodedFreed
<1>1. IInv /\ [Next]_vars => [pc' # "refused" =>
        \A t \in Tiles : tcp[t].data # <<>> /\ tcp'[t].data = <<>> => out'[t] = tcp[t].data]_vars
  BY StepIInv DEF Freed, Dropped
<1> QED
  BY InitIInv, StepIInv, <1>1, PTL DEF Spec, OnlyDecodedFreed
-----------------------------------------------------------------------------
(* The types.                                                              *)

\* where the stream stands: the file reaches behind its first SOT marker once the
\* main header was read, which is what the calls that seek back there rely on
Standing == /\ pc \in Pcs
            /\ pos \in 0..Len(items)
            /\ pc = "main" => pos # 0 /\ marker = items[pos][1]
            /\ pc \notin {"new", "main", "failed"} => BehindFirstSot <= Len(items)

\* the fields of the decoder state whose types the others do not settle
DecFields == {"state", "cur", "tileInd", "sotLen", "inter", "interIdx"}
DecOK == /\ DecFields \subseteq DOMAIN dec
         /\ dec.state \in States
         /\ dec.cur \in 0..str.nt
         /\ dec.tileInd \in Tiles \cup {NoTile}
         /\ Len(dec.inter) \in Nat /\ dec.interIdx \in 0..Len(dec.inter)

\* tile-part numbers count from -1; an index with entries has its array; what was
\* decoded was decoded from something
TcpOK   == \A t \in Tiles : "tpno" \in DOMAIN tcp[t] /\ tcp[t].tpno \in Int /\ tcp[t].tpno >= -1
IndexOK == /\ index = [t \in Tiles |-> index[t]]
           /\ \A t \in Tiles : index[t].nbTps > 0 => index[t].alloc
OutOK   == \A t \in Tiles : out[t] # Nothing => out[t] # <<>>

Typed == Standing /\ DecOK /\ TcpOK /\ IndexOK /\ OutOK

LEMMA NtIs == ASSUME IInv PROVE str.nt \in Nat \ {0} /\ StreamOK(str)
  BY StreamsAssumption DEF IInv, Placed, StreamOK

LEMMA StandsOn ==
  ASSUME IInv, Standing, UNCHANGED <<str, items>>, pos' \in 0..Len(items),
         pc \notin {"new", "main", "failed"}, pc' \in Pcs \ {"new", "main"}
  PROVE  Standing'
  BY DEF Standing, BehindFirstSot

LEMMA TcpStays ==
  ASSUME TcpOK, UNCHANGED <<str, tcp>> PROVE TcpOK'
  BY DEF TcpOK, Tiles
LEMMA IndexStays ==
  ASSUME IndexOK, UNCHANGED <<str, index>> PROVE IndexOK'
  BY DEF IndexOK, Tiles
LEMMA OutStays ==
  ASSUME OutOK, UNCHANGED <<str, out>> PROVE OutOK'
  BY DEF OutOK, Tiles
LEMMA DecStays ==
  ASSUME DecOK, UNCHANGED <<str, dec>> PROVE DecOK'
  BY DEF DecOK, Tiles

LEMMA FailTyped ==
  ASSUME IInv, Typed, Fail
  PROVE  Typed'
<1>1. Standing'
  BY DEF Fail, Typed, Standing, Pcs
<1> QED BY <1>1, TcpStays, IndexStays, OutStays, DecStays DEF Fail, Typed

LEMMA HeaderTyped ==
  ASSUME IInv, Typed, ReadHeader
  PROVE  Typed'
<1>0. Len(items) \in Nat /\ Left = Len(items) - pos /\ pos \in 0..Len(items)
  BY ItemsAreItems DEF IInv, Left, Typed, Standing
<1>1. CASE ReadSoc
  <2>1. CASE Fail
    BY <2>1, FailTyped
  <2>2. CASE ~Fail
    <3>1. /\ pc = "new" /\ Left >= 2 /\ pos' = 2 /\ marker' = At(1)
          /\ dec' = [dec EXCEPT !.state = "MHSIZ"] /\ pc' = "main"
          /\ UNCHANGED <<str, items, tcp, index, call, out>>
      BY <1>1, <2>2 DEF ReadSoc
    <3>2. Standing'
      BY <1>0, <3>1 DEF Typed, Standing, At, Pcs
    <3>3. DecOK'
      BY <3>1 DEF Typed, DecOK, DecFields, States, Tiles
    <3> QED BY <3>1, <3>2, <3>3, TcpStays, IndexStays, OutStays DEF Typed
  <2> QED BY <2>1, <2>2
<1>2. CASE ReadMainMarker
  <2>1. CASE Fail
    BY <2>1, FailTyped
  <2>2. CASE ~Fail
    <3>1. /\ pc = "main" /\ Left >= 2 /\ pos' = pos + 2 /\ marker' = At(pos + 1)
          /\ dec' = [dec EXCEPT !.seen = @ \cup {marker}, !.state = "MH"] /\ pc' = pc
          /\ UNCHANGED <<str, items, tcp, index, call, out>>
      BY <1>2, <2>2 DEF ReadMainMarker
    <3>2. Standing'
      BY <1>0, <3>1 DEF Typed, Standing, At
    <3>3. DecOK'
      BY <3>1 DEF Typed, DecOK, DecFields, States, Tiles
    <3> QED BY <3>1, <3>2, <3>3, TcpStays, IndexStays, OutStays DEF Typed
  <2> QED BY <2>1, <2>2
<1>3. CASE MainHeaderDone
  <2>1. CASE Fail
    BY <2>1, FailTyped
  <2>2. CASE ~Fail
    <3> DEFINE valid == dec.tlm /\ \A t \in Tiles : TlmIndex(t).nbTps > 0
    <3>1. /\ pc = "main" /\ marker = "SOT" /\ pc' = "idle"
          /\ dec' = [dec EXCEPT !.state = "TPHSOT", !.tlm = valid]
          /\ index' = IF valid THEN [t \in Tiles |-> TlmIndex(t)] ELSE index
          /\ UNCHANGED <<str, items, pos, marker, tcp, call, out>>
      BY <1>3, <2>2 DEF MainHeaderDone
    <3>2. Standing'
      <4>1. pos \in 1..Len(items) /\ items[pos][1] = "SOT"
        BY <1>0, <3>1 DEF Typed, Standing
      <4>2. pos > MainHeadEnd(str) /\ MainHeadEnd(str) \in Nat
        BY <4>1, NtIs, ItemsAre, MainHeaderIs DEF IInv, Placed
      <4>3. BehindFirstSot <= Len(items)
        BY <1>0, <4>1, <4>2 DEF BehindFirstSot
      <4> QED BY <3>1, <4>3 DEF Typed, Standing, BehindFirstSot, Pcs
    <3> HIDE DEF valid
    <3>3. DecOK'
      BY <3>1 DEF Typed, DecOK, DecFields, States, Tiles
    <3>4. IndexOK'
      <4>1. \A t \in Tiles : TlmIndex(t).alloc
        BY DEF TlmIndex
      <4>2. Tiles' = Tiles
        BY <3>1 DEF Tiles
      <4> QED BY <3>1, <4>1, <4>2 DEF Typed, IndexOK
    <3> QED BY <3>1, <3>2, <3>3, <3>4, TcpStays, OutStays DEF Typed
  <2> QED BY <2>1, <2>2
<1> QED BY <1>1, <1>2, <1>3 DEF ReadHeader

LEMMA NewCallOut ==
  ASSUME IInv, OutOK, UNCHANGED str, NEW area, NEW whole, NewCall(area, whole)
  PROVE  OutOK'
  BY DEF OutOK, NewCall, Tiles, IInv, Kept, Shaped

\* The positions planned for an area make a sequence.
LEMMA PlanLen ==
  ASSUME IInv, DecOK, IndexOK, NEW area \in SUBSET Tiles
  PROVE  LET offsets == UNION {{StartPos(t, k) : k \in {j \in 0..Len(str.tlm) : j < index[t].nbTps}} :
                                t \in area}
         IN  Len(Ascending(offsets)) \in Nat
<1> DEFINE mine(t) == {StartPos(t, k) : k \in {j \in 0..Len(str.tlm) : j < index[t].nbTps}}
           offsets == UNION {mine(t) : t \in area}
<1>1. IsFiniteSet(area)
  <2>1. IsFiniteSet(Tiles)
    BY NtIs, FS_Interval DEF Tiles
  <2> QED BY <2>1, FS_Subset
<1>2. Len(str.tlm) \in Nat
  <2>1. str.tlm \in Seq(DOMAIN str.parts)
    BY NtIs DEF StreamOK
  <2> QED BY <2>1, LenProperties
<1>3. ASSUME NEW t \in area PROVE IsFiniteSet(mine(t))
  <2> DEFINE K == {j \in 0..Len(str.tlm) : j < index[t].nbTps}
  <2>1. IsFiniteSet(K)
    <3>1. IsFiniteSet(0..Len(str.tlm)) /\ K \in SUBSET (0..Len(str.tlm))
      BY <1>2, FS_Interval
    <3> HIDE DEF K
    <3> QED BY <3>1, FS_Subset
  <2> DEFINE at == [k \in K |-> StartPos(t, k)]
  <2>2. mine(t) = {at[k] : k \in K}
    OBVIOUS
  <2> HIDE DEF K
  <2>3. at \in Surjection(K, mine(t))
    BY <2>2 DEF Surjection
  <2> QED BY <2>1, <2>3, FS_Surjection
<1>4. IsFiniteSet(offsets)
  <2> DEFINE sets == {mine(t) : t \in area}
             of == [t \in area |-> mine(t)]
  <2> HIDE DEF mine
  <2>1. of \in Surjection(area, sets)
    BY DEF Surjection
  <2>2. IsFiniteSet(sets)
    BY <1>1, <2>1, FS_Surjection
  <2>3. \A x \in sets : IsFiniteSet(x)
    BY <1>3
  <2> HIDE DEF sets, of
  <2>4. IsFiniteSet(UNION sets)
    BY <2>2, <2>3, FS_UNION
  <2> QED BY <2>4 DEF sets
<1> HIDE DEF offsets
<1>5. Len(Ascending(offsets)) \in Nat
  BY <1>4, FS_CardinalityType DEF Ascending
<1> QED BY <1>5 DEF offsets

LEMMA Where ==
  ASSUME IInv, Typed
  PROVE  /\ Len(items) \in Nat /\ Left = Len(items) - pos /\ pos \in 0..Len(items)
         /\ BehindFirstSot \in Nat
         /\ \A to : IsSot(to) => to + 1 \in 0..Len(items)
<1>1. items \in Seq(Item)
  BY ItemsAreItems DEF IInv
<1>2. \A to : IsSot(to) => to + 1 \in 0..Len(items)
  BY <1>1 DEF IsSot
<1> QED BY <1>1, <1>2, FirstSotIsPlace DEF IInv, Left, Typed, Standing

LEMMA ClientTyped ==
  ASSUME IInv, Typed, Client
  PROVE  Typed'
<1>1. CASE SetAreaAndDecode
  <2> DEFINE offs(area) == UNION {{StartPos(t, k) : k \in {j \in 0..Len(str.tlm) : j < index[t].nbTps}} :
                                t \in area}
  <2>1. /\ pc = "idle" /\ UNCHANGED <<str, items, pos, tcp, index>>
        /\ pc' \in {"refused", "decode", "enter"}
        /\ UNCHANGED out \/ \E area, whole : NewCall(area, whole)
        /\ \/ dec' = dec
           \/ dec' = [dec EXCEPT !.cur = 0, !.hasData = TRUE, !.inter = <<>>, !.interIdx = 0]
           \/ dec' = [dec EXCEPT !.interIdx = 0, !.inter = <<>>]
           \/ \E area \in SUBSET Tiles : dec' = [dec EXCEPT !.interIdx = 0, !.inter = Ascending(offs(area))]
    <3>1. PICK a \in Tiles, b \in Tiles, whole \in BOOLEAN :
        LET area == a..b
            single == str.nt = 1 /\ whole
            byTlm == area # Tiles /\ dec.tlm /\ str.seek
        IN
        IF ~KeptTile /\ dec.state # "TPHSOT"
           THEN /\ pc' = "refused"
                /\ UNCHANGED <<str, items, pos, marker, dec, tcp, index, call, out>>
           ELSE /\ NewCall(area, whole)
                /\ IF KeptTile /\ ~single
                   THEN /\ dec' = [dec EXCEPT !.cur = 0, !.hasData = TRUE,
                                              !.inter = <<>>, !.interIdx = 0]
                        /\ pc' = "decode"
                   ELSE /\ dec' = IF single THEN dec
                                  ELSE [dec EXCEPT !.interIdx = 0, !.inter =
                                         IF byTlm THEN Ascending(offs(area)) ELSE <<>>]
                        /\ pc' = "enter"
                /\ UNCHANGED <<str, items, pos, marker, tcp, index>>
      BY <1>1 DEF SetAreaAndDecode
    <3>2. a..b \in SUBSET Tiles
      BY NtIs DEF Tiles
    <3>3. pc = "idle"
      BY <1>1 DEF SetAreaAndDecode, Callable
    <3> DEFINE area == a..b
               ofa == Ascending(offs(area))
               byTlm == area # Tiles /\ dec.tlm /\ str.seek
    <3>4. \/ dec' = dec
          \/ dec' = [dec EXCEPT !.cur = 0, !.hasData = TRUE, !.inter = <<>>, !.interIdx = 0]
          \/ dec' = [dec EXCEPT !.interIdx = 0, !.inter = IF byTlm THEN ofa ELSE <<>>]
      BY <3>1
    <3> HIDE DEF ofa, byTlm
    <3>5. \/ dec' = dec
          \/ dec' = [dec EXCEPT !.cur = 0, !.hasData = TRUE, !.inter = <<>>, !.interIdx = 0]
          \/ dec' = [dec EXCEPT !.interIdx = 0, !.inter = <<>>]
          \/ dec' = [dec EXCEPT !.interIdx = 0, !.inter = ofa]
      BY <3>4
    <3>6. \/ dec' = dec
          \/ dec' = [dec EXCEPT !.cur = 0, !.hasData = TRUE, !.inter = <<>>, !.interIdx = 0]
          \/ dec' = [dec EXCEPT !.interIdx = 0, !.inter = <<>>]
          \/ \E ar \in SUBSET Tiles : dec' = [dec EXCEPT !.interIdx = 0, !.inter = Ascending(offs(ar))]
      BY <3>2, <3>5, Zenon DEF ofa
    <3>7. /\ UNCHANGED <<str, items, pos, tcp, index>>
          /\ pc' \in {"refused", "decode", "enter"}
          /\ UNCHANGED out \/ NewCall(area, whole)
      BY <3>1
    <3> QED BY <3>3, <3>6, <3>7
  <2>2. Standing'
    BY <2>1, Where, StandsOn DEF Typed, Pcs
  <2>3. \A area \in SUBSET Tiles : Len(Ascending(offs(area))) \in Nat
    BY PlanLen DEF Typed
  <2>4. DecOK'
    <3>1. str' = str /\ Tiles' = Tiles /\ str.nt \in Nat /\ DecOK
      BY <2>1, NtIs DEF Tiles, Typed
    <3>2. CASE dec' = dec
      BY <2>1, <3>2, DecStays DEF Typed
    <3>3. CASE dec' = [dec EXCEPT !.cur = 0, !.hasData = TRUE, !.inter = <<>>, !.interIdx = 0]
      BY <3>1, <3>3 DEF DecOK, DecFields
    <3>4. CASE \E v : Len(v) \in Nat /\ dec' = [dec EXCEPT !.interIdx = 0, !.inter = v]
      BY <3>1, <3>4 DEF DecOK, DecFields
    <3>5. Len(<<>>) \in Nat
      OBVIOUS
    <3> HIDE DEF offs
    <3> QED BY <2>1, <2>3, <3>2, <3>3, <3>4, <3>5
  <2>5. OutOK'
    BY <2>1, NewCallOut, OutStays DEF Typed
  <2> QED BY <2>1, <2>2, <2>4, <2>5, TcpStays, IndexStays DEF Typed
<1>2. CASE GetTile
  <2>1. CASE Fail
    BY <2>1, FailTyped
  <2>2. CASE ~Fail
    <3>1. PICK t \in Tiles :
        LET known == index[t].nbTps # 0
            to == IF known THEN StartPos(t, 0) ELSE BehindFirstSot
        IN  /\ pc = "idle"
            /\ ~(index[0].alloc /\ (~str.seek \/ (known /\ ~IsSot(to))))
            /\ pos' = IF ~index[0].alloc THEN pos ELSE IF known THEN to + 1 ELSE to
            /\ dec' = [dec EXCEPT !.tileInd = t, !.state =
                         IF index[0].alloc /\ @ = "EOC" THEN "TPHSOT" ELSE @]
            /\ tcp' = [u \in Tiles |-> [tcp[u] EXCEPT !.tpno = -1]]
            /\ NewCall({t}, TRUE)
            /\ pc' = "enter"
            /\ UNCHANGED <<str, items, marker, index>>
      BY <1>2, <2>2 DEF GetTile, Callable
    <3>2. pos' \in 0..Len(items)
      <4>1. BehindFirstSot <= Len(items)
        BY <3>1 DEF Typed, Standing
      <4>2. pos' = pos \/ (\E to : IsSot(to) /\ pos' = to + 1) \/ pos' = BehindFirstSot
        BY <3>1
      <4> QED BY <4>1, <4>2, Where
    <3>3. Standing'
      BY <3>1, <3>2, StandsOn DEF Typed, Pcs
    <3>4. DecOK'
      <4> DEFINE v == IF index[0].alloc /\ dec.state = "EOC" THEN "TPHSOT" ELSE dec.state
      <4>1. dec' = [dec EXCEPT !.tileInd = t, !.state = v] /\ UNCHANGED str
        BY <3>1
      <4>2. v \in States
        BY DEF Typed, DecOK, States
      <4> HIDE DEF v
      <4> QED BY <4>1, <4>2 DEF Typed, DecOK, DecFields, Tiles
    <3>5. TcpOK'
      <4>1. \A u \in Tiles : "tpno" \in DOMAIN tcp'[u] /\ tcp'[u].tpno = -1
        BY <3>1 DEF Typed, TcpOK
      <4>2. Tiles' = Tiles
        BY <3>1 DEF Tiles
      <4> QED BY <4>1, <4>2 DEF TcpOK
    <3> QED BY <3>1, <3>3, <3>4, <3>5, NewCallOut, IndexStays DEF Typed
  <2> QED BY <2>1, <2>2
<1>3. CASE ReadTileHeader
  <2>1. /\ pc = "idle" /\ pc' = "enter" /\ UNCHANGED <<str, items, pos, marker, dec, tcp, index>>
        /\ \E area, whole : NewCall(area, whole)
    BY <1>3 DEF ReadTileHeader, Callable
  <2>2. Standing'
    BY <2>1, Where, StandsOn DEF Typed, Pcs
  <2> QED BY <2>1, <2>2, DecStays, TcpStays, IndexStays, NewCallOut DEF Typed
<1>4. CASE DecodeTileData
  <2>1. /\ pc = "idle" /\ pc' = "decode" /\ UNCHANGED <<str, items, pos, dec, tcp, index, out>>
    BY <1>4 DEF DecodeTileData
  <2>2. Standing'
    BY <2>1, Where, StandsOn DEF Typed, Pcs
  <2> QED BY <2>1, <2>2, DecStays, TcpStays, IndexStays, OutStays DEF Typed
<1> QED BY <1>1, <1>2, <1>3, <1>4 DEF Client

\* A step that reads on, in a stream whose main header was read.
Reads == /\ pc \notin {"new", "main", "failed"}
         /\ pc' \in Pcs \ {"new", "main"}
         /\ pos' \in 0..Len(items)
         /\ UNCHANGED <<str, items, out>>

LEMMA ReadsStands ==
  ASSUME IInv, Typed, Reads
  PROVE  Standing' /\ OutOK' /\ Tiles' = Tiles /\ str' = str
  BY StandsOn, OutStays DEF Reads, Typed, Tiles

LEMMA QuietTyped ==
  ASSUME IInv, Typed,
         EnterHeader \/ LeaveLoop \/ SeekIntersecting \/ ReadOn \/ EndOfStream
             \/ SkipData \/ JumpByTlm
  PROVE  Typed'
<1>1. CASE Fail
  BY <1>1, FailTyped
<1>2. CASE ~Fail
  <2>1. UNCHANGED <<tcp, index>>
    BY <1>2 DEF EnterHeader, LeaveLoop, SeekIntersecting, ReadOn, EndOfStream, SkipData, JumpByTlm
  <2>2. Reads
    <3>1. /\ pc \in {"enter", "loop", "segment", "read"}
          /\ pc' \in {"loop", "tail", "segment", "next"}
          /\ UNCHANGED <<str, items, out>>
      BY <1>2 DEF EnterHeader, LeaveLoop, SeekIntersecting, ReadOn, EndOfStream, SkipData, JumpByTlm
    <3>2. pos' = pos \/ \E to : IsSot(to) /\ pos' = to + 1
      BY <1>2 DEF EnterHeader, LeaveLoop, SeekIntersecting, ReadOn, EndOfStream, SkipData, JumpByTlm
    <3> QED BY <3>1, <3>2, Where DEF Reads, Pcs
  <2>3. \/ dec' = dec
        \/ /\ dec.interIdx < Len(dec.inter)
           /\ dec' = [dec EXCEPT !.interIdx = @ + 1]
        \/ dec' = [dec EXCEPT !.state = "NEOC"]
        \/ dec' = [dec EXCEPT !.skip = FALSE, !.canDecode = FALSE, !.state = "TPHSOT"]
    BY <1>2 DEF EnterHeader, LeaveLoop, SeekIntersecting, ReadOn, EndOfStream, SkipData, JumpByTlm
  <2>4. DecOK'
    <3>1. UNCHANGED str /\ Tiles' = Tiles /\ DecOK
      BY <2>2, ReadsStands DEF Typed
    <3>2. CASE dec' = dec
      BY <3>1, <3>2, DecStays
    <3>3. CASE dec.interIdx < Len(dec.inter) /\ dec' = [dec EXCEPT !.interIdx = @ + 1]
      BY <3>1, <3>3 DEF DecOK, DecFields
    <3>4. CASE dec' = [dec EXCEPT !.state = "NEOC"]
      BY <3>1, <3>4 DEF DecOK, DecFields, States
    <3>5. CASE dec' = [dec EXCEPT !.skip = FALSE, !.canDecode = FALSE, !.state = "TPHSOT"]
      BY <3>1, <3>5 DEF DecOK, DecFields, States
    <3> QED BY <2>3, <3>2, <3>3, <3>4, <3>5
  <2> QED BY <2>1, <2>2, <2>4, ReadsStands, TcpStays, IndexStays DEF Typed
<1> QED BY <1>1, <1>2

LEMMA ReadSotTyped ==
  ASSUME IInv, Typed, ReadSot
  PROVE  Typed'
<1> DEFINE i    == items[pos + 1][2]
           p    == str.parts[i]
           n    == IF p.tn = 0 THEN 0 ELSE p.tn + dec.corr
           nb   == IF n # 0 THEN n ELSE tcp[p.tile].nb
           last == dec.lastPart \/ Psot(str, i) = 0
           len  == IF last THEN 0 ELSE Psot(str, i) - 2
           skip == IF dec.tileInd = NoTile THEN p.tile \notin call.area
                                           ELSE p.tile # dec.tileInd
           tlm  == dec.tlm /\ n <= index[p.tile].nbTps
           next == pos + 1 + (IF skip THEN len ELSE 1)
           done == dec.canDecode \/ (nb # 0 /\ nb = p.tp + 1)
           entry == SotIndexed(p, n, pos - 1, tlm)
<1>1. CASE Fail
  BY <1>1, FailTyped
<1>2. CASE ~Fail
  <2>1. /\ pc = "segment" /\ At(pos) = "sot" /\ Left > 0 /\ next <= Len(items)
        /\ UNCHANGED <<str, items, pc, call, out>> /\ pos' = next
        /\ dec' = [dec EXCEPT !.cur = p.tile, !.lastPart = last, !.sotLen = len,
                              !.canDecode = done, !.state = "TPH", !.skip = skip, !.tlm = tlm]
        /\ tcp' = [tcp EXCEPT ![p.tile].tpno = p.tp, ![p.tile].nb = nb]
        /\ index' = [index EXCEPT ![p.tile] = entry]
    BY <1>2, Zenon DEF ReadSot
  <2>0. At(pos) = "sot" /\ Left > 0
    BY <2>1, Zenon
  <2>2. pos + 1 \in 1..Len(items)
    BY <2>0, Where
  <2>3. i \in DOMAIN str.parts
    <3>1. StreamOK(str) /\ items \in Seq(PartItem(str))
      BY StreamsAssumption, ItemsAre DEF IInv, Placed
    <3> QED BY <2>0, <2>2, <3>1 DEF At, PartItem
  <2>4. p.tile \in Tiles /\ p.tp \in Nat
    BY <2>3, NtIs, PartsAre DEF Tiles
  <2>5. len \in Nat
    BY <2>3, NtIs, PartItemsAre DEF Psot
  <2>6. entry.alloc
    BY DEF SotIndexed
  <2> HIDE DEF p, nb, last, len, skip, tlm, done, entry
  <2>7. pos' \in 0..Len(items)
    BY <2>1, <2>2, <2>5, Where
  <2>8. Reads
    BY <2>1, <2>7 DEF Reads, Pcs
  <2>9. DecOK'
    <3>1. p.tile \in 0..str.nt
      BY <2>4, NtIs DEF Tiles
    <3> QED BY <2>1, <2>8, <3>1, ReadsStands DEF Typed, DecOK, DecFields, States
  <2>10. TcpOK'
    <3>1. Tiles' = Tiles
      BY <2>8, ReadsStands
    <3> HIDE DEF next
    <3> QED BY <2>1, <2>4, <3>1 DEF Typed, TcpOK, IInv, Kept, Shaped
  <2>11. IndexOK'
    <3>1. Tiles' = Tiles
      BY <2>8, ReadsStands
    <3> HIDE DEF next
    <3> QED BY <2>1, <2>6, <3>1 DEF Typed, IndexOK
  <2> QED BY <2>8, <2>9, <2>10, <2>11, ReadsStands DEF Typed
<1> QED BY <1>1, <1>2

\* Structures whose tile-part numbers are kept.
SameParts(g) == \A t \in Tiles : "tpno" \in DOMAIN g[t] /\ g[t].tpno = tcp[t].tpno

LEMMA PartsChange ==
  ASSUME IInv, TcpOK, NEW p, NEW v
  PROVE  /\ SameParts([tcp EXCEPT ![p].ppt = v])
         /\ SameParts([tcp EXCEPT ![p].merged = v])
         /\ SameParts([tcp EXCEPT ![p].data = v])
  BY DEF IInv, Kept, Shaped, TcpOK, SameParts

LEMMA PartsSame ==
  ASSUME TcpOK, UNCHANGED str, SameParts(tcp') PROVE TcpOK'
  BY DEF TcpOK, SameParts, Tiles

LEMMA MarkerTyped ==
  ASSUME IInv, Typed, ReadTilePartMarker
  PROVE  Typed'
<1>1. CASE Fail
  BY <1>1, FailTyped
<1>2. CASE ~Fail
  <2>1. /\ pc = "segment" /\ Left >= 2 /\ pos' = pos + 2
        /\ \E v : dec' = [dec EXCEPT !.sotLen = v]
        /\ tcp' = [tcp EXCEPT ![dec.cur].ppt = TRUE]
        /\ UNCHANGED <<str, items, pc, index, call, out>>
    BY <1>2 DEF ReadTilePartMarker
  <2>2. Reads
    BY <2>1, Where DEF Reads, Pcs
  <2>3. DecOK'
    BY <2>1, <2>2, ReadsStands DEF Typed, DecOK, DecFields
  <2>4. TcpOK'
    BY <2>1, PartsChange, PartsSame DEF Typed
  <2> QED BY <2>1, <2>2, <2>3, <2>4, ReadsStands, IndexStays DEF Typed
<1> QED BY <1>1, <1>2

LEMMA ReadSodTyped ==
  ASSUME IInv, Typed, ReadSod
  PROVE  Typed'
<1> DEFINE len  == IF dec.lastPart THEN Left - 1
                   ELSE IF dec.sotLen = 0 THEN 0 ELSE dec.sotLen - 1
           got  == IF len < Left THEN len ELSE Left
           v    == IF got < len THEN "NEOC" ELSE "TPHSOT"
<1>1. CASE Fail
  BY <1>1, FailTyped
<1>2. CASE ~Fail
  <2>1. /\ pc = "segment" /\ DataReadable(len) /\ pos' = pos + got /\ pc' = "read"
        /\ dec' = [dec EXCEPT !.sotLen = len, !.state = v]
        /\ \E w : tcp' = [tcp EXCEPT ![dec.cur].data = w]
        /\ UNCHANGED <<str, items, index, call, out>>
    BY <1>2 DEF ReadSod
  <2>2. len \in Int /\ got \in Nat /\ got <= Left
    <3>1. dec.sotLen \in Nat
      BY DEF IInv, Placed
    <3>2. len \in Int
      BY <3>1, Where
    <3> QED BY <2>1, <3>2, Where DEF DataReadable
  <2>3. v \in States
    BY DEF States
  <2> HIDE DEF len, got, v
  <2>4. Reads
    BY <2>1, <2>2, Where DEF Reads, Pcs
  <2>5. DecOK'
    BY <2>1, <2>3, <2>4, ReadsStands DEF Typed, DecOK, DecFields
  <2>6. TcpOK'
    <3>1. TcpOK
      BY DEF Typed
    <3>2. PICK w : tcp' = [tcp EXCEPT ![dec.cur].data = w]
      BY <2>1
    <3>3. SameParts([tcp EXCEPT ![dec.cur].data = w])
      BY <3>1, PartsChange, Zenon
    <3>4. SameParts(tcp')
      BY <3>2, <3>3, Zenon
    <3> QED BY <2>1, <3>1, <3>4, PartsSame
  <2> QED BY <2>1, <2>4, <2>5, <2>6, ReadsStands, IndexStays DEF Typed
<1> QED BY <1>1, <1>2

LEMMA CorrectionTyped ==
  ASSUME IInv, Typed, CheckCorrection
  PROVE  Typed'
<1>1. CASE Fail
  BY <1>1, FailTyped
<1>2. CASE ~Fail
  <2> DEFINE due == dec.canDecode /\ ~dec.corrChecked
             answer == IF due /\ tcp[dec.cur].nb # 1 THEN Correction(dec.cur) ELSE "no"
             w == [t \in Tiles |-> IF answer = "yes" /\ tcp[t].nb # 0
                                   THEN tcp[t].nb + 1 ELSE tcp[t].nb]
  <2>1. /\ pc = "read" /\ pc' = "next" /\ UNCHANGED <<str, items, pos, marker, index, call, out>>
        /\ \E u, v, x : dec' = [dec EXCEPT !.corrChecked = u, !.canDecode = v, !.corr = x]
        /\ tcp' = [t \in Tiles |-> [tcp[t] EXCEPT !.nb =
                         IF answer = "yes" /\ @ # 0 THEN @ + 1 ELSE @]]
    <3>1. /\ pc = "read" /\ pc' = "next" /\ UNCHANGED <<str, items, pos, marker, index, call, out>>
          /\ dec' = [dec EXCEPT !.corrChecked = @ \/ due,
                                  !.canDecode = @ /\ answer = "no",
                                  !.corr = IF answer = "yes" THEN 1 ELSE @]
          /\ tcp' = [t \in Tiles |-> [tcp[t] EXCEPT !.nb =
                         IF answer = "yes" /\ @ # 0 THEN @ + 1 ELSE @]]
      BY <1>2, Zenon DEF CheckCorrection
    <3> QED BY <3>1, Zenon
  <2>2. tcp' = [t \in Tiles |-> [tcp[t] EXCEPT !.nb = w[t]]]
    BY <2>1, Zenon
  <2> HIDE DEF w
  <2>3. SameParts(tcp')
    BY <2>2 DEF SameParts, Typed, TcpOK
  <2>4. Reads
    BY <2>1, Where DEF Reads, Pcs
  <2>5. DecOK'
    BY <2>1, <2>4, ReadsStands DEF Typed, DecOK, DecFields
  <2> QED BY <2>1, <2>3, <2>4, <2>5, PartsSame, ReadsStands, IndexStays DEF Typed
<1> QED BY <1>1, <1>2

LEMMA NextMarkerTyped ==
  ASSUME IInv, Typed, NextMarker
  PROVE  Typed'
<1>1. /\ pc = "next" /\ UNCHANGED <<str, items, tcp, index, call, out>>
      /\ pc' \in {"loop", "tail", "failed"}
  BY DEF NextMarker
<1>2. pos' \in 0..Len(items)
  <2>1. pos' = pos \/ (Left > 0 /\ pos' = pos + 1)
    BY DEF NextMarker
  <2> QED BY <2>1, Where
<1>3. Reads
  BY <1>1, <1>2 DEF Reads, Pcs
<1>4. DecOK'
  <2> DEFINE least == CHOOSE t \in Spot6Tiles : \A u \in Spot6Tiles : t <= u
  <2>1. dec' = dec \/ (Spot6Tiles # {} /\ dec' = [dec EXCEPT !.state = "EOC", !.cur = least])
    BY DEF NextMarker
  <2>2. Spot6Tiles # {} => least \in 0..str.nt
    <3>1. Spot6Tiles \in SUBSET Nat /\ Spot6Tiles \subseteq 0..str.nt
      BY NtIs DEF Spot6Tiles, Tiles
    <3>2. Spot6Tiles # {} => least \in Spot6Tiles
      BY <3>1, LeastOf
    <3> QED BY <3>1, <3>2
  <2> HIDE DEF least
  <2>3. CASE dec' = dec
    BY <1>1, <2>3, DecStays DEF Typed
  <2>4. CASE Spot6Tiles # {} /\ dec' = [dec EXCEPT !.state = "EOC", !.cur = least]
    BY <1>3, <2>2, <2>4, ReadsStands DEF Typed, DecOK, DecFields, States
  <2> QED BY <2>1, <2>3, <2>4
<1> QED BY <1>1, <1>3, <1>4, ReadsStands, TcpStays, IndexStays DEF Typed

LEMMA ChooseTileTyped ==
  ASSUME IInv, Typed, ChooseTile
  PROVE  Typed'
<1> DEFINE ended == marker = "EOC" /\ dec.state # "EOC"
           from  == IF ended THEN 0 ELSE dec.cur
           cand  == IF dec.canDecode THEN {from}
                    ELSE {t \in Tiles : t >= from /\ tcp[t].data # <<>>}
           t     == CHOOSE u \in cand : \A v \in cand : u <= v
           dec1  == [dec EXCEPT !.state = IF ended THEN "EOC" ELSE @]
<1>1. CASE Fail
  BY <1>1, FailTyped
<1>2. CASE ~Fail
  <2>1. /\ pc = "tail" /\ pc' \in {"idle", "finish", "decode"}
        /\ UNCHANGED <<str, items, pos, marker, index, out>>
        /\ \/ /\ dec' = [dec1 EXCEPT !.cur = str.nt]
              /\ UNCHANGED tcp
           \/ /\ cand # {}
              /\ dec' = [dec1 EXCEPT !.cur = t, !.hasData = TRUE]
              /\ tcp' = [tcp EXCEPT ![t].merged = tcp[t].ppt]
    BY <1>2 DEF ChooseTile
  <2>2. cand # {} => t \in 0..str.nt
    <3>1. from \in 0..str.nt
      BY NtIs DEF Typed, DecOK
    <3>2. cand \in SUBSET Nat /\ cand \subseteq 0..str.nt
      BY <3>1, NtIs DEF Tiles
    <3> HIDE DEF cand
    <3>3. cand # {} => t \in cand
      BY <3>2, LeastOf
    <3> QED BY <3>2, <3>3
  <2>3. dec1.state \in States /\ DecFields \subseteq DOMAIN dec1
        /\ dec1.tileInd = dec.tileInd /\ dec1.inter = dec.inter /\ dec1.interIdx = dec.interIdx
    BY DEF Typed, DecOK, DecFields, States
  <2>4. Reads
    BY <2>1, Where DEF Reads, Pcs
  <2> HIDE DEF dec1, t, cand
  <2>5. DecOK'
    <3>1. str.nt \in 0..str.nt
      BY NtIs
    <3> QED BY <2>1, <2>2, <2>3, <2>4, <3>1, ReadsStands DEF Typed, DecOK, DecFields
  <2>6. TcpOK'
    <3>1. TcpOK
      BY DEF Typed
    <3>2. SameParts([tcp EXCEPT ![t].merged = tcp[t].ppt])
      BY <3>1, PartsChange, Zenon
    <3>3. CASE UNCHANGED tcp
      BY <2>1, <3>1, <3>3, TcpStays
    <3>4. CASE tcp' = [tcp EXCEPT ![t].merged = tcp[t].ppt]
      <4>1. SameParts(tcp')
        BY <3>2, <3>4, Zenon
      <4> QED BY <2>1, <3>1, <4>1, PartsSame
    <3> QED BY <2>1, <3>3, <3>4
  <2> QED BY <2>1, <2>4, <2>5, <2>6, ReadsStands, IndexStays DEF Typed
<1> QED BY <1>1, <1>2

\* What a decoded tile leaves behind.
LEMMA FreedParts ==
  ASSUME IInv, TcpOK, NEW p, NEW free
  PROVE  SameParts(TileFreed(p, free))
  BY DEF IInv, Kept, Shaped, TcpOK, SameParts, TileFreed

LEMMA TileStepTyped ==
  ASSUME IInv, Typed, TileStep
  PROVE  Typed'
<1>0. TcpOK /\ OutOK
  BY DEF Typed
<1>1. CASE Fail
  BY <1>1, FailTyped
<1>2. CASE ~Fail /\ DecodeTile
  <2> DEFINE reads == ~StreamOver /\ Left > 0
             eoc   == reads /\ At(pos) = "EOC"
             stray == reads /\ At(pos) \notin {"EOC", "SOT"}
             c     == IF eoc THEN 0 ELSE dec.cur
             v     == IF eoc THEN "EOC" ELSE IF stray THEN "NEOC" ELSE dec.state
  <2>1. /\ pc = "decode" /\ tcp[dec.cur].data # <<>>
        /\ out' = [out EXCEPT ![dec.cur] = tcp[dec.cur].data]
        /\ tcp' = TileFreed(dec.cur, call.kind = "header")
        /\ pos' = IF reads THEN pos + 1 ELSE pos
        /\ dec' = [dec EXCEPT !.canDecode = FALSE, !.hasData = FALSE, !.cur = c, !.state = v]
        /\ pc' \in {"idle", "after"}
        /\ UNCHANGED <<str, items, marker, index>>
    BY <1>2 DEF DecodeTile
  <2>2. pos' \in 0..Len(items)
    BY <2>1, Where
  <2>3. c \in 0..str.nt /\ v \in States
    BY NtIs DEF Typed, DecOK, States
  <2> HIDE DEF reads, eoc, stray, c, v
  <2>4. Standing'
    BY <2>1, <2>2, StandsOn DEF Typed, Pcs
  <2>5. Tiles' = Tiles /\ str' = str
    BY <2>1 DEF Tiles
  <2>6. DecOK'
    BY <2>1, <2>3, <2>5 DEF Typed, DecOK, DecFields
  <2>7. TcpOK'
    <3>1. SameParts(TileFreed(dec.cur, call.kind = "header"))
      BY <1>0, FreedParts, Zenon
    <3>2. SameParts(tcp')
      BY <2>1, <3>1, Zenon
    <3> QED BY <1>0, <2>5, <3>2, PartsSame
  <2>8. OutOK'
    BY <1>0, <2>1, <2>5 DEF OutOK, IInv, Kept, Shaped
  <2> QED BY <2>1, <2>4, <2>6, <2>7, <2>8, IndexStays DEF Typed
<1>3. CASE ~Fail /\ (TileRefused \/ AfterDecode \/ AfterTile)
  <2>1. /\ pc \in {"decode", "after"} /\ pc' \in {"refused", "finish", "enter"}
        /\ UNCHANGED <<str, items, marker, dec, index, out>>
    <3>1. CASE TileRefused
      BY <3>1 DEF TileRefused
    <3>2. CASE AfterDecode
      BY <3>2 DEF AfterDecode
    <3>3. CASE AfterTile
      BY <1>3, <3>3 DEF AfterTile
    <3> QED BY <1>3, <3>1, <3>2, <3>3
  <2>2. \/ pos' = pos
        \/ EndPos + 1 \in DOMAIN items /\ pos' = EndPos + 1
        \/ pos' = BehindFirstSot
    BY <1>3 DEF TileRefused, AfterDecode, AfterTile
  <2>3. \E p, free : tcp' = TileFreed(p, free)
    <3>1. \/ tcp' = TileFreed(dec.cur, TRUE)
          \/ tcp' = TileFreed(call.tno, str.nt # 1)
          \/ tcp' = TileFreed(call.tno, TRUE)
      <4>1. CASE TileRefused
        BY <4>1 DEF TileRefused
      <4>2. CASE AfterDecode
        BY <4>2 DEF AfterDecode
      <4>3. CASE AfterTile
        BY <1>3, <4>3 DEF AfterTile
      <4> QED BY <1>3, <4>1, <4>2, <4>3
    <3> QED BY <3>1, Zenon
  <2>4. pos' \in 0..Len(items)
    <3>1. items \in Seq(Item)
      BY ItemsAreItems DEF IInv
    <3>2. BehindFirstSot <= Len(items)
      BY <2>1 DEF Typed, Standing
    <3> QED BY <2>2, <3>1, <3>2, Where
  <2>5. Reads
    BY <2>1, <2>4 DEF Reads, Pcs
  <2>6. TcpOK'
    <3>1. PICK p, free : tcp' = TileFreed(p, free)
      BY <2>3
    <3>2. SameParts(TileFreed(p, free))
      BY <1>0, FreedParts, Zenon
    <3>3. SameParts(tcp')
      BY <3>1, <3>2, Zenon
    <3> QED BY <1>0, <2>1, <3>3, PartsSame
  <2> QED BY <2>1, <2>5, <2>6, ReadsStands, DecStays, IndexStays DEF Typed
<1>4. CASE ~Fail /\ Finish
  <2>1. pc = "finish" /\ pc' = "idle"
        /\ UNCHANGED <<str, items, pos, marker, dec, tcp, index, call, out>>
    BY <1>4 DEF Finish
  <2>2. Reads
    BY <2>1, Where DEF Reads, Pcs
  <2> QED BY <2>1, <2>2, ReadsStands, DecStays, TcpStays, IndexStays DEF Typed
<1> QED BY <1>1, <1>2, <1>3, <1>4 DEF TileStep, DecodeTileFails

LEMMA InitTyped ==
  ASSUME Init
  PROVE  Typed
<1>1. str \in Streams /\ StreamOK(str)
  BY StreamsAssumption DEF Init
<1>2. Standing
  <2>1. items \in Seq(Item)
    BY InitIInv, ItemsAreItems DEF IInv
  <2> QED BY <2>1 DEF Init, Standing, Pcs
<1>3. DecOK
  <2>1. PICK strict \in BOOLEAN : dec =
         [strict |-> strict, state |-> "NONE", seen |-> {}, hasData |-> FALSE,
          canDecode |-> FALSE, lastPart |-> FALSE, skip |-> FALSE, sotLen |-> 0,
          corr |-> 0, corrChecked |-> FALSE, tileInd |-> NoTile,
          tlm |-> str.tlm # <<>>, inter |-> <<>>, interIdx |-> 0, cur |-> 0]
    BY DEF Init
  <2>2. /\ dec.state = "NONE" /\ dec.cur = 0 /\ dec.tileInd = NoTile /\ dec.inter = <<>>
        /\ dec.interIdx = 0 /\ DecFields \subseteq DOMAIN dec
    BY <2>1 DEF DecFields
  <2>3. Len(<<>>) = 0
    OBVIOUS
  <2> QED BY <1>1, <2>2, <2>3 DEF DecOK, States, Tiles, StreamOK
<1>4. TcpOK /\ IndexOK /\ OutOK
  BY DEF Init, TcpOK, IndexOK, OutOK, NewTcp, NewIndex, Nothing
<1> QED BY <1>2, <1>3, <1>4 DEF Typed

LEMMA StillTyped ==
  ASSUME IInv, Typed, UNCHANGED vars
  PROVE  Typed'
<1>1. /\ Standing' /\ UNCHANGED <<str, dec, tcp, index, out>>
  BY DEF vars, Typed, Standing, BehindFirstSot
<1> QED BY <1>1, DecStays, TcpStays, IndexStays, OutStays DEF Typed

LEMMA StepTyped ==
  ASSUME IInv, Typed, [Next]_vars
  PROVE  Typed'
<1>1. CASE UNCHANGED vars
  BY <1>1, StillTyped
<1>2. CASE Next
  BY <1>2, HeaderTyped, ClientTyped, QuietTyped, ReadSotTyped, MarkerTyped, ReadSodTyped,
     CorrectionTyped, NextMarkerTyped, ChooseTileTyped, TileStepTyped
     DEF Next, TilePartStep
<1> QED BY <1>1, <1>2

\* The records keep the types of the C fields they stand for: wherever the code seeks
\* (j2k.c:9737, 9920, 12014, 12228, 12286), reads or skips, it stays inside the file,
\* and m_current_tile_number is a tile or, when none is left, the number of tiles.
THEOREM TypeCorrect == Spec => []TypeOK
<1>1. IInv /\ Typed => TypeOK
  BY DEF IInv, Placed, Typed, Standing, DecOK, TcpOK, IndexOK, OutOK, TypeOK
<1> QED BY InitIInv, StepIInv, InitTyped, StepTyped, <1>1, PTL DEF Spec

(* Where the tile-parts stand in a file. *)
Parted(s) == [i \in 1..Len(s.parts) |-> PartItems(s, i)]
Off(s, i) == MainHeadEnd(s) + Len(Joint(Parted(s), i - 1))

\* the length of the header of a tile-part, up to SOD
HeadLen(s, i) == IF s.parts[i].ppt THEN 5 ELSE 3

PartShape(s, i) ==
    LET p == PartItems(s, i) IN
    /\ PartLen(s, i) = HeadLen(s, i) + s.parts[i].len
    /\ p[1] = <<"SOT", i, 0>> /\ p[2] = <<"sot", i, 0>>
    /\ s.parts[i].ppt => p[3] = <<"PPT", i, 0>> /\ p[4] = <<"ppt", i, 0>>
    /\ p[HeadLen(s, i)] = <<"SOD", i, 0>>
    /\ \A k \in 1..s.parts[i].len : p[HeadLen(s, i) + k] = <<"data", i, k>>

\* c is a, then b
JoinOf(c, a, b) ==
    /\ Len(c) = Len(a) + Len(b)
    /\ \A k \in 1..(Len(a) + Len(b)) : c[k] = IF k <= Len(a) THEN a[k] ELSE b[k - Len(a)]

LEMMA ConcatAt ==
  ASSUME NEW X, NEW a \in Seq(X), NEW b \in Seq(X)
  PROVE  a \o b \in Seq(X) /\ JoinOf(a \o b, a, b)
  BY ConcatProperties, Zenon DEF JoinOf

LEMMA PartShapeIs ==
  ASSUME NEW s, StreamOK(s), NEW i \in DOMAIN s.parts
  PROVE  PartShape(s, i)
<1> DEFINE X == {<<"SOT", i, 0>>, <<"sot", i, 0>>, <<"PPT", i, 0>>, <<"ppt", i, 0>>, <<"SOD", i, 0>>}
                \cup {<<"data", i, k>> : k \in 1..s.parts[i].len}
           a == <<<<"SOT", i, 0>>, <<"sot", i, 0>>>>
           b == IF s.parts[i].ppt THEN <<<<"PPT", i, 0>>, <<"ppt", i, 0>>>> ELSE <<>>
           c == <<<<"SOD", i, 0>>>>
           L == s.parts[i].len
           d == [k \in 1..L |-> <<"data", i, k>>]
<1>0. i \in Nat /\ L \in Nat /\ s.parts[i].ppt \in BOOLEAN
  BY PartsAre
<1>1. a \in Seq(X) /\ c \in Seq(X) /\ d \in Seq(X) /\ Len(a) = 2 /\ Len(c) = 1 /\ Len(d) = L
  <2>1. \A x, y \in X : <<x, y>> \in Seq(X) /\ <<x>> \in Seq(X) /\ Len(<<x, y>>) = 2 /\ Len(<<x>>) = 1
    OBVIOUS
  <2>2. d \in [1..L -> X]
    OBVIOUS
  <2> QED BY <1>0, <2>1, <2>2
<1>2. b \in Seq(X) /\ Len(b) = IF s.parts[i].ppt THEN 2 ELSE 0
  <2>1. \A x, y \in X : <<x, y>> \in Seq(X) /\ Len(<<x, y>>) = 2
    OBVIOUS
  <2>2. <<>> \in Seq(X) /\ Len(<<>>) = 0 /\ <<"PPT", i, 0>> \in X /\ <<"ppt", i, 0>> \in X
    OBVIOUS
  <2> HIDE DEF X
  <2> QED BY <1>0, <2>1, <2>2
<1>3. /\ a[1] = <<"SOT", i, 0>> /\ a[2] = <<"sot", i, 0>> /\ c[1] = <<"SOD", i, 0>>
      /\ s.parts[i].ppt => b[1] = <<"PPT", i, 0>> /\ b[2] = <<"ppt", i, 0>>
      /\ \A k \in 1..L : d[k] = <<"data", i, k>>
  OBVIOUS
<1>4. PartItems(s, i) = a \o b \o c \o d
  BY DEF PartItems
<1> HIDE DEF X, a, b, c, d
<1> DEFINE ab == a \o b
           abc == ab \o c
           p == abc \o d
<1>5. ab \in Seq(X) /\ JoinOf(ab, a, b)
  BY <1>1, <1>2, ConcatAt, Zenon
<1> HIDE DEF ab
<1>6. abc \in Seq(X) /\ JoinOf(abc, ab, c)
  BY <1>1, <1>5, ConcatAt, Zenon
<1> HIDE DEF abc
<1>7. p \in Seq(X) /\ JoinOf(p, abc, d)
  BY <1>1, <1>6, ConcatAt, Zenon
<1>8. p = PartItems(s, i)
  BY <1>4 DEF ab, abc
<1> HIDE DEF p
<1>9. Len(p) = HeadLen(s, i) + L /\ Len(abc) = HeadLen(s, i) /\ HeadLen(s, i) = Len(b) + 3
  BY <1>0, <1>1, <1>2, <1>5, <1>6, <1>7 DEF HeadLen, JoinOf
<1>10. p[1] = a[1] /\ p[2] = a[2]
  <2>1. ab[1] = a[1] /\ ab[2] = a[2]
    BY <1>1, <1>2, <1>5 DEF JoinOf
  <2>2. abc[1] = ab[1] /\ abc[2] = ab[2]
    BY <1>1, <1>2, <1>5, <1>6 DEF JoinOf
  <2>3. p[1] = abc[1] /\ p[2] = abc[2]
    BY <1>0, <1>1, <1>2, <1>7, <1>9 DEF JoinOf
  <2> QED BY <2>1, <2>2, <2>3
<1>11. s.parts[i].ppt => p[3] = b[1] /\ p[4] = b[2]
  <2> SUFFICES ASSUME s.parts[i].ppt PROVE p[3] = b[1] /\ p[4] = b[2]
    OBVIOUS
  <2>1. ab[3] = b[1] /\ ab[4] = b[2]
    BY <1>1, <1>2, <1>5 DEF JoinOf
  <2>2. abc[3] = ab[3] /\ abc[4] = ab[4]
    BY <1>1, <1>2, <1>5, <1>6 DEF JoinOf
  <2>3. p[3] = abc[3] /\ p[4] = abc[4]
    <3>1. Len(abc) = 5 /\ Len(d) \in Nat
      BY <1>0, <1>1, <1>2, <1>9
    <3>2. 3 \in 1..(Len(abc) + Len(d)) /\ 4 \in 1..(Len(abc) + Len(d))
      BY <3>1
    <3> QED BY <1>7, <3>1, <3>2 DEF JoinOf
  <2> QED BY <2>1, <2>2, <2>3
<1>12. p[HeadLen(s, i)] = c[1]
  <2>1. abc[HeadLen(s, i)] = c[1]
    BY <1>1, <1>2, <1>5, <1>6, <1>9 DEF JoinOf
  <2> QED BY <1>0, <1>1, <1>2, <1>7, <1>9, <2>1 DEF JoinOf
<1>13. \A k \in 1..L : p[HeadLen(s, i) + k] = d[k]
  BY <1>0, <1>1, <1>2, <1>7, <1>9 DEF JoinOf
<1> QED BY <1>3, <1>8, <1>9, <1>10, <1>11, <1>12, <1>13 DEF PartShape, PartLen

\* The file behind the main header: the tile-parts one behind the other, then perhaps EOC.
Laid(s) ==
    /\ Len(Items(s)) \in Nat
    /\ \A i \in 1..Len(s.parts) : Off(s, i) \in Nat /\ Off(s, i) > 0
    /\ \A i \in 1..Len(s.parts) : i + 1 <= Len(s.parts) => Off(s, i + 1) = Off(s, i) + PartLen(s, i)
    /\ \A i \in 1..Len(s.parts) : \A j \in 1..PartLen(s, i) :
          Off(s, i) + j <= Len(Items(s)) => Items(s)[Off(s, i) + j] = PartItems(s, i)[j]
    /\ \A m \in 1..Len(Items(s)) : Items(s)[m][1] \in PartKinds =>
          \E i \in 1..Len(s.parts) : \E j \in 1..PartLen(s, i) : m = Off(s, i) + j
    /\ \A i \in 1..Len(s.parts) : LET m == Off(s, i) + PartLen(s, i) + 1 IN
          m <= Len(Items(s)) => Items(s)[m][1] \in {"SOT", "EOC"}

LEMMA LaidOut ==
  ASSUME NEW s, StreamOK(s)
  PROVE  Laid(s)
<1> DEFINE P == PartItem(s)
           head == MainHeader(s)
           N == Len(s.parts)
           f == Parted(s)
           J == Joint(f, N)
           last == IF s.eoc THEN <<<<"EOC", 0, 0>>>> ELSE <<>>
           body == head \o J
           all == body \o last
           E == MainHeadEnd(s)
<1>1. head \in Seq(P) /\ Len(head) = E /\ E \in Nat \ {0}
  <2>1. HeadItem(s) \subseteq P
    BY DEF HeadItem
  <2> QED BY <2>1, MainHeaderIs, SeqMonotonic, Zenon DEF MainHeadEnd
<1>2. /\ N \in Nat /\ DOMAIN s.parts = 1..N
      /\ \A i \in 1..N : f[i] = PartItems(s, i) /\ f[i] \in Seq(P) /\ Len(f[i]) = PartLen(s, i)
  <2>1. N \in Nat /\ DOMAIN s.parts = 1..N
    BY LenProperties, Zenon DEF StreamOK
  <2>2. \A i \in 1..N : f[i] = PartItems(s, i)
    BY DEF Parted
  <2> HIDE DEF P
  <2> QED BY <2>1, <2>2, PartItemsAre DEF PartLen, P
<1>3. Sequences(f, P, N)
  BY <1>2 DEF Sequences
<1>4. \A n \in 0..N : Joint(f, n) \in Seq(P) /\ Len(Joint(f, n)) \in Nat
  <2> SUFFICES ASSUME NEW n \in 0..N PROVE Joint(f, n) \in Seq(P)
    BY LenProperties
  <2> DEFINE a == [k \in 1..n |-> f[k]]
  <2>1. a \in Seq(Seq(P))
    BY <1>2, <1>3 DEF Sequences
  <2> QED BY <2>1, FlattenIn DEF Joint
<1>5. \A n \in 0..(N - 1) : Joint(f, n + 1) = Joint(f, n) \o f[n + 1]
  <2> SUFFICES ASSUME NEW n \in 0..(N - 1) PROVE Joint(f, n + 1) = Joint(f, n) \o f[n + 1]
    OBVIOUS
  <2>1. n \in Nat /\ \A k \in 1..(n + 1) : f[k] \in Seq(P)
    BY <1>2
  <2> QED BY <2>1, JointStep
<1>6. JointPlace(f, N)
  BY <1>2, <1>3, JointAt
<1>7. last \in Seq(P) /\ \A k \in 1..Len(last) : last[k][1] = "EOC"
  <2>1. <<"EOC", 0, 0>> \in P
    <3>1. 0 \in Nat /\ "EOC" # "sot"
      OBVIOUS
    <3>2. "EOC" \in ItemKinds
      BY DEF ItemKinds
    <3> QED BY <3>1, <3>2, ItemIs, Zenon
  <2> HIDE DEF P
  <2> QED BY <2>1
<1>8. Items(s) = SubSeq(all, 1, Len(all) - s.cut)
  <2>1. [i \in 1..N |-> PartItems(s, i)] = [k \in 1..N |-> f[k]]
    BY <1>2
  <2>2. FlattenSeq([i \in 1..N |-> PartItems(s, i)]) = J
    BY <2>1 DEF Joint
  <2> QED BY <2>2 DEF Items, last
<1> HIDE DEF P, last, f, N
<1>9. J \in Seq(P) /\ Len(J) \in Nat
  BY <1>2, <1>4
<1> HIDE DEF J, E, head
<1>10. /\ body \in Seq(P) /\ Len(body) = E + Len(J)
       /\ \A k \in 1..(E + Len(J)) : body[k] = IF k <= E THEN head[k] ELSE J[k - E]
  <2>1. /\ body \in Seq(P) /\ Len(body) = Len(head) + Len(J)
        /\ \A k \in 1..(Len(head) + Len(J)) : body[k] = IF k <= Len(head) THEN head[k] ELSE J[k - Len(head)]
    BY <1>1, <1>9, ConcatProperties, Zenon
  <2> HIDE DEF body
  <2> QED BY <1>1, <2>1
<1> HIDE DEF body
<1>11. /\ all \in Seq(P) /\ Len(all) = Len(body) + Len(last) /\ Len(last) \in Nat
       /\ \A k \in 1..(Len(body) + Len(last)) : all[k] = IF k <= Len(body) THEN body[k] ELSE last[k - Len(body)]
  BY <1>7, <1>10, ConcatProperties, LenProperties, Zenon
<1> HIDE DEF all
<1>12. /\ Len(Items(s)) \in 0..Len(all)
       /\ \A k \in 1..Len(Items(s)) : Items(s)[k] = all[k]
  <2> DEFINE n == Len(all) - s.cut
  <2>0. s.cut \in Nat /\ Len(all) \in Nat
    BY <1>11, LenProperties DEF StreamOK
  <2>1. n \in Int /\ n <= Len(all) /\ \A k \in 1..n : all[k] \in P
    BY <1>11, <2>0
  <2> HIDE DEF n
  <2>2. /\ SubSeq(all, 1, n) \in Seq(P)
        /\ Len(SubSeq(all, 1, n)) = IF 1 <= n THEN n - 1 + 1 ELSE 0
        /\ \A k \in 1..(n - 1 + 1) : SubSeq(all, 1, n)[k] = all[1 + k - 1]
    BY <2>1, SubSeqProperties
  <2>3. Items(s) = SubSeq(all, 1, n)
    BY <1>8 DEF n
  <2> QED BY <2>0, <2>1, <2>2, <2>3
<1> DEFINE I == Items(s)
<1>13. Len(I) \in Nat /\ Len(I) <= Len(body) + Len(last) /\ Len(all) \in Nat
  BY <1>11, <1>12, LenProperties
<1>14. /\ \A m \in 1..Len(I) : m <= E => I[m] = head[m]
       /\ \A m \in 1..Len(I) : m > E /\ m <= E + Len(J) => m - E \in 1..Len(J) /\ I[m] = J[m - E]
       /\ \A m \in 1..Len(I) : m > E + Len(J) => I[m][1] = "EOC"
  <2> SUFFICES ASSUME NEW m \in 1..Len(I)
               PROVE  /\ m <= E => I[m] = head[m]
                      /\ m > E /\ m <= E + Len(J) => m - E \in 1..Len(J) /\ I[m] = J[m - E]
                      /\ m > E + Len(J) => I[m][1] = "EOC"
    OBVIOUS
  <2>1. m \in Nat /\ m >= 1 /\ m \in 1..(Len(body) + Len(last)) /\ I[m] = all[m]
    BY <1>1, <1>9, <1>10, <1>11, <1>12, <1>13
  <2>2. all[m] = IF m <= Len(body) THEN body[m] ELSE last[m - Len(body)]
    BY <1>11, <2>1
  <2>3. CASE m <= E + Len(J)
    <3>1. m \in 1..(E + Len(J)) /\ m <= Len(body)
      BY <1>1, <1>9, <1>10, <2>1, <2>3
    <3>2. I[m] = IF m <= E THEN head[m] ELSE J[m - E]
      BY <1>10, <2>1, <2>2, <3>1
    <3> QED BY <1>1, <1>9, <2>1, <2>3, <3>2
  <2>4. CASE m > E + Len(J)
    <3>1. m - Len(body) \in 1..Len(last) /\ ~(m <= Len(body))
      BY <1>1, <1>9, <1>10, <1>11, <1>13, <2>1, <2>4
    <3> QED BY <1>1, <1>7, <1>9, <2>1, <2>2, <2>4, <3>1
  <2> QED BY <1>1, <1>9, <2>1, <2>3, <2>4
<1>15. \A i \in 1..N : /\ Off(s, i) = E + Len(Joint(f, i - 1)) /\ i - 1 \in 0..N
                       /\ Len(Joint(f, i - 1)) \in Nat /\ PartLen(s, i) \in Nat /\ PartLen(s, i) >= 3
                       /\ Len(Joint(f, i)) = Len(Joint(f, i - 1)) + PartLen(s, i)
  <2> SUFFICES ASSUME NEW i \in 1..N
               PROVE  /\ Off(s, i) = E + Len(Joint(f, i - 1)) /\ i - 1 \in 0..N
                      /\ Len(Joint(f, i - 1)) \in Nat /\ PartLen(s, i) \in Nat /\ PartLen(s, i) >= 3
                      /\ Len(Joint(f, i)) = Len(Joint(f, i - 1)) + PartLen(s, i)
    OBVIOUS
  <2>1. i - 1 \in 0..N /\ i - 1 \in 0..(N - 1) /\ (i - 1) + 1 = i /\ i \in DOMAIN s.parts
    BY <1>2
  <2>2. Joint(f, i - 1) \in Seq(P) /\ f[i] \in Seq(P) /\ Len(f[i]) = PartLen(s, i)
    BY <1>2, <1>4, <2>1
  <2>3. Joint(f, i) = Joint(f, i - 1) \o f[i]
    BY <1>5, <2>1
  <2>4. Len(Joint(f, i)) = Len(Joint(f, i - 1)) + Len(f[i])
    BY <2>2, <2>3, ConcatProperties
  <2>5. PartLen(s, i) \in Nat /\ PartLen(s, i) >= 3
    BY <2>1, PartItemsAre
  <2>6. Off(s, i) = E + Len(Joint(f, i - 1))
    BY DEF Off, f, E
  <2>7. Len(Joint(f, i - 1)) \in Nat
    BY <1>4, <2>1
  <2> QED BY <2>1, <2>2, <2>4, <2>5, <2>6, <2>7
<1>16. /\ \A i \in 1..N : Off(s, i) \in Nat /\ Off(s, i) > 0
       /\ \A i \in 1..N : i + 1 <= N => Off(s, i + 1) = Off(s, i) + PartLen(s, i)
  <2>1. \A i \in 1..N : i + 1 <= N => i + 1 \in 1..N /\ (i + 1) - 1 = i
    BY <1>2
  <2>2. \A i \in 1..N : i + 1 <= N => Off(s, i + 1) = Off(s, i) + PartLen(s, i)
    <3> SUFFICES ASSUME NEW i \in 1..N, i + 1 <= N PROVE Off(s, i + 1) = Off(s, i) + PartLen(s, i)
      OBVIOUS
    <3>1. Off(s, i + 1) = E + Len(Joint(f, i))
      BY <1>15, <2>1
    <3>2. /\ Off(s, i) = E + Len(Joint(f, i - 1)) /\ Len(Joint(f, i - 1)) \in Nat /\ PartLen(s, i) \in Nat
          /\ Len(Joint(f, i)) = Len(Joint(f, i - 1)) + PartLen(s, i)
      BY <1>15
    <3> HIDE DEF N
    <3> QED BY <1>1, <3>1, <3>2
  <2>3. \A i \in 1..N : Off(s, i) \in Nat /\ Off(s, i) > 0
    BY <1>1, <1>15
  <2> QED BY <2>2, <2>3
<1>17. \A i \in 1..N : \A j \in 1..PartLen(s, i) : /\ Len(Joint(f, i - 1)) + j \in 1..Len(J)
                                                   /\ J[Len(Joint(f, i - 1)) + j] = PartItems(s, i)[j]
  <2> SUFFICES ASSUME NEW i \in 1..N, NEW j \in 1..PartLen(s, i)
               PROVE  /\ Len(Joint(f, i - 1)) + j \in 1..Len(J)
                      /\ J[Len(Joint(f, i - 1)) + j] = PartItems(s, i)[j]
    OBVIOUS
  <2>1. f[i] = PartItems(s, i) /\ Len(f[i]) = PartLen(s, i) /\ J = Joint(f, N)
    BY <1>2 DEF J
  <2>2. j \in 1..Len(f[i])
    BY <2>1
  <2>3. /\ Len(Joint(f, i - 1)) + j \in 1..Len(Joint(f, N))
        /\ Joint(f, N)[Len(Joint(f, i - 1)) + j] = f[i][j]
    BY <1>6, <2>2, Zenon DEF JointPlace
  <2> QED BY <2>1, <2>3, Zenon
<1>18. \A i \in 1..N : \A j \in 1..PartLen(s, i) :
          Off(s, i) + j <= Len(I) => I[Off(s, i) + j] = PartItems(s, i)[j]
  <2> SUFFICES ASSUME NEW i \in 1..N, NEW j \in 1..PartLen(s, i), Off(s, i) + j <= Len(I)
               PROVE  I[Off(s, i) + j] = PartItems(s, i)[j]
    OBVIOUS
  <2> DEFINE q == Len(Joint(f, i - 1))
             m == Off(s, i) + j
  <2>1. q \in Nat /\ q + j \in 1..Len(J) /\ J[q + j] = PartItems(s, i)[j] /\ Off(s, i) = E + q
    BY <1>15, <1>17
  <2> HIDE DEF q
  <2>2. m \in 1..Len(I) /\ m > E /\ m <= E + Len(J) /\ m - E = q + j
    BY <1>1, <1>9, <1>13, <2>1
  <2> HIDE DEF m
  <2>3. I[m] = J[m - E]
    BY <1>14, <2>2
  <2> QED BY <2>1, <2>2, <2>3 DEF m
<1>19. \A m \in 1..Len(I) : I[m][1] \in PartKinds =>
          \E i \in 1..N : \E j \in 1..PartLen(s, i) : m = Off(s, i) + j
  <2> SUFFICES ASSUME NEW m \in 1..Len(I), I[m][1] \in PartKinds
               PROVE  \E i \in 1..N : \E j \in 1..PartLen(s, i) : m = Off(s, i) + j
    OBVIOUS
  <2>1. ~(m <= E)
    <3> SUFFICES ASSUME m <= E PROVE FALSE
      OBVIOUS
    <3>1. m \in 1..Len(head) /\ I[m] = head[m]
      BY <1>1, <1>13, <1>14
    <3>2. head[m] \in HeadItem(s)
      <4>1. MainHeader(s) \in Seq(HeadItem(s))
        BY MainHeaderIs
      <4> QED BY <3>1, <4>1, ElementOfSeq DEF head
    <3> QED BY <3>1, <3>2 DEF HeadItem
  <2>2. ~(m > E + Len(J))
    BY <1>14 DEF PartKinds
  <2>3. m - E \in 1..Len(J)
    BY <1>1, <1>9, <1>13, <1>14, <2>1, <2>2
  <2>4. PICK i \in 1..N : \E j \in 1..Len(f[i]) : m - E = Len(Joint(f, i - 1)) + j
    BY <1>6, <2>3 DEF JointPlace, J
  <2>5. PICK j \in 1..Len(f[i]) : m - E = Len(Joint(f, i - 1)) + j
    BY <2>4
  <2>6. j \in 1..PartLen(s, i) /\ m = Off(s, i) + j
    <3>1. Len(f[i]) = PartLen(s, i) /\ Off(s, i) = E + Len(Joint(f, i - 1)) /\ Len(Joint(f, i - 1)) \in Nat
          /\ PartLen(s, i) \in Nat
      BY <1>2, <1>15
    <3>2. j \in 1..PartLen(s, i) /\ j \in Nat /\ m \in Nat
      BY <1>13, <3>1
    <3> QED BY <1>1, <2>5, <3>1, <3>2
  <2> QED BY <2>6
<1>20. \A i \in 1..N : LET m == Off(s, i) + PartLen(s, i) + 1 IN
          m <= Len(I) => I[m][1] \in {"SOT", "EOC"}
  <2> SUFFICES ASSUME NEW i \in 1..N, Off(s, i) + PartLen(s, i) + 1 <= Len(I)
               PROVE  I[Off(s, i) + PartLen(s, i) + 1][1] \in {"SOT", "EOC"}
    OBVIOUS
  <2>1. CASE i + 1 <= N
    <3>1. i + 1 \in 1..N /\ 1 \in 1..PartLen(s, i + 1) /\ i + 1 \in DOMAIN s.parts
      BY <1>2, <1>15, <2>1
    <3>2. Off(s, i + 1) = Off(s, i) + PartLen(s, i)
      BY <1>16, <2>1
    <3>3. I[Off(s, i + 1) + 1] = PartItems(s, i + 1)[1]
      BY <1>18, <3>1, <3>2
    <3>4. PartItems(s, i + 1)[1] = <<"SOT", i + 1, 0>>
      BY <3>1, PartShapeIs DEF PartShape
    <3> QED BY <3>2, <3>3, <3>4
  <2>2. CASE ~(i + 1 <= N)
    <3>1. i = N /\ Off(s, i) + PartLen(s, i) = E + Len(J)
      <4>1. i = N
        BY <1>2, <2>2
      <4>2. /\ Off(s, i) = E + Len(Joint(f, i - 1)) /\ Len(Joint(f, i - 1)) \in Nat /\ PartLen(s, i) \in Nat
            /\ Len(Joint(f, i)) = Len(Joint(f, i - 1)) + PartLen(s, i)
        BY <1>15
      <4>3. Joint(f, i) = J
        BY <4>1 DEF J
      <4> HIDE DEF N
      <4> QED BY <1>1, <4>1, <4>2, <4>3
    <3> DEFINE m == Off(s, i) + PartLen(s, i) + 1
    <3>2. m \in 1..Len(I) /\ m > E + Len(J)
      BY <1>1, <1>9, <1>13, <3>1
    <3> HIDE DEF m
    <3>3. I[m][1] = "EOC"
      BY <1>14, <3>2
    <3> QED BY <3>3 DEF m
  <2> QED BY <2>1, <2>2
<1> QED BY <1>13, <1>16, <1>18, <1>19, <1>20 DEF Laid, N

-----------------------------------------------------------------------------
(* The records.                                                            *)
DecNames   == {"strict", "state", "seen", "hasData", "canDecode", "lastPart", "skip", "sotLen",
               "corr", "corrChecked", "tileInd", "tlm", "inter", "interIdx", "cur"}
TcpNames   == {"tpno", "nb", "data", "ppt", "merged"}
IndexNames == {"nbTps", "alloc", "start"}
CallNames  == {"kind", "n", "area", "whole", "tno", "nr", "more"}

\* every structure has its fields, and every tile its structures
DecFull   == DOMAIN dec = DecNames
TcpFull   == DOMAIN tcp = Tiles /\ \A t \in Tiles : DOMAIN tcp[t] = TcpNames
IndexFull == DOMAIN index = Tiles /\ \A t \in Tiles : DOMAIN index[t] = IndexNames
CallFull  == DOMAIN call = CallNames
OutFull   == DOMAIN out = Tiles
Full == DecFull /\ TcpFull /\ IndexFull /\ CallFull /\ OutFull

LEMMA NotFull ==
  ASSUME Full, UNCHANGED str
  PROVE  /\ UNCHANGED dec => DecFull'
         /\ UNCHANGED tcp => TcpFull'
         /\ UNCHANGED index => IndexFull'
         /\ UNCHANGED call => CallFull'
         /\ UNCHANGED out => OutFull'
  BY DEF Full, DecFull, TcpFull, IndexFull, CallFull, OutFull, Tiles

LEMMA FailFull ==
  ASSUME Full, Fail
  PROVE  Full'
  BY DEF Full, DecFull, TcpFull, IndexFull, CallFull, OutFull, Tiles, Fail

LEMMA InitFull ==
  ASSUME Init
  PROVE  Full
<1>1. DecFull
  BY DEF Init, DecFull, DecNames
<1>2. TcpFull /\ IndexFull /\ CallFull /\ OutFull
  BY DEF Init, TcpFull, IndexFull, CallFull, OutFull, NewTcp, NewIndex, TcpNames, IndexNames, CallNames
<1> QED BY <1>1, <1>2 DEF Full

LEMMA HeaderFull ==
  ASSUME Full, ReadHeader
  PROVE  Full'
<1>1. CASE Fail
  BY <1>1, FailFull
<1>2. CASE ~Fail
  <2>1. UNCHANGED <<str, tcp, call, out>>
    BY <1>2 DEF ReadHeader, ReadSoc, ReadMainMarker, MainHeaderDone
  <2>2. \/ \E v : dec' = [dec EXCEPT !.state = v]
        \/ \E v, w : dec' = [dec EXCEPT !.seen = v, !.state = w]
        \/ \E v, w : dec' = [dec EXCEPT !.state = v, !.tlm = w]
    BY <1>2 DEF ReadHeader, ReadSoc, ReadMainMarker, MainHeaderDone
  <2>3. DecFull'
    BY <2>2 DEF Full, DecFull
  <2>4. UNCHANGED index \/ index' = [t \in Tiles |-> TlmIndex(t)]
    BY <1>2 DEF ReadHeader, ReadSoc, ReadMainMarker, MainHeaderDone
  <2>5. IndexFull'
    <3>1. CASE UNCHANGED index
      BY <2>1, <3>1, NotFull
    <3>2. CASE index' = [t \in Tiles |-> TlmIndex(t)]
      <4>1. \A t \in Tiles : DOMAIN TlmIndex(t) = IndexNames
        BY DEF TlmIndex, IndexNames
      <4> QED BY <2>1, <3>2, <4>1 DEF IndexFull, Tiles
    <3> QED BY <2>4, <3>1, <3>2
  <2> QED BY <2>1, <2>3, <2>5, NotFull DEF Full
<1> QED BY <1>1, <1>2

LEMMA ClientFull ==
  ASSUME Full, Client
  PROVE  Full'
<1>1. CASE Fail
  BY <1>1, FailFull
<1>2. CASE ~Fail
  <2>1. UNCHANGED <<str, index>>
    BY <1>2 DEF Client, SetAreaAndDecode, GetTile, ReadTileHeader, DecodeTileData
  <2>2. CallFull' /\ OutFull'
    <3>1. (\E a, w : NewCall(a, w)) \/ UNCHANGED <<call, out>>
      BY <1>2 DEF Client, SetAreaAndDecode, GetTile, ReadTileHeader, DecodeTileData
    <3> QED BY <2>1, <3>1, NotFull DEF Full, NewCall, CallFull, OutFull, Tiles
  <2>3. DecFull'
    <3>1. \/ UNCHANGED dec
          \/ dec' = [dec EXCEPT !.cur = 0, !.hasData = TRUE, !.inter = <<>>, !.interIdx = 0]
          \/ \E v : dec' = [dec EXCEPT !.interIdx = 0, !.inter = v]
          \/ \E v, w : dec' = [dec EXCEPT !.tileInd = v, !.state = w]
      BY <1>2 DEF Client, SetAreaAndDecode, GetTile, ReadTileHeader, DecodeTileData
    <3> QED BY <3>1 DEF Full, DecFull
  <2>4. TcpFull'
    <3>1. UNCHANGED tcp \/ tcp' = [u \in Tiles |-> [tcp[u] EXCEPT !.tpno = -1]]
      BY <1>2 DEF Client, SetAreaAndDecode, GetTile, ReadTileHeader, DecodeTileData
    <3> QED BY <2>1, <3>1 DEF Full, TcpFull, Tiles
  <2> QED BY <2>1, <2>2, <2>3, <2>4, NotFull DEF Full
<1> QED BY <1>1, <1>2

(* What the longer actions do, field by field. *)
DecSame(S)    == \A x \in DecNames \ S : dec'[x] = dec[x]
TcpSame(t, S) == \A x \in TcpNames \ S : tcp'[t][x] = tcp[t][x]

SotStep(i, n, nb, last, len, skip, tlm, done, next) ==
    LET p == str.parts[i] IN
    /\ pc = "segment" /\ marker = "SOT" /\ Left > 0 /\ At(pos) = "sot" /\ dec.state = "TPHSOT"
    /\ i = items[pos + 1][2]
    /\ n = IF p.tn = 0 THEN 0 ELSE p.tn + dec.corr
    /\ nb = IF n # 0 THEN n ELSE tcp[p.tile].nb
    /\ last = (dec.lastPart \/ Psot(str, i) = 0)
    /\ len = IF last THEN 0 ELSE Psot(str, i) - 2
    /\ skip = IF dec.tileInd = NoTile THEN p.tile \notin call.area ELSE p.tile # dec.tileInd
    /\ tlm = (dec.tlm /\ n <= index[p.tile].nbTps)
    /\ done = (dec.canDecode \/ (nb # 0 /\ nb = p.tp + 1))
    /\ next = pos + 1 + (IF skip THEN len ELSE 1)
    /\ SotAccepted(p, n) /\ next <= Len(items)
    /\ dec' = [dec EXCEPT !.cur = p.tile, !.lastPart = last, !.sotLen = len,
                          !.canDecode = done, !.state = "TPH", !.skip = skip, !.tlm = tlm]
    /\ tcp' = [tcp EXCEPT ![p.tile].tpno = p.tp, ![p.tile].nb = nb]
    /\ index' = [index EXCEPT ![p.tile] = SotIndexed(p, n, pos - 1, tlm)]
    /\ pos' = next
    /\ marker' = IF skip THEN "SOD" ELSE At(next - 1)
    /\ UNCHANGED <<str, items, pc, call, out>>

LEMMA SotSteps ==
  ASSUME ReadSot, ~Fail
  PROVE  \E i, n, nb, last, len, skip, tlm, done, next :
            SotStep(i, n, nb, last, len, skip, tlm, done, next)
<1> DEFINE i    == items[pos + 1][2]
           p    == str.parts[i]
           n    == IF p.tn = 0 THEN 0 ELSE p.tn + dec.corr
           nb   == IF n # 0 THEN n ELSE tcp[p.tile].nb
           last == dec.lastPart \/ Psot(str, i) = 0
           len  == IF last THEN 0 ELSE Psot(str, i) - 2
           skip == IF dec.tileInd = NoTile THEN p.tile \notin call.area
                                           ELSE p.tile # dec.tileInd
           tlm  == dec.tlm /\ n <= index[p.tile].nbTps
           next == pos + 1 + (IF skip THEN len ELSE 1)
           done == dec.canDecode \/ (nb # 0 /\ nb = p.tp + 1)
<1>1. SotStep(i, n, nb, last, len, skip, tlm, done, next)
  BY Zenon DEF ReadSot, SotStep
<1> QED BY <1>1

LEMMA PartStepFull ==
  ASSUME Full, TilePartStep
  PROVE  Full'
<1>1. CASE Fail
  BY <1>1, FailFull
<1>2. CASE ~Fail
  <2>1. UNCHANGED <<str, out>>
    BY <1>2 DEF TilePartStep, EnterHeader, LeaveLoop, SeekIntersecting, ReadOn, EndOfStream,
       ReadSot, ReadTilePartMarker, ReadSod, SkipData, JumpByTlm, CheckCorrection, NextMarker, ChooseTile
  <2>2. CASE ReadSot
    <3>1. PICK i, n, nb, last, len, skip, tlm, done, next :
            SotStep(i, n, nb, last, len, skip, tlm, done, next)
      BY <1>2, <2>2, SotSteps
    <3> DEFINE p == str.parts[i]
               e == SotIndexed(p, n, pos - 1, tlm)
    <3>2. /\ dec' = [dec EXCEPT !.cur = p.tile, !.lastPart = last, !.sotLen = len,
                          !.canDecode = done, !.state = "TPH", !.skip = skip, !.tlm = tlm]
          /\ tcp' = [tcp EXCEPT ![p.tile].tpno = p.tp, ![p.tile].nb = nb]
          /\ index' = [index EXCEPT ![p.tile] = e]
          /\ UNCHANGED call
      BY <3>1 DEF SotStep
    <3>3. DOMAIN e = IndexNames
      BY DEF SotIndexed, IndexNames
    <3> HIDE DEF p, e
    <3>4. DecFull' /\ TcpFull' /\ IndexFull'
      BY <2>1, <3>2, <3>3 DEF Full, DecFull, TcpFull, IndexFull, Tiles
    <3> QED BY <2>1, <3>2, <3>4, NotFull DEF Full
  <2>3. CASE ReadTilePartMarker
    <3>1. /\ \E v : dec' = [dec EXCEPT !.sotLen = v]
          /\ tcp' = [tcp EXCEPT ![dec.cur].ppt = TRUE]
          /\ UNCHANGED <<index, call>>
      BY <1>2, <2>3 DEF ReadTilePartMarker
    <3> QED BY <2>1, <3>1, NotFull DEF Full, DecFull, TcpFull, Tiles
  <2>4. CASE ReadSod
    <3>1. /\ \E v, w : dec' = [dec EXCEPT !.sotLen = v, !.state = w]
          /\ \E v : tcp' = [tcp EXCEPT ![dec.cur].data = v]
          /\ UNCHANGED <<index, call>>
      BY <1>2, <2>4 DEF ReadSod
    <3> QED BY <2>1, <3>1, NotFull DEF Full, DecFull, TcpFull, Tiles
  <2>5. CASE CheckCorrection
    <3> DEFINE due == dec.canDecode /\ ~dec.corrChecked
               b == IF due /\ tcp[dec.cur].nb # 1 THEN Correction(dec.cur) ELSE "no"
    <3>1. /\ dec' = [dec EXCEPT !.corrChecked = @ \/ due,
                            !.canDecode = @ /\ b = "no",
                            !.corr = IF b = "yes" THEN 1 ELSE @]
          /\ tcp' = [t \in Tiles |-> [tcp[t] EXCEPT !.nb = IF b = "yes" /\ @ # 0 THEN @ + 1 ELSE @]]
          /\ UNCHANGED <<index, call>>
      BY <1>2, <2>5, Zenon DEF CheckCorrection
    <3> HIDE DEF due, b
    <3>3. DecFull'
      BY <3>1 DEF Full, DecFull
    <3>4. TcpFull'
      BY <2>1, <3>1 DEF Full, TcpFull, Tiles
    <3> QED BY <2>1, <3>1, <3>3, <3>4, NotFull DEF Full
  <2>6. CASE NextMarker
    <3>1. UNCHANGED <<tcp, index, call>> /\ (UNCHANGED dec \/ \E v, w : dec' = [dec EXCEPT !.state = v, !.cur = w])
      BY <2>6 DEF NextMarker
    <3> QED BY <2>1, <3>1, NotFull DEF Full, DecFull
  <2>7. CASE ChooseTile
    <3> DEFINE ended == marker = "EOC" /\ dec.state # "EOC"
               from  == IF ended THEN 0 ELSE dec.cur
               cand  == IF dec.canDecode THEN {from}
                        ELSE {t \in Tiles : t >= from /\ tcp[t].data # <<>>}
               c     == CHOOSE u \in cand : \A v \in cand : u <= v
               dec1  == [dec EXCEPT !.state = IF ended THEN "EOC" ELSE @]
    <3>0. /\ dec' = [dec1 EXCEPT !.cur = str.nt] \/ dec' = [dec1 EXCEPT !.cur = c, !.hasData = TRUE]
          /\ UNCHANGED tcp \/ tcp' = [tcp EXCEPT ![c].merged = tcp[c].ppt]
          /\ UNCHANGED index
          /\ \/ call' = [call EXCEPT !.more = IF call.kind = "header" THEN FALSE ELSE @]
             \/ call' = [call EXCEPT !.tno = c]
      BY <1>2, <2>7, Zenon DEF ChooseTile
    <3>1. DOMAIN dec1 = DecNames
      BY DEF Full, DecFull
    <3> HIDE DEF c, dec1
    <3>2. DecFull'
      BY <3>0, <3>1 DEF DecFull
    <3>3. TcpFull'
      BY <2>1, <3>0 DEF Full, TcpFull, Tiles
    <3>4. CallFull'
      BY <3>0 DEF Full, CallFull
    <3> QED BY <2>1, <3>0, <3>2, <3>3, <3>4, NotFull DEF Full
  <2>8. CASE EnterHeader \/ LeaveLoop \/ SeekIntersecting \/ ReadOn \/ EndOfStream \/ SkipData \/ JumpByTlm
    <3>1. UNCHANGED <<tcp, index, call>>
      BY <1>2, <2>8 DEF EnterHeader, LeaveLoop, SeekIntersecting, ReadOn, EndOfStream, SkipData, JumpByTlm
    <3>2. \/ UNCHANGED dec
          \/ dec' = [dec EXCEPT !.interIdx = @ + 1]
          \/ dec' = [dec EXCEPT !.state = "NEOC"]
          \/ dec' = [dec EXCEPT !.skip = FALSE, !.canDecode = FALSE, !.state = "TPHSOT"]
      BY <1>2, <2>8 DEF EnterHeader, LeaveLoop, SeekIntersecting, ReadOn, EndOfStream, SkipData, JumpByTlm
    <3> QED BY <2>1, <3>1, <3>2, NotFull DEF Full, DecFull
  <2> QED BY <2>2, <2>3, <2>4, <2>5, <2>6, <2>7, <2>8 DEF TilePartStep
<1> QED BY <1>1, <1>2

LEMMA TileStepFull ==
  ASSUME Full, TileStep
  PROVE  Full'
<1>1. CASE Fail
  BY <1>1, FailFull
<1>2. CASE ~Fail
  <2>1. UNCHANGED <<str, index>>
    BY <1>2 DEF TileStep, DecodeTile, DecodeTileFails, TileRefused, AfterDecode, AfterTile, Finish
  <2>2. DecFull'
    <3>1. CASE DecodeTile
      <4>1. \E v, w : dec' = [dec EXCEPT !.canDecode = FALSE, !.hasData = FALSE, !.cur = v, !.state = w]
        BY <3>1, Zenon DEF DecodeTile
      <4> QED BY <4>1 DEF Full, DecFull
    <3>2. CASE ~DecodeTile
      <4>1. UNCHANGED dec
        BY <1>2, <3>2 DEF TileStep, DecodeTileFails, TileRefused, AfterDecode, AfterTile, Finish
      <4> QED BY <4>1 DEF Full, DecFull
    <3> QED BY <3>1, <3>2
  <2>3. TcpFull'
    <3>1. UNCHANGED tcp \/ \E t, v : tcp' = [tcp EXCEPT ![t].data = v]
      BY <1>2 DEF TileStep, DecodeTile, DecodeTileFails, TileRefused, AfterDecode, AfterTile, Finish, TileFreed
    <3> QED BY <2>1, <3>1 DEF Full, TcpFull, Tiles
  <2>4. CallFull'
    <3>1. UNCHANGED call \/ \E v : call' = [call EXCEPT !.tno = v] \/ call' = [call EXCEPT !.nr = v]
      BY <1>2 DEF TileStep, DecodeTile, DecodeTileFails, TileRefused, AfterDecode, AfterTile, Finish
    <3> QED BY <3>1 DEF Full, CallFull
  <2>5. OutFull'
    <3>1. UNCHANGED out \/ \E t, v : out' = [out EXCEPT ![t] = v]
      BY <1>2 DEF TileStep, DecodeTile, DecodeTileFails, TileRefused, AfterDecode, AfterTile, Finish
    <3> QED BY <2>1, <3>1 DEF Full, OutFull, Tiles
  <2> QED BY <2>1, <2>2, <2>3, <2>4, <2>5, NotFull DEF Full
<1> QED BY <1>1, <1>2

LEMMA StepFull ==
  ASSUME Full, [Next]_vars
  PROVE  Full'
<1>1. CASE UNCHANGED vars
  BY <1>1, NotFull DEF vars, Full
<1>2. CASE Next
  BY <1>2, HeaderFull, ClientFull, PartStepFull, TileStepFull DEF Next
<1> QED BY <1>1, <1>2
-----------------------------------------------------------------------------
\* a tile-part whose header was read: of a tile, and its number the next one
SotDoes(i, n, nb, skip) ==
    LET p == str.parts[i] IN
    /\ i \in DOMAIN str.parts /\ p.tile \in Tiles /\ p.tp \in Nat /\ p.tn \in Nat
    /\ pos + 1 \in 1..Len(items) /\ items[pos + 1][1] = "sot" /\ items[pos + 1][2] = i
    /\ pc = "segment" /\ marker = "SOT" /\ dec.state = "TPHSOT"
    /\ n = IF p.tn = 0 THEN 0 ELSE p.tn + dec.corr
    /\ nb = IF n # 0 THEN n ELSE tcp[p.tile].nb
    /\ skip = IF dec.tileInd = NoTile THEN p.tile \notin call.area ELSE p.tile # dec.tileInd
    /\ skip \in BOOLEAN
    /\ SotAccepted(p, n)
    /\ dec'.cur = p.tile
    /\ dec'.lastPart = (dec.lastPart \/ Psot(str, i) = 0)
    /\ dec'.sotLen = IF dec'.lastPart THEN 0 ELSE Psot(str, i) - 2
    /\ dec'.canDecode = (dec.canDecode \/ (nb # 0 /\ nb = p.tp + 1))
    /\ dec'.state = "TPH"
    /\ dec'.skip = skip
    /\ dec'.tlm = (dec.tlm /\ n <= index[p.tile].nbTps)
    /\ DecSame({"cur", "lastPart", "sotLen", "canDecode", "state", "skip", "tlm"})
    /\ tcp'[p.tile].tpno = p.tp /\ tcp'[p.tile].nb = nb
    /\ TcpSame(p.tile, {"tpno", "nb"})
    /\ \A t \in Tiles \ {p.tile} : tcp'[t] = tcp[t]
    /\ index'[p.tile] = SotIndexed(p, n, pos - 1, dec'.tlm)
    /\ \A t \in Tiles \ {p.tile} : index'[t] = index[t]
    /\ pos' = pos + 1 + (IF skip THEN dec'.sotLen ELSE 1) /\ pos' <= Len(items)
    /\ marker' = IF skip THEN "SOD" ELSE At(pos' - 1)
    /\ UNCHANGED <<str, items, pc, call, out>>

LEMMA SotEffect ==
  ASSUME IInv, Typed, Full, ReadSot, ~Fail
  PROVE  \E i, n, nb : \E skip \in BOOLEAN : SotDoes(i, n, nb, skip)
<1>1. PICK i, n, nb, last, len, skip, tlm, done, next :
            SotStep(i, n, nb, last, len, skip, tlm, done, next)
  BY SotSteps
<1> DEFINE p == str.parts[i]
<1>2. pos + 1 \in 1..Len(items)
  <2>1. Left > 0
    BY <1>1, Zenon DEF SotStep
  <2> QED BY <2>1, Where
<1>3. items[pos + 1][1] = "sot" /\ items[pos + 1][2] = i
  BY <1>1 DEF SotStep, At
<1>4. i \in DOMAIN str.parts
  <2>1. StreamOK(str) /\ items \in Seq(PartItem(str))
    BY StreamsAssumption, ItemsAre DEF IInv, Placed
  <2> QED BY <1>2, <1>3, <2>1 DEF PartItem
<1>5. p.tile \in Tiles /\ p.tp \in Nat /\ p.tn \in Nat
  BY <1>4, NtIs, PartsAre DEF Tiles
<1>6. skip \in BOOLEAN /\ last \in BOOLEAN /\ tlm \in BOOLEAN /\ done \in BOOLEAN
  BY <1>1, Zenon DEF SotStep
<1>7. /\ DOMAIN dec = DecNames /\ DOMAIN tcp = Tiles /\ DOMAIN tcp[p.tile] = TcpNames
      /\ DOMAIN index = Tiles
  BY <1>5 DEF Full, DecFull, TcpFull, IndexFull
<1>8. /\ dec'.cur = p.tile /\ dec'.lastPart = last /\ dec'.sotLen = len
      /\ dec'.canDecode = done /\ dec'.state = "TPH" /\ dec'.skip = skip /\ dec'.tlm = tlm
      /\ DecSame({"cur", "lastPart", "sotLen", "canDecode", "state", "skip", "tlm"})
  <2>1. dec' = [dec EXCEPT !.cur = p.tile, !.lastPart = last, !.sotLen = len,
                          !.canDecode = done, !.state = "TPH", !.skip = skip, !.tlm = tlm]
    BY <1>1, Zenon DEF SotStep
  <2> HIDE DEF p
  <2> QED BY <1>7, <2>1 DEF DecNames, DecSame
<1>9. /\ tcp'[p.tile].tpno = p.tp /\ tcp'[p.tile].nb = nb
      /\ TcpSame(p.tile, {"tpno", "nb"})
      /\ \A t \in Tiles \ {p.tile} : tcp'[t] = tcp[t]
  <2>1. tcp' = [tcp EXCEPT ![p.tile].tpno = p.tp, ![p.tile].nb = nb]
    BY <1>1, Zenon DEF SotStep
  <2> HIDE DEF p
  <2> QED BY <1>5, <1>7, <2>1 DEF TcpNames, TcpSame
<1>10. /\ index'[p.tile] = SotIndexed(p, n, pos - 1, tlm)
       /\ \A t \in Tiles \ {p.tile} : index'[t] = index[t]
  <2>1. index' = [index EXCEPT ![p.tile] = SotIndexed(p, n, pos - 1, tlm)]
    BY <1>1, Zenon DEF SotStep
  <2> HIDE DEF p
  <2> QED BY <1>5, <1>7, <2>1
<1>11. SotDoes(i, n, nb, skip)
  <2>1. /\ pc = "segment" /\ marker = "SOT" /\ dec.state = "TPHSOT"
        /\ n = IF p.tn = 0 THEN 0 ELSE p.tn + dec.corr
        /\ nb = IF n # 0 THEN n ELSE tcp[p.tile].nb
        /\ skip = IF dec.tileInd = NoTile THEN p.tile \notin call.area ELSE p.tile # dec.tileInd
        /\ SotAccepted(p, n) /\ next <= Len(items)
        /\ UNCHANGED <<str, items, pc, call, out>>
    BY <1>1, Zenon DEF SotStep
  <2>2. /\ last = (dec.lastPart \/ Psot(str, i) = 0)
        /\ len = IF last THEN 0 ELSE Psot(str, i) - 2
        /\ tlm = (dec.tlm /\ n <= index[p.tile].nbTps)
        /\ done = (dec.canDecode \/ (nb # 0 /\ nb = p.tp + 1))
        /\ next = pos + 1 + (IF skip THEN len ELSE 1)
        /\ pos' = next
        /\ marker' = IF skip THEN "SOD" ELSE At(next - 1)
    BY <1>1, Zenon DEF SotStep
  <2> HIDE DEF p
  <2>3. /\ dec'.cur = p.tile
        /\ dec'.lastPart = (dec.lastPart \/ Psot(str, i) = 0)
        /\ dec'.sotLen = IF dec'.lastPart THEN 0 ELSE Psot(str, i) - 2
        /\ dec'.canDecode = (dec.canDecode \/ (nb # 0 /\ nb = p.tp + 1))
        /\ dec'.tlm = (dec.tlm /\ n <= index[p.tile].nbTps)
        /\ pos' = pos + 1 + (IF skip THEN dec'.sotLen ELSE 1) /\ pos' <= Len(items)
        /\ marker' = IF skip THEN "SOD" ELSE At(pos' - 1)
        /\ index'[p.tile] = SotIndexed(p, n, pos - 1, dec'.tlm)
    BY <1>8, <1>10, <2>1, <2>2
  <2> QED BY <1>2, <1>3, <1>4, <1>5, <1>6, <1>8, <1>9, <1>10, <2>1, <2>3, Zenon DEF SotDoes, p
<1> QED BY <1>6, <1>11

\* The packet data of a tile-part.
SodDoes(len, got) ==
    /\ pc = "segment" /\ marker = "SOD" /\ ~dec.skip
    /\ len = IF dec.lastPart THEN Left - 1 ELSE IF dec.sotLen = 0 THEN 0 ELSE dec.sotLen - 1
    /\ got = IF len < Left THEN len ELSE Left
    /\ len \in Nat /\ got \in 0..Left
    /\ tcp' = [tcp EXCEPT ![dec.cur].data = @ \o SubSeq(items, pos + 1, pos + got)]
    /\ \A t \in Tiles : TcpSame(t, {"data"})
    /\ \A t \in Tiles \ {dec.cur} : tcp'[t] = tcp[t]
    /\ dec.cur \in Tiles =>
          tcp'[dec.cur].data = tcp[dec.cur].data \o SubSeq(items, pos + 1, pos + got)
    /\ pos' = pos + got
    /\ dec'.state = IF got < len THEN "NEOC" ELSE "TPHSOT"
    /\ DecSame({"sotLen", "state"})
    /\ pc' = "read"
    /\ UNCHANGED <<str, items, marker, index, call, out>>

LEMMA SodEffect ==
  ASSUME IInv, Typed, Full, ReadSod, ~Fail
  PROVE  \E len, got : SodDoes(len, got)
<1> DEFINE len  == IF dec.lastPart THEN Left - 1
                   ELSE IF dec.sotLen = 0 THEN 0 ELSE dec.sotLen - 1
           got  == IF len < Left THEN len ELSE Left
           v    == IF got < len THEN "NEOC" ELSE "TPHSOT"
           more == SubSeq(items, pos + 1, pos + got)
<1>1. /\ pc = "segment" /\ marker = "SOD" /\ ~dec.skip /\ DataReadable(len)
      /\ pos' = pos + got /\ pc' = "read"
      /\ dec' = [dec EXCEPT !.sotLen = len, !.state = v]
      /\ tcp' = [tcp EXCEPT ![dec.cur].data = @ \o more]
      /\ UNCHANGED <<str, items, marker, index, call, out>>
  BY DEF ReadSod
<1>2. len \in Nat /\ got \in 0..Left
  <2>1. dec.sotLen \in Nat
    BY DEF IInv, Placed
  <2>2. len \in Int
    BY <2>1, Where
  <2> QED BY <1>1, <2>2, Where DEF DataReadable
<1>3. DOMAIN dec = DecNames /\ DOMAIN tcp = Tiles /\ \A t \in Tiles : DOMAIN tcp[t] = TcpNames
  BY DEF Full, DecFull, TcpFull
<1> HIDE DEF v, more
<1>4. dec'.state = v /\ DecSame({"sotLen", "state"})
  BY <1>1, <1>3 DEF DecNames, DecSame
<1>5. /\ \A t \in Tiles : TcpSame(t, {"data"})
      /\ \A t \in Tiles \ {dec.cur} : tcp'[t] = tcp[t]
      /\ dec.cur \in Tiles => tcp'[dec.cur].data = tcp[dec.cur].data \o more
  <2>1. tcp' = [tcp EXCEPT ![dec.cur].data = @ \o more]
    BY <1>1
  <2>2. \A t \in Tiles \ {dec.cur} : tcp'[t] = tcp[t]
    BY <1>3, <2>1
  <2>3. dec.cur \in Tiles => tcp'[dec.cur] = [tcp[dec.cur] EXCEPT !.data = @ \o more]
    BY <1>3, <2>1
  <2>4. dec.cur \in Tiles => tcp'[dec.cur].data = tcp[dec.cur].data \o more /\ TcpSame(dec.cur, {"data"})
    BY <1>3, <2>3 DEF TcpNames, TcpSame
  <2>5. \A t \in Tiles \ {dec.cur} : TcpSame(t, {"data"})
    BY <2>2 DEF TcpSame
  <2> QED BY <2>2, <2>4, <2>5
<1>6. SodDoes(len, got)
  BY <1>1, <1>2, <1>4, <1>5 DEF SodDoes, v, more
<1> QED BY <1>6

CorrDoes(due, yes) ==
    /\ pc = "read" /\ pc' = "next"
    /\ due \in BOOLEAN /\ yes \in BOOLEAN
    /\ due = (dec.canDecode /\ ~dec.corrChecked)
    /\ yes => due
    /\ dec'.corrChecked = (dec.corrChecked \/ due)
    /\ dec'.canDecode => dec.canDecode /\ ~yes
    /\ dec'.corr = IF yes THEN 1 ELSE dec.corr
    /\ DecSame({"corrChecked", "canDecode", "corr"})
    /\ \A t \in Tiles : /\ TcpSame(t, {"nb"})
                        /\ tcp'[t].nb = IF yes /\ tcp[t].nb # 0 THEN tcp[t].nb + 1 ELSE tcp[t].nb
    /\ UNCHANGED <<str, items, pos, marker, index, call, out>>

LEMMA CorrEffect ==
  ASSUME Full, CheckCorrection, ~Fail
  PROVE  \E due, yes : CorrDoes(due, yes)
<1> DEFINE due == dec.canDecode /\ ~dec.corrChecked
           answer == IF due /\ tcp[dec.cur].nb # 1 THEN Correction(dec.cur) ELSE "no"
           yes == answer = "yes"
<1>1. /\ pc = "read" /\ pc' = "next"
      /\ dec' = [dec EXCEPT !.corrChecked = @ \/ due,
                            !.canDecode = @ /\ answer = "no",
                            !.corr = IF answer = "yes" THEN 1 ELSE @]
      /\ tcp' = [t \in Tiles |-> [tcp[t] EXCEPT !.nb =
                         IF answer = "yes" /\ @ # 0 THEN @ + 1 ELSE @]]
      /\ UNCHANGED <<str, items, pos, marker, index, call, out>>
  BY Zenon DEF CheckCorrection
<1>2. yes => due
  OBVIOUS
<1> DEFINE d == due
           a == answer
<1> HIDE DEF a, d
<1>3. DOMAIN dec = DecNames /\ DOMAIN tcp = Tiles /\ \A t \in Tiles : DOMAIN tcp[t] = TcpNames
  BY DEF Full, DecFull, TcpFull
<1>4. /\ dec'.corrChecked = (dec.corrChecked \/ d)
      /\ dec'.canDecode = (dec.canDecode /\ a = "no")
      /\ dec'.corr = IF a = "yes" THEN 1 ELSE dec.corr
      /\ DecSame({"corrChecked", "canDecode", "corr"})
  <2>1. dec' = [dec EXCEPT !.corrChecked = @ \/ d, !.canDecode = @ /\ a = "no",
                           !.corr = IF a = "yes" THEN 1 ELSE @]
    BY <1>1, Zenon DEF a, d
  <2> QED BY <1>3, <2>1 DEF DecNames, DecSame
<1>5. \A t \in Tiles : /\ TcpSame(t, {"nb"})
                       /\ tcp'[t].nb = IF a = "yes" /\ tcp[t].nb # 0 THEN tcp[t].nb + 1 ELSE tcp[t].nb
  <2>1. tcp' = [t \in Tiles |-> [tcp[t] EXCEPT !.nb = IF a = "yes" /\ @ # 0 THEN @ + 1 ELSE @]]
    BY <1>1, Zenon DEF a
  <2> QED BY <1>3, <2>1 DEF TcpNames, TcpSame
<1>6. CorrDoes(d, a = "yes")
  <2>1. pc = "read" /\ pc' = "next" /\ UNCHANGED <<str, items, pos, marker, index, call, out>>
    BY <1>1
  <2>2. (a = "yes" => d) /\ d = (dec.canDecode /\ ~dec.corrChecked)
    BY <1>2 DEF a, d
  <2> QED BY <1>4, <1>5, <2>1, <2>2 DEF CorrDoes
<1> QED BY <1>6

\* The tile that is decoded next, if there is one.
ChooseDoes(t, ended) ==
    /\ pc = "tail"
    /\ ended \in BOOLEAN
    /\ ended = (marker = "EOC" /\ dec.state # "EOC")
    /\ dec'.state = IF ended THEN "EOC" ELSE dec.state
    /\ DecSame({"state", "cur", "hasData"})
    /\ \A u \in Tiles : TcpSame(u, {"merged"})
    /\ \/ /\ ~dec.canDecode
          /\ pc' = IF call.kind = "header" THEN "idle" ELSE "finish"
          /\ dec'.hasData = dec.hasData
          /\ call' = [call EXCEPT !.more = IF call.kind = "header" THEN FALSE ELSE @]
       \/ /\ dec'.cur = t /\ t \in 0..str.nt
          /\ IF dec.canDecode THEN t = IF ended THEN 0 ELSE dec.cur ELSE t \in Tiles
          /\ pc' = IF call.kind = "header" THEN "idle" ELSE "decode"
          /\ call' = [call EXCEPT !.tno = t]
          /\ dec'.hasData = TRUE
    /\ UNCHANGED <<str, items, pos, marker, index, out>>

LEMMA ChooseEffect ==
  ASSUME IInv, Typed, Full, ChooseTile, ~Fail
  PROVE  \E t, ended : ChooseDoes(t, ended)
<1> DEFINE ended == marker = "EOC" /\ dec.state # "EOC"
           from  == IF ended THEN 0 ELSE dec.cur
           cand  == IF dec.canDecode THEN {from}
                    ELSE {t \in Tiles : t >= from /\ tcp[t].data # <<>>}
           t     == CHOOSE u \in cand : \A v \in cand : u <= v
           dec1  == [dec EXCEPT !.state = IF ended THEN "EOC" ELSE @]
<1>1. /\ pc = "tail" /\ UNCHANGED <<str, items, pos, marker, index, out>>
      /\ \/ /\ cand = {}
            /\ dec' = [dec1 EXCEPT !.cur = str.nt]
            /\ pc' = IF call.kind = "header" THEN "idle" ELSE "finish"
            /\ call' = [call EXCEPT !.more = IF call.kind = "header" THEN FALSE ELSE @]
            /\ UNCHANGED tcp
         \/ /\ cand # {}
            /\ dec' = [dec1 EXCEPT !.cur = t, !.hasData = TRUE]
            /\ tcp' = [tcp EXCEPT ![t].merged = tcp[t].ppt]
            /\ pc' = IF call.kind = "header" THEN "idle" ELSE "decode"
            /\ call' = [call EXCEPT !.tno = t]
  BY Zenon DEF ChooseTile
<1>2. cand # {} => t \in 0..str.nt /\ (IF dec.canDecode THEN t = from ELSE t \in Tiles)
  <2>1. from \in 0..str.nt
    BY NtIs DEF Typed, DecOK
  <2>2. cand \in SUBSET Nat /\ cand \subseteq 0..str.nt
    BY <2>1, NtIs DEF Tiles
  <2>3. IF dec.canDecode THEN cand = {from} ELSE cand \subseteq Tiles
    OBVIOUS
  <2> HIDE DEF cand
  <2>4. cand # {} => t \in cand
    BY <2>2, LeastOf
  <2> HIDE DEF t, from
  <2>5. CASE dec.canDecode
    <3>1. cand = {from}
      BY <2>3, <2>5
    <3> QED BY <2>2, <2>4, <2>5, <3>1
  <2>6. CASE ~dec.canDecode
    <3>1. cand \subseteq Tiles
      BY <2>3, <2>6
    <3> QED BY <2>2, <2>4, <2>6, <3>1
  <2> QED BY <2>5, <2>6
<1>3. DOMAIN dec = DecNames /\ DOMAIN tcp = Tiles /\ \A u \in Tiles : DOMAIN tcp[u] = TcpNames
  BY DEF Full, DecFull, TcpFull
<1>4. /\ dec1.state = IF ended THEN "EOC" ELSE dec.state
      /\ DOMAIN dec1 = DecNames
      /\ \A x \in DecNames \ {"state"} : dec1[x] = dec[x]
  BY <1>3 DEF DecNames
<1>5. dec.canDecode => cand # {}
  OBVIOUS
<1> HIDE DEF dec1, t, cand
<1>6. CASE cand = {}
  <2>1. /\ dec' = [dec1 EXCEPT !.cur = str.nt]
        /\ pc' = IF call.kind = "header" THEN "idle" ELSE "finish"
        /\ call' = [call EXCEPT !.more = IF call.kind = "header" THEN FALSE ELSE @]
        /\ UNCHANGED tcp
    BY <1>1, <1>6
  <2>2. dec'.state = dec1.state /\ DecSame({"state", "cur", "hasData"}) /\ dec'.hasData = dec.hasData
    BY <1>4, <2>1 DEF DecNames, DecSame
  <2>3. \A u \in Tiles : TcpSame(u, {"merged"})
    BY <2>1 DEF TcpSame
  <2>4. ChooseDoes(0, ended)
    BY <1>1, <1>4, <1>5, <1>6, <2>1, <2>2, <2>3 DEF ChooseDoes
  <2> QED BY <2>4
<1>7. CASE cand # {}
  <2>1. /\ dec' = [dec1 EXCEPT !.cur = t, !.hasData = TRUE]
        /\ tcp' = [tcp EXCEPT ![t].merged = tcp[t].ppt]
        /\ pc' = IF call.kind = "header" THEN "idle" ELSE "decode"
        /\ call' = [call EXCEPT !.tno = t]
    BY <1>1, <1>7
  <2>2. dec'.state = dec1.state /\ DecSame({"state", "cur", "hasData"}) /\ dec'.hasData = TRUE /\ dec'.cur = t
    BY <1>4, <2>1 DEF DecNames, DecSame
  <2>3. \A u \in Tiles : TcpSame(u, {"merged"})
    BY <1>3, <2>1 DEF TcpSame, TcpNames
  <2>4. ChooseDoes(t, ended)
    BY <1>1, <1>2, <1>4, <1>7, <2>1, <2>2, <2>3 DEF ChooseDoes
  <2> QED BY <2>4
<1> QED BY <1>6, <1>7

\* One field of the structures of one tile.
LEMMA OneField ==
  ASSUME Full, NEW t, NEW v
  PROVE  /\ DOMAIN [tcp EXCEPT ![t].data = v] = Tiles
         /\ \A u \in Tiles \ {t} : [tcp EXCEPT ![t].data = v][u] = tcp[u]
         /\ t \in Tiles => [tcp EXCEPT ![t].data = v][t].data = v
         /\ \A u \in Tiles : \A x \in TcpNames \ {"data"} : [tcp EXCEPT ![t].data = v][u][x] = tcp[u][x]
  BY DEF Full, TcpFull, TcpNames

\* A decoded tile.
DecodeDoes(c, eoc, stray) ==
    /\ c = dec.cur /\ eoc \in BOOLEAN /\ stray \in BOOLEAN
    /\ pc = "decode"
    /\ tcp[c].data # <<>>
    /\ out' = [out EXCEPT ![c] = tcp[c].data]
    /\ \A u \in Tiles : TcpSame(u, {"data"})
    /\ \A u \in Tiles : tcp'[u].data = IF u = c /\ call.kind = "header" THEN <<>> ELSE tcp[u].data
    /\ dec'.canDecode = FALSE /\ dec'.hasData = FALSE
    /\ dec'.cur = IF eoc THEN 0 ELSE c
    /\ dec'.state = IF eoc THEN "EOC" ELSE IF stray THEN "NEOC" ELSE dec.state
    /\ DecSame({"canDecode", "hasData", "cur", "state"})
    /\ eoc => ~(dec.state = "EOC")
    /\ call' = [call EXCEPT !.tno = c]
    /\ pc' = IF call.kind = "header" THEN "idle" ELSE "after"
    /\ UNCHANGED <<str, items, marker, index>>

LEMMA DecodeEffect ==
  ASSUME Full, DecodeTile
  PROVE  \E c, eoc, stray : DecodeDoes(c, eoc, stray)
<1> DEFINE c     == dec.cur
           reads == ~StreamOver /\ Left > 0
           eoc   == reads /\ At(pos) = "EOC"
           stray == reads /\ At(pos) \notin {"EOC", "SOT"}
           free  == call.kind = "header"
<1>1. /\ pc = "decode" /\ tcp[c].data # <<>> /\ out' = [out EXCEPT ![c] = tcp[c].data]
      /\ tcp' = TileFreed(c, free)
      /\ dec' = [dec EXCEPT !.canDecode = FALSE, !.hasData = FALSE,
                            !.cur = IF eoc THEN 0 ELSE @,
                            !.state = IF eoc THEN "EOC" ELSE IF stray THEN "NEOC" ELSE @]
      /\ call' = [call EXCEPT !.tno = c]
      /\ pc' = IF call.kind = "header" THEN "idle" ELSE "after"
      /\ UNCHANGED <<str, items, marker, index>>
  BY Zenon DEF DecodeTile
<1>2. eoc => dec.state # "EOC"
  BY DEF StreamOver
<1>3. eoc \in BOOLEAN /\ stray \in BOOLEAN
  OBVIOUS
<1> DEFINE e == eoc
           f == stray
           g == free
<1> HIDE DEF e, f, g
<1>4. DOMAIN dec = DecNames /\ DOMAIN tcp = Tiles /\ \A u \in Tiles : DOMAIN tcp[u] = TcpNames
  BY DEF Full, DecFull, TcpFull
<1>5. /\ dec'.canDecode = FALSE /\ dec'.hasData = FALSE
      /\ dec'.cur = IF e THEN 0 ELSE c
      /\ dec'.state = IF e THEN "EOC" ELSE IF f THEN "NEOC" ELSE dec.state
      /\ DecSame({"canDecode", "hasData", "cur", "state"})
  <2>1. dec' = [dec EXCEPT !.canDecode = FALSE, !.hasData = FALSE,
                            !.cur = IF e THEN 0 ELSE @,
                            !.state = IF e THEN "EOC" ELSE IF f THEN "NEOC" ELSE @]
    BY <1>1, Zenon DEF e, f
  <2> QED BY <1>4, <2>1 DEF DecNames, DecSame
<1>6. /\ \A u \in Tiles : TcpSame(u, {"data"})
      /\ \A u \in Tiles : tcp'[u].data = IF u = c /\ g THEN <<>> ELSE tcp[u].data
  <2>1. tcp' = [tcp EXCEPT ![c].data = IF g THEN <<>> ELSE @]
    BY <1>1, Zenon DEF TileFreed, g
  <2>2. \A u \in Tiles : u # c => tcp'[u] = tcp[u]
    BY <1>4, <2>1
  <2>3. c \in Tiles => tcp'[c] = [tcp[c] EXCEPT !.data = IF g THEN <<>> ELSE @]
    BY <1>4, <2>1
  <2>4. c \in Tiles => tcp'[c].data = (IF g THEN <<>> ELSE tcp[c].data) /\ TcpSame(c, {"data"})
    BY <1>4, <2>3 DEF TcpNames, TcpSame
  <2> HIDE DEF c
  <2> QED BY <2>2, <2>4 DEF TcpSame
<1>7. DecodeDoes(c, e, f)
  <2>1. (e => dec.state # "EOC") /\ e \in BOOLEAN /\ f \in BOOLEAN /\ g = (call.kind = "header")
    BY <1>2, <1>3 DEF e, f, g
  <2> QED BY <1>1, <1>5, <1>6, <2>1 DEF DecodeDoes
<1> QED BY <1>7

-----------------------------------------------------------------------------
(* Where the decoder stands while it reads a tile-part.                    *)

LEMMA StreamLaid ==
  ASSUME IInv
  PROVE  /\ StreamOK(str) /\ Laid(str) /\ items = Items(str) /\ Len(items) \in Nat
         /\ DOMAIN str.parts = 1..Len(str.parts) /\ Len(str.parts) \in Nat
         /\ \A i \in DOMAIN str.parts : PartShape(str, i) /\ Off(str, i) \in Nat /\ Off(str, i) > 0
<1>1. StreamOK(str) /\ items = Items(str)
  BY StreamsAssumption DEF IInv, Placed
<1>2. Laid(str)
  BY <1>1, LaidOut
<1>3. DOMAIN str.parts = 1..Len(str.parts) /\ Len(str.parts) \in Nat
  BY <1>1, LenProperties, Zenon DEF StreamOK
<1> QED BY <1>1, <1>2, <1>3, PartShapeIs DEF Laid

\* The fields of a tile-part, and the item at each place of it.
LEMMA PlaceIn ==
  ASSUME IInv, NEW i \in DOMAIN str.parts
  PROVE  /\ str.parts[i].tile \in Tiles /\ str.parts[i].tp \in Nat /\ str.parts[i].len \in Nat
         /\ str.parts[i].ppt \in BOOLEAN /\ str.parts[i].psot0 \in BOOLEAN
         /\ HeadLen(str, i) \in {3, 5} /\ PartLen(str, i) = HeadLen(str, i) + str.parts[i].len
         /\ PartLen(str, i) \in Nat
         /\ \A j \in 1..PartLen(str, i) :
              Off(str, i) + j <= Len(items) => items[Off(str, i) + j] = PartItems(str, i)[j]
         /\ \A j \in 1..PartLen(str, i) : PartItems(str, i)[j][1] = "sot" <=> j = 2
         /\ \A j \in 1..PartLen(str, i) : PartItems(str, i)[j][2] = i
         /\ \A j \in 1..PartLen(str, i) : PartItems(str, i)[j][1] = "data" <=> j > HeadLen(str, i)
         /\ \A j \in 1..PartLen(str, i) : PartItems(str, i)[j][1] = "SOT" <=> j = 1
<1> DEFINE h == HeadLen(str, i)
           L == str.parts[i].len
           P == PartItems(str, i)
<1>1. /\ str.parts[i].tile \in Tiles /\ str.parts[i].tp \in Nat /\ L \in Nat
      /\ str.parts[i].ppt \in BOOLEAN /\ str.parts[i].psot0 \in BOOLEAN
  BY NtIs, PartsAre DEF Tiles
<1>2. PartShape(str, i) /\ Laid(str) /\ items = Items(str) /\ i \in 1..Len(str.parts)
  BY StreamLaid
<1>3. h = (IF str.parts[i].ppt THEN 5 ELSE 3) /\ PartLen(str, i) = h + L
  BY <1>2 DEF PartShape, HeadLen
<1>4. ASSUME NEW j \in 1..PartLen(str, i)
      PROVE  /\ P[j][1] = "sot" <=> j = 2
             /\ P[j][2] = i
             /\ P[j][1] = "data" <=> j > h
             /\ P[j][1] = "SOT" <=> j = 1
  <2>1. /\ P[1] = <<"SOT", i, 0>> /\ P[2] = <<"sot", i, 0>>
        /\ str.parts[i].ppt => P[3] = <<"PPT", i, 0>> /\ P[4] = <<"ppt", i, 0>>
        /\ P[h] = <<"SOD", i, 0>>
        /\ \A k \in 1..L : P[h + k] = <<"data", i, k>>
    BY <1>2 DEF PartShape
  <2>2. j = 1 \/ j = 2 \/ (str.parts[i].ppt /\ (j = 3 \/ j = 4)) \/ j = h \/ \E k \in 1..L : j = h + k
    <3>1. j > h => j - h \in 1..L /\ j = h + (j - h)
      BY <1>1, <1>3
    <3>2. j > h => \E k \in 1..L : j = h + k
      BY <3>1
    <3>3. ~(j > h) => j = 1 \/ j = 2 \/ (str.parts[i].ppt /\ (j = 3 \/ j = 4)) \/ j = h
      BY <1>1, <1>3
    <3> QED BY <3>2, <3>3
  <2>3. CASE \E k \in 1..L : j = h + k
    <3>1. PICK k \in 1..L : j = h + k
      BY <2>3
    <3>2. P[j] = <<"data", i, k>> /\ j > h /\ j # 2 /\ j # 1
      BY <1>1, <1>3, <2>1, <3>1
    <3> QED BY <3>2
  <2>4. CASE ~\E k \in 1..L : j = h + k
    <3> HIDE DEF P
    <3> QED BY <1>1, <1>3, <2>1, <2>2, <2>4
  <2> QED BY <2>3, <2>4
<1>5. \A j \in 1..PartLen(str, i) :
              Off(str, i) + j <= Len(items) => items[Off(str, i) + j] = P[j]
  BY <1>2 DEF Laid
<1> QED BY <1>1, <1>3, <1>4, <1>5

LEMMA PartSizes ==
  ASSUME IInv, NEW i \in DOMAIN str.parts
  PROVE  /\ Off(str, i) \in Nat /\ PartLen(str, i) \in Nat /\ PartLen(str, i) >= 3
         /\ HeadLen(str, i) \in {3, 5} /\ str.parts[i].len \in Nat
         /\ PartLen(str, i) = HeadLen(str, i) + str.parts[i].len
         /\ Len(items) \in Nat
<1>1. Off(str, i) \in Nat /\ Len(items) \in Nat
  BY StreamLaid
<1>2. /\ PartLen(str, i) \in Nat /\ HeadLen(str, i) \in {3, 5} /\ str.parts[i].len \in Nat
      /\ PartLen(str, i) = HeadLen(str, i) + str.parts[i].len
  BY PlaceIn, Zenon
<1> QED BY <1>1, <1>2

\* The body of an SOT segment stands behind the SOT marker of its tile-part.
LEMMA KindAt ==
  ASSUME IInv, NEW m \in 1..Len(items), items[m][1] \in PartKinds
  PROVE  \E i \in DOMAIN str.parts : \E j \in 1..PartLen(str, i) :
            m = Off(str, i) + j /\ items[m] = PartItems(str, i)[j]
<1>1. \E i \in 1..Len(str.parts) : \E j \in 1..PartLen(str, i) : m = Off(str, i) + j
  BY StreamLaid DEF Laid
<1>2. PICK i \in 1..Len(str.parts) : \E j \in 1..PartLen(str, i) : m = Off(str, i) + j
  BY <1>1
<1>3. PICK j \in 1..PartLen(str, i) : m = Off(str, i) + j
  BY <1>2
<1>4. i \in DOMAIN str.parts /\ items[m] = PartItems(str, i)[j]
  BY <1>3, StreamLaid, PlaceIn
<1> QED BY <1>3, <1>4

LEMMA SotAt ==
  ASSUME IInv, NEW m \in 1..Len(items), items[m][1] = "sot"
  PROVE  items[m][2] \in DOMAIN str.parts /\ m = Off(str, items[m][2]) + 2
<1>1. items[m][1] \in PartKinds
  BY DEF PartKinds
<1>2. PICK i \in DOMAIN str.parts : \E j \in 1..PartLen(str, i) :
            m = Off(str, i) + j /\ items[m] = PartItems(str, i)[j]
  BY <1>1, KindAt
<1>3. PICK j \in 1..PartLen(str, i) : m = Off(str, i) + j /\ items[m] = PartItems(str, i)[j]
  BY <1>2
<1> QED BY <1>3, PlaceIn

\* the stream stands at its end, at a tile-part or at EOC
AtEnd == pos = Len(items) \/ (pos < Len(items) /\ items[pos + 1][1] \in {"SOT", "EOC"})

LEMMA EndOfPart ==
  ASSUME IInv, NEW i \in DOMAIN str.parts, pos \in 0..Len(items),
         pos = Off(str, i) + PartLen(str, i) \/ pos = Len(items)
  PROVE  AtEnd
<1>1. CASE pos = Len(items)
  BY <1>1 DEF AtEnd
<1>2. CASE pos < Len(items) /\ pos = Off(str, i) + PartLen(str, i)
  <2>1. Off(str, i) + PartLen(str, i) + 1 <= Len(items) =>
           items[Off(str, i) + PartLen(str, i) + 1][1] \in {"SOT", "EOC"}
    BY StreamLaid DEF Laid
  <2> QED BY <1>2, <2>1, StreamLaid DEF AtEnd
<1> QED BY <1>1, <1>2, StreamLaid

\* behind a marker of the header of a tile-part that is wanted; the stream is at place j of
\* tile-part i, and as much of it is left as m_sot_length says
InHeader == pc = "segment" /\ marker # "SOT"
InPart(i, j) ==
    /\ j = 3 \/ (str.parts[i].ppt /\ j = 5)
    /\ pos = Off(str, i) + j
    /\ marker = PartItems(str, i)[j][1]
    /\ dec.sotLen = PartLen(str, i) - (j - 1)
    /\ str.parts[i].tile = dec.cur /\ str.parts[i].tp = tcp[dec.cur].tpno

Heading == InHeader =>
    /\ dec.cur \in Tiles
    /\ dec.skip => marker = "SOD" /\ AtEnd
    /\ ~dec.skip => \E i \in DOMAIN str.parts : \E j \in {3, 5} : InPart(i, j)
Placing ==
    /\ pc \in {"read", "next"} => marker = "SOD" /\ AtEnd /\ dec.cur \in Tiles
    /\ pc = "loop" => marker \in {"SOT", "EOC"} \/ dec.canDecode
OnTrack == ~dec.lastPart => Heading /\ Placing

LEMMA SotKeepsTrack ==
  ASSUME IInv, Typed, Full, OnTrack, ReadSot, ~Fail
  PROVE  OnTrack'
<1> SUFFICES ASSUME ~dec'.lastPart PROVE Heading' /\ Placing'
  BY DEF OnTrack
<1>1. PICK i, n, nb, skip : SotDoes(i, n, nb, skip)
  BY SotEffect
<1> DEFINE p == str.parts[i]
<1>2. /\ i \in DOMAIN str.parts /\ pos + 1 \in 1..Len(items) /\ items[pos + 1][1] = "sot"
      /\ items[pos + 1][2] = i /\ dec'.cur = p.tile /\ p.tile \in Tiles
      /\ dec'.sotLen = (IF dec'.lastPart THEN 0 ELSE Psot(str, i) - 2)
      /\ dec'.lastPart = (dec.lastPart \/ Psot(str, i) = 0)
      /\ tcp'[p.tile].tpno = p.tp
      /\ pos' = pos + 1 + (IF skip THEN dec'.sotLen ELSE 1) /\ pos' <= Len(items)
      /\ marker' = (IF skip THEN "SOD" ELSE At(pos' - 1)) /\ dec'.skip = skip
      /\ UNCHANGED <<str, items, pc>> /\ pc = "segment"
  BY <1>1, Zenon DEF SotDoes
<1>3. pos = Off(str, i) + 1
  <2>1. pos + 1 = Off(str, items[pos + 1][2]) + 2
    BY <1>2, SotAt
  <2>2. pos \in Nat /\ Off(str, i) \in Nat
    BY <1>2, PartSizes DEF IInv, Placed
  <2> QED BY <1>2, <2>1, <2>2
<1>4. Psot(str, i) = PartLen(str, i)
  BY <1>2 DEF Psot
<1>5. PartLen(str, i) \in Nat /\ PartLen(str, i) >= 3 /\ Off(str, i) \in Nat /\ HeadLen(str, i) \in {3, 5}
      /\ Len(items) \in Nat
  BY <1>2, PartSizes
<1>6. Tiles' = Tiles
  BY <1>2 DEF Tiles
<1>7. CASE skip
  <2>1. pos' = Off(str, i) + PartLen(str, i) /\ marker' = "SOD" /\ pos' \in 0..Len(items)
    <3>1. dec'.sotLen = PartLen(str, i) - 2
      BY <1>2, <1>4
    <3>2. marker' = "SOD" /\ pos' = pos + 1 + dec'.sotLen /\ pos' <= Len(items)
      BY <1>2, <1>7
    <3> QED BY <1>3, <1>5, <3>1, <3>2
  <2>2. AtEnd'
    <3>1. Off(str, i) + PartLen(str, i) + 1 <= Len(items) =>
             items[Off(str, i) + PartLen(str, i) + 1][1] \in {"SOT", "EOC"}
      BY <1>2, StreamLaid DEF Laid
    <3> QED BY <1>2, <1>5, <2>1, <3>1 DEF AtEnd
  <2> QED BY <1>2, <1>6, <1>7, <2>1, <2>2 DEF Heading, Placing
<1>8. CASE ~skip
  <2>1. pos' = Off(str, i) + 3
    BY <1>2, <1>3, <1>5, <1>8
  <2>2. marker' = PartItems(str, i)[3][1]
    <3>1. items[Off(str, i) + 3] = PartItems(str, i)[3]
      BY <1>2, <1>5, <2>1, PlaceIn
    <3>2. pos' - 1 + 1 = Off(str, i) + 3
      BY <1>5, <2>1
    <3> QED BY <1>2, <1>8, <3>1, <3>2 DEF At
  <2>3. InPart(i, 3)'
    BY <1>2, <1>4, <1>5, <2>1, <2>2 DEF InPart
  <2> QED BY <1>2, <1>6, <1>8, <2>3 DEF Heading, Placing
<1> QED BY <1>2, <1>7, <1>8

LEMMA MarkerKeepsTrack ==
  ASSUME IInv, Typed, Full, OnTrack, ReadTilePartMarker, ~Fail
  PROVE  OnTrack'
<1>1. /\ pc = "segment" /\ marker \notin {"SOT", "SOD"}
      /\ dec.state = "TPH" /\ Left >= 2
      /\ dec.sotLen # 0 => dec.sotLen >= 2
      /\ dec' = [dec EXCEPT !.sotLen = IF @ = 0 THEN 0 ELSE @ - 2]
      /\ tcp' = [tcp EXCEPT ![dec.cur].ppt = TRUE]
      /\ pos' = pos + 2
      /\ marker' = At(pos + 1)
      /\ UNCHANGED <<str, items, pc, index, call, out>>
  BY DEF ReadTilePartMarker
<1>2. /\ dec'.sotLen = (IF dec.sotLen = 0 THEN 0 ELSE dec.sotLen - 2)
      /\ dec'.lastPart = dec.lastPart /\ dec'.skip = dec.skip /\ dec'.cur = dec.cur
  BY <1>1 DEF Full, DecFull, DecNames
<1>3. dec.cur \in Tiles => tcp'[dec.cur].tpno = tcp[dec.cur].tpno
  BY <1>1 DEF Full, TcpFull, TcpNames
<1> SUFFICES ASSUME ~dec.lastPart PROVE Heading' /\ Placing'
  BY <1>2 DEF OnTrack
<1>4. dec.cur \in Tiles /\ ~dec.skip /\ \E i \in DOMAIN str.parts : \E j \in {3, 5} : InPart(i, j)
  BY <1>1 DEF OnTrack, Heading, InHeader
<1>5. PICK i \in DOMAIN str.parts : \E j \in {3, 5} : InPart(i, j)
  BY <1>4
<1>6. PICK j \in {3, 5} : InPart(i, j)
  BY <1>5
<1>7. PartShape(str, i) /\ Off(str, i) \in Nat /\ Len(items) \in Nat
  BY StreamLaid
<1>8. j = 3 /\ str.parts[i].ppt
  <2>1. PartItems(str, i)[HeadLen(str, i)][1] = "SOD"
    BY <1>7 DEF PartShape
  <2>2. marker = PartItems(str, i)[j][1] /\ (j = 3 \/ (str.parts[i].ppt /\ j = 5))
    BY <1>6 DEF InPart
  <2> QED BY <1>1, <2>1, <2>2 DEF HeadLen
<1>9. pos = Off(str, i) + 3 /\ dec.sotLen = PartLen(str, i) - 2 /\ PartLen(str, i) \in Nat /\ PartLen(str, i) >= 5
  BY <1>6, <1>8, PlaceIn DEF InPart, HeadLen
<1>10. pos' = Off(str, i) + 5 /\ pos' <= Len(items)
  BY <1>1, <1>7, <1>9, Where
<1>11. marker' = PartItems(str, i)[5][1]
  <2>1. items[Off(str, i) + 5] = PartItems(str, i)[5]
    BY <1>7, <1>9, <1>10, PlaceIn
  <2>2. pos + 1 + 1 = Off(str, i) + 5
    BY <1>7, <1>9
  <2> QED BY <1>1, <2>1, <2>2 DEF At
<1>12. dec'.sotLen = PartLen(str, i) - 4
  BY <1>2, <1>9
<1>13. InPart(i, 5)'
  BY <1>1, <1>2, <1>3, <1>4, <1>6, <1>8, <1>10, <1>11, <1>12 DEF InPart
<1>14. Tiles' = Tiles
  BY <1>1 DEF Tiles
<1> QED BY <1>1, <1>2, <1>4, <1>13, <1>14 DEF Heading, Placing

\* What ReadSod collects: what is held of the packet data of the tile-part at hand.
LEMMA SodReads ==
  ASSUME IInv, Typed, Full, OnTrack, ~dec.lastPart, NEW len, NEW got, SodDoes(len, got)
  PROVE  \E i \in DOMAIN str.parts :
            /\ dec.cur \in Tiles /\ str.parts[i].tile = dec.cur /\ str.parts[i].tp = tcp[dec.cur].tpno
            /\ pos = Off(str, i) + HeadLen(str, i) /\ len = str.parts[i].len
            /\ pos' = pos + got /\ pos' \in 0..Len(items)
            /\ got \in 0..len /\ (got < len => pos' = Len(items))
<1>1. /\ pc = "segment" /\ marker = "SOD" /\ ~dec.skip
      /\ len = (IF dec.sotLen = 0 THEN 0 ELSE dec.sotLen - 1)
      /\ got = IF len < Left THEN len ELSE Left
      /\ len \in Nat /\ got \in 0..Left
      /\ pos' = pos + got
  BY DEF SodDoes
<1>2. dec.cur \in Tiles /\ \E i \in DOMAIN str.parts : \E j \in {3, 5} : InPart(i, j)
  BY <1>1 DEF OnTrack, Heading, InHeader
<1>3. PICK i \in DOMAIN str.parts : \E j \in {3, 5} : InPart(i, j)
  BY <1>2
<1>4. PICK j \in {3, 5} : InPart(i, j)
  BY <1>3
<1>5. PartShape(str, i) /\ Off(str, i) \in Nat /\ Len(items) \in Nat
  BY StreamLaid
<1>6. j = HeadLen(str, i)
  <2>1. str.parts[i].ppt => PartItems(str, i)[3][1] = "PPT"
    BY <1>5 DEF PartShape
  <2>2. marker = PartItems(str, i)[j][1] /\ (j = 3 \/ (str.parts[i].ppt /\ j = 5))
    BY <1>4 DEF InPart
  <2> QED BY <1>1, <2>1, <2>2 DEF HeadLen
<1>7. /\ pos = Off(str, i) + HeadLen(str, i) /\ dec.sotLen = PartLen(str, i) - (HeadLen(str, i) - 1)
      /\ str.parts[i].tile = dec.cur /\ str.parts[i].tp = tcp[dec.cur].tpno
  BY <1>4, <1>6 DEF InPart
<1>8. len = str.parts[i].len
  BY <1>1, <1>7, PlaceIn
<1>9. pos' \in 0..Len(items) /\ got \in 0..len /\ (got < len => pos' = Len(items))
  BY <1>1, Where
<1> QED BY <1>1, <1>2, <1>7, <1>8, <1>9

LEMMA SodKeepsTrack ==
  ASSUME IInv, Typed, Full, OnTrack, ReadSod, ~Fail
  PROVE  OnTrack'
<1>1. PICK len, got : SodDoes(len, got)
  BY SodEffect
<1>2. dec'.lastPart = dec.lastPart /\ dec'.cur = dec.cur /\ pc' = "read" /\ marker' = "SOD"
      /\ UNCHANGED <<str, items>>
  BY <1>1 DEF SodDoes, DecSame, DecNames
<1> SUFFICES ASSUME ~dec.lastPart PROVE Heading' /\ Placing'
  BY <1>2 DEF OnTrack
<1>3. PICK i \in DOMAIN str.parts :
            /\ dec.cur \in Tiles /\ str.parts[i].tile = dec.cur /\ str.parts[i].tp = tcp[dec.cur].tpno
            /\ pos = Off(str, i) + HeadLen(str, i) /\ len = str.parts[i].len
            /\ pos' = pos + got /\ pos' \in 0..Len(items)
            /\ got \in 0..len /\ (got < len => pos' = Len(items))
  BY <1>1, SodReads
<1>4. pos' = Off(str, i) + PartLen(str, i) \/ pos' = Len(items)
  <2>1. got \in Nat /\ got <= len /\ len \in Nat
    BY <1>3, PartSizes
  <2>2. CASE got = len
    <3>1. pos' = (Off(str, i) + HeadLen(str, i)) + str.parts[i].len
      BY <1>3, <2>2
    <3>2. /\ Off(str, i) \in Nat /\ HeadLen(str, i) \in Nat /\ str.parts[i].len \in Nat
          /\ PartLen(str, i) = HeadLen(str, i) + str.parts[i].len
      BY PartSizes
    <3> QED BY <3>1, <3>2
  <2>3. CASE got < len
    BY <1>3, <2>3
  <2> QED BY <2>1, <2>2, <2>3
<1>5. AtEnd'
  <2>1. Off(str, i) + PartLen(str, i) + 1 <= Len(items) =>
             items[Off(str, i) + PartLen(str, i) + 1][1] \in {"SOT", "EOC"}
    BY StreamLaid DEF Laid
  <2> QED BY <1>2, <1>3, <1>4, <2>1, StreamLaid DEF AtEnd
<1>6. Tiles' = Tiles
  BY <1>2 DEF Tiles
<1> QED BY <1>2, <1>3, <1>5, <1>6 DEF Heading, Placing, InHeader

\* a step to another place of the code, where nothing is assumed of the stream
LEMMA OffTrack ==
  ASSUME pc' \notin {"segment", "read", "next", "loop"}
  PROVE  OnTrack'
  BY DEF OnTrack, Heading, Placing, InHeader

LEMMA LoopKeepsTrack ==
  ASSUME IInv, Typed, Full, OnTrack, ~Fail,
         EnterHeader \/ SeekIntersecting \/ ReadOn \/ JumpByTlm \/ NextMarker
             \/ SkipData
  PROVE  OnTrack'
<1>1. CASE EnterHeader
  BY <1>1 DEF EnterHeader, OnTrack, Heading, Placing, InHeader
<1>2. CASE SeekIntersecting
  BY <1>2 DEF SeekIntersecting, OnTrack, Heading, Placing, InHeader
<1>3. CASE ReadOn
  BY <1>3 DEF ReadOn, LoopDone, OnTrack, Heading, Placing, InHeader
<1>4. CASE JumpByTlm
  BY <1>4 DEF JumpByTlm, OnTrack, Heading, Placing, InHeader
<1>5. CASE NextMarker
  <2>1. CASE dec.canDecode /\ pc' = "loop" /\ UNCHANGED dec
    BY <2>1 DEF OnTrack, Heading, Placing, InHeader
  <2>2. CASE Left > 0 /\ marker' = At(pos) /\ pc' = "loop" /\ UNCHANGED dec
    <3>1. pos < Len(items)
      BY <2>2, Where
    <3>2. pc = "next"
      BY <1>5 DEF NextMarker
    <3> QED BY <2>2, <3>1, <3>2 DEF OnTrack, Heading, Placing, InHeader, AtEnd, At
  <2>3. CASE pc' \in {"tail", "failed"}
    BY <2>3, OffTrack
  <2> QED BY <1>5, <2>1, <2>2, <2>3 DEF NextMarker
<1>6. CASE SkipData
  <2>1. /\ pc = "segment" /\ marker = "SOD" /\ dec.skip /\ pc' = "next"
        /\ dec' = [dec EXCEPT !.skip = FALSE, !.canDecode = FALSE, !.state = "TPHSOT"]
        /\ UNCHANGED <<str, items, pos, marker>>
    BY <1>6 DEF SkipData
  <2>2. dec'.lastPart = dec.lastPart /\ dec'.cur = dec.cur
    BY <2>1 DEF Full, DecFull, DecNames
  <2> QED BY <2>1, <2>2 DEF OnTrack, Heading, Placing, InHeader, AtEnd, Tiles
<1> QED BY <1>1, <1>2, <1>3, <1>4, <1>5, <1>6

LEMMA StepKeepsTrack ==
  ASSUME IInv, Typed, Full, OnTrack, [Next]_vars
  PROVE  OnTrack'
<1>1. CASE Fail
  BY <1>1, OffTrack DEF Fail
<1>2. CASE UNCHANGED vars
  BY <1>2 DEF vars, OnTrack, Heading, Placing, InHeader, InPart, AtEnd, Tiles
<1>3. CASE ~Fail /\ ReadHeader
  BY <1>3, OffTrack DEF ReadHeader, ReadSoc, ReadMainMarker, MainHeaderDone
<1>4. CASE ~Fail /\ Client
  BY <1>4, OffTrack DEF Client, SetAreaAndDecode, GetTile, ReadTileHeader, DecodeTileData
<1>5. CASE ~Fail /\ TileStep
  BY <1>5, OffTrack DEF TileStep, DecodeTile, DecodeTileFails, TileRefused, AfterDecode, AfterTile, Finish
<1>6. CASE ~Fail /\ (LeaveLoop \/ EndOfStream \/ ChooseTile)
  BY <1>6, OffTrack DEF LeaveLoop, EndOfStream, ChooseTile
<1>7. CASE ~Fail /\ CheckCorrection
  <2>1. PICK due, yes : CorrDoes(due, yes)
    BY <1>7, CorrEffect
  <2>2. /\ pc = "read" /\ pc' = "next" /\ dec'.lastPart = dec.lastPart /\ dec'.cur = dec.cur
        /\ UNCHANGED <<str, items, pos, marker>>
    BY <2>1 DEF CorrDoes, DecSame, DecNames
  <2> QED BY <2>2 DEF OnTrack, Heading, Placing, InHeader, AtEnd, Tiles
<1> QED BY <1>1, <1>2, <1>3, <1>4, <1>5, <1>6, <1>7, SotKeepsTrack, MarkerKeepsTrack, SodKeepsTrack,
           LoopKeepsTrack DEF Next, TilePartStep

LEMMA IntervalSize ==
  ASSUME NEW a \in Nat, NEW n \in Nat
  PROVE  Cardinality((a + 1)..(a + n)) = n
<1>1. PICK m \in Int, q \in Int : m = a + 1 /\ q = a + n
  OBVIOUS
<1>2. Cardinality(m..q) = IF m > q THEN 0 ELSE q - m + 1
  BY FS_Interval
<1>3. Cardinality(m..q) = n
  BY <1>1, <1>2
<1> QED BY <1>1, <1>3

\* the n elements of s behind the first a
Slice(w, s, a, n) == w = [k \in 1..n |-> s[a + k]]

LEMMA SubSeqAt ==
  ASSUME NEW S, NEW s \in Seq(S), NEW a \in Nat, NEW n \in Nat, a + n <= Len(s)
  PROVE  Slice(SubSeq(s, a + 1, a + n), s, a, n)
<1>1. PICK m \in Nat \ {0}, q \in Nat : m = a + 1 /\ q = a + n
  OBVIOUS
<1>2. \A i \in m..q : s[i] \in S
  BY <1>1
<1>3. /\ SubSeq(s, m, q) \in Seq(S)
      /\ Len(SubSeq(s, m, q)) = IF m <= q THEN q - m + 1 ELSE 0
      /\ \A i \in 1..(q - m + 1) : SubSeq(s, m, q)[i] = s[m + i - 1]
  BY <1>2, SubSeqProperties
<1>4. q - m + 1 = n /\ (m <= q <=> n # 0) /\ \A k \in 1..n : m + k - 1 = a + k
  BY <1>1
<1> DEFINE w == SubSeq(s, m, q)
<1> HIDE DEF w
<1>5. w \in Seq(S) /\ Len(w) = n /\ \A k \in 1..n : w[k] = s[a + k]
  <2>1. \A k \in 1..n : w[k] = s[m + k - 1]
    BY <1>3, <1>4 DEF w
  <2>2. \A k \in 1..n : w[k] = s[a + k]
    BY <1>4, <2>1
  <2>3. Len(w) = n
    BY <1>3, <1>4 DEF w
  <2> QED BY <1>3, <2>2, <2>3 DEF w
<1>6. w = [k \in 1..n |-> s[a + k]]
  BY <1>5
<1> QED BY <1>1, <1>6 DEF w, Slice

\* What ReadSod appends is all the file holds of the data of the tile-part.
LEMMA PieceRead ==
  ASSUME IInv, NEW i \in DOMAIN str.parts, NEW got \in 0..str.parts[i].len,
         pos = Off(str, i) + HeadLen(str, i), pos + got <= Len(items),
         got < str.parts[i].len => pos + got = Len(items)
  PROVE  SubSeq(items, pos + 1, pos + got) = PartData(str, i)
<1> DEFINE h == HeadLen(str, i)
           L == str.parts[i].len
           held == {m \in DOMAIN items : items[m][1] = "data" /\ items[m][2] = i}
           more == SubSeq(items, pos + 1, pos + got)
<1>1. /\ Off(str, i) \in Nat /\ h \in Nat /\ L \in Nat /\ PartLen(str, i) = h + L
      /\ pos \in Nat /\ got \in Nat /\ got <= L /\ Len(items) \in Nat
  BY PartSizes DEF IInv, Placed
<1>2. items \in Seq(Item) /\ DOMAIN items = 1..Len(items) /\ items = Items(str)
  BY ItemsAreItems, StreamLaid DEF IInv
<1> HIDE DEF h, L
<1>3. \A k \in 1..got : pos + k \in 1..Len(items) /\ items[pos + k] = <<"data", i, k>>
  <2> SUFFICES ASSUME NEW k \in 1..got PROVE pos + k \in 1..Len(items) /\ items[pos + k] = <<"data", i, k>>
    OBVIOUS
  <2>1. h + k \in 1..PartLen(str, i) /\ pos + k = Off(str, i) + (h + k) /\ pos + k \in 1..Len(items)
        /\ k \in 1..L
    BY <1>1 DEF h
  <2>2. items[Off(str, i) + (h + k)] = PartItems(str, i)[h + k]
    <3>1. Off(str, i) + (h + k) <= Len(items)
      BY <1>1, <2>1
    <3> QED BY <2>1, <3>1, PlaceIn
  <2>3. PartItems(str, i)[h + k] = <<"data", i, k>>
    BY <2>1, StreamLaid DEF PartShape, h, L
  <2> QED BY <2>1, <2>2, <2>3
<1>4. \A m \in held : m \in (pos + 1)..(pos + got)
  <2> SUFFICES ASSUME NEW m \in held PROVE m \in (pos + 1)..(pos + got)
    OBVIOUS
  <2>1. m \in 1..Len(items) /\ items[m][1] = "data" /\ items[m][2] = i
    BY <1>2
  <2>2. items[m][1] \in PartKinds
    BY <2>1 DEF PartKinds
  <2>3. PICK q \in DOMAIN str.parts : \E j \in 1..PartLen(str, q) :
            m = Off(str, q) + j /\ items[m] = PartItems(str, q)[j]
    BY <2>1, <2>2, KindAt
  <2>4. PICK j \in 1..PartLen(str, q) : m = Off(str, q) + j /\ items[m] = PartItems(str, q)[j]
    BY <2>3
  <2>5. q = i /\ j > HeadLen(str, q)
    <3>1. PartItems(str, q)[j][2] = q /\ (PartItems(str, q)[j][1] = "data" <=> j > HeadLen(str, q))
      BY <2>4, PlaceIn
    <3> QED BY <2>1, <2>4, <3>1
  <2>6. j \in Nat /\ j <= h + L /\ j > h /\ m = Off(str, i) + j /\ m <= Len(items)
    BY <1>1, <2>1, <2>4, <2>5 DEF h
  <2>7. CASE got = L
    BY <1>1, <2>6, <2>7 DEF h
  <2>8. CASE got < L
    BY <1>1, <2>6, <2>8 DEF h, L
  <2> QED BY <1>1, <2>7, <2>8
<1>5. held = (pos + 1)..(pos + got)
  <2>1. \A m \in (pos + 1)..(pos + got) : m - pos \in 1..got /\ pos + (m - pos) = m
    BY <1>1
  <2>2. \A m \in (pos + 1)..(pos + got) : m \in held
    <3> SUFFICES ASSUME NEW m \in (pos + 1)..(pos + got) PROVE m \in held
      OBVIOUS
    <3>1. m \in 1..Len(items) /\ items[m] = <<"data", i, m - pos>>
      BY <1>3, <2>1
    <3> QED BY <1>2, <3>1
  <2> HIDE DEF held
  <2> QED BY <1>4, <2>2
<1>6. Cardinality(held) = got
  <2> HIDE DEF held
  <2> QED BY <1>1, <1>5, IntervalSize
<1>7. PartData(str, i) = [k \in 1..got |-> <<"data", i, k>>]
  BY <1>2, <1>6 DEF PartData
<1>8. more = [k \in 1..got |-> <<"data", i, k>>]
  <2>1. more = [k \in 1..got |-> items[pos + k]]
    <3>1. Slice(SubSeq(items, pos + 1, pos + got), items, pos, got)
      BY <1>1, <1>2, SubSeqAt
    <3> QED BY <3>1 DEF Slice
  <2> HIDE DEF more
  <2> QED BY <1>3, <2>1
<1> QED BY <1>7, <1>8

\* the data of a tile, and what it was decoded from, go on, are forgotten or decoded
DataKept ==
    \A t \in Tiles : /\ tcp'[t].data = tcp[t].data \/ tcp'[t].data = <<>>
                     /\ out'[t] = out[t] \/ out'[t] = Nothing
                          \/ (out'[t] = tcp[t].data /\ tcp[t].data # <<>>)

LEMMA KeptSame ==
  ASSUME UNCHANGED out, \A t \in Tiles : tcp'[t].data = tcp[t].data
  PROVE  DataKept
  BY DEF DataKept

LEMMA DataKeeps ==
  ASSUME IInv, Typed, Full, [Next]_vars, ~ReadSod \/ Fail
  PROVE  DataKept
<1>1. CASE Fail
  BY <1>1, KeptSame DEF Fail
<1>2. CASE UNCHANGED vars
  BY <1>2, KeptSame DEF vars
<1>3. CASE ReadHeader /\ ~Fail
  BY <1>3, KeptSame DEF ReadHeader, ReadSoc, ReadMainMarker, MainHeaderDone
<1>4. CASE Client /\ ~Fail
  <2>1. \A t \in Tiles : tcp'[t].data = tcp[t].data
    <3>1. UNCHANGED tcp \/ tcp' = [u \in Tiles |-> [tcp[u] EXCEPT !.tpno = -1]]
      BY <1>4 DEF Client, SetAreaAndDecode, GetTile, ReadTileHeader, DecodeTileData
    <3> QED BY <3>1 DEF Full, TcpFull, TcpNames
  <2>2. UNCHANGED out \/ out' = [t \in Tiles |-> Nothing]
    BY <1>4 DEF Client, SetAreaAndDecode, GetTile, ReadTileHeader, DecodeTileData, NewCall
  <2> QED BY <2>1, <2>2 DEF DataKept
<1>5. CASE TileStep /\ ~Fail
  <2>1. CASE DecodeTile
    <3>1. PICK c, eoc, stray : DecodeDoes(c, eoc, stray)
      BY <2>1, DecodeEffect
    <3>2. /\ out' = [out EXCEPT ![c] = tcp[c].data] /\ tcp[c].data # <<>>
          /\ \A u \in Tiles : tcp'[u].data = IF u = c /\ call.kind = "header" THEN <<>> ELSE tcp[u].data
      BY <3>1 DEF DecodeDoes
    <3> QED BY <3>2 DEF DataKept, Full, OutFull
  <2>2. CASE ~DecodeTile
    <3>1. UNCHANGED out /\ (UNCHANGED tcp \/ \E t, free : tcp' = TileFreed(t, free))
      BY <1>5, <2>2 DEF TileStep, DecodeTileFails, TileRefused, AfterDecode, AfterTile, Finish
    <3>2. ASSUME NEW t, NEW free, tcp' = TileFreed(t, free)
          PROVE  \A u \in Tiles : tcp'[u].data = tcp[u].data \/ tcp'[u].data = <<>>
      BY <3>2 DEF TileFreed, Full, TcpFull, TcpNames
    <3> QED BY <3>1, <3>2 DEF DataKept
  <2> QED BY <2>1, <2>2
<1>6. CASE TilePartStep /\ ~Fail
  <2>1. UNCHANGED out
    BY <1>6 DEF TilePartStep, EnterHeader, LeaveLoop, SeekIntersecting, ReadOn, EndOfStream,
       ReadSot, ReadTilePartMarker, ReadSod, SkipData, JumpByTlm, CheckCorrection, NextMarker, ChooseTile
  <2>2. CASE ReadSot
    <3>1. PICK i, n, nb, skip : SotDoes(i, n, nb, skip)
      BY <1>6, <2>2, SotEffect
    <3>2. /\ TcpSame(str.parts[i].tile, {"tpno", "nb"})
          /\ \A t \in Tiles \ {str.parts[i].tile} : tcp'[t] = tcp[t]
      BY <3>1 DEF SotDoes
    <3>3. \A t \in Tiles : tcp'[t].data = tcp[t].data
      BY <3>2 DEF TcpSame, TcpNames
    <3> QED BY <2>1, <3>3, KeptSame
  <2>3. CASE ReadTilePartMarker
    <3>1. tcp' = [tcp EXCEPT ![dec.cur].ppt = TRUE]
      BY <1>6, <2>3 DEF ReadTilePartMarker
    <3> QED BY <2>1, <3>1, KeptSame DEF Full, TcpFull, TcpNames
  <2>4. CASE CheckCorrection
    <3>1. PICK due, yes : CorrDoes(due, yes)
      BY <1>6, <2>4, CorrEffect
    <3>2. \A t \in Tiles : tcp'[t].data = tcp[t].data
      BY <3>1 DEF CorrDoes, TcpSame, TcpNames
    <3> QED BY <2>1, <3>2, KeptSame
  <2>5. CASE ChooseTile
    <3>1. PICK t, ended : ChooseDoes(t, ended)
      BY <1>6, <2>5, ChooseEffect
    <3>2. \A u \in Tiles : tcp'[u].data = tcp[u].data
      BY <3>1 DEF ChooseDoes, TcpSame, TcpNames
    <3> QED BY <2>1, <3>2, KeptSame
  <2>6. CASE EnterHeader \/ LeaveLoop \/ SeekIntersecting \/ ReadOn \/ EndOfStream \/ SkipData \/ JumpByTlm \/ NextMarker
    <3>1. UNCHANGED tcp
      BY <1>6, <2>6 DEF EnterHeader, LeaveLoop, SeekIntersecting, ReadOn, EndOfStream, SkipData, JumpByTlm, NextMarker
    <3> QED BY <2>1, <3>1, KeptSame
  <2> QED BY <1>1, <1>6, <2>2, <2>3, <2>4, <2>5, <2>6 DEF TilePartStep
<1> QED BY <1>1, <1>2, <1>3, <1>4, <1>5, <1>6 DEF Next

\* m_last_tile_part is set by a Psot of 0 and never reset.
LEMMA LastPartStays ==
  ASSUME IInv, Typed, Full, [Next]_vars, ~dec'.lastPart
  PROVE  ~dec.lastPart
<1>1. CASE UNCHANGED dec
  BY <1>1
<1>2. CASE ReadSot /\ ~Fail
  <2>1. PICK i, n, nb, skip : SotDoes(i, n, nb, skip)
    BY <1>2, SotEffect
  <2>2. dec'.lastPart = (dec.lastPart \/ Psot(str, i) = 0)
    BY <2>1, Zenon DEF SotDoes
  <2> QED BY <2>2
<1>3. CASE ReadSod /\ ~Fail
  BY <1>3, SodEffect DEF SodDoes, DecSame, DecNames
<1>4. CASE CheckCorrection /\ ~Fail
  BY <1>4, CorrEffect DEF CorrDoes, DecSame, DecNames
<1>5. CASE ChooseTile /\ ~Fail
  BY <1>5, ChooseEffect DEF ChooseDoes, DecSame, DecNames
<1>6. CASE DecodeTile
  BY <1>6, DecodeEffect DEF DecodeDoes, DecSame, DecNames
<1>7. CASE ReadTilePartMarker /\ ~Fail
  <2>1. dec' = [dec EXCEPT !.sotLen = IF @ = 0 THEN 0 ELSE @ - 2]
    BY <1>7 DEF ReadTilePartMarker
  <2> QED BY <2>1 DEF Full, DecFull, DecNames
<1>8. CASE NextMarker /\ ~Fail
  <2>1. UNCHANGED dec \/ \E v, w : dec' = [dec EXCEPT !.state = v, !.cur = w]
    BY <1>8 DEF NextMarker
  <2> QED BY <2>1 DEF Full, DecFull, DecNames
<1>9. CASE /\ ~Fail
           /\ EnterHeader \/ LeaveLoop \/ SeekIntersecting \/ ReadOn \/ EndOfStream \/ SkipData \/ JumpByTlm
  <2>1. \/ UNCHANGED dec
        \/ dec' = [dec EXCEPT !.interIdx = @ + 1]
        \/ dec' = [dec EXCEPT !.state = "NEOC"]
        \/ dec' = [dec EXCEPT !.skip = FALSE, !.canDecode = FALSE, !.state = "TPHSOT"]
    BY <1>9 DEF EnterHeader, LeaveLoop, SeekIntersecting, ReadOn, EndOfStream, SkipData, JumpByTlm
  <2> QED BY <2>1 DEF Full, DecFull, DecNames
<1>10. CASE ReadHeader /\ ~Fail
  <2>1. \/ \E v : dec' = [dec EXCEPT !.state = v]
        \/ \E v, w : dec' = [dec EXCEPT !.seen = v, !.state = w]
        \/ \E v, w : dec' = [dec EXCEPT !.state = v, !.tlm = w]
    BY <1>10 DEF ReadHeader, ReadSoc, ReadMainMarker, MainHeaderDone
  <2> QED BY <2>1 DEF Full, DecFull, DecNames
<1>11. CASE Client /\ ~Fail
  <2>1. \/ UNCHANGED dec
        \/ dec' = [dec EXCEPT !.cur = 0, !.hasData = TRUE, !.inter = <<>>, !.interIdx = 0]
        \/ \E v : dec' = [dec EXCEPT !.interIdx = 0, !.inter = v]
        \/ \E v, w : dec' = [dec EXCEPT !.tileInd = v, !.state = w]
    BY <1>11 DEF Client, SetAreaAndDecode, GetTile, ReadTileHeader, DecodeTileData
  <2> QED BY <2>1 DEF Full, DecFull, DecNames
<1>12. CASE Fail
  BY <1>12 DEF Fail
<1>13. CASE UNCHANGED vars
  BY <1>13 DEF vars
<1>14. CASE TileStep /\ ~DecodeTile
  <2>1. UNCHANGED dec
    BY <1>14 DEF TileStep, DecodeTileFails, TileRefused, AfterDecode, AfterTile, Finish, Fail
  <2> QED BY <2>1
<1> QED BY <1>2, <1>3, <1>4, <1>5, <1>6, <1>7, <1>8, <1>9, <1>10, <1>11, <1>12, <1>13, <1>14
        DEF Next, TilePartStep, TileStep

\* packet data of tile t and of no other
DataOf(x, t) == \A k \in 1..Len(x) : x[k][1] = "data" /\ str.parts[x[k][2]].tile = t
OwnData == \A t \in Tiles : /\ DataOf(tcp[t].data, t)
                            /\ out[t] # Nothing => DataOf(out[t], t)

LEMMA PieceOf ==
  ASSUME IInv, NEW i \in DOMAIN str.parts, NEW a \in Seq(Item), DataOf(a, str.parts[i].tile)
  PROVE  DataOf(a \o PartData(str, i), str.parts[i].tile)
<1> DEFINE c == Cardinality({n \in DOMAIN items : items[n][1] = "data" /\ items[n][2] = i})
           d == [k \in 1..c |-> <<"data", i, k>>]
           X == {<<"data", i, k>> : k \in Nat}
           Y == Item \cup X
<1>1. PartData(str, i) = d
  BY StreamLaid DEF PartData
<1>2. c \in Nat
  <2>1. DOMAIN items = 1..Len(items) /\ Len(items) \in Nat
    BY ItemsAreItems DEF IInv
  <2>2. IsFiniteSet(1..Len(items))
    BY <2>1, FS_Interval
  <2>3. IsFiniteSet({n \in DOMAIN items : items[n][1] = "data" /\ items[n][2] = i})
    BY <2>1, <2>2, FS_Subset
  <2> QED BY <2>3, FS_CardinalityType
<1> HIDE DEF c
<1>3. d \in Seq(Y) /\ Len(d) = c /\ \A k \in 1..c : d[k] = <<"data", i, k>>
  <2>1. d \in [1..c -> Y]
    OBVIOUS
  <2> QED BY <1>2, <2>1
<1>4. a \in Seq(Y)
  OBVIOUS
<1> HIDE DEF d, Y
<1>5. a \o d \in Seq(Y) /\ JoinOf(a \o d, a, d)
  BY <1>3, <1>4, ConcatAt, Zenon
<1> DEFINE w == a \o d
<1> HIDE DEF w
<1>6. DataOf(w, str.parts[i].tile)
  <2> SUFFICES ASSUME NEW k \in 1..Len(w)
               PROVE  w[k][1] = "data" /\ str.parts[w[k][2]].tile = str.parts[i].tile
    BY DEF DataOf
  <2>1. k \in 1..(Len(a) + Len(d)) /\ w[k] = IF k <= Len(a) THEN a[k] ELSE d[k - Len(a)]
    BY <1>5 DEF JoinOf, w
  <2>2. Len(a) \in Nat /\ k \in Nat /\ Len(d) \in Nat
    BY <1>2, <1>3, <2>1
  <2>3. CASE k <= Len(a)
    BY <2>1, <2>2, <2>3 DEF DataOf
  <2>4. CASE ~(k <= Len(a))
    <3>1. k - Len(a) \in 1..c
      BY <1>3, <2>1, <2>2, <2>4
    <3> QED BY <1>3, <2>1, <2>4, <3>1
  <2> QED BY <2>3, <2>4
<1> QED BY <1>1, <1>6 DEF w

\* The data a step joins to a tile are those of its next tile-part.
LEMMA SodJoins ==
  ASSUME IInv, Typed, Full, OnTrack, ReadSod, ~Fail, ~dec'.lastPart
  PROVE  \E i \in DOMAIN str.parts :
            /\ dec.cur \in Tiles /\ str.parts[i].tile = dec.cur /\ str.parts[i].tp = tcp[dec.cur].tpno
            /\ tcp'[dec.cur].data = tcp[dec.cur].data \o PartData(str, i)
            /\ \A t \in Tiles \ {dec.cur} : tcp'[t] = tcp[t]
            /\ \A t \in Tiles : TcpSame(t, {"data"})
            /\ UNCHANGED <<str, items, out, call, index>> /\ DecSame({"sotLen", "state"}) /\ pc' = "read"
            /\ dec'.state \in {"NEOC", "TPHSOT"}
<1>1. PICK len, got : SodDoes(len, got)
  BY SodEffect
<1>2. ~dec.lastPart
  BY <1>1 DEF SodDoes, DecSame, DecNames
<1>3. PICK i \in DOMAIN str.parts :
            /\ dec.cur \in Tiles /\ str.parts[i].tile = dec.cur /\ str.parts[i].tp = tcp[dec.cur].tpno
            /\ pos = Off(str, i) + HeadLen(str, i) /\ len = str.parts[i].len
            /\ pos' = pos + got /\ pos' \in 0..Len(items)
            /\ got \in 0..len /\ (got < len => pos' = Len(items))
  BY <1>1, <1>2, SodReads
<1>4. SubSeq(items, pos + 1, pos + got) = PartData(str, i)
  <2>1. pos + got <= Len(items) /\ got \in 0..str.parts[i].len
    BY <1>3, StreamLaid
  <2> QED BY <1>3, <2>1, PieceRead
<1>5. /\ tcp'[dec.cur].data = tcp[dec.cur].data \o SubSeq(items, pos + 1, pos + got)
      /\ \A t \in Tiles \ {dec.cur} : tcp'[t] = tcp[t]
      /\ \A t \in Tiles : TcpSame(t, {"data"})
      /\ UNCHANGED <<str, items, out, call, index>> /\ DecSame({"sotLen", "state"}) /\ pc' = "read"
      /\ dec'.state \in {"NEOC", "TPHSOT"}
  BY <1>1, <1>3 DEF SodDoes
<1> QED BY <1>3, <1>4, <1>5

LEMMA SodOwn ==
  ASSUME IInv, Typed, Full, OnTrack, ReadSod, ~Fail, ~dec'.lastPart, OwnData
  PROVE  OwnData'
<1>1. PICK i \in DOMAIN str.parts :
            /\ dec.cur \in Tiles /\ str.parts[i].tile = dec.cur /\ str.parts[i].tp = tcp[dec.cur].tpno
            /\ tcp'[dec.cur].data = tcp[dec.cur].data \o PartData(str, i)
            /\ \A t \in Tiles \ {dec.cur} : tcp'[t] = tcp[t]
            /\ UNCHANGED <<str, items, out>>
  BY SodJoins
<1>2. tcp[dec.cur].data \in Seq(Item)
  BY <1>1 DEF IInv, Kept, Shaped
<1>3. DataOf(tcp'[dec.cur].data, dec.cur)
  BY <1>1, <1>2, PieceOf DEF OwnData
<1>4. \A t \in Tiles : DataOf(tcp'[t].data, t)
  <2>1. \A t \in Tiles \ {dec.cur} : tcp'[t] = tcp[t]
    BY <1>1
  <2>2. \A t \in Tiles \ {dec.cur} : DataOf(tcp'[t].data, t)
    BY <2>1 DEF OwnData
  <2> QED BY <1>3, <2>2
<1>5. \A t \in Tiles : out'[t] # Nothing => DataOf(out'[t], t)
  BY <1>1 DEF OwnData
<1>6. str' = str
  BY <1>1
<1> QED BY <1>4, <1>5, <1>6 DEF OwnData, DataOf, Tiles

LEMMA StrStays ==
  ASSUME [Next]_vars
  PROVE  UNCHANGED <<str, items>>
<1>1. CASE UNCHANGED vars
  BY <1>1 DEF vars
<1>2. CASE ReadHeader
  BY <1>2 DEF ReadHeader, ReadSoc, ReadMainMarker, MainHeaderDone, Fail
<1>3. CASE Client
  BY <1>3 DEF Client, SetAreaAndDecode, GetTile, ReadTileHeader, DecodeTileData, Fail
<1>4. CASE EnterHeader \/ LeaveLoop \/ SeekIntersecting \/ ReadOn \/ EndOfStream
  BY <1>4 DEF EnterHeader, LeaveLoop, SeekIntersecting, ReadOn, EndOfStream, Fail
<1>5. CASE ReadSot
  BY <1>5, Zenon DEF ReadSot, Fail
<1>6. CASE ReadTilePartMarker \/ ReadSod \/ SkipData
  BY <1>6 DEF ReadTilePartMarker, ReadSod, SkipData, Fail
<1>7. CASE JumpByTlm \/ CheckCorrection \/ NextMarker
  BY <1>7 DEF JumpByTlm, CheckCorrection, NextMarker, Fail
<1>8. CASE ChooseTile
  BY <1>8 DEF ChooseTile, Fail
<1>9. CASE TileStep
  BY <1>9 DEF TileStep, DecodeTile, DecodeTileFails, TileRefused, AfterDecode, AfterTile, Finish, Fail
<1> QED BY <1>1, <1>2, <1>3, <1>4, <1>5, <1>6, <1>7, <1>8, <1>9 DEF Next, TilePartStep

LEMMA StepOwn ==
  ASSUME IInv, Typed, Full, OnTrack, [Next]_vars, ~dec'.lastPart, OwnData
  PROVE  OwnData'
<1>1. CASE ReadSod /\ ~Fail
  BY <1>1, SodOwn
<1>2. CASE ~ReadSod \/ Fail
  <2>1. DataKept
    BY <1>2, DataKeeps
  <2>2. UNCHANGED str
    BY StrStays
  <2>3. \A t \in Tiles : DataOf(<<>>, t)
    BY DEF DataOf
  <2>4. \A t \in Tiles : DataOf(tcp'[t].data, t)
    BY <2>1, <2>3 DEF DataKept, OwnData
  <2>5. \A t \in Tiles : out'[t] # Nothing => DataOf(out'[t], t)
    BY <2>1 DEF DataKept, OwnData
  <2>6. \A x, t : DataOf(x, t)' <=> (\A k \in 1..Len(x) : x[k][1] = "data" /\ str.parts[x[k][2]].tile = t)
    BY <2>2 DEF DataOf
  <2> QED BY <2>2, <2>4, <2>5 DEF OwnData, DataOf, Tiles
<1> QED BY <1>1, <1>2

\* what every step relies on, of every file
Base == IInv /\ Typed /\ Full /\ OnTrack

LEMMA InitBase ==
  ASSUME Init
  PROVE  Base
  BY InitIInv, InitTyped, InitFull DEF Base, OnTrack, Heading, Placing, InHeader, Init

LEMMA StepBase ==
  ASSUME Base, [Next]_vars
  PROVE  Base'
  BY StepIInv, StepTyped, StepFull, StepKeepsTrack DEF Base

\* As long as no tile-part with Psot = 0 was met, what is collected for a tile and what it
\* was decoded from are packet data of that tile and of no other (j2k.c:5102), whatever
\* was skipped, sought (j2k.c:9737, 9920) or cut off: m_current_tile_number, TPsot and the
\* length that opj_j2k_read_sot computed still belong to the tile-part at the stream's
\* position when opj_j2k_read_sod reads it.
OwnDataInv == ~dec.lastPart => OwnData
THEOREM OwnDataOnly == Spec => []OwnDataInv
<1>1. Init => OwnDataInv
  <2> SUFFICES ASSUME Init PROVE OwnData
    BY DEF OwnDataInv
  <2>1. \A t \in Tiles : tcp[t].data = <<>> /\ out[t] = Nothing
    BY DEF Init, NewTcp
  <2>2. \A t \in Tiles : DataOf(<<>>, t)
    BY DEF DataOf
  <2> QED BY <2>1, <2>2 DEF OwnData
<1>2. Base /\ OwnDataInv /\ [Next]_vars => OwnDataInv'
  <2> SUFFICES ASSUME Base, OwnDataInv, [Next]_vars, ~dec'.lastPart PROVE OwnData'
    BY DEF OwnDataInv
  <2>1. ~dec.lastPart
    BY LastPartStays DEF Base
  <2> QED BY <2>1, StepOwn DEF Base, OwnDataInv
<1> QED BY InitBase, StepBase, <1>1, <1>2, PTL DEF Spec

-----------------------------------------------------------------------------
(* The other actions, field by field.                                      *)

TcpKept(S) == \A t \in Tiles : TcpSame(t, S)

EnterMove == /\ pc = "enter" /\ pc' = "loop" /\ ~dec.hasData /\ dec.state \in {"EOC", "TPHSOT"}
             /\ marker' = (IF dec.state = "EOC" THEN "EOC" ELSE "SOT")
             /\ pos' = pos /\ DecSame({})
LeaveMove == /\ pc = "loop" /\ pc' = "tail" /\ (dec.canDecode \/ marker = "EOC")
             /\ marker' = marker /\ pos' = pos /\ DecSame({})
SeekMove  == /\ pc = "loop" /\ pc' = "segment" /\ ~dec.canDecode /\ marker # "EOC"
             /\ dec.interIdx < Len(dec.inter) /\ dec'.interIdx = dec.interIdx + 1
             /\ pos' = dec.inter[dec.interIdx + 1] + 1 /\ marker' = "SOT" /\ DecSame({"interIdx"})
OnMove    == /\ pc = "loop" /\ pc' = "segment" /\ ~dec.canDecode /\ marker # "EOC"
             /\ dec.interIdx = Len(dec.inter)
             /\ marker' = marker /\ pos' = pos /\ DecSame({})
EndMove   == /\ pc = "segment" /\ pc' = "tail" /\ marker # "SOD" /\ marker' = marker /\ pos' = pos
             /\ dec'.state = "NEOC" /\ DecSame({"state"})
PptMove   == /\ pc = "segment" /\ pc' = "segment" /\ marker \notin {"SOT", "SOD"}
             /\ (~dec.lastPart => marker' # "SOT") /\ DecSame({"sotLen"})
SkipMove  == /\ pc = "segment" /\ pc' = "next" /\ marker = "SOD" /\ dec.skip
             /\ marker' = marker /\ pos' = pos
             /\ ~dec'.skip /\ ~dec'.canDecode /\ dec'.state = "TPHSOT"
             /\ DecSame({"skip", "canDecode", "state"})
JumpMove  == /\ pc = "read" /\ pc' = "loop" /\ ~dec.canDecode /\ dec.tileInd = dec.cur
             /\ marker' = "SOT" /\ DecSame({})
NextMove  == /\ pc = "next" /\ pc' = "loop" /\ DecSame({})
             /\ dec.canDecode => marker' = marker
SpotMove  == /\ pc = "next" /\ pc' = "tail" /\ ~dec.canDecode /\ dec'.state = "EOC"
             /\ DecSame({"state", "cur"})
GiveUp    == pc = "next" /\ pc' = "failed" /\ DecSame({})

Moves == EnterMove \/ LeaveMove \/ SeekMove \/ OnMove \/ EndMove \/ PptMove \/ SkipMove \/ JumpMove
             \/ NextMove \/ SpotMove \/ GiveUp
MoveStep == EnterHeader \/ LeaveLoop \/ SeekIntersecting \/ ReadOn \/ EndOfStream \/ ReadTilePartMarker
             \/ SkipData \/ JumpByTlm \/ NextMarker

\* Behind a marker of a tile-part header stands no other tile-part.
LEMMA PptStays ==
  ASSUME Base, ReadTilePartMarker, ~Fail, ~dec.lastPart
  PROVE  marker' # "SOT"
<1>1. /\ pc = "segment" /\ marker \notin {"SOT", "SOD"} /\ Left >= 2
      /\ marker' = At(pos + 1)
  BY DEF ReadTilePartMarker
<1>2. \E i \in DOMAIN str.parts : \E j \in {3, 5} : InPart(i, j)
  BY <1>1 DEF Base, OnTrack, Heading, InHeader
<1>3. PICK i \in DOMAIN str.parts : \E j \in {3, 5} : InPart(i, j)
  BY <1>2
<1>4. PICK j \in {3, 5} : InPart(i, j)
  BY <1>3
<1>5. PartShape(str, i) /\ Off(str, i) \in Nat /\ Len(items) \in Nat
  BY StreamLaid DEF Base
<1>6. j = 3 /\ str.parts[i].ppt
  <2>1. PartItems(str, i)[HeadLen(str, i)][1] = "SOD"
    BY <1>5 DEF PartShape
  <2> QED BY <1>1, <1>4, <2>1 DEF HeadLen, InPart
<1>7. pos = Off(str, i) + 3 /\ PartLen(str, i) \in Nat /\ PartLen(str, i) >= 5
  <2>1. PartLen(str, i) \in Nat /\ PartLen(str, i) = HeadLen(str, i) + str.parts[i].len /\ str.parts[i].len \in Nat
    BY PlaceIn DEF Base
  <2>2. HeadLen(str, i) = 5 /\ pos = Off(str, i) + 3
    BY <1>4, <1>6 DEF HeadLen, InPart
  <2> QED BY <2>1, <2>2
<1>8. Off(str, i) + 5 <= Len(items) /\ pos + 1 + 1 = Off(str, i) + 5
  BY <1>1, <1>5, <1>7, Where DEF Base
<1>9. items[Off(str, i) + 5] = PartItems(str, i)[5] /\ PartItems(str, i)[5][1] # "SOT"
  BY <1>5, <1>7, <1>8, PlaceIn DEF Base
<1> QED BY <1>1, <1>8, <1>9 DEF At

LEMMA MoveEffect ==
  ASSUME Base, MoveStep, ~Fail
  PROVE  Moves /\ TcpKept({"ppt"}) /\ UNCHANGED <<str, items, index, call, out>>
<1>1. CASE EnterHeader
  <2>1. EnterMove /\ UNCHANGED <<str, items, tcp, index, call, out>>
    BY <1>1 DEF EnterHeader, EnterMove, DecSame
  <2> QED BY <2>1 DEF Moves, TcpKept, TcpSame
<1>2. CASE LeaveLoop
  <2>1. LeaveMove /\ UNCHANGED <<str, items, tcp, index, call, out>>
    BY <1>2 DEF LeaveLoop, LoopDone, LeaveMove, DecSame
  <2> QED BY <2>1 DEF Moves, TcpKept, TcpSame
<1>3. CASE SeekIntersecting
  <2>1. SeekMove /\ UNCHANGED <<str, items, tcp, index, call, out>>
    <3>1. /\ pc = "loop" /\ ~LoopDone /\ dec.interIdx < Len(dec.inter)
          /\ pos' = dec.inter[dec.interIdx + 1] + 1 /\ marker' = "SOT"
          /\ dec' = [dec EXCEPT !.interIdx = @ + 1] /\ pc' = "segment"
          /\ UNCHANGED <<str, items, tcp, index, call, out>>
      BY <1>3 DEF SeekIntersecting
    <3>2. dec'.interIdx = dec.interIdx + 1 /\ DecSame({"interIdx"})
      BY <3>1 DEF Base, Full, DecFull, DecNames, DecSame
    <3> QED BY <3>1, <3>2 DEF SeekMove, LoopDone
  <2> QED BY <2>1 DEF Moves, TcpKept, TcpSame
<1>4. CASE ReadOn
  <2>1. OnMove /\ UNCHANGED <<str, items, tcp, index, call, out>>
    BY <1>4 DEF ReadOn, LoopDone, OnMove, DecSame
  <2> QED BY <2>1 DEF Moves, TcpKept, TcpSame
<1>5. CASE EndOfStream
  <2>1. EndMove /\ UNCHANGED <<str, items, tcp, index, call, out>>
    BY <1>5 DEF EndOfStream, EndMove, DecSame, Base, Full, DecFull, DecNames
  <2> QED BY <2>1 DEF Moves, TcpKept, TcpSame
<1>6. CASE ReadTilePartMarker
  <2>1. /\ pc = "segment" /\ marker \notin {"SOT", "SOD"} /\ pc' = pc
        /\ dec' = [dec EXCEPT !.sotLen = IF @ = 0 THEN 0 ELSE @ - 2]
        /\ tcp' = [tcp EXCEPT ![dec.cur].ppt = TRUE]
        /\ UNCHANGED <<str, items, index, call, out>>
    BY <1>6 DEF ReadTilePartMarker
  <2>2. DecSame({"sotLen"})
    BY <2>1 DEF Base, Full, DecFull, DecNames, DecSame
  <2>3. TcpKept({"ppt"})
    BY <2>1 DEF Base, Full, TcpFull, TcpNames, TcpKept, TcpSame
  <2>4. ~dec.lastPart => marker' # "SOT"
    BY <1>6, PptStays
  <2> QED BY <2>1, <2>2, <2>3, <2>4 DEF Moves, PptMove
<1>7. CASE SkipData
  <2>1. SkipMove /\ UNCHANGED <<str, items, tcp, index, call, out>>
    BY <1>7 DEF SkipData, SkipMove, DecSame, Base, Full, DecFull, DecNames
  <2> QED BY <2>1 DEF Moves, TcpKept, TcpSame
<1>8. CASE JumpByTlm
  <2>1. JumpMove /\ UNCHANGED <<str, items, tcp, index, call, out>>
    BY <1>8 DEF JumpByTlm, TlmLeads, JumpMove, DecSame
  <2> QED BY <2>1 DEF Moves, TcpKept, TcpSame
<1>9. CASE NextMarker
  <2>1. (NextMove \/ SpotMove \/ GiveUp) /\ UNCHANGED <<str, items, tcp, index, call, out>>
    <3>1. pc = "next" /\ UNCHANGED <<str, items, tcp, index, call, out>>
      BY <1>9 DEF NextMarker
    <3>2. CASE pc' = "loop" /\ UNCHANGED dec
      BY <1>9, <3>1, <3>2 DEF NextMarker, NextMove, DecSame
    <3>3. CASE /\ ~dec.canDecode /\ pc' = "tail"
               /\ \E w : dec' = [dec EXCEPT !.state = "EOC", !.cur = w]
      BY <3>1, <3>3 DEF SpotMove, DecSame, Base, Full, DecFull, DecNames
    <3>4. CASE pc' = "failed" /\ UNCHANGED dec
      BY <3>1, <3>4 DEF GiveUp, DecSame
    <3> QED BY <1>9, <3>2, <3>3, <3>4 DEF NextMarker
  <2> QED BY <2>1 DEF Moves, TcpKept, TcpSame
<1> QED BY <1>1, <1>2, <1>3, <1>4, <1>5, <1>6, <1>7, <1>8, <1>9 DEF MoveStep

\* The main header is read once, before any call.
HeaderDoes == /\ pc \in {"new", "main"} /\ pc' \in {"main", "idle"}
              /\ DecSame({"state", "seen", "tlm"})
              /\ UNCHANGED <<str, items, tcp, call, out>>

LEMMA HeaderEffect ==
  ASSUME Full, ReadHeader, ~Fail
  PROVE  HeaderDoes
<1>1. /\ pc \in {"new", "main"} /\ pc' \in {"main", "idle"} /\ UNCHANGED <<str, items, tcp, call, out>>
  BY DEF ReadHeader, ReadSoc, ReadMainMarker, MainHeaderDone
<1>2. \/ \E v : dec' = [dec EXCEPT !.state = v]
      \/ \E v, w : dec' = [dec EXCEPT !.seen = v, !.state = w]
      \/ \E v, w : dec' = [dec EXCEPT !.state = v, !.tlm = w]
  BY DEF ReadHeader, ReadSoc, ReadMainMarker, MainHeaderDone
<1>3. DecSame({"state", "seen", "tlm"})
  BY <1>2 DEF Full, DecFull, DecNames, DecSame
<1> QED BY <1>1, <1>3 DEF HeaderDoes

\* A new call asks for an area.
CallSame(S) == \A x \in CallNames \ S : call'[x] = call[x]
AreaDoes(area) ==
    /\ area \in SUBSET Tiles /\ area # {}
    /\ call'.n = call.n + 1 /\ call'.area = area /\ call'.nr = 0
    /\ CallSame({"n", "area", "whole", "nr"})
    /\ out' = IF call.kind = "header" THEN out ELSE [t \in Tiles |-> Nothing]

LEMMA AreaEffect ==
  ASSUME Full, NEW area \in SUBSET Tiles, area # {}, NEW whole, NewCall(area, whole)
  PROVE  AreaDoes(area)
  BY DEF NewCall, AreaDoes, CallSame, Full, CallFull, CallNames

\* the positions planned from the TLM segment
PlannedAt(area) == UNION {{StartPos(t, k) : k \in {j \in 0..Len(str.tlm) : j < index[t].nbTps}} : t \in area}

SetAreaDoes(area) ==
    /\ pc = "idle" /\ call.kind = "decode"
    /\ AreaDoes(area)
    /\ \/ /\ KeptTile /\ str.nt = 1 /\ pc' = "decode" /\ dec'.inter = <<>> /\ dec'.interIdx = 0
          /\ DecSame({"cur", "hasData", "inter", "interIdx"}) /\ dec'.cur = 0
       \/ /\ pc' = "enter"
          /\ \/ DecSame({}) /\ str.nt = 1
             \/ /\ DecSame({"inter", "interIdx"}) /\ dec'.interIdx = 0
                /\ \/ dec'.inter = <<>>
                   \/ area # Tiles /\ dec.tlm /\ dec'.inter = Ascending(PlannedAt(area))
    /\ UNCHANGED <<str, items, pos, marker, tcp, index>>

LEMMA SetAreaEffect ==
  ASSUME IInv, Full, SetAreaAndDecode, pc' # "refused"
  PROVE  \E area : SetAreaDoes(area)
<1>1. PICK a \in Tiles, b \in Tiles, whole \in BOOLEAN :
        LET area == a..b
            single == str.nt = 1 /\ whole
            byTlm == area # Tiles /\ dec.tlm /\ str.seek
        IN
        /\ a <= b
        /\ NewCall(area, whole)
        /\ IF KeptTile /\ ~single
                   THEN /\ dec' = [dec EXCEPT !.cur = 0, !.hasData = TRUE,
                                              !.inter = <<>>, !.interIdx = 0]
                        /\ pc' = "decode"
                   ELSE /\ dec' = IF single THEN dec
                                  ELSE [dec EXCEPT !.interIdx = 0, !.inter =
                                         IF byTlm THEN Ascending(PlannedAt(area))
                                                  ELSE <<>>]
                        /\ pc' = "enter"
        /\ UNCHANGED <<str, items, pos, marker, tcp, index>>
  BY Zenon DEF SetAreaAndDecode, PlannedAt
<1> DEFINE area == a..b
           single == str.nt = 1 /\ whole
           byTlm == area # Tiles /\ dec.tlm /\ str.seek
<1>2. pc = "idle" /\ call.kind = "decode"
  BY DEF SetAreaAndDecode, Callable
<1>3. area \in SUBSET Tiles /\ area # {}
  BY <1>1, NtIs DEF Tiles
<1>4. AreaDoes(area)
  BY <1>1, <1>3, AreaEffect
<1>5. UNCHANGED <<str, items, pos, marker, tcp, index>>
  BY <1>1
<1>6. CASE KeptTile /\ ~single
  <2>1. dec' = [dec EXCEPT !.cur = 0, !.hasData = TRUE, !.inter = <<>>, !.interIdx = 0] /\ pc' = "decode"
    BY <1>1, <1>6
  <2>2. /\ dec'.inter = <<>> /\ dec'.interIdx = 0 /\ DecSame({"cur", "hasData", "inter", "interIdx"})
        /\ dec'.cur = 0
    BY <2>1 DEF Full, DecFull, DecNames, DecSame
  <2>3. str.nt = 1
    BY <1>6 DEF KeptTile
  <2> HIDE DEF area
  <2>4. SetAreaDoes(area)
    BY <1>2, <1>4, <1>5, <1>6, <2>1, <2>2, <2>3 DEF SetAreaDoes
  <2> QED BY <2>4
<1>7. CASE ~(KeptTile /\ ~single)
  <2>1. /\ pc' = "enter"
        /\ dec' = IF single THEN dec
                  ELSE [dec EXCEPT !.interIdx = 0, !.inter = IF byTlm THEN Ascending(PlannedAt(area)) ELSE <<>>]
    BY <1>1, <1>7
  <2>2. CASE single
    <3>1. DecSame({}) /\ str.nt = 1
      BY <2>1, <2>2 DEF DecSame
    <3> HIDE DEF area
    <3>2. SetAreaDoes(area)
      BY <1>2, <1>4, <1>5, <2>1, <3>1 DEF SetAreaDoes
    <3> QED BY <3>2
  <2>3. CASE ~single
    <3> DEFINE v == IF byTlm THEN Ascending(PlannedAt(area)) ELSE <<>>
    <3>1. dec' = [dec EXCEPT !.interIdx = 0, !.inter = v]
      BY <2>1, <2>3
    <3>2. v = <<>> \/ (area # Tiles /\ dec.tlm /\ v = Ascending(PlannedAt(area)))
      OBVIOUS
    <3> HIDE DEF v, area
    <3>3. dec'.inter = v /\ dec'.interIdx = 0 /\ DecSame({"inter", "interIdx"})
      BY <3>1 DEF Full, DecFull, DecNames, DecSame
    <3>4. SetAreaDoes(area)
      BY <1>2, <1>4, <1>5, <2>1, <3>2, <3>3 DEF SetAreaDoes
    <3> QED BY <3>4
  <2> QED BY <2>2, <2>3
<1> QED BY <1>6, <1>7

\* opj_get_decoded_tile starts over.
GetDoes(t) ==
    /\ pc = "idle" /\ call.kind = "tile" /\ pc' = "enter" /\ t \in Tiles
    /\ dec'.tileInd = t /\ DecSame({"tileInd", "state"})
    /\ \A u \in Tiles : tcp'[u].tpno = -1
    /\ TcpKept({"tpno"})
    /\ AreaDoes({t})
    /\ UNCHANGED <<str, items, marker, index>>

LEMMA GetEffect ==
  ASSUME IInv, Full, GetTile, ~Fail
  PROVE  \E t : GetDoes(t)
<1>1. PICK t \in Tiles :
             /\ \E v : dec' = [dec EXCEPT !.tileInd = t, !.state = v]
             /\ tcp' = [u \in Tiles |-> [tcp[u] EXCEPT !.tpno = -1]]
             /\ NewCall({t}, TRUE)
             /\ pc' = "enter"
             /\ UNCHANGED <<str, items, marker, index>>
  BY DEF GetTile
<1>2. pc = "idle" /\ call.kind = "tile"
  BY DEF GetTile, Callable
<1>3. dec'.tileInd = t /\ DecSame({"tileInd", "state"})
  BY <1>1 DEF Full, DecFull, DecNames, DecSame
<1>4. (\A u \in Tiles : tcp'[u].tpno = -1) /\ TcpKept({"tpno"})
  BY <1>1 DEF Full, TcpFull, TcpNames, TcpKept, TcpSame
<1>5. AreaDoes({t})
  BY <1>1, AreaEffect
<1>6. GetDoes(t)
  BY <1>1, <1>2, <1>3, <1>4, <1>5 DEF GetDoes
<1> QED BY <1>6

ReadDoes(area) ==
    /\ pc = "idle" /\ call.kind = "header" /\ ~dec.hasData /\ pc' = "enter"
    /\ AreaDoes(area) /\ (call.n > 0 => call.area = area)
    /\ UNCHANGED <<str, items, pos, marker, dec, tcp, index>>

LEMMA ReadEffect ==
  ASSUME IInv, Full, ReadTileHeader
  PROVE  \E area : ReadDoes(area)
<1>1. PICK a \in Tiles, b \in Tiles : a <= b /\ (call.n > 0 => call.area = a..b) /\ NewCall(a..b, TRUE)
  BY Zenon DEF ReadTileHeader
<1>2. a..b \in SUBSET Tiles /\ a..b # {}
  BY <1>1, NtIs DEF Tiles
<1> DEFINE area == a..b
<1> HIDE DEF area
<1>3. AreaDoes(area)
  BY <1>1, <1>2, AreaEffect DEF area
<1>4. ReadDoes(area)
  BY <1>1, <1>3 DEF ReadDoes, ReadTileHeader, Callable, area
<1> QED BY <1>4

\* What follows a decoded tile.
FreeDoes(t, free) ==
    /\ \A u \in Tiles : tcp'[u].data = IF u = t /\ free THEN <<>> ELSE tcp[u].data
    /\ TcpKept({"data"})

LEMMA FreeEffect ==
  ASSUME Full, NEW t, NEW free \in BOOLEAN, tcp' = TileFreed(t, free)
  PROVE  FreeDoes(t, free)
<1>1. tcp' = [tcp EXCEPT ![t].data = IF free THEN <<>> ELSE @]
  BY Zenon DEF TileFreed
<1>2. /\ \A u \in Tiles : u # t => tcp'[u] = tcp[u]
      /\ t \in Tiles => tcp'[t] = [tcp[t] EXCEPT !.data = IF free THEN <<>> ELSE @]
  BY <1>1 DEF Full, TcpFull
<1>3. t \in Tiles => tcp'[t].data = (IF free THEN <<>> ELSE tcp[t].data) /\ TcpSame(t, {"data"})
  BY <1>2 DEF Full, TcpFull, TcpNames, TcpSame
<1>4. \A u \in Tiles : TcpSame(u, {"data"})
  BY <1>2, <1>3 DEF TcpSame
<1> QED BY <1>2, <1>3, <1>4 DEF FreeDoes, TcpKept

AfterDoes ==
    /\ pc = "after" /\ call.kind = "decode" /\ pc' \in {"finish", "enter"}
    /\ FreeDoes(call.tno, str.nt # 1)
    /\ (pc' = "finish") = \/ str.nt = 1 /\ call.whole
                          \/ Left = 0 /\ dec.state = "NEOC"
                          \/ dec.inter # <<>> /\ dec.interIdx = Len(dec.inter)
                          \/ call.nr + 1 = str.nt
    /\ call'.nr = call.nr + 1 /\ CallSame({"nr"})
    /\ UNCHANGED <<str, items, marker, dec, index, out>>

LEMMA AfterEffect ==
  ASSUME Full, AfterDecode
  PROVE  AfterDoes
<1> DEFINE single == str.nt = 1 /\ call.whole
           planned == dec.inter # <<>> /\ dec.interIdx = Len(dec.inter)
           ended  == Left = 0 /\ dec.state = "NEOC"
           full == call.nr + 1 = str.nt
<1>1. /\ pc = "after" /\ call.kind = "decode"
      /\ tcp' = TileFreed(call.tno, str.nt # 1)
      /\ pc' = IF single \/ ended \/ planned \/ full THEN "finish" ELSE "enter"
      /\ call' = [call EXCEPT !.nr = @ + 1]
      /\ UNCHANGED <<str, items, marker, dec, index, out>>
  BY DEF AfterDecode
<1>2. FreeDoes(call.tno, str.nt # 1)
  BY <1>1, FreeEffect
<1>3. call'.nr = call.nr + 1 /\ CallSame({"nr"})
  BY <1>1 DEF Full, CallFull, CallNames, CallSame
<1> QED BY <1>1, <1>2, <1>3 DEF AfterDoes

AfterTileDoes ==
    /\ pc = "after" /\ call.kind = "tile"
    /\ FreeDoes(call.tno, TRUE)
    /\ pc' = IF call.tno = dec.tileInd THEN "finish" ELSE "enter"
    /\ UNCHANGED <<str, items, marker, dec, index, call, out>>

LEMMA AfterTileEffect ==
  ASSUME Full, AfterTile, ~Fail
  PROVE  AfterTileDoes
<1>1. /\ pc = "after" /\ call.kind = "tile" /\ tcp' = TileFreed(call.tno, TRUE)
      /\ pc' = IF call.tno = dec.tileInd THEN "finish" ELSE "enter"
      /\ UNCHANGED <<str, items, marker, dec, index, call, out>>
  BY DEF AfterTile
<1> QED BY <1>1, FreeEffect DEF AfterTileDoes

\* An image was decoded, or the call fails.
FinishDoes ==
    /\ pc = "finish" /\ pc' = "idle" /\ \E t \in Tiles : out[t] # Nothing
    /\ UNCHANGED <<str, items, pos, marker, dec, tcp, index, call, out>>
DataCallDoes ==
    /\ pc = "idle" /\ call.kind = "header" /\ dec.hasData /\ pc' = "decode"
    /\ UNCHANGED <<str, items, pos, marker, dec, tcp, index, call, out>>
RefusedStep ==
    /\ pc' = "refused" /\ UNCHANGED <<str, items, dec, index, call, out>>
    /\ \/ pc = "idle" /\ UNCHANGED tcp
       \/ pc = "decode" /\ tcp' = TileFreed(dec.cur, TRUE)

\* Every step of the decoder.
Does ==
    \/ UNCHANGED vars
    \/ Fail
    \/ RefusedStep
    \/ HeaderDoes /\ ReadHeader
    \/ \E area : SetAreaDoes(area)
    \/ \E t : GetDoes(t)
    \/ \E area : ReadDoes(area)
    \/ DataCallDoes
    \/ Moves /\ TcpKept({"ppt"}) /\ UNCHANGED <<str, items, index, call, out>>
    \/ \E i, n, nb : \E skip \in BOOLEAN : SotDoes(i, n, nb, skip)
    \/ \E len, got : SodDoes(len, got)
    \/ \E due, yes : CorrDoes(due, yes)
    \/ \E t, ended : ChooseDoes(t, ended)
    \/ \E c, eoc, stray : DecodeDoes(c, eoc, stray)
    \/ AfterDoes
    \/ AfterTileDoes
    \/ FinishDoes

LEMMA Effects ==
  ASSUME Base, [Next]_vars
  PROVE  Does
<1>1. CASE UNCHANGED vars \/ Fail
  BY <1>1 DEF Does
<1>2. CASE ReadHeader /\ ~Fail
  BY <1>2, HeaderEffect DEF Does, Base
<1>3. CASE Client /\ ~Fail
  <2>1. CASE SetAreaAndDecode /\ pc' = "refused"
    <3>1. RefusedStep
      BY <2>1 DEF SetAreaAndDecode, Callable, RefusedStep
    <3> QED BY <3>1 DEF Does
  <2>2. CASE SetAreaAndDecode /\ pc' # "refused"
    BY <2>2, SetAreaEffect DEF Does, Base
  <2>3. CASE GetTile
    BY <1>3, <2>3, GetEffect DEF Does, Base
  <2>4. CASE ReadTileHeader
    BY <2>4, ReadEffect DEF Does, Base
  <2>5. CASE DecodeTileData
    BY <2>5 DEF DecodeTileData, Does, DataCallDoes
  <2> QED BY <1>3, <2>1, <2>2, <2>3, <2>4, <2>5 DEF Client
<1>4. CASE TilePartStep /\ ~Fail
  <2>1. CASE MoveStep
    BY <1>4, <2>1, MoveEffect DEF Does, Base
  <2>2. CASE ReadSot
    BY <1>4, <2>2, SotEffect DEF Does, Base
  <2>3. CASE ReadSod
    BY <1>4, <2>3, SodEffect DEF Does, Base
  <2>4. CASE CheckCorrection
    BY <1>4, <2>4, CorrEffect DEF Does, Base
  <2>5. CASE ChooseTile
    BY <1>4, <2>5, ChooseEffect DEF Does, Base
  <2> QED BY <1>4, <2>1, <2>2, <2>3, <2>4, <2>5 DEF TilePartStep, MoveStep
<1>5. CASE TileStep /\ ~Fail
  <2>1. CASE DecodeTile
    BY <2>1, DecodeEffect DEF Does, Base
  <2>2. CASE DecodeTileFails
    BY <1>5, <2>2 DEF DecodeTileFails
  <2>3. CASE TileRefused
    <3>1. RefusedStep
      BY <2>3 DEF TileRefused, RefusedStep
    <3> QED BY <3>1 DEF Does
  <2>4. CASE AfterDecode
    BY <2>4, AfterEffect DEF Does, Base
  <2>5. CASE AfterTile
    BY <1>5, <2>5, AfterTileEffect DEF Does, Base
  <2>6. CASE Finish
    <3>1. FinishDoes
      BY <1>5, <2>6 DEF Finish, FinishDoes
    <3> QED BY <3>1 DEF Does
  <2> QED BY <1>5, <2>1, <2>2, <2>3, <2>4, <2>5, <2>6 DEF TileStep
<1> QED BY <1>1, <1>2, <1>3, <1>4, <1>5 DEF Next

-----------------------------------------------------------------------------
(* What a call was asked for.                                              *)
NotCalled == call.n = 0
Numeric == /\ call.n \in Nat /\ call.nr \in Nat /\ dec.corr \in Nat
           /\ \A t \in Tiles : tcp[t].nb \in Nat /\ tcp[t].tpno \in Int /\ tcp[t].tpno >= -1
Area == /\ call.area \in SUBSET Tiles /\ call.area # {}
        /\ call.kind \in Kinds
        /\ call.kind # "tile" => dec.tileInd = NoTile
        /\ call.kind = "tile" /\ ~NotCalled /\ pc # "failed" => call.area = {dec.tileInd}
        /\ call.kind # "decode" \/ str.nt = 1 => dec.inter = <<>>
Fresh == NotCalled =>
        /\ pc \in {"new", "main", "idle", "failed", "refused"} /\ ~dec.hasData /\ ~dec.canDecode
        /\ \A t \in Tiles : tcp[t].data = <<>> /\ tcp[t].tpno = -1 /\ out[t] = Nothing
Called == pc \in {"new", "main"} => NotCalled
Modes == Numeric /\ Area /\ Fresh /\ Called

LEMMA InitModes ==
  ASSUME Init
  PROVE  Modes
<1>1. str.nt \in Nat \ {0}
  BY InitIInv, NtIs
<1>2. 0 \in Tiles
  BY <1>1 DEF Tiles
<1> QED BY <1>2 DEF Init, Modes, Numeric, Area, Fresh, Called, NotCalled, NewTcp, Kinds

LEMMA AreaModes ==
  ASSUME Base, Modes, UNCHANGED str, NEW area, AreaDoes(area), pc' \notin {"new", "main"},
         dec'.corr = dec.corr, call.kind # "tile" => dec'.tileInd = dec.tileInd,
         call.kind = "tile" => area = {dec'.tileInd},
         call.kind # "decode" \/ str.nt = 1 => dec'.inter = <<>>,
         \A t \in Tiles : tcp'[t].nb = tcp[t].nb /\ tcp'[t].tpno \in {tcp[t].tpno, -1}
  PROVE  Modes'
<1>1. /\ call'.n = call.n + 1 /\ call'.area = area /\ call'.nr = 0 /\ call'.kind = call.kind
      /\ area \in SUBSET Tiles /\ area # {}
  BY DEF AreaDoes, CallSame, CallNames
<1>2. Tiles' = Tiles
  BY DEF Tiles
<1>3. call.n \in Nat /\ call'.n # 0
  BY <1>1 DEF Modes, Numeric
<1>4. Numeric'
  BY <1>1, <1>2 DEF Modes, Numeric
<1>5. Area'
  BY <1>1, <1>2 DEF Modes, Area
<1> QED BY <1>3, <1>4, <1>5 DEF Modes, Fresh, Called, NotCalled

LEMMA StepModes ==
  ASSUME Base, Modes, Does, UNCHANGED str
  PROVE  Modes'
<1>0. Tiles' = Tiles
  BY DEF Tiles
<1>1. CASE UNCHANGED vars
  BY <1>1 DEF vars, Modes, Numeric, Area, Fresh, Called, NotCalled, Tiles
<1>2. CASE Fail
  <2>1. /\ pc' = "failed" /\ UNCHANGED <<dec, tcp, out>>
        /\ call' = [call EXCEPT !.n = IF pc = "idle" THEN @ + 1 ELSE @]
    BY <1>2 DEF Fail
  <2>2. /\ call'.n = (IF pc = "idle" THEN call.n + 1 ELSE call.n)
        /\ call'.nr = call.nr /\ call'.kind = call.kind /\ call'.area = call.area
    BY <2>1 DEF Base, Full, CallFull, CallNames
  <2>3. Numeric' /\ (call'.n = 0 => call.n = 0)
    BY <1>0, <2>1, <2>2 DEF Modes, Numeric
  <2> QED BY <1>0, <2>1, <2>2, <2>3 DEF Modes, Area, Fresh, Called, NotCalled
<1>3. CASE RefusedStep
  <2>1. pc' = "refused" /\ UNCHANGED <<dec, call, out>>
    BY <1>3 DEF RefusedStep
  <2>2. \A t \in Tiles : TcpSame(t, {"data"})
    <3>1. CASE UNCHANGED tcp
      BY <3>1 DEF TcpSame
    <3>2. CASE tcp' = TileFreed(dec.cur, TRUE)
      BY <3>2, FreeEffect DEF FreeDoes, TcpKept, Base
    <3> QED BY <1>3, <3>1, <3>2 DEF RefusedStep
  <2>3. \A t \in Tiles : tcp'[t].nb = tcp[t].nb /\ tcp'[t].tpno = tcp[t].tpno
    BY <2>2 DEF TcpSame, TcpNames
  <2>4. NotCalled => UNCHANGED tcp
    BY <1>3 DEF RefusedStep, Modes, Fresh
  <2>5. pc \notin {"new", "main"}
    BY <1>3 DEF RefusedStep
  <2>6. Numeric'
    BY <1>0, <2>1, <2>3 DEF Modes, Numeric
  <2>7. Area' /\ Called'
    BY <1>0, <1>3, <2>1 DEF RefusedStep, Modes, Area, Called, NotCalled
  <2>8. Fresh'
    BY <1>0, <2>1, <2>4 DEF Modes, Fresh, NotCalled
  <2> QED BY <2>6, <2>7, <2>8 DEF Modes
<1>4. CASE HeaderDoes
  BY <1>0, <1>4 DEF HeaderDoes, DecSame, DecNames, Modes, Numeric, Area, Fresh, Called, NotCalled
<1>5. CASE \E area : SetAreaDoes(area)
  <2>1. PICK area : SetAreaDoes(area)
    BY <1>5
  <2>2. AreaDoes(area) /\ call.kind = "decode" /\ UNCHANGED tcp /\ pc' \notin {"new", "main"}
    BY <2>1 DEF SetAreaDoes
  <2>3. dec'.corr = dec.corr /\ dec'.tileInd = dec.tileInd
    BY <2>1 DEF SetAreaDoes, DecSame, DecNames
  <2>4. str.nt = 1 => dec'.inter = <<>>
    <3> SUFFICES ASSUME str.nt = 1 PROVE dec'.inter = <<>>
      OBVIOUS
    <3>1. dec.inter = <<>>
      BY DEF Modes, Area
    <3>2. area = Tiles
      <4>1. Tiles = {0} /\ area \in SUBSET Tiles /\ area # {}
        BY <2>2, NtIs DEF Tiles, AreaDoes, Base
      <4> QED BY <4>1
    <3> QED BY <2>1, <3>1, <3>2 DEF SetAreaDoes, DecSame, DecNames
  <2> QED BY <2>2, <2>3, <2>4, AreaModes
<1>6. CASE \E t : GetDoes(t)
  <2>1. PICK t : GetDoes(t)
    BY <1>6
  <2>2. AreaDoes({t}) /\ call.kind = "tile" /\ pc' = "enter" /\ dec'.tileInd = t
    BY <2>1 DEF GetDoes
  <2>3. dec'.corr = dec.corr /\ dec'.inter = dec.inter
    BY <2>1 DEF GetDoes, DecSame, DecNames
  <2>4. \A u \in Tiles : tcp'[u].nb = tcp[u].nb /\ tcp'[u].tpno = -1
    BY <2>1 DEF GetDoes, TcpKept, TcpSame, TcpNames
  <2>5. dec.inter = <<>>
    BY <2>2 DEF Modes, Area
  <2> QED BY <2>2, <2>3, <2>4, <2>5, AreaModes
<1>7. CASE \E area : ReadDoes(area)
  <2>1. PICK area : ReadDoes(area)
    BY <1>7
  <2>2. AreaDoes(area) /\ call.kind = "header" /\ pc' = "enter" /\ UNCHANGED <<dec, tcp>>
    BY <2>1 DEF ReadDoes
  <2>3. dec.inter = <<>>
    BY <2>2 DEF Modes, Area
  <2> QED BY <2>2, <2>3, AreaModes
<1>8. CASE DataCallDoes \/ FinishDoes
  BY <1>0, <1>8 DEF DataCallDoes, FinishDoes, Modes, Numeric, Area, Fresh, Called, NotCalled
<1>9. CASE Moves /\ TcpKept({"ppt"}) /\ UNCHANGED <<str, items, index, call, out>>
  <2>1. /\ pc \notin {"new", "main", "idle", "failed", "refused"} /\ pc' \notin {"new", "main"}
        /\ dec'.corr = dec.corr /\ dec'.tileInd = dec.tileInd /\ dec'.inter = dec.inter
    BY <1>9 DEF Moves, EnterMove, LeaveMove, SeekMove, OnMove, EndMove, PptMove, SkipMove, JumpMove,
                NextMove, SpotMove, GiveUp, DecSame, DecNames
  <2>2. \A t \in Tiles : tcp'[t].nb = tcp[t].nb /\ tcp'[t].tpno = tcp[t].tpno
    BY <1>9 DEF TcpKept, TcpSame, TcpNames
  <2> QED BY <1>0, <1>9, <2>1, <2>2 DEF Modes, Numeric, Area, Fresh, Called, NotCalled
<1>10. CASE \E i, n, nb : \E skip \in BOOLEAN : SotDoes(i, n, nb, skip)
  <2>1. PICK i, n, nb : \E skip \in BOOLEAN : SotDoes(i, n, nb, skip)
    BY <1>10
  <2>2. PICK skip \in BOOLEAN : SotDoes(i, n, nb, skip)
    BY <2>1
  <2> DEFINE p == str.parts[i]
  <2>3. /\ pc = "segment" /\ UNCHANGED <<call, out, pc>> /\ p.tile \in Tiles /\ p.tp \in Nat /\ p.tn \in Nat
        /\ n = (IF p.tn = 0 THEN 0 ELSE p.tn + dec.corr)
        /\ nb = (IF n # 0 THEN n ELSE tcp[p.tile].nb)
        /\ tcp'[p.tile].tpno = p.tp /\ tcp'[p.tile].nb = nb
        /\ \A t \in Tiles \ {p.tile} : tcp'[t] = tcp[t]
        /\ DecSame({"cur", "lastPart", "sotLen", "canDecode", "state", "skip", "tlm"})
    BY <2>2, Zenon DEF SotDoes
  <2>4. dec'.corr = dec.corr /\ dec'.tileInd = dec.tileInd /\ dec'.inter = dec.inter
    BY <2>3 DEF DecSame, DecNames
  <2> HIDE DEF p
  <2>5. nb \in Nat
    BY <2>3 DEF Modes, Numeric
  <2> QED BY <1>0, <2>3, <2>4, <2>5 DEF Modes, Numeric, Area, Fresh, Called, NotCalled
<1>11. CASE \E len, got : SodDoes(len, got)
  <2>1. PICK len, got : SodDoes(len, got)
    BY <1>11
  <2>2. /\ pc = "segment" /\ pc' = "read" /\ UNCHANGED <<call, out>>
        /\ dec'.corr = dec.corr /\ dec'.tileInd = dec.tileInd /\ dec'.inter = dec.inter
    BY <2>1 DEF SodDoes, DecSame, DecNames
  <2>3. \A t \in Tiles : tcp'[t].nb = tcp[t].nb /\ tcp'[t].tpno = tcp[t].tpno
    BY <2>1 DEF SodDoes, TcpSame, TcpNames
  <2> QED BY <1>0, <2>2, <2>3 DEF Modes, Numeric, Area, Fresh, Called, NotCalled
<1>12. CASE \E due, yes : CorrDoes(due, yes)
  <2>1. PICK due, yes : CorrDoes(due, yes)
    BY <1>12
  <2>2. /\ pc = "read" /\ pc' = "next" /\ UNCHANGED <<call, out>>
        /\ dec'.corr \in {dec.corr, 1} /\ dec'.tileInd = dec.tileInd /\ dec'.inter = dec.inter
    BY <2>1 DEF CorrDoes, DecSame, DecNames
  <2>3. \A t \in Tiles : tcp'[t].nb \in {tcp[t].nb, tcp[t].nb + 1} /\ tcp'[t].tpno = tcp[t].tpno
    BY <2>1 DEF CorrDoes, TcpSame, TcpNames
  <2> QED BY <1>0, <2>2, <2>3 DEF Modes, Numeric, Area, Fresh, Called, NotCalled
<1>13. CASE \E t, ended : ChooseDoes(t, ended)
  <2>1. PICK t, ended : ChooseDoes(t, ended)
    BY <1>13
  <2>2. /\ pc = "tail" /\ pc' \in {"idle", "finish", "decode"} /\ UNCHANGED out
        /\ dec'.corr = dec.corr /\ dec'.tileInd = dec.tileInd /\ dec'.inter = dec.inter
    BY <2>1 DEF ChooseDoes, DecSame, DecNames
  <2>3. call'.n = call.n /\ call'.nr = call.nr /\ call'.area = call.area /\ call'.kind = call.kind
    <3>1. \/ \E v : call' = [call EXCEPT !.more = v]
          \/ \E v : call' = [call EXCEPT !.tno = v]
      BY <2>1 DEF ChooseDoes
    <3> QED BY <3>1 DEF Base, Full, CallFull, CallNames
  <2>4. \A u \in Tiles : tcp'[u].nb = tcp[u].nb /\ tcp'[u].tpno = tcp[u].tpno
    BY <2>1 DEF ChooseDoes, TcpSame, TcpNames
  <2> QED BY <1>0, <2>2, <2>3, <2>4 DEF Modes, Numeric, Area, Fresh, Called, NotCalled
<1>14. CASE \E c, eoc, stray : DecodeDoes(c, eoc, stray)
  <2>1. PICK c, eoc, stray : DecodeDoes(c, eoc, stray)
    BY <1>14
  <2>2. /\ pc = "decode" /\ pc' \in {"idle", "after"}
        /\ dec'.corr = dec.corr /\ dec'.tileInd = dec.tileInd /\ dec'.inter = dec.inter
    BY <2>1 DEF DecodeDoes, DecSame, DecNames
  <2>3. call'.n = call.n /\ call'.nr = call.nr /\ call'.area = call.area /\ call'.kind = call.kind
    <3>1. call' = [call EXCEPT !.tno = c]
      BY <2>1 DEF DecodeDoes
    <3> QED BY <3>1 DEF Base, Full, CallFull, CallNames
  <2>4. \A u \in Tiles : tcp'[u].nb = tcp[u].nb /\ tcp'[u].tpno = tcp[u].tpno
    BY <2>1 DEF DecodeDoes, TcpSame, TcpNames
  <2> QED BY <1>0, <2>2, <2>3, <2>4 DEF Modes, Numeric, Area, Fresh, Called, NotCalled
<1>15. CASE AfterDoes
  <2>1. /\ pc = "after" /\ pc' \in {"finish", "enter"} /\ UNCHANGED <<dec, out>>
        /\ call'.nr = call.nr + 1 /\ call'.n = call.n /\ call'.area = call.area /\ call'.kind = call.kind
    BY <1>15 DEF AfterDoes, CallSame, CallNames
  <2>2. \A u \in Tiles : tcp'[u].nb = tcp[u].nb /\ tcp'[u].tpno = tcp[u].tpno
    BY <1>15 DEF AfterDoes, FreeDoes, TcpKept, TcpSame, TcpNames
  <2> QED BY <1>0, <2>1, <2>2 DEF Modes, Numeric, Area, Fresh, Called, NotCalled
<1>16. CASE AfterTileDoes
  <2>1. pc = "after" /\ pc' \in {"finish", "enter"} /\ UNCHANGED <<dec, call, out>>
    BY <1>16 DEF AfterTileDoes
  <2>2. \A u \in Tiles : tcp'[u].nb = tcp[u].nb /\ tcp'[u].tpno = tcp[u].tpno
    BY <1>16 DEF AfterTileDoes, FreeDoes, TcpKept, TcpSame, TcpNames
  <2> QED BY <1>0, <2>1, <2>2 DEF Modes, Numeric, Area, Fresh, Called, NotCalled
<1> QED BY <1>1, <1>2, <1>3, <1>4, <1>5, <1>6, <1>7, <1>8, <1>9, <1>10, <1>11, <1>12, <1>13, <1>14,
           <1>15, <1>16 DEF Does

-----------------------------------------------------------------------------
(* Where the decoding of a tile is decided.                                *)

\* the stream is over, or the call
Over == dec.state \in {"EOC", "NEOC"}
Live == ~dec.lastPart /\ ~Over /\ pc \notin {"failed", "refused"}

\* all tile-parts of the tile were read, as far as it is known how many there are; and
\* their number is not corrected any more
Done(t)   == tcp[t].nb # 0 /\ tcp[t].tpno + 1 >= tcp[t].nb
Closed(t) == dec.corrChecked /\ Done(t)

HeadState == InHeader => dec.state = "TPH" /\ (dec.skip <=> dec.cur \notin call.area)
ReadState == pc = "read" => dec.cur \in call.area
Deciding == dec.canDecode =>
    /\ dec.cur \in Tiles /\ Done(dec.cur)
    /\ \/ InHeader
       \/ pc \in {"read", "next", "loop", "tail", "decode"}
       \/ pc = "idle" /\ call.kind = "header" /\ dec.hasData
    /\ pc \notin {"segment", "read"} => dec.corrChecked
    /\ ~(InHeader /\ dec.skip) => dec.cur \in call.area
    /\ pc \in {"loop", "tail"} => marker = "SOD"
OneTile == call.kind = "decode" /\ str.nt = 1
TailState   == pc = "tail" => dec.canDecode \/ marker = "EOC"
DecodeState == pc = "decode" => dec.canDecode \/ OneTile
AfterState  == pc = "after" => OneTile \/ (call.tno \in call.area /\ Closed(call.tno))
IdleState   == pc = "idle" /\ call.kind = "header" /\ dec.hasData => dec.canDecode
Decides == Deciding /\ TailState /\ DecodeState /\ AfterState /\ IdleState
\* behind a decoded tile nothing is decided, but for the next call of opj_decode_tile_data
Settled == /\ pc \in {"after", "finish"} => call.kind # "header"
           /\ pc \in {"idle", "after", "finish"} /\ call.kind # "header" => ~dec.canDecode
Ready == /\ Settled
         /\ ~dec.lastPart => HeadState /\ ReadState
         /\ Live => Decides

LEMMA InitReady ==
  ASSUME Init
  PROVE  Ready
<1>1. pc = "new" /\ ~dec.canDecode
  BY DEF Init
<1> QED BY <1>1 DEF Ready, HeadState, ReadState, Decides, Deciding, TailState, DecodeState, AfterState,
             IdleState, InHeader, Settled

\* A tile-part header that is accepted: of a tile that is wanted only if it is due.
LEMMA SotWanted ==
  ASSUME Base, Modes, NEW i, NEW n, NEW nb, NEW skip \in BOOLEAN, SotDoes(i, n, nb, skip)
  PROVE  /\ skip <=> str.parts[i].tile \notin call.area
         /\ str.parts[i].tile \in Tiles
         /\ ~skip \/ call.kind # "tile" => /\ str.parts[i].tp = tcp[str.parts[i].tile].tpno + 1
                                           /\ ~Done(str.parts[i].tile)
         /\ nb \in Nat /\ n \in Nat /\ str.parts[i].tp \in Nat
         /\ (nb # 0 /\ nb = str.parts[i].tp + 1) => Done(str.parts[i].tile)'
<1> DEFINE p == str.parts[i]
<1>1. /\ p.tile \in Tiles /\ p.tp \in Nat /\ p.tn \in Nat
      /\ n = (IF p.tn = 0 THEN 0 ELSE p.tn + dec.corr)
      /\ nb = (IF n # 0 THEN n ELSE tcp[p.tile].nb)
      /\ skip = (IF dec.tileInd = NoTile THEN p.tile \notin call.area ELSE p.tile # dec.tileInd)
      /\ SotAccepted(p, n) /\ pc = "segment"
      /\ tcp'[p.tile].tpno = p.tp /\ tcp'[p.tile].nb = nb
  BY Zenon DEF SotDoes
<1>2. dec.tileInd \in Tiles \cup {NoTile}
  BY DEF Base, Typed, DecOK
<1>3. NoTile \notin Tiles
  BY NtIs DEF Tiles, NoTile, Base
<1>4. ~NotCalled
  BY <1>1 DEF Modes, Fresh
<1>5. skip <=> p.tile \notin call.area
  <2>1. CASE call.kind = "tile"
    <3>1. call.area = {dec.tileInd} /\ dec.tileInd # NoTile
      BY <1>1, <1>3, <1>4, <2>1 DEF Modes, Area
    <3> QED BY <1>1, <3>1
  <2>2. CASE call.kind # "tile"
    BY <1>1, <2>2 DEF Modes, Area
  <2> QED BY <2>1, <2>2
<1>6. ~skip \/ call.kind # "tile" => dec.tileInd \in {NoTile, p.tile}
  BY <1>1 DEF Modes, Area
<1>7. n \in Nat /\ nb \in Nat
  BY <1>1 DEF Modes, Numeric
<1>8. ~skip \/ call.kind # "tile" => p.tp = tcp[p.tile].tpno + 1 /\ ~Done(p.tile)
  <2>1. tcp[p.tile].nb \in Nat /\ tcp[p.tile].tpno \in Int
    BY <1>1 DEF Modes, Numeric
  <2> QED BY <1>1, <1>6, <2>1 DEF SotAccepted, Done
<1>9. (nb # 0 /\ nb = p.tp + 1) => Done(p.tile)'
  <2>1. str' = str
    BY DEF SotDoes
  <2> QED BY <1>1, <1>7, <2>1 DEF Done
<1> QED BY <1>1, <1>5, <1>7, <1>8, <1>9

\* Whether a tile is done only depends on its numbers.
LEMMA DoneSame ==
  ASSUME NEW t, tcp'[t].nb = tcp[t].nb, tcp'[t].tpno = tcp[t].tpno
  PROVE  Done(t)' <=> Done(t)
  BY DEF Done

\* A step that is not one of a call's has not been preceded by the end of the stream.
LEMMA LiveBack ==
  ASSUME Base, Ready, [Next]_vars, Does, Live'
  PROVE  Live \/ HeaderDoes \/ \E t : GetDoes(t)
<1>1. ~dec.lastPart
  BY LastPartStays DEF Live, Base
<1>2. InHeader => ~Over
  BY <1>1 DEF Ready, HeadState, Over
<1> SUFFICES ASSUME ~HeaderDoes, ~\E t : GetDoes(t) PROVE ~Over /\ pc \notin {"failed", "refused"}
  BY <1>1 DEF Live
<1>3. pc \notin {"failed", "refused"}
  <2>1. CASE UNCHANGED vars \/ Fail \/ RefusedStep
    BY <2>1 DEF vars, Fail, RefusedStep, Live
  <2>2. CASE \E area : SetAreaDoes(area) \/ ReadDoes(area)
    BY <2>2 DEF SetAreaDoes, ReadDoes
  <2>3. CASE DataCallDoes \/ AfterDoes \/ AfterTileDoes \/ FinishDoes
    BY <2>3 DEF DataCallDoes, AfterDoes, AfterTileDoes, FinishDoes
  <2>4. CASE Moves
    BY <2>4 DEF Moves, EnterMove, LeaveMove, SeekMove, OnMove, EndMove, PptMove, SkipMove, JumpMove,
                NextMove, SpotMove, GiveUp
  <2>5. CASE \E i, n, nb : \E skip \in BOOLEAN : SotDoes(i, n, nb, skip)
    BY <2>5 DEF SotDoes
  <2>6. CASE \E len, got : SodDoes(len, got)
    BY <2>6 DEF SodDoes
  <2>7. CASE \/ \E due, yes : CorrDoes(due, yes)
             \/ \E t, ended : ChooseDoes(t, ended)
             \/ \E c, eoc, stray : DecodeDoes(c, eoc, stray)
    BY <2>7 DEF CorrDoes, ChooseDoes, DecodeDoes
  <2> QED BY <2>1, <2>2, <2>3, <2>4, <2>5, <2>6, <2>7 DEF Does
<1>4. CASE UNCHANGED vars
  BY <1>4 DEF vars, Live, Over
<1>5. CASE Fail \/ RefusedStep
  BY <1>5 DEF Fail, RefusedStep, Live
<1>6. CASE \E area : SetAreaDoes(area)
  <2>1. dec'.state = dec.state
    BY <1>6 DEF SetAreaDoes, DecSame, DecNames
  <2> QED BY <1>3, <2>1 DEF Live, Over
<1>7. CASE (\E area : ReadDoes(area)) \/ DataCallDoes \/ FinishDoes \/ AfterDoes \/ AfterTileDoes
  <2>1. dec' = dec
    BY <1>7 DEF ReadDoes, DataCallDoes, FinishDoes, AfterDoes, AfterTileDoes
  <2> QED BY <1>3, <2>1 DEF Live, Over
<1>8. CASE Moves
  <2>1. CASE EnterMove \/ LeaveMove \/ SeekMove \/ OnMove \/ PptMove \/ JumpMove \/ NextMove \/ GiveUp
    <3>1. dec'.state = dec.state
      BY <2>1 DEF EnterMove, LeaveMove, SeekMove, OnMove, PptMove, JumpMove, NextMove, GiveUp, DecSame, DecNames
    <3> QED BY <1>3, <3>1 DEF Live, Over
  <2>2. CASE EndMove \/ SpotMove
    BY <2>2 DEF EndMove, SpotMove, Live, Over
  <2>3. CASE SkipMove
    BY <1>2, <1>3, <2>3 DEF SkipMove, InHeader
  <2> QED BY <1>8, <2>1, <2>2, <2>3 DEF Moves
<1>9. CASE \E i, n, nb : \E skip \in BOOLEAN : SotDoes(i, n, nb, skip)
  <2>1. dec.state = "TPHSOT"
    BY <1>9 DEF SotDoes
  <2> QED BY <1>3, <2>1 DEF Over
<1>10. CASE \E len, got : SodDoes(len, got)
  <2>1. InHeader
    BY <1>10 DEF SodDoes, InHeader
  <2> QED BY <1>2, <1>3, <2>1
<1>11. CASE \E due, yes : CorrDoes(due, yes)
  <2>1. dec'.state = dec.state
    BY <1>11 DEF CorrDoes, DecSame, DecNames
  <2> QED BY <1>3, <2>1 DEF Live, Over
<1>12. CASE \E t, ended : ChooseDoes(t, ended)
  <2>1. dec'.state \in {"EOC", dec.state}
    BY <1>12 DEF ChooseDoes
  <2> QED BY <1>3, <2>1 DEF Live, Over
<1>13. CASE \E c, eoc, stray : DecodeDoes(c, eoc, stray)
  <2>1. dec'.state \in {"EOC", "NEOC", dec.state}
    BY <1>13 DEF DecodeDoes
  <2> QED BY <1>3, <2>1 DEF Live, Over
<1> QED BY <1>4, <1>5, <1>6, <1>7, <1>8, <1>9, <1>10, <1>11, <1>12, <1>13 DEF Does

LEMMA HeadStateStep ==
  ASSUME Base, Modes, Ready, [Next]_vars, Does, ~dec'.lastPart
  PROVE  HeadState' /\ ReadState'
<1>1. ~dec.lastPart
  BY LastPartStays DEF Base
<1>2. HeadState /\ ReadState
  BY <1>1 DEF Ready
<1>3. CASE UNCHANGED vars
  BY <1>2, <1>3 DEF vars, HeadState, ReadState, InHeader
<1>4. CASE pc' \notin {"segment", "read"}
  BY <1>4 DEF HeadState, ReadState, InHeader
<1>5. CASE Moves /\ TcpKept({"ppt"}) /\ UNCHANGED <<str, items, index, call, out>>
  <2>1. CASE SeekMove
    BY <2>1 DEF SeekMove, HeadState, ReadState, InHeader
  <2>2. CASE OnMove
    <3>1. marker = "SOT"
      BY <1>1, <2>2 DEF OnMove, Base, OnTrack, Placing
    <3> QED BY <2>2, <3>1 DEF OnMove, HeadState, ReadState, InHeader
  <2>3. CASE PptMove
    <3>1. dec'.state = dec.state /\ dec'.skip = dec.skip /\ dec'.cur = dec.cur /\ InHeader /\ UNCHANGED call
      BY <1>5, <2>3 DEF PptMove, DecSame, DecNames, InHeader
    <3> QED BY <1>2, <2>3, <3>1 DEF PptMove, HeadState, ReadState, InHeader
  <2> QED BY <1>4, <1>5, <2>1, <2>2, <2>3 DEF Moves, EnterMove, LeaveMove, EndMove, SkipMove, JumpMove,
                NextMove, SpotMove, GiveUp
<1>6. CASE \E i, n, nb : \E skip \in BOOLEAN : SotDoes(i, n, nb, skip)
  <2>1. PICK i, n, nb : \E skip \in BOOLEAN : SotDoes(i, n, nb, skip)
    BY <1>6
  <2>2. PICK skip \in BOOLEAN : SotDoes(i, n, nb, skip)
    BY <2>1
  <2>3. skip <=> str.parts[i].tile \notin call.area
    BY <2>2, SotWanted
  <2>4. dec'.cur = str.parts[i].tile /\ dec'.state = "TPH" /\ dec'.skip = skip /\ UNCHANGED <<pc, call>>
        /\ pc = "segment"
    BY <2>2 DEF SotDoes
  <2> QED BY <2>3, <2>4 DEF HeadState, ReadState, InHeader
<1>7. CASE \E len, got : SodDoes(len, got)
  <2>1. /\ pc = "segment" /\ marker = "SOD" /\ ~dec.skip /\ pc' = "read" /\ UNCHANGED call
        /\ dec'.cur = dec.cur
    BY <1>7 DEF SodDoes, DecSame, DecNames
  <2> QED BY <1>2, <2>1 DEF HeadState, ReadState, InHeader
<1> QED BY <1>3, <1>4, <1>5, <1>6, <1>7
        DEF Does, Fail, RefusedStep, HeaderDoes, SetAreaDoes, GetDoes, ReadDoes, DataCallDoes,
            CorrDoes, ChooseDoes, DecodeDoes, AfterDoes, AfterTileDoes, FinishDoes

LEMMA SettledStep ==
  ASSUME Base, Modes, Ready, Does
  PROVE  Settled'
<1>1. Settled
  BY DEF Ready
<1>2. CASE UNCHANGED vars
  BY <1>1, <1>2 DEF vars, Settled
<1>3. CASE pc' \notin {"idle", "after", "finish"}
  BY <1>3 DEF Settled
<1>4. CASE HeaderDoes
  <2>1. pc' \in {"main", "idle"} /\ dec'.canDecode = dec.canDecode /\ ~dec.canDecode
    BY <1>4 DEF HeaderDoes, DecSame, DecNames, Modes, Called, Fresh
  <2> QED BY <2>1 DEF Settled
<1>5. CASE \E t, ended : ChooseDoes(t, ended)
  <2>1. PICK t, ended : ChooseDoes(t, ended)
    BY <1>5
  <2>2. call'.kind = call.kind
    <3>1. \/ \E v : call' = [call EXCEPT !.more = v]
          \/ \E v : call' = [call EXCEPT !.tno = v]
      BY <2>1 DEF ChooseDoes
    <3> QED BY <3>1 DEF Base, Full, CallFull, CallNames
  <2>3. dec'.canDecode = dec.canDecode
    BY <2>1 DEF ChooseDoes, DecSame, DecNames
  <2>4. \/ pc' = "idle" /\ call.kind = "header"
        \/ pc' = "finish" /\ call.kind # "header" /\ ~dec.canDecode
        \/ pc' = "decode"
    BY <2>1 DEF ChooseDoes
  <2> QED BY <2>2, <2>3, <2>4 DEF Settled
<1>6. CASE \E c, eoc, stray : DecodeDoes(c, eoc, stray)
  <2>1. PICK c, eoc, stray : DecodeDoes(c, eoc, stray)
    BY <1>6
  <2>2. call'.kind = call.kind
    <3>1. call' = [call EXCEPT !.tno = c]
      BY <2>1 DEF DecodeDoes
    <3> QED BY <3>1 DEF Base, Full, CallFull, CallNames
  <2>3. dec'.canDecode = FALSE /\ pc' = IF call.kind = "header" THEN "idle" ELSE "after"
    BY <2>1 DEF DecodeDoes
  <2> QED BY <2>2, <2>3 DEF Settled
<1>7. CASE AfterDoes \/ AfterTileDoes \/ FinishDoes
  <2>1. pc \in {"after", "finish"} /\ dec' = dec
    BY <1>7 DEF AfterDoes, AfterTileDoes, FinishDoes
  <2>2. call'.kind = call.kind
    BY <1>7 DEF AfterDoes, AfterTileDoes, FinishDoes, CallSame, CallNames
  <2> QED BY <1>1, <2>1, <2>2 DEF Settled
<1>8. CASE Moves
  BY <1>3, <1>8 DEF Moves, EnterMove, LeaveMove, SeekMove, OnMove, EndMove, PptMove, SkipMove, JumpMove,
                NextMove, SpotMove, GiveUp
<1>9. CASE Fail \/ RefusedStep \/ DataCallDoes \/ \E area : ReadDoes(area)
  BY <1>3, <1>9 DEF Fail, RefusedStep, ReadDoes, DataCallDoes
<1>10. CASE (\E area : SetAreaDoes(area)) \/ (\E t : GetDoes(t))
  BY <1>3, <1>10 DEF SetAreaDoes, GetDoes
<1>11. CASE \E i, n, nb : \E skip \in BOOLEAN : SotDoes(i, n, nb, skip)
  <2>1. pc = "segment" /\ pc' = pc
    BY <1>11 DEF SotDoes
  <2> QED BY <1>3, <2>1
<1>12. CASE \E len, got : SodDoes(len, got)
  BY <1>3, <1>12 DEF SodDoes
<1>13. CASE \E due, yes : CorrDoes(due, yes)
  BY <1>3, <1>13 DEF CorrDoes
<1> QED BY <1>2, <1>4, <1>5, <1>6, <1>7, <1>8, <1>9, <1>10, <1>11, <1>12, <1>13 DEF Does

\* Behind the header of a tile-part stands no other one.
LEMMA SotHeads ==
  ASSUME Base, NEW i, NEW n, NEW nb, NEW skip \in BOOLEAN, SotDoes(i, n, nb, skip)
  PROVE  InHeader' /\ pos = Off(str, i) + 1
<1>1. /\ i \in DOMAIN str.parts /\ pos + 1 \in 1..Len(items) /\ items[pos + 1][1] = "sot"
      /\ items[pos + 1][2] = i
      /\ pos' = pos + 1 + (IF skip THEN dec'.sotLen ELSE 1) /\ pos' <= Len(items)
      /\ marker' = (IF skip THEN "SOD" ELSE At(pos' - 1))
      /\ UNCHANGED <<str, items, pc>> /\ pc = "segment"
  BY Zenon DEF SotDoes
<1>2. pos = Off(str, i) + 1
  <2>1. pos + 1 = Off(str, items[pos + 1][2]) + 2
    BY <1>1, SotAt DEF Base
  <2>2. pos \in Nat /\ Off(str, i) \in Nat
    BY <1>1, PartSizes DEF Base, IInv, Placed
  <2> QED BY <1>1, <2>1, <2>2
<1>3. marker' # "SOT"
  <2>1. CASE skip
    BY <1>1, <2>1
  <2>2. CASE ~skip
    <3>1. PartLen(str, i) \in Nat /\ PartLen(str, i) >= 3 /\ Off(str, i) \in Nat /\ Len(items) \in Nat
      BY <1>1, PartSizes DEF Base
    <3>2. pos' - 1 + 1 = Off(str, i) + 3 /\ Off(str, i) + 3 <= Len(items)
      BY <1>1, <1>2, <2>2, <3>1
    <3>3. items[Off(str, i) + 3] = PartItems(str, i)[3] /\ PartItems(str, i)[3][1] # "SOT"
      BY <1>1, <3>1, <3>2, PlaceIn DEF Base
    <3> QED BY <1>1, <2>2, <3>2, <3>3 DEF At
  <2> QED BY <2>1, <2>2
<1> QED BY <1>1, <1>2, <1>3 DEF InHeader

LEMMA DecidesStep ==
  ASSUME Base, Modes, Ready, [Next]_vars, Does, UNCHANGED str, Live'
  PROVE  Decides'
<1> USE DEF Decides, TailState, DecodeState, AfterState, IdleState
<1>0. Tiles' = Tiles
  BY DEF Tiles
<1>1. CASE HeaderDoes
  <2>1. /\ pc' \in {"main", "idle"} /\ dec'.canDecode = dec.canDecode /\ ~dec.canDecode
        /\ dec'.hasData = dec.hasData /\ ~dec.hasData
    BY <1>1 DEF HeaderDoes, DecSame, DecNames, Modes, Called, Fresh
  <2> QED BY <2>1 DEF Deciding
<1>2. CASE \E t : GetDoes(t)
  <2>1. pc' = "enter" /\ dec'.canDecode = dec.canDecode /\ pc = "idle" /\ call.kind = "tile"
    BY <1>2 DEF GetDoes, DecSame, DecNames
  <2> QED BY <2>1 DEF Deciding, Ready, Settled
<1> SUFFICES ASSUME ~HeaderDoes, ~\E t : GetDoes(t) PROVE Decides'
  BY <1>1, <1>2
<1>3. Live /\ Decides /\ Settled /\ ~dec.lastPart /\ HeadState /\ ReadState
  BY LiveBack DEF Ready, Live
<1>4. CASE UNCHANGED vars
  BY <1>3, <1>4 DEF vars, Deciding, Done, Closed, InHeader, OneTile, Tiles
<1>5. CASE Fail \/ RefusedStep
  BY <1>5 DEF Fail, RefusedStep, Live
<1>6. CASE \E area : SetAreaDoes(area)
  <2>1. PICK area : SetAreaDoes(area)
    BY <1>6
  <2>2. dec'.canDecode = dec.canDecode
    BY <2>1 DEF SetAreaDoes, DecSame, DecNames
  <2>3. pc = "idle" /\ call.kind = "decode" /\ (pc' = "enter" \/ (pc' = "decode" /\ str.nt = 1))
    BY <2>1 DEF SetAreaDoes
  <2>4. call'.kind = call.kind
    BY <2>1 DEF SetAreaDoes, AreaDoes, CallSame, CallNames
  <2> QED BY <1>3, <2>2, <2>3, <2>4 DEF Deciding, Settled, OneTile
<1>7. CASE \E area : ReadDoes(area)
  <2>1. pc = "idle" /\ ~dec.hasData /\ UNCHANGED dec /\ pc' = "enter"
    BY <1>7 DEF ReadDoes
  <2>2. ~dec.canDecode
    BY <1>3, <2>1 DEF Deciding, InHeader
  <2> QED BY <2>1, <2>2 DEF Deciding
<1>8. CASE DataCallDoes
  <2>1. dec.canDecode /\ pc = "idle" /\ pc' = "decode" /\ UNCHANGED <<dec, tcp, call>>
    BY <1>3, <1>8 DEF DataCallDoes
  <2> QED BY <1>0, <1>3, <2>1 DEF Deciding, Done, InHeader
<1>9. CASE Moves /\ TcpKept({"ppt"}) /\ UNCHANGED <<str, items, index, call, out>>
  <2>1. \A t \in Tiles : Done(t)' <=> Done(t)
    BY <1>9 DEF TcpKept, TcpSame, TcpNames, Done
  <2>2. CASE EnterMove
    <3>1. dec'.canDecode = dec.canDecode /\ pc' = "loop" /\ pc = "enter"
      BY <2>2 DEF EnterMove, DecSame, DecNames
    <3> QED BY <1>3, <3>1 DEF Deciding, InHeader
  <2>3. CASE LeaveMove
    <3>1. /\ dec'.canDecode = dec.canDecode /\ pc' = "tail" /\ pc = "loop" /\ dec'.cur = dec.cur
          /\ dec'.corrChecked = dec.corrChecked /\ dec'.skip = dec.skip
          /\ (dec.canDecode \/ marker = "EOC") /\ marker' = marker
      BY <2>3 DEF LeaveMove, DecSame, DecNames
    <3> QED BY <1>0, <1>3, <1>9, <2>1, <3>1 DEF Deciding, InHeader
  <2>4. CASE SeekMove \/ OnMove
    <3>1. ~dec'.canDecode /\ pc' = "segment"
      BY <2>4 DEF SeekMove, OnMove, DecSame, DecNames
    <3> QED BY <3>1 DEF Deciding
  <2>5. CASE EndMove \/ SpotMove \/ GiveUp
    BY <2>5 DEF EndMove, SpotMove, GiveUp, Live, Over
  <2>6. CASE PptMove
    <3>1. /\ dec'.canDecode = dec.canDecode /\ pc' = "segment" /\ pc = "segment" /\ dec'.cur = dec.cur
          /\ dec'.corrChecked = dec.corrChecked /\ dec'.skip = dec.skip
          /\ marker # "SOT" /\ marker' # "SOT"
      BY <1>3, <2>6 DEF PptMove, DecSame, DecNames
    <3> QED BY <1>0, <1>3, <1>9, <2>1, <3>1 DEF Deciding, InHeader
  <2>7. CASE SkipMove
    BY <2>7 DEF SkipMove, Deciding
  <2>8. CASE JumpMove
    <3>1. ~dec'.canDecode /\ pc' = "loop"
      BY <2>8 DEF JumpMove, DecSame, DecNames
    <3> QED BY <3>1 DEF Deciding
  <2>9. CASE NextMove
    <3>1. /\ dec'.canDecode = dec.canDecode /\ pc' = "loop" /\ pc = "next" /\ dec'.cur = dec.cur
          /\ dec'.corrChecked = dec.corrChecked /\ dec'.skip = dec.skip
          /\ dec.canDecode => marker' = marker
      BY <2>9 DEF NextMove, DecSame, DecNames
    <3>2. marker = "SOD"
      BY <1>3, <3>1 DEF Base, OnTrack, Placing
    <3> QED BY <1>0, <1>3, <1>9, <2>1, <3>1, <3>2 DEF Deciding, InHeader
  <2> QED BY <1>9, <2>2, <2>3, <2>4, <2>5, <2>6, <2>7, <2>8, <2>9 DEF Moves
<1>10. CASE \E i, n, nb : \E skip \in BOOLEAN : SotDoes(i, n, nb, skip)
  <2>1. PICK i, n, nb : \E skip \in BOOLEAN : SotDoes(i, n, nb, skip)
    BY <1>10
  <2>2. PICK skip \in BOOLEAN : SotDoes(i, n, nb, skip)
    BY <2>1
  <2>3. /\ skip <=> str.parts[i].tile \notin call.area
        /\ str.parts[i].tile \in Tiles
        /\ (nb # 0 /\ nb = str.parts[i].tp + 1) => Done(str.parts[i].tile)'
    BY <2>2, SotWanted
  <2>4. /\ dec'.cur = str.parts[i].tile /\ dec'.skip = skip /\ UNCHANGED <<pc, call>>
        /\ dec'.canDecode = (dec.canDecode \/ (nb # 0 /\ nb = str.parts[i].tp + 1))
        /\ pc = "segment" /\ marker = "SOT"
    BY <2>2, Zenon DEF SotDoes
  <2>5. ~dec.canDecode
    BY <1>3, <2>4 DEF Deciding, InHeader
  <2>6. InHeader'
    BY <2>2, SotHeads
  <2> QED BY <1>0, <2>3, <2>4, <2>5, <2>6 DEF Deciding, Done
<1>11. CASE \E len, got : SodDoes(len, got)
  <2>1. PICK len, got : SodDoes(len, got)
    BY <1>11
  <2>2. /\ pc = "segment" /\ marker = "SOD" /\ ~dec.skip /\ pc' = "read" /\ UNCHANGED call
        /\ dec'.cur = dec.cur /\ dec'.canDecode = dec.canDecode
    BY <2>1 DEF SodDoes, DecSame, DecNames
  <2>3. \A t \in Tiles : Done(t)' <=> Done(t)
    BY <2>1 DEF SodDoes, TcpSame, TcpNames, Done
  <2> QED BY <1>0, <1>3, <2>2, <2>3 DEF Deciding, HeadState, InHeader
<1>12. CASE \E due, yes : CorrDoes(due, yes)
  <2>1. PICK due, yes : CorrDoes(due, yes)
    BY <1>12
  <2>2. /\ pc = "read" /\ pc' = "next" /\ UNCHANGED call /\ dec'.cur = dec.cur
        /\ dec'.canDecode => dec.canDecode /\ ~yes
        /\ due = (dec.canDecode /\ ~dec.corrChecked)
        /\ dec'.corrChecked = (dec.corrChecked \/ due)
    BY <2>1 DEF CorrDoes, DecSame, DecNames
  <2>3. ~yes => \A t \in Tiles : Done(t)' <=> Done(t)
    BY <2>1 DEF CorrDoes, TcpSame, TcpNames, Done
  <2> QED BY <1>0, <1>3, <2>2, <2>3 DEF Deciding, ReadState, InHeader
<1>13. CASE \E t, ended : ChooseDoes(t, ended)
  <2>1. PICK t, ended : ChooseDoes(t, ended)
    BY <1>13
  <2>2. ~ended /\ marker # "EOC" /\ dec.canDecode
    <3>1. ended = (marker = "EOC" /\ dec.state # "EOC") /\ (ended => dec'.state = "EOC") /\ pc = "tail"
      BY <2>1 DEF ChooseDoes
    <3>2. ~ended
      BY <3>1 DEF Live, Over
    <3>3. marker # "EOC"
      BY <1>3, <3>1, <3>2 DEF Live, Over
    <3> QED BY <1>3, <3>1, <3>2, <3>3
  <2>3. /\ pc = "tail" /\ dec'.cur = dec.cur /\ dec'.hasData = TRUE
        /\ pc' = (IF call.kind = "header" THEN "idle" ELSE "decode")
        /\ call' = [call EXCEPT !.tno = t]
        /\ dec'.canDecode = dec.canDecode /\ dec'.corrChecked = dec.corrChecked /\ dec'.skip = dec.skip
    BY <2>1, <2>2 DEF ChooseDoes, DecSame, DecNames
  <2>4. call'.kind = call.kind /\ call'.area = call.area
    BY <2>3 DEF Base, Full, CallFull, CallNames
  <2>5. \A u \in Tiles : Done(u)' <=> Done(u)
    BY <2>1 DEF ChooseDoes, TcpSame, TcpNames, Done
  <2> QED BY <1>0, <1>3, <2>2, <2>3, <2>4, <2>5 DEF Deciding, InHeader
<1>14. CASE \E c, eoc, stray : DecodeDoes(c, eoc, stray)
  <2>1. PICK c, eoc, stray : DecodeDoes(c, eoc, stray)
    BY <1>14
  <2>2. /\ pc = "decode" /\ ~dec'.canDecode /\ ~dec'.hasData /\ c = dec.cur
        /\ pc' = (IF call.kind = "header" THEN "idle" ELSE "after")
        /\ call' = [call EXCEPT !.tno = c] /\ dec'.corrChecked = dec.corrChecked
    BY <2>1 DEF DecodeDoes, DecSame, DecNames
  <2>3. call'.kind = call.kind /\ call'.area = call.area /\ call'.tno = c
    BY <2>2 DEF Base, Full, CallFull, CallNames
  <2>4. \A u \in Tiles : Done(u)' <=> Done(u)
    BY <2>1 DEF DecodeDoes, TcpSame, TcpNames, Done
  <2>5. OneTile \/ (c \in call.area /\ Closed(c) /\ c \in Tiles)
    BY <1>3, <2>2 DEF Deciding, InHeader, Closed
  <2>6. OneTile' \/ (c \in call.area /\ Closed(c)')
    BY <2>2, <2>3, <2>4, <2>5 DEF OneTile, Closed
  <2> QED BY <2>2, <2>3, <2>6 DEF Deciding
<1>15. CASE AfterDoes \/ AfterTileDoes
  <2>1. pc = "after" /\ pc' \in {"finish", "enter"} /\ UNCHANGED dec
    BY <1>15 DEF AfterDoes, AfterTileDoes
  <2>2. ~dec.canDecode
    BY <1>3, <2>1 DEF Deciding, InHeader
  <2> QED BY <2>1, <2>2 DEF Deciding
<1>16. CASE FinishDoes
  <2>1. pc = "finish" /\ pc' = "idle" /\ UNCHANGED <<dec, call>>
    BY <1>16 DEF FinishDoes
  <2>2. ~dec.canDecode /\ call.kind # "header"
    BY <1>3, <2>1 DEF Deciding, InHeader, Settled
  <2> QED BY <2>1, <2>2 DEF Deciding
<1> QED BY <1>4, <1>5, <1>6, <1>7, <1>8, <1>9, <1>10, <1>11, <1>12, <1>13, <1>14, <1>15, <1>16 DEF Does

LEMMA StepReady ==
  ASSUME Base, Modes, Ready, [Next]_vars
  PROVE  Ready'
<1>1. Does /\ UNCHANGED str
  BY Effects, StrStays
<1> QED BY <1>1, SettledStep, HeadStateStep, DecidesStep DEF Ready

-----------------------------------------------------------------------------
(* opj_get_decoded_tile: between two calls nothing is collected.           *)
TileCall == call.kind = "tile"
Empty == \A t \in Tiles : tcp[t].data = <<>>
Blank == \A t \in Tiles : out[t] = Nothing
CurTile  == TileCall /\ (dec.canDecode \/ pc = "decode") => dec.cur \in Tiles
Undone   == pc \notin {"idle", "after", "finish", "failed", "refused"} => Blank
Emptied  == pc = "idle" \/ (pc = "finish" /\ ~Blank) => Empty
OnlyIt   == \A t \in Tiles : t \notin call.area => tcp[t].data = <<>>
ItIs     == pc = "after" => call.tno = dec.tileInd
TileMode == TileCall /\ ~dec.lastPart => Undone /\ Emptied /\ OnlyIt /\ ItIs

LEMMA InitTileMode ==
  ASSUME Init
  PROVE  CurTile /\ TileMode
<1>1. pc = "new" /\ ~dec.canDecode /\ Blank /\ Empty
  BY DEF Init, Blank, Empty, NewTcp
<1> QED BY <1>1 DEF CurTile, TileMode, Undone, Emptied, OnlyIt, ItIs, Empty

LEMMA KindStays ==
  ASSUME Base, Does
  PROVE  call'.kind = call.kind
<1>1. CASE \E x : (call' = [call EXCEPT !.more = x]) \/ (call' = [call EXCEPT !.tno = x])
                   \/ (call' = [call EXCEPT !.n = x])
  BY <1>1 DEF Base, Full, CallFull, CallNames
<1>2. CASE UNCHANGED call
  BY <1>2
<1>3. CASE \E area : AreaDoes(area)
  BY <1>3 DEF AreaDoes, CallSame, CallNames
<1>4. CASE CallSame({"nr"})
  BY <1>4 DEF CallSame, CallNames
<1>5. CASE Fail
  BY <1>1, <1>5 DEF Fail
<1>6. CASE \E t, ended : ChooseDoes(t, ended)
  BY <1>1, <1>6 DEF ChooseDoes
<1>7. CASE \E c, eoc, stray : DecodeDoes(c, eoc, stray)
  BY <1>1, <1>7 DEF DecodeDoes
<1>8. CASE (\E area : SetAreaDoes(area) \/ ReadDoes(area)) \/ \E t : GetDoes(t)
  BY <1>3, <1>8 DEF SetAreaDoes, ReadDoes, GetDoes
<1>9. CASE AfterDoes
  BY <1>4, <1>9 DEF AfterDoes
<1>10. CASE UNCHANGED vars \/ RefusedStep \/ HeaderDoes \/ DataCallDoes \/ AfterTileDoes \/ FinishDoes
  BY <1>10 DEF vars, RefusedStep, HeaderDoes, DataCallDoes, AfterTileDoes, FinishDoes
<1>11. CASE \E i, n, nb : \E skip \in BOOLEAN : SotDoes(i, n, nb, skip)
  <2>1. UNCHANGED call
    BY <1>11 DEF SotDoes
  <2> QED BY <2>1
<1>12. CASE (\E len, got : SodDoes(len, got)) \/ \E due, yes : CorrDoes(due, yes)
  BY <1>12 DEF SodDoes, CorrDoes
<1>13. CASE Moves /\ TcpKept({"ppt"}) /\ UNCHANGED <<str, items, index, call, out>>
  BY <1>13
<1> QED BY <1>2, <1>5, <1>6, <1>7, <1>8, <1>9, <1>10, <1>11, <1>12, <1>13 DEF Does

LEMMA StepCurTile ==
  ASSUME Base, Modes, CurTile, Does, UNCHANGED str
  PROVE  CurTile'
<1> SUFFICES ASSUME TileCall', dec'.canDecode \/ pc' = "decode" PROVE dec'.cur \in Tiles
  BY DEF CurTile, Tiles
<1>1. TileCall
  BY KindStays DEF TileCall
<1>2. 0 \in Tiles
  BY NtIs DEF Tiles, Base
<1>3. CASE UNCHANGED <<dec, pc>> \/ (UNCHANGED dec /\ pc' # "decode")
  BY <1>1, <1>3 DEF CurTile
<1>4. CASE UNCHANGED vars \/ Fail \/ RefusedStep \/ DataCallDoes \/ AfterDoes \/ AfterTileDoes \/ FinishDoes
  BY <1>1, <1>3, <1>4 DEF vars, Fail, RefusedStep, DataCallDoes, AfterDoes, AfterTileDoes, FinishDoes, TileCall
<1>5. CASE HeaderDoes \/ (\E area : SetAreaDoes(area) \/ ReadDoes(area)) \/ \E t : GetDoes(t)
  BY <1>1, <1>5 DEF HeaderDoes, SetAreaDoes, ReadDoes, GetDoes, TileCall, DecSame, DecNames, CurTile
<1>6. CASE Moves
  <2>1. pc' # "decode" /\ (dec'.canDecode => dec.canDecode /\ dec'.cur = dec.cur)
    BY <1>6 DEF Moves, EnterMove, LeaveMove, SeekMove, OnMove, EndMove, PptMove, SkipMove, JumpMove,
                NextMove, SpotMove, GiveUp, DecSame, DecNames
  <2> QED BY <1>1, <2>1 DEF CurTile
<1>7. CASE \E i, n, nb : \E skip \in BOOLEAN : SotDoes(i, n, nb, skip)
  BY <1>7 DEF SotDoes
<1>8. CASE (\E len, got : SodDoes(len, got)) \/ \E due, yes : CorrDoes(due, yes)
  <2>1. pc' # "decode" /\ (dec'.canDecode => dec.canDecode) /\ dec'.cur = dec.cur
    BY <1>8 DEF SodDoes, CorrDoes, DecSame, DecNames
  <2> QED BY <1>1, <2>1 DEF CurTile
<1>9. CASE \E t, ended : ChooseDoes(t, ended)
  <2>1. PICK t, ended : ChooseDoes(t, ended)
    BY <1>9
  <2>2. dec'.canDecode = dec.canDecode
    BY <2>1 DEF ChooseDoes, DecSame, DecNames
  <2>3. CASE ~dec.canDecode /\ pc' = (IF call.kind = "header" THEN "idle" ELSE "finish")
    BY <2>2, <2>3
  <2>4. CASE dec'.cur = t /\ IF dec.canDecode THEN t = (IF ended THEN 0 ELSE dec.cur) ELSE t \in Tiles
    BY <1>1, <1>2, <2>4 DEF CurTile
  <2> QED BY <2>1, <2>3, <2>4 DEF ChooseDoes
<1>10. CASE \E c, eoc, stray : DecodeDoes(c, eoc, stray)
  BY <1>10 DEF DecodeDoes
<1> QED BY <1>4, <1>5, <1>6, <1>7, <1>8, <1>9, <1>10 DEF Does

\* The steps that leave the data of the tiles, and what they were decoded from, alone.
DataQuiet == UNCHANGED out /\ \A t \in Tiles : tcp'[t].data = tcp[t].data

Busy == \/ RefusedStep
        \/ (\E area : SetAreaDoes(area) \/ ReadDoes(area)) \/ \E t : GetDoes(t)
        \/ \E len, got : SodDoes(len, got)
        \/ \E c, eoc, stray : DecodeDoes(c, eoc, stray)
        \/ AfterDoes \/ AfterTileDoes

LEMMA QuietSteps ==
  ASSUME Base, Does
  PROVE  DataQuiet \/ Busy
<1>1. CASE UNCHANGED <<tcp, out>>
  BY <1>1 DEF DataQuiet
<1>2. CASE UNCHANGED vars \/ Fail \/ HeaderDoes \/ DataCallDoes \/ FinishDoes
  BY <1>1, <1>2 DEF vars, Fail, HeaderDoes, DataCallDoes, FinishDoes
<1>3. CASE Moves /\ TcpKept({"ppt"}) /\ UNCHANGED <<str, items, index, call, out>>
  BY <1>3 DEF TcpKept, TcpSame, TcpNames, DataQuiet
<1>4. CASE \E i, n, nb : \E skip \in BOOLEAN : SotDoes(i, n, nb, skip)
  <2>1. \E i : TcpSame(str.parts[i].tile, {"tpno", "nb"}) /\ (\A t \in Tiles \ {str.parts[i].tile} : tcp'[t] = tcp[t])
               /\ UNCHANGED out
    BY <1>4 DEF SotDoes
  <2> QED BY <2>1 DEF TcpSame, TcpNames, DataQuiet
<1>5. CASE \E due, yes : CorrDoes(due, yes)
  BY <1>5 DEF CorrDoes, TcpSame, TcpNames, DataQuiet
<1>6. CASE \E t, ended : ChooseDoes(t, ended)
  BY <1>6 DEF ChooseDoes, TcpSame, TcpNames, DataQuiet
<1> QED BY <1>2, <1>3, <1>4, <1>5, <1>6 DEF Does, Busy

\* where the quiet steps of a call of opj_get_decoded_tile lead
Still == {"idle", "after", "finish", "failed", "refused"}
Goes == /\ call'.area = call.area /\ pc' # "after"
        /\ pc' = "idle" => Empty
        /\ pc' = "finish" => pc \notin Still
        /\ pc' \in Still \/ pc \notin Still

LEMMA QuietGoes ==
  ASSUME Base, Modes, TileCall, Emptied, Does, ~Busy, ~Fail, ~UNCHANGED vars
  PROVE  Goes
<1> USE DEF Goes, Still
<1>2. CASE HeaderDoes
  BY <1>2 DEF HeaderDoes, Modes, Called, Fresh, NotCalled, Empty
<1>3. CASE DataCallDoes
  BY <1>3 DEF DataCallDoes, TileCall
<1>4. CASE FinishDoes
  BY <1>4 DEF FinishDoes, Emptied, Blank
<1>5. CASE Moves /\ TcpKept({"ppt"}) /\ UNCHANGED <<str, items, index, call, out>>
  <2>1. pc \notin Still /\ pc' \notin {"idle", "after", "finish"}
    BY <1>5 DEF Moves, EnterMove, LeaveMove, SeekMove, OnMove, EndMove, PptMove, SkipMove, JumpMove,
              NextMove, SpotMove, GiveUp
  <2> QED BY <1>5, <2>1
<1>6. CASE \E i, n, nb : \E skip \in BOOLEAN : SotDoes(i, n, nb, skip)
  <2>1. pc = "segment" /\ pc' = pc /\ UNCHANGED call
    BY <1>6 DEF SotDoes
  <2> QED BY <2>1
<1>7. CASE \E due, yes : CorrDoes(due, yes)
  BY <1>7 DEF CorrDoes
<1>8. CASE \E t, ended : ChooseDoes(t, ended)
  <2>1. /\ pc = "tail" /\ pc' \in {"finish", "decode"}
        /\ \E x : (call' = [call EXCEPT !.more = x]) \/ (call' = [call EXCEPT !.tno = x])
    BY <1>8 DEF ChooseDoes, TileCall
  <2>2. call'.area = call.area
    BY <2>1 DEF Base, Full, CallFull, CallNames
  <2> QED BY <2>1, <2>2
<1> QED BY <1>2, <1>3, <1>4, <1>5, <1>6, <1>7, <1>8 DEF Does, Busy

LEMMA StepTileMode ==
  ASSUME Base, Modes, Ready, CurTile, TileMode, [Next]_vars, Does, UNCHANGED str, TileCall, ~dec'.lastPart
  PROVE  TileMode'
<1>0. /\ Tiles' = Tiles /\ TileCall' /\ ~dec.lastPart /\ Undone /\ Emptied /\ OnlyIt /\ ItIs
      /\ HeadState /\ ReadState
  BY KindStays, LastPartStays DEF Tiles, TileCall, TileMode, Ready, Base
<1>1. CASE UNCHANGED vars
  BY <1>0, <1>1 DEF vars, TileMode, Undone, Emptied, OnlyIt, ItIs, Blank, Empty
<1>2. CASE Fail
  <2>1. pc' = "failed" /\ UNCHANGED <<tcp, out>> /\ call'.area = call.area
    BY <1>2 DEF Fail, Base, Full, CallFull, CallNames
  <2> QED BY <1>0, <2>1 DEF TileMode, Undone, Emptied, OnlyIt, ItIs, Blank, Empty
<1>3. CASE RefusedStep
  <2>1. \A t \in Tiles : tcp'[t].data \in {tcp[t].data, <<>>}
    <3>1. CASE UNCHANGED tcp
      BY <3>1
    <3>2. CASE tcp' = TileFreed(dec.cur, TRUE)
      BY <3>2, FreeEffect DEF FreeDoes, Base
    <3> QED BY <1>3, <3>1, <3>2 DEF RefusedStep
  <2>2. pc' = "refused" /\ UNCHANGED call
    BY <1>3 DEF RefusedStep
  <2> QED BY <1>0, <2>1, <2>2 DEF TileMode, Undone, Emptied, OnlyIt, ItIs, Blank, Empty
<1>4. CASE \E area : SetAreaDoes(area) \/ ReadDoes(area)
  BY <1>4 DEF SetAreaDoes, ReadDoes, TileCall
<1>5. CASE \E t : GetDoes(t)
  <2>1. PICK t : GetDoes(t)
    BY <1>5
  <2>2. pc = "idle" /\ pc' = "enter" /\ \A u \in Tiles : tcp'[u].data = tcp[u].data /\ out'[u] = Nothing
    BY <2>1 DEF GetDoes, TcpKept, TcpSame, TcpNames, AreaDoes, TileCall
  <2> QED BY <1>0, <2>2 DEF TileMode, Undone, Emptied, OnlyIt, ItIs, Blank, Empty
<1>6. CASE \E len, got : SodDoes(len, got)
  <2>1. PICK len, got : SodDoes(len, got)
    BY <1>6
  <2>2. /\ pc = "segment" /\ marker = "SOD" /\ ~dec.skip /\ pc' = "read" /\ UNCHANGED <<out, call>>
        /\ \A t \in Tiles \ {dec.cur} : tcp'[t] = tcp[t]
    BY <2>1 DEF SodDoes
  <2>3. dec.cur \in call.area
    BY <1>0, <2>2 DEF HeadState, InHeader
  <2> QED BY <1>0, <2>2, <2>3 DEF TileMode, Undone, Emptied, OnlyIt, ItIs, Blank, Empty
<1>7. CASE \E c, eoc, stray : DecodeDoes(c, eoc, stray)
  <2>1. PICK c, eoc, stray : DecodeDoes(c, eoc, stray)
    BY <1>7
  <2>2. /\ pc = "decode" /\ pc' = "after" /\ c = dec.cur /\ tcp[c].data # <<>>
        /\ call' = [call EXCEPT !.tno = c] /\ dec'.tileInd = dec.tileInd
        /\ \A u \in Tiles : tcp'[u].data = tcp[u].data
    BY <2>1 DEF DecodeDoes, TileCall, DecSame, DecNames
  <2>3. call'.area = call.area /\ call'.tno = c
    BY <2>2 DEF Base, Full, CallFull, CallNames
  <2>4. c \in Tiles /\ c \in call.area
    BY <1>0, <2>2 DEF CurTile, OnlyIt
  <2>5. call.area = {dec.tileInd}
    BY <2>2 DEF Modes, Area, Fresh, TileCall
  <2> QED BY <1>0, <2>2, <2>3, <2>4, <2>5 DEF TileMode, Undone, Emptied, OnlyIt, ItIs, Blank, Empty
<1>8. CASE AfterDoes
  BY <1>8 DEF AfterDoes, TileCall
<1>9. CASE AfterTileDoes
  <2>1. /\ pc = "after" /\ pc' = "finish" /\ UNCHANGED <<dec, call, out>>
        /\ \A u \in Tiles : tcp'[u].data = IF u = call.tno THEN <<>> ELSE tcp[u].data
    BY <1>0, <1>9 DEF AfterTileDoes, FreeDoes, ItIs
  <2>2. call.area = {dec.tileInd} /\ call.tno = dec.tileInd
    BY <1>0, <2>1 DEF Modes, Area, Fresh, TileCall, ItIs
  <2>3. \A u \in Tiles : tcp'[u].data = <<>>
    BY <1>0, <2>1, <2>2 DEF OnlyIt
  <2> QED BY <1>0, <2>1, <2>3 DEF TileMode, Undone, Emptied, OnlyIt, ItIs, Blank, Empty
<1>10. CASE DataQuiet /\ ~Busy /\ ~Fail /\ ~UNCHANGED vars
  <2>1. (Blank' <=> Blank) /\ (Empty' <=> Empty)
    BY <1>0, <1>10 DEF DataQuiet, Blank, Empty
  <2>9. Goes
    BY <1>0, <1>10, QuietGoes
  <2> QED BY <1>0, <1>10, <2>1, <2>9 DEF TileMode, Emptied, OnlyIt, ItIs, Undone, DataQuiet, Goes, Still
<1> QED BY <1>1, <1>2, <1>3, <1>4, <1>5, <1>6, <1>7, <1>8, <1>9, <1>10, QuietSteps DEF Busy

-----------------------------------------------------------------------------
(* opj_decode: the tiles it has decoded so far.                            *)

\* A tile all of whose tile-parts were read stays so, until another call of
\* opj_get_decoded_tile starts over.
LEMMA ClosedStays ==
  ASSUME Base, Modes, Does, UNCHANGED str, NEW t \in Tiles, Closed(t),
         dec.tileInd \in {NoTile, t}, ~\E u : GetDoes(u)
  PROVE  Closed(t)'
<1>1. CASE dec'.corrChecked = dec.corrChecked /\ tcp'[t].nb = tcp[t].nb /\ tcp'[t].tpno = tcp[t].tpno
  BY <1>1 DEF Closed, Done
<1>2. CASE UNCHANGED tcp /\ DecSame({"state", "seen", "tlm", "cur", "hasData", "inter", "interIdx"})
  BY <1>1, <1>2 DEF DecSame, DecNames
<1>3. CASE UNCHANGED vars \/ Fail \/ DataCallDoes \/ FinishDoes
  BY <1>1, <1>3 DEF vars, Fail, DataCallDoes, FinishDoes
<1>4. CASE HeaderDoes \/ \E area : SetAreaDoes(area) \/ ReadDoes(area)
  <2>1. UNCHANGED tcp /\ dec'.corrChecked = dec.corrChecked
    BY <1>4 DEF HeaderDoes, SetAreaDoes, ReadDoes, DecSame, DecNames
  <2> QED BY <1>1, <2>1
<1>5. CASE Moves /\ TcpKept({"ppt"}) /\ UNCHANGED <<str, items, index, call, out>>
  <2>1. dec'.corrChecked = dec.corrChecked
    BY <1>5 DEF Moves, EnterMove, LeaveMove, SeekMove, OnMove, EndMove, PptMove, SkipMove, JumpMove,
                NextMove, SpotMove, GiveUp, DecSame, DecNames
  <2> QED BY <1>1, <1>5, <2>1 DEF TcpKept, TcpSame, TcpNames
<1>6. CASE \E i, n, nb : \E skip \in BOOLEAN : SotDoes(i, n, nb, skip)
  <2>1. PICK i, n, nb : \E skip \in BOOLEAN : SotDoes(i, n, nb, skip)
    BY <1>6
  <2> DEFINE p == str.parts[i]
  <2>2. /\ SotAccepted(p, n) /\ p.tp \in Nat
        /\ DecSame({"cur", "lastPart", "sotLen", "canDecode", "state", "skip", "tlm"})
        /\ \A u \in Tiles \ {p.tile} : tcp'[u] = tcp[u]
    BY <2>1 DEF SotDoes
  <2>3. tcp[t].nb \in Nat /\ tcp[t].tpno \in Int
    BY DEF Modes, Numeric
  <2>4. t # p.tile
    BY <2>2, <2>3 DEF SotAccepted, Closed, Done
  <2> QED BY <1>1, <2>2, <2>4 DEF DecSame, DecNames
<1>7. CASE \E len, got : SodDoes(len, got)
  BY <1>1, <1>7 DEF SodDoes, DecSame, DecNames, TcpSame, TcpNames
<1>8. CASE \E due, yes : CorrDoes(due, yes)
  <2>1. /\ dec'.corrChecked = dec.corrChecked /\ TcpSame(t, {"nb"}) /\ tcp'[t].nb = tcp[t].nb
    BY <1>8 DEF CorrDoes, Closed
  <2> QED BY <1>1, <2>1 DEF TcpSame, TcpNames
<1>9. CASE \E u, ended : ChooseDoes(u, ended)
  BY <1>1, <1>9 DEF ChooseDoes, DecSame, DecNames, TcpSame, TcpNames
<1>10. CASE \E c, eoc, stray : DecodeDoes(c, eoc, stray)
  BY <1>1, <1>10 DEF DecodeDoes, DecSame, DecNames, TcpSame, TcpNames
<1>11. CASE AfterDoes \/ AfterTileDoes
  BY <1>1, <1>11 DEF AfterDoes, AfterTileDoes, FreeDoes, TcpKept, TcpSame, TcpNames
<1>12. CASE RefusedStep
  <2>1. dec' = dec /\ TcpSame(t, {"data"})
    <3>1. CASE UNCHANGED tcp
      BY <1>12, <3>1 DEF TcpSame, RefusedStep
    <3>2. CASE tcp' = TileFreed(dec.cur, TRUE)
      BY <1>12, <3>2, FreeEffect DEF FreeDoes, TcpKept, Base, RefusedStep
    <3> QED BY <1>12, <3>1, <3>2 DEF RefusedStep
  <2> QED BY <1>1, <2>1 DEF TcpSame, TcpNames
<1> QED BY <1>3, <1>4, <1>5, <1>6, <1>7, <1>8, <1>9, <1>10, <1>11, <1>12 DEF Does

Given == {t \in Tiles : out[t] # Nothing}
GivenOK == \A t \in Given : t \in call.area /\ Closed(t)
Counted == Cardinality(Given) = IF pc = "after" THEN call.nr + 1 ELSE call.nr
Due     == (InHeader /\ ~dec.skip) \/ pc = "read" \/ (dec.canDecode /\ ~InHeader)
NotTwice == Due => out[dec.cur] = Nothing
Running == Live /\ call.kind = "decode" /\ str.nt > 1 /\ pc \notin {"new", "main", "idle", "finish"}
Counting == Running => GivenOK /\ Counted /\ NotTwice

LEMMA InitCounting ==
  ASSUME Init
  PROVE  Counting
  BY DEF Init, Counting, Running

\* A step after which nothing is given, or the same.
LEMMA GivenSame ==
  ASSUME Base, Modes, Does, UNCHANGED <<str, out>>, Counting, Running, call'.area = call.area
  PROVE  GivenOK' /\ Given' = Given
<1>1. Given' = Given /\ Tiles' = Tiles
  BY DEF Given, Tiles
<1>2. dec.tileInd = NoTile /\ ~\E u : GetDoes(u)
  BY DEF Running, Modes, Area, GetDoes
<1>3. \A t \in Given : Closed(t)'
  BY <1>2, ClosedStays DEF Counting, GivenOK, Given
<1> QED BY <1>1, <1>3 DEF Counting, GivenOK

LEMMA StepCounting ==
  ASSUME Base, Modes, Ready, OwnDataInv, Counting, [Next]_vars, Does, UNCHANGED str, Running'
  PROVE  Counting'
<1>0. /\ Live' /\ call.kind = "decode" /\ call'.kind = "decode" /\ str.nt > 1 /\ Tiles' = Tiles
      /\ pc' \notin {"new", "main", "idle", "finish", "failed", "refused"}
  BY KindStays DEF Running, Tiles, Live
<1>1. ~HeaderDoes /\ (~\E t : GetDoes(t)) /\ (~\E area : ReadDoes(area)) /\ ~DataCallDoes /\ ~AfterTileDoes
      /\ ~FinishDoes /\ ~Fail /\ ~RefusedStep
  BY <1>0 DEF HeaderDoes, GetDoes, ReadDoes, DataCallDoes, AfterTileDoes, FinishDoes, Fail, RefusedStep
<1>2. Live /\ Decides /\ Settled /\ HeadState /\ ReadState /\ ~dec.lastPart
  BY <1>0, <1>1, LiveBack DEF Ready, Live
<1>3. CASE UNCHANGED vars
  BY <1>3 DEF vars, Counting, Running, Live, Over, GivenOK, Counted, NotTwice, Due, Given, Closed, Done, InHeader, Tiles
<1>4. CASE \E area : SetAreaDoes(area)
  <2>1. \A t \in Tiles : out'[t] = Nothing
    BY <1>0, <1>4 DEF SetAreaDoes, AreaDoes
  <2>2. call'.nr = 0 /\ pc' \in {"enter", "decode"}
    BY <1>4 DEF SetAreaDoes, AreaDoes
  <2>3. dec'.cur \in Tiles \/ ~Due'
    <3>1. ~dec.canDecode /\ dec'.canDecode = dec.canDecode
      BY <1>0, <1>2, <1>4 DEF SetAreaDoes, Settled, DecSame, DecNames
    <3> QED BY <2>2, <3>1 DEF Due, InHeader
  <2>4. Given' = {}
    BY <1>0, <2>1 DEF Given
  <2>5. Cardinality(Given') = 0
    BY <2>4, FS_EmptySet
  <2> QED BY <1>0, <2>1, <2>2, <2>3, <2>4, <2>5 DEF Counting, GivenOK, Counted, NotTwice
<1>5. CASE Moves /\ TcpKept({"ppt"}) /\ UNCHANGED <<str, items, index, call, out>>
  <2>1. pc \notin {"new", "main", "idle", "finish", "after"} /\ pc' # "after"
    BY <1>5 DEF Moves, EnterMove, LeaveMove, SeekMove, OnMove, EndMove, PptMove, SkipMove, JumpMove,
                NextMove, SpotMove, GiveUp
  <2>2. Running
    BY <1>0, <1>2, <2>1 DEF Running
  <2>3. GivenOK' /\ Given' = Given
    BY <1>5, <2>2, GivenSame
  <2>4. Counted'
    BY <1>5, <2>1, <2>2, <2>3 DEF Counting, Counted
  <2>5. Due' => Due /\ dec'.cur = dec.cur
    <3>1. CASE EnterMove \/ LeaveMove \/ NextMove
      BY <3>1 DEF EnterMove, LeaveMove, NextMove, DecSame, DecNames, Due, InHeader
    <3>2. CASE SeekMove \/ OnMove
      <4>1. pc' = "segment" /\ marker' = "SOT" /\ ~dec'.canDecode
        BY <1>2, <3>2 DEF SeekMove, OnMove, DecSame, DecNames, Base, OnTrack, Placing
      <4> QED BY <4>1 DEF Due, InHeader
    <3>3. CASE EndMove \/ SpotMove \/ GiveUp
      BY <1>0, <3>3 DEF EndMove, SpotMove, GiveUp, Live, Over
    <3>4. CASE PptMove
      BY <1>2, <3>4 DEF PptMove, DecSame, DecNames, Due, InHeader
    <3>5. CASE SkipMove \/ JumpMove
      BY <3>5 DEF SkipMove, JumpMove, DecSame, DecNames, Due, InHeader
    <3> QED BY <1>5, <3>1, <3>2, <3>3, <3>4, <3>5 DEF Moves
  <2> QED BY <1>5, <2>2, <2>3, <2>4, <2>5 DEF Counting, NotTwice
<1>6. CASE \E i, n, nb : \E skip \in BOOLEAN : SotDoes(i, n, nb, skip)
  <2>1. PICK i, n, nb : \E skip \in BOOLEAN : SotDoes(i, n, nb, skip)
    BY <1>6
  <2>2. PICK skip \in BOOLEAN : SotDoes(i, n, nb, skip)
    BY <2>1
  <2>3. /\ skip <=> str.parts[i].tile \notin call.area
        /\ str.parts[i].tile \in Tiles
        /\ ~skip => ~Done(str.parts[i].tile)
    BY <2>2, SotWanted
  <2>4. /\ dec'.cur = str.parts[i].tile /\ dec'.skip = skip /\ UNCHANGED <<pc, call, out>> /\ pc = "segment"
    BY <2>2, Zenon DEF SotDoes
  <2>5. Running
    BY <1>0, <1>2, <2>4 DEF Running
  <2>6. GivenOK' /\ Given' = Given
    BY <2>4, <2>5, GivenSame
  <2>7. Counted'
    BY <2>4, <2>5, <2>6 DEF Counting, Counted
  <2>8. NotTwice'
    <3>1. InHeader'
      BY <2>2, SotHeads
    <3>2. ~skip => out[str.parts[i].tile] = Nothing
      BY <2>3, <2>5 DEF Counting, GivenOK, Given, Closed
    <3> QED BY <2>4, <3>1, <3>2 DEF NotTwice, Due
  <2> QED BY <2>6, <2>7, <2>8 DEF Counting
<1>7. CASE \E len, got : SodDoes(len, got)
  <2>1. /\ pc = "segment" /\ marker = "SOD" /\ ~dec.skip /\ pc' = "read" /\ UNCHANGED <<call, out>>
        /\ dec'.cur = dec.cur
    BY <1>7 DEF SodDoes, DecSame, DecNames
  <2>2. Running
    BY <1>0, <1>2, <2>1 DEF Running
  <2>3. GivenOK' /\ Given' = Given
    BY <2>1, <2>2, GivenSame
  <2> QED BY <2>1, <2>2, <2>3 DEF Counting, Counted, NotTwice, Due, InHeader
<1>8. CASE \E due, yes : CorrDoes(due, yes)
  <2>1. /\ pc = "read" /\ pc' = "next" /\ UNCHANGED <<call, out>> /\ dec'.cur = dec.cur
    BY <1>8 DEF CorrDoes, DecSame, DecNames
  <2>2. Running
    BY <1>0, <1>2, <2>1 DEF Running
  <2>3. GivenOK' /\ Given' = Given
    BY <2>1, <2>2, GivenSame
  <2> QED BY <2>1, <2>2, <2>3 DEF Counting, Counted, NotTwice, Due
<1>9. CASE \E t, ended : ChooseDoes(t, ended)
  <2>1. PICK t, ended : ChooseDoes(t, ended)
    BY <1>9
  <2>2. ~ended /\ marker # "EOC" /\ dec.canDecode
    <3>1. ended = (marker = "EOC" /\ dec.state # "EOC") /\ (ended => dec'.state = "EOC") /\ pc = "tail"
      BY <2>1 DEF ChooseDoes
    <3>2. ~ended
      BY <1>0, <3>1 DEF Live, Over
    <3>3. marker # "EOC"
      BY <1>2, <3>1, <3>2 DEF Live, Over
    <3> QED BY <1>2, <3>1, <3>2, <3>3 DEF Decides, TailState
  <2>3. /\ pc = "tail" /\ dec'.cur = dec.cur /\ pc' = "decode" /\ call' = [call EXCEPT !.tno = t] /\ UNCHANGED out
    BY <1>0, <2>1, <2>2 DEF ChooseDoes
  <2>4. call'.area = call.area /\ call'.nr = call.nr
    BY <2>3 DEF Base, Full, CallFull, CallNames
  <2>5. Running
    BY <1>0, <1>2, <2>3 DEF Running
  <2>6. GivenOK' /\ Given' = Given
    BY <2>3, <2>4, <2>5, GivenSame
  <2> QED BY <2>2, <2>3, <2>4, <2>5, <2>6 DEF Counting, Counted, NotTwice, Due, InHeader
<1>10. CASE \E c, eoc, stray : DecodeDoes(c, eoc, stray)
  <2>1. PICK c, eoc, stray : DecodeDoes(c, eoc, stray)
    BY <1>10
  <2>2. /\ pc = "decode" /\ ~dec'.canDecode /\ c = dec.cur /\ tcp[c].data # <<>> /\ pc' = "after"
        /\ out' = [out EXCEPT ![c] = tcp[c].data]
        /\ call' = [call EXCEPT !.tno = c]
    BY <1>0, <2>1 DEF DecodeDoes
  <2>3. call'.area = call.area /\ call'.nr = call.nr
    BY <2>2 DEF Base, Full, CallFull, CallNames
  <2>4. Running
    BY <1>0, <1>2, <2>2 DEF Running
  <2>5. c \in Tiles /\ c \in call.area /\ Closed(c) /\ out[c] = Nothing
    <3>1. dec.canDecode /\ ~InHeader
      BY <1>0, <1>2, <2>2 DEF Decides, DecodeState, OneTile, InHeader
    <3> QED BY <1>2, <2>2, <2>4, <3>1 DEF Decides, Deciding, Closed, Counting, NotTwice, Due
  <2>6. tcp[c].data # Nothing
    <3>1. DataOf(tcp[c].data, c)
      BY <1>2, <2>5 DEF OwnDataInv, OwnData
    <3>2. Len(Nothing) = 1 /\ Nothing[1][1] = "nothing"
      BY DEF Nothing
    <3> QED BY <3>1, <3>2 DEF DataOf
  <2>7. Given' = Given \cup {c} /\ c \notin Given
    BY <1>0, <2>2, <2>5, <2>6 DEF Given, Base, Full, OutFull
  <2>8. IsFiniteSet(Given)
    <3>1. IsFiniteSet(Tiles) /\ Given \subseteq Tiles
      BY NtIs, FS_Interval DEF Tiles, Given, Base
    <3> QED BY <3>1, FS_Subset
  <2>9. Cardinality(Given') = Cardinality(Given) + 1
    BY <2>7, <2>8, FS_AddElement
  <2>10. Counted'
    BY <2>2, <2>3, <2>4, <2>9 DEF Counting, Counted
  <2>11. \A t \in Given \cup {c} : Closed(t)'
    <3>1. dec.tileInd = NoTile /\ ~\E u : GetDoes(u)
      BY <1>0, <1>1 DEF Modes, Area
    <3> QED BY <2>4, <2>5, <3>1, ClosedStays DEF Counting, GivenOK, Given
  <2>12. GivenOK'
    BY <2>3, <2>4, <2>5, <2>7, <2>11 DEF Counting, GivenOK
  <2> QED BY <2>2, <2>10, <2>12 DEF Counting, NotTwice, Due, InHeader
<1>11. CASE AfterDoes
  <2>1. pc = "after" /\ pc' = "enter" /\ call'.nr = call.nr + 1 /\ UNCHANGED <<dec, out>> /\ call'.area = call.area
    BY <1>0, <1>11 DEF AfterDoes, CallSame, CallNames
  <2>2. Running
    BY <1>0, <1>2, <2>1 DEF Running
  <2>3. GivenOK' /\ Given' = Given
    BY <2>1, <2>2, GivenSame
  <2>4. ~dec.canDecode
    BY <1>0, <1>2, <2>1 DEF Settled
  <2> QED BY <2>1, <2>2, <2>3, <2>4 DEF Counting, Counted, NotTwice, Due, InHeader
<1> QED BY <1>1, <1>3, <1>4, <1>5, <1>6, <1>7, <1>8, <1>9, <1>10, <1>11 DEF Does

-----------------------------------------------------------------------------
(* The data of a tile, tile-part by tile-part.                             *)

\* no two tile-parts of a tile have the same number
Once(s) == \A i, j \in DOMAIN s.parts :
    s.parts[i].tile = s.parts[j].tile /\ s.parts[i].tp = s.parts[j].tp => i = j

Pieces(s, t) == [n \in Nat \ {0} |-> IF Numbered(s, t, n - 1) = {} THEN <<>>
                                     ELSE PartData(s, CHOOSE i \in Numbered(s, t, n - 1) : TRUE)]
Joined(s, t, n) == Joint(Pieces(s, t), n)
Numbering(s, t) == {0} \cup {s.parts[i].tp + 1 : i \in PartsOf(s, t)}
Top(s, t) == Max(Numbering(s, t))

LEMMA PiecesIn ==
  ASSUME IInv, NEW t
  PROVE  \A n \in Nat \ {0} : Pieces(str, t)[n] \in Seq(Item)
<1> SUFFICES ASSUME NEW n \in Nat \ {0} PROVE Pieces(str, t)[n] \in Seq(Item)
  OBVIOUS
<1>1. CASE Numbered(str, t, n - 1) = {}
  BY <1>1 DEF Pieces
<1>2. CASE Numbered(str, t, n - 1) # {}
  <2> DEFINE i == CHOOSE i \in Numbered(str, t, n - 1) : TRUE
             c == Cardinality({m \in DOMAIN items : items[m][1] = "data" /\ items[m][2] = i})
  <2>1. i \in Numbered(str, t, n - 1)
    BY <1>2
  <2>2. Pieces(str, t)[n] = PartData(str, i)
    BY <1>2 DEF Pieces
  <2> HIDE DEF i
  <2>3. i \in DOMAIN str.parts /\ i \in Nat
    BY <2>1, StreamLaid DEF Numbered, PartsOf
  <2>4. PartData(str, i) = [k \in 1..c |-> <<"data", i, k>>]
    BY StreamLaid DEF PartData
  <2>5. c \in Nat
    <3>1. DOMAIN items = 1..Len(items) /\ Len(items) \in Nat
      BY ItemsAreItems DEF IInv
    <3>2. IsFiniteSet(1..Len(items))
      BY <3>1, FS_Interval
    <3>3. IsFiniteSet({m \in DOMAIN items : items[m][1] = "data" /\ items[m][2] = i})
      BY <3>1, <3>2, FS_Subset
    <3> QED BY <3>3, FS_CardinalityType
  <2> HIDE DEF c
  <2>6. \A k \in 1..c : <<"data", i, k>> \in Item
    BY <2>3, <2>5 DEF Item, ItemKinds
  <2>7. [k \in 1..c |-> <<"data", i, k>>] \in Seq(Item)
    BY <2>5, <2>6
  <2> QED BY <2>2, <2>4, <2>7
<1> QED BY <1>1, <1>2

LEMMA PieceIs ==
  ASSUME Base, Once(str), NEW i \in DOMAIN str.parts
  PROVE  /\ Pieces(str, str.parts[i].tile)[str.parts[i].tp + 1] = PartData(str, i)
         /\ str.parts[i].tp \in Nat
<1> DEFINE p == str.parts[i]
<1>1. p.tp \in Nat
  BY PlaceIn DEF Base
<1>2. Numbered(str, p.tile, p.tp) = {i}
  BY DEF Numbered, PartsOf, Once
<1>3. p.tp + 1 \in Nat \ {0} /\ (p.tp + 1) - 1 = p.tp
  BY <1>1
<1> DEFINE n == p.tp + 1
<1>4. Numbered(str, p.tile, n - 1) = {i}
  BY <1>2, <1>3
<1> HIDE DEF n
<1>5. Pieces(str, p.tile)[n] = PartData(str, i)
  BY <1>3, <1>4 DEF Pieces, n
<1> QED BY <1>1, <1>5 DEF n

\* The next tile-part joins those before it.
LEMMA JoinedNext ==
  ASSUME Base, Once(str), NEW i \in DOMAIN str.parts
  PROVE  Joined(str, str.parts[i].tile, str.parts[i].tp + 1)
            = Joined(str, str.parts[i].tile, str.parts[i].tp) \o PartData(str, i)
<1> DEFINE t == str.parts[i].tile
           n == str.parts[i].tp
           f == Pieces(str, t)
<1>1. f[n + 1] = PartData(str, i) /\ n \in Nat
  BY PieceIs
<1>2. \A k \in 1..(n + 1) : f[k] \in Seq(Item)
  BY <1>1, PiecesIn DEF Base
<1> HIDE DEF f, n, t
<1>3. Joint(f, n + 1) = Joint(f, n) \o f[n + 1]
  BY <1>1, <1>2, JointStep
<1> QED BY <1>1, <1>3 DEF Joined, f, n, t

LEMMA JoinedNone ==
  ASSUME Base, NEW t
  PROVE  Joined(str, t, 0) = <<>>
<1>1. \A k \in 1..(0 + 1) : Pieces(str, t)[k] \in Seq(Item)
  BY PiecesIn DEF Base
<1> QED BY <1>1, JointStep DEF Joined

LEMMA TopIs ==
  ASSUME Base, NEW t
  PROVE  /\ Top(str, t) \in Nat
         /\ \A i \in PartsOf(str, t) : str.parts[i].tp + 1 <= Top(str, t)
<1> DEFINE N == Numbering(str, t)
           g == [i \in PartsOf(str, t) |-> str.parts[i].tp + 1]
<1>1. DOMAIN str.parts = 1..Len(str.parts) /\ Len(str.parts) \in Nat
      /\ \A i \in DOMAIN str.parts : str.parts[i].tp \in Nat
  BY StreamLaid, PlaceIn DEF Base
<1>2. N \in SUBSET Nat /\ 0 \in N
  BY <1>1 DEF Numbering, PartsOf
<1>3. IsFiniteSet(PartsOf(str, t))
  <2>1. IsFiniteSet(1..Len(str.parts))
    BY <1>1, FS_Interval
  <2> QED BY <1>1, <2>1, FS_Subset DEF PartsOf
<1>4. IsFiniteSet(N)
  <2> DEFINE R == {g[i] : i \in PartsOf(str, t)}
  <2>1. IsFiniteSet(R)
    <3>1. g \in Surjection(PartsOf(str, t), R)
      BY DEF Surjection
    <3> HIDE DEF g, R
    <3> QED BY <1>3, <3>1, FS_Surjection
  <2>2. N = R \cup {0}
    BY DEF Numbering
  <2> HIDE DEF R
  <2> QED BY <2>1, <2>2, FS_AddElement
<1>5. Max(N) \in N /\ \A x \in N : x <= Max(N)
  BY <1>2, <1>4, GreatestOf
<1> QED BY <1>2, <1>5 DEF Top, Numbering

\* All the file holds of a tile: what is joined first is a prefix of it.
LEMMA JoinedWhole ==
  ASSUME Base, NEW t, NEW n \in 0..Top(str, t)
  PROVE  IsPrefix(Joined(str, t, n), TileData(str, t))
<1> DEFINE f == Pieces(str, t)
           N == Top(str, t)
<1>1. N \in Nat
  BY TopIs
<1>2. Sequences(f, Item, N)
  BY <1>1, PiecesIn DEF Sequences, Base
<1>3. TileData(str, t) = Joint(f, N)
  <2>1. TileData(str, t) = FlattenSeq([k \in 1..N |-> IF Numbered(str, t, k - 1) = {} THEN <<>>
                                     ELSE PartData(str, CHOOSE i \in Numbered(str, t, k - 1) : TRUE)])
    BY Zenon DEF TileData, Top, Numbering
  <2>2. \A k \in 1..N : f[k] = IF Numbered(str, t, k - 1) = {} THEN <<>>
                                     ELSE PartData(str, CHOOSE i \in Numbered(str, t, k - 1) : TRUE)
    BY <1>1 DEF Pieces
  <2> HIDE DEF f, N
  <2> DEFINE v(k) == IF Numbered(str, t, k - 1) = {} THEN <<>>
                     ELSE PartData(str, CHOOSE i \in Numbered(str, t, k - 1) : TRUE)
  <2>3. TileData(str, t) = FlattenSeq([k \in 1..N |-> v(k)]) /\ \A k \in 1..N : f[k] = v(k)
    BY <2>1, <2>2
  <2> HIDE DEF v
  <2>4. [k \in 1..N |-> v(k)] = [k \in 1..N |-> f[k]]
    BY <2>3
  <2> QED BY <2>3, <2>4 DEF Joint
<1> HIDE DEF f
<1>4. IsPrefix(Joint(f, n), Joint(f, N))
  BY <1>1, <1>2, JointPrefix
<1> QED BY <1>3, <1>4 DEF Joined, f

-----------------------------------------------------------------------------
(* A tile whose data are what they should be.                              *)

SotOf(t) == \E i, n, nb : \E skip \in BOOLEAN : SotDoes(i, n, nb, skip) /\ str.parts[i].tile = t
Passed(t) == \E i, n, nb : SotDoes(i, n, nb, TRUE) /\ str.parts[i].tile = t
Restarted == \E u : GetDoes(u)

LEMMA TpnoStays ==
  ASSUME Base, Does, NEW t \in Tiles, ~Restarted, ~SotOf(t)
  PROVE  tcp'[t].tpno = tcp[t].tpno
<1>2. CASE UNCHANGED tcp
  BY <1>2
<1>3. CASE UNCHANGED vars \/ Fail \/ HeaderDoes \/ DataCallDoes \/ FinishDoes \/ \E area : SetAreaDoes(area) \/ ReadDoes(area)
  BY <1>2, <1>3 DEF vars, Fail, HeaderDoes, DataCallDoes, FinishDoes, SetAreaDoes, ReadDoes
<1>4. CASE RefusedStep
  <2>1. CASE tcp' = TileFreed(dec.cur, TRUE)
    BY <2>1, FreeEffect DEF FreeDoes, TcpKept, Base, TcpSame, TcpNames
  <2> QED BY <1>2, <1>4, <2>1 DEF RefusedStep
<1>5. CASE Moves /\ TcpKept({"ppt"}) /\ UNCHANGED <<str, items, index, call, out>>
  BY <1>5 DEF TcpKept, TcpSame, TcpNames
<1>6. CASE \E i, n, nb : \E skip \in BOOLEAN : SotDoes(i, n, nb, skip)
  <2>1. PICK i, n, nb : \E skip \in BOOLEAN : SotDoes(i, n, nb, skip)
    BY <1>6
  <2>2. str.parts[i].tile # t
    BY <2>1 DEF SotOf
  <2>3. \A u \in Tiles \ {str.parts[i].tile} : tcp'[u] = tcp[u]
    BY <2>1 DEF SotDoes
  <2> QED BY <2>2, <2>3
<1>7. CASE (\E len, got : SodDoes(len, got)) \/ \E due, yes : CorrDoes(due, yes)
  BY <1>7 DEF SodDoes, CorrDoes, TcpSame, TcpNames
<1>8. CASE (\E u, ended : ChooseDoes(u, ended)) \/ \E c, eoc, stray : DecodeDoes(c, eoc, stray)
  <2>1. TcpSame(t, {"merged"}) \/ TcpSame(t, {"data"})
    BY <1>8, Zenon DEF ChooseDoes, DecodeDoes
  <2> QED BY <2>1 DEF TcpSame, TcpNames
<1>9. CASE AfterDoes \/ AfterTileDoes
  BY <1>9 DEF AfterDoes, AfterTileDoes, FreeDoes, TcpKept, TcpSame, TcpNames
<1> QED BY <1>3, <1>4, <1>5, <1>6, <1>7, <1>8, <1>9 DEF Does, Restarted

Collecting(t) == InHeader /\ ~dec.skip /\ t = dec.cur
Exact(t) == tcp[t].data = Joined(str, t, tcp[t].tpno + 1)
Sound(t) == Collecting(t) \/ Exact(t) \/ Closed(t)
HeadData == InHeader /\ ~dec.skip => tcp[dec.cur].data = Joined(str, dec.cur, tcp[dec.cur].tpno)

\* What is read for a tile makes it complete up to the tile-part at hand.
LEMMA SodExact ==
  ASSUME Base, Once(str), HeadData, NEW len, NEW got, SodDoes(len, got), ~dec.lastPart, UNCHANGED str
  PROVE  dec.cur \in Tiles /\ Exact(dec.cur)' /\ \E i \in PartsOf(str, dec.cur) : str.parts[i].tp = tcp'[dec.cur].tpno
<1>0. PICK i \in DOMAIN str.parts :
            /\ dec.cur \in Tiles /\ str.parts[i].tile = dec.cur /\ str.parts[i].tp = tcp[dec.cur].tpno
            /\ pos = Off(str, i) + HeadLen(str, i) /\ len = str.parts[i].len
            /\ pos' = pos + got /\ pos' \in 0..Len(items)
            /\ got \in 0..len /\ (got < len => pos' = Len(items))
  BY SodReads DEF Base
<1>1. SubSeq(items, pos + 1, pos + got) = PartData(str, i)
  <2>1. pos + got <= Len(items) /\ got \in 0..str.parts[i].len
    BY <1>0, StreamLaid DEF Base
  <2> QED BY <1>0, <2>1, PieceRead DEF Base
<1>2. tcp[dec.cur].data = Joined(str, dec.cur, tcp[dec.cur].tpno)
  BY DEF HeadData, SodDoes, InHeader
<1>3. Joined(str, str.parts[i].tile, str.parts[i].tp + 1)
            = Joined(str, str.parts[i].tile, str.parts[i].tp) \o PartData(str, i)
  BY JoinedNext
<1>4. tcp'[dec.cur].tpno = tcp[dec.cur].tpno /\ dec'.cur = dec.cur
  BY <1>0 DEF SodDoes, TcpSame, TcpNames, DecSame, DecNames
<1>5. tcp'[dec.cur].data = tcp[dec.cur].data \o PartData(str, i)
  BY <1>0, <1>1 DEF SodDoes
<1>6. tcp'[dec.cur].data = Joined(str, dec.cur, tcp[dec.cur].tpno + 1)
  BY <1>0, <1>2, <1>3, <1>5
<1> QED BY <1>0, <1>4, <1>6 DEF Exact, PartsOf

\* The steps but ReadSod that change the data of a tile only free those of a tile that is done.
LEMMA DataStays ==
  ASSUME Base, Modes, Ready, [Next]_vars, Does, UNCHANGED str, Live, Live',
         NEW t \in Tiles, ~Closed(t), ~\E len, got : SodDoes(len, got)
  PROVE  tcp'[t].data = tcp[t].data
<1>0. Decides
  BY DEF Ready
<1>1. CASE DataQuiet
  BY <1>1 DEF DataQuiet
<1>2. CASE RefusedStep
  BY <1>2 DEF RefusedStep, Live
<1>3. CASE (\E area : SetAreaDoes(area) \/ ReadDoes(area)) \/ \E u : GetDoes(u)
  BY <1>3 DEF SetAreaDoes, ReadDoes, GetDoes, TcpKept, TcpSame, TcpNames
<1>4. CASE \E c, eoc, stray : DecodeDoes(c, eoc, stray)
  <2>1. PICK c, eoc, stray : DecodeDoes(c, eoc, stray)
    BY <1>4
  <2>2. /\ pc = "decode" /\ c = dec.cur
        /\ tcp'[t].data = IF t = c /\ call.kind = "header" THEN <<>> ELSE tcp[t].data
    BY <2>1 DEF DecodeDoes
  <2>3. CASE t # c \/ call.kind # "header"
    BY <2>2, <2>3
  <2>4. CASE t = c /\ call.kind = "header"
    BY <1>0, <2>2, <2>4 DEF Decides, Deciding, DecodeState, Closed, OneTile
  <2> QED BY <2>3, <2>4
<1>5. CASE AfterDoes \/ AfterTileDoes
  <2>1. pc = "after" /\ tcp'[t].data = IF t = call.tno /\ ~OneTile THEN <<>> ELSE tcp[t].data
    BY <1>5 DEF AfterDoes, AfterTileDoes, FreeDoes, OneTile
  <2>2. OneTile \/ Closed(call.tno)
    BY <1>0, <2>1 DEF Decides, AfterState
  <2> QED BY <2>1, <2>2
<1> QED BY <1>1, <1>2, <1>3, <1>4, <1>5, QuietSteps DEF Busy

\* The data of a tile are collected until they are read.
LEMMA CollectingStays ==
  ASSUME Base, Does, ~dec.lastPart, Live', NEW t, Collecting(t), ~\E len, got : SodDoes(len, got)
  PROVE  Collecting(t)'
<1>1. pc = "segment" /\ marker # "SOT" /\ ~dec.skip /\ t = dec.cur
  BY DEF Collecting, InHeader
<1>2. CASE UNCHANGED vars
  BY <1>1, <1>2 DEF vars, Collecting, InHeader
<1>3. CASE Fail \/ RefusedStep
  BY <1>3 DEF Fail, RefusedStep, Live
<1>4. CASE Moves
  <2>1. EndMove \/ PptMove
    BY <1>1, <1>4 DEF Moves, EnterMove, LeaveMove, SeekMove, OnMove, SkipMove, JumpMove, NextMove,
                      SpotMove, GiveUp
  <2>2. PptMove
    BY <2>1 DEF EndMove, Live, Over
  <2> QED BY <1>1, <2>2 DEF PptMove, DecSame, DecNames, Collecting, InHeader
<1>5. CASE \E i, n, nb : \E skip \in BOOLEAN : SotDoes(i, n, nb, skip)
  <2>1. marker = "SOT"
    BY <1>5 DEF SotDoes
  <2> QED BY <1>1, <2>1
<1>6. CASE \/ HeaderDoes \/ (\E area : SetAreaDoes(area) \/ ReadDoes(area)) \/ (\E u : GetDoes(u))
           \/ DataCallDoes \/ AfterDoes \/ AfterTileDoes \/ FinishDoes
  BY <1>1, <1>6 DEF HeaderDoes, SetAreaDoes, ReadDoes, GetDoes, DataCallDoes, AfterDoes, AfterTileDoes, FinishDoes
<1>7. CASE \/ (\E due, yes : CorrDoes(due, yes)) \/ (\E u, ended : ChooseDoes(u, ended))
           \/ \E c, eoc, stray : DecodeDoes(c, eoc, stray)
  BY <1>1, <1>7 DEF CorrDoes, ChooseDoes, DecodeDoes
<1> QED BY <1>2, <1>3, <1>4, <1>5, <1>6, <1>7 DEF Does

LEMMA SoundStays ==
  ASSUME Base, Modes, Ready, Once(str), HeadData, [Next]_vars, Does, UNCHANGED str, Live, Live',
         NEW t \in Tiles, Sound(t), dec.tileInd \in {NoTile, t}, ~Restarted, ~Passed(t)
  PROVE  Sound(t)'
<1>0. ~dec.lastPart /\ Tiles' = Tiles
  BY DEF Live, Tiles
<1>1. CASE Closed(t)
  BY <1>1, ClosedStays DEF Sound, Restarted
<1>2. CASE Collecting(t)'
  BY <1>2 DEF Sound
<1> SUFFICES ASSUME ~Closed(t), ~Collecting(t)' PROVE Exact(t)'
  BY <1>1, <1>2 DEF Sound
<1>3. CASE SotOf(t)
  <2>1. PICK i, n, nb : \E skip \in BOOLEAN : SotDoes(i, n, nb, skip) /\ str.parts[i].tile = t
    BY <1>3 DEF SotOf
  <2>2. PICK skip \in BOOLEAN : SotDoes(i, n, nb, skip) /\ str.parts[i].tile = t
    BY <2>1
  <2>3. ~skip
    BY <2>2 DEF Passed
  <2>4. dec'.cur = t /\ dec'.skip = skip
    BY <2>2 DEF SotDoes
  <2>5. InHeader'
    BY <2>2, SotHeads
  <2> QED BY <2>3, <2>4, <2>5 DEF Collecting
<1>4. CASE \E len, got : SodDoes(len, got)
  <2>1. PICK len, got : SodDoes(len, got)
    BY <1>4
  <2>2. CASE t = dec.cur
    <3>1. dec'.cur = dec.cur
      BY <2>1 DEF SodDoes, DecSame, DecNames
    <3>2. Exact(dec.cur)'
      BY <1>0, <2>1, SodExact
    <3> QED BY <2>2, <3>1, <3>2 DEF Exact
  <2>3. CASE t # dec.cur
    <3>1. tcp'[t] = tcp[t]
      BY <2>1, <2>3 DEF SodDoes
    <3>2. Exact(t)
      BY <2>3 DEF Sound, Collecting
    <3> QED BY <3>1, <3>2 DEF Exact
  <2> QED BY <2>2, <2>3
<1>5. CASE ~SotOf(t) /\ ~\E len, got : SodDoes(len, got)
  <2>1. tcp'[t].tpno = tcp[t].tpno
    BY <1>5, TpnoStays
  <2>2. Exact(t)
    BY <1>0, <1>5, CollectingStays DEF Sound
  <2>3. tcp'[t].data = tcp[t].data
    BY <1>5, DataStays
  <2> QED BY <2>1, <2>2, <2>3 DEF Exact
<1> QED BY <1>3, <1>4, <1>5

-----------------------------------------------------------------------------
(* The tiles that are wanted have what the file says.                      *)

SoundAll  == \A t \in Tiles : Sound(t)
SoundArea == Live /\ ~(TileCall /\ pc \in {"idle", "finish"}) => \A t \in call.area : Sound(t)
Trusted   == SoundArea /\ (~dec.lastPart => HeadData)

LEMMA FreshSound ==
  ASSUME Base, Modes, NotCalled
  PROVE  \A t \in Tiles : Exact(t)
<1>1. \A t \in Tiles : tcp[t].data = <<>> /\ tcp[t].tpno + 1 = 0
  BY DEF Modes, Fresh
<1> QED BY <1>1, JoinedNone DEF Exact

LEMMA StepHeadData ==
  ASSUME Base, Modes, Ready, Trusted, [Next]_vars, Does, UNCHANGED str, ~dec'.lastPart
  PROVE  HeadData'
<1> SUFFICES ASSUME InHeader', ~dec'.skip
             PROVE  tcp'[dec'.cur].data = Joined(str, dec'.cur, tcp'[dec'.cur].tpno)
  BY DEF HeadData
<1>0. ~dec.lastPart /\ HeadData /\ pc' = "segment" /\ marker' # "SOT"
  BY LastPartStays DEF Base, Trusted, InHeader
<1>1. CASE UNCHANGED vars
  BY <1>0, <1>1 DEF vars, HeadData, InHeader
<1>2. CASE Moves /\ TcpKept({"ppt"}) /\ UNCHANGED <<str, items, index, call, out>>
  <2>1. OnMove \/ PptMove
    BY <1>0, <1>2 DEF Moves, EnterMove, LeaveMove, SeekMove, EndMove, SkipMove, JumpMove, NextMove,
                      SpotMove, GiveUp
  <2>2. PptMove
    BY <1>0, <2>1 DEF OnMove, Base, OnTrack, Placing
  <2>3. pc = "segment" /\ marker # "SOT" /\ dec'.cur = dec.cur /\ dec'.skip = dec.skip
    BY <2>2 DEF PptMove, DecSame, DecNames
  <2>4. dec.cur \in Tiles
    BY <1>0, <2>3 DEF Base, OnTrack, Heading, InHeader
  <2>5. tcp'[dec.cur].data = tcp[dec.cur].data /\ tcp'[dec.cur].tpno = tcp[dec.cur].tpno
    BY <1>2, <2>4 DEF TcpKept, TcpSame, TcpNames
  <2> QED BY <1>0, <2>3, <2>5 DEF HeadData, InHeader
<1>3. CASE \E i, n, nb : \E skip \in BOOLEAN : SotDoes(i, n, nb, skip)
  <2>1. PICK i, n, nb : \E skip \in BOOLEAN : SotDoes(i, n, nb, skip)
    BY <1>3
  <2>2. PICK skip \in BOOLEAN : SotDoes(i, n, nb, skip)
    BY <2>1
  <2> DEFINE p == str.parts[i]
  <2>3. /\ dec'.skip = skip /\ dec'.cur = p.tile /\ pc = "segment" /\ marker = "SOT" /\ dec.state = "TPHSOT"
        /\ tcp'[p.tile].tpno = p.tp /\ TcpSame(p.tile, {"tpno", "nb"})
    BY <2>2, Zenon DEF SotDoes
  <2>4. p.tile \in call.area /\ p.tile \in Tiles /\ p.tp = tcp[p.tile].tpno + 1 /\ ~Done(p.tile)
    BY <2>2, <2>3, SotWanted
  <2>5. Sound(p.tile)
    BY <1>0, <2>3, <2>4 DEF Trusted, SoundArea, Live, Over
  <2>6. Exact(p.tile)
    BY <2>3, <2>4, <2>5 DEF Sound, Collecting, Closed, InHeader
  <2>7. tcp'[p.tile].data = tcp[p.tile].data
    BY <2>3 DEF TcpSame, TcpNames
  <2> QED BY <2>3, <2>4, <2>6, <2>7 DEF Exact
<1>4. CASE Fail \/ RefusedStep \/ HeaderDoes \/ DataCallDoes \/ FinishDoes \/ AfterDoes \/ AfterTileDoes
  BY <1>0, <1>4 DEF Fail, RefusedStep, HeaderDoes, DataCallDoes, FinishDoes, AfterDoes, AfterTileDoes
<1>5. CASE (\E area : SetAreaDoes(area) \/ ReadDoes(area)) \/ \E u : GetDoes(u)
  BY <1>0, <1>5 DEF SetAreaDoes, ReadDoes, GetDoes
<1>6. CASE (\E len, got : SodDoes(len, got)) \/ \E due, yes : CorrDoes(due, yes)
  BY <1>0, <1>6 DEF SodDoes, CorrDoes
<1>7. CASE (\E u, ended : ChooseDoes(u, ended)) \/ \E c, eoc, stray : DecodeDoes(c, eoc, stray)
  BY <1>0, <1>7 DEF ChooseDoes, DecodeDoes
<1> QED BY <1>1, <1>2, <1>3, <1>4, <1>5, <1>6, <1>7 DEF Does

\* No tile-part of a tile that is wanted is passed over.
LEMMA NotPassed ==
  ASSUME Base, Modes, NEW t \in call.area
  PROVE  ~Passed(t)
<1> SUFFICES ASSUME Passed(t) PROVE FALSE
  OBVIOUS
<1>1. PICK i, n, nb : SotDoes(i, n, nb, TRUE) /\ str.parts[i].tile = t
  BY DEF Passed
<1> QED BY <1>1, SotWanted

\* A step of a call that goes on leaves the area, and the tiles in it, as they should be.
Begins == (\E area : SetAreaDoes(area) \/ ReadDoes(area)) \/ \E u : GetDoes(u)
LEMMA AreaKept ==
  ASSUME Base, Does, ~Begins
  PROVE  call'.area = call.area
<1>1. CASE \E x : (call' = [call EXCEPT !.more = x]) \/ (call' = [call EXCEPT !.tno = x])
                   \/ (call' = [call EXCEPT !.n = x])
  BY <1>1 DEF Base, Full, CallFull, CallNames
<1>2. CASE UNCHANGED call
  BY <1>2
<1>3. CASE Fail
  BY <1>1, <1>3 DEF Fail
<1>4. CASE \E t, ended : ChooseDoes(t, ended)
  BY <1>1, <1>4 DEF ChooseDoes
<1>5. CASE \E c, eoc, stray : DecodeDoes(c, eoc, stray)
  BY <1>1, <1>5 DEF DecodeDoes
<1>6. CASE AfterDoes
  BY <1>6 DEF AfterDoes, CallSame, CallNames
<1>7. CASE UNCHANGED vars \/ RefusedStep \/ HeaderDoes \/ DataCallDoes \/ AfterTileDoes \/ FinishDoes
  BY <1>7 DEF vars, RefusedStep, HeaderDoes, DataCallDoes, AfterTileDoes, FinishDoes
<1>8. CASE \E i, n, nb : \E skip \in BOOLEAN : SotDoes(i, n, nb, skip)
  <2>1. UNCHANGED call
    BY <1>8 DEF SotDoes
  <2> QED BY <2>1
<1>9. CASE (\E len, got : SodDoes(len, got)) \/ \E due, yes : CorrDoes(due, yes)
  BY <1>9 DEF SodDoes, CorrDoes
<1>10. CASE Moves /\ TcpKept({"ppt"}) /\ UNCHANGED <<str, items, index, call, out>>
  BY <1>10
<1> QED BY <1>2, <1>3, <1>4, <1>5, <1>6, <1>7, <1>8, <1>9, <1>10 DEF Does, Begins

LEMMA CallSound ==
  ASSUME Base, Modes, Ready, Once(str), Trusted, [Next]_vars, Does, UNCHANGED str, Live, Live', ~Begins,
         ~NotCalled, ~(TileCall /\ pc \in {"idle", "finish"}), NEW t \in call.area
  PROVE  Sound(t)'
<1>1. t \in Tiles /\ dec.tileInd \in {NoTile, t}
  BY DEF Modes, Area, Live
<1>2. Sound(t) /\ HeadData
  BY DEF Trusted, SoundArea, Live
<1>3. ~Passed(t) /\ ~Restarted
  BY NotPassed DEF Begins, Restarted
<1> QED BY <1>1, <1>2, <1>3, SoundStays

-----------------------------------------------------------------------------
(* opj_decode of a part of the tiles, planned from the TLM segment.        *)

Wanted(i) == i \in DOMAIN str.parts /\ str.parts[i].tile \in call.area
ReadUpTo(i) == str.parts[i].tp <= tcp[str.parts[i].tile].tpno
AllRead == \A i : Wanted(i) => ReadUpTo(i)

AtPlanned == pc = "segment" /\ marker = "SOT"
EachIsPart == \A k \in DOMAIN dec.inter : \E i : Wanted(i) /\ dec.inter[k] = Off(str, i)
EachPartIs == \A i : Wanted(i) => \E k \in DOMAIN dec.inter : dec.inter[k] = Off(str, i)
SoughtRead == \A i : Wanted(i) => \A k \in 1..dec.interIdx :
    dec.inter[k] = Off(str, i) => ReadUpTo(i) \/ (AtPlanned /\ k = dec.interIdx)
SoughtNow  == AtPlanned => AllRead \/ (dec.interIdx >= 1 /\ pos = dec.inter[dec.interIdx] + 1)
Planning == Live /\ dec.inter # <<>>
Planned  == /\ pc \in {"new", "main"} => dec.inter = <<>>
            /\ Planning => EachIsPart /\ EachPartIs /\ SoughtRead /\ SoughtNow

\* The SOT segment that is read belongs to the tile-part that was sought.
LEMMA SotSought ==
  ASSUME Base, NEW i, NEW n, NEW nb, NEW skip \in BOOLEAN, SotDoes(i, n, nb, skip),
         NEW j \in DOMAIN str.parts, pos = Off(str, j) + 1
  PROVE  i = j
<1>1. pos + 1 \in 1..Len(items) /\ items[pos + 1][2] = i
  BY Zenon DEF SotDoes
<1>2. pos + 1 = Off(str, j) + 2 /\ 2 \in 1..PartLen(str, j)
  BY PartSizes DEF Base
<1>3. items[Off(str, j) + 2] = PartItems(str, j)[2] /\ PartItems(str, j)[2][2] = j
  BY <1>1, <1>2, PlaceIn DEF Base
<1> QED BY <1>1, <1>2, <1>3

LEMMA InterIs ==
  ASSUME Base
  PROVE  Len(dec.inter) \in Nat /\ dec.interIdx \in 0..Len(dec.inter) /\ DOMAIN dec.inter = 1..Len(dec.inter)
  BY DEF Base, Typed, DecOK

\* but for opj_get_decoded_tile the tile-parts of a tile are read in the order of their numbers
LEMMA TpnoGrows ==
  ASSUME Base, Modes, Does, ~TileCall, NEW t \in Tiles
  PROVE  tcp'[t].tpno >= tcp[t].tpno
<1>0. tcp[t].tpno \in Int
  BY DEF Modes, Numeric
<1>1. CASE SotOf(t)
  <2>1. PICK i, n, nb : \E skip \in BOOLEAN : SotDoes(i, n, nb, skip) /\ str.parts[i].tile = t
    BY <1>1 DEF SotOf
  <2>2. PICK skip \in BOOLEAN : SotDoes(i, n, nb, skip) /\ str.parts[i].tile = t
    BY <2>1
  <2>3. str.parts[i].tp = tcp[t].tpno + 1
    BY <2>2, SotWanted DEF TileCall
  <2>4. tcp'[t].tpno = str.parts[i].tp
    BY <2>2 DEF SotDoes
  <2> QED BY <1>0, <2>3, <2>4
<1>2. CASE ~SotOf(t)
  <2>1. ~Restarted
    BY DEF Restarted, GetDoes, TileCall
  <2> QED BY <1>0, <1>2, <2>1, TpnoStays
<1> QED BY <1>1, <1>2

LEMMA ReadStays ==
  ASSUME Base, Modes, Does, UNCHANGED str, ~TileCall, NEW i \in DOMAIN str.parts, ReadUpTo(i)
  PROVE  ReadUpTo(i)'
<1>1. str.parts[i].tile \in Tiles /\ str.parts[i].tp \in Nat
  BY PlaceIn DEF Base
<1>2. tcp'[str.parts[i].tile].tpno >= tcp[str.parts[i].tile].tpno /\ tcp[str.parts[i].tile].tpno \in Int
  BY <1>1, TpnoGrows DEF Modes, Numeric
<1>3. tcp'[str.parts[i].tile].tpno \in Int
  <2>1. Modes'
    BY StepModes
  <2> QED BY <1>1, <2>1 DEF Modes, Numeric, Tiles
<1> QED BY <1>1, <1>2, <1>3 DEF ReadUpTo

\* A step that is not a new call leaves the plan alone, but for the place in it.
LEMMA PlanKept ==
  ASSUME Base, Does, ~Begins
  PROVE  /\ dec'.inter = dec.inter
         /\ dec'.interIdx = dec.interIdx
            \/ (pc = "loop" /\ SeekMove /\ dec'.interIdx = dec.interIdx + 1)
<1>1. CASE UNCHANGED vars \/ Fail \/ RefusedStep \/ DataCallDoes \/ AfterDoes \/ AfterTileDoes \/ FinishDoes
  BY <1>1 DEF vars, Fail, RefusedStep, DataCallDoes, AfterDoes, AfterTileDoes, FinishDoes
<1>2. CASE HeaderDoes
  BY <1>2 DEF HeaderDoes, DecSame, DecNames
<1>3. CASE Moves
  <2>1. CASE SeekMove
    BY <2>1 DEF SeekMove, DecSame, DecNames
  <2>2. CASE ~SeekMove
    BY <1>3, <2>2 DEF Moves, EnterMove, LeaveMove, OnMove, EndMove, PptMove, SkipMove, JumpMove, NextMove,
                      SpotMove, GiveUp, DecSame, DecNames
  <2> QED BY <2>1, <2>2
<1>4. CASE \E i, n, nb : \E skip \in BOOLEAN : SotDoes(i, n, nb, skip)
  <2>1. DecSame({"cur", "lastPart", "sotLen", "canDecode", "state", "skip", "tlm"})
    BY <1>4 DEF SotDoes
  <2> QED BY <2>1 DEF DecSame, DecNames
<1>5. CASE (\E len, got : SodDoes(len, got)) \/ \E due, yes : CorrDoes(due, yes)
  BY <1>5 DEF SodDoes, CorrDoes, DecSame, DecNames
<1>6. CASE (\E u, ended : ChooseDoes(u, ended)) \/ \E c, eoc, stray : DecodeDoes(c, eoc, stray)
  BY <1>6 DEF ChooseDoes, DecodeDoes, DecSame, DecNames
<1> QED BY <1>1, <1>2, <1>3, <1>4, <1>5, <1>6 DEF Does, Begins

\* How the marker of the next tile-part is reached, and left.
LEMMA AtPlannedStep ==
  ASSUME Base, Does, ~dec.lastPart, Live'
  PROVE  /\ AtPlanned' => \/ AtPlanned /\ pos' = pos /\ dec'.interIdx = dec.interIdx
                          \/ SeekMove
                          \/ pc = "loop" /\ dec.interIdx = Len(dec.inter) /\ dec'.interIdx = dec.interIdx
         /\ AtPlanned /\ ~AtPlanned' => \E i, n, nb : \E skip \in BOOLEAN : SotDoes(i, n, nb, skip)
<1>1. CASE UNCHANGED vars
  BY <1>1 DEF vars, AtPlanned
<1>2. CASE Fail \/ RefusedStep
  BY <1>2 DEF Fail, RefusedStep, Live
<1>3. CASE Moves
  <2>1. CASE SeekMove
    BY <2>1 DEF SeekMove, AtPlanned
  <2>2. CASE OnMove
    BY <2>2 DEF OnMove, AtPlanned, DecSame, DecNames
  <2>3. CASE PptMove
    BY <2>3 DEF PptMove, AtPlanned
  <2>4. CASE EndMove
    BY <2>4 DEF EndMove, Live, Over
  <2>5. CASE EnterMove \/ LeaveMove \/ SkipMove \/ JumpMove \/ NextMove \/ SpotMove \/ GiveUp
    BY <2>5 DEF EnterMove, LeaveMove, SkipMove, JumpMove, NextMove, SpotMove, GiveUp, AtPlanned
  <2> QED BY <1>3, <2>1, <2>2, <2>3, <2>4, <2>5 DEF Moves
<1>4. CASE \E i, n, nb : \E skip \in BOOLEAN : SotDoes(i, n, nb, skip)
  BY <1>4, SotHeads DEF AtPlanned, InHeader
<1>5. CASE \/ HeaderDoes \/ (\E area : SetAreaDoes(area) \/ ReadDoes(area)) \/ (\E u : GetDoes(u))
           \/ DataCallDoes \/ AfterDoes \/ AfterTileDoes \/ FinishDoes
  BY <1>5 DEF HeaderDoes, SetAreaDoes, ReadDoes, GetDoes, DataCallDoes, AfterDoes, AfterTileDoes, FinishDoes, AtPlanned
<1>6. CASE (\E len, got : SodDoes(len, got)) \/ \E due, yes : CorrDoes(due, yes)
  BY <1>6 DEF SodDoes, CorrDoes, AtPlanned
<1>7. CASE (\E u, ended : ChooseDoes(u, ended)) \/ \E c, eoc, stray : DecodeDoes(c, eoc, stray)
  BY <1>7 DEF ChooseDoes, DecodeDoes, AtPlanned
<1> QED BY <1>1, <1>2, <1>3, <1>4, <1>5, <1>6, <1>7 DEF Does

LEMMA InitPlanned ==
  ASSUME Init
  PROVE  Planned
<1>1. dec.inter = <<>>
  BY DEF Init
<1> QED BY <1>1 DEF Planned, Planning

\* Nothing leads back to the main header.
LEMMA EarlyBack ==
  ASSUME Base, Does, pc' \in {"new", "main"}
  PROVE  pc \in {"new", "main"} /\ ~Begins
<1>1. CASE UNCHANGED vars \/ HeaderDoes
  BY <1>1 DEF vars, HeaderDoes, Begins, SetAreaDoes, ReadDoes, GetDoes
<1>2. CASE Fail \/ RefusedStep \/ DataCallDoes \/ AfterDoes \/ AfterTileDoes \/ FinishDoes
  BY <1>2 DEF Fail, RefusedStep, DataCallDoes, AfterDoes, AfterTileDoes, FinishDoes
<1>3. CASE Begins
  BY <1>3 DEF Begins, SetAreaDoes, ReadDoes, GetDoes
<1>4. CASE Moves
  BY <1>4 DEF Moves, EnterMove, LeaveMove, SeekMove, OnMove, EndMove, PptMove, SkipMove, JumpMove, NextMove,
                SpotMove, GiveUp
<1>5. CASE \E i, n, nb : \E skip \in BOOLEAN : SotDoes(i, n, nb, skip)
  <2>1. pc' = pc /\ pc = "segment"
    BY <1>5 DEF SotDoes
  <2> QED BY <2>1
<1>6. CASE (\E len, got : SodDoes(len, got)) \/ \E due, yes : CorrDoes(due, yes)
  BY <1>6 DEF SodDoes, CorrDoes
<1>7. CASE (\E u, ended : ChooseDoes(u, ended)) \/ \E c, eoc, stray : DecodeDoes(c, eoc, stray)
  BY <1>7 DEF ChooseDoes, DecodeDoes
<1> QED BY <1>1, <1>2, <1>3, <1>4, <1>5, <1>6, <1>7 DEF Does, Begins

\* When the next tile-part is read on, all those that were planned were read.
LEMMA PlanDone ==
  ASSUME Base, EachPartIs, SoughtRead, pc # "segment", dec.interIdx = Len(dec.inter)
  PROVE  AllRead
<1> SUFFICES ASSUME NEW i, Wanted(i) PROVE ReadUpTo(i)
  BY DEF AllRead
<1>1. PICK k \in DOMAIN dec.inter : dec.inter[k] = Off(str, i)
  BY DEF EachPartIs
<1>2. k \in 1..dec.interIdx
  BY InterIs
<1> QED BY <1>1, <1>2 DEF SoughtRead, AtPlanned

LEMMA PlannedOn ==
  ASSUME Base, Modes, Ready, Planned, [Next]_vars, Does, UNCHANGED str, ~Begins, Planning'
  PROVE  EachIsPart' /\ EachPartIs' /\ SoughtRead' /\ SoughtNow'
<1>1. /\ call'.area = call.area /\ dec'.inter = dec.inter
      /\ dec'.interIdx = dec.interIdx \/ (pc = "loop" /\ SeekMove /\ dec'.interIdx = dec.interIdx + 1)
  BY AreaKept, PlanKept
<1>2. ~HeaderDoes
  BY <1>1 DEF HeaderDoes, Planned, Planning
<1>3. Live
  BY <1>2, LiveBack DEF Begins, Planning
<1>4. EachIsPart /\ EachPartIs /\ SoughtRead /\ SoughtNow /\ ~dec.lastPart /\ Live' /\ ~TileCall
  BY <1>1, <1>3 DEF Planned, Planning, Live, Modes, Area, TileCall
<1>5. \A i : Wanted(i)' <=> Wanted(i)
  BY <1>1 DEF Wanted
<1>6. \A i : Off(str, i)' = Off(str, i)
  BY DEF Off, MainHeadEnd, MainHeader, Parted, PartItems, Joint
<1>7. EachIsPart' /\ EachPartIs'
  BY <1>1, <1>4, <1>5, <1>6 DEF EachIsPart, EachPartIs
<1>8. \A i : Wanted(i) /\ ReadUpTo(i) => ReadUpTo(i)'
  BY <1>4, ReadStays DEF Wanted
<1>9. AllRead => AllRead'
  BY <1>5, <1>8 DEF AllRead
<1>10. SoughtRead'
  <2> SUFFICES ASSUME NEW i, Wanted(i), NEW k \in 1..dec'.interIdx, dec.inter[k] = Off(str, i)
               PROVE  ReadUpTo(i)' \/ (AtPlanned' /\ k = dec'.interIdx)
    BY <1>1, <1>5, <1>6 DEF SoughtRead
  <2>1. CASE SeekMove /\ k = dec'.interIdx
    BY <2>1 DEF SeekMove, AtPlanned
  <2>2. CASE k \in 1..dec.interIdx
    <3>1. CASE ReadUpTo(i)
      BY <1>8, <3>1
    <3>2. CASE ~ReadUpTo(i)
      <4>1. AtPlanned /\ k = dec.interIdx
        BY <1>4, <2>2, <3>2 DEF SoughtRead
      <4>2. dec'.interIdx = dec.interIdx
        BY <1>1, <4>1 DEF AtPlanned
      <4>3. CASE AtPlanned'
        BY <4>1, <4>2, <4>3
      <4>4. CASE ~AtPlanned'
        <5>1. \E j, n, nb : \E skip \in BOOLEAN : SotDoes(j, n, nb, skip)
          BY <1>4, <4>1, <4>4, AtPlannedStep
        <5>2. PICK j, n, nb : \E skip \in BOOLEAN : SotDoes(j, n, nb, skip)
          BY <5>1
        <5>3. PICK skip \in BOOLEAN : SotDoes(j, n, nb, skip)
          BY <5>2
        <5>4. ~AllRead
          BY <3>2 DEF AllRead
        <5>5. pos = Off(str, i) + 1
          BY <1>4, <4>1, <5>4 DEF SoughtNow
        <5>6. j = i
          BY <5>3, <5>5, SotSought DEF Wanted
        <5>7. tcp'[str.parts[i].tile].tpno = str.parts[i].tp
          BY <5>3, <5>6 DEF SotDoes
        <5>8. str.parts[i].tp \in Nat
          BY PlaceIn DEF Wanted, Base
        <5> QED BY <5>7, <5>8 DEF ReadUpTo
      <4> QED BY <4>3, <4>4
    <3> QED BY <3>1, <3>2
  <2>3. dec.interIdx \in Nat
    BY InterIs
  <2> QED BY <1>1, <2>1, <2>2, <2>3
<1>11. SoughtNow'
  <2> SUFFICES ASSUME AtPlanned'
               PROVE  AllRead' \/ (dec'.interIdx >= 1 /\ pos' = dec'.inter[dec'.interIdx] + 1)
    BY DEF SoughtNow
  <2>1. \/ AtPlanned /\ pos' = pos /\ dec'.interIdx = dec.interIdx
        \/ SeekMove
        \/ pc = "loop" /\ dec.interIdx = Len(dec.inter)
    BY <1>4, AtPlannedStep
  <2>2. CASE AtPlanned /\ pos' = pos /\ dec'.interIdx = dec.interIdx
    BY <1>1, <1>4, <1>9, <2>2 DEF SoughtNow
  <2>3. CASE SeekMove
    <3>1. dec.interIdx \in Nat
      BY InterIs
    <3> QED BY <1>1, <2>3, <3>1 DEF SeekMove
  <2>4. CASE pc = "loop" /\ dec.interIdx = Len(dec.inter)
    BY <1>4, <1>9, <2>4, PlanDone
  <2> QED BY <2>1, <2>2, <2>3, <2>4
<1> QED BY <1>7, <1>10, <1>11

-----------------------------------------------------------------------------
(* The tiles outside of the area of opj_decode.                            *)

\* nothing is joined to a tile any more before the call ends
Stuck == /\ pc \in {"segment", "next", "loop", "tail"}
         /\ InHeader => dec.skip
         /\ dec.canDecode => InHeader
Loose == /\ call.area # Tiles /\ pc \notin {"idle", "finish"}
         /\ dec.inter = <<>> \/ (AllRead /\ Stuck)
Several == Live /\ call.kind = "decode" /\ str.nt > 1
Slack == Several => SoundAll \/ Loose

\* A call of opj_decode for a part of the tiles does not end before the stream, unless
\* every tile-part that was planned was read.
LEMMA EndsNot ==
  ASSUME Base, Modes, Ready, Counting, [Next]_vars, Does, UNCHANGED str, Several, Live',
         call.area # Tiles, pc \notin {"idle", "finish", "new", "main"}, pc' \in {"idle", "finish"}
  PROVE  pc = "after" /\ dec.inter # <<>>
<1>0. Decides /\ Running /\ call.kind = "decode"
  BY DEF Ready, Several, Running
<1>1. CASE UNCHANGED vars \/ Fail \/ RefusedStep \/ HeaderDoes \/ DataCallDoes \/ AfterTileDoes \/ FinishDoes
  BY <1>0, <1>1 DEF vars, Fail, RefusedStep, HeaderDoes, DataCallDoes, AfterTileDoes, FinishDoes
<1>2. CASE Begins
  BY <1>2 DEF Begins, SetAreaDoes, ReadDoes, GetDoes
<1>3. CASE Moves
  BY <1>3 DEF Moves, EnterMove, LeaveMove, SeekMove, OnMove, EndMove, PptMove, SkipMove, JumpMove, NextMove,
                SpotMove, GiveUp
<1>4. CASE \E i, n, nb : \E skip \in BOOLEAN : SotDoes(i, n, nb, skip)
  <2>1. pc' = pc /\ pc = "segment"
    BY <1>4 DEF SotDoes
  <2> QED BY <2>1
<1>5. CASE (\E len, got : SodDoes(len, got)) \/ \E due, yes : CorrDoes(due, yes)
  BY <1>5 DEF SodDoes, CorrDoes
<1>6. CASE \E u, ended : ChooseDoes(u, ended)
  <2>1. PICK u, ended : ChooseDoes(u, ended)
    BY <1>6
  <2>2. pc = "tail" /\ ~dec.canDecode
    BY <1>0, <2>1 DEF ChooseDoes
  <2>3. marker = "EOC" /\ dec.state # "EOC"
    BY <1>0, <2>2 DEF Decides, TailState, Several, Live, Over
  <2>4. dec'.state = "EOC"
    BY <2>1, <2>3 DEF ChooseDoes
  <2> QED BY <2>4 DEF Live, Over
<1>7. CASE \E c, eoc, stray : DecodeDoes(c, eoc, stray)
  BY <1>0, <1>7 DEF DecodeDoes
<1>8. CASE AfterDoes
  <2>1. pc = "after" /\ pc' = "finish"
    BY <1>8 DEF AfterDoes
  <2>2. \/ str.nt = 1 /\ call.whole
        \/ Left = 0 /\ dec.state = "NEOC"
        \/ dec.inter # <<>> /\ dec.interIdx = Len(dec.inter)
        \/ call.nr + 1 = str.nt
    BY <1>8, <2>1 DEF AfterDoes
  <2>3. call.nr + 1 # str.nt
    <3> SUFFICES ASSUME call.nr + 1 = str.nt PROVE FALSE
      OBVIOUS
    <3>1. Cardinality(Given) = str.nt /\ Given \in SUBSET call.area
      BY <1>0, <2>1 DEF Counting, Counted, GivenOK
    <3>2. IsFiniteSet(Tiles) /\ Cardinality(Tiles) = str.nt
      <4>1. str.nt \in Nat \ {0}
        BY NtIs DEF Base
      <4>2. IsFiniteSet(0..(str.nt - 1))
        BY <4>1, FS_Interval
      <4>3. Cardinality(0..(str.nt - 1)) = str.nt
        <5>1. PICK m \in Int : m = str.nt - 1
          BY <4>1
        <5>2. Cardinality(0..m) = IF 0 > m THEN 0 ELSE m - 0 + 1
          BY FS_Interval
        <5> QED BY <4>1, <5>1, <5>2
      <4> QED BY <4>2, <4>3 DEF Tiles
    <3>3. Given \in SUBSET Tiles
      BY DEF Given
    <3>4. Given = Tiles
      BY <3>1, <3>2, <3>3, FS_Subset
    <3>5. call.area \in SUBSET Tiles
      BY DEF Modes, Area
    <3> QED BY <3>1, <3>4, <3>5
  <2> QED BY <2>1, <2>2, <2>3 DEF Several, Live, Over
<1> QED BY <1>1, <1>2, <1>3, <1>4, <1>5, <1>6, <1>7, <1>8 DEF Does, Begins

\* Once all tile-parts of the area were read no tile is decoded any more.
LEMMA StuckStays ==
  ASSUME Base, Modes, Ready, [Next]_vars, Does, UNCHANGED str, Several, Live', AllRead, Stuck
  PROVE  Stuck'
<1>0. Decides /\ ~dec.lastPart
  BY DEF Ready, Several, Live
<1>1. CASE UNCHANGED vars
  BY <1>1 DEF vars, Stuck, InHeader
<1>2. CASE Fail \/ RefusedStep
  BY <1>2 DEF Fail, RefusedStep, Live
<1>3. CASE \/ Begins \/ HeaderDoes \/ DataCallDoes \/ AfterDoes \/ AfterTileDoes \/ FinishDoes
           \/ (\E due, yes : CorrDoes(due, yes)) \/ \E c, eoc, stray : DecodeDoes(c, eoc, stray)
  BY <1>3 DEF Begins, SetAreaDoes, ReadDoes, GetDoes, HeaderDoes, DataCallDoes, AfterDoes, AfterTileDoes,
              FinishDoes, CorrDoes, DecodeDoes, Stuck
<1>4. CASE Moves
  <2>1. CASE EndMove \/ SpotMove \/ GiveUp
    BY <2>1 DEF EndMove, SpotMove, GiveUp, Live, Over
  <2>2. CASE EnterMove \/ JumpMove
    BY <2>2 DEF EnterMove, JumpMove, Stuck
  <2>3. CASE LeaveMove \/ NextMove
    BY <2>3 DEF LeaveMove, NextMove, DecSame, DecNames, Stuck, InHeader
  <2>4. CASE SeekMove \/ OnMove
    BY <1>0, <2>4 DEF SeekMove, OnMove, DecSame, DecNames, Stuck, InHeader, Base, OnTrack, Placing
  <2>5. CASE PptMove
    <3>1. marker = "SOD"
      BY <1>0, <2>5 DEF PptMove, Stuck, InHeader, Base, OnTrack, Heading
    <3> QED BY <2>5, <3>1 DEF PptMove
  <2>6. CASE SkipMove
    BY <2>6 DEF SkipMove, Stuck, InHeader
  <2> QED BY <1>4, <2>1, <2>2, <2>3, <2>4, <2>5, <2>6 DEF Moves
<1>5. CASE \E i, n, nb : \E skip \in BOOLEAN : SotDoes(i, n, nb, skip)
  <2>1. PICK i, n, nb : \E skip \in BOOLEAN : SotDoes(i, n, nb, skip)
    BY <1>5
  <2>2. PICK skip \in BOOLEAN : SotDoes(i, n, nb, skip)
    BY <2>1
  <2> DEFINE t == str.parts[i].tile
  <2>3. (~skip => Wanted(i)) /\ str.parts[i].tp = tcp[t].tpno + 1 /\ t \in Tiles
    <3>1. i \in DOMAIN str.parts
      BY <2>2, Zenon DEF SotDoes
    <3>2. call.kind # "tile"
      BY DEF Several
    <3>3. /\ skip <=> str.parts[i].tile \notin call.area
          /\ str.parts[i].tile \in Tiles
          /\ ~skip \/ call.kind # "tile" => str.parts[i].tp = tcp[str.parts[i].tile].tpno + 1
      BY <2>2, SotWanted
    <3> QED BY <3>1, <3>2, <3>3 DEF Wanted
  <2>4. ~ReadUpTo(i)
    BY <2>3 DEF ReadUpTo, Modes, Numeric
  <2>5. skip
    BY <2>3, <2>4 DEF AllRead
  <2>6. InHeader' /\ dec'.skip = skip /\ pc' = "segment"
    <3>1. InHeader'
      BY <2>2, SotHeads
    <3>2. dec'.skip = skip
      BY <2>2, Zenon DEF SotDoes
    <3> QED BY <3>1, <3>2 DEF InHeader
  <2> QED BY <2>5, <2>6 DEF Stuck
<1>6. CASE \E len, got : SodDoes(len, got)
  <2>1. pc = "segment" /\ marker = "SOD" /\ ~dec.skip
    BY <1>6 DEF SodDoes
  <2> QED BY <2>1 DEF Stuck, InHeader
<1>7. CASE \E u, ended : ChooseDoes(u, ended)
  <2>1. PICK u, ended : ChooseDoes(u, ended)
    BY <1>7
  <2>2. pc = "tail" /\ ~dec.canDecode
    BY <2>1 DEF ChooseDoes, Stuck, InHeader
  <2>3. marker = "EOC" /\ dec.state # "EOC"
    BY <1>0, <2>2 DEF Decides, TailState, Several, Live, Over
  <2>4. dec'.state = "EOC"
    BY <2>1, <2>3 DEF ChooseDoes
  <2> QED BY <2>4 DEF Live, Over
<1> QED BY <1>1, <1>2, <1>3, <1>4, <1>5, <1>6, <1>7 DEF Does, Begins

\* Passing over a tile-part, when it was not planned or all that were planned were read.
LEMMA PassedLoose ==
  ASSUME Base, Modes, Planned, Does, UNCHANGED str, Several, NEW t, Passed(t)
  PROVE  Loose'
<1>1. PICK i, n, nb : SotDoes(i, n, nb, TRUE) /\ str.parts[i].tile = t
  BY DEF Passed
<1>2. /\ pc = "segment" /\ pc' = "segment" /\ marker = "SOT" /\ UNCHANGED call /\ dec'.skip = TRUE
      /\ dec'.inter = dec.inter /\ i \in DOMAIN str.parts
      /\ DecSame({"cur", "lastPart", "sotLen", "canDecode", "state", "skip", "tlm"})
  <2>1. /\ pc = "segment" /\ pc' = pc /\ marker = "SOT" /\ UNCHANGED call /\ dec'.skip = TRUE
        /\ i \in DOMAIN str.parts
        /\ DecSame({"cur", "lastPart", "sotLen", "canDecode", "state", "skip", "tlm"})
    BY <1>1, Zenon DEF SotDoes
  <2> QED BY <2>1 DEF DecSame, DecNames
<1>3. t \in Tiles \ call.area
  BY <1>1, SotWanted
<1>4. call'.area # Tiles'
  BY <1>2, <1>3 DEF Tiles
<1>5. InHeader' /\ pos = Off(str, i) + 1
  BY <1>1, SotHeads
<1>6. CASE dec.inter = <<>>
  BY <1>2, <1>4, <1>6 DEF Loose
<1>7. CASE dec.inter # <<>>
  <2>1. EachIsPart /\ SoughtNow /\ AtPlanned
    BY <1>2, <1>7 DEF Planned, Planning, Several, AtPlanned
  <2>2. AllRead
    <3> SUFFICES ASSUME ~AllRead PROVE FALSE
      OBVIOUS
    <3>1. dec.interIdx >= 1 /\ pos = dec.inter[dec.interIdx] + 1
      BY <2>1 DEF SoughtNow
    <3>2. dec.interIdx \in DOMAIN dec.inter
      BY <3>1, InterIs
    <3>3. PICK j : Wanted(j) /\ dec.inter[dec.interIdx] = Off(str, j)
      BY <2>1, <3>2 DEF EachIsPart
    <3>4. i = j
      BY <1>1, <3>1, <3>3, SotSought DEF Wanted
    <3> QED BY <1>1, <1>3, <3>3, <3>4 DEF Wanted
  <2>3. ~TileCall
    BY DEF Several, TileCall
  <2>4. \A j : Wanted(j)' => Wanted(j) /\ ReadUpTo(j)'
    BY <1>2, <2>2, <2>3, ReadStays DEF Wanted, AllRead
  <2>5. AllRead'
    BY <2>4 DEF AllRead
  <2>6. Stuck'
    BY <1>2, <1>5 DEF Stuck
  <2> QED BY <1>2, <1>4, <2>5, <2>6 DEF Loose
<1> QED BY <1>6, <1>7

LEMMA StepSlack ==
  ASSUME Base, Modes, Ready, Once(str), Trusted, Planned, Counting, Slack, [Next]_vars, Does,
         UNCHANGED str, Several'
  PROVE  SoundAll' \/ Loose'
<1>0. call.kind = "decode" /\ Tiles' = Tiles /\ Live' /\ str.nt > 1 /\ ~\E u : GetDoes(u)
  BY KindStays DEF Several, Tiles, GetDoes
<1>1. CASE HeaderDoes
  <2>1. NotCalled /\ UNCHANGED tcp
    BY <1>1 DEF HeaderDoes, Modes, Called
  <2>2. \A t \in Tiles : Exact(t)
    BY <2>1, FreshSound
  <2> QED BY <1>0, <2>1, <2>2 DEF Exact, SoundAll, Sound
<1> SUFFICES ASSUME ~HeaderDoes PROVE SoundAll' \/ Loose'
  BY <1>1
<1>2. Live /\ Several
  BY <1>0, LiveBack DEF Several
<1>3. CASE \E t : Passed(t)
  BY <1>2, <1>3, PassedLoose
<1>4. CASE SoundAll /\ ~\E t : Passed(t)
  <2> SUFFICES ASSUME NEW t \in Tiles PROVE Sound(t)'
    BY <1>0 DEF SoundAll
  <2>1. Sound(t) /\ ~Restarted /\ dec.tileInd \in {NoTile, t} /\ HeadData
    BY <1>0, <1>2, <1>4 DEF SoundAll, Restarted, Modes, Area, Trusted, Live
  <2> QED BY <1>0, <1>2, <1>4, <2>1, SoundStays
<1>5. CASE ~SoundAll /\ ~\E t : Passed(t)
  <2>1. Loose
    BY <1>2, <1>5 DEF Slack
  <2>2. ~Begins
    BY <1>0, <2>1 DEF Begins, SetAreaDoes, ReadDoes, Loose
  <2>3. call'.area = call.area /\ dec'.inter = dec.inter
    BY <2>2, AreaKept, PlanKept
  <2>4. pc \notin {"new", "main"}
    <3> SUFFICES ASSUME pc \in {"new", "main"} PROVE FALSE
      OBVIOUS
    <3>1. NotCalled
      BY DEF Modes, Called
    <3> QED BY <1>5, <3>1, FreshSound DEF SoundAll, Sound
  <2>5. dec.inter # <<>> => AllRead /\ Stuck
    BY <2>1 DEF Loose
  <2>6. pc' \notin {"idle", "finish"}
    <3> SUFFICES ASSUME pc' \in {"idle", "finish"} PROVE FALSE
      OBVIOUS
    <3>1. pc = "after" /\ dec.inter # <<>>
      BY <1>0, <1>2, <2>1, <2>4, EndsNot DEF Loose
    <3> QED BY <2>5, <3>1 DEF Stuck
  <2>7. dec.inter # <<>> => AllRead' /\ Stuck'
    <3> SUFFICES ASSUME dec.inter # <<>> PROVE AllRead' /\ Stuck'
      OBVIOUS
    <3>1. Stuck'
      BY <1>0, <1>2, <2>5, StuckStays
    <3>2. \A j : Wanted(j)' => Wanted(j) /\ ReadUpTo(j)'
      BY <1>0, <2>3, <2>5, ReadStays DEF Wanted, AllRead, TileCall
    <3> QED BY <3>1, <3>2 DEF AllRead
  <2> QED BY <1>0, <2>1, <2>3, <2>6, <2>7 DEF Loose
<1> QED BY <1>3, <1>4, <1>5

LEMMA StepSoundArea ==
  ASSUME Base, Modes, Ready, Once(str), Trusted, TileMode, Slack, [Next]_vars, Does, UNCHANGED str
  PROVE  SoundArea'
<1> SUFFICES ASSUME Live', ~(TileCall' /\ pc' \in {"idle", "finish"}), NEW t \in call'.area
             PROVE  Sound(t)'
  BY DEF SoundArea
<1>0. Tiles' = Tiles /\ call'.kind = call.kind /\ (TileCall' <=> TileCall) /\ ~dec.lastPart /\ HeadData
  BY KindStays, LastPartStays DEF Tiles, TileCall, Live, Base, Trusted
<1>1. t \in Tiles
  <2>1. Modes'
    BY StepModes
  <2> QED BY <1>0, <2>1 DEF Modes, Area
<1>2. CASE \E u : GetDoes(u)
  <2>1. PICK u : GetDoes(u)
    BY <1>2
  <2>2. TileCall /\ pc = "idle"
    BY <2>1 DEF GetDoes, TileCall
  <2>3. tcp[t].data = <<>>
    BY <1>0, <1>1, <2>2 DEF TileMode, Emptied, Empty
  <2>4. tcp'[t].data = <<>> /\ tcp'[t].tpno = -1
    BY <1>1, <2>1, <2>3 DEF GetDoes, TcpKept, TcpSame, TcpNames
  <2>5. Joined(str, t, tcp'[t].tpno + 1) = <<>>
    <3>1. tcp'[t].tpno + 1 = 0
      BY <2>4
    <3> QED BY <3>1, JoinedNone
  <2> QED BY <2>4, <2>5 DEF Sound, Exact
<1>3. CASE HeaderDoes
  <2>1. NotCalled /\ UNCHANGED tcp
    BY <1>3 DEF HeaderDoes, Modes, Called
  <2>2. \A v \in Tiles : Exact(v)
    BY <2>1, FreshSound
  <2> QED BY <1>1, <2>1, <2>2 DEF Exact, Sound
<1> SUFFICES ASSUME ~HeaderDoes, ~\E u : GetDoes(u) PROVE Sound(t)'
  BY <1>2, <1>3
<1>4. Live
  BY LiveBack
<1>5. ~Restarted
  BY DEF Restarted
<1>6. CASE NotCalled
  <2>1. Sound(t)
    BY <1>1, <1>6, FreshSound DEF Sound
  <2>2. pc \in {"new", "main", "idle"}
    BY <1>4, <1>6 DEF Modes, Fresh, Live
  <2>3. ~\E i, n, nb : \E skip \in BOOLEAN : SotDoes(i, n, nb, skip)
    BY <2>2 DEF SotDoes
  <2>4. tcp'[t].tpno = tcp[t].tpno
    BY <1>1, <1>5, <2>3, TpnoStays DEF SotOf
  <2>5. ~\E len, got : SodDoes(len, got)
    BY <2>2 DEF SodDoes
  <2>6. Exact(t)
    BY <1>1, <1>6, FreshSound
  <2>7. tcp'[t].data = tcp[t].data
    <3>1. CASE DataQuiet
      BY <1>1, <3>1 DEF DataQuiet
    <3>2. CASE Busy
      BY <1>1, <1>5, <2>2, <2>5, <3>2 DEF Busy, RefusedStep, SetAreaDoes, ReadDoes, Restarted, DecodeDoes, AfterDoes, AfterTileDoes
    <3> QED BY <3>1, <3>2, QuietSteps
  <2> QED BY <2>4, <2>6, <2>7 DEF Exact, Sound
<1>7. CASE ~NotCalled /\ ~Begins
  <2>1. call'.area = call.area
    BY <1>7, AreaKept
  <2>2. ~(TileCall /\ pc \in {"idle", "finish"})
    <3> SUFFICES ASSUME TileCall, pc \in {"idle", "finish"} PROVE pc' \in {"idle", "finish"}
      BY <1>0
    <3>1. UNCHANGED vars => pc' = pc
      BY DEF vars
    <3>2. ~Fail /\ ~RefusedStep
      BY DEF Fail, RefusedStep, Live
    <3>3. (FinishDoes => pc' = "idle") /\ ~DataCallDoes /\ ~AfterDoes /\ ~AfterTileDoes
      BY DEF FinishDoes, DataCallDoes, AfterDoes, AfterTileDoes, TileCall
    <3>4. ~Moves
      BY DEF Moves, EnterMove, LeaveMove, SeekMove, OnMove, EndMove, PptMove, SkipMove, JumpMove, NextMove,
             SpotMove, GiveUp
    <3>5. ~\E i, n, nb : \E skip \in BOOLEAN : SotDoes(i, n, nb, skip)
      BY DEF SotDoes
    <3>6. (~\E len, got : SodDoes(len, got)) /\ ~\E due, yes : CorrDoes(due, yes)
      BY DEF SodDoes, CorrDoes
    <3>7. (~\E u, ended : ChooseDoes(u, ended)) /\ ~\E c, eoc, stray : DecodeDoes(c, eoc, stray)
      BY DEF ChooseDoes, DecodeDoes
    <3> QED BY <1>7, <3>1, <3>2, <3>3, <3>4, <3>5, <3>6, <3>7 DEF Does, Begins
  <2> QED BY <1>4, <1>7, <2>1, <2>2, CallSound
<1>8. CASE ~NotCalled /\ Begins
  <2>1. Sound(t)
    <3>1. CASE \E area : SetAreaDoes(area)
      <4>1. call.kind = "decode" /\ pc = "idle"
        BY <3>1 DEF SetAreaDoes
      <4>2. CASE str.nt > 1
        BY <1>1, <1>4, <4>1, <4>2 DEF Slack, Several, Loose, SoundAll
      <4>3. CASE ~(str.nt > 1)
        <5>1. Tiles = {0}
          <6>1. str.nt = 1
            BY <4>3, NtIs DEF Base
          <6> QED BY <6>1 DEF Tiles
        <5>2. t \in call.area
          BY <1>1, <5>1 DEF Modes, Area
        <5> QED BY <1>4, <4>1, <5>2 DEF Trusted, SoundArea, TileCall
      <4> QED BY <4>2, <4>3
    <3>2. CASE \E area : ReadDoes(area)
      <4>1. PICK area : ReadDoes(area)
        BY <3>2
      <4>2. call.kind = "header" /\ call'.area = area /\ (call.n > 0 => call.area = area)
        BY <4>1 DEF ReadDoes, AreaDoes
      <4>3. call.n > 0
        BY <1>8 DEF Modes, Numeric, NotCalled
      <4> QED BY <1>4, <4>2, <4>3 DEF Trusted, SoundArea, TileCall
    <3> QED BY <1>8, <3>1, <3>2 DEF Begins
  <2>2. pc = "idle" /\ call.kind # "tile"
    BY <1>8 DEF Begins, SetAreaDoes, ReadDoes
  <2>3. dec.tileInd = NoTile
    BY <2>2 DEF Modes, Area
  <2>4. ~Passed(t)
    BY <2>2 DEF Passed, SotDoes
  <2> QED BY <1>0, <1>1, <1>4, <1>5, <2>1, <2>3, <2>4, SoundStays
<1> QED BY <1>6, <1>7, <1>8

-----------------------------------------------------------------------------
(* The TLM segment, and the index built from it.                           *)

\* the tile-parts of a tile are numbered in the order they are in
InOrder(s) == \A i \in DOMAIN s.parts :
    s.parts[i].tp = Cardinality({j \in 1..(i - 1) : s.parts[j].tile = s.parts[i].tile})

\* a TLM segment lists every tile-part, in order
Listed(s) == Len(s.tlm) = Len(s.parts) /\ (\A i \in DOMAIN s.tlm : s.tlm[i] = i) /\ InOrder(s)

Numbers(s) == Once(s) /\ (s.tlm # <<>> => Listed(s))

\* in each tile, the numbers are those from 0 on
NumberedFrom0(t) ==
    /\ PartsOf(str, t) \in SUBSET Int /\ IsFiniteSet(PartsOf(str, t))
    /\ Cardinality(PartsOf(str, t)) \in Nat
    /\ \A i \in PartsOf(str, t) : str.parts[i].tp = Rank(PartsOf(str, t), i)
    /\ \A i \in PartsOf(str, t) : str.parts[i].tp \in 0..(Cardinality(PartsOf(str, t)) - 1)
    /\ \A k \in 0..(Cardinality(PartsOf(str, t)) - 1) : \E i \in PartsOf(str, t) : str.parts[i].tp = k

LEMMA PartsRanked ==
  ASSUME Base, Listed(str), NEW t
  PROVE  NumberedFrom0(t)
<1> DEFINE P == PartsOf(str, t)
<1>1. DOMAIN str.parts = 1..Len(str.parts) /\ Len(str.parts) \in Nat
  BY StreamLaid DEF Base
<1>2. P \in SUBSET (1..Len(str.parts))
  BY <1>1 DEF PartsOf
<1>3. IsFiniteSet(1..Len(str.parts))
  BY <1>1, FS_Interval
<1>4. P \in SUBSET Int /\ IsFiniteSet(P)
  BY <1>2, <1>3, <1>1, FS_Subset
<1>5. ASSUME NEW i \in P PROVE str.parts[i].tp = Rank(P, i)
  <2>1. i \in 1..Len(str.parts) /\ i \in DOMAIN str.parts /\ str.parts[i].tile = t
    BY <1>1 DEF PartsOf
  <2>2. {j \in 1..(i - 1) : str.parts[j].tile = str.parts[i].tile} = {y \in P : y < i}
    BY <2>1, <1>1 DEF PartsOf
  <2> QED BY <2>1, <2>2 DEF Listed, InOrder, Rank
<1>6. /\ Cardinality(P) \in Nat
      /\ \A x \in P : Rank(P, x) \in 0..(Cardinality(P) - 1)
      /\ \A k \in 0..(Cardinality(P) - 1) : \E x \in P : Rank(P, x) = k
  <2> HIDE DEF P
  <2> QED BY <1>4, Ranked
<1> HIDE DEF P
<1>7. \A k \in 0..(Cardinality(P) - 1) : \E i \in P : str.parts[i].tp = k
  BY <1>5, <1>6
<1> QED BY <1>4, <1>5, <1>6, <1>7 DEF NumberedFrom0, P

LEMMA TlmPosIs ==
  ASSUME Base, Listed(str)
  PROVE  \A i \in DOMAIN str.parts : TlmPos(str, i) = Off(str, i)
<1> DEFINE N == Len(str.parts)
           Pos(i) == TlmPos(str, i)
           Q == {n \in Nat : n + 1 <= N => Pos(n + 1) = Off(str, n + 1)}
           f == [k \in 1..N |-> PartLen(str, k)]
           g(i) == [k \in 1..(i - 1) |-> PartLen(str, str.tlm[k])]
<1>1. /\ N \in Nat /\ DOMAIN str.parts = 1..N /\ Laid(str)
      /\ DOMAIN str.tlm = 1..N /\ \A k \in 1..N : str.tlm[k] = k
      /\ MainHeadEnd(str) + 0 = MainHeadEnd(str)
  <2>1. N \in Nat /\ DOMAIN str.parts = 1..N /\ Laid(str) /\ StreamOK(str)
    BY StreamLaid DEF Base
  <2>2. str.tlm \in Seq(DOMAIN str.parts) /\ Len(str.tlm) = N
    BY <2>1 DEF StreamOK, Listed
  <2>3. DOMAIN str.tlm = 1..N
    BY <2>2
  <2>4. MainHeadEnd(str) \in Nat
    BY <2>1, MainHeaderIs DEF MainHeadEnd
  <2> QED BY <2>1, <2>3, <2>4 DEF Listed
<1>2. \A i \in 1..N : PartLen(str, i) \in Nat
  BY <1>1, PartSizes DEF Base
<1>3. \A i \in 1..N : Pos(i) = MainHeadEnd(str) + SumFunctionOnSet(f, 1..(i - 1))
  <2> SUFFICES ASSUME NEW i \in 1..N
               PROVE  Pos(i) = MainHeadEnd(str) + SumFunctionOnSet(f, 1..(i - 1))
    OBVIOUS
  <2>1. IsFiniteSet(1..(i - 1))
    BY <1>1, FS_Interval
  <2>2. \A k \in 1..(i - 1) : g(i)[k] = f[k]
    BY <1>1
  <2>3. Pos(i) = MainHeadEnd(str) + SumFunctionOnSet(g(i), 1..(i - 1))
    BY DEF TlmPos
  <2> HIDE DEF f, g
  <2>4. SumFunctionOnSet(g(i), 1..(i - 1)) = SumFunctionOnSet(f, 1..(i - 1))
    BY <2>1, <2>2, SumAgree
  <2> HIDE DEF Pos
  <2> QED BY <2>3, <2>4
<1>4. \A n \in 1..N : f[n] = PartLen(str, n)
  OBVIOUS
<1> HIDE DEF f, g
<1>5. 0 \in Q
  <2> SUFFICES ASSUME 1 <= N PROVE Pos(1) = Off(str, 1)
    BY DEF Q
  <2>1. 1..(1 - 1) = {}
    OBVIOUS
  <2>2. Pos(1) = MainHeadEnd(str) + SumFunctionOnSet(f, {})
    BY <1>1, <1>3, <2>1
  <2>3. Joint(Parted(str), 0) = <<>>
    <3>1. 1 \in DOMAIN str.parts /\ StreamOK(str)
      BY <1>1, StreamLaid DEF Base
    <3>2. PartItems(str, 1) \in Seq(PartItem(str))
      BY <3>1, PartItemsAre
    <3>3. \A k \in 1..(0 + 1) : Parted(str)[k] \in Seq(PartItem(str))
      BY <1>1, <3>1, <3>2 DEF Parted
    <3> HIDE DEF Q, Pos
    <3> QED BY <3>3, JointStep
  <2>4. Off(str, 1) = MainHeadEnd(str) + 0
    <3>1. 1 - 1 = 0 /\ Len(<<>>) = 0
      OBVIOUS
    <3> QED BY <2>3, <3>1 DEF Off
  <2> HIDE DEF Pos
  <2> QED BY <2>2, <2>4, SumEmpty
<1>6. ASSUME NEW n \in Nat, n \in Q PROVE n + 1 \in Q
  <2> SUFFICES ASSUME (n + 1) + 1 <= N PROVE Pos((n + 1) + 1) = Off(str, (n + 1) + 1)
    BY DEF Q
  <2>1. n + 1 \in 1..N /\ (n + 1) + 1 \in 1..N
    BY <1>1
  <2>2. Pos(n + 1) = Off(str, n + 1)
    BY <1>6, <2>1 DEF Q
  <2> DEFINE S == 1..(n + 1)
             T == 1..n
  <2>3. 1..(((n + 1) + 1) - 1) = S /\ 1..((n + 1) - 1) = T /\ S \ {n + 1} = T /\ n + 1 \in S
    OBVIOUS
  <2>4. IsFiniteSet(S) /\ IsFiniteSet(T)
    BY FS_Interval
  <2>5. \A x \in S : x \in 1..N /\ f[x] \in Int
    BY <1>1, <1>2, <1>4, <2>1
  <2>6. \A x \in T : f[x] \in Int
    BY <2>5
  <2> HIDE DEF S, T, Pos
  <2>7. SumFunctionOnSet(f, S) = f[n + 1] + SumFunctionOnSet(f, T)
    BY <2>3, <2>4, <2>5, SumRemove
  <2>8. SumFunctionOnSet(f, T) \in Int
    BY <2>4, <2>6, SumType
  <2>9. Pos((n + 1) + 1) = MainHeadEnd(str) + SumFunctionOnSet(f, S)
    BY <1>3, <2>1, <2>3
  <2>10. Pos(n + 1) = MainHeadEnd(str) + SumFunctionOnSet(f, T)
    BY <1>3, <2>1, <2>3
  <2>11. Off(str, (n + 1) + 1) = Off(str, n + 1) + PartLen(str, n + 1)
    BY <1>1, <2>1 DEF Laid
  <2>12. f[n + 1] = PartLen(str, n + 1) /\ PartLen(str, n + 1) \in Nat /\ MainHeadEnd(str) \in Int
    <3>1. MainHeadEnd(str) \in Int
      BY MainHeaderIs, StreamLaid DEF Base, MainHeadEnd
    <3> QED BY <1>2, <1>4, <2>1, <3>1
  <2> QED BY <2>2, <2>7, <2>8, <2>9, <2>10, <2>11, <2>12
<1>7. \A n \in Nat : n \in Q
  <2> HIDE DEF Q
  <2>1. Q \in SUBSET Nat
    BY DEF Q
  <2> QED BY <1>5, <1>6, <2>1, SetInduction
<1>8. ASSUME NEW i \in 1..N PROVE Pos(i) = Off(str, i)
  <2>1. i - 1 \in Nat /\ (i - 1) + 1 = i
    BY <1>1
  <2>2. i - 1 \in Q
    BY <1>7, <2>1
  <2> HIDE DEF Pos
  <2> QED BY <2>1, <2>2, <1>1 DEF Q
<1> QED BY <1>1, <1>8

\* The index of a tile: how many tile-parts it has, and where each of them stands.
IndexedAt(e, t) ==
    /\ e.nbTps = Cardinality(PartsOf(str, t)) /\ DOMAIN e.start = 0..(e.nbTps - 1)
    /\ \A i \in PartsOf(str, t) : e.start[str.parts[i].tp] = Off(str, i)

\* The index over the entries S of the TLM segment.
IndexOf(S) ==
    LET nth(k) == CHOOSE n \in S : Cardinality({m \in S : m < n}) = k
    IN  [nbTps |-> Cardinality(S), alloc |-> TRUE,
         start |-> [k \in 0..(Cardinality(S) - 1) |-> TlmPos(str, nth(k))]]

LEMMA TlmIndexIs ==
  ASSUME Base, Listed(str), NEW t
  PROVE  IndexedAt(TlmIndex(t), t)
<1> DEFINE P == PartsOf(str, t)
           nth(k) == CHOOSE n \in P : Cardinality({m \in P : m < n}) = k
           e == [nbTps |-> Cardinality(P), alloc |-> TRUE,
                 start |-> [k \in 0..(Cardinality(P) - 1) |-> TlmPos(str, nth(k))]]
<1>1. {n \in DOMAIN str.tlm : str.parts[str.tlm[n]].tile = t} = P
  <2>1. str.tlm \in Seq(DOMAIN str.parts) /\ Len(str.tlm) = Len(str.parts)
        /\ DOMAIN str.parts = 1..Len(str.parts)
    BY StreamLaid DEF Base, StreamOK, Listed
  <2>2. DOMAIN str.tlm = DOMAIN str.parts /\ \A n \in DOMAIN str.tlm : str.tlm[n] = n
    BY <2>1 DEF Listed
  <2> QED BY <2>2 DEF PartsOf
<1>2. TlmIndex(t) = e
  <2> DEFINE of == {n \in DOMAIN str.tlm : str.parts[str.tlm[n]].tile = t}
  <2>1. TlmIndex(t) = IndexOf(of)
    BY Zenon DEF TlmIndex, IndexOf
  <2>2. IndexOf(P) = e
    BY Zenon DEF IndexOf
  <2> HIDE DEF e, P, nth, of
  <2>3. of = P
    BY <1>1 DEF of
  <2> QED BY <2>1, <2>2, <2>3, Zenon
<1>3. NumberedFrom0(t)
  BY PartsRanked
<1>4. \A x, y \in P : Rank(P, x) = Rank(P, y) => x = y
  <2> HIDE DEF P
  <2>1. P \in SUBSET Int /\ IsFiniteSet(P)
    BY <1>3 DEF NumberedFrom0, P
  <2> QED BY <2>1, Ranked
<1>5. ASSUME NEW i \in P
      PROVE  e.start[str.parts[i].tp] = Off(str, i)
  <2>1. str.parts[i].tp = Rank(P, i) /\ str.parts[i].tp \in 0..(Cardinality(P) - 1)
    BY <1>3 DEF NumberedFrom0
  <2>2. nth(str.parts[i].tp) = i
    <3> HIDE DEF P
    <3>1. \A n \in P : Cardinality({m \in P : m < n}) = str.parts[i].tp <=> n = i
      BY <1>4, <2>1 DEF Rank
    <3> QED BY <3>1
  <2>3. TlmPos(str, i) = Off(str, i)
    BY TlmPosIs DEF PartsOf
  <2> HIDE DEF nth
  <2> QED BY <2>1, <2>2, <2>3
<1> HIDE DEF nth
<1>6. e.nbTps = Cardinality(P) /\ DOMAIN e.start = 0..(e.nbTps - 1)
  OBVIOUS
<1> HIDE DEF e
<1> QED BY <1>2, <1>5, <1>6 DEF IndexedAt

\* The index that was built from the TLM segment stays right: it tells how many tile-parts a
\* tile has, and where each of them stands.
HasIndex(t) ==
    /\ index[t].nbTps = Cardinality(PartsOf(str, t))
    /\ \A i \in PartsOf(str, t) : StartPos(t, str.parts[i].tp) = Off(str, i)
Indexed ==
    /\ dec.tlm => Listed(str)
    /\ dec.tlm /\ pc \notin {"new", "main", "failed"} => \A t \in Tiles : HasIndex(t)

LEMMA InitIndexed ==
  ASSUME Init, Numbers(str)
  PROVE  Indexed
<1>1. dec.tlm = (str.tlm # <<>>) /\ pc = "new"
  BY DEF Init
<1> QED BY <1>1 DEF Indexed, Numbers

HeaderRead == HeaderDoes /\ ReadHeader
SotRead == \E i, n, nb : \E skip \in BOOLEAN : SotDoes(i, n, nb, skip)

\* Only reading the main header and an SOT segment change the index.
LEMMA SameIndex ==
  ASSUME Base, Does, ~HeaderRead, ~SotRead
  PROVE  /\ dec'.tlm = dec.tlm
         /\ pc' \notin {"new", "main", "failed"} => index' = index /\ pc \notin {"new", "main", "failed"}
<1> DEFINE Goal == /\ dec'.tlm = dec.tlm
                   /\ pc' \notin {"new", "main", "failed"} =>
                        index' = index /\ pc \notin {"new", "main", "failed"}
<1> SUFFICES Goal
  OBVIOUS
<1>1. CASE UNCHANGED vars
  BY <1>1 DEF vars
<1>2. CASE Fail
  BY <1>2 DEF Fail
<1>3. CASE RefusedStep
  BY <1>3 DEF RefusedStep
<1>4. CASE \E area : SetAreaDoes(area)
  BY <1>4 DEF SetAreaDoes, DecSame, DecNames
<1>5. CASE \E t : GetDoes(t)
  BY <1>5 DEF GetDoes, DecSame, DecNames
<1>6. CASE \E area : ReadDoes(area)
  BY <1>6 DEF ReadDoes
<1>7. CASE DataCallDoes
  BY <1>7 DEF DataCallDoes
<1>8. CASE Moves /\ TcpKept({"ppt"}) /\ UNCHANGED <<str, items, index, call, out>>
  BY <1>8 DEF Moves, EnterMove, LeaveMove, SeekMove, OnMove, EndMove, PptMove, SkipMove, JumpMove,
              NextMove, SpotMove, GiveUp, DecSame, DecNames
<1>9. CASE \E len, got : SodDoes(len, got)
  <2> PICK len, got : SodDoes(len, got)
    BY <1>9
  <2>1. pc = "segment" /\ DecSame({"sotLen", "state"}) /\ index' = index
    BY Zenon DEF SodDoes
  <2> QED BY <2>1 DEF DecSame, DecNames
<1>10. CASE \E due, yes : CorrDoes(due, yes)
  BY <1>10 DEF CorrDoes, DecSame, DecNames
<1>11. CASE \E t, ended : ChooseDoes(t, ended)
  BY <1>11 DEF ChooseDoes, DecSame, DecNames
<1>12. CASE \E c, eoc, stray : DecodeDoes(c, eoc, stray)
  BY <1>12 DEF DecodeDoes, DecSame, DecNames
<1>13. CASE AfterDoes
  BY <1>13 DEF AfterDoes
<1>14. CASE AfterTileDoes
  BY <1>14 DEF AfterTileDoes
<1>15. CASE FinishDoes
  BY <1>15 DEF FinishDoes
<1> HIDE DEF Goal
<1> QED BY <1>1, <1>2, <1>3, <1>4, <1>5, <1>6, <1>7, <1>8, <1>9, <1>10, <1>11, <1>12, <1>13, <1>14, <1>15 DEF Does, SotRead, HeaderRead

LEMMA HeaderIndexes ==
  ASSUME Full, ReadHeader, HeaderDoes
  PROVE  /\ dec'.tlm => dec.tlm
         /\ pc' = "idle" /\ dec'.tlm => index' = [t \in Tiles |-> TlmIndex(t)]
<1>0. DecFull /\ pc' # "failed"
  BY DEF Full, HeaderDoes
<1>1. CASE ReadSoc
  <2>1. dec' = [dec EXCEPT !.state = "MHSIZ"] /\ pc' = "main"
    BY <1>0, <1>1 DEF ReadSoc, Fail
  <2> QED BY <1>0, <2>1 DEF DecFull, DecNames
<1>2. CASE ReadMainMarker
  <2>1. dec' = [dec EXCEPT !.seen = @ \cup {marker}, !.state = "MH"] /\ pc' = "main"
    BY <1>0, <1>2, Zenon DEF ReadMainMarker, Fail
  <2> QED BY <1>0, <2>1 DEF DecFull, DecNames
<1>3. CASE MainHeaderDone
  <2> DEFINE valid == dec.tlm /\ \A t \in Tiles : TlmIndex(t).nbTps > 0
  <2>1. /\ dec' = [dec EXCEPT !.state = "TPHSOT", !.tlm = valid]
        /\ index' = IF valid THEN [t \in Tiles |-> TlmIndex(t)] ELSE index
    BY <1>0, <1>3, Zenon DEF MainHeaderDone, Fail
  <2>2. valid => dec.tlm
    OBVIOUS
  <2> HIDE DEF valid
  <2>3. dec'.tlm = valid
    BY <1>0, <2>1 DEF DecFull, DecNames
  <2> QED BY <2>1, <2>2, <2>3, Zenon
<1> QED BY <1>1, <1>2, <1>3 DEF ReadHeader

\* The position of a tile-part that is read is the one its index has.
LEMMA SotIndexes ==
  ASSUME Base, Once(str), NEW i, NEW n, NEW nb, NEW skip \in BOOLEAN, SotDoes(i, n, nb, skip),
         NEW t \in Tiles, HasIndex(t), dec'.tlm, UNCHANGED str
  PROVE  HasIndex(t)'
<1> DEFINE p == str.parts[i]
           e == index[t]
           new == index'[t]
<1>1. CASE t # p.tile
  <2>1. index'[t] = index[t]
    BY <1>1, Zenon DEF SotDoes
  <2> QED BY <2>1 DEF HasIndex, StartPos, PartsOf, Off, Parted
<1>2. CASE t = p.tile
  <2>1. i \in DOMAIN str.parts /\ p.tile \in Tiles /\ index'[p.tile] = SotIndexed(p, n, pos - 1, dec'.tlm)
    BY Zenon DEF SotDoes
  <2>2. pos = Off(str, i) + 1 /\ Off(str, i) \in Nat
    BY <2>1, SotHeads, PartSizes DEF Base
  <2>3. /\ new.nbTps = e.nbTps
        /\ new.start = IF p.tp < e.nbTps THEN Recorded(e.start, p.tp, pos - 1) ELSE e.start
    BY <1>2, <2>1 DEF SotIndexed
  <2>4. pos - 1 = Off(str, i)
    BY <2>2
  <2>5. ASSUME NEW j \in PartsOf(str, t)
        PROVE  StartPos(t, str.parts[j].tp)' = Off(str, j)
    <3>1. StartPos(t, str.parts[j].tp) = Off(str, j)
      BY DEF HasIndex
    <3>2. j \in DOMAIN str.parts /\ str.parts[j].tile = t
      BY DEF PartsOf
    <3>3. Off(str, j) \in Nat /\ Off(str, j) > 0
      BY <3>2, StreamLaid DEF Base
    <3>4. str.parts[j].tp \in DOMAIN e.start /\ e.start[str.parts[j].tp] = Off(str, j)
      BY <3>1, <3>3 DEF StartPos
    <3>5. CASE str.parts[j].tp = p.tp
      <4>1. j = i
        BY <1>2, <2>1, <3>2, <3>5 DEF Once
      <4>2. str.parts[j].tp \in DOMAIN new.start /\ new.start[str.parts[j].tp] = Off(str, j)
        BY <2>3, <2>4, <3>4, <4>1 DEF Recorded
      <4> QED BY <4>2 DEF StartPos
    <3>6. CASE str.parts[j].tp # p.tp
      <4>1. str.parts[j].tp \in DOMAIN new.start /\ new.start[str.parts[j].tp] = Off(str, j)
        BY <2>3, <3>4, <3>6 DEF Recorded
      <4> QED BY <4>1 DEF StartPos
    <3> QED BY <3>5, <3>6
  <2> QED BY <2>3, <2>5 DEF HasIndex, PartsOf, Off, Parted
<1> QED BY <1>1, <1>2

LEMMA StepIndexed ==
  ASSUME Base, Numbers(str), Indexed, Does, UNCHANGED str
  PROVE  Indexed'
<1>0. Listed(str)' = Listed(str) /\ Tiles' = Tiles
  BY DEF Tiles
<1>1. CASE SotRead
  <2> PICK i, n, nb : \E skip \in BOOLEAN : SotDoes(i, n, nb, skip)
    BY <1>1 DEF SotRead
  <2> PICK skip \in BOOLEAN : SotDoes(i, n, nb, skip)
    OBVIOUS
  <2>1. dec'.tlm = (dec.tlm /\ n <= index[str.parts[i].tile].nbTps) /\ pc = "segment"
    BY Zenon DEF SotDoes
  <2>2. dec'.tlm => dec.tlm /\ \A t \in Tiles : HasIndex(t)
    BY <2>1 DEF Indexed
  <2>3. dec'.tlm => \A t \in Tiles : HasIndex(t)'
    BY <2>2, SotIndexes DEF Numbers
  <2>4. dec'.tlm => Listed(str)'
    BY <1>0, <2>2 DEF Indexed
  <2> QED BY <1>0, <2>3, <2>4 DEF Indexed
<1>2. CASE HeaderRead
  <2>1. /\ dec'.tlm => dec.tlm
        /\ pc' = "idle" /\ dec'.tlm => index' = [t \in Tiles |-> TlmIndex(t)]
        /\ pc' \in {"main", "idle"}
    BY <1>2, HeaderIndexes DEF Base, HeaderDoes, HeaderRead
  <2>2. dec'.tlm => Listed(str)
    BY <2>1 DEF Indexed
  <2>3. ASSUME pc' = "idle", dec'.tlm, NEW t \in Tiles PROVE HasIndex(t)'
    <3>1. index'[t] = TlmIndex(t)
      BY <2>1, <2>3
    <3>2. IndexedAt(TlmIndex(t), t) /\ NumberedFrom0(t)
      BY <2>2, <2>3, TlmIndexIs, PartsRanked
    <3>3. IndexedAt(index'[t], t)
      BY <3>1, <3>2
    <3> QED BY <3>2, <3>3 DEF IndexedAt, NumberedFrom0, HasIndex, StartPos, PartsOf, Off, Parted
  <2> QED BY <1>0, <2>1, <2>2, <2>3 DEF Indexed
<1>3. CASE ~SotRead /\ ~HeaderRead
  <2>1. /\ dec'.tlm = dec.tlm
        /\ pc' \notin {"new", "main", "failed"} => index' = index /\ pc \notin {"new", "main", "failed"}
    BY <1>3, SameIndex
  <2>2. ASSUME index' = index, NEW t \in Tiles PROVE HasIndex(t)' = HasIndex(t)
    BY <2>2 DEF HasIndex, StartPos, PartsOf, Off, Parted
  <2> QED BY <1>0, <2>1, <2>2 DEF Indexed
<1> QED BY <1>1, <1>2, <1>3

\* qsort puts the offsets in order: each of them is in the result, and nothing else.
LEMMA AscendingIs ==
  ASSUME NEW S \in SUBSET Int, IsFiniteSet(S)
  PROVE  /\ DOMAIN Ascending(S) = 1..Cardinality(S)
         /\ \A k \in DOMAIN Ascending(S) : Ascending(S)[k] \in S
         /\ \A x \in S : \E k \in DOMAIN Ascending(S) : Ascending(S)[k] = x
<1> DEFINE at(k) == CHOOSE x \in S : Cardinality({y \in S : y < x}) = k - 1
<1>1. /\ Cardinality(S) \in Nat
      /\ \A x \in S : Rank(S, x) \in 0..(Cardinality(S) - 1)
      /\ \A x, y \in S : Rank(S, x) = Rank(S, y) => x = y
      /\ \A k \in 0..(Cardinality(S) - 1) : \E x \in S : Rank(S, x) = k
  BY Ranked
<1>2. ASSUME NEW k \in 1..Cardinality(S) PROVE at(k) \in S /\ Rank(S, at(k)) = k - 1
  <2>1. k - 1 \in 0..(Cardinality(S) - 1)
    BY <1>1
  <2>2. \E x \in S : Cardinality({y \in S : y < x}) = k - 1
    BY <1>1, <2>1 DEF Rank
  <2> QED BY <2>2 DEF Rank
<1>3. Ascending(S) = [k \in 1..Cardinality(S) |-> at(k)]
  BY Zenon DEF Ascending
<1>4. ASSUME NEW x \in S PROVE \E k \in 1..Cardinality(S) : at(k) = x
  <2>1. Rank(S, x) + 1 \in 1..Cardinality(S) /\ (Rank(S, x) + 1) - 1 = Rank(S, x)
    BY <1>1
  <2>2. at(Rank(S, x) + 1) = x
    <3> HIDE DEF at
    <3> QED BY <1>1, <1>2, <2>1
  <2> QED BY <2>1, <2>2
<1> HIDE DEF at
<1> QED BY <1>2, <1>3, <1>4

\* The positions that are planned are those of the tile-parts of the area.
LEMMA PlannedAtIs ==
  ASSUME Base, Listed(str), NEW area \in SUBSET Tiles, \A t \in Tiles : HasIndex(t)
  PROVE  LET P == {i \in DOMAIN str.parts : str.parts[i].tile \in area} IN
         PlannedAt(area) = {Off(str, i) : i \in P} /\ PlannedAt(area) \in SUBSET Int /\ IsFiniteSet(PlannedAt(area))
<1> DEFINE P == {i \in DOMAIN str.parts : str.parts[i].tile \in area}
           Q == {Off(str, i) : i \in P}
           f == [i \in P |-> Off(str, i)]
<1>1. /\ DOMAIN str.parts = 1..Len(str.parts) /\ Len(str.parts) \in Nat
      /\ \A i \in DOMAIN str.parts : Off(str, i) \in Nat /\ str.parts[i].tile \in Tiles
      /\ Len(str.tlm) = Len(str.parts)
  BY StreamLaid, PlaceIn DEF Base, Listed
<1>2. IsFiniteSet(1..Len(str.parts)) /\ Cardinality(1..Len(str.parts)) = Len(str.parts)
  <2> PICK n \in Nat : n = Len(str.parts)
    BY <1>1
  <2>1. 1 \in Int /\ n \in Int
    OBVIOUS
  <2>2. IsFiniteSet(1..n) /\ Cardinality(1..n) = IF 1 > n THEN 0 ELSE n - 1 + 1
    BY <2>1, FS_Interval
  <2> QED BY <2>2
<1>3. Q \in SUBSET Int /\ IsFiniteSet(Q)
  <2>1. IsFiniteSet(P)
    BY <1>1, <1>2, FS_Subset
  <2>2. f \in Surjection(P, Q)
    BY DEF Surjection
  <2>3. Q \in SUBSET Int
    BY <1>1
  <2> HIDE DEF P, Q, f
  <2> QED BY <2>1, <2>2, <2>3, FS_Surjection
<1>4. ASSUME NEW t \in area, NEW k \in 0..Len(str.tlm), k < index[t].nbTps PROVE StartPos(t, k) \in Q
  <2>1. NumberedFrom0(t) /\ HasIndex(t)
    BY PartsRanked
  <2>2. k \in 0..(Cardinality(PartsOf(str, t)) - 1)
    BY <1>1, <1>4, <2>1 DEF NumberedFrom0, HasIndex
  <2>3. PICK i \in PartsOf(str, t) : str.parts[i].tp = k
    BY <2>1, <2>2 DEF NumberedFrom0
  <2>4. StartPos(t, k) = Off(str, i)
    BY <2>1, <2>3 DEF HasIndex
  <2> QED BY <2>4 DEF PartsOf
<1>5. ASSUME NEW i \in P
      PROVE  \E t \in area : \E k \in {j \in 0..Len(str.tlm) : j < index[t].nbTps} : StartPos(t, k) = Off(str, i)
  <2> DEFINE t == str.parts[i].tile
             C == Cardinality(PartsOf(str, t))
  <2>1. NumberedFrom0(t) /\ HasIndex(t) /\ i \in PartsOf(str, t) /\ t \in area
    BY PartsRanked DEF PartsOf
  <2>2. str.parts[i].tp \in 0..(C - 1) /\ C \in Nat /\ index[t].nbTps = C
    BY <2>1 DEF NumberedFrom0, HasIndex
  <2>3. C <= Len(str.parts)
    <3>1. PartsOf(str, t) \in SUBSET (1..Len(str.parts))
      BY <1>1 DEF PartsOf
    <3> QED BY <1>2, <3>1, FS_Subset
  <2>4. StartPos(t, str.parts[i].tp) = Off(str, i)
    BY <2>1 DEF HasIndex
  <2> HIDE DEF C
  <2>5. str.parts[i].tp \in {j \in 0..Len(str.tlm) : j < index[t].nbTps}
    BY <1>1, <2>2, <2>3
  <2> QED BY <2>1, <2>4, <2>5
<1>6. PlannedAt(area) = Q
  BY <1>4, <1>5 DEF PlannedAt
<1> QED BY <1>3, <1>6

\* A new call is planned.
LEMMA PlannedNew ==
  ASSUME Base, Modes, Indexed, UNCHANGED str, NEW area, SetAreaDoes(area), dec'.inter # <<>>
  PROVE  EachIsPart' /\ EachPartIs' /\ SoughtRead' /\ SoughtNow'
<1>1. /\ call'.area = area /\ area \in SUBSET Tiles /\ pc = "idle"
  BY DEF SetAreaDoes, AreaDoes
<1>2. str.nt = 1 => dec.inter = <<>>
  BY DEF Modes, Area
<1>3. pc' = "enter" /\ dec'.interIdx = 0 /\ dec.tlm /\ dec'.inter = Ascending(PlannedAt(area))
  BY <1>2 DEF SetAreaDoes, DecSame, DecNames
<1> DEFINE P == {i \in DOMAIN str.parts : str.parts[i].tile \in area}
           A == PlannedAt(area)
           w == Ascending(A)
<1>4. Listed(str) /\ \A t \in Tiles : HasIndex(t)
  BY <1>1, <1>3 DEF Indexed
<1>5. A = {Off(str, i) : i \in P} /\ A \in SUBSET Int /\ IsFiniteSet(A)
  BY <1>1, <1>4, PlannedAtIs
<1>6. /\ DOMAIN w = 1..Cardinality(A)
      /\ \A k \in DOMAIN w : w[k] \in A
      /\ \A x \in A : \E k \in DOMAIN w : w[k] = x
  <2> HIDE DEF A
  <2> QED BY <1>5, AscendingIs
<1> HIDE DEF A, w
<1>7. dec'.inter = w
  BY <1>3 DEF A, w
<1>8. \A i : Wanted(i)' <=> i \in P
  BY <1>1 DEF Wanted
<1>9. \A i : Off(str, i)' = Off(str, i)
  BY DEF Off, Parted
<1>10. EachIsPart'
  <2>1. \A k \in DOMAIN w : \E i \in P : w[k] = Off(str, i)
    BY <1>5, <1>6
  <2> HIDE DEF P
  <2> QED BY <2>1, <1>7, <1>8, <1>9 DEF EachIsPart
<1>11. EachPartIs'
  <2>1. \A i \in P : \E k \in DOMAIN w : w[k] = Off(str, i)
    BY <1>5, <1>6
  <2> HIDE DEF P
  <2> QED BY <2>1, <1>7, <1>8, <1>9 DEF EachPartIs
<1>12. SoughtRead' /\ SoughtNow'
  BY <1>3 DEF SoughtRead, SoughtNow, AtPlanned
<1> QED BY <1>10, <1>11, <1>12

LEMMA StepPlanned ==
  ASSUME Base, Modes, Ready, Indexed, Planned, [Next]_vars, Does, UNCHANGED str
  PROVE  Planned'
<1>1. pc' \in {"new", "main"} => dec'.inter = <<>>
  BY EarlyBack, PlanKept DEF Planned
<1>2. ASSUME Planning' PROVE EachIsPart' /\ EachPartIs' /\ SoughtRead' /\ SoughtNow'
  <2>1. CASE ~Begins
    BY <1>2, <2>1, PlannedOn
  <2>2. CASE \E area : SetAreaDoes(area)
    BY <1>2, <2>2, PlannedNew DEF Planning
  <2>3. CASE \E area : ReadDoes(area)
    <3>1. dec' = dec /\ call.kind = "header"
      BY <2>3 DEF ReadDoes
    <3> QED BY <1>2, <3>1 DEF Planning, Modes, Area
  <2>4. CASE \E u : GetDoes(u)
    <3>1. dec'.inter = dec.inter /\ call.kind = "tile"
      BY <2>4 DEF GetDoes, DecSame, DecNames
    <3> QED BY <1>2, <3>1 DEF Planning, Modes, Area
  <2> QED BY <2>1, <2>2, <2>3, <2>4 DEF Begins
<1> QED BY <1>1, <1>2 DEF Planned

-----------------------------------------------------------------------------
(* What a tile has is what its first tile-parts have.                      *)

InOrderOf(x, t) == \E n \in 0..Top(str, t) : x = Joined(str, t, n)
Grown == \A t \in Tiles : /\ InOrderOf(tcp[t].data, t)
                          /\ out[t] # Nothing => InOrderOf(out[t], t)

LEMMA NoneInOrder ==
  ASSUME Base, NEW t
  PROVE  InOrderOf(<<>>, t)
<1>1. Top(str, t) \in Nat /\ Joined(str, t, 0) = <<>>
  BY TopIs, JoinedNone
<1>2. 0 \in 0..Top(str, t)
  BY <1>1
<1> QED BY <1>1, <1>2 DEF InOrderOf

LEMMA StepGrown ==
  ASSUME Base, Once(str), Trusted, Grown, [Next]_vars, UNCHANGED str, ~dec'.lastPart
  PROVE  Grown'
<1>0. ~dec.lastPart /\ HeadData /\ Tiles' = Tiles
  BY LastPartStays DEF Base, Trusted, Tiles
<1>1. \A x, t : InOrderOf(x, t)' <=> InOrderOf(x, t)
  BY DEF InOrderOf, Joined, Top, Numbering, Pieces, PartsOf
<1>2. CASE ~ReadSod \/ Fail
  <2>1. DataKept
    BY <1>2, DataKeeps DEF Base
  <2>2. ASSUME NEW t \in Tiles
        PROVE  /\ InOrderOf(tcp'[t].data, t)
               /\ out'[t] # Nothing => InOrderOf(out'[t], t)
    <3>1. /\ tcp'[t].data = tcp[t].data \/ tcp'[t].data = <<>>
          /\ out'[t] = out[t] \/ out'[t] = Nothing \/ out'[t] = tcp[t].data
      BY <2>1 DEF DataKept
    <3>2. /\ InOrderOf(tcp[t].data, t) /\ InOrderOf(<<>>, t)
          /\ out[t] # Nothing => InOrderOf(out[t], t)
      BY NoneInOrder DEF Grown
    <3> QED BY <3>1, <3>2
  <2> QED BY <1>0, <1>1, <2>2 DEF Grown
<1>3. CASE ReadSod /\ ~Fail
  <2>1. PICK len, got : SodDoes(len, got)
    BY <1>3, SodEffect DEF Base
  <2>2. /\ dec.cur \in Tiles /\ Exact(dec.cur)'
        /\ \E i \in PartsOf(str, dec.cur) : str.parts[i].tp = tcp'[dec.cur].tpno
    BY <1>0, <2>1, SodExact
  <2>3. /\ \A t \in Tiles \ {dec.cur} : tcp'[t] = tcp[t]
        /\ UNCHANGED out
    BY <2>1, Zenon DEF SodDoes
  <2> DEFINE n == tcp'[dec.cur].tpno + 1
  <2>4. n \in 0..Top(str, dec.cur)
    <3>1. PICK i \in PartsOf(str, dec.cur) : str.parts[i].tp = tcp'[dec.cur].tpno
      BY <2>2
    <3>2. str.parts[i].tp \in Nat
      BY PlaceIn DEF Base, PartsOf
    <3>3. Top(str, dec.cur) \in Nat /\ str.parts[i].tp + 1 <= Top(str, dec.cur)
      BY TopIs
    <3> QED BY <3>1, <3>2, <3>3
  <2>5. tcp'[dec.cur].data = Joined(str, dec.cur, n)
    <3>1. dec'.cur = dec.cur
      <4>1. DecSame({"sotLen", "state"})
        BY <2>1, Zenon DEF SodDoes
      <4> QED BY <4>1 DEF DecSame, DecNames
    <3>2. tcp'[dec'.cur].data = Joined(str, dec'.cur, tcp'[dec'.cur].tpno + 1)
      BY <2>2 DEF Exact, Joined, Pieces
    <3> QED BY <3>1, <3>2
  <2> HIDE DEF n
  <2>6. InOrderOf(tcp'[dec.cur].data, dec.cur)
    BY <2>4, <2>5 DEF InOrderOf
  <2>7. \A t \in Tiles : InOrderOf(tcp'[t].data, t) /\ (out'[t] # Nothing => InOrderOf(out'[t], t))
    BY <2>3, <2>6 DEF Grown
  <2> QED BY <1>0, <1>1, <2>7 DEF Grown
<1> QED BY <1>2, <1>3

-----------------------------------------------------------------------------
(* The invariant.                                                          *)

\* of every file
AnyFile == Base /\ OwnDataInv /\ Modes /\ Ready /\ CurTile /\ TileMode /\ Counting
\* of a file whose tile-parts are numbered as the format asks for
GoodFile == Trusted /\ Slack /\ Planned /\ Indexed /\ (~dec.lastPart => Grown)
OrderInv == AnyFile /\ (Numbers(str) => GoodFile)

LEMMA InitOrder ==
  ASSUME Init
  PROVE  OrderInv
<1>1. Base /\ Modes /\ Ready /\ CurTile /\ TileMode /\ Counting /\ Planned
  BY InitBase, InitModes, InitReady, InitTileMode, InitCounting, InitPlanned
<1>2. /\ pc = "new" /\ NotCalled
      /\ \A t \in Tiles : tcp[t].data = <<>> /\ out[t] = Nothing
  BY DEF Init, NewTcp, NotCalled
<1>3. OwnDataInv
  <2>1. \A t \in Tiles : DataOf(<<>>, t)
    BY DEF DataOf
  <2> QED BY <1>2, <2>1 DEF OwnDataInv, OwnData
<1>4. \A t \in Tiles : Sound(t)
  BY <1>1, <1>2, FreshSound DEF Sound
<1>5. call.area \in SUBSET Tiles
  BY <1>1 DEF Modes, Area
<1>6. Trusted /\ Slack
  BY <1>2, <1>4, <1>5 DEF Trusted, SoundArea, HeadData, InHeader, Slack, SoundAll
<1>7. Numbers(str) => Indexed
  BY InitIndexed
<1>8. Grown
  BY <1>1, <1>2, NoneInOrder DEF Grown
<1> QED BY <1>1, <1>3, <1>6, <1>7, <1>8 DEF OrderInv, AnyFile, GoodFile

LEMMA StepAnyFile ==
  ASSUME AnyFile, [Next]_vars
  PROVE  AnyFile'
<1>1. Base /\ OwnDataInv /\ Modes /\ Ready /\ CurTile /\ TileMode /\ Counting
  BY DEF AnyFile
<1>2. Does /\ UNCHANGED str
  BY <1>1, Effects, StrStays
<1>3. Base' /\ Modes' /\ Ready' /\ CurTile'
  BY <1>1, <1>2, StepBase, StepModes, StepReady, StepCurTile
<1>4. OwnDataInv'
  <2> SUFFICES ASSUME ~dec'.lastPart PROVE OwnData'
    BY DEF OwnDataInv
  <2>1. ~dec.lastPart
    BY <1>1, LastPartStays DEF Base
  <2> QED BY <1>1, <2>1, StepOwn DEF Base, OwnDataInv
<1>5. TileMode'
  <2>1. CASE TileCall /\ ~dec'.lastPart
    BY <1>1, <1>2, <2>1, StepTileMode
  <2>2. CASE ~TileCall \/ dec'.lastPart
    <3>1. TileCall' = TileCall
      BY <1>1, <1>2, KindStays DEF TileCall
    <3> QED BY <2>2, <3>1 DEF TileMode
  <2> QED BY <2>1, <2>2
<1>6. Counting'
  <2>1. CASE Running'
    BY <1>1, <1>2, <2>1, StepCounting
  <2>2. CASE ~Running'
    BY <2>2 DEF Counting
  <2> QED BY <2>1, <2>2
<1> QED BY <1>3, <1>4, <1>5, <1>6 DEF AnyFile

LEMMA StepGoodFile ==
  ASSUME AnyFile, Numbers(str), GoodFile, [Next]_vars
  PROVE  GoodFile'
<1>1. Base /\ OwnDataInv /\ Modes /\ Ready /\ CurTile /\ TileMode /\ Counting
  BY DEF AnyFile
<1>2. Trusted /\ Slack /\ Planned /\ Indexed /\ (~dec.lastPart => Grown)
  BY DEF GoodFile
<1>3. Does /\ UNCHANGED str /\ Once(str)
  BY <1>1, Effects, StrStays DEF Numbers
<1>4. Trusted'
  <2>1. SoundArea'
    BY <1>1, <1>2, <1>3, StepSoundArea
  <2>2. ~dec'.lastPart => HeadData'
    BY <1>1, <1>2, <1>3, StepHeadData
  <2> QED BY <2>1, <2>2 DEF Trusted
<1>5. Slack'
  <2>1. Several' => SoundAll' \/ Loose'
    BY <1>1, <1>2, <1>3, StepSlack
  <2> QED BY <2>1 DEF Slack
<1>6. Planned'
  BY <1>1, <1>2, <1>3, StepPlanned
<1>7. Indexed'
  BY <1>1, <1>2, <1>3, StepIndexed
<1>8. ~dec'.lastPart => Grown'
  <2> SUFFICES ASSUME ~dec'.lastPart PROVE Grown'
    OBVIOUS
  <2>1. ~dec.lastPart
    BY <1>1, LastPartStays DEF Base
  <2> QED BY <1>1, <1>2, <1>3, <2>1, StepGrown
<1> QED BY <1>4, <1>5, <1>6, <1>7, <1>8 DEF GoodFile

LEMMA StepOrder ==
  ASSUME OrderInv, [Next]_vars
  PROVE  OrderInv'
<1>1. AnyFile' /\ UNCHANGED str
  BY StepAnyFile, StrStays DEF OrderInv
<1>2. ASSUME Numbers(str) PROVE GoodFile'
  BY <1>2, StepGoodFile DEF OrderInv
<1>3. Numbers(str)' = Numbers(str)
  BY <1>1 DEF Numbers, Once, Listed, InOrder
<1> QED BY <1>1, <1>2, <1>3 DEF OrderInv

LEMMA GrownInOrder ==
  ASSUME Base, ~dec.lastPart => Grown
  PROVE  DataInOrder
<1> SUFFICES ASSUME NEW t \in Tiles, ~dec.lastPart
             PROVE  /\ IsPrefix(tcp[t].data, TileData(str, t))
                    /\ out[t] # Nothing => IsPrefix(out[t], TileData(str, t))
  BY DEF DataInOrder
<1>1. \A x : InOrderOf(x, t) => IsPrefix(x, TileData(str, t))
  BY JoinedWhole DEF InOrderOf
<1> QED BY <1>1 DEF Grown

\* What is collected for a tile, and what it was decoded from, is the beginning of what the
\* file holds of it: the packet data of its tile-parts in the order of their numbers and
\* without a gap (j2k.c:5102), in a file whose tile-parts have numbers of their own and whose
\* TLM segment, if there is one, lists them all, in order.
THEOREM DataCollectedInOrder == Spec => [](Numbers(str) => DataInOrder)
<1>1. OrderInv => (Numbers(str) => DataInOrder)
  BY GrownInOrder DEF OrderInv, AnyFile, GoodFile
<1>2. OrderInv /\ [Next]_vars => OrderInv'
  BY StepOrder
<1> QED BY InitOrder, <1>1, <1>2, PTL DEF Spec
=============================================================================
