----------------------------- MODULE J2kDecoder -----------------------------
(***************************************************************************)
(* The codestream decoder of src/lib/openjp2/j2k.c: the main header, the   *)
(* loop over the tile-parts (opj_j2k_read_tile_header), the decoding of a  *)
(* tile, and the three ways a client drives them:                          *)
(*   "decode"  opj_set_decode_area + opj_decode                            *)
(*   "tile"    opj_get_decoded_tile, tiles in any order                    *)
(*   "header"  opj_read_tile_header + opj_decode_tile_data                 *)
(*                                                                         *)
(* The C structures are records with the fields the control depends on:    *)
(*   dec    m_specific_param.m_decoder, m_cp.strict, m_current_tile_number *)
(*   tcp    one opj_tcp_t per tile                                         *)
(*   index  cstr_index->tile_index, one per tile                           *)
(* call holds the locals of the running call, out what its decoded tiles   *)
(* were decoded from.  Allocation failures and Psot = 12 are left out.     *)
(***************************************************************************)
EXTENDS Codestream, Integers, FiniteSets, TLC

CONSTANTS Streams,    \* the descriptions of the files that may be opened
          MaxCalls    \* bound: decoding calls of one client

ASSUME StreamsAssumption == \A s \in Streams : StreamOK(s)

VARIABLES str, items, pos, pc, marker, dec, tcp, index, call, out

vars == <<str, items, pos, pc, marker, dec, tcp, index, call, out>>

NoTile  == -1                        \* m_tile_ind_to_dec when none was asked
Tiles   == 0..(str.nt - 1)
Left    == Len(items) - pos          \* opj_stream_get_number_byte_left
At(n)   == items[n + 1][1]           \* the item at offset n
IsSot(n) == n + 1 \in DOMAIN items /\ At(n) = "SOT"
Nothing == <<<<"nothing", 0, 0>>>>             \* out of a tile that was not decoded

Kinds == {"decode", "tile", "header"}
Required == {"SIZ", "COD", "QCD"}
\* j2k_memory_marker_handler_tab, the markers of the streams considered here
MainMarkers(state) == IF state = "MHSIZ" THEN {"SIZ"} ELSE {"COD", "QCD", "TLM", "COM"}

StartPos(t, k) == IF k \in DOMAIN index[t].start THEN index[t].start[k] ELSE 0

NewTcp   == [tpno |-> -1, nb |-> 0, data |-> <<>>, ppt |-> FALSE, merged |-> FALSE]
NewIndex == [nbTps |-> 0, alloc |-> FALSE, start |-> <<>>]

Init ==
    /\ str \in Streams
    /\ items = Items(str)
    /\ pos = 0
    /\ pc = "new"
    /\ marker = "none"
    /\ \E strict \in BOOLEAN : dec =
         [strict |-> strict, state |-> "NONE", seen |-> {}, hasData |-> FALSE,
          canDecode |-> FALSE, lastPart |-> FALSE, skip |-> FALSE, sotLen |-> 0,
          corr |-> 0, corrChecked |-> FALSE, tileInd |-> NoTile,
          tlm |-> str.tlm # <<>>, inter |-> <<>>, interIdx |-> 0, cur |-> 0]
    /\ tcp = [t \in Tiles |-> NewTcp]
    /\ index = [t \in Tiles |-> NewIndex]
    /\ \E k \in Kinds :
        call = [kind |-> k, n |-> 0, area |-> Tiles, whole |-> TRUE, tno |-> 0, nr |-> 0,
                more |-> TRUE]
    /\ out = [t \in Tiles |-> Nothing]

(* Every error return: the procedure fails, opj_j2k_decode and _get_tile   *)
(* destroy m_private_image, and the client gives up.                       *)
Fail ==
    /\ pc' = "failed"
    /\ call' = [call EXCEPT !.n = IF pc = "idle" THEN @ + 1 ELSE @]
    /\ UNCHANGED <<str, items, pos, marker, dec, tcp, index, out>>

-----------------------------------------------------------------------------
(* The main header.                                                        *)

ReadSoc ==
    /\ pc = "new"
    /\ IF Left >= 2 /\ At(0) = "SOC"
       THEN /\ pos' = 2
            /\ marker' = At(1)
            /\ dec' = [dec EXCEPT !.state = "MHSIZ"]
            /\ pc' = "main"
            /\ UNCHANGED <<str, items, tcp, index, call, out>>
       ELSE Fail

ReadMainMarker ==
    /\ pc = "main"
    /\ marker # "SOT"
    /\ IF marker \in MainMarkers(dec.state) /\ Left >= 2
       THEN /\ pos' = pos + 2
            /\ marker' = At(pos + 1)
            /\ dec' = [dec EXCEPT !.seen = @ \cup {marker}, !.state = "MH"]
            /\ UNCHANGED <<str, items, pc, tcp, index, call, out>>
       ELSE Fail

(* opj_j2k_build_tp_index_from_tlm, when every tile has an entry.          *)
TlmIndex(t) ==
    LET of     == {n \in DOMAIN str.tlm : str.parts[str.tlm[n]].tile = t}
        nth(k) == CHOOSE n \in of : Cardinality({m \in of : m < n}) = k
    IN  [nbTps |-> Cardinality(of), alloc |-> TRUE,
         start |-> [k \in 0..(Cardinality(of) - 1) |-> TlmPos(str, nth(k))]]

MainHeaderDone ==
    /\ pc = "main"
    /\ marker = "SOT"
    /\ IF Required \subseteq dec.seen
       THEN LET valid == dec.tlm /\ \A t \in Tiles : TlmIndex(t).nbTps > 0 IN
            /\ dec' = [dec EXCEPT !.state = "TPHSOT", !.tlm = valid]
            /\ index' = IF valid THEN [t \in Tiles |-> TlmIndex(t)] ELSE index
            /\ pc' = "idle"
            /\ UNCHANGED <<str, items, pos, marker, tcp, call, out>>
       ELSE Fail

-----------------------------------------------------------------------------
(* The calls of the client.                                                *)

Callable(kind) ==
    /\ pc = "idle"
    /\ call.kind = kind
    /\ call.more
    /\ call.n < MaxCalls

NewCall(area, whole) ==
    /\ call' = [call EXCEPT !.n = @ + 1, !.area = area, !.whole = whole, !.nr = 0]
    /\ out' = IF call.kind = "header" THEN out ELSE [t \in Tiles |-> Nothing]

KeptTile == str.nt = 1 /\ tcp[0].data # <<>>    \* "already ingested"

EndPos == TlmPos(str, Len(str.tlm)) + PartLen(str, str.tlm[Len(str.tlm)])

(* Mutant: back to the first SOT marker, not behind it.                    *)
AtFirstSot == MainHeadEnd(str)

BehindFirstSot == MainHeadEnd(str) + 1    \* main_head_end + 2

\* qsort with CompareOffT
Ascending(offsets) ==
    [k \in 1..Cardinality(offsets) |->
        CHOOSE x \in offsets : Cardinality({y \in offsets : y < x}) = k - 1]

(* opj_j2k_set_decode_area, then opj_j2k_decode_tiles up to its loop.  An  *)
(* area is a set of neighbouring tiles, or a part of the only tile.        *)
SetAreaAndDecode ==
    /\ Callable("decode")
    /\ \E a, b \in Tiles, whole \in BOOLEAN :
        LET area == a..b
            single == str.nt = 1 /\ whole
            byTlm == area # Tiles /\ dec.tlm /\ str.seek
            offsets == UNION {{StartPos(t, k) : k \in {j \in 0..Len(str.tlm) : j < index[t].nbTps}} :
                                t \in area}
        IN
        /\ a <= b
        /\ whole \/ str.nt = 1
        /\ IF ~KeptTile /\ dec.state # "TPHSOT"
           THEN /\ pc' = "refused"
                /\ UNCHANGED <<str, items, pos, marker, dec, tcp, index, call, out>>
           ELSE /\ NewCall(area, whole)
                /\ IF KeptTile /\ ~single
                   THEN /\ dec' = [dec EXCEPT !.cur = 0, !.hasData = TRUE,
                                              !.inter = <<>>, !.interIdx = 0]
                        /\ pc' = "decode"
                   ELSE /\ dec' = IF single THEN dec
                                  ELSE [dec EXCEPT !.interIdx = 0, !.inter =
                                         IF byTlm THEN Ascending(offsets)
                                                  ELSE <<>>]
                        /\ pc' = "enter"
                /\ UNCHANGED <<str, items, pos, marker, tcp, index>>

(* opj_j2k_get_tile and opj_j2k_decode_one_tile up to its loop: seek to    *)
(* the first tile-part of the tile if the index knows it.                  *)
GetTile ==
    /\ Callable("tile")
    /\ \E t \in Tiles :
        LET known == index[t].nbTps # 0
            to == IF known THEN StartPos(t, 0) ELSE BehindFirstSot
        IN
        IF index[0].alloc /\ (~str.seek \/ (known /\ ~IsSot(to)))
        THEN Fail
        ELSE /\ pos' = IF ~index[0].alloc THEN pos ELSE IF known THEN to + 1 ELSE to
             /\ dec' = [dec EXCEPT !.tileInd = t, !.state =
                         IF index[0].alloc /\ @ = "EOC" THEN "TPHSOT" ELSE @]
             /\ tcp' = [u \in Tiles |-> [tcp[u] EXCEPT !.tpno = -1]]
             /\ NewCall({t}, TRUE)
             /\ pc' = "enter"
             /\ UNCHANGED <<str, items, marker, index>>

(* opj_read_tile_header, then opj_decode_tile_data on what it found.       *)
ReadTileHeader ==
    /\ Callable("header")
    /\ ~dec.hasData
    /\ \E a, b \in Tiles :
        /\ a <= b
        /\ call.n > 0 => call.area = a..b
        /\ NewCall(a..b, TRUE)
    /\ pc' = "enter"
    /\ UNCHANGED <<str, items, pos, marker, dec, tcp, index>>

DecodeTileData ==
    /\ pc = "idle"
    /\ call.kind = "header"
    /\ call.more
    /\ dec.hasData
    /\ pc' = "decode"
    /\ UNCHANGED <<str, items, pos, marker, dec, tcp, index, call, out>>

-----------------------------------------------------------------------------
(* opj_j2k_read_tile_header.                                               *)

EnterHeader ==
    /\ pc = "enter"
    /\ IF dec.state \in {"EOC", "TPHSOT"} /\ ~dec.hasData
       THEN /\ marker' = IF dec.state = "EOC" THEN "EOC" ELSE "SOT"
            /\ pc' = "loop"
            /\ UNCHANGED <<str, items, pos, dec, tcp, index, call, out>>
       ELSE Fail

LoopDone == dec.canDecode \/ marker = "EOC"

LeaveLoop ==
    /\ pc = "loop"
    /\ LoopDone
    /\ pc' = "tail"
    /\ UNCHANGED <<str, items, pos, marker, dec, tcp, index, call, out>>

(* The next tile-part planned from the TLM segment for a partial area.     *)
SeekIntersecting ==
    /\ pc = "loop"
    /\ ~LoopDone
    /\ dec.interIdx < Len(dec.inter)
    /\ LET to == dec.inter[dec.interIdx + 1] IN
        IF IsSot(to)
        THEN /\ pos' = to + 1
             /\ marker' = "SOT"
             /\ dec' = [dec EXCEPT !.interIdx = @ + 1]
             /\ pc' = "segment"
             /\ UNCHANGED <<str, items, tcp, index, call, out>>
        ELSE Fail

ReadOn ==
    /\ pc = "loop"
    /\ ~LoopDone
    /\ dec.interIdx = Len(dec.inter)
    /\ pc' = "segment"
    /\ UNCHANGED <<str, items, pos, marker, dec, tcp, index, call, out>>

(* "Try to read until the Start Of Data is detected".                      *)
EndOfStream ==
    /\ pc = "segment"
    /\ marker # "SOD"
    /\ Left = 0
    /\ dec' = [dec EXCEPT !.state = "NEOC"]
    /\ pc' = "tail"
    /\ UNCHANGED <<str, items, pos, marker, tcp, index, call, out>>

(* Mutant: a tile-part may come before its predecessor.                    *)
SotAcceptedInAnyOrder(p, n) ==
    /\ tcp[p.tile].nb # 0 => p.tp < tcp[p.tile].nb
    /\ n # 0 => p.tp < n

(* The checks of opj_j2k_read_sot on TPsot and TNsot (n, corrected).       *)
SotAccepted(p, n) ==
    /\ dec.tileInd \in {NoTile, p.tile} => tcp[p.tile].tpno + 1 = p.tp
    /\ tcp[p.tile].nb # 0 => p.tp < tcp[p.tile].nb
    /\ n # 0 => p.tp < n

\* one more start position
Recorded(starts, k, at) == [x \in DOMAIN starts \cup {k} |-> IF x = k THEN at ELSE starts[x]]

(* Mutant: positions are written to a tile-part index nobody allocated.    *)
SotIndexedUnallocated(p, n, at, tlm) ==
    LET e == index[p.tile]
        nbTps == IF ~tlm /\ n # 0 THEN n ELSE e.nbTps
    IN  [nbTps |-> nbTps, alloc |-> e.alloc,
         start |-> IF p.tp < nbTps THEN Recorded(e.start, p.tp, at) ELSE e.start]

(* The index after an SOT segment read at offset at.                       *)
SotIndexed(p, n, at, tlm) ==
    LET e == index[p.tile]
        nbTps == IF ~tlm /\ n # 0 THEN n ELSE e.nbTps
    IN  [nbTps |-> nbTps, alloc |-> TRUE,
         start |-> IF p.tp < nbTps THEN Recorded(e.start, p.tp, at) ELSE e.start]

(* An SOT segment, and the step to the marker behind it or, when the tile  *)
(* is not wanted, to the end of the tile-part.                             *)
ReadSot ==
    /\ pc = "segment"
    /\ marker = "SOT"
    /\ Left > 0
    /\ LET i    == items[pos + 1][2]
           p    == str.parts[i]
           n    == IF p.tn = 0 THEN 0 ELSE p.tn + dec.corr
           nb   == IF n # 0 THEN n ELSE tcp[p.tile].nb
           last == dec.lastPart \/ Psot(str, i) = 0
           len  == IF last THEN 0 ELSE Psot(str, i) - 2
           skip == IF dec.tileInd = NoTile THEN p.tile \notin call.area
                                           ELSE p.tile # dec.tileInd
           tlm  == dec.tlm /\ n <= index[p.tile].nbTps
           next == pos + 1 + (IF skip THEN len ELSE 1)
       IN
       IF /\ At(pos) = "sot" /\ dec.state = "TPHSOT"
          /\ SotAccepted(p, n)
          /\ next <= Len(items)
       THEN /\ dec' = [dec EXCEPT !.cur = p.tile, !.lastPart = last, !.sotLen = len,
                                  !.canDecode = @ \/ (nb # 0 /\ nb = p.tp + 1),
                                  !.state = "TPH", !.skip = skip, !.tlm = tlm]
            /\ tcp' = [tcp EXCEPT ![p.tile].tpno = p.tp, ![p.tile].nb = nb]
            /\ index' = [index EXCEPT ![p.tile] = SotIndexed(p, n, pos - 1, tlm)]
            /\ pos' = next
            /\ marker' = IF skip THEN "SOD" ELSE At(next - 1)
            /\ UNCHANGED <<str, items, pc, call, out>>
       ELSE Fail

(* A PPT segment of a tile-part header, or a marker with no place there.   *)
ReadTilePartMarker ==
    /\ pc = "segment"
    /\ marker \notin {"SOT", "SOD"}
    /\ Left > 0
    /\ IF /\ marker = "PPT" /\ dec.state = "TPH"
          /\ dec.sotLen # 0 => dec.sotLen >= 2
          /\ Left >= 2
       THEN /\ dec' = [dec EXCEPT !.sotLen = IF @ = 0 THEN 0 ELSE @ - 2]
            /\ tcp' = [tcp EXCEPT ![dec.cur].ppt = TRUE]
            /\ pos' = pos + 2
            /\ marker' = At(pos + 1)
            /\ UNCHANGED <<str, items, pc, index, call, out>>
       ELSE Fail

(* Mutant: strict decoding only warns.                                     *)
DataReadableNotStrict(len) == len = 0 \/ Left > 0

(* "Tile part length size inconsistent with stream length".                *)
DataReadable(len) ==
    \/ len = 0
    \/ len > 0 /\ len <= Left
    \/ len > Left /\ Left > 0 /\ ~dec.strict

(* opj_j2k_read_sod: the packet data of the tile-part join the tile's.     *)
ReadSod ==
    /\ pc = "segment"
    /\ marker = "SOD"
    /\ ~dec.skip
    /\ LET len  == IF dec.lastPart THEN Left - 1
                   ELSE IF dec.sotLen = 0 THEN 0 ELSE dec.sotLen - 1
           got  == IF len < Left THEN len ELSE Left
       IN
       IF DataReadable(len)
       THEN /\ tcp' = [tcp EXCEPT ![dec.cur].data = @ \o SubSeq(items, pos + 1, pos + got)]
            /\ pos' = pos + got
            /\ dec' = [dec EXCEPT !.sotLen = len, !.state = IF got < len THEN "NEOC" ELSE "TPHSOT"]
            /\ pc' = "read"
            /\ UNCHANGED <<str, items, marker, index, call, out>>
       ELSE Fail

(* The data of an unwanted tile-part were skipped with its header.         *)
SkipData ==
    /\ pc = "segment"
    /\ marker = "SOD"
    /\ dec.skip
    /\ dec' = [dec EXCEPT !.skip = FALSE, !.canDecode = FALSE, !.state = "TPHSOT"]
    /\ pc' = "next"
    /\ UNCHANGED <<str, items, pos, marker, tcp, index, call, out>>

TlmLeads ==
    /\ ~dec.canDecode
    /\ dec.tileInd = dec.cur
    /\ dec.tlm
    /\ str.seek
    /\ tcp[dec.cur].nb = index[dec.cur].nbTps
    /\ tcp[dec.cur].tpno + 1 < tcp[dec.cur].nb

(* "Check if we can use the TLM index to access the next tile-part".       *)
JumpByTlm ==
    /\ pc = "read"
    /\ TlmLeads
    /\ LET to == StartPos(dec.cur, tcp[dec.cur].tpno + 1) IN
        IF IsSot(to)
        THEN /\ pos' = to + 1
             /\ marker' = "SOT"
             /\ pc' = "loop"
             /\ UNCHANGED <<str, items, dec, tcp, index, call, out>>
        ELSE Fail

(* Mutant: the look-ahead is given up.                                     *)
NoCorrection(t) == "no"

(* opj_j2k_need_nb_tile_parts_correction: what the next SOT segment of     *)
(* tile t says, from offset n on ("short": an SOT marker without a body).  *)
Correction(t) ==
    LET ahead[n \in 0..(Len(items) + Len(items))] ==
            IF n >= Len(items) \/ At(n) # "SOT" THEN "no"
            ELSE IF n + 1 >= Len(items) THEN "short"
            ELSE LET i == items[n + 1][2]
                     p == str.parts[i]
                 IN  IF p.tile = t THEN IF p.tp = p.tn THEN "yes" ELSE "no"
                     ELSE IF Psot(str, i) = 0 THEN "no"
                     ELSE IF n + Psot(str, i) > Len(items) THEN "no"
                     ELSE ahead[n + Psot(str, i)]
    IN  IF str.seek THEN ahead[pos] ELSE "no"

(* Some files count their tile-parts one too low: look ahead, once.        *)
CheckCorrection ==
    /\ pc = "read"
    /\ ~TlmLeads
    /\ LET due == dec.canDecode /\ ~dec.corrChecked
           answer == IF due /\ tcp[dec.cur].nb # 1 THEN Correction(dec.cur) ELSE "no"
       IN
       IF answer = "short" THEN Fail
       ELSE /\ dec' = [dec EXCEPT !.corrChecked = @ \/ due,
                                  !.canDecode = @ /\ answer = "no",
                                  !.corr = IF answer = "yes" THEN 1 ELSE @]
            /\ tcp' = [t \in Tiles |-> [tcp[t] EXCEPT !.nb =
                         IF answer = "yes" /\ @ # 0 THEN @ + 1 ELSE @]]
            /\ pc' = "next"
            /\ UNCHANGED <<str, items, pos, marker, index, call, out>>

(* "likely non conformant SPOT6 files": the last tile was reached, some    *)
(* tile had TPsot = 0 and TNsot = 0, and EOC is missing.                   *)
Spot6Tiles == {t \in Tiles : tcp[t].tpno = 0 /\ tcp[t].nb = 0}

NextMarker ==
    /\ pc = "next"
    /\ \/ /\ dec.canDecode
          /\ pc' = "loop"
          /\ UNCHANGED <<pos, marker, dec>>
       \/ /\ ~dec.canDecode
          /\ Left > 0
          /\ pos' = pos + 1
          /\ marker' = At(pos)
          /\ pc' = "loop"
          /\ UNCHANGED dec
       \/ /\ ~dec.canDecode
          /\ Left <= 0
          /\ IF dec.cur + 1 = str.nt /\ Spot6Tiles # {}
             THEN /\ dec' = [dec EXCEPT !.state = "EOC", !.cur =
                               CHOOSE t \in Spot6Tiles : \A u \in Spot6Tiles : t <= u]
                  /\ marker' = "EOC"
                  /\ pc' = "tail"
             ELSE /\ pc' = "failed"
                  /\ UNCHANGED <<marker, dec>>
          /\ UNCHANGED pos
    /\ UNCHANGED <<str, items, tcp, index, call, out>>

(* The tile to decode: the one whose last tile-part was read or, at the    *)
(* end of the stream, the next one that has data.  Then opj_j2k_merge_ppt. *)
ChooseTile ==
    /\ pc = "tail"
    /\ LET ended == marker = "EOC" /\ dec.state # "EOC"
           from  == IF ended THEN 0 ELSE dec.cur
           cand  == IF dec.canDecode THEN {from}
                    ELSE {t \in Tiles : t >= from /\ tcp[t].data # <<>>}
           t     == CHOOSE u \in cand : \A v \in cand : u <= v
           dec1  == [dec EXCEPT !.state = IF ended THEN "EOC" ELSE @]
       IN
       IF cand = {}
       THEN /\ dec' = [dec1 EXCEPT !.cur = str.nt]
            /\ pc' = IF call.kind = "header" THEN "idle" ELSE "finish"
            /\ call' = [call EXCEPT !.more = IF call.kind = "header" THEN FALSE ELSE @]
            /\ UNCHANGED <<str, items, pos, marker, tcp, index, out>>
       ELSE IF tcp[t].merged THEN Fail
       ELSE /\ dec' = [dec1 EXCEPT !.cur = t, !.hasData = TRUE]
            /\ tcp' = [tcp EXCEPT ![t].merged = tcp[t].ppt]
            /\ pc' = IF call.kind = "header" THEN "idle" ELSE "decode"
            /\ call' = [call EXCEPT !.tno = t]
            /\ UNCHANGED <<str, items, pos, marker, index, out>>

-----------------------------------------------------------------------------
(* Decoding and what follows it.                                           *)

(* Mutant: the data of the current tile are freed, whoever was decoded.    *)
CurrentFreed(t, free) ==
    [tcp EXCEPT ![dec.cur % str.nt].data = IF free THEN <<>> ELSE @]

(* Mutant: a decoded tile keeps its data.                                  *)
NothingFreed(t, free) == tcp

TileFreed(t, free) == [tcp EXCEPT ![t].data = IF free THEN <<>> ELSE @]

(* After a tile, opj_j2k_decode_tile reads one marker on behalf of the     *)
(* next call, unless the stream is over.                                   *)
StreamOver == dec.state = "EOC" \/ (dec.state = "NEOC" /\ Left = 0)
MarkerReadable ==
    \/ StreamOver
    \/ Left <= 0 /\ ~dec.strict
    \/ Left = 1
    \/ Left > 1 /\ At(pos) \in {"EOC", "SOT"}

DecodeTile ==
    /\ pc = "decode"
    /\ tcp[dec.cur].data # <<>>
    /\ MarkerReadable
    /\ out' = [out EXCEPT ![dec.cur] = tcp[dec.cur].data]
    /\ tcp' = TileFreed(dec.cur, call.kind = "header")
    /\ LET reads == ~StreamOver /\ Left > 0
           eoc   == reads /\ At(pos) = "EOC"
           stray == reads /\ At(pos) \notin {"EOC", "SOT"}
       IN  /\ pos' = IF reads THEN pos + 1 ELSE pos
           /\ dec' = [dec EXCEPT !.canDecode = FALSE, !.hasData = FALSE,
                                 !.cur = IF eoc THEN 0 ELSE @,
                                 !.state = IF eoc THEN "EOC" ELSE IF stray THEN "NEOC" ELSE @]
    /\ call' = [call EXCEPT !.tno = dec.cur]
    /\ pc' = IF call.kind = "header" THEN "idle" ELSE "after"
    /\ UNCHANGED <<str, items, marker, index>>

DecodeTileFails ==
    /\ pc = "decode"
    /\ tcp[dec.cur].data = <<>> \/ ~MarkerReadable
    /\ Fail

(* opj_tcd_decode_tile returns false: external to this module, any time.   *)
TileRefused ==
    /\ pc = "decode"
    /\ pc' = "refused"
    /\ tcp' = TileFreed(dec.cur, TRUE)
    /\ UNCHANGED <<str, items, pos, marker, dec, index, call, out>>

(* The end of one round of the loop of opj_j2k_decode_tiles.               *)
AfterDecode ==
    /\ pc = "after"
    /\ call.kind = "decode"
    /\ LET single == str.nt = 1 /\ call.whole
           planned == dec.inter # <<>> /\ dec.interIdx = Len(dec.inter)
           ended  == Left = 0 /\ dec.state = "NEOC"
       IN
       /\ tcp' = TileFreed(call.tno, str.nt # 1)
       /\ pos' = IF ~single /\ ~ended /\ call.nr + 1 # str.nt /\ planned /\ EndPos + 1 \in DOMAIN items
                 THEN EndPos + 1 ELSE pos
       /\ pc' = IF single \/ ended \/ planned \/ call.nr + 1 = str.nt THEN "finish" ELSE "enter"
       /\ call' = [call EXCEPT !.nr = @ + 1]
    /\ UNCHANGED <<str, items, marker, dec, index, out>>

(* The end of one round of the loop of opj_j2k_decode_one_tile.            *)
AfterTile ==
    /\ pc = "after"
    /\ call.kind = "tile"
    /\ IF call.tno = dec.tileInd /\ ~str.seek THEN Fail
       ELSE /\ tcp' = TileFreed(call.tno, TRUE)
            /\ pos' = IF call.tno = dec.tileInd THEN BehindFirstSot ELSE pos
            /\ pc' = IF call.tno = dec.tileInd THEN "finish" ELSE "enter"
            /\ UNCHANGED <<str, items, marker, dec, index, call, out>>

(* opj_j2k_are_all_used_components_decoded: some tile gave the image data. *)
Finish ==
    /\ pc = "finish"
    /\ IF \E t \in Tiles : out[t] # Nothing
       THEN /\ pc' = "idle"
            /\ UNCHANGED <<str, items, pos, marker, dec, tcp, index, call, out>>
       ELSE Fail

-----------------------------------------------------------------------------
ReadHeader == ReadSoc \/ ReadMainMarker \/ MainHeaderDone
Client == SetAreaAndDecode \/ GetTile \/ ReadTileHeader \/ DecodeTileData
TilePartStep ==
    \/ EnterHeader \/ LeaveLoop \/ SeekIntersecting \/ ReadOn \/ EndOfStream
    \/ ReadSot \/ ReadTilePartMarker \/ ReadSod \/ SkipData
    \/ JumpByTlm \/ CheckCorrection \/ NextMarker \/ ChooseTile
TileStep == DecodeTile \/ DecodeTileFails \/ TileRefused \/ AfterDecode \/ AfterTile \/ Finish

Next == ReadHeader \/ Client \/ TilePartStep \/ TileStep

(* A call is one thread running the code: it is not suspended for ever.    *)
Spec == Init /\ [][Next]_vars /\ WF_vars(ReadHeader \/ TilePartStep \/ TileStep)

-----------------------------------------------------------------------------
States == {"NONE", "MHSIZ", "MH", "TPHSOT", "TPH", "EOC", "NEOC"}
Pcs == {"new", "main", "idle", "enter", "loop", "segment", "read", "next", "tail",
        "decode", "after", "finish", "failed", "refused"}

(* The records keep the types of the C fields they stand for.              *)
TypeOK ==
    /\ str \in Streams
    /\ pos \in 0..Len(items)
    /\ pc \in Pcs
    /\ dec.state \in States
    /\ dec.cur \in 0..str.nt
    /\ dec.tileInd \in Tiles \cup {NoTile}
    /\ dec.sotLen \in Nat
    /\ dec.interIdx \in 0..Len(dec.inter)
    /\ \A t \in Tiles : /\ tcp[t].tpno >= -1
                        /\ index[t].nbTps > 0 => index[t].alloc
                        /\ out[t] # Nothing => out[t] # <<>>

(* What the tile coder is given, and what is being collected for it, is    *)
(* the packet data of that tile and of no other, in the order of its       *)
(* tile-parts, without a gap (j2k.c:5102).  Only a tile-part with Psot = 0 *)
(* may drag in what follows it: m_last_tile_part is never reset.           *)
DataInOrder ==
    \A t \in Tiles : ~dec.lastPart /\ (tcp[t].data # <<>> \/ out[t] # Nothing) =>
        LET whole == TileData(str, t) IN
        /\ IsPrefix(tcp[t].data, whole)
        /\ out[t] # Nothing => IsPrefix(out[t], whole)

-----------------------------------------------------------------------------
(* A complete file, from a conforming encoder or one of the two the code   *)
(* makes up for (TNsot one too low; one tile-part per tile and no EOC),    *)
(* opened with the modes it needs.                                         *)
Conforming ==
    /\ str.cut = 0
    /\ Required \subseteq {str.mh[h] : h \in 1..Len(str.mh)}
    /\ str.eoc \/ (~dec.strict /\ \A i \in 1..Len(str.parts) : str.parts[i].tile = i - 1)
    /\ str.seek \/ call.kind # "tile"
    /\ Len(str.tlm) \in {0, Len(str.parts)}
    /\ \A t \in Tiles : TileData(str, t) # <<>>
    /\ \A i \in 1..Len(str.parts) : str.parts[i].tp =
         Cardinality({j \in 1..(i - 1) : str.parts[j].tile = str.parts[i].tile})

AnyPart(P(_)) == \E i \in 1..Len(str.parts) : P(str.parts[i])

(* Calls that start over on what an earlier call read: several decodes of  *)
(* a single tile (openjpeg.h:1445), tiles in any order.  The code does not *)
(* support them on every file: it merges the PPT segments of a tile only   *)
(* once, never forgets a Psot of 0, and records no position for a          *)
(* tile-part read before TNsot was known.                                  *)
Repeatable ==
    /\ str.eoc \/ call.n <= 2
    /\ call.kind = "decode" => str.nt = 1
    /\ ~AnyPart(LAMBDA p : p.ppt \/ p.psot0)
    /\ ~AnyPart(LAMBDA p : p.tn = 0) \/ ~AnyPart(LAMBDA p : p.tn # 0)

Supported == Conforming /\ (call.n <= 1 \/ call.kind = "header" \/ Repeatable)

Returned == pc = "idle" /\ call.n > 0 /\ (call.kind = "header" => ~call.more)

(* The image a client gets is whole: a call that returns success delivered *)
(* every tile it was asked for, decoded from all the data of that tile in  *)
(* the file, whatever was decoded, skipped or jumped over before.          *)
WholeImage ==
    Supported /\ Returned => \A t \in call.area : out[t] = TileData(str, t)

(* Conforming files (or forgiven ones) that the code does not decode:      *)
(* a tile-part numbered TNsot is only expected behind a tile that was      *)
(* read; a missing EOC is only forgiven behind the last tile of the area;  *)
(* an area planned from TLM does not know that it is complete when TNsot   *)
(* is 0, reads on, and meets a tile-part whose predecessor it jumped over. *)
Refused ==
    \/ /\ AnyPart(LAMBDA p : 0 < p.tn /\ p.tn <= p.tp)
       /\ call.kind = "tile" \/ call.area # Tiles
    \/ ~str.eoc /\ call.kind # "tile" /\ str.nt - 1 \notin call.area
    \/ /\ call.kind = "decode" /\ dec.inter # <<>>
       /\ AnyPart(LAMBDA p : p.tn = 0)

(* On every other one a call can only fail in the tile coder: calls leave  *)
(* the stream just behind an SOT marker, which the next takes for granted. *)
NeverFails == Supported /\ ~Refused => pc # "failed"

(* The same for a tile that opj_get_decoded_tile returned, on every        *)
(* conforming file.  It does not hold: m_last_tile_part should "indicate   *)
(* that the current tile-part is assume as the last" (j2k.h:511), and is   *)
(* still set when another call reads other tile-parts.                     *)
TileWhole ==
    Conforming /\ call.kind = "tile" /\ Returned =>
        \A t \in call.area : out[t] = TileData(str, t)

(* openjpeg.h:1353: with strict decoding "partial bit streams will fail to *)
(* decode": of a tile the client asked for nothing is missing.  Not so if  *)
(* the file is cut just behind an SOT marker, which then ends it like EOC; *)
(* if a TNsot is 0 (the rule for SPOT6 files may pass over a tile); or if  *)
(* an earlier call met Psot = 0 (see Repeatable).                          *)
StrictRefusesPartial ==
    /\ dec.strict /\ Returned
    /\ items[Len(items)][1] # "SOT"
    /\ ~AnyPart(LAMBDA p : p.tn = 0)
    /\ call.n <= 1 \/ ~dec.lastPart
    =>
        \A t \in call.area : out[t] # Nothing /\ IsPrefix(TileData([str EXCEPT !.cut = 0], t), out[t])

(* Packet data leave the decoder only once they were decoded: what was     *)
(* read ahead for another tile is kept, though reading EOC resets the      *)
(* current tile number to 0.                                               *)
OnlyDecodedFreed ==
    [][pc' # "refused" =>
        \A t \in Tiles : tcp[t].data # <<>> /\ tcp'[t].data = <<>> => out'[t] = tcp[t].data]_vars

(* Every call returns, on any file: no loop of the decoder feeds itself.   *)
InCall == pc \notin {"idle", "failed", "refused"}
CallReturns == InCall ~> ~InCall
=============================================================================
