----------------------------- MODULE PacketOrder -----------------------------
(***************************************************************************)
(* The packets of a tile from the encoder to the decoder: the division     *)
(* into tile-parts (opj_j2k_get_num_tp, opj_j2k_write_first_tile_part and  *)
(* _write_all_tile_parts), the windows of opj_pi_create_encode, the loop   *)
(* of opj_t2_encode_packets, and the loop of opj_t2_decode_packets, which  *)
(* knows no tile-parts and must come upon the packets in the same order.   *)
(*                                                                         *)
(* The coding parameters of a tile t, beside its geometry:                 *)
(*   layers, prg  numlayers and prg of opj_tcp_t                           *)
(*   pocs         its progression changes, <<>> for none                   *)
(*   flag         tp_flag of opj_cparameters_t, "off" when tp_on is 0      *)
(***************************************************************************)
EXTENDS PacketIterator, SequencesExt

CONSTANT Tiles       \* the tiles to be coded

(* What the types of the coding parameters and opj_j2k_setup_encoder give. *)
IsPoc(c) == /\ c.R \in Nat \X Nat /\ c.C \in Nat \X Nat /\ c.L \in Nat
            /\ c.prg \in Orders
IsTile(u) ==
    /\ \A a \in Axes : u.lo[a] \in Nat /\ u.hi[a] \in Nat /\ u.lo[a] <= u.hi[a]
    /\ u.comps \in Seq([Axes -> Nat \ {0}]) /\ u.comps # <<>>
    /\ u.res \in Seq([Axes -> Nat]) /\ u.res # <<>>
    /\ u.layers \in Nat \ {0}
    /\ u.prg \in Orders
    /\ u.flag \in {"off", "L", "R", "C", "P"}
    /\ DOMAIN u.pocs = 1..Len(u.pocs) /\ \A i \in DOMAIN u.pocs : IsPoc(u.pocs[i])
ASSUME TilesAssumption == \A u \in Tiles : IsTile(u)

VARIABLES
    t,        \* the tile
    pocs,     \* tcp->pocs: the ranges the user asked for, made valid on the way
    tnsot,    \* m_nb_tile_parts
    phase,    \* "between" tile-parts, "packets", "refused", "decode", "done"
    pino,     \* cur_pino; the decoder's after that
    tp,       \* m_current_poc_tile_part_number
    odo,      \* comp_t, res_t, lay_t, prc_t, tx0_t, ty0_t
    prg,      \* the order of the running iterator
    left,     \* the visits it has left
    parts,    \* the packets of every tile-part written
    read      \* the packets the decoder came upon

vars == <<t, pocs, tnsot, phase, pino, tp, odo, prg, left, parts, read>>

Letters == {"L", "R", "C", "P"}
Digits  == Letters \cup Axes
LetterOrder(order) == CASE order = "LRCP" -> <<"L", "R", "C", "P">>
                      [] order = "RLCP" -> <<"R", "L", "C", "P">>
                      [] order = "RPCL" -> <<"R", "P", "C", "L">>
                      [] order = "PCRL" -> <<"P", "C", "R", "L">>
                      [] order = "CPRL" -> <<"C", "P", "R", "L">>

PosOf(letter, order) == CHOOSE i \in 1..4 : LetterOrder(order)[i] = letter

TpOn == t.flag # "off"
NumPocs == IF t.pocs = <<>> THEN 0 ELSE Len(t.pocs) - 1
\* mutant: the letter of the flag is not divided
TpPosBefore == PosOf(t.flag, t.prg) - 1
\* m_tp_pos, set by opj_j2k_get_num_tp from the order of the tile
TpPos == PosOf(t.flag, t.prg)

(* The ranges <<S, E>> of the progression p: opj_pi_update_encode_not_poc  *)
(* and, when the tile has progression changes, _poc_and_final.             *)
Ranges(u, ps, p) ==
    [d \in Digits |->
        CASE d \in Axes -> <<u.lo[d], u.hi[d]>>
          [] d = "P" -> <<0, MaxPrec(u)>>
          [] d = "R" -> IF ps = <<>> THEN <<0, NumRes(u)>> ELSE ps[p + 1].R
          [] d = "C" -> IF ps = <<>> THEN <<0, NumComps(u)>> ELSE ps[p + 1].C
          [] d = "L" -> IF ps = <<>> THEN <<0, u.layers>>
                        ELSE <<IF p > 0 /\ ps[p + 1].L > ps[p].L THEN ps[p + 1].L ELSE 0,
                               ps[p + 1].L>>]
OrderOf(u, ps, p) == IF ps = <<>> THEN u.prg ELSE ps[p + 1].prg

\* opj_j2k_get_num_tp: it multiplies the ends of the ranges
NumTp(u, ps, p) ==
    LET ends(i) == IF u.flag # "off" /\ i <= PosOf(u.flag, u.prg)
                   THEN Ranges(u, ps, p)[LetterOrder(u.prg)[i]][2] ELSE 1
    IN  ends(1) * ends(2) * ends(3) * ends(4)

\* opj_j2k_write_poc_in_memory, once the marker is written
Clamped(u, ps) ==
    [i \in DOMAIN ps |-> [ps[i] EXCEPT !.L = Min({@, u.layers}),
                                       !.R[2] = Min({@, NumRes(u)})]]

-----------------------------------------------------------------------------
(* opj_pi_create_encode: the letters up to m_tp_pos take one value in each *)
(* tile-part, the last of them fastest; the others their whole range.      *)
TileStep(d) == MinStep(t, CompNos(t), d)
Cell(d, v)  == <<v, IF d \in Axes THEN v + TileStep(d) - (v % TileStep(d)) ELSE v + 1>>
Held(d)     == <<odo[d] - (IF d \in Axes THEN TileStep(d) + (odo[d] % TileStep(d)) ELSE 1), odo[d]>>

\* a position is advanced along x first
Divided(order) ==
    LET digits(l) == IF l = "P" /\ ByPosition(order) THEN <<"x", "y">> ELSE <<l>>
    IN  FlattenSeq([j \in 1..TpPos |-> digits(LetterOrder(order)[TpPos + 1 - j])])

Window(ps, p, n, d) ==
    LET r      == Ranges(t, ps, p)
        ds     == IF TpOn THEN Divided(OrderOf(t, ps, p)) ELSE <<>>
        ended(j)   == IF ds[j] \in Axes THEN odo[ds[j]] >= r[ds[j]][2] ELSE odo[ds[j]] = r[ds[j]][2]
        \* opj_pi_check_next_level compares the position with "="
        more(j)    == \E k \in (j + 1)..Len(ds) :
                         IF ds[j] = "x" /\ ds[k] = "y" THEN ~ended(k) ELSE odo[ds[k]] # r[ds[k]][2]
        carried(i) == \A j \in 1..(i - 1) : ended(j) /\ more(j)
        advance(i) == IF ~ended(i) THEN Cell(d, odo[d])
                      ELSE IF more(i) THEN Cell(d, r[d][1]) ELSE Held(d)
    IN  IF ~\E i \in DOMAIN ds : ds[i] = d THEN r[d]
        ELSE IF n = 0 THEN Cell(d, r[d][1])
        ELSE LET i == CHOOSE i \in DOMAIN ds : ds[i] = d
             IN  IF carried(i) THEN advance(i) ELSE Held(d)

Iterator(order, tpOn, window) ==
    [prg |-> order, tpOn |-> tpOn, L |-> window.L, R |-> window.R, C |-> window.C,
     P |-> window.P, x |-> window.x, y |-> window.y]

\* mutant: the decoder keeps the order of the tile
DecodeIteratorOfTile(p) ==
    LET window == [Ranges(t, pocs, p) EXCEPT !.L[1] = 0]
    IN  Iterator(t.prg, FALSE, window)
\* opj_pi_update_decode_poc and _not_poc; opj_j2k_read_poc has cut L
DecodeIterator(p) ==
    LET window == [Ranges(t, pocs, p) EXCEPT !.L[1] = 0]
    IN  Iterator(OrderOf(t, pocs, p), FALSE, window)

\* opj_pi_next with pi->first set
Start(it) == prg' = it.prg /\ left' = Visits(t, it)

-----------------------------------------------------------------------------
\* opj_j2k_setup_encoder and opj_j2k_calculate_tp
Init ==
    /\ t \in Tiles
    /\ pocs = [i \in DOMAIN t.pocs |-> [t.pocs[i] EXCEPT !.C[2] = Min({@, NumComps(t)})]]
    /\ tnsot = SumFunction([p \in 0..NumPocs |-> NumTp(t, pocs, p)])
    /\ phase = "between"
    /\ pino = 0
    /\ tp = -1
    /\ odo = [d \in Digits |-> 0]
    /\ prg = t.prg
    /\ left = {}
    /\ parts = <<>>
    /\ read = <<>>

\* the tile-part n of the progression p, with an include map of its own
BeginPart(ps, p, n) ==
    LET window == [d \in Digits |-> Window(ps, p, n, d)]
    IN  /\ Start(Iterator(OrderOf(t, ps, p), TpOn /\ p = 0, window))
        /\ odo' = [d \in Digits |-> IF TpOn /\ d \in ToSet(Divided(OrderOf(t, ps, p)))
                                     THEN window[d][2] ELSE odo[d]]
        /\ pocs' = ps
        /\ pino' = p
        /\ tp' = n
        /\ parts' = Append(parts, <<>>)
        /\ phase' = "packets"
        /\ UNCHANGED <<t, tnsot, read>>

\* opj_j2k_write_first_tile_part, where the POC marker goes
FirstPart == phase = "between" /\ tp = -1 /\ BeginPart(Clamped(t, pocs), 0, 0)

\* opj_j2k_write_all_tile_parts: the progression's next tile-part ..
NextPart ==
    /\ phase = "between"
    /\ tp >= 0
    /\ tp + 1 < NumTp(t, pocs, pino)
    /\ BeginPart(pocs, pino, tp + 1)

\* .. or the first one of the next progression
NextProgression ==
    /\ phase = "between"
    /\ tp >= 0
    /\ tp + 1 >= NumTp(t, pocs, pino)
    /\ pino < NumPocs
    /\ BeginPart(pocs, pino + 1, 0)

Included == ToSet(parts[Len(parts)])
Following == NextVisits(prg, left, Included)
Past(v)   == {w \in left : Before(prg, v, w)}

\* mutant: the precinct number is not checked
MissingNever(v) == FALSE
\* opj_t2_encode_packet has no such precinct
Missing(v) == Coded(t, v.C, v.R) /\ v.P \notin 0..(NumPrec(t, v.C, v.R) - 1)

EncodePacket ==
    /\ phase = "packets"
    /\ \E v \in Following :
        IF Missing(v)
        THEN phase' = "refused" /\ UNCHANGED <<left, parts>>
        ELSE /\ left' = Past(v)
             /\ parts' = [parts EXCEPT ![Len(parts)] = Append(@, Packet(v))]
             /\ UNCHANGED phase
    /\ UNCHANGED <<t, pocs, tnsot, pino, tp, odo, prg, read>>

EndPart ==
    /\ phase = "packets"
    /\ Following = {}
    /\ phase' = "between"
    /\ UNCHANGED <<t, pocs, tnsot, pino, tp, odo, prg, left, parts, read>>

(* The decoder, once it has all tile-parts: opj_t2_decode_packets, whose   *)
(* progressions share one include map.                                     *)
BeginDecode ==
    /\ phase = "between"
    /\ tp >= 0
    /\ tp + 1 >= NumTp(t, pocs, pino)
    /\ pino = NumPocs
    /\ phase' = "decode"
    /\ pino' = 0
    /\ Start(DecodeIterator(0))
    /\ UNCHANGED <<t, pocs, tnsot, tp, odo, parts, read>>

Expected == NextVisits(prg, left, ToSet(read))

DecodePacket ==
    /\ phase = "decode"
    /\ \E v \in Expected : left' = Past(v) /\ read' = Append(read, Packet(v))
    /\ UNCHANGED <<t, pocs, tnsot, phase, pino, tp, odo, prg, parts>>

DecodeProgression ==
    /\ phase = "decode"
    /\ Expected = {}
    /\ IF pino < NumPocs
       THEN /\ pino' = pino + 1
            /\ Start(DecodeIterator(pino + 1))
            /\ UNCHANGED phase
       ELSE phase' = "done" /\ UNCHANGED <<pino, prg, left>>
    /\ UNCHANGED <<t, pocs, tnsot, tp, odo, parts, read>>

\* opj_j2k_encode has failed, or the tile is decoded
Finished == phase \in {"refused", "done"} /\ UNCHANGED vars

Next ==
    \/ FirstPart \/ NextPart \/ NextProgression \/ EncodePacket \/ EndPart
    \/ BeginDecode \/ DecodePacket \/ DecodeProgression \/ Finished

Spec == Init /\ [][Next]_vars

-----------------------------------------------------------------------------
Written == FlattenSeq(parts)

\* The packets written are packets of the tile: opj_t2_encode_packet refuses
\* the precincts an undivided letter P counts beyond a resolution (t2.c:743).
TypeOK ==
    /\ phase \in {"between", "packets", "refused", "decode", "done"}
    /\ pino \in 0..NumPocs
    /\ tp \in Int /\ tnsot \in Nat
    /\ odo \in [Digits -> Int]
    /\ prg \in Orders
    /\ \A n \in DOMAIN parts : \A p \in ToSet(parts[n]) : IsPacket(t, p)

\* The decoder, which knows nothing of the division into tile-parts, comes upon
\* the packets in the order in which the tile-parts hold them (pi.c:237 to 748,
\* opj_pi_create_encode against opj_pi_create_decode).
SameOrder == IsPrefix(read, Written)

\* When the tile is decoded, each of its packets was written once and read once:
\* the windows of the tile-parts and the progressions leave none out and repeat
\* none, though each tile-part has an include map of its own (t2.c:247).  Only a
\* tile with resolutions of unlike precincts is refused.
EveryPacketOnce ==
    /\ phase = "done" => /\ ToSet(Written) = AllPackets(t)
                         /\ Len(Written) = Cardinality(AllPackets(t))
                         /\ read = Written
    /\ phase = "refused" => /\ TpOn /\ ~ByPosition(t.prg)
                            /\ \E c \in CompNos(t), r \in ResNos(t) : NumPrec(t, c, r) < MaxPrec(t)

\* The tile-parts are as many as every SOT announces (TNsot, j2k.c:1878, computed
\* before the POC marker clamps the ranges), and with tp_flag R, C or L each of
\* them holds packets of one resolution, component or layer only.
PartsAsAnnounced ==
    /\ Len(parts) <= tnsot
    /\ phase \in {"decode", "done"} => Len(parts) = tnsot
    /\ TpOn => LET k == PosOf(t.flag, "LRCP")
               IN  \A n \in DOMAIN parts : \A p, q \in ToSet(parts[n]) : p[k] = q[k]
=============================================================================
