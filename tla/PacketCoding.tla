---------------------------- MODULE PacketCoding ----------------------------
(***************************************************************************)
(* The packets of one precinct through tier 2: opj_t2_encode_packet writes *)
(* a header and the code-blocks' bytes for every layer, the tile reaches   *)
(* the decoder whole or cut short, opj_t2_read_packet_header and           *)
(* _read_packet_data (_skip_packet_data above the wanted layers) take it   *)
(* apart into codeword segments, and opj_t1_decode_cblk walks through      *)
(* these segments.  Encoder and decoder keep in step by counting passes.   *)
(*                                                                         *)
(* A precinct q of one band:                                               *)
(*   w, h        code-blocks across and down                               *)
(*   bandbps     opj_tcd_band_t.numbps                                     *)
(*   style       the LAZY and TERMALL bits of cblksty                      *)
(*   roi         roishift                                                  *)
(*   layers, wanted   numlayers and num_layers_to_decode                   *)
(*   strict      opj_cp_t.strict                                           *)
(*   blocks      for each code-block its bit-planes numbps, the bytes      *)
(*               rate[k] of its first k passes, and the numbers ends of    *)
(*               passes at which rate allocation may end a layer           *)
(***************************************************************************)
EXTENDS TagTree, Integers, FiniteSets

CONSTANT Precincts

\* at most 37 bit-planes, "the maximum number available" (t2.c:1697), three passes
\* each but for the first
ASSUME PrecinctsAssumption ==
    \A p \in Precincts :
        /\ p.w \in Nat /\ p.h \in Nat
        /\ p.style \subseteq {"LAZY", "TERMALL"}
        /\ \A b \in 1..(p.w * p.h) :
            /\ p.blocks[b].numbps \in 0..37
            /\ Len(p.blocks[b].rate) = IF p.blocks[b].numbps = 0 THEN 0 ELSE 3 * p.blocks[b].numbps - 2

VARIABLES
    q,
    phase,      \* "encode", "write", "writelen"; "packet", "header", "lengths", "body",
                \* "chunks", "t1", "segments", "done", "failed"
    layno,
    cblkno,     \* the code-block at hand, 1 for the first
    sent,       \* the passes of each block in the layers written so far
    upto,       \* the same with the layer at hand
    layers,     \* history: sent after each layer
    numlenbits, \* of opj_tcd_cblk_enc_t
    runs,       \* the lengths that the header of the block at hand still needs
    trees,      \* incltree and imsbtree of the encoder
    bio,        \* its header
    file,       \* the bytes of the tile, as written
    rest,       \* those the decoder has not read
    arrived,    \* how many it was given
    in,         \* its header
    dtrees,     \* its trees
    segs,       \* of every block: opj_tcd_cblk_dec_t.segs; as history, what n was at each
    numsegs, newpasses,
    dec,        \* the other members of opj_tcd_cblk_dec_t
    segno, n,   \* locals of opj_t2_read_packet_header
    partial,    \* partial_buffer
    t1          \* segno, pass and cblkdataindex of opj_t1_decode_cblk

encoder == <<sent, upto, layers, numlenbits, runs, trees, bio, file>>
decoder == <<rest, arrived, in, dtrees, segs, numsegs, newpasses, dec, segno, n, partial, t1>>
vars    == <<q, phase, layno, cblkno, encoder, decoder>>

Blocks(p)   == 1..(p.w * p.h)
Leaf(b)     == Path(q.w, q.h, b - 1)
Passes(p, b) == Len(p.blocks[b].rate)
RateAt(b, k) == IF k = 0 THEN 0 ELSE q.blocks[b].rate[k]
Lazy(p)     == "LAZY" \in p.style
Termall(p)  == "TERMALL" \in p.style

\* a byte of a header, the i-th of its packet, and the i-th byte of block b
HeaderByte(v, i) == [val |-> v, blk |-> 0, at |-> i]
BlockByte(b, i)  == [val |-> 0, blk |-> b, at |-> i]

FloorLog2(a) == IF a <= 1 THEN 0 ELSE CHOOSE k \in 1..a : 2^k <= a /\ a < 2^(k + 1)

-----------------------------------------------------------------------------
(* Tier 1 of the encoder codes the cleanup pass of the top bit-plane and   *)
(* then three passes a bit-plane: significance 0, refinement 1, cleanup 2. *)
Bpno(numbps, k) == numbps - 1 - ((k + 2) \div 3)
PassType(k)     == (k + 2) % 3

\* opj_t1_enc_is_term_pass
Term(p, b, k) ==
    LET numbps == p.blocks[b].numbps
        bpno   == Bpno(numbps, k)
    IN  \/ PassType(k) = 2 /\ bpno = 0
        \/ Termall(p)
        \/ Lazy(p) /\ \/ bpno = numbps - 4 /\ PassType(k) = 2
                      \/ bpno < numbps - 4 /\ PassType(k) > 0

\* whether opj_t1_encode_cblk codes pass k raw
EncRaw(p, b, k) ==
    LET numbps == p.blocks[b].numbps
    IN  Lazy(p) /\ Bpno(numbps, k) < numbps - 4 /\ PassType(k) < 2

-----------------------------------------------------------------------------
PutNumPasses(k) ==
    CASE k = 1 -> <<0>>
      [] k = 2 -> Bits(2, 2)
      [] k \in 3..5 -> Bits(12 + k - 3, 4)
      [] k \in 6..36 -> Bits(480 + k - 6, 9)
      [] k \in 37..164 -> Bits(65408 + k - 37, 16)
CommaCode(k) == [i \in 1..(k + 1) |-> IF i <= k THEN 1 ELSE 0]

\* the runs of passes whose length the layer gives: up to a pass that is
\* terminated, or to the last of the layer
Runs(b) ==
    LET stops == SelectSeq([i \in 1..(upto[b] - sent[b]) |-> sent[b] + i],
                           LAMBDA k : k = upto[b] \/ Term(q, b, k - 1))
        from(i) == IF i = 1 THEN sent[b] ELSE stops[i - 1]
    IN  [i \in DOMAIN stops |-> [nump |-> stops[i] - from(i),
                                 len  |-> RateAt(b, stops[i]) - RateAt(b, from(i))]]

Increment(rs, lenbits) ==
    Max({0} \cup {FloorLog2(rs[i].len) + 1 - (lenbits + FloorLog2(rs[i].nump)) : i \in DOMAIN rs})

Init ==
    /\ q \in Precincts
    /\ phase = "encode" /\ layno = 0 /\ cblkno = 1
    /\ sent = [b \in Blocks(q) |-> 0] /\ upto = sent /\ layers = <<>>
    /\ numlenbits = [b \in Blocks(q) |-> 0] /\ runs = <<>>
    /\ trees = [incl |-> Reset(q.w, q.h), imsb |-> Reset(q.w, q.h)]
    /\ bio = InitEnc /\ file = <<>>
    /\ rest = <<>> /\ arrived = 0 /\ in = InitDec(<<>>)
    /\ dtrees = trees
    /\ segs = [b \in Blocks(q) |-> <<>>]
    /\ numsegs = [b \in Blocks(q) |-> 0] /\ newpasses = numsegs
    /\ dec = [b \in Blocks(q) |-> [realsegs |-> 0, lenbits |-> 0, planes |-> 0,
                                   chunks |-> 0, bytes |-> <<>>, corrupted |-> FALSE]]
    /\ segno = 0 /\ n = 0 /\ partial = FALSE
    /\ t1 = [seg |-> 1, pass |-> 0, index |-> 0]

\* the trees at the begin of the layer at hand, that goes up to the passes to
LayerTrees(to) ==
    LET set(tree, b, v) == SetValue(tree, Leaf(b), v)
        planes(tree, b) == set(tree, b, q.bandbps - q.blocks[b].numbps)
        first(tree, b)  == IF sent[b] = 0 /\ to[b] > 0 THEN set(tree, b, layno) ELSE tree
        all == [b \in Blocks(q) |-> b]
        now == IF layno > 0 THEN trees
               ELSE [incl |-> Reset(q.w, q.h), imsb |-> FoldLeft(planes, Reset(q.w, q.h), all)]
    IN  [now EXCEPT !.incl = FoldLeft(first, @, all)]

(* opj_t2_encode_packet up to the loop over the code-blocks.  Which passes *)
(* a layer takes was decided before, by opj_tcd_makelayer.                 *)
BeginPacket ==
    /\ phase = "encode" /\ layno < q.layers
    /\ upto' \in [Blocks(q) -> UNION {ToSet(q.blocks[b].ends) \cup {sent[b]} : b \in Blocks(q)}]
    /\ \A b \in Blocks(q) : upto'[b] >= sent[b] /\ upto'[b] \in ToSet(q.blocks[b].ends) \cup {sent[b]}
    /\ trees' = LayerTrees(upto')
    /\ bio' = PutBit(InitEnc, 1)
    /\ cblkno' = 1 /\ phase' = "write"
    /\ UNCHANGED <<q, layno, sent, layers, numlenbits, runs, file, decoder>>

\* the loop over the code-blocks up to the increase of the length indicator
Known(b) == sent[b] > 0
WriteBlock ==
    /\ phase = "write" /\ cblkno \in Blocks(q)
    /\ LET b    == cblkno
           incl == IF Known(b) THEN [tree |-> trees.incl, bits |-> <<IF upto[b] > sent[b] THEN 1 ELSE 0>>]
                   ELSE TgtEncode(trees.incl, Leaf(b), layno + 1)
           imsb == IF Known(b) THEN [tree |-> trees.imsb, bits |-> <<>>]
                   ELSE TgtEncode(trees.imsb, Leaf(b), 999)
           had  == IF Known(b) THEN numlenbits[b] ELSE 3
           more == Increment(Runs(b), had)
       IN  IF upto[b] = sent[b]
           THEN /\ bio' = Write(bio, incl.bits)
                /\ trees' = [trees EXCEPT !.incl = incl.tree]
                /\ cblkno' = cblkno + 1
                /\ UNCHANGED <<phase, numlenbits, runs>>
           ELSE /\ bio' = Write(bio, incl.bits \o imsb.bits \o PutNumPasses(upto[b] - sent[b])
                                       \o CommaCode(more))
                /\ trees' = [incl |-> incl.tree, imsb |-> imsb.tree]
                /\ numlenbits' = [numlenbits EXCEPT ![b] = had + more]
                /\ runs' = Runs(b)
                /\ phase' = "writelen"
                /\ UNCHANGED cblkno
    /\ UNCHANGED <<q, layno, sent, upto, layers, file, decoder>>

\* "insertion of the codeword segment length"
WriteLength ==
    /\ phase = "writelen"
    /\ LET run == Head(runs)
       IN  bio' = Write(bio, Bits(run.len, numlenbits[cblkno] + FloorLog2(run.nump)))
    /\ runs' = Tail(runs)
    /\ IF runs' = <<>> THEN phase' = "write" /\ cblkno' = cblkno + 1 ELSE UNCHANGED <<phase, cblkno>>
    /\ UNCHANGED <<q, layno, sent, upto, layers, numlenbits, trees, file, decoder>>

Body == FlattenSeq([b \in Blocks(q) |->
            [i \in 1..(RateAt(b, upto[b]) - RateAt(b, sent[b])) |-> BlockByte(b, RateAt(b, sent[b]) + i)]])
EndWrite ==
    /\ phase = "write" /\ cblkno \notin Blocks(q)
    /\ bio' = Flush(bio)
    /\ file' = file \o [i \in DOMAIN bio'.bytes |-> HeaderByte(bio'.bytes[i], i)] \o Body
    /\ sent' = upto /\ layers' = Append(layers, upto)
    /\ layno' = layno + 1 /\ phase' = "encode"
    /\ UNCHANGED <<q, cblkno, upto, numlenbits, runs, trees, decoder>>

\* the decoder gets the tile, or what a file cut short has left of it
Deliver ==
    /\ phase = "encode" /\ layno = q.layers
    /\ arrived' \in 0..Len(file)
    /\ rest' = SubSeq(file, 1, arrived')
    /\ layno' = 0 /\ phase' = "packet"
    /\ UNCHANGED <<q, cblkno, encoder, in, dtrees, segs, numsegs, newpasses, dec, segno, n, partial, t1>>

-----------------------------------------------------------------------------
GetNumPasses(i) ==
    LET a == Read(i, 1)
        b == Read(a.in, 1)
        c == Read(b.in, 2)
        d == Read(c.in, 5)
        e == Read(d.in, 7)
    IN  IF a.v = 0 THEN [in |-> a.in, v |-> 1]
        ELSE IF b.v = 0 THEN [in |-> b.in, v |-> 2]
        ELSE IF c.v # 3 THEN [in |-> c.in, v |-> 3 + c.v]
        ELSE IF d.v # 31 THEN [in |-> d.in, v |-> 6 + d.v]
        ELSE [in |-> e.in, v |-> 37 + e.v]

\* ones up to the first zero, which the code reads one by one
GetCommaCode(i) ==
    LET k == CHOOSE k \in 0..29 : Read(i, k + 1).v = 2^(k + 1) - 2
    IN  [in |-> Read(i, k + 1).in, v |-> k]

\* mutant: the segments of LAZY after the first alternate the other way round
LimitSwapped(s, i) ==
    IF Termall(q) THEN 1
    ELSE IF ~Lazy(q) THEN 109
    ELSE IF i = 1 THEN 10
    ELSE IF s[i - 1].max \in {2, 10} THEN 1 ELSE 2
\* maxpasses of the segment i
Limit(s, i) ==
    IF Termall(q) THEN 1
    ELSE IF ~Lazy(q) THEN 109
    ELSE IF i = 1 THEN 10
    ELSE IF s[i - 1].max \in {1, 10} THEN 2 ELSE 1

\* opj_t2_init_seg; the segments behind i are not looked at again
InitSeg(s, i) ==
    Append(SubSeq(s, 1, i - 1),
           [max |-> Limit(s, i), passes |-> 0, newp |-> 0, newlen |-> 0, len |-> 0, real |-> 0, owed |-> 0])

Full(s) == s.passes = s.max
\* the segment that takes the first of a block's new passes
FirstNew(b) == IF numsegs[b] = 0 THEN 1
               ELSE IF Full(segs[b][numsegs[b]]) THEN numsegs[b] + 1 ELSE numsegs[b]
Skipping == layno >= q.wanted

\* opj_t2_read_packet_header up to the loop over the code-blocks
BeginRead ==
    /\ phase = "packet" /\ layno < q.layers
    /\ LET i == Read(InitDec([k \in DOMAIN rest |-> rest[k].val]), 1)
       IN  /\ in' = i.in
           /\ IF i.v = 1 THEN phase' = "header" /\ UNCHANGED <<rest, layno>>
              ELSE /\ rest' = SubSeq(rest, InAlign(i.in).bp + 1, Len(rest))
                   /\ layno' = layno + 1
                   /\ UNCHANGED phase
    /\ IF layno = 0
       THEN /\ dtrees' = [incl |-> Reset(q.w, q.h), imsb |-> Reset(q.w, q.h)]
            /\ numsegs' = [b \in Blocks(q) |-> 0]
            /\ dec' = [b \in Blocks(q) |-> [dec[b] EXCEPT !.realsegs = 0]]
       ELSE UNCHANGED <<dtrees, numsegs, dec>>
    /\ cblkno' = 1 /\ partial' = FALSE
    /\ UNCHANGED <<q, encoder, arrived, segs, newpasses, segno, n, t1>>

(* The loop over the code-blocks.  That of the zero bit-planes asks the    *)
(* tree with thresholds 0, 1, 2, .. until the leaf is below: the tree of a *)
(* whole header answers by bandbps + 1, an exhausted one has value 999.    *)
ReadBlock ==
    /\ phase = "header" /\ cblkno \in Blocks(q)
    /\ LET b     == cblkno
           first == numsegs[b] = 0
           bit   == Read(in, 1)
           incl  == IF first THEN TgtDecode(in, dtrees.incl, Leaf(b), layno + 1)
                    ELSE [in |-> bit.in, tree |-> dtrees.incl, below |-> bit.v = 1]
           imsb  == IF first THEN TgtDecode(incl.in, dtrees.imsb, Leaf(b), q.bandbps + 2)
                    ELSE [in |-> incl.in, tree |-> dtrees.imsb]
           num   == GetNumPasses(imsb.in)
           comma == GetCommaCode(num.in)
       IN  IF ~incl.below
           THEN /\ in' = incl.in
                /\ dtrees' = [dtrees EXCEPT !.incl = incl.tree]
                /\ newpasses' = [newpasses EXCEPT ![b] = 0]
                /\ cblkno' = cblkno + 1
                /\ UNCHANGED <<phase, segs, dec, segno, n>>
           ELSE /\ in' = comma.in
                /\ dtrees' = [incl |-> incl.tree, imsb |-> imsb.tree]
                /\ dec' = [dec EXCEPT ![b].lenbits = (IF first THEN 3 ELSE @) + comma.v,
                                      ![b].planes = IF first THEN q.bandbps - imsb.tree[Last(Leaf(b))].value
                                                    ELSE @]
                /\ n' \in {num.v} \cap (1..164)
                /\ newpasses' = [newpasses EXCEPT ![b] = n']
                /\ segno' = FirstNew(b)
                /\ segs' = IF segno' > numsegs[b] THEN [segs EXCEPT ![b] = InitSeg(@, segno')] ELSE segs
                /\ phase' = "lengths"
                /\ UNCHANGED cblkno
    /\ UNCHANGED <<q, layno, encoder, rest, arrived, numsegs, partial, t1>>

\* mutant: a segment takes the passes of the layer whatever it holds already
NewPassesOfSeg(s, k) == Smaller(s.max, k)
NewPasses(s, k) == Smaller(s.max - s.passes, k)

\* an iteration of the loop over the segments of a block: its length
ReadSegment ==
    /\ phase = "lengths"
    /\ LET b    == cblkno
           s    == segs[b][segno]
           newp == NewPasses(s, n)
           bits == dec[b].lenbits + FloorLog2(newp)
           len  == Read(in, bits)
       IN  IF bits > 32 THEN phase' = "failed" /\ UNCHANGED <<cblkno, in, segs, segno, n>>
           ELSE /\ in' = len.in
                /\ n' = n - newp
                /\ \E newlen \in {len.v} \cap Nat :
                     LET read == [segs[b] EXCEPT ![segno] = [s EXCEPT !.newp = newp, !.newlen = newlen,
                                                                     !.owed = n]]
                     IN  segs' = [segs EXCEPT ![b] = IF n > newp THEN InitSeg(read, segno + 1) ELSE read]
                /\ IF n > newp THEN segno' = segno + 1 /\ UNCHANGED <<phase, cblkno>>
                   ELSE cblkno' = cblkno + 1 /\ phase' = "header" /\ UNCHANGED segno
    /\ UNCHANGED <<q, layno, encoder, rest, arrived, dtrees, numsegs, newpasses, dec, partial, t1>>

EndHeader ==
    /\ phase = "header" /\ cblkno \notin Blocks(q)
    /\ IF in.buf % 256 = 255 /\ in.bp = Len(in.bytes)
       THEN phase' = "failed" /\ UNCHANGED <<rest, in>>
       ELSE /\ in' = InAlign(in)
            /\ rest' = SubSeq(rest, in'.bp + 1, Len(rest))
            /\ phase' = "body"
    /\ cblkno' = 1
    /\ UNCHANGED <<q, layno, encoder, arrived, dtrees, segs, numsegs, newpasses, dec, segno, n, partial, t1>>

-----------------------------------------------------------------------------
Lost(d) == [d EXCEPT !.corrupted = TRUE, !.chunks = 0, !.bytes = <<>>]

\* opj_t2_read_packet_data, opj_t2_skip_packet_data: the next code-block
TakeBlock ==
    /\ phase = "body" /\ cblkno \in Blocks(q)
    /\ IF newpasses[cblkno] = 0 THEN cblkno' = cblkno + 1 /\ UNCHANGED <<phase, numsegs, dec>>
       ELSE IF ~Skipping /\ (partial \/ dec[cblkno].corrupted)
       THEN /\ dec' = [dec EXCEPT ![cblkno] = Lost(@)]
            /\ cblkno' = cblkno + 1
            /\ UNCHANGED <<phase, numsegs>>
       ELSE /\ numsegs' = [numsegs EXCEPT ![cblkno] = FirstNew(cblkno)]
            /\ phase' = "chunks"
            /\ UNCHANGED <<cblkno, dec>>
    /\ UNCHANGED <<q, layno, encoder, rest, arrived, in, dtrees, segs, newpasses, segno, n, partial, t1>>

\* a segment's bytes that are not there: strict decoding ends, other decoding
\* gives the code-block up, and all that is left of the tile is passed over
TakeShort ==
    /\ phase = "chunks"
    /\ segs[cblkno][numsegs[cblkno]].newlen > Len(rest)
    /\ IF q.strict THEN phase' = "failed" /\ UNCHANGED <<layno, cblkno, rest, dec, partial>>
       ELSE IF Skipping
       THEN /\ rest' = <<>>
            /\ layno' = layno + 1 /\ phase' = "packet"
            /\ UNCHANGED <<cblkno, dec, partial>>
       ELSE /\ partial' = TRUE
            /\ dec' = [dec EXCEPT ![cblkno] = [Lost(@) EXCEPT !.realsegs = numsegs[cblkno]]]
            /\ cblkno' = cblkno + 1 /\ phase' = "body"
            /\ UNCHANGED <<layno, rest>>
    /\ UNCHANGED <<q, encoder, arrived, in, dtrees, segs, numsegs, newpasses, segno, n, t1>>

TakeChunk ==
    /\ phase = "chunks"
    /\ LET b    == cblkno
           k    == numsegs[b]
           s    == segs[b][k]
           last == newpasses[b] = s.newp
           took == [s EXCEPT !.passes = @ + s.newp]
       IN  /\ s.newlen <= Len(rest)
           /\ rest' = SubSeq(rest, s.newlen + 1, Len(rest))
           /\ newpasses' = [newpasses EXCEPT ![b] = @ - s.newp]
           /\ IF Skipping
              THEN segs' = [segs EXCEPT ![b][k] = took] /\ UNCHANGED dec
              ELSE /\ segs' = [segs EXCEPT ![b][k] = [took EXCEPT !.real = took.passes, !.len = @ + s.newlen]]
                   /\ dec' = [dec EXCEPT ![b].chunks = @ + 1,
                                         ![b].bytes = @ \o SubSeq(rest, 1, s.newlen),
                                         ![b].realsegs = IF last THEN k ELSE @]
           /\ IF last THEN cblkno' = cblkno + 1 /\ phase' = "body" /\ UNCHANGED numsegs
              ELSE numsegs' = [numsegs EXCEPT ![b] = k + 1] /\ UNCHANGED <<cblkno, phase>>
    /\ UNCHANGED <<q, layno, encoder, arrived, in, dtrees, segno, n, partial, t1>>

EndPacket ==
    /\ phase = "body" /\ cblkno \notin Blocks(q)
    /\ rest' = IF partial THEN <<>> ELSE rest
    /\ layno' = layno + 1 /\ phase' = "packet"
    /\ UNCHANGED <<q, cblkno, encoder, arrived, in, dtrees, segs, numsegs, newpasses, dec, segno, n, partial, t1>>

-----------------------------------------------------------------------------
\* opj_t1_decode_cblk, for one block after the other
BeginBlocks ==
    /\ phase = "packet" /\ layno = q.layers
    /\ cblkno' = 1 /\ phase' = "t1"
    /\ UNCHANGED <<q, layno, encoder, decoder>>

DecodeBlock ==
    /\ phase = "t1" /\ cblkno \in Blocks(q)
    /\ t1' = [seg |-> 1, pass |-> 0, index |-> 0]
    /\ IF dec[cblkno].corrupted \/ dec[cblkno].chunks = 0
       THEN cblkno' = cblkno + 1 /\ UNCHANGED phase
       ELSE phase' = "segments" /\ UNCHANGED cblkno
    /\ UNCHANGED <<q, layno, encoder, rest, arrived, in, dtrees, segs, numsegs, newpasses, dec, segno, n, partial>>

\* bpno_plus_one before the pass k of block b, and how many passes precede 0
BpnoPlusOne(b, k) == q.roi + dec[b].planes - ((k + 2) \div 3)
PassesOfPlanes(b) == Larger(0, 3 * (q.roi + dec[b].planes) - 2)

\* mutant: the first pass of a bit-plane counts as the last of the one above
DecRawLate(b, k) == Lazy(q) /\ BpnoPlusOne(b, k) < dec[b].planes - 4 /\ PassType(k) < 2
\* whether the segment that begins with the pass k is decoded raw
DecRaw(b, k) == Lazy(q) /\ BpnoPlusOne(b, k) <= dec[b].planes - 4 /\ PassType(k) < 2

Seg == segs[cblkno][t1.seg]
DecodeSegment ==
    /\ phase = "segments" /\ t1.seg <= dec[cblkno].realsegs
    /\ t1' = [seg   |-> t1.seg + 1,
              pass  |-> t1.pass + Smaller(Seg.real, Larger(0, PassesOfPlanes(cblkno) - t1.pass)),
              index |-> t1.index + Seg.len]
    /\ UNCHANGED <<q, phase, layno, cblkno, encoder, rest, arrived, in, dtrees, segs, numsegs, newpasses, dec, segno, n, partial>>

EndBlock ==
    /\ phase = "segments" /\ t1.seg > dec[cblkno].realsegs
    /\ cblkno' = cblkno + 1 /\ phase' = "t1"
    /\ UNCHANGED <<q, layno, encoder, decoder>>

EndBlocks ==
    /\ phase = "t1" /\ cblkno \notin Blocks(q)
    /\ phase' = "done"
    /\ UNCHANGED <<q, layno, cblkno, encoder, decoder>>

\* the tile is decoded or opj_t2_decode_packets has failed
Finished == phase \in {"done", "failed"} /\ UNCHANGED vars

Next ==
    \/ BeginPacket \/ WriteBlock \/ WriteLength \/ EndWrite \/ Deliver
    \/ BeginRead \/ ReadBlock \/ ReadSegment \/ EndHeader
    \/ TakeBlock \/ TakeShort \/ TakeChunk \/ EndPacket
    \/ BeginBlocks \/ DecodeBlock \/ DecodeSegment \/ EndBlock \/ EndBlocks
    \/ Finished

Spec == Init /\ [][Next]_vars

-----------------------------------------------------------------------------
TypeOK ==
    /\ layno \in 0..q.layers
    /\ cblkno \in 1..(q.w * q.h + 1)
    /\ arrived \in 0..Len(file)
    /\ bio.ct \in 0..8 /\ bio.buf \in 0..65535
    /\ in.ct \in 0..8 /\ in.buf \in 0..65535 /\ in.bp \in 0..Len(in.bytes)
    /\ \A b \in Blocks(q) :
        /\ sent[b] \in 0..Passes(q, b) /\ upto[b] \in sent[b]..Passes(q, b)
        /\ dec[b].realsegs <= numsegs[b] /\ numsegs[b] <= Len(segs[b])
        /\ \A s \in ToSet(segs[b]) : s.real <= s.passes /\ s.passes <= s.max
    /\ phase = "lengths" => n > 0 /\ segno \in DOMAIN segs[cblkno]

Before(b) == IF layno = 0 THEN 0 ELSE layers[layno][b]
NewBytes(b) == FoldLeft(LAMBDA len, s : len + s.newlen, 0, SubSeq(segs[b], FirstNew(b), Len(segs[b])))
CutInHeader == arrived < Len(file) /\ file[arrived + 1].blk = 0 /\ file[arrived + 1].at > 1

\* A packet header that arrived whole tells the decoder, for every code-block, the
\* passes and the bytes that the layer adds to it and its bit-planes, and ends at
\* the byte where the encoder ended it; a whole tile is never refused (t2.c:1050
\* against 662, with the bit stuffing of bio.c:75 and the trees of tgt.c:236).
HeaderAgrees ==
    /\ phase = "packet" /\ rest # <<>> => rest[1] = HeaderByte(rest[1].val, 1)
    /\ phase = "failed" => arrived < Len(file)
    /\ phase = "body" /\ cblkno = 1 /\ (rest # <<>> \/ ~CutInHeader) =>
        /\ file[arrived - Len(rest)].blk = 0
        /\ rest # <<>> => rest[1].blk # 0 \/ rest[1].at = 1
        /\ \A b \in Blocks(q) :
            LET to == layers[layno + 1][b]
            IN  /\ newpasses[b] = to - Before(b)
                /\ to > Before(b) => /\ dec[b].planes = q.blocks[b].numbps
                                     /\ NewBytes(b) = RateAt(b, to) - RateAt(b, Before(b))

\* the pass with which the segment i begins
First(p, i) ==
    IF Termall(p) THEN i - 1
    ELSE IF ~Lazy(p) THEN 109 * (i - 1)
    ELSE IF i = 1 THEN 0
    ELSE IF i % 2 = 0 THEN 10 + 3 * ((i - 2) \div 2) ELSE 12 + 3 * ((i - 3) \div 2)

\* The decoder's segments, which it counts out by itself (opj_t2_init_seg,
\* t2.c:1659), end exactly behind the passes that the encoder terminates
\* (opj_t1_enc_is_term_pass, t1.c:2539); only the last pass of a block ends one early.
LimitsMatch ==
    \A b \in Blocks(q) : \A i \in DOMAIN segs[b] :
        /\ segs[b][i].max = First(q, i + 1) - First(q, i)
        /\ \A k \in First(q, i)..(First(q, i + 1) - 1) :
            k < Passes(q, b) - 1 => (Term(q, b, k) <=> k = First(q, i + 1) - 1)

\* The passes of a segment are decoded as they were coded, raw or by the MQ coder:
\* "beyond terminate all the magnitude refinement passes (in raw) and cleanup passes
\* (in MQC)" (t1.c:2559).
CodedAlike ==
    phase = "segments" /\ t1.seg <= dec[cblkno].realsegs /\ ~CutInHeader =>
        \A k \in t1.pass..(t1.pass + Seg.real - 1) :
            EncRaw(q, cblkno, k) <=> DecRaw(cblkno, t1.pass) /\ PassType(k) < 2

\* Tier 1 gets, for every segment it decodes, the bytes that the encoder's passes of
\* this segment gave, from the first on, whatever layers they came in and wherever
\* the tile was cut; all of them when no header was cut.  Of a block it does not
\* give up it gets every byte of the wanted layers that arrived (t2.c:1384, t1.c:2113).
DecodesWhatArrived ==
    /\ phase = "segments" /\ t1.seg <= dec[cblkno].realsegs =>
        LET b  == cblkno
            to == t1.pass + Seg.real
        IN  /\ t1.index + Seg.len <= Len(dec[b].bytes)
            /\ \A i \in 1..Seg.len : dec[b].bytes[t1.index + i] = BlockByte(b, RateAt(b, t1.pass) + i)
            /\ ~CutInHeader => /\ t1.pass = First(q, t1.seg) /\ to <= Passes(q, b)
                               /\ Seg.len = RateAt(b, to) - RateAt(b, t1.pass)
    /\ phase = "t1" /\ cblkno = 1 => \A b \in Blocks(q) :
        LET kept == IF q.wanted = 0 THEN 0 ELSE RateAt(b, layers[q.wanted][b])
        IN  ~dec[b].corrupted => Len(dec[b].bytes) =
                Cardinality({i \in 1..arrived : file[i].blk = b /\ file[i].at <= kept})
    /\ q.roi = 0 => CodedAlike
=============================================================================
