------------------------- MODULE PacketCodingProofs -------------------------
(***************************************************************************)
(* Proof that the segments which the decoder counts out end where the      *)
(* encoder terminates its passes, for every precinct, division into layers *)
(* and cut.  What the bit reader returns is left open: the argument is     *)
(* about maxpasses alone, and about no segment being used before           *)
(* opj_t2_init_seg has set it up behind its predecessor.                   *)
(***************************************************************************)
EXTENDS PacketCoding, TLAPS

Segment == [max : Int, passes : Int, newp : Int, newlen : Int, len : Int, real : Int, owed : Int]

Types ==
    /\ q \in Precincts
    /\ cblkno \in Nat \ {0}
    /\ segs \in [Blocks(q) -> Seq(Segment)]
    /\ numsegs \in [Blocks(q) -> Nat]
    /\ newpasses \in [Blocks(q) -> Int]
    /\ n \in Int /\ segno \in Int

Limited(s) == \A i \in 1..Len(s) : s[i].max = First(q, i + 1) - First(q, i)

\* the segments from f to e share out p passes
Linked(s, i) == s[i + 1].owed = s[i].owed - s[i].newp
Chain(s, f, e, p) ==
    /\ f \in 1..e /\ e \in 1..Len(s)
    /\ s[f].owed = p
    /\ s[e].newp = s[e].owed
    /\ \A i \in f..(e - 1) : Linked(s, i)
Shares(b, f) == \E e \in 1..Len(segs[b]) : Chain(segs[b], f, e, newpasses[b])

\* the blocks whose new passes the header has told and the body not yet brought
Told(b) == CASE phase \in {"header", "lengths"} -> b < cblkno
             [] phase = "body" -> b >= cblkno
             [] phase = "chunks" -> b > cblkno
             [] OTHER -> FALSE

AllLimited == \A b \in Blocks(q) : Limited(segs[b])
AllCounted == \A b \in Blocks(q) : numsegs[b] <= Len(segs[b])
AllShared  == \A b \in Blocks(q) : Told(b) /\ newpasses[b] # 0 => Shares(b, FirstNew(b))
\* while the lengths of a block are read
Reading ==
    phase = "lengths" =>
        /\ cblkno \in Blocks(q)
        /\ LET s == segs[cblkno]
               f == FirstNew(cblkno)
           IN  /\ segno \in f..Len(s)
               /\ segno = f => n = newpasses[cblkno]
               /\ segno > f => /\ s[f].owed = newpasses[cblkno]
                               /\ n = s[segno - 1].owed - s[segno - 1].newp
                               /\ \A i \in f..(segno - 2) : Linked(s, i)
\* and while its segments are taken
Taking == phase = "chunks" => cblkno \in Blocks(q) /\ Shares(cblkno, numsegs[cblkno])

IInv == Types /\ AllLimited /\ AllCounted /\ AllShared /\ Reading /\ Taking

-----------------------------------------------------------------------------
\* The limits of the styles add up to the passes First, whatever i.
LEMMA FirstGrows ==
  ASSUME NEW p \in Precincts, NEW i \in Nat \ {0}
  PROVE  /\ First(p, i) \in Int
         /\ Termall(p) => First(p, i + 1) - First(p, i) = 1
         /\ ~Termall(p) /\ ~Lazy(p) => First(p, i + 1) - First(p, i) = 109
         /\ ~Termall(p) /\ Lazy(p) =>
              First(p, i + 1) - First(p, i) = IF i = 1 THEN 10 ELSE IF i % 2 = 0 THEN 2 ELSE 1
<1>1. First(p, i) \in Int
  BY DEF First
<1>2. Termall(p) => First(p, i + 1) - First(p, i) = 1
  BY DEF First
<1>3. ~Termall(p) /\ ~Lazy(p) => First(p, i + 1) - First(p, i) = 109
  BY DEF First
<1>4. ASSUME ~Termall(p), Lazy(p)
      PROVE  First(p, i + 1) - First(p, i) = IF i = 1 THEN 10 ELSE IF i % 2 = 0 THEN 2 ELSE 1
  BY <1>4, SMTT(30) DEF First
<1>5. QED BY <1>1, <1>2, <1>3, <1>4

\* Between First(p, i) and First(p, i + 1) the encoder terminates the last pass only.
LEMMA EncoderTerminates ==
  ASSUME NEW p \in Precincts, NEW b \in Blocks(p), NEW i \in Nat \ {0}, NEW k \in Int,
         k \in First(p, i)..(First(p, i + 1) - 1), k < Passes(p, b) - 1
  PROVE  Term(p, b, k) <=> k = First(p, i + 1) - 1
<1> DEFINE numbps == p.blocks[b].numbps
<1>1. numbps \in 0..37 /\ Passes(p, b) = IF numbps = 0 THEN 0 ELSE 3 * numbps - 2
  BY PrecinctsAssumption DEF Blocks, Passes
<1>2. First(p, i) \in Int /\ First(p, i + 1) \in Int
  BY FirstGrows
<1>3. k >= 0
  BY <1>2 DEF First
<1>4. numbps \in 1..37 /\ k < 3 * numbps - 3 /\ k <= 107
  BY <1>1, <1>3
<1> HIDE DEF numbps
<1>5. CASE Termall(p)
  BY <1>5, <1>3 DEF First, Term
<1>6. CASE ~Termall(p) /\ ~Lazy(p)
  <2>1. i = 1 /\ k < 108
    BY <1>6, <1>4 DEF First
  <2>2. ~(PassType(k) = 2 /\ Bpno(numbps, k) = 0)
    BY <1>4, <1>3 DEF PassType, Bpno
  <2>3. QED BY <1>6, <2>1, <2>2 DEF First, Term, numbps
<1>7. CASE ~Termall(p) /\ Lazy(p)
  <2>1. Term(p, b, k) <=> \/ PassType(k) = 2 /\ Bpno(numbps, k) = 0
                          \/ Bpno(numbps, k) = numbps - 4 /\ PassType(k) = 2
                          \/ Bpno(numbps, k) < numbps - 4 /\ PassType(k) > 0
    BY <1>7 DEF Term, numbps
  <2>2. Term(p, b, k) <=> k = 9 \/ (k >= 10 /\ (k + 2) % 3 > 0)
    BY <2>1, <1>4, <1>3 DEF PassType, Bpno
  <2>3. CASE i = 1
    BY <2>2, <2>3, <1>7, <1>3 DEF First
  <2>4. CASE i # 1 /\ i % 2 = 0
    <3>1. PICK j \in Nat : i = 2 * j + 2
      <4>1. (i - 2) \div 2 \in Nat /\ i = 2 * ((i - 2) \div 2) + 2
        BY <2>4
      <4>2. QED BY <4>1
    <3>2. First(p, i) = 10 + 3 * j /\ First(p, i + 1) = 12 + 3 * j
      BY <3>1, <1>7 DEF First
    <3>3. QED BY <2>2, <3>2, <1>3
  <2>5. CASE i # 1 /\ i % 2 # 0
    <3>1. PICK j \in Nat : i = 2 * j + 3
      <4>1. (i - 3) \div 2 \in Nat /\ i = 2 * ((i - 3) \div 2) + 3
        BY <2>5
      <4>2. QED BY <4>1
    <3>2. First(p, i) = 12 + 3 * j /\ First(p, i + 1) = 13 + 3 * j
      BY <3>1, <1>7 DEF First
    <3>3. QED BY <2>2, <3>2, <1>3
  <2>6. QED BY <2>3, <2>4, <2>5
<1>8. QED BY <1>5, <1>6, <1>7

\* opj_t2_init_seg gives a new segment the limit of its place.
LEMMA InitSegLimits ==
  ASSUME NEW s \in Seq(Segment), NEW i \in Int, i \in 1..(Len(s) + 1), q \in Precincts,
         Limited(s)
  PROVE  /\ InitSeg(s, i) \in Seq(Segment)
         /\ Len(InitSeg(s, i)) = i
         /\ \A j \in 1..(i - 1) : InitSeg(s, i)[j] = s[j]
         /\ Limited(InitSeg(s, i))
<1> DEFINE new == [max |-> Limit(s, i), passes |-> 0, newp |-> 0, newlen |-> 0, len |-> 0,
                   real |-> 0, owed |-> 0]
           old == SubSeq(s, 1, i - 1)
<1>1. Limit(s, i) = First(q, i + 1) - First(q, i)
  <2>1. CASE i = 1
    BY <2>1, FirstGrows DEF Limit
  <2>2. CASE i > 1
    <3>1. s[i - 1].max = First(q, (i - 1) + 1) - First(q, i - 1)
      BY <2>2 DEF Limited
    <3>2. i \in Nat \ {0} /\ i - 1 \in Nat \ {0}
      BY <2>2
    <3> DEFINE j == i - 1
    <3>3. Lazy(q) /\ ~Termall(q) =>
            First(q, j + 1) - First(q, j) = IF j = 1 THEN 10 ELSE IF j % 2 = 0 THEN 2 ELSE 1
      BY <3>2, FirstGrows
    <3>4. CASE Lazy(q) /\ ~Termall(q)
      <4>1. First(q, i + 1) - First(q, i) = IF i % 2 = 0 THEN 2 ELSE 1
        BY <2>2, <3>2, <3>4, FirstGrows
      <4>2. Limit(s, i) = IF s[i - 1].max \in {1, 10} THEN 2 ELSE 1
        BY <2>2, <3>4 DEF Limit
      <4>3. s[i - 1].max = IF i = 2 THEN 10 ELSE IF i % 2 = 1 THEN 2 ELSE 1
        BY <2>2, <3>1, <3>3, <3>4
      <4>4. QED BY <4>1, <4>2, <4>3, <2>2
    <3>5. QED BY <3>2, <3>4, FirstGrows DEF Limit
  <2>3. QED BY <2>1, <2>2
<1>2. Limit(s, i) \in Int
  BY <1>1, FirstGrows
<1>3. new \in Segment
  BY <1>2 DEF Segment
<1>4. old \in Seq(Segment) /\ Len(old) = i - 1 /\ \A j \in 1..(i - 1) : old[j] = s[j]
  OBVIOUS
<1> HIDE DEF new, old
<1>5. InitSeg(s, i) = Append(old, new)
  BY DEF InitSeg, new, old
<1>6. /\ InitSeg(s, i) \in Seq(Segment)
      /\ Len(InitSeg(s, i)) = i
      /\ \A j \in 1..(i - 1) : InitSeg(s, i)[j] = s[j]
      /\ InitSeg(s, i)[i] = new
  BY <1>3, <1>4, <1>5
<1>7. new.max = Limit(s, i)
  BY DEF new
<1>8. ASSUME NEW j \in 1..i
      PROVE  InitSeg(s, i)[j].max = First(q, j + 1) - First(q, j)
  <2>1. CASE j = i
    BY <2>1, <1>1, <1>6, <1>7
  <2>2. CASE j < i
    BY <2>2, <1>6 DEF Limited
  <2>3. QED BY <2>1, <2>2
<1>9. QED BY <1>6, <1>8 DEF Limited

-----------------------------------------------------------------------------
LEMMA BlocksCounted == \A p \in Precincts : p.w * p.h \in Nat /\ Blocks(p) = 1..(p.w * p.h)
<1> SUFFICES ASSUME NEW p \in Precincts PROVE p.w * p.h \in Nat
  BY DEF Blocks
<1>1. p.w \in Nat /\ p.h \in Nat
  BY PrecinctsAssumption
<1> DEFINE w == p.w
           h == p.h
<1>2. \A x, y \in Nat : x * y \in Nat
  OBVIOUS
<1> QED BY <1>1, <1>2

LEMMA InitIInv == Init => IInv
<1> SUFFICES ASSUME Init PROVE IInv
  OBVIOUS
<1>1. Types
  <2>1. <<>> \in Seq(Segment)
    OBVIOUS
  <2>2. QED BY <2>1 DEF Init, Types
<1>2. AllLimited /\ AllCounted
  BY DEF Init, AllLimited, AllCounted, Limited
<1>3. AllShared /\ Reading /\ Taking
  BY DEF Init, AllShared, Told, Reading, Taking
<1>4. QED BY <1>1, <1>2, <1>3 DEF IInv

\* A step that leaves the segments alone and announces no new passes.
LEMMA Frame ==
  ASSUME IInv, UNCHANGED <<q, segs, numsegs, newpasses, n, segno>>, cblkno' \in Nat \ {0},
         phase' \notin {"lengths", "chunks"}, \A b \in Blocks(q) : Told(b)' => Told(b)
  PROVE  IInv'
<1>1. Types'
  BY DEF IInv, Types
<1>2. AllLimited' /\ AllCounted'
  BY DEF IInv, AllLimited, AllCounted, Limited
<1>3. AllShared'
  <2> SUFFICES ASSUME NEW b \in Blocks(q), Told(b)', newpasses[b] # 0 PROVE Shares(b, FirstNew(b))'
    BY DEF AllShared
  <2>1. Shares(b, FirstNew(b))
    BY DEF IInv, AllShared
  <2>2. FirstNew(b)' = FirstNew(b)
    BY DEF FirstNew
  <2>3. QED BY <2>1, <2>2 DEF Shares
<1>4. Reading' /\ Taking'
  BY DEF Reading, Taking
<1>5. QED BY <1>1, <1>2, <1>3, <1>4 DEF IInv

\* The encoder, the end of a packet, and tier 1.
LEMMA OtherSteps ==
  ASSUME IInv,
         \/ BeginPacket \/ WriteBlock \/ WriteLength \/ EndWrite \/ Deliver \/ EndPacket
         \/ BeginBlocks \/ DecodeBlock \/ DecodeSegment \/ EndBlock \/ EndBlocks
  PROVE  IInv'
<1> USE DEF encoder, decoder
<1>1. cblkno \in Nat \ {0}
  BY DEF IInv, Types
<1>2. CASE BeginPacket
  BY <1>2, Frame DEF BeginPacket, Told
<1>3. CASE WriteBlock
  BY <1>1, <1>3, Frame DEF WriteBlock, Told
<1>4. CASE WriteLength
  BY <1>1, <1>4, Frame DEF WriteLength, Told
<1>5. CASE EndWrite
  BY <1>1, <1>5, Frame DEF EndWrite, Told
<1>6. CASE Deliver
  BY <1>1, <1>6, Frame DEF Deliver, Told
<1>7. CASE EndPacket
  BY <1>1, <1>7, Frame DEF EndPacket, Told
<1>8. CASE BeginBlocks
  BY <1>8, Frame DEF BeginBlocks, Told
<1>9. CASE DecodeBlock
  BY <1>1, <1>9, Frame DEF DecodeBlock, Told
<1>10. CASE DecodeSegment
  BY <1>1, <1>10, Frame DEF DecodeSegment, Told
<1>11. CASE EndBlock
  BY <1>1, <1>11, Frame DEF EndBlock, Told
<1>12. CASE EndBlocks
  BY <1>1, <1>12, Frame DEF EndBlocks, Told
<1>13. QED BY <1>2, <1>3, <1>4, <1>5, <1>6, <1>7, <1>8, <1>9, <1>10, <1>11, <1>12

LEMMA BeginReadStep == ASSUME IInv, BeginRead PROVE IInv'
<1>1. UNCHANGED <<q, segs, newpasses, n, segno>> /\ cblkno' = 1
  BY DEF BeginRead
<1>2. numsegs' = numsegs \/ numsegs' = [b \in Blocks(q) |-> 0]
  BY DEF BeginRead
<1>3. phase' \in {"header", "packet"}
  BY DEF BeginRead
<1>4. Types'
  BY <1>1, <1>2 DEF IInv, Types
<1>5. AllLimited'
  BY <1>1 DEF IInv, AllLimited, Limited
<1>6. AllCounted'
  <2> SUFFICES ASSUME NEW b \in Blocks(q) PROVE numsegs'[b] <= Len(segs[b])
    BY <1>1 DEF AllCounted
  <2>1. Len(segs[b]) \in Nat
    BY DEF IInv, Types
  <2>2. QED BY <1>2, <2>1 DEF IInv, AllCounted
<1>7. AllShared' /\ Reading' /\ Taking'
  <2>1. \A b \in Blocks(q) : ~Told(b)'
    BY <1>1, <1>3, BlocksCounted DEF Told, IInv, Types
  <2>2. QED BY <1>1, <1>3, <2>1 DEF AllShared, Reading, Taking
<1>8. QED BY <1>4, <1>5, <1>6, <1>7 DEF IInv

LEMMA EndHeaderStep == ASSUME IInv, EndHeader PROVE IInv'
<1>1. \A b \in Blocks(q) : b < cblkno
  BY BlocksCounted DEF EndHeader, IInv, Types
<1>2. \A b \in Blocks(q) : Told(b)
  BY <1>1 DEF EndHeader, Told
<1>3. QED BY <1>2, Frame DEF EndHeader

LEMMA TakeShortStep == ASSUME IInv, TakeShort PROVE IInv'
<1>1. cblkno \in Blocks(q) /\ cblkno \in Nat
  BY DEF IInv, Types, Taking, TakeShort
<1>2. \/ phase' = "failed" /\ cblkno' = cblkno
      \/ phase' = "packet" /\ cblkno' = cblkno
      \/ phase' = "body" /\ cblkno' = cblkno + 1
  BY DEF TakeShort
<1>3. \A b \in Blocks(q) : Told(b)' => Told(b)
  BY <1>1, <1>2, BlocksCounted DEF TakeShort, Told, IInv, Types
<1>4. QED BY <1>1, <1>2, <1>3, Frame DEF TakeShort, IInv, Types

\* Taking the segments of a block begins at FirstNew, which the header set up.
LEMMA TakeBlockStep == ASSUME IInv, TakeBlock PROVE IInv'
<1>1. /\ cblkno \in Blocks(q) /\ cblkno \in Nat \ {0}
      /\ \A b \in Blocks(q) : b \in Nat
  BY BlocksCounted DEF IInv, Types, TakeBlock
<1>2. CASE cblkno' = cblkno + 1 /\ UNCHANGED <<phase, numsegs>>
  <2>1. \A b \in Blocks(q) : Told(b)' => Told(b)
    BY <1>1, <1>2 DEF TakeBlock, Told
  <2>2. QED BY <1>1, <1>2, <2>1, Frame DEF TakeBlock
<1>3. CASE /\ newpasses[cblkno] # 0
           /\ numsegs' = [numsegs EXCEPT ![cblkno] = FirstNew(cblkno)]
           /\ phase' = "chunks" /\ cblkno' = cblkno
  <2> DEFINE c == cblkno
             f == FirstNew(cblkno)
  <2>1. UNCHANGED <<q, segs, newpasses, n, segno>>
    BY DEF TakeBlock
  <2>2. Shares(c, f)
    BY <1>1, <1>3 DEF TakeBlock, Told, IInv, AllShared
  <2>3. f \in Nat /\ f <= Len(segs[c]) /\ Len(segs[c]) \in Nat
    <3>1. segs[c] \in Seq(Segment)
      BY <1>1 DEF IInv, Types
    <3>2. QED BY <2>2, <3>1 DEF Shares, Chain
  <2>4. numsegs' \in [Blocks(q) -> Nat] /\ numsegs'[c] = f
        /\ \A b \in Blocks(q) : b # c => numsegs'[b] = numsegs[b]
    BY <1>1, <1>3, <2>3 DEF IInv, Types
  <2> HIDE DEF f
  <2>5. Types'
    BY <1>3, <2>1, <2>4 DEF IInv, Types
  <2>6. AllLimited'
    BY <2>1 DEF IInv, AllLimited, Limited
  <2>7. AllCounted'
    BY <2>1, <2>3, <2>4 DEF IInv, AllCounted
  <2>8. AllShared'
    <3> SUFFICES ASSUME NEW b \in Blocks(q), Told(b)', newpasses[b] # 0
                 PROVE  Shares(b, FirstNew(b))'
      BY <2>1 DEF AllShared
    <3>1. b > c
      BY <1>1, <1>3 DEF Told
    <3>2. Told(b)
      BY <1>1, <3>1 DEF Told, TakeBlock
    <3>3. Shares(b, FirstNew(b))
      BY <3>2 DEF IInv, AllShared
    <3>4. FirstNew(b)' = FirstNew(b)
      BY <1>1, <2>1, <2>4, <3>1 DEF FirstNew
    <3>5. QED BY <2>1, <3>3, <3>4 DEF Shares
  <2>9. Reading' /\ Taking'
    BY <1>1, <1>3, <2>1, <2>2, <2>4 DEF Reading, Taking, Shares, f
  <2>10. QED BY <2>5, <2>6, <2>7, <2>8, <2>9 DEF IInv
<1>4. QED BY <1>2, <1>3 DEF TakeBlock

\* A change of the bytes and passes of a segment leaves limits and chains alone.
Alike(s, r) == /\ s \in Seq(Segment) /\ r \in Seq(Segment) /\ Len(r) = Len(s)
               /\ \A i \in 1..Len(s) : /\ r[i].max = s[i].max
                                       /\ r[i].owed = s[i].owed /\ r[i].newp = s[i].newp

\* Taking a segment goes on to the next of the chain, which is there.
LEMMA TakeChunkStep == ASSUME IInv, TakeChunk PROVE IInv'
<1> DEFINE c == cblkno
           k == numsegs[c]
           s == segs[c]
           last == newpasses[c] = s[k].newp
<1>1. /\ c \in Blocks(q) /\ c \in Nat \ {0} /\ k \in Nat
      /\ \A b \in Blocks(q) : b \in Nat
      /\ s \in Seq(Segment)
  <2>1. phase = "chunks"
    BY DEF TakeChunk
  <2>2. c \in Blocks(q)
    BY <2>1 DEF IInv, Taking
  <2>3. \A b \in Blocks(q) : b \in Nat
    BY BlocksCounted DEF IInv, Types
  <2>4. QED BY <2>2, <2>3 DEF IInv, Types
<1>2. PICK e \in 1..Len(s) : Chain(s, k, e, newpasses[c])
  BY DEF IInv, Taking, TakeChunk, Shares
<1>3. k \in 1..Len(s) /\ s[k] \in Segment /\ s[k].newp \in Int /\ Len(s) \in Nat
  <2>1. Len(s) \in Nat
    BY <1>1
  <2>2. k \in 1..Len(s)
    BY <1>2, <2>1 DEF Chain
  <2>3. s[k] \in Segment
    BY <1>1, <2>2
  <2>4. QED BY <2>1, <2>2, <2>3 DEF Segment
<1>4. UNCHANGED <<q, n, segno>>
  BY DEF TakeChunk
<1>5. PICK t : /\ t \in Segment /\ t.max = s[k].max /\ t.owed = s[k].owed /\ t.newp = s[k].newp
               /\ segs' = [segs EXCEPT ![c][k] = t]
  <2> DEFINE sk == s[k]
             took == [sk EXCEPT !.passes = @ + sk.newp]
             read == [took EXCEPT !.real = took.passes, !.len = @ + sk.newlen]
  <2>1. sk \in Segment
    BY <1>3
  <2>2. segs' = [segs EXCEPT ![c][k] = took] \/ segs' = [segs EXCEPT ![c][k] = read]
    BY DEF TakeChunk
  <2> HIDE DEF sk
  <2>3. took \in Segment /\ took.max = sk.max /\ took.owed = sk.owed /\ took.newp = sk.newp
    BY <2>1 DEF Segment
  <2> HIDE DEF took
  <2>4. sk.newlen \in Int /\ took.passes \in Int /\ took.len \in Int
    BY <2>1, <2>3 DEF Segment
  <2>5. read \in Segment /\ read.max = sk.max /\ read.owed = sk.owed /\ read.newp = sk.newp
    <3> DEFINE tp == took.passes
               tl == took.len + sk.newlen
    <3>1. tp \in Int /\ tl \in Int
      BY <2>4
    <3> HIDE DEF tp, tl
    <3>2. LET u == [took EXCEPT !.real = tp, !.len = tl]
          IN  u \in Segment /\ u.max = took.max /\ u.owed = took.owed /\ u.newp = took.newp
      BY <2>3, <3>1 DEF Segment
    <3>3. QED BY <2>3, <3>2 DEF tp, tl
  <2>6. QED BY <2>2, <2>3, <2>5 DEF sk
<1> DEFINE r == [s EXCEPT ![k] = t]
<1>6. segs' = [segs EXCEPT ![c] = r]
  BY <1>5
<1>7. Alike(s, r)
  BY <1>1, <1>3, <1>5 DEF Alike
<1> HIDE DEF r
<1>8. /\ segs' \in [Blocks(q) -> Seq(Segment)] /\ segs'[c] = r
      /\ \A b \in Blocks(q) : b # c => segs'[b] = segs[b]
  BY <1>1, <1>6, <1>7 DEF IInv, Types, Alike
<1>9. /\ newpasses' \in [Blocks(q) -> Int] /\ newpasses'[c] = newpasses[c] - s[k].newp
      /\ \A b \in Blocks(q) : b # c => newpasses'[b] = newpasses[b]
  BY <1>1, <1>3 DEF TakeChunk, IInv, Types
<1>10. \/ /\ last
          /\ cblkno' = c + 1 /\ phase' = "body" /\ numsegs' = numsegs
       \/ /\ ~last
          /\ numsegs' = [numsegs EXCEPT ![c] = k + 1] /\ cblkno' = c /\ phase' = phase
  BY DEF TakeChunk
<1>11. phase = "chunks"
  BY DEF TakeChunk
<1> HIDE DEF last
<1>12. /\ numsegs' \in [Blocks(q) -> Nat]
       /\ numsegs'[c] = IF last THEN k ELSE k + 1
       /\ \A b \in Blocks(q) : b # c => numsegs'[b] = numsegs[b]
  <2>1. numsegs \in [Blocks(q) -> Nat] /\ k + 1 \in Nat
    BY <1>1 DEF IInv, Types
  <2>2. CASE last
    BY <2>1, <2>2, <1>10
  <2>3. CASE ~last
    BY <2>1, <2>3, <1>1, <1>10
  <2>4. QED BY <2>2, <2>3
<1>13. Types'
  <2>1. cblkno' \in Nat \ {0}
    BY <1>1, <1>10
  <2>2. q' \in Precincts /\ n' \in Int /\ segno' \in Int /\ Blocks(q)' = Blocks(q)
    BY <1>4 DEF IInv, Types
  <2>3. QED BY <1>8, <1>9, <1>12, <2>1, <2>2, Zenon DEF Types
<1>14. AllLimited'
  <2> SUFFICES ASSUME NEW b \in Blocks(q), NEW i \in 1..Len(segs'[b])
               PROVE  segs'[b][i].max = First(q, i + 1) - First(q, i)
    BY <1>4 DEF AllLimited, Limited
  <2>1. i \in 1..Len(segs[b]) /\ segs'[b][i].max = segs[b][i].max
    BY <1>7, <1>8 DEF Alike
  <2>2. QED BY <2>1 DEF IInv, AllLimited, Limited
<1>15. ~last => k + 1 <= Len(s) /\ Chain(r, k + 1, e, newpasses'[c]) /\ Len(r) = Len(s)
  <2> SUFFICES ASSUME ~last PROVE k + 1 <= e /\ Chain(r, k + 1, e, newpasses'[c]) /\ Len(r) = Len(s)
    BY <1>2, <1>3
  <2>1. k < e
    BY <1>2, <1>3 DEF Chain, last
  <2>2. s[k + 1].owed = newpasses'[c]
    BY <1>2, <1>3, <1>9, <2>1 DEF Chain, Linked
  <2>3. k + 1 \in 1..Len(s) /\ e \in 1..Len(s) /\ Len(r) = Len(s)
    BY <1>2, <1>3, <1>7, <2>1 DEF Alike
  <2>4. r[k + 1].owed = newpasses'[c] /\ r[e].newp = r[e].owed
    BY <1>2, <1>7, <2>2, <2>3 DEF Alike, Chain
  <2>5. ASSUME NEW i \in (k + 1)..(e - 1) PROVE Linked(r, i)
    <3>1. i \in k..(e - 1) /\ i \in 1..Len(s) /\ i + 1 \in 1..Len(s)
      BY <1>3, <2>3
    <3>2. Linked(s, i)
      BY <1>2, <3>1 DEF Chain
    <3>3. QED BY <1>7, <3>1, <3>2 DEF Linked, Alike
  <2>6. QED BY <1>3, <2>1, <2>3, <2>4, <2>5 DEF Chain
<1>16. AllCounted'
  <2> SUFFICES ASSUME NEW b \in Blocks(q) PROVE numsegs'[b] <= Len(segs'[b])
    BY <1>4 DEF AllCounted
  <2>1. Len(segs'[c]) = Len(s)
    BY <1>7, <1>8 DEF Alike
  <2>2. QED BY <1>3, <1>8, <1>12, <1>15, <2>1 DEF IInv, AllCounted
<1>17. AllShared'
  <2> SUFFICES ASSUME NEW b \in Blocks(q), Told(b)', newpasses'[b] # 0
               PROVE  Shares(b, FirstNew(b))'
    BY <1>4 DEF AllShared
  <2>1. b > c
    BY <1>1, <1>10, <1>11 DEF Told
  <2>2. segs'[b] = segs[b] /\ numsegs'[b] = numsegs[b] /\ newpasses'[b] = newpasses[b]
    <3>1. b # c
      BY <1>1, <2>1
    <3>2. QED BY <1>8, <1>9, <1>12, <3>1
  <2>3. Shares(b, FirstNew(b))
    BY <1>11, <2>1, <2>2 DEF Told, IInv, AllShared
  <2>4. FirstNew(b)' = FirstNew(b)
    BY <2>2 DEF FirstNew
  <2>5. QED BY <2>2, <2>3, <2>4 DEF Shares
<1>18. Reading' /\ Taking'
  <2>1. Reading'
    BY <1>10, <1>11 DEF Reading
  <2>2. CASE last
    <3>1. phase' = "body"
      BY <2>2, <1>10
    <3>2. QED BY <2>1, <3>1 DEF Taking
  <2>3. CASE ~last
    <3>1. cblkno' = c /\ numsegs'[c] = k + 1 /\ segs'[c] = r
      BY <2>3, <1>8, <1>10, <1>12
    <3>2. Chain(r, k + 1, e, newpasses'[c]) /\ e \in 1..Len(r)
      BY <2>3, <1>15
    <3>3. Chain(segs'[cblkno'], numsegs'[cblkno'], e, newpasses'[cblkno'])
      BY <3>1, <3>2
    <3>4. cblkno' \in Blocks(q)' /\ e \in 1..Len(segs'[cblkno'])
      BY <1>1, <1>4, <3>1, <3>2 DEF Blocks
    <3>5. QED BY <2>1, <3>3, <3>4 DEF Taking, Shares
  <2>4. QED BY <2>1, <2>2, <2>3
<1>19. QED BY <1>13, <1>14, <1>16, <1>17, <1>18 DEF IInv

\* The header tells a block's new passes: their first segment is set up unless the
\* block's last one goes on.
LEMMA ReadBlockStep == ASSUME IInv, ReadBlock PROVE IInv'
<1> DEFINE c == cblkno
           f == FirstNew(c)
           s == segs[c]
<1>1. /\ c \in Blocks(q) /\ c \in Nat \ {0} /\ phase = "header"
      /\ \A b \in Blocks(q) : b \in Nat
      /\ s \in Seq(Segment) /\ Len(s) \in Nat /\ numsegs[c] \in Nat /\ numsegs[c] <= Len(s)
  BY BlocksCounted DEF ReadBlock, IInv, Types, AllCounted
<1>2. UNCHANGED <<q, numsegs>>
  BY DEF ReadBlock
<1>3. ASSUME NEW b \in Blocks(q), Told(b)', newpasses'[b] # 0, b < c,
             segs'[b] = segs[b], newpasses'[b] = newpasses[b]
      PROVE  Shares(b, FirstNew(b))'
  <2>1. Shares(b, FirstNew(b))
    BY <1>1, <1>3 DEF Told, IInv, AllShared
  <2>2. FirstNew(b)' = FirstNew(b)
    BY <1>2, <1>3 DEF FirstNew
  <2>3. QED BY <1>3, <2>1, <2>2 DEF Shares
<1>4. CASE /\ newpasses' = [newpasses EXCEPT ![c] = 0] /\ cblkno' = c + 1
           /\ UNCHANGED <<phase, segs, segno, n>>
  <2>1. /\ newpasses' \in [Blocks(q) -> Int] /\ newpasses'[c] = 0
        /\ \A b \in Blocks(q) : b # c => newpasses'[b] = newpasses[b]
    BY <1>1, <1>4 DEF IInv, Types
  <2>2. Types'
    BY <1>1, <1>2, <1>4, <2>1 DEF IInv, Types
  <2>3. AllLimited' /\ AllCounted'
    BY <1>2, <1>4 DEF IInv, AllLimited, AllCounted, Limited
  <2>4. AllShared'
    <3> SUFFICES ASSUME NEW b \in Blocks(q), Told(b)', newpasses'[b] # 0
                 PROVE  Shares(b, FirstNew(b))'
      BY <1>2 DEF AllShared
    <3>1. b # c /\ b < c
      BY <1>1, <1>4, <2>1 DEF Told
    <3>2. QED BY <1>3, <1>4, <2>1, <3>1
  <2>5. Reading' /\ Taking'
    BY <1>1, <1>4 DEF Reading, Taking
  <2>6. QED BY <2>2, <2>3, <2>4, <2>5 DEF IInv
<1>5. CASE /\ n' \in 1..164 /\ newpasses' = [newpasses EXCEPT ![c] = n']
           /\ segno' = f
           /\ segs' = IF segno' > numsegs[c] THEN [segs EXCEPT ![c] = InitSeg(@, segno')] ELSE segs
           /\ phase' = "lengths" /\ cblkno' = c
  <2>1. /\ newpasses' \in [Blocks(q) -> Int] /\ newpasses'[c] = n' /\ n' \in Int
        /\ \A b \in Blocks(q) : b # c => newpasses'[b] = newpasses[b]
    BY <1>1, <1>5 DEF IInv, Types
  <2>2. f \in 1..(Len(s) + 1) /\ (f <= numsegs[c] => f = numsegs[c])
        /\ (f > numsegs[c] => f = numsegs[c] + 1)
    BY <1>1 DEF FirstNew
  <2>3. Limited(s) /\ q \in Precincts
    BY <1>1 DEF IInv, AllLimited, Types
  <2>4. /\ segs' \in [Blocks(q) -> Seq(Segment)] /\ Limited(segs'[c])
        /\ f <= Len(segs'[c]) /\ Len(segs'[c]) \in Nat /\ numsegs[c] <= Len(segs'[c])
        /\ numsegs[c] # 0 => segs'[c][numsegs[c]] = s[numsegs[c]]
        /\ \A b \in Blocks(q) : b # c => segs'[b] = segs[b]
    <3>1. CASE f > numsegs[c]
      <4> DEFINE i == InitSeg(s, f)
      <4>1. /\ i \in Seq(Segment) /\ Len(i) = f /\ Limited(i)
            /\ \A j \in 1..(f - 1) : i[j] = s[j]
        BY <1>1, <2>2, <2>3, InitSegLimits
      <4>2. segs' = [segs EXCEPT ![c] = i]
        BY <1>5, <3>1
      <4> HIDE DEF i
      <4>3. segs' \in [Blocks(q) -> Seq(Segment)] /\ segs'[c] = i
            /\ \A b \in Blocks(q) : b # c => segs'[b] = segs[b]
        BY <1>1, <4>1, <4>2 DEF IInv, Types
      <4>4. numsegs[c] # 0 => i[numsegs[c]] = s[numsegs[c]]
        BY <1>1, <2>2, <3>1, <4>1
      <4>5. QED BY <1>1, <2>2, <3>1, <4>1, <4>3, <4>4
    <3>2. CASE f <= numsegs[c]
      <4>1. segs' = segs
        BY <1>1, <1>5, <2>2, <3>2
      <4>2. QED BY <1>1, <2>2, <2>3, <3>2, <4>1 DEF IInv, Types
    <3>3. QED BY <1>1, <2>2, <3>1, <3>2
  <2>5. Types'
    BY <1>1, <1>2, <1>5, <2>1, <2>2, <2>4 DEF IInv, Types
  <2>6. AllLimited' /\ AllCounted'
    <3> SUFFICES ASSUME NEW b \in Blocks(q) PROVE Limited(segs'[b]) /\ numsegs[b] <= Len(segs'[b])
      BY <1>2 DEF AllLimited, AllCounted, Limited
    <3>1. QED BY <2>4 DEF IInv, AllLimited, AllCounted
  <2>7. AllShared'
    <3> SUFFICES ASSUME NEW b \in Blocks(q), Told(b)', newpasses'[b] # 0
                 PROVE  Shares(b, FirstNew(b))'
      BY <1>2 DEF AllShared
    <3>1. b # c /\ b < c
      BY <1>1, <1>5 DEF Told
    <3>2. QED BY <1>3, <2>1, <2>4, <3>1
  <2>8. FirstNew(c)' = f
    BY <1>1, <1>2, <1>5, <2>4 DEF FirstNew, Full
  <2>9. Reading' /\ Taking'
    <3>1. segno' \in f..Len(segs'[c]) /\ ~(segno' > f)
      BY <1>5, <2>2, <2>4
    <3>2. cblkno' \in Blocks(q)' /\ cblkno' = c
      BY <1>1, <1>2, <1>5 DEF Blocks
    <3> HIDE DEF f
    <3>3. FirstNew(cblkno)' = f
      BY <1>5, <2>8
    <3>4. QED BY <1>5, <2>1, <3>1, <3>2, <3>3 DEF Reading, Taking
  <2>10. QED BY <2>5, <2>6, <2>7, <2>9 DEF IInv
<1>6. QED BY <1>4, <1>5 DEF ReadBlock

\* The length of a segment is read, and the next one is set up while passes are owed:
\* when none are, the segments from FirstNew on share out what the header told.
LEMMA ReadSegmentStep == ASSUME IInv, ReadSegment PROVE IInv'
<1> DEFINE c == cblkno
           f == FirstNew(c)
           s == segs[c]
           newp == NewPasses(s[segno], n)
<1>1. phase = "lengths" /\ UNCHANGED <<q, numsegs, newpasses>>
  BY DEF ReadSegment
<1>2. /\ c \in Blocks(q) /\ c \in Nat \ {0} /\ n \in Int
      /\ \A b \in Blocks(q) : b \in Nat
      /\ s \in Seq(Segment) /\ Len(s) \in Nat /\ numsegs[c] \in Nat
      /\ segno \in f..Len(s)
  BY <1>1, BlocksCounted DEF IInv, Types, Reading
<1>3. f \in Nat \ {0} /\ numsegs[c] <= f /\ segno \in 1..Len(s) /\ segno \in Nat
  BY <1>2 DEF FirstNew
<1>4. s[segno] \in Segment
  BY <1>2, <1>3
<1>5. newp \in Int /\ (~(n > newp) => newp = n)
  <2> DEFINE sg == s[segno]
  <2>1. sg.max \in Int /\ sg.passes \in Int
    BY <1>4 DEF Segment
  <2> HIDE DEF sg
  <2>2. NewPasses(sg, n) \in Int /\ (~(n > NewPasses(sg, n)) => NewPasses(sg, n) = n)
    BY <1>2, <2>1 DEF NewPasses, Smaller
  <2>3. QED BY <2>2 DEF sg
<1> HIDE DEF newp
<1>6. CASE phase' = "failed" /\ UNCHANGED <<cblkno, segs, segno, n>>
  <2>1. \A b \in Blocks(q) : ~Told(b)'
    BY <1>1, <1>6 DEF Told
  <2>2. QED BY <1>1, <1>2, <1>6, <2>1, Frame
<1>7. CASE /\ n' = n - newp
           /\ \E newlen \in Nat :
                LET read == [s EXCEPT ![segno] = [s[segno] EXCEPT !.newp = newp, !.newlen = newlen, !.owed = n]]
                IN  segs' = [segs EXCEPT ![c] = IF n > newp THEN InitSeg(read, segno + 1) ELSE read]
           /\ IF n > newp THEN segno' = segno + 1 /\ UNCHANGED <<phase, cblkno>>
              ELSE cblkno' = c + 1 /\ phase' = "header" /\ UNCHANGED segno
  <2>1. PICK t : /\ t \in Segment /\ t.max = s[segno].max /\ t.passes = s[segno].passes
                 /\ t.newp = newp /\ t.owed = n
                 /\ LET read == [s EXCEPT ![segno] = t]
                    IN  segs' = [segs EXCEPT ![c] = IF n > newp THEN InitSeg(read, segno + 1) ELSE read]
    <3>1. PICK newlen \in Nat :
            LET read == [s EXCEPT ![segno] = [s[segno] EXCEPT !.newp = newp, !.newlen = newlen, !.owed = n]]
            IN  segs' = [segs EXCEPT ![c] = IF n > newp THEN InitSeg(read, segno + 1) ELSE read]
      BY <1>7
    <3> DEFINE sg == s[segno]
               t == [sg EXCEPT !.newp = newp, !.newlen = newlen, !.owed = n]
    <3>2. sg \in Segment
      BY <1>4
    <3>3. n \in Int /\ newp \in Int /\ newlen \in Int
      BY <1>2, <1>5, <3>1
    <3> HIDE DEF sg
    <3>4. t \in Segment /\ t.max = sg.max /\ t.passes = sg.passes /\ t.newp = newp /\ t.owed = n
      BY <3>3, <3>2 DEF Segment
    <3>5. QED BY <3>1, <3>4 DEF sg
  <2> DEFINE read == [s EXCEPT ![segno] = t]
  <2>2. /\ read \in Seq(Segment) /\ Len(read) = Len(s) /\ read[segno] = t
        /\ \A j \in 1..Len(s) : j # segno => read[j] = s[j]
    BY <1>2, <1>3, <2>1
  <2>3. segs' = [segs EXCEPT ![c] = IF n > newp THEN InitSeg(read, segno + 1) ELSE read]
    BY <2>1
  <2> HIDE DEF read
  <2>4. Limited(read) /\ q \in Precincts
    <3>1. Limited(s) /\ q \in Precincts
      BY <1>2 DEF IInv, AllLimited, Types
    <3>2. QED BY <1>3, <2>1, <2>2, <3>1 DEF Limited
  <2> DEFINE r == IF n > newp THEN InitSeg(read, segno + 1) ELSE read
  <2>5. /\ r \in Seq(Segment) /\ Limited(r)
        /\ Len(r) = IF n > newp THEN segno + 1 ELSE Len(s)
        /\ \A j \in 1..segno : r[j] = read[j]
    <3>1. CASE n > newp
      <4>1. segno + 1 \in 1..(Len(read) + 1) /\ segno + 1 \in Int /\ (segno + 1) - 1 = segno
        BY <1>3, <2>2
      <4>2. /\ InitSeg(read, segno + 1) \in Seq(Segment)
            /\ Len(InitSeg(read, segno + 1)) = segno + 1
            /\ \A j \in 1..segno : InitSeg(read, segno + 1)[j] = read[j]
            /\ Limited(InitSeg(read, segno + 1))
        BY <2>2, <2>4, <4>1, InitSegLimits
      <4>3. QED BY <3>1, <4>2
    <3>2. CASE ~(n > newp)
      BY <2>2, <2>4, <3>2
    <3>3. QED BY <3>1, <3>2
  <2>6. segs' = [segs EXCEPT ![c] = r]
    BY <2>3
  <2> HIDE DEF r
  <2>7. /\ segs' \in [Blocks(q) -> Seq(Segment)] /\ segs'[c] = r
        /\ \A b \in Blocks(q) : b # c => segs'[b] = segs[b]
    BY <1>2, <2>5, <2>6 DEF IInv, Types
  <2>8. segno \in 1..Len(r) /\ Len(r) \in Nat
    BY <1>2, <1>3, <2>5
  <2>9. n' \in Int /\ segno' \in Int /\ cblkno' \in Nat \ {0}
    BY <1>2, <1>3, <1>5, <1>7
  <2>10. Types'
    BY <1>1, <2>7, <2>9 DEF IInv, Types
  <2>11. AllLimited' /\ AllCounted'
    <3> SUFFICES ASSUME NEW b \in Blocks(q) PROVE Limited(segs'[b]) /\ numsegs[b] <= Len(segs'[b])
      BY <1>1 DEF AllLimited, AllCounted, Limited
    <3>1. numsegs[c] <= Len(r)
      BY <1>2, <1>3, <2>8
    <3>2. QED BY <2>5, <2>7, <3>1 DEF IInv, AllLimited, AllCounted
  <2>12. \A b \in Blocks(q) : b = c => FirstNew(b)' = f
    <3> SUFFICES ASSUME NEW b \in Blocks(q), b = c PROVE FirstNew(b)' = f
      OBVIOUS
    <3>1. ASSUME numsegs[c] # 0 PROVE Full(r[numsegs[c]]) = Full(s[numsegs[c]])
      <4>1. numsegs[c] \in 1..segno /\ numsegs[c] \in 1..Len(s)
        BY <1>2, <1>3, <3>1
      <4>2. CASE numsegs[c] = segno
        BY <2>1, <2>2, <2>5, <4>1, <4>2 DEF Full
      <4>3. CASE numsegs[c] # segno
        BY <2>2, <2>5, <4>1, <4>3
      <4>4. QED BY <4>2, <4>3
    <3>2. FirstNew(b)' = IF numsegs[c] = 0 THEN 1
                         ELSE IF Full(r[numsegs[c]]) THEN numsegs[c] + 1 ELSE numsegs[c]
      BY <1>1, <2>7 DEF FirstNew, Full
    <3>3. QED BY <3>1, <3>2 DEF FirstNew
  <2>13. /\ r[f].owed = newpasses[c]
         /\ r[segno].newp = newp /\ r[segno].owed = n
         /\ \A i \in f..(segno - 1) : Linked(r, i)
    <3>1. r[segno] = t
      BY <1>3, <2>2, <2>5
    <3>2. segno = f => n = newpasses[c]
      BY <1>1 DEF IInv, Reading
    <3>3. segno > f => /\ s[f].owed = newpasses[c]
                       /\ n = s[segno - 1].owed - s[segno - 1].newp
                       /\ \A i \in f..(segno - 2) : Linked(s, i)
      BY <1>1 DEF IInv, Reading
    <3>4. ASSUME NEW j \in 1..(segno - 1) PROVE r[j] = s[j]
      <4>1. j \in 1..segno /\ j \in 1..Len(s) /\ j # segno
        BY <1>2, <1>3
      <4>2. QED BY <2>2, <2>5, <4>1
    <3> HIDE DEF f
    <3>5. r[f].owed = newpasses[c]
      BY <1>2, <1>3, <2>1, <3>1, <3>2, <3>3, <3>4
    <3>6. ASSUME NEW i \in f..(segno - 1) PROVE Linked(r, i)
      <4>1. i \in 1..(segno - 1) /\ segno > f
        BY <1>3
      <4>2. CASE i = segno - 1
        BY <1>3, <2>1, <3>1, <3>3, <3>4, <4>1, <4>2 DEF Linked
      <4>3. CASE i < segno - 1
        <5>1. i + 1 \in 1..(segno - 1) /\ i \in f..(segno - 2)
          BY <1>3, <4>1, <4>3
        <5>2. QED BY <3>3, <3>4, <4>1, <5>1 DEF Linked
      <4>4. QED BY <1>3, <4>1, <4>2, <4>3
    <3>7. QED BY <2>1, <3>1, <3>5, <3>6
  <2>14. AllShared'
    <3> SUFFICES ASSUME NEW b \in Blocks(q), Told(b)', newpasses[b] # 0
                 PROVE  Shares(b, FirstNew(b))'
      BY <1>1 DEF AllShared
    <3>1. CASE b # c
      <4>1. Told(b)
        BY <1>1, <1>2, <1>7, <3>1 DEF Told
      <4>2. Shares(b, FirstNew(b))
        BY <4>1 DEF IInv, AllShared
      <4>3. segs'[b] = segs[b] /\ FirstNew(b)' = FirstNew(b)
        BY <1>1, <2>7, <3>1 DEF FirstNew
      <4>4. QED BY <1>1, <4>2, <4>3 DEF Shares
    <3>2. CASE b = c
      <4>1. ~(n > newp)
        BY <1>1, <1>2, <1>7, <3>2 DEF Told
      <4> HIDE DEF f
      <4>2. Chain(r, f, segno, newpasses[c])
        BY <1>2, <1>3, <1>5, <2>8, <2>13, <4>1 DEF Chain
      <4>3. segs'[b] = r /\ FirstNew(b)' = f
        BY <1>2, <2>7, <2>12, <3>2
      <4>4. QED BY <1>1, <2>8, <3>2, <4>2, <4>3 DEF Shares
    <3>3. QED BY <3>1, <3>2
  <2>15. Reading' /\ Taking'
    <3>1. CASE ~(n > newp)
      <4>1. phase' = "header"
        BY <1>7, <3>1
      <4>2. QED BY <4>1 DEF Reading, Taking
    <3>2. CASE n > newp
      <4>1. /\ phase' = "lengths" /\ cblkno' = c /\ segno' = segno + 1 /\ n' = n - newp
            /\ cblkno' \in Blocks(q)'
        BY <1>1, <1>2, <1>7, <3>2 DEF Blocks
      <4>2. FirstNew(cblkno)' = f
        BY <1>2, <2>12, <4>1 DEF FirstNew
      <4> HIDE DEF f
      <4>3. /\ segno' \in f..Len(r) /\ segno' > f /\ segno' - 1 = segno
            /\ \A i : i \in f..(segno' - 2) <=> i \in f..(segno - 1)
        BY <1>2, <1>3, <2>5, <3>2, <4>1
      <4>4. n' = r[segno' - 1].owed - r[segno' - 1].newp
        BY <2>13, <4>1, <4>3
      <4>5. \A i \in f..(segno' - 2) : Linked(r, i)
        BY <2>13, <4>3
      <4>6. segs'[cblkno'] = r /\ newpasses'[cblkno'] = newpasses[c]
        BY <1>1, <2>7, <4>1
      <4>7. segno' # f
        BY <1>3, <4>3
      <4>8. QED BY <2>13, <4>1, <4>2, <4>3, <4>4, <4>5, <4>6, <4>7 DEF Reading, Taking, Linked
    <3>3. QED BY <3>1, <3>2
  <2>16. QED BY <2>10, <2>11, <2>14, <2>15 DEF IInv
<1>8. QED BY <1>6, <1>7 DEF ReadSegment, newp

LEMMA StepIInv == IInv /\ [Next]_vars => IInv'
<1> SUFFICES ASSUME IInv, [Next]_vars PROVE IInv'
  OBVIOUS
<1>1. CASE \/ BeginPacket \/ WriteBlock \/ WriteLength \/ EndWrite \/ Deliver \/ EndPacket
           \/ BeginBlocks \/ DecodeBlock \/ DecodeSegment \/ EndBlock \/ EndBlocks
  BY <1>1, OtherSteps
<1>2. CASE BeginRead \/ ReadBlock \/ ReadSegment \/ EndHeader
  BY <1>2, BeginReadStep, ReadBlockStep, ReadSegmentStep, EndHeaderStep
<1>3. CASE TakeBlock \/ TakeShort \/ TakeChunk
  BY <1>3, TakeBlockStep, TakeShortStep, TakeChunkStep
<1>4. CASE UNCHANGED vars
  BY <1>4 DEF vars, encoder, decoder, IInv, Types, AllLimited, Limited, AllCounted, AllShared, Told,
     Shares, FirstNew, Reading, Taking
<1>5. QED BY <1>1, <1>2, <1>3, <1>4 DEF Next, Finished

\* What the proof rests on: a block's segments have the limits of their places, and
\* those from FirstNew on share out the passes that the header told (t2.c:1199-1330,
\* 1384-1541), so that no segment is used before opj_t2_init_seg has set it up.
THEOREM Segments == Spec => []IInv
<1> QED BY InitIInv, StepIInv, PTL DEF Spec

\* LimitsMatch for every precinct: the decoder's segments end exactly behind the
\* passes that the encoder terminates.
THEOREM SegmentsEndWhereTerminated == Spec => []LimitsMatch
<1>1. IInv => LimitsMatch
  <2> SUFFICES ASSUME IInv, NEW b \in Blocks(q), NEW i \in DOMAIN segs[b]
               PROVE  /\ segs[b][i].max = First(q, i + 1) - First(q, i)
                      /\ \A k \in First(q, i)..(First(q, i + 1) - 1) :
                           k < Passes(q, b) - 1 => (Term(q, b, k) <=> k = First(q, i + 1) - 1)
    BY DEF LimitsMatch
  <2>1. q \in Precincts /\ segs[b] \in Seq(Segment)
    BY DEF IInv, Types
  <2>2. i \in 1..Len(segs[b]) /\ i \in Nat \ {0}
    BY <2>1
  <2>3. segs[b][i].max = First(q, i + 1) - First(q, i)
    BY <2>2 DEF IInv, AllLimited, Limited
  <2>4. First(q, i) \in Int /\ First(q, i + 1) \in Int
    BY <2>1, <2>2, FirstGrows
  <2>5. ASSUME NEW k \in First(q, i)..(First(q, i + 1) - 1), k < Passes(q, b) - 1
        PROVE  Term(q, b, k) <=> k = First(q, i + 1) - 1
    <3>1. k \in Int
      BY <2>4
    <3>2. QED BY <2>1, <2>2, <2>5, <3>1, EncoderTerminates
  <2>6. QED BY <2>3, <2>5
<1>2. QED BY <1>1, Segments, PTL
=============================================================================
