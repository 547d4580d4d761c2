--------------------------- MODULE PacketIterator ---------------------------
(***************************************************************************)
(* The packet iterator of src/lib/openjp2/pi.c: the geometry of a tile and *)
(* the five loop nests of opj_pi_next.  A packet is <<layer, resolution,   *)
(* component, precinct>>; a visit adds the place <<y, x>> at which a       *)
(* position order comes upon the packet.  The loop nest of a progression   *)
(* order is the set of its visits, sorted by the order's loop variables.   *)
(*                                                                         *)
(* A tile t is a record:                                                   *)
(*   lo, hi   its corners on the image grid, [x |-> .., y |-> ..]          *)
(*   comps    the subsampling (XRsiz, YRsiz) of each component             *)
(*   res      the exponents of the precinct size at each resolution        *)
(*   layers, prg, pocs, flag  the coding parameters of module PacketOrder  *)
(* The encoder gives every component the same number of resolutions and    *)
(* the same precincts, so res is not indexed by components.                *)
(***************************************************************************)
EXTENDS Integers, Sequences, FiniteSets, FiniteSetsExt

Orders == {"LRCP", "RLCP", "RPCL", "PCRL", "CPRL"}
ByPosition(prg) == prg \in {"RPCL", "PCRL", "CPRL"}
Axes == {"x", "y"}

CeilDiv(a, b) == (a + b - 1) \div b

-----------------------------------------------------------------------------
(* opj_get_all_encoding_parameters.                                        *)
NumComps(t) == Len(t.comps)
NumRes(t)   == Len(t.res)
CompNos(t)  == 0..(NumComps(t) - 1)
ResNos(t)   == 0..(NumRes(t) - 1)

Level(t, r)        == NumRes(t) - 1 - r
Scale(t, c, r, a)  == t.comps[c + 1][a] * 2^Level(t, r)
\* trx0, try0 and trx1, try1: the resolution's own grid
ResLo(t, c, r, a)  == CeilDiv(t.lo[a], Scale(t, c, r, a))
ResHi(t, c, r, a)  == CeilDiv(t.hi[a], Scale(t, c, r, a))
Precinct(t, r, a)  == 2^t.res[r + 1][a]
\* the size of a precinct on the image grid
Step(t, c, r, a)   == Scale(t, c, r, a) * Precinct(t, r, a)
MinStep(t, cs, a)  == Min({Step(t, c, r, a) : c \in cs, r \in ResNos(t)})

\* pw and ph
Across(t, c, r, a) ==
    IF ResLo(t, c, r, a) = ResHi(t, c, r, a) THEN 0
    ELSE CeilDiv(ResHi(t, c, r, a), Precinct(t, r, a)) - ResLo(t, c, r, a) \div Precinct(t, r, a)
NumPrec(t, c, r) == Across(t, c, r, "x") * Across(t, c, r, "y")
MaxPrec(t)       == Max({NumPrec(t, c, r) : c \in CompNos(t), r \in ResNos(t)})

\* the resolution has a band that is not empty
Size(t, c, r, a) == ResHi(t, c, r, a) - ResLo(t, c, r, a)
Coded(t, c, r) ==
    /\ \A a \in Axes : Size(t, c, r, a) > 0
    /\ r > 0 => \E a \in Axes : Size(t, c, r, a) # Size(t, c, r - 1, a)

-----------------------------------------------------------------------------
(* An iterator it is its order prg, tp_on, and the ranges <<first, end>>   *)
(* of opj_poc_t for the letters L, R, C, P and for x and y.                *)
Span(range) == range[1]..(range[2] - 1)

\* the values of the loops "for (v = lo; v < hi; v += step - v % step)"
Stops(range, step) == {v \in Span(range) : v = range[1] \/ v % step = 0}

\* mutant: the precinct that the tile cuts into is forgotten
BeginsInside(t, c, r, a, v) == v % Step(t, c, r, a) = 0
\* B.12.1.3 to B.12.1.5: a precinct begins at v, or the tile cuts into it
Begins(t, c, r, a, v) ==
    \/ v % Step(t, c, r, a) = 0
    \/ /\ v = t.lo[a]
       /\ (ResLo(t, c, r, a) * 2^Level(t, r)) % (Precinct(t, r, a) * 2^Level(t, r)) # 0

PrecinctAt(t, c, r, x, y) ==
    LET along(a, v) == CeilDiv(v, Scale(t, c, r, a)) \div Precinct(t, r, a)
                         - ResLo(t, c, r, a) \div Precinct(t, r, a)
    IN  along("x", x) + along("y", y) * Across(t, c, r, "x")

Visit(l, r, c, p, x, y) == [L |-> l, R |-> r, C |-> c, P |-> p, x |-> x, y |-> y]
Packet(v) == <<v.L, v.R, v.C, v.P>>

\* opj_pi_next_lrcp, _rlcp; without tile-parts precno1 is pw * ph
CountedVisits(t, it) ==
    UNION {{Visit(l, r, c, p, 0, 0) :
              l \in Span(it.L), p \in it.P[1]..((IF it.tpOn THEN it.P[2] ELSE NumPrec(t, c, r)) - 1)}
           : r \in Span(it.R) \cap ResNos(t), c \in Span(it.C)}

\* opj_pi_next_rpcl, _pcrl, _cprl; without tile-parts the whole tile
PlacedVisits(t, it) ==
    LET range(a)    == IF it.tpOn THEN it[a] ELSE <<t.lo[a], t.hi[a]>>
        cs(c)       == IF it.prg = "CPRL" THEN {c} ELSE CompNos(t)
        stops(c, a) == Stops(range(a), MinStep(t, cs(c), a))
        hits(c, r, a) == {v \in stops(c, a) : Begins(t, c, r, a, v)}
        at(r, c)    == {Visit(l, r, c, PrecinctAt(t, c, r, x, y), x, y) :
                          l \in Span(it.L), x \in hits(c, r, "x"), y \in hits(c, r, "y")}
    IN  UNION {UNION {at(r, c) : c \in {d \in Span(it.C) : NumPrec(t, d, r) > 0}} :
                 r \in Span(it.R) \cap ResNos(t)}

Visits(t, it) == IF ByPosition(it.prg) THEN PlacedVisits(t, it) ELSE CountedVisits(t, it)

\* the loop variables, outermost first
Nest(prg) == CASE prg = "LRCP" -> <<"L", "R", "C", "P">>
               [] prg = "RLCP" -> <<"R", "L", "C", "P">>
               [] prg = "RPCL" -> <<"R", "y", "x", "C", "L">>
               [] prg = "PCRL" -> <<"y", "x", "C", "R", "L">>
               [] prg = "CPRL" -> <<"C", "y", "x", "R", "L">>

Before(prg, v, w) ==
    LET nest == Nest(prg)
    IN  \E i \in 1..Len(nest) : /\ v[nest[i]] < w[nest[i]]
                                /\ \A j \in 1..(i - 1) : v[nest[j]] = w[nest[j]]

(* opj_pi_next: of the visits left, the first one whose packet is not in   *)
(* the include map; {} when there is none.                                 *)
NextVisits(prg, left, included) ==
    LET new == {v \in left : Packet(v) \notin included}
    IN  {v \in new : \A w \in new \ {v} : Before(prg, v, w)}

IsPacket(t, p) ==
    /\ p[1] \in 0..(t.layers - 1) /\ p[2] \in ResNos(t) /\ p[3] \in CompNos(t)
    /\ p[4] \in 0..(NumPrec(t, p[3], p[2]) - 1)
AllPackets(t) ==
    UNION {{<<l, r, c, p>> : l \in 0..(t.layers - 1), p \in 0..(NumPrec(t, c, r) - 1)}
           : r \in ResNos(t), c \in CompNos(t)}
=============================================================================
