---------------------------- MODULE MCPacketOrder ----------------------------
(* Tiles of one or two components and two or three resolutions for TLC.    *)
EXTENDS PacketOrder

Pair(x, y) == [x |-> x, y |-> y]

Full == <<Pair(1, 1)>>
Sub  == <<Pair(1, 1), Pair(2, 2)>>                \* 4:2:0, two components of it
Even == <<Pair(1, 1), Pair(2, 2)>>                \* as many precincts at both resolutions
Flat == <<Pair(2, 2), Pair(2, 2)>>                \* fewer at the lower one
Wide == <<Pair(3, 0), Pair(1, 1), Pair(2, 3)>>    \* steps that differ along x and y
Bent == <<Pair(3, 0), Pair(1, 2), Pair(2, 3)>>    \* .. and are least at different resolutions

Tile(lo, hi, comps, res) ==
    [lo |-> lo, hi |-> hi, comps |-> comps, res |-> res, layers |-> 2, prg |-> "LRCP",
     pocs |-> <<>>, flag |-> "off"]
InEveryOrder(u) == {[u EXCEPT !.prg = o] : o \in Orders}
Divisions(us)   == {[u EXCEPT !.flag = f] : u \in us, f \in {"off", "R", "L", "C"}}

\* tiles at the origin, tiles that precincts reach out of, a tile of one column
AtOrigin == Divisions(UNION {InEveryOrder(Tile(Pair(0, 0), Pair(8, h), Sub, res)) :
                               h \in {4, 7}, res \in {Even, Flat}})
Shifted  == Divisions(UNION {InEveryOrder(Tile(lo, Pair(9, 6), cs, res)) :
                lo \in {Pair(3, 1), Pair(5, 3), Pair(4, 0)}, cs \in {Full, Sub}, res \in {Even, Flat}})
Uneven   == Divisions(UNION {InEveryOrder(Tile(Pair(4, 8), Pair(13, 16), Full, Wide)),
                             InEveryOrder(Tile(Pair(4, 8), Pair(9, 16), Full, Bent)),
                             InEveryOrder(Tile(Pair(3, 0), Pair(4, 5), Sub, Flat))})

(* Progression changes: resolution by resolution, component by component,  *)
(* and the bounds beyond the tile of the test byte_one_poc_funky_bounds.   *)
Poc(r0, r1, c0, c1, l, o) == [R |-> <<r0, r1>>, C |-> <<c0, c1>>, L |-> l, prg |-> o]
Changes == UNION {{<<Poc(0, 1, 0, 2, 2, o), Poc(1, 2, 0, 2, 2, p)>>,
                   <<Poc(0, 2, 1, 2, 2, o), Poc(0, 2, 0, 1, 2, p)>>,
                   <<Poc(0, 33, 0, 255, 65535, o)>>} : <<o, p>> \in Orders \X Orders}
Changing == {[Tile(Pair(0, 0), Pair(8, 4), Sub, Flat) EXCEPT !.pocs = ps, !.prg = ps[1].prg]
             : ps \in Changes}

-----------------------------------------------------------------------------
(* What the code divides correctly.  Past this the encoder loses packets   *)
(* or writes them twice, see "known disagreements" in the README.          *)
UpTo(u) == {LetterOrder(u.prg)[i] : i \in 1..PosOf(u.flag, u.prg)}

\* the first cell of positions begins with the tile, or with the first precincts
CellsFit(u) ==
    \A a \in Axes :
        LET first == u.lo[a] - (u.lo[a] % MinStep(u, CompNos(u), a))
        IN  first = u.lo[a] \/ \A c \in CompNos(u), r \in ResNos(u) :
                                  first = Step(u, c, r, a) * (ResLo(u, c, r, a) \div Precinct(u, r, a))

\* prcE, the most precincts of a resolution, is the number of cells
CellsCounted(u) ==
    LET cells(a) == Cardinality(Stops(<<u.lo[a], u.hi[a]>>, MinStep(u, CompNos(u), a)))
    IN  MaxPrec(u) = cells("x") * cells("y")

Divisible(u) ==
    u.flag # "off" =>
        /\ "P" \in UpTo(u) => CellsFit(u) /\ CellsCounted(u) /\ Len(u.pocs) <= 1
        /\ ~ByPosition(u.prg) => \A c \in CompNos(u), r \in ResNos(u) : Coded(u, c, r)
        /\ \A i \in DOMAIN u.pocs :
            /\ u.pocs[i].prg = u.prg
            /\ "R" \in UpTo(u) => u.pocs[i].R[1] = 0 /\ u.pocs[i].R[2] <= NumRes(u)
            /\ "C" \in UpTo(u) => u.pocs[i].C[1] = 0
            /\ "L" \in UpTo(u) => u.pocs[i].L <= u.layers

MCTiles == {u \in AtOrigin \cup Shifted \cup Uneven \cup Divisions(Changing) : Divisible(u)}
=============================================================================
