---------------------------- MODULE MCJ2kDecoder ----------------------------
(* Files of one to three tiles for TLC.                                    *)
EXTENDS J2kDecoder

Part(t, tp, tn, len) ==
    [tile |-> t, tp |-> tp, tn |-> tn, psot0 |-> FALSE, ppt |-> FALSE, len |-> len]
LastPart(t, tp, tn, len) == [Part(t, tp, tn, len) EXCEPT !.psot0 = TRUE]
PptPart(t, tp, tn, len)  == [Part(t, tp, tn, len) EXCEPT !.ppt = TRUE]

File(nt, parts) ==
    [nt |-> nt, mh |-> <<"SIZ", "COD", "QCD">>, parts |-> parts, tlm |-> <<>>,
     eoc |-> TRUE, seek |-> TRUE, cut |-> 0]
WithTlm(f, n) == [f EXCEPT !.mh = @ \o <<"TLM">>, !.tlm = [i \in 1..n |-> i]]
NoSeek(f) == [f EXCEPT !.seek = FALSE]
NoEoc(f)  == [f EXCEPT !.eoc = FALSE]
Cut(f, n) == [f EXCEPT !.cut = n]

-----------------------------------------------------------------------------
(* Every order of one or two tile-parts of each of two tiles, with TNsot   *)
(* in all, in none, in the first or in the last tile-part of a tile.       *)
Orders == {<<0, 1>>, <<1, 0>>, <<0, 0, 1>>, <<0, 1, 0>>, <<1, 0, 0>>,
           <<0, 0, 1, 1>>, <<0, 1, 0, 1>>, <<0, 1, 1, 0>>, <<1, 0, 1, 0>>}
Announce == {"all", "none", "first", "last"}

Layout(order, tn) ==
    LET count(n) == Cardinality({i \in 1..n : order[i] = order[n]})
        total(n) == Cardinality({i \in 1..Len(order) : order[i] = order[n]})
        says(n)  == tn = "all" \/ (tn = "first" /\ count(n) = 1) \/ (tn = "last" /\ count(n) = total(n))
    IN  File(2, [n \in 1..Len(order) |->
                  Part(order[n], count(n) - 1, IF says(n) THEN total(n) ELSE 0, n)])

Layouts == {Layout(o, tn) : o \in Orders, tn \in Announce}

-----------------------------------------------------------------------------
(* Cases of their own.                                                     *)
One      == File(1, <<Part(0, 0, 1, 1)>>)
OneParts == File(1, <<Part(0, 0, 2, 1), Part(0, 1, 2, 2)>>)
OneOpen  == File(1, <<Part(0, 0, 0, 1), Part(0, 1, 0, 1)>>)
OneLast  == File(1, <<Part(0, 0, 0, 1), LastPart(0, 1, 0, 1)>>)
OnePpt   == File(1, <<PptPart(0, 0, 1, 1)>>)
WovenPpt == File(2, <<PptPart(0, 0, 2, 1), PptPart(1, 0, 1, 1), PptPart(0, 1, 2, 1)>>)
Three    == File(3, <<Part(0, 0, 1, 1), Part(1, 0, 1, 2), Part(2, 0, 1, 1)>>)
Woven    == Layout(<<0, 1, 0, 1>>, "all")
Open     == Layout(<<0, 1>>, "none")
Ending   == File(2, <<Part(0, 0, 1, 1), LastPart(1, 0, 1, 2)>>)
\* tile 1 ends the file while tile 0 still waits to be decoded
Waiting  == File(2, <<Part(0, 0, 0, 1), Part(1, 0, 1, 1)>>)
\* TNsot one too low
Miscounted == File(2, <<Part(0, 0, 2, 1), Part(1, 0, 2, 1), Part(0, 1, 2, 1),
                        Part(1, 1, 2, 1), Part(0, 2, 2, 1), Part(1, 2, 2, 1)>>)
\* not conforming: a tile without data, tile-parts out of order, no QCD
Empty      == File(2, <<Part(0, 0, 1, 0), Part(1, 0, 1, 1)>>)
Disordered == File(2, <<Part(0, 1, 2, 1), Part(1, 0, 1, 1), Part(0, 0, 2, 1)>>)
NoQcd      == [One EXCEPT !.mh = <<"SIZ", "COD">>]

MCStreams ==
    Layouts \cup {WithTlm(f, Len(f.parts)) : f \in Layouts} \cup {NoEoc(f) : f \in {Layout(o, tn) : o \in {<<0, 1>>, <<1, 0>>, <<0, 1, 0>>}, tn \in Announce}}
    \cup {One, OneParts, OneOpen, OneLast, OnePpt, WovenPpt, Three, Ending, Waiting, Miscounted,
          Empty, Disordered, NoQcd, NoEoc(Three), NoEoc(One), NoSeek(Woven), WithTlm(Three, 3),
          WithTlm(Woven, 2), WithTlm(Three, 2), WithTlm(Miscounted, 6)}
    \cup {Cut(Woven, n) : n \in 1..14} \cup {Cut(OneParts, n) : n \in 1..16}
    \cup {Cut(Layout(<<0, 1, 0>>, tn), n) : tn \in Announce, n \in 1..6}

(* Two tile-parts of each tile, taken in turn; the last one is open-ended. *)
LastPartStreams ==
    {File(2, <<Part(0, 0, 2, 1), Part(1, 0, 2, 2), Part(0, 1, 2, 3), LastPart(1, 1, 2, 4)>>)}
=============================================================================
