--------------------------- MODULE MCPacketCoding ---------------------------
(* The precincts TLC codes.                                                *)
EXTENDS PacketCoding

\* a code-block of so many bit-planes: all its passes, rate[k] by a rule
Block(numbps, rate(_), ends) ==
    [numbps |-> numbps, rate |-> [k \in 1..(IF numbps = 0 THEN 0 ELSE 3 * numbps - 2) |-> rate(k)],
     ends |-> ends]
Precinct(w, blocks, style, layers_) ==
    [w |-> w, h |-> Len(blocks) \div w, bandbps |-> 14, style |-> style, roi |-> 0,
     layers |-> layers_, wanted |-> layers_, strict |-> FALSE, blocks |-> blocks]

One(k)   == k
Slow(k)  == (k + 1) \div 3                \* passes that add no byte
Sevens(k) == 7 * k                        \* lengths of ones
Steep(k) == IF k < 4 THEN k ELSE 9 + k    \* a pass of more bytes than three bits tell

Styles == {{}, {"LAZY"}, {"TERMALL"}, {"LAZY", "TERMALL"}}
\* layers that end inside a segment and at its end
Pairs(styles) ==
    {Precinct(2, <<Block(7, One, <<11, 19>>), Block(5, Slow, <<1, 13>>)>>, s, 2) : s \in styles}
\* more passes than the nine-bit codes tell
Deep == {Precinct(1, <<Block(14, Slow, <<38, 40>>)>>, s, 2) : s \in Styles}
\* a header that ends on a byte of ones
Ones == {Precinct(1, <<Block(7, Sevens, <<3>>)>>, {"TERMALL"}, 2)}
\* trees of three levels, and a block without bit-planes
Trees == {Precinct(3, <<Block(1, One, <<1>>), Block(0, One, <<>>), Block(2, Steep, <<2, 4>>)>>, s, 2)
            : s \in {{}, {"LAZY"}}}
\* three layers, and lengths of unlike bits
Long(styles) == {Precinct(1, <<Block(6, Steep, <<3, 12, 16>>)>>, s, 3) : s \in styles}

WithWanted(ps, k) == {[p EXCEPT !.wanted = k] : p \in ps}
Strict(ps)        == {[p EXCEPT !.strict = TRUE] : p \in ps}
Roi(ps)           == {[p EXCEPT !.roi = 3] : p \in ps}

MCPrecincts == Pairs(Styles) \cup Deep \cup Ones \cup Trees \cup Long(Styles) \cup Roi(Long({{}, {"TERMALL"}}))
               \cup WithWanted(Pairs({{"LAZY"}}), 1) \cup WithWanted(Long(Styles), 1) 
               \cup Strict(Trees) \cup Strict(WithWanted(Long({{"LAZY"}, {"TERMALL"}}), 2))
\* a region of interest together with raw passes
MCRoiLazy == Roi(Long({{"LAZY"}}))
=============================================================================
