------------------------------- MODULE TagTree -------------------------------
(***************************************************************************)
(* The tag trees of a precinct, src/lib/openjp2/tgt.c, over w * h leaves.  *)
(* A node is <<level, x, y>>, its parent <<level + 1, x \div 2, y \div 2>>.*)
(***************************************************************************)
EXTENDS BitIO

Depth(w, h) == CHOOSE d \in 0..(w + h) :
                  /\ w <= 2^d /\ h <= 2^d
                  /\ d > 0 => w > 2^(d - 1) \/ h > 2^(d - 1)
\* the nodes from the root to a leaf
Path(w, h, leafno) ==
    LET d == Depth(w, h)
        at(level) == <<level, (leafno % w) \div 2^level, (leafno \div w) \div 2^level>>
    IN  [i \in 1..(d + 1) |-> at(d + 1 - i)]
Nodes(w, h) == UNION {ToSet(Path(w, h, leafno)) : leafno \in 0..(w * h - 1)}

Reset(w, h) == [node \in Nodes(w, h) |-> [value |-> 999, low |-> 0, known |-> FALSE]]

SetValue(tree, path, value) ==
    [node \in DOMAIN tree |-> IF node \in ToSet(path) /\ tree[node].value > value
                              THEN [tree[node] EXCEPT !.value = value] ELSE tree[node]]

Larger(a, b)  == IF a > b THEN a ELSE b
Smaller(a, b) == IF a < b THEN a ELSE b
Zeros(n)      == [i \in 1..n |-> 0]

\* opj_tgt_encode: the bits it puts, and the tree after it
TgtEncode(tree, path, threshold) ==
    LET visit(r, node) ==
            LET nd   == r.tree[node]
                low  == Larger(r.low, nd.low)
                stop == Smaller(Larger(low, nd.value), Larger(low, threshold))
                ends == stop < threshold
            IN  [low  |-> stop,
                 tree |-> [r.tree EXCEPT ![node].low = stop, ![node].known = @ \/ ends],
                 bits |-> r.bits \o Zeros(stop - low) \o (IF ends /\ ~nd.known THEN <<1>> ELSE <<>>)]
    IN  FoldLeft(visit, [low |-> 0, tree |-> tree, bits |-> <<>>], path)

\* opj_tgt_decode: the tree after it, and whether the leaf is below the threshold
TgtDecode(in, tree, path, threshold) ==
    LET step(r, i) ==
            IF r.low >= r.value THEN r
            ELSE LET g == GetBit(r.in)
                 IN  IF g.bit = 1 THEN [r EXCEPT !.in = g.in, !.value = r.low]
                     ELSE [r EXCEPT !.in = g.in, !.low = @ + 1]
        visit(r, node) ==
            LET low == Larger(r.low, r.tree[node].low)
                s   == FoldLeft(step, [in |-> r.in, low |-> low, value |-> r.tree[node].value],
                                Zeros(Larger(low, threshold) - low))
            IN  [in |-> s.in, low |-> s.low,
                 tree |-> [r.tree EXCEPT ![node].low = s.low, ![node].value = s.value]]
        end == FoldLeft(visit, [in |-> in, low |-> 0, tree |-> tree], path)
    IN  [in |-> end.in, tree |-> end.tree, below |-> end.tree[Last(path)].value < threshold]
=============================================================================
