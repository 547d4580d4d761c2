------------------------- MODULE PacketOrderProofs --------------------------
(***************************************************************************)
(* Two things about the packets of a tile.  First, what the include maps   *)
(* of pi.c give for every tile, every division and every list of           *)
(* progression changes, the overlapping ones included: no packet twice     *)
(* within a tile-part, none twice in the decoder.                          *)
(*                                                                         *)
(* Then, for tiles without progression changes that are divided before the *)
(* position: the tile-parts, joined, hold the packets in the order of the  *)
(* decoder's one loop nest, and all of them.  The visits of a loop nest    *)
(* are totally ordered; a packet is returned at the first visit that names *)
(* it; the values of the divided letters at a visit, read as the digits of *)
(* a number, give the number of the tile-part whose window it lies in, and *)
(* the odometer of opj_pi_create_encode counts through these numbers.      *)
(***************************************************************************)
EXTENDS PacketOrder, FoldTheorems, TLAPS

\* No tile-part holds a packet twice: the include map that
\* opj_pi_initialise_encode allocates for it (pi.c:1697).
OncePerPart == \A n \in DOMAIN parts : IsInjective(parts[n])

\* The decoder comes upon no packet twice, over all the progressions of the
\* tile: they share the first one's include map (pi.c:1558).
ReadOnce == IsInjective(read)

PartsSeq == \E S : parts \in Seq(Seq(S))
ReadSeq  == \E S : read \in Seq(S)
OpenPart == phase = "packets" => parts # <<>>
IncludeInv == PartsSeq /\ ReadSeq /\ OpenPart /\ OncePerPart /\ ReadOnce

(* A new element keeps a sequence free of repetitions.                     *)
LEMMA AppendNew ==
    ASSUME NEW S, NEW s \in Seq(S), NEW e, IsInjective(s), e \notin ToSet(s)
    PROVE  IsInjective(Append(s, e)) /\ Append(s, e) \in Seq(S \cup {e})
<1>1. s \in Seq(S \cup {e}) /\ e \in S \cup {e}
  OBVIOUS
<1>2. Append(s, e) \in Seq(S \cup {e}) /\ Len(Append(s, e)) = Len(s) + 1
  BY <1>1
<1>3. \A i \in 1..Len(s) : s[i] # e /\ Append(s, e)[i] = s[i]
  BY <1>1 DEF ToSet
<1>4. Append(s, e)[Len(s) + 1] = e
  BY <1>1
<1>5. \A i, j \in 1..(Len(s) + 1) : Append(s, e)[i] = Append(s, e)[j] => i = j
  <2>1. \A i, j \in 1..Len(s) : s[i] = s[j] => i = j
    BY DEF IsInjective
  <2> QED
    BY <1>3, <1>4, <2>1
<1> QED
  BY <1>2, <1>5 DEF IsInjective

(* What opj_pi_next returns is not in the include map.                     *)
LEMMA NextIsNew ==
    ASSUME NEW order, NEW visits, NEW included, NEW v \in NextVisits(order, visits, included)
    PROVE  Packet(v) \notin included
  BY DEF NextVisits

(* A tile-part is begun empty.                                             *)
LEMMA BeginPartKeeps ==
    ASSUME IncludeInv, NEW ps, NEW p, NEW n, BeginPart(ps, p, n)
    PROVE  IncludeInv'
<1>1. parts' = Append(parts, <<>>) /\ read' = read
  BY DEF BeginPart
<1>2. PICK S : parts \in Seq(Seq(S))
  BY DEF IncludeInv, PartsSeq
<1>3. <<>> \in Seq(S) /\ IsInjective(<<>>)
  BY DEF IsInjective
<1>4. parts' \in Seq(Seq(S)) /\ parts' # <<>>
  BY <1>1, <1>2, <1>3
<1>5. OncePerPart'
  BY <1>1, <1>2, <1>3 DEF IncludeInv, OncePerPart
<1> QED
  BY <1>1, <1>4, <1>5 DEF IncludeInv, PartsSeq, ReadSeq, OpenPart, ReadOnce

(* A packet is written that the include map does not hold.                *)
LEMMA EncodePacketKeeps ==
    ASSUME IncludeInv, EncodePacket
    PROVE  IncludeInv'
<1>1. PICK v \in Following :
        IF Missing(v)
        THEN phase' = "refused" /\ UNCHANGED <<left, parts>>
        ELSE /\ left' = Past(v)
             /\ parts' = [parts EXCEPT ![Len(parts)] = Append(@, Packet(v))]
             /\ UNCHANGED phase
  BY DEF EncodePacket
<1>2. read' = read /\ phase = "packets"
  BY DEF EncodePacket
<1>3. CASE Missing(v)
  BY <1>1, <1>2, <1>3 DEF IncludeInv, PartsSeq, ReadSeq, OpenPart, OncePerPart, ReadOnce
<1>4. CASE ~Missing(v)
  <2> DEFINE n == Len(parts)
             p == Packet(v)
  <2>1. PICK S : parts \in Seq(Seq(S))
    BY DEF IncludeInv, PartsSeq
  <2>2. n \in DOMAIN parts /\ DOMAIN parts = 1..n
    BY <1>2, <2>1 DEF IncludeInv, OpenPart
  <2>3. parts[n] \in Seq(S) /\ IsInjective(parts[n])
    BY <2>1, <2>2 DEF IncludeInv, OncePerPart
  <2>4. p \notin ToSet(parts[n])
    BY NextIsNew DEF Following, Included
  <2>5. IsInjective(Append(parts[n], p)) /\ Append(parts[n], p) \in Seq(S \cup {p})
    BY <2>3, <2>4, AppendNew
  <2>6. parts' = [parts EXCEPT ![n] = Append(parts[n], p)]
    BY <1>1, <1>4
  <2>7. parts \in Seq(Seq(S \cup {p}))
    <3>1. Seq(S) \subseteq Seq(S \cup {p})
      OBVIOUS
    <3> QED
      BY <2>1, <3>1
  <2>8. parts' \in Seq(Seq(S \cup {p})) /\ parts' # <<>> /\ DOMAIN parts' = DOMAIN parts
    BY <2>2, <2>5, <2>6, <2>7
  <2>9. OncePerPart'
    BY <2>2, <2>5, <2>6, <2>8 DEF IncludeInv, OncePerPart
  <2> QED
    BY <1>2, <2>8, <2>9 DEF IncludeInv, PartsSeq, ReadSeq, OpenPart, ReadOnce
<1> QED
  BY <1>3, <1>4

(* A packet is read that the include map does not hold.                   *)
LEMMA DecodePacketKeeps ==
    ASSUME IncludeInv, DecodePacket
    PROVE  IncludeInv'
<1>1. PICK v \in Expected : read' = Append(read, Packet(v))
  BY DEF DecodePacket
<1>2. parts' = parts /\ phase' = phase
  BY DEF DecodePacket
<1>3. PICK S : read \in Seq(S)
  BY DEF IncludeInv, ReadSeq
<1>4. Packet(v) \notin ToSet(read)
  BY NextIsNew DEF Expected
<1>5. IsInjective(read') /\ read' \in Seq(S \cup {Packet(v)})
  BY <1>1, <1>3, <1>4, AppendNew DEF IncludeInv, ReadOnce
<1> QED
  BY <1>2, <1>5 DEF IncludeInv, PartsSeq, ReadSeq, OpenPart, OncePerPart, ReadOnce

(* The other steps touch neither sequence.                                 *)
LEMMA StillKeeps ==
    ASSUME IncludeInv, UNCHANGED <<parts, read>>, phase' = phase \/ phase' # "packets"
    PROVE  IncludeInv'
  BY DEF IncludeInv, PartsSeq, ReadSeq, OpenPart, OncePerPart, ReadOnce

(* What the include maps keep.                                            *)
LEMMA IncludeInvHolds == Spec => []IncludeInv
<1>1. Init => IncludeInv
  <2> SUFFICES ASSUME Init PROVE IncludeInv
    OBVIOUS
  <2>1. parts = <<>> /\ read = <<>> /\ phase = "between"
    BY DEF Init
  <2>2. <<>> \in Seq(Seq({})) /\ <<>> \in Seq({}) /\ IsInjective(<<>>)
    BY DEF IsInjective
  <2> QED
    BY <2>1, <2>2 DEF IncludeInv, PartsSeq, ReadSeq, OpenPart, OncePerPart, ReadOnce
<1>2. IncludeInv /\ [Next]_vars => IncludeInv'
  <2> SUFFICES ASSUME IncludeInv, [Next]_vars PROVE IncludeInv'
    OBVIOUS
  <2>1. CASE FirstPart
    BY <2>1, BeginPartKeeps DEF FirstPart
  <2>2. CASE NextPart
    BY <2>2, BeginPartKeeps DEF NextPart
  <2>3. CASE NextProgression
    BY <2>3, BeginPartKeeps DEF NextProgression
  <2>4. CASE EncodePacket
    BY <2>4, EncodePacketKeeps
  <2>5. CASE EndPart
    BY <2>5, StillKeeps DEF EndPart
  <2>6. CASE BeginDecode
    BY <2>6, StillKeeps DEF BeginDecode
  <2>7. CASE DecodePacket
    BY <2>7, DecodePacketKeeps
  <2>8. CASE DecodeProgression
    BY <2>8, StillKeeps DEF DecodeProgression
  <2>9. CASE Finished \/ UNCHANGED vars
    BY <2>9, StillKeeps DEF Finished, vars
  <2> QED
    BY <2>1, <2>2, <2>3, <2>4, <2>5, <2>6, <2>7, <2>8, <2>9 DEF Next
<1> QED
  BY <1>1, <1>2, PTL DEF Spec

\* Within a tile-part the encoder writes no packet twice, whatever the windows,
\* the order and the geometry: one include map per call of opj_t2_encode_packets.
THEOREM NoPacketTwiceInPart == Spec => []OncePerPart
<1>1. IncludeInv => OncePerPart
  BY DEF IncludeInv
<1> QED
  BY <1>1, IncludeInvHolds, PTL

\* The decoder comes upon no packet twice, also when progression changes
\* overlap: opj_t2_decode_packets runs them all on one include map.
THEOREM NoPacketReadTwice == Spec => []ReadOnce
<1>1. IncludeInv => ReadOnce
  BY DEF IncludeInv
<1> QED
  BY <1>1, IncludeInvHolds, PTL

-----------------------------------------------------------------------------
-----------------------------------------------------------------------------
(* The order in which a loop nest comes upon its visits.                   *)

IsVisit(v) == \A d \in Digits : v[d] \in Int
\* The visits of a nest: the values of the loop variables tell them apart.
Nested(o, V) ==
    /\ o \in Orders
    /\ IsFiniteSet(V)
    /\ \A v \in V : IsVisit(v)
    /\ \A v, w \in V : v # w => \E i \in 1..Len(Nest(o)) : v[Nest(o)[i]] # w[Nest(o)[i]]

(* A nest has four or five loops, over letters and axes. *)
LEMMA NestIs ==
  ASSUME NEW o \in Orders
  PROVE  /\ Len(Nest(o)) \in Nat
         /\ \A i \in 1..Len(Nest(o)) : Nest(o)[i] \in Digits
<1>1. CASE o = "LRCP" BY <1>1 DEF Nest, Digits, Letters, Axes
<1>2. CASE o = "RLCP" BY <1>2 DEF Nest, Digits, Letters, Axes
<1>3. CASE o = "RPCL" BY <1>3 DEF Nest, Digits, Letters, Axes
<1>4. CASE o = "PCRL" BY <1>4 DEF Nest, Digits, Letters, Axes
<1>5. CASE o = "CPRL" BY <1>5 DEF Nest, Digits, Letters, Axes
<1> QED BY <1>1, <1>2, <1>3, <1>4, <1>5 DEF Orders

\* The first loop variable that differs decides.
FirstDiffers(o, v, w, i) ==
    /\ i \in 1..Len(Nest(o))
    /\ v[Nest(o)[i]] # w[Nest(o)[i]]
    /\ \A j \in 1..(i - 1) : v[Nest(o)[j]] = w[Nest(o)[j]]

(* Two visits of a nest differ in a loop variable first.                  *)
LEMMA FirstDifference ==
  ASSUME NEW o, NEW V, Nested(o, V), NEW v \in V, NEW w \in V, v # w
  PROVE  \E i \in 1..Len(Nest(o)) : FirstDiffers(o, v, w, i)
<1> DEFINE D == {i \in 1..Len(Nest(o)) : v[Nest(o)[i]] # w[Nest(o)[i]]}
<1>1. D \in SUBSET Nat /\ D # {}
  BY NestIs DEF Nested
<1>2. PICK i \in D : \A j \in D : i <= j
  BY <1>1, LeastOf
<1>3. i \in 1..Len(Nest(o)) /\ v[Nest(o)[i]] # w[Nest(o)[i]]
  BY <1>2
<1>4. ASSUME NEW j \in 1..(i - 1) PROVE v[Nest(o)[j]] = w[Nest(o)[j]]
  <2>1. j \in 1..Len(Nest(o)) /\ ~(i <= j)
    BY <1>3, NestIs DEF Nested
  <2> QED BY <1>2, <2>1
<1> QED BY <1>3, <1>4 DEF FirstDiffers

(* Of two visits, the loops come upon one before the other.               *)
LEMMA BeforeTotal ==
  ASSUME NEW o, NEW V, Nested(o, V), NEW v \in V, NEW w \in V, v # w
  PROVE  Before(o, v, w) \/ Before(o, w, v)
<1>1. PICK i \in 1..Len(Nest(o)) : FirstDiffers(o, v, w, i)
  BY FirstDifference
<1>2. v[Nest(o)[i]] \in Int /\ w[Nest(o)[i]] \in Int
  BY NestIs DEF Nested, IsVisit
<1>3. v[Nest(o)[i]] < w[Nest(o)[i]] \/ w[Nest(o)[i]] < v[Nest(o)[i]]
  BY <1>1, <1>2 DEF FirstDiffers
<1> QED BY <1>1, <1>3 DEF FirstDiffers, Before

(* The order of the visits is transitive ..                               *)
LEMMA BeforeTransitive ==
  ASSUME NEW o, NEW V, Nested(o, V), NEW v \in V, NEW w \in V, NEW z \in V,
         Before(o, v, w), Before(o, w, z)
  PROVE  Before(o, v, z)
<1> DEFINE n == Nest(o)
<1>0. Len(n) \in Nat /\ \A i \in 1..Len(n) : v[n[i]] \in Int /\ w[n[i]] \in Int /\ z[n[i]] \in Int
  BY NestIs DEF Nested, IsVisit
<1> HIDE DEF n
<1>1. PICK i \in 1..Len(n) : v[n[i]] < w[n[i]] /\ \A j \in 1..(i - 1) : v[n[j]] = w[n[j]]
  BY DEF Before, n
<1>2. PICK k \in 1..Len(n) : w[n[k]] < z[n[k]] /\ \A j \in 1..(k - 1) : w[n[j]] = z[n[j]]
  BY DEF Before, n
<1> DEFINE m == IF i <= k THEN i ELSE k
<1>3. m \in 1..Len(n) /\ m <= i /\ m <= k /\ m \in Int
  BY <1>0
<1>4. \A j \in 1..(m - 1) : v[n[j]] = z[n[j]]
  BY <1>0, <1>1, <1>2, <1>3
<1>5. v[n[m]] < z[n[m]]
  <2>1. CASE i < k
    BY <1>0, <1>1, <1>2, <2>1
  <2>2. CASE i = k
    BY <1>0, <1>1, <1>2, <2>2
  <2>3. CASE k < i
    BY <1>0, <1>1, <1>2, <2>3
  <2> QED BY <1>0, <2>1, <2>2, <2>3
<1> HIDE DEF m
<1> QED BY <1>3, <1>4, <1>5 DEF Before, n

(* .. and strict.                                                         *)
LEMMA BeforeStrict ==
  ASSUME NEW o, NEW V, Nested(o, V), NEW v \in V, NEW w \in V, Before(o, v, w)
  PROVE  ~Before(o, w, v) /\ v # w
<1>1. \A z \in V : ~Before(o, z, z)
  <2> SUFFICES ASSUME NEW z \in V, Before(o, z, z) PROVE FALSE
    OBVIOUS
  <2>1. PICK i \in 1..Len(Nest(o)) : z[Nest(o)[i]] < z[Nest(o)[i]]
    BY DEF Before
  <2>2. z[Nest(o)[i]] \in Int
    BY NestIs DEF Nested, IsVisit
  <2> QED BY <2>1, <2>2
<1> QED BY <1>1, BeforeTransitive

(* Of some visits of a nest, one comes first. *)
LEMMA EarliestOf ==
  ASSUME NEW o, NEW V, Nested(o, V), NEW U \in SUBSET V, U # {}
  PROVE  \E u \in U : \A w \in U \ {u} : Before(o, u, w)
<1> DEFINE Q == {s \in SUBSET V : s # {} => \E u \in s : \A w \in s \ {u} : Before(o, u, w)}
<1>1. {} \in Q
  OBVIOUS
<1>2. ASSUME NEW s \in SUBSET V, s # {}, \A x \in s : s \ {x} \in Q PROVE s \in Q
  <2>1. PICK x \in s : TRUE
    BY <1>2
  <2>2. CASE s \ {x} = {}
    BY <2>1, <2>2
  <2>3. CASE s \ {x} # {}
    <3>1. PICK u \in s \ {x} : \A w \in (s \ {x}) \ {u} : Before(o, u, w)
      BY <1>2, <2>1, <2>3
    <3>2. CASE Before(o, u, x)
      <4>1. \A w \in s \ {u} : Before(o, u, w)
        BY <3>1, <3>2
      <4> QED BY <3>1, <4>1
    <3>3. CASE ~Before(o, u, x)
      <4>1. Before(o, x, u) /\ u \in V /\ x \in V
        BY <3>1, <3>3, BeforeTotal
      <4>2. \A w \in s \ {x} : Before(o, x, w)
        <5> SUFFICES ASSUME NEW w \in s \ {x}, w # u PROVE Before(o, x, w)
          BY <4>1
        <5>1. Before(o, u, w) /\ w \in V
          BY <3>1
        <5> QED BY <4>1, <5>1, BeforeTransitive
      <4> QED BY <4>2
    <3> QED BY <3>2, <3>3
  <2> QED BY <2>2, <2>3
<1> HIDE DEF Q
<1>3. Q \in SUBSET SUBSET V /\ IsFiniteSet(V)
  BY DEF Q, Nested
<1>4. U \in Q
  BY <1>1, <1>2, <1>3, SubsetInduction
<1> QED BY <1>4 DEF Q

-----------------------------------------------------------------------------
(* Sequences of packets that list the visits of a nest in its order.       *)

\* The visits at which opj_pi_next returns a packet: the first with that packet.
Fresh(o, V) == {v \in V : \A w \in V : Packet(w) = Packet(v) /\ w # v => Before(o, v, w)}

Upto(o, A, v)  == {w \in A : w = v \/ Before(o, w, v)}
Place(o, A, v) == Cardinality(Upto(o, A, v))
ListsAs(o, A, s, n) ==
    /\ n = Cardinality(A)
    /\ \A v \in A : Place(o, A, v) \in 1..n /\ s[Place(o, A, v)] = Packet(v)
    /\ \A i \in 1..n : \E v \in A : Place(o, A, v) = i
\* s has the packets of the visits A, in the order of the loops
Lists(o, A, s) ==
    /\ IsFiniteSet(A)
    /\ \E S : s \in Seq(S)
    /\ ListsAs(o, A, s, Len(s))

(* Every packet is returned at some visit. *)
LEMMA FreshCovers ==
  ASSUME NEW o, NEW V, Nested(o, V), NEW v \in V
  PROVE  \E u \in Fresh(o, V) : Packet(u) = Packet(v)
<1> DEFINE U == {w \in V : Packet(w) = Packet(v)}
<1>1. U \in SUBSET V /\ U # {}
  OBVIOUS
<1>2. PICK u \in U : \A w \in U \ {u} : Before(o, u, w)
  BY <1>1, EarliestOf
<1> QED BY <1>2 DEF Fresh

(* .. and at one only. *)
LEMMA FreshOnce ==
  ASSUME NEW o, NEW V, Nested(o, V), NEW v \in Fresh(o, V), NEW w \in Fresh(o, V),
         Packet(v) = Packet(w)
  PROVE  v = w
<1> SUFFICES ASSUME v # w PROVE FALSE
  OBVIOUS
<1>1. v \in V /\ w \in V /\ Before(o, v, w) /\ Before(o, w, v)
  BY DEF Fresh
<1> QED BY <1>1, BeforeStrict

(* No visits are listed by no packets.                                    *)
LEMMA ListsNothing ==
  ASSUME NEW o
  PROVE  Lists(o, {}, <<>>)
<1>1. IsFiniteSet({}) /\ Cardinality({}) = 0
  BY FS_EmptySet
<1>2. <<>> \in Seq({}) /\ Len(<<>>) = 0
  OBVIOUS
<1> QED BY <1>1, <1>2 DEF Lists, ListsAs

(* A visit behind all others goes to the end. *)
LEMMA ListsAppend ==
  ASSUME NEW o, NEW V, Nested(o, V), NEW A \in SUBSET V, NEW s, Lists(o, A, s),
         NEW v \in V, \A w \in A : Before(o, w, v)
  PROVE  Lists(o, A \cup {v}, Append(s, Packet(v)))
<1> DEFINE B == A \cup {v}
           q == Append(s, Packet(v))
           n == Len(s)
<1>1. PICK S : s \in Seq(S)
  BY DEF Lists
<1>2. /\ n \in Nat
      /\ q \in Seq(S \cup {Packet(v)}) /\ Len(q) = n + 1
      /\ \A i \in 1..n : q[i] = s[i]
      /\ q[n + 1] = Packet(v)
  BY <1>1
<1>3. v \notin A
  BY BeforeStrict
<1>4. IsFiniteSet(B) /\ Cardinality(B) = n + 1
  BY <1>3, FS_AddElement DEF Lists, ListsAs
<1>5. ASSUME NEW w \in A PROVE Upto(o, B, w) = Upto(o, A, w)
  <2>1. ~Before(o, v, w) /\ v # w
    BY <1>3, BeforeStrict
  <2> QED BY <2>1 DEF Upto
<1>6. Upto(o, B, v) = B
  BY DEF Upto
<1>7. \A w \in A : Place(o, B, w) = Place(o, A, w)
  BY <1>5 DEF Place
<1>8. Place(o, B, v) = n + 1
  BY <1>4, <1>6 DEF Place
<1>9. ListsAs(o, A, s, n)
  BY DEF Lists
<1> HIDE DEF q, n, B
<1>10. \A w \in A : Place(o, B, w) \in 1..(n + 1) /\ q[Place(o, B, w)] = Packet(w)
  BY <1>2, <1>7, <1>9 DEF ListsAs
<1>11. \A i \in 1..(n + 1) : \E w \in B : Place(o, B, w) = i
  <2> SUFFICES ASSUME NEW i \in 1..(n + 1) PROVE \E w \in B : Place(o, B, w) = i
    OBVIOUS
  <2>1. CASE i = n + 1
    BY <1>8, <2>1 DEF B
  <2>2. CASE i # n + 1
    <3>1. i \in 1..n
      BY <1>2, <2>2
    <3>2. PICK w \in A : Place(o, A, w) = i
      BY <1>9, <3>1 DEF ListsAs
    <3> QED BY <1>7, <3>2 DEF B
  <2> QED BY <2>1, <2>2
<1>12. n + 1 \in 1..(n + 1)
  BY <1>2
<1>13. \A w \in B : Place(o, B, w) \in 1..(n + 1) /\ q[Place(o, B, w)] = Packet(w)
  BY <1>2, <1>8, <1>10, <1>12 DEF B
<1>14. ListsAs(o, B, q, n + 1)
  BY <1>4, <1>11, <1>13 DEF ListsAs
<1>15. Lists(o, B, q)
  BY <1>2, <1>4, <1>14 DEF Lists
<1> QED BY <1>15 DEF B, q

(* What lists the beginning of the visits is a prefix of what lists more. *)
LEMMA ListsPrefix ==
  ASSUME NEW o, NEW A, NEW s, Lists(o, A, s), NEW B \in SUBSET A, NEW q, Lists(o, B, q),
         \A v \in A, w \in B : Before(o, v, w) => v \in B
  PROVE  /\ IsPrefix(q, s)
         /\ A = B => q = s
<1> DEFINE n == Len(s)
           m == Len(q)
<1>1. PICK S, T : s \in Seq(S) /\ q \in Seq(T)
  BY DEF Lists
<1>2. n \in Nat /\ m \in Nat
  BY <1>1
<1>3. n = Cardinality(A) /\ m = Cardinality(B) /\ IsFiniteSet(A)
  BY DEF Lists, ListsAs
<1>4. m <= n
  BY <1>3, FS_Subset
<1>5. ASSUME NEW w \in B PROVE Place(o, A, w) = Place(o, B, w)
  <2>1. Upto(o, A, w) = Upto(o, B, w)
    BY DEF Upto
  <2> QED BY <2>1 DEF Place
<1>6. ListsAs(o, A, s, n) /\ ListsAs(o, B, q, m)
  BY DEF Lists
<1> HIDE DEF n, m
<1>7. ASSUME NEW i \in 1..m PROVE s[i] = q[i]
  <2>1. PICK w \in B : Place(o, B, w) = i
    BY <1>6 DEF ListsAs
  <2>2. q[i] = Packet(w)
    BY <1>6, <2>1 DEF ListsAs
  <2>3. s[i] = Packet(w)
    BY <1>5, <1>6, <2>1 DEF ListsAs
  <2> QED BY <2>2, <2>3
<1>8. s \in Seq(S \cup T) /\ q \in Seq(S \cup T)
  BY <1>1
<1>9. SubSeq(s, 1, m) = SubSeq(q, 1, m)
  BY <1>2, <1>4, <1>7, <1>8 DEF n, m
<1>10. ASSUME A = B PROVE q = s
  <2>1. n = m
    BY <1>3, <1>10
  <2> QED BY <1>7, <1>8, <2>1 DEF n, m
<1> QED BY <1>4, <1>9, <1>10 DEF IsPrefix, n, m

(* A list has the packets of its visits, and is as long as they are many. *)
LEMMA ListsRange ==
  ASSUME NEW o, NEW A, NEW s, Lists(o, A, s)
  PROVE  ToSet(s) = {Packet(v) : v \in A} /\ Len(s) = Cardinality(A)
<1>1. PICK S : s \in Seq(S)
  BY DEF Lists
<1>2. ListsAs(o, A, s, Len(s)) /\ DOMAIN s = 1..Len(s)
  BY <1>1 DEF Lists
<1>3. ASSUME NEW i \in DOMAIN s PROVE \E v \in A : s[i] = Packet(v)
  BY <1>2 DEF ListsAs
<1>4. ASSUME NEW v \in A PROVE \E i \in DOMAIN s : s[i] = Packet(v)
  BY <1>2 DEF ListsAs
<1> QED BY <1>2, <1>3, <1>4 DEF ListsAs, ToSet

-----------------------------------------------------------------------------
(* One pass through a loop nest.  Of the visits V of the whole nest it runs *)
(* over C, which holds all visits of its packets and lies behind the visits *)
(* run over before.  A are the visits that gave a packet, rest the visits   *)
(* still to come, incl the include map.                                     *)
PartOf(o, V, C) ==
    /\ C \in SUBSET V
    /\ \A v \in C, w \in V : Packet(v) = Packet(w) => w \in C
Running(o, V, C, A, rest, incl) ==
    /\ A \in SUBSET Fresh(o, V)
    /\ incl = {Packet(v) : v \in A \cap C}
    /\ rest \in SUBSET C
    /\ \A v \in C \ rest : Packet(v) \in incl
    /\ \A v \in A \cap C, w \in rest : Before(o, v, w)
    /\ \A v \in A \ C, w \in C : Before(o, v, w)
    /\ \A v \in Fresh(o, V) \ C, w \in C : Before(o, v, w) => v \in A

(* opj_pi_next with pi->first set: nothing of the class was returned yet. *)
LEMMA RunStarts ==
  ASSUME NEW o, NEW V, NEW C, NEW A \in SUBSET Fresh(o, V), A \cap C = {},
         \A v \in A, w \in C : Before(o, v, w),
         \A v \in Fresh(o, V) \ C, w \in C : Before(o, v, w) => v \in A
  PROVE  Running(o, V, C, A, C, {})
  BY DEF Running

(* opj_pi_next: the packet is a new one, and comes behind those returned.   *)
LEMMA RunGoesOn ==
  ASSUME NEW o, NEW V, Nested(o, V), NEW C, PartOf(o, V, C), NEW A, NEW rest, NEW incl,
         Running(o, V, C, A, rest, incl), NEW v \in NextVisits(o, rest, incl)
  PROVE  /\ v \in Fresh(o, V) /\ v \in C /\ v \in rest /\ v \notin A
         /\ \A w \in A : Before(o, w, v)
         /\ Running(o, V, C, A \cup {v}, {w \in rest : Before(o, v, w)}, incl \cup {Packet(v)})
<1> DEFINE R == {w \in rest : Before(o, v, w)}
           B == A \cup {v}
<1>1. /\ v \in rest /\ v \in C /\ v \in V /\ Packet(v) \notin incl
      /\ \A w \in rest : Packet(w) \notin incl /\ w # v => Before(o, v, w)
  BY DEF NextVisits, PartOf, Running
<1>2. v \in Fresh(o, V)
  <2> SUFFICES ASSUME NEW w \in V, Packet(w) = Packet(v), w # v PROVE Before(o, v, w)
    BY <1>1 DEF Fresh
  <2>1. w \in C /\ Packet(w) \notin incl
    BY <1>1 DEF PartOf
  <2>2. w \in rest
    BY <2>1 DEF Running
  <2> QED BY <1>1, <2>1, <2>2
<1>3. ASSUME NEW w \in A PROVE Before(o, w, v)
  BY <1>1 DEF Running
<1>4. v \notin A
  BY <1>1 DEF Running
<1>5. B \in SUBSET Fresh(o, V)
  BY <1>2 DEF Running
<1>6. incl \cup {Packet(v)} = {Packet(w) : w \in B \cap C}
  BY <1>1 DEF Running
<1>7. ASSUME NEW w \in C \ R PROVE Packet(w) \in incl \cup {Packet(v)}
  <2>1. CASE w \in rest
    <3>1. ~Before(o, v, w)
      BY <1>7, <2>1
    <3> QED BY <1>1, <2>1, <3>1
  <2>2. CASE w \notin rest
    BY <2>2 DEF Running
  <2> QED BY <2>1, <2>2
<1>8. R \in SUBSET C /\ \A w \in B \cap C, z \in R : Before(o, w, z)
  <2>1. R \in SUBSET rest /\ rest \in SUBSET C
    BY DEF Running
  <2> QED BY <2>1 DEF Running
<1>9. \A w \in B \ C, z \in C : Before(o, w, z)
  BY <1>1 DEF Running
<1>10. \A w \in Fresh(o, V) \ C, z \in C : Before(o, w, z) => w \in B
  BY DEF Running
<1>11. Running(o, V, C, B, R, incl \cup {Packet(v)})
  BY <1>5, <1>6, <1>7, <1>8, <1>9, <1>10 DEF Running
<1> QED BY <1>1, <1>2, <1>3, <1>4, <1>11

(* When opj_pi_next returns false, every packet was returned.              *)
LEMMA RunEnds ==
  ASSUME NEW o, NEW V, Nested(o, V), NEW C, PartOf(o, V, C), NEW A, NEW rest, NEW incl,
         Running(o, V, C, A, rest, incl), NextVisits(o, rest, incl) = {}
  PROVE  Fresh(o, V) \cap C \in SUBSET A
<1> DEFINE U == {v \in rest : Packet(v) \notin incl}
<1>1. U \in SUBSET V
  BY DEF Running, PartOf
<1>2. U = {}
  <2> SUFFICES ASSUME U # {} PROVE FALSE
    OBVIOUS
  <2>1. PICK u \in U : \A w \in U \ {u} : Before(o, u, w)
    BY <1>1, EarliestOf
  <2> QED BY <2>1 DEF NextVisits
<1>3. ASSUME NEW v \in Fresh(o, V) \cap C PROVE v \in A
  <2>1. Packet(v) \in incl
    BY <1>2 DEF Running
  <2>2. PICK w \in A : Packet(w) = Packet(v)
    BY <2>1 DEF Running
  <2>3. w \in Fresh(o, V)
    BY DEF Running
  <2> QED BY <2>2, <2>3, FreshOnce
<1> QED BY <1>3

(* So far as it has come, a run is behind everything it has left out.      *)
LEMMA RunIsPrefix ==
  ASSUME NEW o, NEW V, Nested(o, V), NEW C, PartOf(o, V, C), NEW A, NEW rest, NEW incl,
         Running(o, V, C, A, rest, incl), NEW v \in Fresh(o, V), NEW w \in A, Before(o, v, w),
         V = C
  PROVE  v \in A
<1>1. v \in V /\ w \in V /\ w \in Fresh(o, V)
  BY DEF Fresh, Running
<1>2. CASE v \in rest
  BY <1>1, <1>2, BeforeStrict DEF Running
<1>3. CASE v \notin rest
  <2>1. PICK u \in A : Packet(u) = Packet(v)
    BY <1>1, <1>3 DEF Running
  <2>2. u \in Fresh(o, V)
    BY <2>1 DEF Running
  <2> QED BY <2>1, <2>2, FreshOnce
<1> QED BY <1>2, <1>3

-----------------------------------------------------------------------------
(* Arithmetic of the grids.                                                *)

(* Quotient and remainder. *)
LEMMA DivIs == ASSUME NEW a \in Int, NEW b \in Nat \ {0}
  PROVE /\ a \div b \in Int /\ a % b \in Int
        /\ a = b * (a \div b) + (a % b)
        /\ 0 <= a % b /\ a % b < b
  OBVIOUS

(* A quotient and its remainder are the only ones.                        *)
LEMMA DivUnique == ASSUME NEW a \in Int, NEW b \in Nat \ {0}, NEW c \in Int, NEW r \in Int, a = b * c + r, 0 <= r, r < b
  PROVE a \div b = c /\ a % b = r
<1>1. PICK d, m : d = a \div b /\ m = a % b /\ d \in Int /\ m \in Int /\ a = b * d + m /\ 0 <= m /\ m < b
  BY DivIs
<1>2. b * (d - c) = r - m
  BY <1>1
<1>3. ~(d - c >= 1)
  <2> SUFFICES ASSUME d - c >= 1 PROVE FALSE
    OBVIOUS
  <2>1. b * (d - c) >= b
    BY <1>1
  <2> QED BY <1>1, <1>2, <2>1
<1>4. ~(d - c <= -1)
  <2> SUFFICES ASSUME d - c <= -1 PROVE FALSE
    OBVIOUS
  <2>1. b * (d - c) <= -b
    BY <1>1
  <2> QED BY <1>1, <1>2, <2>1
<1> QED BY <1>1, <1>3, <1>4

(* opj_uint_ceildiv: the least multiple from a on.                        *)
LEMMA CeilIs == ASSUME NEW a \in Int, NEW b \in Nat \ {0}
  PROVE  /\ CeilDiv(a, b) \in Int
         /\ b * (CeilDiv(a, b) - 1) < a
         /\ a <= b * CeilDiv(a, b)
  BY DivIs DEF CeilDiv

(* Rounding up. *)
LEMMA CeilUnique ==
  ASSUME NEW a \in Int, NEW b \in Nat \ {0}, NEW c \in Int, b * (c - 1) < a, a <= b * c
  PROVE  CeilDiv(a, b) = c
<1> DEFINE e == CeilDiv(a, b)
<1>1. e \in Int /\ b * (e - 1) < a /\ a <= b * e
  BY CeilIs
<1> HIDE DEF e
<1>2. b * (e - 1) < b * c /\ b * (c - 1) < b * e
  <2>1. b * (e - 1) \in Int /\ b * c \in Int /\ b * (c - 1) \in Int /\ b * e \in Int
    BY <1>1
  <2> QED BY <1>1, <2>1
<1>3. e - 1 < c
  <2> SUFFICES ASSUME e - 1 >= c PROVE FALSE
    BY <1>1
  <2>1. b * (e - 1) >= b * c
    BY <1>1
  <2> QED BY <1>1, <1>2, <2>1
<1>4. c - 1 < e
  <2> SUFFICES ASSUME c - 1 >= e PROVE FALSE
    BY <1>1
  <2>1. b * (c - 1) >= b * e
    BY <1>1
  <2> QED BY <1>1, <1>2, <2>1
<1>5. e = c
  BY <1>1, <1>3, <1>4
<1> QED BY <1>5 DEF e

(* A positive factor cancels ..                                           *)
LEMMA MulCancel ==
  ASSUME NEW b \in Nat \ {0}, NEW c \in Int, NEW d \in Int, b * c < b * d
  PROVE  c < d
<1> SUFFICES ASSUME c >= d PROVE FALSE
  OBVIOUS
<1>1. b * c >= b * d
  OBVIOUS
<1>2. b * c \in Int /\ b * d \in Int
  OBVIOUS
<1> QED BY <1>1, <1>2

(* .. multiplying keeps an order ..                                       *)
LEMMA MulMono ==
  ASSUME NEW b \in Nat, NEW c \in Int, NEW d \in Int, c <= d
  PROVE  b * c <= b * d /\ b * c \in Int /\ b * d \in Int
  OBVIOUS

(* .. dividing does ..                                                    *)
LEMMA DivMono ==
  ASSUME NEW b \in Nat \ {0}, NEW c \in Int, NEW d \in Int, c <= d
  PROVE  c \div b <= d \div b /\ c \div b \in Int /\ d \div b \in Int
<1> DEFINE u == c \div b
           w == d \div b
<1>1. /\ u \in Int /\ w \in Int /\ c % b \in Int /\ d % b \in Int
      /\ c = b * u + (c % b) /\ 0 <= c % b
      /\ d = b * w + (d % b) /\ d % b < b
  BY DivIs
<1>2. PICK m, k : m = c % b /\ k = d % b
  OBVIOUS
<1> HIDE DEF u, w
<1>3. b * u <= c /\ d < b * w + b
  BY <1>1, <1>2
<1>4. b * (w + 1) = b * w + b
  BY <1>1
<1>5. b * u < b * (w + 1)
  <2>1. b * u \in Int /\ b * w \in Int
    BY <1>1
  <2> QED BY <1>3, <1>4, <2>1
<1>6. u < w + 1
  BY <1>1, <1>5, MulCancel
<1> QED BY <1>1, <1>6 DEF u, w

(* .. and so does rounding up.                                            *)
LEMMA CeilMono ==
  ASSUME NEW b \in Nat \ {0}, NEW c \in Int, NEW d \in Int, c <= d
  PROVE  CeilDiv(c, b) <= CeilDiv(d, b)
<1>1. (c + b) - 1 <= (d + b) - 1 /\ (c + b) - 1 \in Int /\ (d + b) - 1 \in Int
  OBVIOUS
<1> QED BY <1>1, DivMono DEF CeilDiv

(* A multiple of s, and of s * q, on the coarser grids. *)
LEMMA OnGrid ==
  ASSUME NEW s \in Nat \ {0}, NEW q \in Nat \ {0}, NEW k \in Int
  PROVE  /\ CeilDiv(s * (q * k), s) = q * k
         /\ (q * k) \div q = k
<1>1. q * k \in Int /\ s * (q * k) \in Int
  OBVIOUS
<1>2. CeilDiv(s * (q * k), s) = q * k
  <2>1. s * ((q * k) - 1) < s * (q * k)
    BY <1>1
  <2> QED BY <1>1, <2>1, CeilUnique
<1>3. (q * k) \div q = k
  <2>1. q * k = q * k + 0 /\ 0 \in Int /\ 0 <= 0 /\ 0 < q
    BY <1>1
  <2> QED BY <1>1, <2>1, DivUnique
<1> QED BY <1>2, <1>3

(* The precincts along one axis, as opj_get_all_encoding_parameters counts  *)
(* them, and the one that a place v lies in: s is the step of the grid of   *)
(* the resolution, q the size of a precinct on it.                          *)
Along(lo, hi, s, q) ==
    IF CeilDiv(lo, s) = CeilDiv(hi, s) THEN 0
    ELSE CeilDiv(CeilDiv(hi, s), q) - CeilDiv(lo, s) \div q
IndexAt(lo, s, q, v) == CeilDiv(v, s) \div q - CeilDiv(lo, s) \div q

(* The number of precincts along an axis.                                 *)
LEMMA AlongType ==
  ASSUME NEW lo \in Nat, NEW hi \in Nat, lo <= hi, NEW s \in Nat \ {0}, NEW q \in Nat \ {0}
  PROVE  Along(lo, hi, s, q) \in Nat
<1> DEFINE a == CeilDiv(lo, s)
           b == CeilDiv(hi, s)
<1>0. lo \in Int /\ hi \in Int
  OBVIOUS
<1>1. a \in Int /\ b \in Int /\ a <= b
  <2>1. a \in Int /\ b \in Int
    BY <1>0, CeilIs
  <2>2. a <= b
    BY <1>0, CeilMono
  <2> QED BY <2>1, <2>2
<1>2. a \div q \in Int /\ CeilDiv(b, q) \in Int /\ b <= q * CeilDiv(b, q)
  BY <1>1, DivIs, CeilIs
<1>3. q * (a \div q) <= a
  <2>1. a = q * (a \div q) + (a % q) /\ 0 <= a % q /\ a % q \in Int
    BY <1>1, DivIs
  <2> QED BY <1>1, <1>2, <2>1
<1>4. CASE a # b
  <2>1. a < b
    BY <1>1, <1>4
  <2>2. q * (a \div q) < q * CeilDiv(b, q)
    <3>1. q * (a \div q) \in Int /\ q * CeilDiv(b, q) \in Int
      BY <1>2
    <3> HIDE DEF a, b
    <3> QED BY <1>1, <1>2, <1>3, <2>1, <3>1
  <2>3. a \div q < CeilDiv(b, q)
    BY <1>2, <2>2, MulCancel
  <2> QED BY <1>2, <1>4, <2>3 DEF Along
<1>5. CASE a = b
  BY <1>5 DEF Along
<1> QED BY <1>4, <1>5

(* A place of the tile at which the position loops stop lies in one of the *)
(* precincts: prci and prcj of pi.c:425 never reach pw and ph.            *)
LEMMA IndexInside ==
  ASSUME NEW lo \in Nat, NEW hi \in Nat, NEW s \in Nat \ {0}, NEW q \in Nat \ {0},
         NEW v \in Nat, lo <= v, v < hi, v % (s * q) = 0 \/ v = lo,
         Along(lo, hi, s, q) # 0
  PROVE  IndexAt(lo, s, q, v) \in 0..(Along(lo, hi, s, q) - 1)
<1> DEFINE a == CeilDiv(lo, s)
           b == CeilDiv(hi, s)
           c == CeilDiv(v, s)
<1>0. lo <= hi /\ lo \in Int /\ hi \in Int /\ v \in Int
  OBVIOUS
<1>1. a \in Int /\ b \in Int /\ c \in Int /\ a <= c
  <2>1. a \in Int /\ b \in Int /\ c \in Int
    BY <1>0, CeilIs
  <2>2. a <= c
    BY <1>0, CeilMono
  <2> QED BY <2>1, <2>2
<1>2. a \div q \in Int /\ c \div q \in Int /\ a \div q <= c \div q
  BY <1>1, DivMono
<1>3. Along(lo, hi, s, q) = CeilDiv(b, q) - (a \div q) /\ Along(lo, hi, s, q) \in Nat
  BY <1>0, AlongType DEF Along
<1>4. IndexAt(lo, s, q, v) = (c \div q) - (a \div q)
  BY DEF IndexAt
<1>5. CeilDiv(b, q) \in Int /\ b <= q * CeilDiv(b, q)
  BY <1>1, CeilIs
<1> HIDE DEF a, b, c
<1>6. CASE v = lo
  <2>1. IndexAt(lo, s, q, v) = 0
    BY <1>2, <1>4, <1>6 DEF a, c
  <2> QED BY <1>3, <2>1
<1>7. CASE v % (s * q) = 0
  <2> DEFINE k == v \div (s * q)
  <2>1. s * q \in Nat \ {0}
    OBVIOUS
  <2>2. k \in Int /\ v = (s * q) * k + (v % (s * q))
    BY <1>0, <2>1, DivIs
  <2>3. v = (s * q) * k
    BY <1>0, <1>7, <2>2
  <2> HIDE DEF k
  <2>4. v = s * (q * k) /\ q * k \in Int
    BY <2>2, <2>3
  <2>5. c = q * k /\ c \div q = k
    BY <2>2, <2>4, OnGrid DEF c
  <2>6. hi <= s * b
    BY <1>0, CeilIs DEF b
  <2>7. s * (q * k) < s * b
    <3>1. s * b \in Int
      BY <1>1
    <3> QED BY <1>0, <2>4, <2>6, <3>1
  <2>8. q * k < b
    BY <1>1, <2>4, <2>7, MulCancel
  <2>9. q * k < q * CeilDiv(b, q)
    <3>1. q * CeilDiv(b, q) \in Int
      BY <1>5
    <3> QED BY <1>1, <1>5, <2>4, <2>8, <3>1
  <2>10. k < CeilDiv(b, q)
    BY <1>5, <2>2, <2>9, MulCancel
  <2> QED BY <1>2, <1>3, <1>4, <1>5, <2>2, <2>5, <2>10
<1> QED BY <1>6, <1>7

(* Every precinct begins somewhere, or is the one the tile cuts into. *)
LEMMA IndexReached ==
  ASSUME NEW lo \in Nat, NEW hi \in Nat, lo <= hi, NEW s \in Nat \ {0}, NEW q \in Nat \ {0},
         NEW n \in 0..(Along(lo, hi, s, q) - 1)
  PROVE  \E v \in lo..(hi - 1) :
            /\ IndexAt(lo, s, q, v) = n
            /\ v % (s * q) = 0 \/ (v = lo /\ CeilDiv(lo, s) % q # 0)
<1> DEFINE a == CeilDiv(lo, s)
           b == CeilDiv(hi, s)
           f == a \div q
<1>0. Along(lo, hi, s, q) \in Nat /\ n \in Nat /\ Along(lo, hi, s, q) # 0 /\ lo \in Int /\ hi \in Int
  BY AlongType
<1>1. a # b /\ Along(lo, hi, s, q) = CeilDiv(b, q) - f
  BY <1>0 DEF Along
<1>2. a \in Int /\ b \in Int
  BY <1>0, CeilIs
<1>3. f \in Int /\ a % q \in Int /\ a = q * f + (a % q) /\ 0 <= a % q /\ a % q < q
  BY <1>2, DivIs
<1>4. CeilDiv(b, q) \in Int /\ q * (CeilDiv(b, q) - 1) < b
  BY <1>2, CeilIs
<1>5. lo <= s * a /\ s * (b - 1) < hi
  BY <1>0, CeilIs
<1>6. CASE n = 0 /\ a % q # 0
  <2>1. IndexAt(lo, s, q, lo) = 0
    BY <1>3 DEF IndexAt
  <2>2. lo # hi
    BY <1>1
  <2> QED BY <1>6, <2>1, <2>2
<1>7. CASE n > 0 \/ a % q = 0
  <2> DEFINE k == f + n
             v == s * (q * k)
  <2>1. PICK m : m = a % q
    OBVIOUS
  <2> HIDE DEF a, b, f
  <2>2. q * k = q * f + q * n /\ q * f \in Int /\ q * n \in Int /\ k \in Int
    BY <1>0, <1>3
  <2>3. a <= q * k
    <3>1. CASE n > 0
      <4>1. q * n >= q
        BY <1>0, <3>1
      <4> QED BY <1>2, <1>3, <2>1, <2>2, <4>1
    <3>2. CASE m = 0 /\ n = 0
      BY <1>3, <2>1, <2>2, <3>2
    <3> QED BY <1>0, <1>7, <2>1, <3>1, <3>2
  <2>4. k <= CeilDiv(b, q) - 1
    BY <1>0, <1>1, <1>3, <1>4
  <2>5. q * k \in Int /\ q * k <= q * (CeilDiv(b, q) - 1) /\ q * (CeilDiv(b, q) - 1) \in Int
    BY <1>4, <2>2, <2>4, MulMono
  <2>6. q * k <= b - 1
    BY <1>2, <1>4, <2>5
  <2> DEFINE j == q * k
  <2>7. j \in Int /\ a <= j /\ j <= b - 1
    BY <2>3, <2>5, <2>6
  <2> HIDE DEF j
  <2>8. s * a <= s * j /\ s * j <= s * (b - 1) /\ s * a \in Int /\ s * j \in Int /\ s * (b - 1) \in Int
    BY <1>2, <2>7
  <2>9. s * j \in lo..(hi - 1)
    BY <1>0, <1>5, <2>8
  <2>10. CeilDiv(s * j, s) = j /\ j \div q = k
    BY <2>2, OnGrid DEF j
  <2>11. IndexAt(lo, s, q, s * j) = n
    BY <1>0, <1>3, <2>10 DEF IndexAt, a, f
  <2>12. (s * j) % (s * q) = 0
    <3>1. s * q \in Nat \ {0}
      OBVIOUS
    <3>2. s * j = (s * q) * k + 0
      BY <2>2 DEF j
    <3>3. s * j \in Int /\ k \in Int /\ 0 \in Int /\ 0 <= 0 /\ 0 < s * q
      BY <2>2, <2>8, <3>1
    <3> HIDE DEF k
    <3> QED BY <3>1, <3>2, <3>3, DivUnique
  <2> QED BY <2>9, <2>11, <2>12
<1> QED BY <1>0, <1>3, <1>6, <1>7

-----------------------------------------------------------------------------
(* The geometry of a tile.                                                 *)

(* The number of subsets of 1..k. *)
LEMMA PowerPositive ==
  ASSUME NEW k \in Nat
  PROVE  2^k \in Nat \ {0}
<1>1. 1 \in Int /\ k \in Int
  OBVIOUS
<1>2. IsFiniteSet(1..k) /\ Cardinality(1..k) = k
  BY <1>1, FS_Interval
<1>3. IsFiniteSet(SUBSET (1..k)) /\ Cardinality(SUBSET (1..k)) = 2^k
  BY <1>2, FS_SUBSET
<1>4. Cardinality(SUBSET (1..k)) \in Nat
  BY <1>3, FS_CardinalityType
<1>5. SUBSET (1..k) # {}
  OBVIOUS
<1>6. Cardinality(SUBSET (1..k)) # 0
  BY <1>3, <1>5, FS_EmptySet
<1> QED BY <1>3, <1>4, <1>6

(* A finite set that is not empty has a least member if it is of naturals. *)
LEMMA MinIs ==
  ASSUME NEW S \in SUBSET Nat, S # {}
  PROVE  Min(S) \in S /\ \A x \in S : Min(S) <= x
  BY LeastOf DEF Min

(* A tile has a component and a resolution at least.                      *)
LEMMA TileCounts ==
  ASSUME NEW u, IsTile(u)
  PROVE  /\ NumComps(u) \in Nat \ {0} /\ NumRes(u) \in Nat \ {0}
         /\ \A i \in 1..NumComps(u), a \in Axes : u.comps[i][a] \in Nat \ {0}
         /\ \A i \in 1..NumRes(u), a \in Axes : u.res[i][a] \in Nat
         /\ 0 \in CompNos(u) /\ 0 \in ResNos(u)
         /\ CompNos(u) \in SUBSET Nat /\ ResNos(u) \in SUBSET Nat
         /\ IsFiniteSet(CompNos(u)) /\ IsFiniteSet(ResNos(u))
<1>1. u.comps \in Seq([Axes -> Nat \ {0}]) /\ u.comps # <<>>
  BY DEF IsTile
<1>2. u.res \in Seq([Axes -> Nat]) /\ u.res # <<>>
  BY DEF IsTile
<1>3. NumComps(u) \in Nat \ {0} /\ \A i \in 1..NumComps(u) : u.comps[i] \in [Axes -> Nat \ {0}]
  BY <1>1 DEF NumComps
<1>4. NumRes(u) \in Nat \ {0} /\ \A i \in 1..NumRes(u) : u.res[i] \in [Axes -> Nat]
  BY <1>2 DEF NumRes
<1>5. NumComps(u) - 1 \in Nat /\ NumRes(u) - 1 \in Nat /\ 0 \in Int
  BY <1>3, <1>4
<1>6. IsFiniteSet(0..(NumComps(u) - 1)) /\ IsFiniteSet(0..(NumRes(u) - 1))
  BY <1>5, FS_Interval
<1> QED BY <1>3, <1>4, <1>5, <1>6 DEF CompNos, ResNos

(* The grids of a resolution have steps.                                  *)
LEMMA Grids ==
  ASSUME NEW u, IsTile(u), NEW c \in CompNos(u), NEW r \in ResNos(u), NEW a \in Axes
  PROVE  /\ 2^Level(u, r) \in Nat \ {0}
         /\ Scale(u, c, r, a) \in Nat \ {0}
         /\ Precinct(u, r, a) \in Nat \ {0}
         /\ Step(u, c, r, a) \in Nat \ {0}
<1>1. c + 1 \in 1..NumComps(u) /\ r + 1 \in 1..NumRes(u) /\ Level(u, r) \in Nat
  BY TileCounts DEF CompNos, ResNos, Level
<1>2. u.comps[c + 1][a] \in Nat \ {0} /\ u.res[r + 1][a] \in Nat
  BY <1>1, TileCounts
<1>3. 2^Level(u, r) \in Nat \ {0} /\ 2^u.res[r + 1][a] \in Nat \ {0}
  BY <1>1, <1>2, PowerPositive
<1>4. \A i, j \in Nat \ {0} : i * j \in Nat \ {0}
  OBVIOUS
<1> QED BY <1>2, <1>3, <1>4 DEF Scale, Precinct, Step

(* A resolution's precincts along an axis are those of its grid.          *)
LEMMA AcrossIs ==
  ASSUME NEW u, IsTile(u), NEW c \in CompNos(u), NEW r \in ResNos(u), NEW a \in Axes
  PROVE  /\ Across(u, c, r, a) = Along(u.lo[a], u.hi[a], Scale(u, c, r, a), Precinct(u, r, a))
         /\ Across(u, c, r, a) \in Nat
<1>1. Across(u, c, r, a) = Along(u.lo[a], u.hi[a], Scale(u, c, r, a), Precinct(u, r, a))
  BY DEF Across, Along, ResLo, ResHi
<1>2. u.lo[a] \in Nat /\ u.hi[a] \in Nat /\ u.lo[a] <= u.hi[a]
  BY DEF IsTile
<1> QED BY <1>1, <1>2, Grids, AlongType

(* The number of precincts is a number.                                   *)
LEMMA NumPrecType ==
  ASSUME NEW u, IsTile(u)
  PROVE  \A c \in CompNos(u), r \in ResNos(u) : NumPrec(u, c, r) \in Nat
<1>1. "x" \in Axes /\ "y" \in Axes
  BY DEF Axes
<1> QED BY <1>1, AcrossIs DEF NumPrec

(* No resolution has more precincts than MaxPrec. *)
LEMMA MaxPrecIs ==
  ASSUME NEW u, IsTile(u)
  PROVE  /\ MaxPrec(u) \in Nat
         /\ \A c \in CompNos(u), r \in ResNos(u) : NumPrec(u, c, r) <= MaxPrec(u)
         /\ \E c \in CompNos(u), r \in ResNos(u) : NumPrec(u, c, r) = MaxPrec(u)
<1> DEFINE D == CompNos(u) \X ResNos(u)
           f == [d \in D |-> NumPrec(u, d[1], d[2])]
           S == {NumPrec(u, c, r) : c \in CompNos(u), r \in ResNos(u)}
<1>1. IsFiniteSet(D)
  BY TileCounts, FS_Product
<1>2. f \in Surjection(D, S)
  <2>1. f \in [D -> S]
    OBVIOUS
  <2>2. ASSUME NEW n \in S PROVE \E d \in D : f[d] = n
    <3>1. PICK c \in CompNos(u), r \in ResNos(u) : n = NumPrec(u, c, r)
      OBVIOUS
    <3>2. <<c, r>> \in D /\ f[<<c, r>>] = n
      BY <3>1
    <3> QED BY <3>2
  <2> QED BY <2>1, <2>2 DEF Surjection
<1>3. IsFiniteSet(S) /\ S # {}
  <2>1. IsFiniteSet(S)
    BY <1>1, <1>2, FS_Surjection
  <2>2. NumPrec(u, 0, 0) \in S
    BY TileCounts
  <2> QED BY <2>1, <2>2
<1>4. S \in SUBSET Nat
  BY NumPrecType
<1> HIDE DEF S
<1>5. Max(S) \in S /\ \A x \in S : x <= Max(S)
  BY <1>3, <1>4, GreatestOf
<1>6. MaxPrec(u) = Max(S)
  BY DEF MaxPrec, S
<1>7. \A c \in CompNos(u), r \in ResNos(u) : NumPrec(u, c, r) \in S
  BY DEF S
<1>8. \A n \in S : \E c \in CompNos(u), r \in ResNos(u) : n = NumPrec(u, c, r)
  BY DEF S
<1> QED BY <1>4, <1>5, <1>6, <1>7, <1>8

(* What the loops over a position advance by. *)
LEMMA MinStepIs ==
  ASSUME NEW u, IsTile(u), NEW cs \in SUBSET CompNos(u), cs # {}, NEW a \in Axes
  PROVE  MinStep(u, cs, a) \in Nat \ {0}
<1> DEFINE S == {Step(u, c, r, a) : c \in cs, r \in ResNos(u)}
<1>1. S \in SUBSET (Nat \ {0})
  BY Grids
<1>2. S # {}
  <2>1. 0 \in ResNos(u)
    BY TileCounts
  <2> QED BY <2>1
<1> HIDE DEF S
<1>3. Min(S) \in S
  BY <1>1, <1>2, MinIs
<1> QED BY <1>1, <1>3 DEF MinStep, S

(* The visits of a loop nest, one by one. *)
Visited(it, u, v) == /\ v.L \in Span(it.L)
                     /\ v.R \in Span(it.R) /\ v.R \in ResNos(u)
                     /\ v.C \in Span(it.C)
CountedVisit(u, it, v) ==
    /\ Visited(it, u, v)
    /\ v = Visit(v.L, v.R, v.C, v.P, 0, 0)
    /\ v.P \in it.P[1]..((IF it.tpOn THEN it.P[2] ELSE NumPrec(u, v.C, v.R)) - 1)

Hits(u, it, c, r, a) ==
    {n \in Stops(IF it.tpOn THEN it[a] ELSE <<u.lo[a], u.hi[a]>>,
                 MinStep(u, IF it.prg = "CPRL" THEN {c} ELSE CompNos(u), a)) :
       Begins(u, c, r, a, n)}
PlacedVisit(u, it, v) ==
    /\ Visited(it, u, v)
    /\ v = Visit(v.L, v.R, v.C, PrecinctAt(u, v.C, v.R, v.x, v.y), v.x, v.y)
    /\ NumPrec(u, v.C, v.R) > 0
    /\ v.x \in Hits(u, it, v.C, v.R, "x") /\ v.y \in Hits(u, it, v.C, v.R, "y")

(* The fields of a visit.                                                 *)
LEMMA VisitFields ==
  ASSUME NEW l, NEW r, NEW c, NEW p, NEW x, NEW y
  PROVE  LET v == Visit(l, r, c, p, x, y)
         IN  v.L = l /\ v.R = r /\ v.C = c /\ v.P = p /\ v.x = x /\ v.y = y
  BY DEF Visit

(* The visits of opj_pi_next_lrcp and _rlcp, one by one.                  *)
LEMMA CountedIs ==
  ASSUME NEW u, NEW it, NEW v
  PROVE  v \in CountedVisits(u, it) <=> CountedVisit(u, it, v)
<1>1. ASSUME v \in CountedVisits(u, it) PROVE CountedVisit(u, it, v)
  <2>1. PICK r \in Span(it.R) \cap ResNos(u), c \in Span(it.C) :
           \E l \in Span(it.L),
              p \in it.P[1]..((IF it.tpOn THEN it.P[2] ELSE NumPrec(u, c, r)) - 1) :
                v = Visit(l, r, c, p, 0, 0)
    BY <1>1 DEF CountedVisits
  <2>2. PICK l \in Span(it.L),
             p \in it.P[1]..((IF it.tpOn THEN it.P[2] ELSE NumPrec(u, c, r)) - 1) :
               v = Visit(l, r, c, p, 0, 0)
    BY <2>1
  <2>3. v.L = l /\ v.R = r /\ v.C = c /\ v.P = p
    BY <2>2, VisitFields
  <2> QED BY <2>1, <2>2, <2>3 DEF CountedVisit, Visited
<1>2. ASSUME CountedVisit(u, it, v) PROVE v \in CountedVisits(u, it)
  <2> DEFINE ps(r, c) == it.P[1]..((IF it.tpOn THEN it.P[2] ELSE NumPrec(u, c, r)) - 1)
             at(r, c) == {Visit(l, r, c, p, 0, 0) : l \in Span(it.L), p \in ps(r, c)}
  <2>1. PICK r \in Span(it.R) \cap ResNos(u), c \in Span(it.C) :
           \E l \in Span(it.L), p \in ps(r, c) : v = Visit(l, r, c, p, 0, 0)
    BY <1>2 DEF CountedVisit, Visited
  <2>2. v \in at(r, c)
    BY <2>1
  <2>3. CountedVisits(u, it) = UNION {at(i, j) : i \in Span(it.R) \cap ResNos(u), j \in Span(it.C)}
    BY DEF CountedVisits
  <2> HIDE DEF at
  <2> QED BY <2>1, <2>2, <2>3
<1> QED BY <1>1, <1>2

(* The visits of opj_pi_next_rpcl, _pcrl and _cprl, one by one.           *)
LEMMA PlacedIs ==
  ASSUME NEW u, NEW it, NEW v
  PROVE  v \in PlacedVisits(u, it) <=> PlacedVisit(u, it, v)
<1> DEFINE at(r, c) == {Visit(l, r, c, PrecinctAt(u, c, r, x, y), x, y) :
                          l \in Span(it.L), x \in Hits(u, it, c, r, "x"),
                          y \in Hits(u, it, c, r, "y")}
           some(r) == {d \in Span(it.C) : NumPrec(u, d, r) > 0}
<1>0. PlacedVisits(u, it) = UNION {UNION {at(r, c) : c \in some(r)} : r \in Span(it.R) \cap ResNos(u)}
  BY DEF PlacedVisits, Hits
<1>1. ASSUME v \in PlacedVisits(u, it) PROVE PlacedVisit(u, it, v)
  <2> HIDE DEF at, some
  <2>1. PICK r \in Span(it.R) \cap ResNos(u) : v \in UNION {at(r, c) : c \in some(r)}
    BY <1>0, <1>1
  <2>2. PICK c \in some(r) : v \in at(r, c)
    BY <2>1
  <2> USE DEF at, some
  <2>3. PICK l \in Span(it.L), x \in Hits(u, it, c, r, "x"), y \in Hits(u, it, c, r, "y") :
               v = Visit(l, r, c, PrecinctAt(u, c, r, x, y), x, y)
    BY <2>2
  <2>4. v.L = l /\ v.R = r /\ v.C = c /\ v.x = x /\ v.y = y
    BY <2>3, VisitFields
  <2> QED BY <2>1, <2>2, <2>3, <2>4 DEF PlacedVisit, Visited
<1>2. ASSUME PlacedVisit(u, it, v) PROVE v \in PlacedVisits(u, it)
  <2>1. PICK r \in Span(it.R) \cap ResNos(u), c \in Span(it.C) : c \in some(r) /\
           \E l \in Span(it.L), x \in Hits(u, it, c, r, "x"), y \in Hits(u, it, c, r, "y") :
             v = Visit(l, r, c, PrecinctAt(u, c, r, x, y), x, y)
    BY <1>2 DEF PlacedVisit, Visited
  <2>2. v \in at(r, c)
    BY <2>1
  <2> HIDE DEF at, some
  <2> QED BY <1>0, <2>1, <2>2
<1> QED BY <1>1, <1>2

(* All visits of a tile without progression changes, on being tp_on. *)
Full(u) == Ranges(u, <<>>, 0)
Least(u, c, a) == MinStep(u, IF u.prg = "CPRL" THEN {c} ELSE CompNos(u), a)
Places(u, c, r, a) == {n \in Stops(<<u.lo[a], u.hi[a]>>, Least(u, c, a)) : Begins(u, c, r, a, n)}
Whole(u, on, v) ==
    /\ v.L \in 0..(u.layers - 1) /\ v.R \in ResNos(u) /\ v.C \in CompNos(u)
    /\ IF ByPosition(u.prg)
       THEN /\ v = Visit(v.L, v.R, v.C, PrecinctAt(u, v.C, v.R, v.x, v.y), v.x, v.y)
            /\ NumPrec(u, v.C, v.R) > 0
            /\ v.x \in Places(u, v.C, v.R, "x") /\ v.y \in Places(u, v.C, v.R, "y")
       ELSE /\ v = Visit(v.L, v.R, v.C, v.P, 0, 0)
            /\ v.P \in 0..((IF on THEN MaxPrec(u) ELSE NumPrec(u, v.C, v.R)) - 1)
All(u, on) == Visits(u, Iterator(u.prg, on, Full(u)))

(* The whole ranges of a tile without progression changes.                *)
LEMMA FullIs ==
  ASSUME NEW u
  PROVE  /\ Full(u).L = <<0, u.layers>> /\ Full(u).R = <<0, NumRes(u)>>
         /\ Full(u).C = <<0, NumComps(u)>> /\ Full(u).P = <<0, MaxPrec(u)>>
         /\ Full(u).x = <<u.lo["x"], u.hi["x"]>> /\ Full(u).y = <<u.lo["y"], u.hi["y"]>>
  BY DEF Full, Ranges, Digits, Letters, Axes

(* The visits of a window inside the whole ranges.                        *)
LEMMA WindowVisits ==
  ASSUME NEW u, NEW on \in BOOLEAN, NEW w, NEW v,
         w.P = <<0, MaxPrec(u)>>,
         w.x = <<u.lo["x"], u.hi["x"]>>, w.y = <<u.lo["y"], u.hi["y"]>>,
         Span(w.L) \subseteq 0..(u.layers - 1), Span(w.R) \subseteq ResNos(u),
         Span(w.C) \subseteq CompNos(u)
  PROVE  v \in Visits(u, Iterator(u.prg, on, w)) <=>
           Whole(u, on, v) /\ v.L \in Span(w.L) /\ v.R \in Span(w.R) /\ v.C \in Span(w.C)
<1> DEFINE it == Iterator(u.prg, on, w)
<1>1. /\ it.prg = u.prg /\ it.tpOn = on /\ it.L = w.L /\ it.R = w.R /\ it.C = w.C
      /\ it.P = w.P /\ it.x = w.x /\ it.y = w.y /\ it["x"] = w.x /\ it["y"] = w.y
  BY DEF Iterator
<1> HIDE DEF it
<1>2. CASE ByPosition(u.prg)
  <2>1. v \in Visits(u, it) <=> PlacedVisit(u, it, v)
    BY <1>1, <1>2, PlacedIs DEF Visits
  <2>2. \A c, r : Hits(u, it, c, r, "x") = Places(u, c, r, "x") /\ Hits(u, it, c, r, "y") = Places(u, c, r, "y")
    BY <1>1 DEF Hits, Places, Least
  <2> QED BY <1>1, <1>2, <2>1, <2>2 DEF PlacedVisit, Visited, Whole, it
<1>3. CASE ~ByPosition(u.prg)
  <2>1. v \in Visits(u, it) <=> CountedVisit(u, it, v)
    BY <1>1, <1>3, CountedIs DEF Visits
  <2>2. it.P[1] = 0 /\ it.P[2] = MaxPrec(u)
    BY <1>1
  <2> QED BY <1>1, <1>3, <2>1, <2>2 DEF CountedVisit, Visited, Whole, it
<1> QED BY <1>2, <1>3

(* The visits of the whole ranges.                                        *)
LEMMA AllIs ==
  ASSUME NEW u, IsTile(u), NEW on \in BOOLEAN, NEW v
  PROVE  v \in All(u, on) <=> Whole(u, on, v)
<1> DEFINE w == Full(u)
<1>1. Span(w.L) = 0..(u.layers - 1) /\ Span(w.R) = ResNos(u) /\ Span(w.C) = CompNos(u)
  BY FullIs DEF Span, ResNos, CompNos
<1>2. /\ w.P = <<0, MaxPrec(u)>> /\ w.x = <<u.lo["x"], u.hi["x"]>> /\ w.y = <<u.lo["y"], u.hi["y"]>>
  BY FullIs
<1> HIDE DEF w
<1>3. v \in Visits(u, Iterator(u.prg, on, w)) <=>
           Whole(u, on, v) /\ v.L \in Span(w.L) /\ v.R \in Span(w.R) /\ v.C \in Span(w.C)
  BY <1>1, <1>2, WindowVisits
<1> QED BY <1>1, <1>3 DEF All, Whole, w

(* A place at which the loops stop is one of the tile, in one of its precincts. *)
LEMMA PlacesIs ==
  ASSUME NEW u, IsTile(u), NEW c \in CompNos(u), NEW r \in ResNos(u), NEW a \in Axes,
         NEW n \in Places(u, c, r, a), Across(u, c, r, a) # 0
  PROVE  /\ n \in Nat
         /\ n \in u.lo[a]..(u.hi[a] - 1)
         /\ IndexAt(u.lo[a], Scale(u, c, r, a), Precinct(u, r, a), n) \in 0..(Across(u, c, r, a) - 1)
<1>1. u.lo[a] \in Nat /\ u.hi[a] \in Nat
  BY DEF IsTile
<1>2. n \in u.lo[a]..(u.hi[a] - 1) /\ Begins(u, c, r, a, n)
  BY DEF Places, Stops, Span
<1>3. n % (Scale(u, c, r, a) * Precinct(u, r, a)) = 0 \/ n = u.lo[a]
  BY <1>2 DEF Begins, Step
<1>4. n \in Nat /\ u.lo[a] <= n /\ n < u.hi[a]
  BY <1>1, <1>2
<1>5. Along(u.lo[a], u.hi[a], Scale(u, c, r, a), Precinct(u, r, a)) # 0
  BY AcrossIs
<1>6. Scale(u, c, r, a) \in Nat \ {0} /\ Precinct(u, r, a) \in Nat \ {0}
  BY Grids
<1>7. IndexAt(u.lo[a], Scale(u, c, r, a), Precinct(u, r, a), n)
         \in 0..(Along(u.lo[a], u.hi[a], Scale(u, c, r, a), Precinct(u, r, a)) - 1)
  BY <1>1, <1>3, <1>4, <1>5, <1>6, IndexInside
<1> QED BY <1>2, <1>4, <1>7, AcrossIs

(* The precincts of a resolution, row by row. *)
LEMMA RowByRow ==
  ASSUME NEW k \in Nat, NEW m \in Nat, NEW i \in 0..(k - 1), NEW j \in 0..(m - 1)
  PROVE  i + j * k \in 0..(k * m - 1)
<1>1. j * k <= (m - 1) * k /\ j * k \in Nat /\ (m - 1) * k = k * m - k
  <2>1. k * j <= k * (m - 1)
    BY MulMono
  <2>2. k * j = j * k /\ k * (m - 1) = k * m - k /\ (m - 1) * k = k * m - k /\ j * k \in Nat
    OBVIOUS
  <2> QED BY <2>1, <2>2
<1>2. k * m \in Int
  OBVIOUS
<1> QED BY <1>1, <1>2

(* Where the position loops stop they name a precinct of the resolution.  *)
LEMMA PrecinctInside ==
  ASSUME NEW u, IsTile(u), NEW c \in CompNos(u), NEW r \in ResNos(u), NumPrec(u, c, r) > 0,
         NEW m \in Places(u, c, r, "x"), NEW n \in Places(u, c, r, "y")
  PROVE  PrecinctAt(u, c, r, m, n) \in 0..(NumPrec(u, c, r) - 1)
<1> DEFINE i == IndexAt(u.lo["x"], Scale(u, c, r, "x"), Precinct(u, r, "x"), m)
           j == IndexAt(u.lo["y"], Scale(u, c, r, "y"), Precinct(u, r, "y"), n)
           w == Across(u, c, r, "x")
           h == Across(u, c, r, "y")
<1>0. "x" \in Axes /\ "y" \in Axes
  BY DEF Axes
<1>1. w \in Nat /\ h \in Nat /\ NumPrec(u, c, r) = w * h
  BY <1>0, AcrossIs DEF NumPrec
<1>2. w # 0 /\ h # 0
  BY <1>1
<1>3. i \in 0..(w - 1) /\ j \in 0..(h - 1)
  BY <1>0, <1>2, PlacesIs
<1>4. PrecinctAt(u, c, r, m, n) = i + j * w
  BY DEF PrecinctAt, IndexAt, ResLo
<1> HIDE DEF i, j, w, h
<1> QED BY <1>1, <1>3, <1>4, RowByRow

(* The types of a visit. *)
LEMMA WholeType ==
  ASSUME NEW u, IsTile(u), NEW on \in BOOLEAN, NEW v, Whole(u, on, v)
  PROVE  /\ v.P \in Nat /\ v.x \in 0..u.hi["x"] /\ v.y \in 0..u.hi["y"]
         /\ v.P < MaxPrec(u)
         /\ v.P <= NumPrec(u, v.C, v.R) - 1 \/ (on /\ ~ByPosition(u.prg))
         /\ v = Visit(v.L, v.R, v.C, v.P, v.x, v.y)
         /\ IsVisit(v)
<1>1. v.L \in Int /\ v.R \in ResNos(u) /\ v.C \in CompNos(u) /\ v.R \in Int /\ v.C \in Int
  BY TileCounts DEF Whole, ResNos, CompNos
<1>2. /\ NumPrec(u, v.C, v.R) \in Nat /\ MaxPrec(u) \in Nat /\ NumPrec(u, v.C, v.R) <= MaxPrec(u)
  BY <1>1, NumPrecType, MaxPrecIs
<1>3. /\ v.P \in Nat /\ v.x \in 0..u.hi["x"] /\ v.y \in 0..u.hi["y"]
      /\ v.P < MaxPrec(u)
      /\ v.P <= NumPrec(u, v.C, v.R) - 1 \/ (on /\ ~ByPosition(u.prg))
      /\ v = Visit(v.L, v.R, v.C, v.P, v.x, v.y)
  <2>1. CASE ByPosition(u.prg)
    <3>1. /\ v = Visit(v.L, v.R, v.C, PrecinctAt(u, v.C, v.R, v.x, v.y), v.x, v.y)
          /\ NumPrec(u, v.C, v.R) > 0
          /\ v.x \in Places(u, v.C, v.R, "x") /\ v.y \in Places(u, v.C, v.R, "y")
      BY <2>1 DEF Whole
    <3>2. v.P = PrecinctAt(u, v.C, v.R, v.x, v.y)
      BY <3>1, VisitFields
    <3>3. v.P \in 0..(NumPrec(u, v.C, v.R) - 1)
      BY <1>1, <3>1, <3>2, PrecinctInside
    <3>4. v.x \in 0..u.hi["x"] /\ v.y \in 0..u.hi["y"]
      <4>1. u.lo["x"] \in Nat /\ u.lo["y"] \in Nat /\ u.hi["x"] \in Nat /\ u.hi["y"] \in Nat
        BY DEF IsTile, Axes
      <4> QED BY <3>1, <4>1 DEF Places, Stops, Span
    <3> QED BY <1>2, <3>1, <3>2, <3>3, <3>4
  <2>2. CASE ~ByPosition(u.prg)
    <3>1. /\ v = Visit(v.L, v.R, v.C, v.P, 0, 0)
          /\ v.P \in 0..((IF on THEN MaxPrec(u) ELSE NumPrec(u, v.C, v.R)) - 1)
      BY <2>2 DEF Whole
    <3>2. v.x = 0 /\ v.y = 0
      BY <3>1, VisitFields
    <3>3. u.hi["x"] \in Nat /\ u.hi["y"] \in Nat
      BY DEF IsTile, Axes
    <3> QED BY <1>2, <2>2, <3>1, <3>2, <3>3
  <2> QED BY <2>1, <2>2
<1>4. IsVisit(v)
  <2>1. u.hi["x"] \in Nat /\ u.hi["y"] \in Nat
    BY DEF IsTile, Axes
  <2> QED BY <1>1, <1>3, <2>1 DEF IsVisit, Digits, Letters, Axes, Visit
<1> QED BY <1>3, <1>4

(* The visits of a tile are finitely many.                                *)
LEMMA AllFinite ==
  ASSUME NEW u, IsTile(u), NEW on \in BOOLEAN
  PROVE  IsFiniteSet(All(u, on))
<1> DEFINE LL == 0..(u.layers - 1)
           PP == 0..MaxPrec(u)
           XX == 0..u.hi["x"]
           YY == 0..u.hi["y"]
           A == LL \X ResNos(u)
           B == CompNos(u) \X PP
           C == XX \X YY
           D == A \X B
           E == D \X C
           f == [v \in All(u, on) |-> <<<<<<v.L, v.R>>, <<v.C, v.P>>>>, <<v.x, v.y>>>>]
<1>1. u.layers - 1 \in Int /\ MaxPrec(u) \in Int /\ u.hi["x"] \in Int /\ u.hi["y"] \in Int /\ 0 \in Int
  <2>1. u.layers - 1 \in Int
    BY DEF IsTile
  <2>2. u.hi["x"] \in Int /\ u.hi["y"] \in Int
    BY DEF IsTile, Axes
  <2>3. MaxPrec(u) \in Int
    BY MaxPrecIs
  <2> QED BY <2>1, <2>2, <2>3
<1>2. IsFiniteSet(LL) /\ IsFiniteSet(PP) /\ IsFiniteSet(XX) /\ IsFiniteSet(YY)
      /\ IsFiniteSet(CompNos(u)) /\ IsFiniteSet(ResNos(u))
  BY <1>1, FS_Interval, TileCounts
<1> HIDE DEF LL, PP, XX, YY
<1>3. IsFiniteSet(A) /\ IsFiniteSet(B) /\ IsFiniteSet(C)
  BY <1>2, FS_Product
<1> HIDE DEF A, B, C
<1>4. IsFiniteSet(D)
  BY <1>3, FS_Product
<1> HIDE DEF D
<1>5. IsFiniteSet(E)
  BY <1>3, <1>4, FS_Product
<1>6. ASSUME NEW v \in All(u, on)
      PROVE  /\ v.L \in LL /\ v.R \in ResNos(u) /\ v.C \in CompNos(u) /\ v.P \in PP
             /\ v.x \in XX /\ v.y \in YY /\ v = Visit(v.L, v.R, v.C, v.P, v.x, v.y)
  <2>1. Whole(u, on, v)
    BY AllIs
  <2> QED BY <1>1, <2>1, WholeType DEF Whole, LL, PP, XX, YY
<1>7. f \in Injection(All(u, on), E)
  <2>1. f \in [All(u, on) -> E]
    BY <1>6 DEF A, B, C, D
  <2>2. ASSUME NEW v \in All(u, on), NEW w \in All(u, on), f[v] = f[w] PROVE v = w
    <3>1. v.L = w.L /\ v.R = w.R /\ v.C = w.C /\ v.P = w.P /\ v.x = w.x /\ v.y = w.y
      BY <2>2
    <3> QED BY <1>6, <3>1
  <2> QED BY <2>1, <2>2 DEF Injection, IsInjective
<1> HIDE DEF f, E
<1> QED BY <1>5, <1>7, FS_Injection

(* The loop variables tell the visits apart: a counted one by its packet, a *)
(* placed one by its place, which gives the precinct.                      *)
LEMMA CountedNest ==
  ASSUME NEW o \in Orders, ~ByPosition(o), NEW d \in {"L", "R", "C", "P"}
  PROVE  \E i \in 1..Len(Nest(o)) : Nest(o)[i] = d
<1>1. CASE o = "LRCP" 
  <2>1. Nest(o) = <<"L", "R", "C", "P">>
    BY <1>1 DEF Nest
  <2> QED BY <2>1
<1>2. CASE o = "RLCP"
  <2>1. Nest(o) = <<"R", "L", "C", "P">>
    BY <1>2 DEF Nest
  <2> QED BY <2>1
<1> QED BY <1>1, <1>2 DEF Orders, ByPosition

(* The loops of a position order.                                         *)
LEMMA PlacedNest ==
  ASSUME NEW o \in Orders, ByPosition(o), NEW d \in {"L", "R", "C", "x", "y"}
  PROVE  \E i \in 1..Len(Nest(o)) : Nest(o)[i] = d
<1>1. CASE o = "RPCL" 
  <2>1. Nest(o) = <<"R", "y", "x", "C", "L">>
    BY <1>1 DEF Nest
  <2> QED BY <2>1
<1>2. CASE o = "PCRL"
  <2>1. Nest(o) = <<"y", "x", "C", "R", "L">>
    BY <1>2 DEF Nest
  <2> QED BY <2>1
<1>3. CASE o = "CPRL"
  <2>1. Nest(o) = <<"C", "y", "x", "R", "L">>
    BY <1>3 DEF Nest
  <2> QED BY <2>1
<1> QED BY <1>1, <1>2, <1>3 DEF ByPosition

(* The visits of a tile are told apart by the loop variables, in every order. *)
LEMMA AllNested ==
  ASSUME NEW u, IsTile(u), NEW on \in BOOLEAN
  PROVE  Nested(u.prg, All(u, on))
<1>1. u.prg \in Orders
  BY DEF IsTile
<1>2. \A v \in All(u, on) : IsVisit(v)
  BY AllIs, WholeType
<1>3. ASSUME NEW v \in All(u, on), NEW w \in All(u, on),
             ~\E i \in 1..Len(Nest(u.prg)) : v[Nest(u.prg)[i]] # w[Nest(u.prg)[i]]
      PROVE  v = w
  <2>1. Whole(u, on, v) /\ Whole(u, on, w)
    BY AllIs
  <2>2. CASE ByPosition(u.prg)
    <3>1. \A d \in {"L", "R", "C", "x", "y"} : v[d] = w[d]
      BY <1>1, <1>3, <2>2, PlacedNest
    <3> QED BY <2>1, <2>2, <3>1 DEF Whole
  <2>3. CASE ~ByPosition(u.prg)
    <3>1. \A d \in {"L", "R", "C", "P"} : v[d] = w[d]
      BY <1>1, <1>3, <2>3, CountedNest
    <3> QED BY <2>1, <2>3, <3>1 DEF Whole
  <2> QED BY <2>2, <2>3
<1> QED BY <1>1, <1>2, <1>3, AllFinite DEF Nested

(* A remainder survives a common factor.                                  *)
LEMMA ModScaled ==
  ASSUME NEW a \in Int, NEW q \in Nat \ {0}, NEW b \in Nat \ {0}, a % q # 0
  PROVE  (a * b) % (q * b) # 0
<1> DEFINE d == a \div q
           m == a % q
<1>1. d \in Int /\ m \in Int /\ a = q * d + m /\ 0 < m /\ m < q
  BY DivIs
<1> HIDE DEF d, m
<1>2. q * b \in Nat \ {0} /\ a * b \in Int /\ m * b \in Int
  BY <1>1
<1>3. a * b = (q * b) * d + m * b
  <2>1. a * b = (q * d) * b + m * b
    BY <1>1
  <2>2. (q * d) * b = (q * b) * d
    BY <1>1
  <2> QED BY <2>1, <2>2
<1>4. 0 < m * b /\ m * b < q * b
  <2>1. b * 0 < b * m /\ b * m < b * q
    BY <1>1
  <2> QED BY <1>1, <2>1
<1> HIDE DEF d
<1>5. (a * b) % (q * b) = m * b
  BY <1>1, <1>2, <1>3, <1>4, DivUnique
<1> QED BY <1>4, <1>5

(* A multiple of a multiple.                                              *)
LEMMA ModOfMultiple ==
  ASSUME NEW a \in Int, NEW s \in Nat \ {0}, NEW k \in Nat \ {0}, a % s = 0, s % k = 0
  PROVE  a % k = 0
<1>1. PICK d \in Int : a = s * d
  <2>1. a \div s \in Int /\ a = s * (a \div s) + (a % s)
    BY DivIs
  <2> QED BY <2>1
<1>2. PICK e \in Int : s = k * e
  <2>1. s \div k \in Int /\ s = k * (s \div k) + (s % k)
    BY DivIs
  <2> QED BY <2>1
<1>3. a = k * (e * d) + 0 /\ e * d \in Int
  BY <1>1, <1>2
<1>4. 0 \in Int /\ 0 <= 0 /\ 0 < k
  OBVIOUS
<1> QED BY <1>3, <1>4, DivUnique

(* The steps of the components are multiples of the least one. *)
StepsAlign(u) ==
    \A c \in CompNos(u), r \in ResNos(u), a \in Axes : Step(u, c, r, a) % Least(u, c, a) = 0

(* When the steps are multiples of the least one, the loop over a position *)
(* stops in every precinct: at its beginning, or where the tile cuts into it. *)
LEMMA PlaceFound ==
  ASSUME NEW u, IsTile(u), StepsAlign(u), NEW c \in CompNos(u), NEW r \in ResNos(u),
         NEW a \in Axes, NEW n \in 0..(Across(u, c, r, a) - 1)
  PROVE  \E m \in Places(u, c, r, a) :
            IndexAt(u.lo[a], Scale(u, c, r, a), Precinct(u, r, a), m) = n
<1> DEFINE s == Scale(u, c, r, a)
           q == Precinct(u, r, a)
           lo == u.lo[a]
           hi == u.hi[a]
<1>1. lo \in Nat /\ hi \in Nat /\ lo <= hi
  BY DEF IsTile
<1>2. s \in Nat \ {0} /\ q \in Nat \ {0} /\ Step(u, c, r, a) = s * q /\ 2^Level(u, r) \in Nat \ {0}
  BY Grids DEF Step
<1>3. n \in 0..(Along(lo, hi, s, q) - 1)
  BY AcrossIs
<1> HIDE DEF s, q, lo, hi
<1>4. PICK m \in lo..(hi - 1) :
          /\ IndexAt(lo, s, q, m) = n
          /\ m % (s * q) = 0 \/ (m = lo /\ CeilDiv(lo, s) % q # 0)
  BY <1>1, <1>2, <1>3, IndexReached
<1>5. Begins(u, c, r, a, m)
  <2>1. CASE m % (s * q) = 0
    BY <1>2, <2>1 DEF Begins
  <2>2. CASE m = lo /\ CeilDiv(lo, s) % q # 0
    <3>1. lo \in Int /\ CeilDiv(lo, s) \in Int
      <4>1. lo \in Int
        BY <1>1
      <4> QED BY <1>2, <4>1, CeilIs
    <3>2. (CeilDiv(lo, s) * 2^Level(u, r)) % (q * 2^Level(u, r)) # 0
      BY <1>2, <2>2, <3>1, ModScaled
    <3> QED BY <2>2, <3>2 DEF Begins, ResLo, s, q, lo
  <2> QED BY <1>4, <2>1, <2>2
<1>6. m = lo \/ m % Least(u, c, a) = 0
  <2>1. Least(u, c, a) \in Nat \ {0}
    <3>1. (IF u.prg = "CPRL" THEN {c} ELSE CompNos(u)) \in SUBSET CompNos(u)
          /\ (IF u.prg = "CPRL" THEN {c} ELSE CompNos(u)) # {}
      OBVIOUS
    <3> QED BY <3>1, MinStepIs DEF Least
  <2>2. s * q \in Nat \ {0} /\ (s * q) % Least(u, c, a) = 0 /\ m \in Int
    BY <1>1, <1>2 DEF StepsAlign
  <2>3. ASSUME m % (s * q) = 0 PROVE m % Least(u, c, a) = 0
    BY <2>1, <2>2, <2>3, ModOfMultiple
  <2> QED BY <1>4, <2>3
<1>7. m \in Places(u, c, r, a)
  BY <1>4, <1>5, <1>6 DEF Places, Stops, Span, lo, hi
<1> QED BY <1>4, <1>7 DEF lo, s, q

(* The packets of a tile, one by one.                                     *)
LEMMA PacketFields ==
  ASSUME NEW u, NEW p
  PROVE  p \in AllPackets(u) <=>
           /\ p = <<p[1], p[2], p[3], p[4]>>
           /\ IsPacket(u, p)
<1> DEFINE at(r, c) == {<<l, r, c, k>> : l \in 0..(u.layers - 1), k \in 0..(NumPrec(u, c, r) - 1)}
<1>1. ASSUME p \in AllPackets(u) PROVE p = <<p[1], p[2], p[3], p[4]>> /\ IsPacket(u, p)
  <2>1. PICK r \in ResNos(u), c \in CompNos(u) :
           \E l \in 0..(u.layers - 1), k \in 0..(NumPrec(u, c, r) - 1) : p = <<l, r, c, k>>
    BY <1>1 DEF AllPackets
  <2>2. PICK l \in 0..(u.layers - 1), k \in 0..(NumPrec(u, c, r) - 1) : p = <<l, r, c, k>>
    BY <2>1
  <2>3. p[1] = l /\ p[2] = r /\ p[3] = c /\ p[4] = k
    BY <2>2
  <2> QED BY <2>1, <2>2, <2>3 DEF IsPacket
<1>2. ASSUME p = <<p[1], p[2], p[3], p[4]>>, IsPacket(u, p) PROVE p \in AllPackets(u)
  <2>1. PICK r \in ResNos(u), c \in CompNos(u) :
           \E l \in 0..(u.layers - 1), k \in 0..(NumPrec(u, c, r) - 1) : p = <<l, r, c, k>>
    BY <1>2 DEF IsPacket
  <2>2. p \in at(r, c)
    BY <2>1
  <2>3. AllPackets(u) = UNION {at(i, j) : i \in ResNos(u), j \in CompNos(u)}
    BY DEF AllPackets
  <2> HIDE DEF at
  <2> QED BY <2>1, <2>2, <2>3
<1> QED BY <1>1, <1>2

(* A visit of the decoder gives a packet of the tile. *)
LEMMA WholePacket ==
  ASSUME NEW u, IsTile(u), NEW on \in BOOLEAN, NEW v, Whole(u, on, v), v.P < NumPrec(u, v.C, v.R)
  PROVE  IsPacket(u, Packet(v)) /\ Packet(v) \in AllPackets(u)
<1>1. /\ v.L \in 0..(u.layers - 1) /\ v.R \in ResNos(u) /\ v.C \in CompNos(u) /\ v.P \in Nat
      /\ NumPrec(u, v.C, v.R) \in Nat
  BY WholeType, NumPrecType DEF Whole
<1>2. v.P \in 0..(NumPrec(u, v.C, v.R) - 1)
  BY <1>1
<1>3. IsPacket(u, Packet(v)) /\ Packet(v) = <<Packet(v)[1], Packet(v)[2], Packet(v)[3], Packet(v)[4]>>
  BY <1>1, <1>2 DEF IsPacket, Packet
<1> QED BY <1>3, PacketFields

(* .. and it comes upon all of them. *)
LEMMA PacketVisited ==
  ASSUME NEW u, IsTile(u), ByPosition(u.prg) => StepsAlign(u), NEW p \in AllPackets(u)
  PROVE  \E v \in All(u, FALSE) : Packet(v) = p
<1> DEFINE l == p[1]
           r == p[2]
           c == p[3]
           k == p[4]
<1>1. /\ p = <<l, r, c, k>> /\ l \in 0..(u.layers - 1) /\ r \in ResNos(u) /\ c \in CompNos(u)
      /\ k \in 0..(NumPrec(u, c, r) - 1) /\ NumPrec(u, c, r) \in Nat
  BY PacketFields, NumPrecType DEF IsPacket
<1> HIDE DEF l, r, c, k
<1>2. CASE ByPosition(u.prg)
  <2> DEFINE w == Across(u, c, r, "x")
             h == Across(u, c, r, "y")
             i == k % w
             j == k \div w
  <2>0. "x" \in Axes /\ "y" \in Axes
    BY DEF Axes
  <2>1. w \in Nat /\ h \in Nat /\ NumPrec(u, c, r) = w * h
    BY <1>1, <2>0, AcrossIs DEF NumPrec
  <2> HIDE DEF w, h
  <2>2. w \in Nat \ {0} /\ h # 0 /\ k \in Int /\ 0 <= k /\ k < w * h
    BY <1>1, <2>1
  <2>3. i \in Int /\ j \in Int /\ k = w * j + i /\ 0 <= i /\ i < w
    BY <2>2, DivIs
  <2> HIDE DEF i, j
  <2>4. j < h
    <3>1. w * j < w * h
      <4>1. w * j \in Int /\ w * h \in Int
        BY <2>1, <2>3
      <4> QED BY <2>2, <2>3, <4>1
    <3> QED BY <2>1, <2>2, <2>3, <3>1, MulCancel
  <2>5. 0 <= j
    <3>1. -1 < j
      <4>1. w * (-1) < w * j
        <5>1. w * (-1) = -w /\ w * j \in Int
          BY <2>2, <2>3
        <5> QED BY <2>2, <2>3, <5>1
      <4> QED BY <2>2, <2>3, <4>1, MulCancel
    <3> QED BY <2>3, <3>1
  <2>6. i \in 0..(w - 1) /\ j \in 0..(h - 1)
    BY <2>1, <2>3, <2>4, <2>5
  <2>7. PICK m \in Places(u, c, r, "x") :
           IndexAt(u.lo["x"], Scale(u, c, r, "x"), Precinct(u, r, "x"), m) = i
    BY <1>1, <1>2, <2>0, <2>6, PlaceFound DEF w
  <2>8. PICK n \in Places(u, c, r, "y") :
           IndexAt(u.lo["y"], Scale(u, c, r, "y"), Precinct(u, r, "y"), n) = j
    BY <1>1, <1>2, <2>0, <2>6, PlaceFound DEF h
  <2>9. PrecinctAt(u, c, r, m, n) = i + j * w
    BY <2>7, <2>8 DEF PrecinctAt, IndexAt, ResLo, w
  <2>10. PrecinctAt(u, c, r, m, n) = k
    BY <2>2, <2>3, <2>9
  <2> DEFINE v == Visit(l, r, c, k, m, n)
  <2>11. v.L = l /\ v.R = r /\ v.C = c /\ v.P = k /\ v.x = m /\ v.y = n
    BY VisitFields
  <2>12. v = Visit(v.L, v.R, v.C, PrecinctAt(u, v.C, v.R, v.x, v.y), v.x, v.y)
    BY <2>10, <2>11
  <2> HIDE DEF v
  <2>13. NumPrec(u, c, r) > 0
    BY <1>1
  <2>14. Whole(u, FALSE, v)
    BY <1>1, <1>2, <2>11, <2>12, <2>13 DEF Whole
  <2>15. Packet(v) = p
    BY <1>1, <2>11 DEF Packet
  <2> QED BY <2>14, <2>15, AllIs
<1>3. CASE ~ByPosition(u.prg)
  <2> DEFINE v == Visit(l, r, c, k, 0, 0)
  <2>1. v.L = l /\ v.R = r /\ v.C = c /\ v.P = k
    BY VisitFields
  <2>2. v = Visit(v.L, v.R, v.C, v.P, 0, 0)
    BY <2>1
  <2> HIDE DEF v
  <2>3. Whole(u, FALSE, v)
    BY <1>1, <1>3, <2>1, <2>2 DEF Whole
  <2>4. Packet(v) = p
    BY <1>1, <2>1 DEF Packet
  <2> QED BY <2>3, <2>4, AllIs
<1> QED BY <1>2, <1>3

(* How the two sides' visits compare. *)
LEMMA SameVisits ==
  ASSUME NEW u, IsTile(u),
         ByPosition(u.prg) \/ \A v \in All(u, TRUE) : v.P < NumPrec(u, v.C, v.R)
  PROVE  All(u, TRUE) = All(u, FALSE)
<1> SUFFICES ASSUME NEW v PROVE Whole(u, TRUE, v) <=> Whole(u, FALSE, v)
  <2>1. TRUE \in BOOLEAN /\ FALSE \in BOOLEAN
    OBVIOUS
  <2>2. \A v : v \in All(u, TRUE) <=> Whole(u, TRUE, v)
    BY <2>1, AllIs
  <2>3. \A v : v \in All(u, FALSE) <=> Whole(u, FALSE, v)
    BY <2>1, AllIs
  <2> QED BY <2>2, <2>3
<1>1. CASE ByPosition(u.prg)
  BY <1>1 DEF Whole
<1>2. CASE ~ByPosition(u.prg)
  <2>1. ASSUME Whole(u, TRUE, v) PROVE Whole(u, FALSE, v)
    <3>1. v.P < NumPrec(u, v.C, v.R) /\ v.P \in Nat /\ NumPrec(u, v.C, v.R) \in Nat
      BY <1>2, <2>1, AllIs, WholeType, NumPrecType DEF Whole
    <3>2. v.P \in 0..(NumPrec(u, v.C, v.R) - 1)
      BY <3>1
    <3> QED BY <1>2, <2>1, <3>2 DEF Whole
  <2>2. ASSUME Whole(u, FALSE, v) PROVE Whole(u, TRUE, v)
    <3>1. v.P \in Nat /\ v.P < MaxPrec(u) /\ MaxPrec(u) \in Nat
      BY <2>2, WholeType, MaxPrecIs
    <3>2. v.P \in 0..(MaxPrec(u) - 1)
      BY <3>1
    <3> QED BY <1>2, <2>2, <3>2 DEF Whole
  <2> QED BY <2>1, <2>2
<1> QED BY <1>1, <1>2

(* The letters are part of the packet: visits with one packet go together. *)
LEMMA SamePacket ==
  ASSUME NEW v, NEW w, Packet(v) = Packet(w)
  PROVE  v.L = w.L /\ v.R = w.R /\ v.C = w.C /\ v.P = w.P
  BY DEF Packet

(* The division into tile-parts. *)

(* A position order is left out once the division reaches the position. *)
ByLetters(u) ==
    /\ u.pocs = <<>>
    /\ u.flag # "off" =>
         /\ PosOf(u.flag, u.prg) < PosOf("P", u.prg)
         /\ ~ByPosition(u.prg) => \A c \in CompNos(u), r \in ResNos(u) : Coded(u, c, r)

\* how many letters are divided
Depth(u)    == IF u.flag = "off" THEN 0 ELSE PosOf(u.flag, u.prg)
Letter(u, i) == LetterOrder(u.prg)[i]
Count(u, i) == IF i <= Depth(u) THEN Full(u)[Letter(u, i)][2] ELSE 1
Digit(u, v, i) == IF i <= Depth(u) THEN v[Letter(u, i)] ELSE 0
\* the number of a tile-part, its digits being d, e and f
Number(u, d, e, f) == (d * Count(u, 2) + e) * Count(u, 3) + f
PartNo(u, v) == Number(u, Digit(u, v, 1), Digit(u, v, 2), Digit(u, v, 3))

(* The letters of an order are the four letters, each in its place.       *)
LEMMA LetterPlaces ==
  ASSUME NEW o \in Orders
  PROVE  /\ \A l \in Letters : \E i \in 1..4 : LetterOrder(o)[i] = l
         /\ \A i, j \in 1..4 : LetterOrder(o)[i] = LetterOrder(o)[j] => i = j
         /\ \A i \in 1..4 : LetterOrder(o)[i] \in Letters
<1>0. 1 \in 1..4 /\ 2 \in 1..4 /\ 3 \in 1..4 /\ 4 \in 1..4
      /\ \A i \in 1..4 : i = 1 \/ i = 2 \/ i = 3 \/ i = 4
  OBVIOUS
<1>1. CASE o = "LRCP"
  <2>1. LetterOrder(o) = <<"L", "R", "C", "P">>
    BY <1>1 DEF LetterOrder
  <2> QED BY <1>0, <2>1 DEF Letters
<1>2. CASE o = "RLCP"
  <2>1. LetterOrder(o) = <<"R", "L", "C", "P">>
    BY <1>2 DEF LetterOrder
  <2> QED BY <1>0, <2>1 DEF Letters
<1>3. CASE o = "RPCL"
  <2>1. LetterOrder(o) = <<"R", "P", "C", "L">>
    BY <1>3 DEF LetterOrder
  <2> QED BY <1>0, <2>1 DEF Letters
<1>4. CASE o = "PCRL"
  <2>1. LetterOrder(o) = <<"P", "C", "R", "L">>
    BY <1>4 DEF LetterOrder
  <2> QED BY <1>0, <2>1 DEF Letters
<1>5. CASE o = "CPRL"
  <2>1. LetterOrder(o) = <<"C", "P", "R", "L">>
    BY <1>5 DEF LetterOrder
  <2> QED BY <1>0, <2>1 DEF Letters
<1> QED BY <1>1, <1>2, <1>3, <1>4, <1>5 DEF Orders

(* The place of a letter.                                                 *)
LEMMA PosIs ==
  ASSUME NEW o \in Orders, NEW l \in Letters
  PROVE  PosOf(l, o) \in 1..4 /\ LetterOrder(o)[PosOf(l, o)] = l
  BY LetterPlaces DEF PosOf

(* Before the position the loops are in the order of the letters. *)
LEMMA OuterLoops ==
  ASSUME NEW o \in Orders, NEW i \in 1..4, i < PosOf("P", o)
  PROVE  /\ i \in 1..3 /\ i <= Len(Nest(o))
         /\ Nest(o)[i] = LetterOrder(o)[i]
         /\ LetterOrder(o)[i] \in {"L", "R", "C"}
<1>0. "P" \in Letters
  BY DEF Letters
<1>1. PosOf("P", o) \in 1..4 /\ LetterOrder(o)[PosOf("P", o)] = "P"
  BY <1>0, PosIs
<1>2. i \in 1..3
  BY <1>1
<1>3. LetterOrder(o)[i] \in {"L", "R", "C"}
  <2>1. LetterOrder(o)[i] \in Letters /\ LetterOrder(o)[i] # "P"
    BY <1>1, LetterPlaces
  <2> QED BY <2>1 DEF Letters
<1>4. /\ i <= Len(Nest(o)) /\ Nest(o)[i] = LetterOrder(o)[i]
  <2>0. i = 1 \/ i = 2 \/ i = 3
    BY <1>2
  <2>1. CASE o = "LRCP"
    <3>1. LetterOrder(o) = <<"L", "R", "C", "P">> /\ Nest(o) = <<"L", "R", "C", "P">>
      BY <2>1 DEF LetterOrder, Nest
    <3> QED BY <2>0, <3>1
  <2>2. CASE o = "RLCP"
    <3>1. LetterOrder(o) = <<"R", "L", "C", "P">> /\ Nest(o) = <<"R", "L", "C", "P">>
      BY <2>2 DEF LetterOrder, Nest
    <3> QED BY <2>0, <3>1
  <2>3. CASE o = "RPCL"
    <3>1. LetterOrder(o) = <<"R", "P", "C", "L">> /\ Nest(o) = <<"R", "y", "x", "C", "L">>
      BY <2>3 DEF LetterOrder, Nest
    <3>2. PosOf("P", o) = 2
      BY <1>1, <3>1, LetterPlaces
    <3> QED BY <2>0, <3>1, <3>2
  <2>4. CASE o = "PCRL"
    <3>1. LetterOrder(o) = <<"P", "C", "R", "L">>
      BY <2>4 DEF LetterOrder
    <3>2. PosOf("P", o) = 1
      BY <1>1, <3>1, LetterPlaces
    <3> QED BY <2>0, <3>2
  <2>5. CASE o = "CPRL"
    <3>1. LetterOrder(o) = <<"C", "P", "R", "L">> /\ Nest(o) = <<"C", "y", "x", "R", "L">>
      BY <2>5 DEF LetterOrder, Nest
    <3>2. PosOf("P", o) = 2
      BY <1>1, <3>1, LetterPlaces
    <3> QED BY <2>0, <3>1, <3>2
  <2> QED BY <2>1, <2>2, <2>3, <2>4, <2>5 DEF Orders
<1> QED BY <1>2, <1>3, <1>4

(* The divided letters are the outermost loops.                           *)
LEMMA DepthIs ==
  ASSUME NEW u, IsTile(u), ByLetters(u)
  PROVE  /\ Depth(u) \in 0..3
         /\ u.flag # "off" => Depth(u) \in 1..3 /\ Letter(u, Depth(u)) = u.flag
                              /\ Depth(u) = PosOf(u.flag, u.prg)
         /\ \A i \in 1..Depth(u) : /\ i <= Len(Nest(u.prg)) /\ Nest(u.prg)[i] = Letter(u, i)
                                   /\ Letter(u, i) \in {"L", "R", "C"}
         /\ \A i, j \in 1..Depth(u) : Letter(u, i) = Letter(u, j) => i = j
<1>1. u.prg \in Orders /\ (u.flag # "off" => u.flag \in Letters) /\ "P" \in Letters
  BY DEF IsTile, Letters
<1>2. CASE u.flag = "off"
  BY <1>2 DEF Depth
<1>3. CASE u.flag # "off"
  <2>1. Depth(u) = PosOf(u.flag, u.prg) /\ Depth(u) < PosOf("P", u.prg)
    BY <1>3 DEF Depth, ByLetters
  <2>2. Depth(u) \in 1..4 /\ Letter(u, Depth(u)) = u.flag /\ PosOf("P", u.prg) \in 1..4
    BY <1>1, <1>3, <2>1, PosIs DEF Letter
  <2>3. Depth(u) \in 1..3
    BY <2>1, <2>2
  <2>4. ASSUME NEW i \in 1..Depth(u)
        PROVE  /\ i <= Len(Nest(u.prg)) /\ Nest(u.prg)[i] = Letter(u, i)
               /\ Letter(u, i) \in {"L", "R", "C"}
    <3>1. i \in 1..4 /\ i < PosOf("P", u.prg)
      BY <2>1, <2>2
    <3> QED BY <1>1, <3>1, OuterLoops DEF Letter
  <2>5. \A i, j \in 1..Depth(u) : Letter(u, i) = Letter(u, j) => i = j
    <3>1. \A i \in 1..Depth(u) : i \in 1..4
      BY <2>2
    <3> QED BY <1>1, <3>1, LetterPlaces DEF Letter
  <2> QED BY <2>1, <2>2, <2>3, <2>4, <2>5
<1> QED BY <1>2, <1>3

(* The digit of a letter has as many values as its range.                 *)
LEMMA CountIs ==
  ASSUME NEW u, IsTile(u), ByLetters(u), NEW i \in 1..3
  PROVE  /\ Count(u, i) \in Nat \ {0}
         /\ i <= Depth(u) => Full(u)[Letter(u, i)] = <<0, Count(u, i)>>
         /\ i > Depth(u) => Count(u, i) = 1
<1>0. Depth(u) \in 0..3
  BY DepthIs
<1>1. CASE i <= Depth(u)
  <2>1. Letter(u, i) \in {"L", "R", "C"}
    BY <1>0, <1>1, DepthIs
  <2>2. u.layers \in Nat \ {0} /\ NumRes(u) \in Nat \ {0} /\ NumComps(u) \in Nat \ {0}
    BY TileCounts DEF IsTile
  <2>3. \A l \in {"L", "R", "C"} : Full(u)[l] = <<0, Full(u)[l][2]>> /\ Full(u)[l][2] \in Nat \ {0}
    BY <2>2, FullIs
  <2> QED BY <1>0, <1>1, <2>1, <2>3 DEF Count
<1>2. CASE i > Depth(u)
  BY <1>0, <1>2 DEF Count
<1> QED BY <1>0, <1>1, <1>2

(* The digits of a visit.                                                 *)
LEMMA DigitIs ==
  ASSUME NEW u, IsTile(u), ByLetters(u), NEW on \in BOOLEAN, NEW v \in All(u, on), NEW i \in 1..3
  PROVE  Digit(u, v, i) \in 0..(Count(u, i) - 1)
<1>0. Depth(u) \in 0..3 /\ Whole(u, on, v)
  BY DepthIs, AllIs
<1>1. CASE i <= Depth(u)
  <2>1. Letter(u, i) \in {"L", "R", "C"}
    BY <1>0, <1>1, DepthIs
  <2>2. Count(u, i) = Full(u)[Letter(u, i)][2]
    BY <1>1 DEF Count
  <2> QED BY <1>0, <1>1, <2>1, <2>2, FullIs DEF Whole, Digit, ResNos, CompNos
<1>2. CASE i > Depth(u)
  <2>1. Count(u, i) = 1
    BY <1>2, CountIs
  <2> QED BY <1>0, <1>2, <2>1 DEF Digit
<1> QED BY <1>0, <1>1, <1>2

-----------------------------------------------------------------------------
(* Two digits make a number, the first one counting more. *)
LEMMA TwoDigits ==
  ASSUME NEW n \in Nat \ {0}, NEW d \in Nat, NEW e \in 0..(n - 1), NEW a \in Nat, NEW b \in 0..(n - 1)
  PROVE  /\ d * n + e \in Nat
         /\ d < a => d * n + e < a * n + b
         /\ d * n + e = a * n + b => d = a /\ e = b
         /\ \A m \in Nat \ {0} : d < m => d * n + e < m * n
<1>1. \A i, j \in Nat : i < j => i * n + n <= j * n /\ i * n \in Nat /\ j * n \in Nat
  <2> SUFFICES ASSUME NEW i \in Nat, NEW j \in Nat, i < j
               PROVE  i * n + n <= j * n /\ i * n \in Nat /\ j * n \in Nat
    OBVIOUS
  <2>1. n * (i + 1) <= n * j
    BY MulMono
  <2>2. n * (i + 1) = i * n + n /\ n * j = j * n /\ i * n \in Nat /\ j * n \in Nat
    OBVIOUS
  <2> QED BY <2>1, <2>2
<1>2. d * n \in Nat /\ a * n \in Nat
  OBVIOUS
<1>3. d < a => d * n + e < a * n + b
  BY <1>1, <1>2
<1>4. a < d => a * n + b < d * n + e
  BY <1>1, <1>2
<1>5. d * n + e = a * n + b => d = a /\ e = b
  BY <1>2, <1>3, <1>4
<1>6. \A m \in Nat \ {0} : d < m => d * n + e < m * n
  BY <1>1, <1>2
<1> QED BY <1>2, <1>3, <1>5, <1>6

(* Numbers of three digits are ordered as the digits are, the first one first. *)
LEMMA ThreeDigits ==
  ASSUME NEW u, IsTile(u), ByLetters(u),
         NEW d \in 0..(Count(u, 1) - 1), NEW e \in 0..(Count(u, 2) - 1), NEW f \in 0..(Count(u, 3) - 1),
         NEW a \in 0..(Count(u, 1) - 1), NEW b \in 0..(Count(u, 2) - 1), NEW c \in 0..(Count(u, 3) - 1)
  PROVE  /\ Number(u, d, e, f) \in 0..(Count(u, 1) * Count(u, 2) * Count(u, 3) - 1)
         /\ d < a \/ (d = a /\ e < b) \/ (d = a /\ e = b /\ f < c) => Number(u, d, e, f) < Number(u, a, b, c)
         /\ Number(u, d, e, f) = Number(u, a, b, c) => d = a /\ e = b /\ f = c
<1> DEFINE k == Count(u, 1)
           m == Count(u, 2)
           n == Count(u, 3)
           i == d * m + e
           j == a * m + b
<1>1. k \in Nat \ {0} /\ m \in Nat \ {0} /\ n \in Nat \ {0}
  BY CountIs
<1>2. Number(u, d, e, f) = i * n + f /\ Number(u, a, b, c) = j * n + c
  BY DEF Number
<1>3. /\ d \in Nat /\ d < k /\ e \in 0..(m - 1) /\ f \in 0..(n - 1)
      /\ a \in Nat /\ a < k /\ b \in 0..(m - 1) /\ c \in 0..(n - 1)
  BY <1>1
<1> HIDE DEF k, m, n
<1>4. /\ i \in Nat /\ j \in Nat /\ i < k * m
      /\ d < a => i < j
      /\ i = j => d = a /\ e = b
  <2>1. i \in Nat /\ (d < a => i < j) /\ (i = j => d = a /\ e = b) /\ i < k * m
    BY <1>1, <1>3, TwoDigits
  <2>2. j \in Nat
    BY <1>1, <1>3, TwoDigits
  <2> QED BY <2>1, <2>2
<1>5. d = a /\ e < b => i < j
  BY <1>1, <1>3
<1>6. k * m \in Nat \ {0}
  BY <1>1
<1> HIDE DEF i, j
<1>7. /\ i * n + f \in Nat
      /\ i < j => i * n + f < j * n + c
      /\ i * n + f = j * n + c => i = j /\ f = c
      /\ i * n + f < (k * m) * n
  BY <1>1, <1>3, <1>4, <1>6, TwoDigits
<1>8. i = j /\ f < c => i * n + f < j * n + c
  <2>1. i * n \in Nat /\ j * n \in Nat
    BY <1>1, <1>4
  <2> QED BY <1>1, <1>3, <2>1
<1>9. d = a /\ e = b => i = j
  BY DEF i, j
<1>10. i * n + f \in 0..((k * m) * n - 1)
  <2>1. (k * m) * n \in Nat
    BY <1>1, <1>6
  <2> QED BY <1>7, <2>1
<1> QED BY <1>2, <1>4, <1>5, <1>7, <1>8, <1>9, <1>10 DEF k, m, n

PartCount(u) == Count(u, 1) * Count(u, 2) * Count(u, 3)
\* the visits of one tile-part
Class(u, n) == {v \in All(u, u.flag # "off") : PartNo(u, v) = n}
Every(u)    == All(u, u.flag # "off")

(* opj_j2k_get_num_tp counts the numbers the divided letters can make.    *)
LEMMA PartCountIs ==
  ASSUME NEW u, IsTile(u), ByLetters(u)
  PROVE  PartCount(u) \in Nat \ {0} /\ NumTp(u, <<>>, 0) = PartCount(u)
<1>1. /\ Count(u, 1) \in Nat \ {0} /\ Count(u, 2) \in Nat \ {0} /\ Count(u, 3) \in Nat \ {0}
      /\ Depth(u) \in 0..3
  BY CountIs, DepthIs
<1>2. \A i \in 1..4 : (u.flag # "off" /\ i <= PosOf(u.flag, u.prg)) <=> i <= Depth(u)
  BY DEF Depth
<1>3. NumTp(u, <<>>, 0) = Count(u, 1) * Count(u, 2) * Count(u, 3) * Count(u, 4)
  BY <1>2 DEF NumTp, Count, Letter, Full
<1>4. Count(u, 4) = 1
  BY <1>1 DEF Count
<1>5. PartCount(u) \in Nat \ {0}
  <2>1. \A a, b \in Nat \ {0} : a * b \in Nat \ {0}
    OBVIOUS
  <2> QED BY <1>1, <2>1 DEF PartCount
<1>6. PartCount(u) * 1 = PartCount(u)
  BY <1>5
<1> QED BY <1>3, <1>4, <1>5, <1>6 DEF PartCount

(* Every visit belongs to a tile-part.                                    *)
LEMMA PartNoType ==
  ASSUME NEW u, IsTile(u), ByLetters(u), NEW v \in Every(u)
  PROVE  PartNo(u, v) \in 0..(PartCount(u) - 1)
<1>1. \A i \in 1..3 : Digit(u, v, i) \in 0..(Count(u, i) - 1)
  BY DigitIs DEF Every
<1>2. 1 \in 1..3 /\ 2 \in 1..3 /\ 3 \in 1..3
  OBVIOUS
<1> QED BY <1>1, <1>2, ThreeDigits DEF PartNo, PartCount

(* Visits belong to one tile-part when their divided letters agree.       *)
LEMMA PartNoSame ==
  ASSUME NEW u, IsTile(u), ByLetters(u), NEW v \in Every(u), NEW w \in Every(u)
  PROVE  PartNo(u, v) = PartNo(u, w) <=> \A i \in 1..Depth(u) : v[Letter(u, i)] = w[Letter(u, i)]
<1>0. Depth(u) \in 0..3 /\ \A i \in 1..3 : i = 1 \/ i = 2 \/ i = 3
  BY DepthIs
<1>1. \A i \in 1..3 : Digit(u, v, i) \in 0..(Count(u, i) - 1) /\ Digit(u, w, i) \in 0..(Count(u, i) - 1)
  BY DigitIs DEF Every
<1>2. 1 \in 1..3 /\ 2 \in 1..3 /\ 3 \in 1..3
  OBVIOUS
<1>3. ASSUME PartNo(u, v) = PartNo(u, w) PROVE \A i \in 1..Depth(u) : v[Letter(u, i)] = w[Letter(u, i)]
  <2>1. Digit(u, v, 1) = Digit(u, w, 1) /\ Digit(u, v, 2) = Digit(u, w, 2) /\ Digit(u, v, 3) = Digit(u, w, 3)
    BY <1>1, <1>2, <1>3, ThreeDigits DEF PartNo
  <2>2. \A i \in 1..3 : Digit(u, v, i) = Digit(u, w, i)
    BY <1>0, <2>1
  <2>3. \A i \in 1..Depth(u) : i \in 1..3 /\ i <= Depth(u)
    BY <1>0
  <2> QED BY <2>2, <2>3 DEF Digit
<1>4. ASSUME \A i \in 1..Depth(u) : v[Letter(u, i)] = w[Letter(u, i)] PROVE PartNo(u, v) = PartNo(u, w)
  <2>1. \A i \in 1..3 : i <= Depth(u) => i \in 1..Depth(u)
    BY <1>0
  <2>2. \A i \in 1..3 : Digit(u, v, i) = Digit(u, w, i)
    BY <1>4, <2>1 DEF Digit
  <2> QED BY <1>2, <2>2 DEF PartNo
<1> QED BY <1>3, <1>4

(* The loops come upon the tile-parts in their order ..                   *)
LEMMA PartNoBefore ==
  ASSUME NEW u, IsTile(u), ByLetters(u), NEW v \in Every(u), NEW w \in Every(u), Before(u.prg, v, w)
  PROVE  PartNo(u, v) <= PartNo(u, w)
<1>0. PartNo(u, v) \in Int /\ PartNo(u, w) \in Int /\ Depth(u) \in 0..3 /\ 1 \in 1..3 /\ 2 \in 1..3 /\ 3 \in 1..3
  BY PartNoType, DepthIs
<1>1. PICK k \in 1..Len(Nest(u.prg)) :
          /\ v[Nest(u.prg)[k]] < w[Nest(u.prg)[k]]
          /\ \A j \in 1..(k - 1) : v[Nest(u.prg)[j]] = w[Nest(u.prg)[j]]
  BY DEF Before
<1>2. CASE k > Depth(u)
  <2>1. \A i \in 1..Depth(u) : v[Letter(u, i)] = w[Letter(u, i)]
    <3>1. \A i \in 1..Depth(u) : i \in 1..(k - 1)
      BY <1>0, <1>2
    <3> QED BY <1>1, <3>1, DepthIs
  <2>2. PartNo(u, v) = PartNo(u, w)
    BY <2>1, PartNoSame
  <2> QED BY <1>0, <2>2
<1>3. CASE k <= Depth(u)
  <2>1. k \in 1..Depth(u) /\ k \in 1..3
    BY <1>0, <1>3
  <2>2. Digit(u, v, k) < Digit(u, w, k)
    BY <1>1, <1>3, <2>1, DepthIs DEF Digit
  <2>3. \A j \in 1..(k - 1) : Digit(u, v, j) = Digit(u, w, j)
    <3>1. \A j \in 1..(k - 1) : j \in 1..Depth(u)
      BY <1>0, <2>1
    <3> QED BY <1>1, <3>1, DepthIs DEF Digit
  <2>4. \A i \in 1..3 : Digit(u, v, i) \in 0..(Count(u, i) - 1) /\ Digit(u, w, i) \in 0..(Count(u, i) - 1)
    BY DigitIs DEF Every
  <2>5. \/ Digit(u, v, 1) < Digit(u, w, 1)
        \/ Digit(u, v, 1) = Digit(u, w, 1) /\ Digit(u, v, 2) < Digit(u, w, 2)
        \/ Digit(u, v, 1) = Digit(u, w, 1) /\ Digit(u, v, 2) = Digit(u, w, 2)
             /\ Digit(u, v, 3) < Digit(u, w, 3)
    BY <2>1, <2>2, <2>3
  <2>6. PartNo(u, v) < PartNo(u, w)
    BY <1>0, <2>4, <2>5, ThreeDigits DEF PartNo
  <2> QED BY <1>0, <2>6
<1> QED BY <1>0, <1>2, <1>3

(* .. so the visits of an earlier tile-part come first.                   *)
LEMMA PartNoOrders ==
  ASSUME NEW u, IsTile(u), ByLetters(u), NEW v \in Every(u), NEW w \in Every(u), PartNo(u, v) < PartNo(u, w)
  PROVE  Before(u.prg, v, w)
<1>1. PartNo(u, v) \in Int /\ PartNo(u, w) \in Int
  BY PartNoType
<1>2. v # w /\ ~Before(u.prg, w, v)
  BY <1>1, PartNoBefore
<1>3. Nested(u.prg, Every(u))
  BY AllNested DEF Every
<1> QED BY <1>2, <1>3, BeforeTotal

(* Visits with the same packet belong to the same tile-part: an include map for *)
(* each of them is enough.                                                *)
LEMMA ClassPart ==
  ASSUME NEW u, IsTile(u), ByLetters(u), NEW n
  PROVE  PartOf(u.prg, Every(u), Class(u, n))
<1> SUFFICES ASSUME NEW v \in Class(u, n), NEW w \in Every(u), Packet(v) = Packet(w)
             PROVE  w \in Class(u, n)
  BY DEF PartOf, Class, Every
<1>1. v \in Every(u) /\ PartNo(u, v) = n
  BY DEF Class, Every
<1>2. \A i \in 1..Depth(u) : v[Letter(u, i)] = w[Letter(u, i)]
  BY SamePacket, DepthIs
<1>3. PartNo(u, w) = n
  BY <1>1, <1>2, PartNoSame
<1> QED BY <1>3 DEF Class, Every

(* A window that holds the divided letters at the digits e is the class of  *)
(* their number.                                                            *)
IsWindow(u, w, e) ==
    /\ \A i \in 1..Depth(u) : w[Letter(u, i)] = <<e[i], e[i] + 1>>
    /\ \A d \in Digits : (\A i \in 1..Depth(u) : Letter(u, i) # d) => w[d] = Full(u)[d]
AreDigits(u, e) ==
    \A i \in 1..3 : e[i] \in 0..(Count(u, i) - 1)

(* The iterator set up for the window of a tile-part has the visits of its class. *)
LEMMA WindowClass ==
  ASSUME NEW u, IsTile(u), ByLetters(u), NEW w, NEW e, AreDigits(u, e), IsWindow(u, w, e)
  PROVE  Visits(u, Iterator(u.prg, u.flag # "off", w)) = Class(u, Number(u, e[1], e[2], e[3]))
<1> DEFINE on == u.flag # "off"
           n == Number(u, e[1], e[2], e[3])
<1>0. on \in BOOLEAN /\ Depth(u) \in 0..3 /\ {"P", "x", "y", "L", "R", "C"} = Digits
  BY DepthIs DEF Digits, Letters, Axes
<1>1. /\ w.P = <<0, MaxPrec(u)>>
      /\ w.x = <<u.lo["x"], u.hi["x"]>> /\ w.y = <<u.lo["y"], u.hi["y"]>>
  <2>1. \A i \in 1..Depth(u) : Letter(u, i) # "P" /\ Letter(u, i) # "x" /\ Letter(u, i) # "y"
    BY DepthIs
  <2>2. w["P"] = Full(u)["P"] /\ w["x"] = Full(u)["x"] /\ w["y"] = Full(u)["y"]
    BY <1>0, <2>1 DEF IsWindow
  <2> QED BY <2>2, FullIs
<1>2. \A d \in {"L", "R", "C"} :
        \/ \E i \in 1..Depth(u) : /\ Letter(u, i) = d /\ w[d] = <<e[i], e[i] + 1>>
                                  /\ e[i] \in 0..(Full(u)[d][2] - 1) /\ Span(w[d]) = {e[i]}
        \/ /\ \A i \in 1..Depth(u) : Letter(u, i) # d
           /\ w[d] = Full(u)[d]
  <2> SUFFICES ASSUME NEW d \in {"L", "R", "C"}, NEW i \in 1..Depth(u), Letter(u, i) = d
               PROVE  /\ w[d] = <<e[i], e[i] + 1>> /\ e[i] \in 0..(Full(u)[d][2] - 1) /\ Span(w[d]) = {e[i]}
    BY <1>0 DEF IsWindow
  <2>1. i \in 1..3 /\ i <= Depth(u)
    BY <1>0
  <2>2. w[d] = <<e[i], e[i] + 1>>
    BY DEF IsWindow
  <2>3. e[i] \in 0..(Count(u, i) - 1) /\ Count(u, i) \in Nat \ {0} /\ Full(u)[d] = <<0, Count(u, i)>>
    BY <2>1, CountIs DEF AreDigits
  <2>4. Span(w[d]) = e[i]..e[i]
    BY <2>2, <2>3 DEF Span
  <2>5. e[i]..e[i] = {e[i]}
    BY <2>3
  <2> QED BY <2>2, <2>3, <2>4, <2>5
<1>3. \A d \in {"L", "R", "C"} : Span(w[d]) \subseteq 0..(Full(u)[d][2] - 1)
  BY <1>2, FullIs DEF Span
<1>4. Span(w.L) \subseteq 0..(u.layers - 1) /\ Span(w.R) \subseteq ResNos(u) /\ Span(w.C) \subseteq CompNos(u)
  <2>1. Full(u)["L"][2] = u.layers /\ Full(u)["R"][2] = NumRes(u) /\ Full(u)["C"][2] = NumComps(u)
    BY FullIs
  <2>2. /\ Span(w["L"]) \subseteq 0..(Full(u)["L"][2] - 1) /\ Span(w["R"]) \subseteq 0..(Full(u)["R"][2] - 1)
        /\ Span(w["C"]) \subseteq 0..(Full(u)["C"][2] - 1)
    BY <1>3
  <2> QED BY <2>1, <2>2 DEF ResNos, CompNos
<1>5. ASSUME NEW v, Whole(u, on, v)
      PROVE  (v.L \in Span(w.L) /\ v.R \in Span(w.R) /\ v.C \in Span(w.C)) <=> PartNo(u, v) = n
  <2>0. v \in All(u, on)
    BY <1>0, <1>5, AllIs
  <2>1. \A i \in 1..3 : Digit(u, v, i) \in 0..(Count(u, i) - 1)
    BY <1>0, <2>0, DigitIs
  <2>2. PartNo(u, v) = n <=> \A i \in 1..3 : Digit(u, v, i) = e[i]
    <3>1. /\ Digit(u, v, 1) \in 0..(Count(u, 1) - 1) /\ Digit(u, v, 2) \in 0..(Count(u, 2) - 1)
          /\ Digit(u, v, 3) \in 0..(Count(u, 3) - 1)
          /\ e[1] \in 0..(Count(u, 1) - 1) /\ e[2] \in 0..(Count(u, 2) - 1) /\ e[3] \in 0..(Count(u, 3) - 1)
      BY <2>1 DEF AreDigits
    <3>2. PartNo(u, v) = n => Digit(u, v, 1) = e[1] /\ Digit(u, v, 2) = e[2] /\ Digit(u, v, 3) = e[3]
      BY <3>1, ThreeDigits DEF PartNo
    <3>3. \A i \in 1..3 : i = 1 \/ i = 2 \/ i = 3
      OBVIOUS
    <3>4. 1 \in 1..3 /\ 2 \in 1..3 /\ 3 \in 1..3
      OBVIOUS
    <3>5. (\A i \in 1..3 : Digit(u, v, i) = e[i]) => PartNo(u, v) = n
      BY <3>4 DEF PartNo
    <3> QED BY <3>2, <3>3, <3>5
  <2>3. \A i \in 1..3 : i > Depth(u) => Digit(u, v, i) = e[i]
    <3> SUFFICES ASSUME NEW i \in 1..3, i > Depth(u) PROVE Digit(u, v, i) = e[i]
      OBVIOUS
    <3>1. Count(u, i) = 1
      BY CountIs
    <3> QED BY <1>0, <2>1, <3>1 DEF AreDigits
  <2>4. (\A i \in 1..3 : Digit(u, v, i) = e[i]) <=> \A i \in 1..Depth(u) : v[Letter(u, i)] = e[i]
    BY <1>0, <2>3 DEF Digit
  <2>5. ASSUME v.L \in Span(w.L), v.R \in Span(w.R), v.C \in Span(w.C), NEW i \in 1..Depth(u)
        PROVE  v[Letter(u, i)] = e[i]
    <3>1. Letter(u, i) \in {"L", "R", "C"}
      BY DepthIs
    <3>2. v[Letter(u, i)] \in Span(w[Letter(u, i)])
      BY <2>5, <3>1
    <3>3. PICK j \in 1..Depth(u) : Letter(u, j) = Letter(u, i) /\ Span(w[Letter(u, i)]) = {e[j]}
      BY <1>2, <3>1
    <3>4. i = j
      BY <3>3, DepthIs
    <3> QED BY <3>2, <3>3, <3>4
  <2>6. ASSUME \A i \in 1..Depth(u) : v[Letter(u, i)] = e[i], NEW d \in {"L", "R", "C"}
        PROVE  v[d] \in Span(w[d])
    <3>1. CASE \E i \in 1..Depth(u) : Letter(u, i) = d /\ Span(w[d]) = {e[i]}
      BY <2>6, <3>1
    <3>2. CASE w[d] = Full(u)[d]
      BY <1>5, <3>2, FullIs DEF Whole, Span, ResNos, CompNos
    <3> QED BY <1>2, <3>1, <3>2
  <2>7. (\A i \in 1..Depth(u) : v[Letter(u, i)] = e[i])
           <=> (v.L \in Span(w.L) /\ v.R \in Span(w.R) /\ v.C \in Span(w.C))
    BY <2>5, <2>6
  <2> QED BY <2>2, <2>4, <2>7
<1>6. \A v : v \in Visits(u, Iterator(u.prg, on, w)) <=>
               Whole(u, on, v) /\ v.L \in Span(w.L) /\ v.R \in Span(w.R) /\ v.C \in Span(w.C)
  <2> HIDE DEF on
  <2> QED BY <1>0, <1>1, <1>4, WindowVisits
<1>7. \A v : v \in All(u, on) <=> Whole(u, on, v)
  <2> HIDE DEF on
  <2> QED BY <1>0, AllIs
<1> HIDE DEF n
<1> QED BY <1>5, <1>6, <1>7 DEF Class, n

(* The odometer of opj_pi_create_encode. *)
LEMMA Single ==
  ASSUME NEW T, NEW x \in T
  PROVE  <<x>> \in Seq(T) /\ \A s \in Seq(T) :
            /\ s \o <<x>> \in Seq(T) /\ Len(s \o <<x>>) = Len(s) + 1
            /\ \A i \in 1..Len(s) : (s \o <<x>>)[i] = s[i]
            /\ (s \o <<x>>)[Len(s) + 1] = x
<1>1. <<x>> \in Seq(T)
  OBVIOUS
<1> SUFFICES ASSUME NEW s \in Seq(T)
    PROVE /\ s \o <<x>> \in Seq(T) /\ Len(s \o <<x>>) = Len(s) + 1
          /\ \A i \in 1..Len(s) : (s \o <<x>>)[i] = s[i]
          /\ (s \o <<x>>)[Len(s) + 1] = x
  BY <1>1
<1> QED OBVIOUS

(* Joining sequences of one element.                                      *)
LEMMA FlatOfSingles ==
  ASSUME NEW T, NEW k \in Nat, NEW f, NEW g, \A j \in 1..k : g[j] \in T /\ f[j] = <<g[j]>>
  PROVE  /\ Joint(f, k) \in Seq(T) /\ Len(Joint(f, k)) = k
         /\ \A j \in 1..k : Joint(f, k)[j] = g[j]
<1> DEFINE Good(n) == /\ Joint(f, n) \in Seq(T) /\ Len(Joint(f, n)) = n
                      /\ \A j \in 1..n : Joint(f, n)[j] = g[j]
           P == {n \in Nat : n <= k => Good(n)}
<1>0. ASSUME NEW j \in 1..k PROVE f[j] \in Seq(T) /\ f[j] = <<g[j]>> /\ g[j] \in T
  BY Single
<1>1. Joint(f, 0) = <<>>
  <2>1. [x \in 1..0 |-> f[x]] = <<>>
    OBVIOUS
  <2>2. FlattenSeq(<<>>) = <<>>
    <3>1. \A x \in 1..(0 + 1) : [y \in {1} |-> <<>>][x] \in Seq(T)
      OBVIOUS
    <3>2. Joint([y \in {1} |-> <<>>], 0) = <<>>
      BY <3>1, JointStep
    <3>3. [x \in 1..0 |-> [y \in {1} |-> <<>>][x]] = <<>>
      OBVIOUS
    <3> QED BY <3>2, <3>3 DEF Joint
  <2> QED BY <2>1, <2>2 DEF Joint
<1>2. 0 \in P
  <2>1. <<>> \in Seq(T) /\ Len(<<>>) = 0 /\ 1..0 = {}
    OBVIOUS
  <2> QED BY <1>1, <2>1
<1>3. ASSUME NEW n \in P PROVE n + 1 \in P
  <2> SUFFICES ASSUME n + 1 <= k PROVE Good(n + 1)
    OBVIOUS
  <2>1. n \in Nat /\ Good(n)
    OBVIOUS
  <2>2. \A j \in 1..(n + 1) : f[j] \in Seq(T)
    BY <1>0, <2>1
  <2>3. Joint(f, n + 1) = Joint(f, n) \o f[n + 1]
    BY <2>1, <2>2, JointStep
  <2>4. n + 1 \in 1..k
    BY <2>1
  <2>5. f[n + 1] = <<g[n + 1]>> /\ g[n + 1] \in T
    BY <1>0, <2>4
  <2>6. /\ Joint(f, n + 1) \in Seq(T) /\ Len(Joint(f, n + 1)) = n + 1
        /\ \A i \in 1..n : Joint(f, n + 1)[i] = Joint(f, n)[i]
        /\ Joint(f, n + 1)[n + 1] = g[n + 1]
    <3> DEFINE a == Joint(f, n)
               x == g[n + 1]
    <3>1. a \in Seq(T) /\ Len(a) = n /\ x \in T /\ Joint(f, n + 1) = a \o <<x>>
      BY <2>1, <2>3, <2>5
    <3> HIDE DEF a, x
    <3>2. /\ a \o <<x>> \in Seq(T) /\ Len(a \o <<x>>) = Len(a) + 1
          /\ \A i \in 1..Len(a) : (a \o <<x>>)[i] = a[i]
          /\ (a \o <<x>>)[Len(a) + 1] = x
      BY <3>1, Single
    <3> QED BY <3>1, <3>2 DEF a, x
  <2>7. ASSUME NEW i \in 1..(n + 1) PROVE Joint(f, n + 1)[i] = g[i]
    <3>1. i \in 1..n \/ i = n + 1
      BY <2>1
    <3> QED BY <2>1, <2>6, <3>1
  <2> QED BY <2>6, <2>7
<1> HIDE DEF P
<1>4. P \in SUBSET Nat
  BY DEF P
<1>5. k \in P
  BY <1>2, <1>3, <1>4, SetInduction
<1>6. Good(k)
  BY <1>5 DEF P
<1> QED BY <1>6

(* The odometer's letters, the last one of the order first.               *)
LEMMA DividedIs ==
  ASSUME IsTile(t), ByLetters(t), TpOn
  PROVE  /\ Len(Divided(t.prg)) = Depth(t) /\ DOMAIN Divided(t.prg) = 1..Depth(t)
         /\ \A j \in 1..Depth(t) : Divided(t.prg)[j] = Letter(t, Depth(t) + 1 - j)
<1> DEFINE k == Depth(t)
           digits(l) == IF l = "P" /\ ByPosition(t.prg) THEN <<"x", "y">> ELSE <<l>>
           f == [j \in 1..k |-> digits(LetterOrder(t.prg)[k + 1 - j])]
           g == [j \in 1..k |-> Letter(t, k + 1 - j)]
<1>1. k \in 1..3 /\ TpPos = k
  BY DepthIs DEF TpOn, TpPos
<1>2. Divided(t.prg) = FlattenSeq(f)
  BY <1>1 DEF Divided
<1>3. ASSUME NEW j \in 1..k
      PROVE  g[j] = Letter(t, k + 1 - j) /\ g[j] \in {"L", "R", "C"} /\ f[j] = <<g[j]>>
  <2>1. k + 1 - j \in 1..k
    BY <1>1
  <2>2. Letter(t, k + 1 - j) \in {"L", "R", "C"}
    BY <2>1, DepthIs
  <2> QED BY <2>2 DEF Letter
<1>4. FlattenSeq(f) = Joint(f, k)
  BY DEF Joint
<1> HIDE DEF f, g, k
<1>6. \A j \in 1..k : g[j] \in {"L", "R", "C"} /\ f[j] = <<g[j]>>
  BY <1>3
<1>7. k \in Nat
  BY <1>1
<1>5. /\ Joint(f, k) \in Seq({"L", "R", "C"}) /\ Len(Joint(f, k)) = k
      /\ \A j \in 1..k : Joint(f, k)[j] = g[j]
  BY <1>7, <1>6, FlatOfSingles
<1> QED BY <1>2, <1>3, <1>4, <1>5 DEF k

\* letters are counted by ones
LEMMA WindowIs ==
  ASSUME IsTile(t), ByLetters(t), NEW n, NEW d \in Digits
  PROVE  /\ (\A i \in 1..Depth(t) : Letter(t, i) # d) => Window(<<>>, 0, n, d) = Full(t)[d]
         /\ (n = 0 /\ \E i \in 1..Depth(t) : Letter(t, i) = d) => Window(<<>>, 0, n, d) = <<0, 1>>
<1>0. Depth(t) \in 0..3 /\ OrderOf(t, <<>>, 0) = t.prg
  BY DepthIs DEF OrderOf
<1> DEFINE ds == IF TpOn THEN Divided(OrderOf(t, <<>>, 0)) ELSE <<>>
<1>1. (\E i \in DOMAIN ds : ds[i] = d) <=> \E i \in 1..Depth(t) : Letter(t, i) = d
  <2>1. CASE TpOn
    <3>1. ds = Divided(t.prg)
      BY <1>0, <2>1
    <3>2. \A i \in 1..Depth(t) : Depth(t) + 1 - i \in 1..Depth(t) /\ Depth(t) + 1 - (Depth(t) + 1 - i) = i
      BY <1>0
    <3> HIDE DEF ds
    <3> QED BY <2>1, <3>1, <3>2, DividedIs
  <2>2. CASE ~TpOn
    <3>1. ds = <<>> /\ Depth(t) = 0 /\ DOMAIN <<>> = {}
      BY <2>2 DEF TpOn, Depth
    <3> QED BY <3>1
  <2> QED BY <2>1, <2>2
<1>2. CASE ~\E i \in DOMAIN ds : ds[i] = d
  <2>1. Window(<<>>, 0, n, d) = Ranges(t, <<>>, 0)[d]
    BY <1>2 DEF Window
  <2> QED BY <1>1, <1>2, <2>1 DEF Full
<1>3. CASE \E i \in DOMAIN ds : ds[i] = d
  <2>1. ASSUME n = 0 PROVE Window(<<>>, 0, n, d) = <<0, 1>>
    <3>1. Window(<<>>, 0, n, d) = Cell(d, Ranges(t, <<>>, 0)[d][1])
      BY <1>3, <2>1 DEF Window
    <3>2. PICK i \in 1..Depth(t) : Letter(t, i) = d
      BY <1>1, <1>3
    <3>3. d \in {"L", "R", "C"}
      BY <3>2, DepthIs
    <3>4. Full(t)[d][1] = 0 /\ d \notin Axes
      BY <3>3, FullIs DEF Axes
    <3> QED BY <3>1, <3>4 DEF Cell, Full
  <2> QED BY <1>1, <1>3, <2>1
<1> QED BY <1>2, <1>3

\* the tile-part that follows the one with the digits g
Advances(u, g, e) ==
    /\ AreDigits(u, e)
    /\ \E k \in 1..Depth(u) :
         /\ g[k] + 1 < Count(u, k) /\ e[k] = g[k] + 1
         /\ \A i \in 1..(k - 1) : e[i] = g[i]
         /\ \A i \in (k + 1)..Depth(u) : g[i] + 1 = Count(u, i) /\ e[i] = 0
Odometer(g) == \A i \in 1..Depth(t) : odo[Letter(t, i)] = g[i] + 1

(* The windows of a further tile-part: the last letter that has a value left takes *)
(* it, those after it begin anew (opj_pi_create_encode, opj_pi_check_next_level). *)
LEMMA WindowAdvances ==
  ASSUME IsTile(t), ByLetters(t), NEW n, n # 0, NEW g, AreDigits(t, g), Odometer(g),
         NEW e, Advances(t, g, e), NEW i \in 1..Depth(t)
  PROVE  Window(<<>>, 0, n, Letter(t, i)) = <<e[i], e[i] + 1>>
<1> DEFINE d == Letter(t, i)
           K == Depth(t)
           r == Ranges(t, <<>>, 0)
           ds == Divided(t.prg)
           m == K + 1 - i
           ended(j) == odo[ds[j]] = r[ds[j]][2]
           more(j)  == \E k \in (j + 1)..Len(ds) : odo[ds[k]] # r[ds[k]][2]
           carried  == \A j \in 1..(m - 1) : ended(j) /\ more(j)
           advance  == IF ~ended(m) THEN Cell(d, odo[d])
                       ELSE IF more(m) THEN Cell(d, r[d][1]) ELSE Held(d)
<1>0. K \in 0..3 /\ OrderOf(t, <<>>, 0) = t.prg /\ TpOn /\ i \in 1..3 /\ m \in 1..K /\ i = K + 1 - m
  <2>1. Depth(t) \in 0..3 /\ OrderOf(t, <<>>, 0) = t.prg
    BY DepthIs DEF OrderOf
  <2>2. TpOn
    BY DEF TpOn, Depth
  <2> QED BY <2>1, <2>2
<1>1. DOMAIN ds = 1..K /\ Len(ds) = K /\ \A j \in 1..K : ds[j] = Letter(t, K + 1 - j)
  BY <1>0, DividedIs
<1>2. ds[m] = d
  BY <1>0, <1>1
<1>3. \A j \in 1..K : ds[j] = d => j = m
  <2> SUFFICES ASSUME NEW j \in 1..K, ds[j] = d PROVE j = m
    OBVIOUS
  <2>1. Letter(t, K + 1 - j) = Letter(t, i)
    BY <1>1
  <2>3. K + 1 - j \in 1..K
    BY <1>0
  <2>2. K + 1 - j = i
    BY <2>1, <2>3, DepthIs
  <2> QED BY <1>0, <2>2
<1>4. \A j \in 1..K : ds[j] \in {"L", "R", "C"} /\ ds[j] \notin Axes
  <2> SUFFICES ASSUME NEW j \in 1..K PROVE ds[j] \in {"L", "R", "C"} /\ ds[j] \notin Axes
    OBVIOUS
  <2>1. K + 1 - j \in 1..K
    BY <1>0
  <2>2. ds[j] \in {"L", "R", "C"}
    BY <1>1, <2>1, DepthIs
  <2> QED BY <2>2 DEF Axes
<1>5. (CHOOSE x \in DOMAIN ds : ds[x] = d) = m
  BY <1>0, <1>1, <1>2, <1>3
<1>6. Window(<<>>, 0, n, d) = IF carried THEN advance ELSE Held(d)
  <2> DEFINE Ds == IF TpOn THEN Divided(OrderOf(t, <<>>, 0)) ELSE <<>>
             Ended(j)   == IF Ds[j] \in Axes THEN odo[Ds[j]] >= r[Ds[j]][2] ELSE odo[Ds[j]] = r[Ds[j]][2]
             More(j)    == \E k \in (j + 1)..Len(Ds) :
                              IF Ds[j] = "x" /\ Ds[k] = "y" THEN ~Ended(k) ELSE odo[Ds[k]] # r[Ds[k]][2]
             Carried(x) == \A j \in 1..(x - 1) : Ended(j) /\ More(j)
             Advance(x) == IF ~Ended(x) THEN Cell(d, odo[d])
                           ELSE IF More(x) THEN Cell(d, r[d][1]) ELSE Held(d)
             X == CHOOSE x \in DOMAIN Ds : Ds[x] = d
  <2>1. Ds = ds
    BY <1>0
  <2>2. \E x \in DOMAIN Ds : Ds[x] = d
    BY <1>0, <1>1, <1>2, <2>1
  <2>3. Window(<<>>, 0, n, d) = IF Carried(X) THEN Advance(X) ELSE Held(d)
    BY <2>2, Zenon DEF Window
  <2>4. X = m
    BY <1>5, <2>1
  <2> HIDE DEF ds
  <2>5. \A j \in 1..K : (Ended(j) <=> ended(j)) /\ (More(j) <=> more(j))
    BY <1>0, <1>1, <1>4, <2>1 DEF Axes
  <2>6. \A j \in 1..(m - 1) : j \in 1..K
    BY <1>0
  <2>7. Carried(m) <=> carried
    BY <2>5, <2>6
  <2>8. Advance(m) = advance
    BY <1>0, <2>5
  <2> HIDE DEF Carried, Advance, carried, advance, X
  <2> QED BY <2>3, <2>4, <2>7, <2>8
<1> HIDE DEF ds
<1>7. ASSUME NEW j \in 1..K
      PROVE  ended(j) <=> g[K + 1 - j] + 1 = Count(t, K + 1 - j)
  <2>1. K + 1 - j \in 1..K /\ K + 1 - j \in 1..3 /\ K + 1 - j <= K
    BY <1>0
  <2>2. odo[ds[j]] = g[K + 1 - j] + 1 /\ r[ds[j]][2] = Count(t, K + 1 - j)
    BY <1>1, <2>1 DEF Odometer, Count, Full
  <2> QED BY <2>2
<1>8. PICK k \in 1..K :
         /\ g[k] + 1 < Count(t, k) /\ e[k] = g[k] + 1
         /\ \A x \in 1..(k - 1) : e[x] = g[x]
         /\ \A x \in (k + 1)..K : g[x] + 1 = Count(t, x) /\ e[x] = 0
  BY DEF Advances
<1> DEFINE p == K + 1 - k
<1>9. /\ p \in 1..K /\ ~ended(p)
      /\ \A j \in 1..(p - 1) : j \in 1..K /\ ended(j) /\ more(j)
  <2>1. p \in 1..K /\ k = K + 1 - p
    BY <1>0
  <2>2. Count(t, k) \in Nat /\ g[k] \in Int
    <3>1. k \in 1..3
      BY <1>0
    <3>2. Count(t, k) \in Nat \ {0}
      BY <3>1, CountIs
    <3> QED BY <3>1, <3>2 DEF AreDigits
  <2>3. ~ended(p)
    BY <1>7, <1>8, <2>1, <2>2
  <2>4. ASSUME NEW j \in 1..(p - 1) PROVE j \in 1..K /\ ended(j) /\ more(j)
    <3>1. j \in 1..K /\ K + 1 - j \in (k + 1)..K /\ p \in (j + 1)..Len(ds)
      <4>1. Len(ds) = K /\ K \in Int
        BY <1>0, <1>1
      <4>2. k \in 1..K /\ j \in 1..(p - 1)
        OBVIOUS
      <4> HIDE DEF K
      <4> QED BY <4>1, <4>2
    <3>2. ended(j)
      BY <1>7, <1>8, <3>1
    <3>3. more(j)
      BY <2>3, <3>1
    <3> QED BY <3>1, <3>2, <3>3
  <2> QED BY <2>1, <2>3, <2>4
<1>10. d \notin Axes /\ r[d][1] = 0 /\ odo[d] = g[i] + 1 /\ g[i] \in Int /\ e[i] \in Int
  <2>1. d \in {"L", "R", "C"} /\ d \notin Axes
    BY <1>0, <1>2, <1>4
  <2>2. r[d][1] = 0
    BY <2>1, FullIs DEF Full
  <2>3. odo[d] = g[i] + 1 /\ g[i] \in Int /\ e[i] \in Int
    BY <1>0 DEF Odometer, AreDigits, Advances
  <2> QED BY <2>1, <2>2, <2>3
<1>11. Cell(d, odo[d]) = <<g[i] + 1, g[i] + 2>> /\ Cell(d, r[d][1]) = <<0, 1>>
       /\ Held(d) = <<g[i], g[i] + 1>>
  BY <1>10 DEF Cell, Held
<1> HIDE DEF K, d, r, ended, more
<1>12. CASE m < p
  <2>1. carried /\ ended(m) /\ more(m)
    BY <1>0, <1>9, <1>12
  <2>2. i \in (k + 1)..K
    BY <1>0, <1>12
  <2>3. Window(<<>>, 0, n, d) = <<0, 1>>
    BY <1>6, <1>11, <2>1
  <2> QED BY <1>8, <2>2, <2>3 DEF d
<1>13. CASE m = p
  <2>1. carried /\ ~ended(m)
    BY <1>0, <1>9, <1>13
  <2>2. i = k
    BY <1>0, <1>13
  <2>3. Window(<<>>, 0, n, d) = <<g[i] + 1, g[i] + 2>>
    BY <1>6, <1>11, <2>1
  <2> QED BY <1>8, <1>10, <2>2, <2>3 DEF d
<1>14. CASE m > p
  <2>1. ~carried
    <3>1. p \in 1..(m - 1)
      BY <1>0, <1>9, <1>14
    <3> QED BY <1>9, <3>1
  <2>2. i \in 1..(k - 1)
    BY <1>0, <1>14
  <2>3. Window(<<>>, 0, n, d) = <<g[i], g[i] + 1>>
    BY <1>6, <1>11, <2>1
  <2> QED BY <1>8, <2>2, <2>3 DEF d
<1> QED BY <1>0, <1>9, <1>12, <1>13, <1>14

Numeral(u, e) == Number(u, e[1], e[2], e[3])

(* The odometer counts by one.                                            *)
LEMMA NumeralNext ==
  ASSUME NEW u, IsTile(u), ByLetters(u), NEW g, AreDigits(u, g), Numeral(u, g) + 1 < PartCount(u)
  PROVE  \E e : Advances(u, g, e) /\ Numeral(u, e) = Numeral(u, g) + 1
<1> DEFINE k == Count(u, 1)
           m == Count(u, 2)
           n == Count(u, 3)
           a == g[1]
           b == g[2]
           c == g[3]
<1>0. /\ k \in Nat \ {0} /\ m \in Nat \ {0} /\ n \in Nat \ {0} /\ Depth(u) \in 0..3
      /\ \A i \in 1..3 : i > Depth(u) => Count(u, i) = 1
      /\ 1 \in 1..3 /\ 2 \in 1..3 /\ 3 \in 1..3
      /\ \A i \in 1..3 : i = 1 \/ i = 2 \/ i = 3
  BY CountIs, DepthIs
<1>1. a \in 0..(k - 1) /\ b \in 0..(m - 1) /\ c \in 0..(n - 1)
  BY <1>0 DEF AreDigits
<1>2. Numeral(u, g) = (a * m + b) * n + c /\ PartCount(u) = k * m * n
  BY DEF Numeral, Number, PartCount
<1> HIDE DEF k, m, n, a, b, c
<1>3. CASE c + 1 < n
  <2> DEFINE e == <<a, b, c + 1>>
  <2>0. e[1] = a /\ e[2] = b /\ e[3] = c + 1
    OBVIOUS
  <2> HIDE DEF e
  <2>1. Depth(u) = 3
    BY <1>0, <1>1, <1>3 DEF n
  <2>2. AreDigits(u, e)
    BY <1>0, <1>1, <1>3, <2>0 DEF AreDigits, k, m, n
  <2>3. g[3] + 1 < Count(u, 3) /\ e[3] = g[3] + 1 /\ \A i \in 1..(3 - 1) : e[i] = g[i]
    BY <1>3, <2>0 DEF a, b, c, n
  <2>4. Advances(u, g, e)
    <3>1. 3 \in 1..Depth(u) /\ (3 + 1)..Depth(u) = {}
      BY <2>1
    <3> QED BY <2>2, <2>3, <3>1 DEF Advances
  <2>5. Numeral(u, e) = (a * m + b) * n + (c + 1)
    BY <2>0 DEF Numeral, Number, m, n
  <2>6. (a * m + b) * n \in Int
    BY <1>0, <1>1
  <2>7. Numeral(u, e) = Numeral(u, g) + 1
    BY <1>1, <1>2, <2>5, <2>6
  <2> QED BY <2>4, <2>7
<1>4. CASE c + 1 = n /\ b + 1 < m
  <2> DEFINE e == <<a, b + 1, 0>>
  <2>0. e[1] = a /\ e[2] = b + 1 /\ e[3] = 0
    OBVIOUS
  <2> HIDE DEF e
  <2>1. Depth(u) >= 2
    BY <1>0, <1>1, <1>4 DEF m
  <2>2. AreDigits(u, e)
    BY <1>0, <1>1, <1>4, <2>0 DEF AreDigits, k, m, n
  <2>3. g[2] + 1 < Count(u, 2) /\ e[2] = g[2] + 1 /\ \A i \in 1..(2 - 1) : e[i] = g[i]
    BY <1>4, <2>0 DEF a, b, c, m
  <2>8. \A i \in (2 + 1)..Depth(u) : g[i] + 1 = Count(u, i) /\ e[i] = 0
    <3>1. \A i \in (2 + 1)..Depth(u) : i = 3
      BY <1>0
    <3> QED BY <1>4, <2>0, <3>1 DEF c, n
  <2>4. Advances(u, g, e)
    <3>1. 2 \in 1..Depth(u)
      BY <1>0, <2>1
    <3> QED BY <2>2, <2>3, <2>8, <3>1 DEF Advances
  <2>5. Numeral(u, e) = (a * m + (b + 1)) * n + 0
    BY <2>0 DEF Numeral, Number, m, n
  <2>6. (a * m + (b + 1)) * n = (a * m + b) * n + n /\ (a * m + b) * n \in Int
    <3>1. a * m + b \in Int /\ a * m + (b + 1) = (a * m + b) + 1
      BY <1>0, <1>1
    <3> QED BY <1>0, <1>1, <3>1
  <2>7. Numeral(u, e) = Numeral(u, g) + 1
    BY <1>0, <1>1, <1>2, <1>4, <2>5, <2>6
  <2> QED BY <2>4, <2>7
<1>5. CASE c + 1 = n /\ b + 1 = m
  <2>1. a * m \in Int /\ (a * m + b) * n = (a * m) * n + b * n /\ (a * m) * n \in Int /\ b * n \in Int
    BY <1>0, <1>1
  <2>2. (a + 1) * m = a * m + m /\ (a * m + m) * n = (a * m) * n + m * n /\ m * n \in Int
    BY <1>0, <1>1
  <2>3. b * n = m * n - n
    <3>1. b = m - 1
      BY <1>0, <1>1, <1>5
    <3>2. (m - 1) * n = m * n - n
      BY <1>0
    <3> QED BY <3>1, <3>2
  <2>4. Numeral(u, g) + 1 = (a * m + m) * n
    BY <1>0, <1>1, <1>2, <1>5, <2>1, <2>2, <2>3
  <2>5. a + 1 < k
    <3> SUFFICES ASSUME a + 1 >= k PROVE FALSE
      BY <1>0, <1>1
    <3>1. a + 1 = k
      BY <1>0, <1>1
    <3>2. (a * m + m) * n = k * m * n
      BY <2>2, <3>1
    <3>3. k * m * n \in Int
      BY <1>0
    <3> QED BY <1>2, <2>4, <3>2, <3>3
  <2> DEFINE e == <<a + 1, 0, 0>>
  <2>6. e[1] = a + 1 /\ e[2] = 0 /\ e[3] = 0
    OBVIOUS
  <2> HIDE DEF e
  <2>7. Depth(u) >= 1
    BY <1>0, <1>1, <2>5 DEF k
  <2>8. AreDigits(u, e)
    BY <1>0, <1>1, <2>5, <2>6 DEF AreDigits, k, m, n
  <2>9. Advances(u, g, e)
    <3>1. 1 \in 1..Depth(u) /\ 1..(1 - 1) = {}
      BY <1>0, <2>7
    <3>2. g[1] + 1 < Count(u, 1) /\ e[1] = g[1] + 1
      BY <2>5, <2>6 DEF a, k
    <3>3. \A i \in (1 + 1)..Depth(u) : g[i] + 1 = Count(u, i) /\ e[i] = 0
      <4>1. \A i \in (1 + 1)..Depth(u) : i = 2 \/ i = 3
        BY <1>0
      <4> QED BY <1>5, <2>6, <4>1 DEF b, c, m, n
    <3> QED BY <2>8, <3>1, <3>2, <3>3 DEF Advances
  <2>10. Numeral(u, e) = ((a + 1) * m + 0) * n + 0
    BY <2>6 DEF Numeral, Number, m, n
  <2>11. Numeral(u, e) = (a * m + m) * n
    BY <1>0, <1>1, <2>1, <2>2, <2>10
  <2> QED BY <2>4, <2>9, <2>11
<1> QED BY <1>0, <1>1, <1>3, <1>4, <1>5

(* It begins with zero.                                                   *)
LEMMA NumeralZero ==
  ASSUME NEW u, IsTile(u), ByLetters(u), NEW e, e = <<0, 0, 0>>
  PROVE  AreDigits(u, e) /\ Numeral(u, e) = 0
<1>1. e[1] = 0 /\ e[2] = 0 /\ e[3] = 0 /\ \A i \in 1..3 : i = 1 \/ i = 2 \/ i = 3
  OBVIOUS
<1>2. \A i \in 1..3 : Count(u, i) \in Nat \ {0}
  BY CountIs
<1>3. AreDigits(u, e)
  BY <1>1, <1>2 DEF AreDigits
<1>4. 2 \in 1..3 /\ 3 \in 1..3
  OBVIOUS
<1>5. Numeral(u, e) = (0 * Count(u, 2) + 0) * Count(u, 3) + 0
  BY <1>1 DEF Numeral, Number
<1>6. Count(u, 2) \in Nat /\ Count(u, 3) \in Nat
  BY <1>2, <1>4
<1> QED BY <1>3, <1>5, <1>6

-----------------------------------------------------------------------------
(* The packets of the tile-parts, joined. *)
LEMMA FlatIsJoint ==
  ASSUME NEW T, NEW s \in Seq(Seq(T))
  PROVE  FlattenSeq(s) = Joint(s, Len(s)) /\ FlattenSeq(s) \in Seq(T)
<1>1. s = [k \in 1..Len(s) |-> s[k]]
  OBVIOUS
<1> QED BY <1>1, FlattenIn DEF Joint

(* No tile-parts hold no packets.                                         *)
LEMMA FlatOfNone == FlattenSeq(<<>>) = <<>>
<1>1. \A x \in 1..(0 + 1) : [y \in {1} |-> <<>>][x] \in Seq({})
  OBVIOUS
<1>2. Joint([y \in {1} |-> <<>>], 0) = <<>>
  BY <1>1, JointStep
<1>3. [x \in 1..0 |-> [y \in {1} |-> <<>>][x]] = <<>>
  OBVIOUS
<1> QED BY <1>2, <1>3 DEF Joint

(* A further tile-part's packets come last.                               *)
LEMMA FlatAppend ==
  ASSUME NEW T, NEW s \in Seq(Seq(T)), NEW q \in Seq(T)
  PROVE  FlattenSeq(Append(s, q)) = FlattenSeq(s) \o q
<1> DEFINE a == Append(s, q)
           n == Len(s)
<1>1. a \in Seq(Seq(T)) /\ Len(a) = n + 1 /\ n \in Nat /\ a[n + 1] = q
      /\ \A k \in 1..n : a[k] = s[k]
  OBVIOUS
<1>2. \A k \in 1..(n + 1) : a[k] \in Seq(T)
  BY <1>1
<1> HIDE DEF a, n
<1>3. Joint(a, n + 1) = Joint(a, n) \o a[n + 1]
  BY <1>1, <1>2, JointStep
<1>4. Joint(a, n) = Joint(s, n)
  <2>1. [k \in 1..n |-> a[k]] = [k \in 1..n |-> s[k]]
    BY <1>1
  <2> QED BY <2>1 DEF Joint
<1>5. FlattenSeq(a) = Joint(a, n + 1)
  BY <1>1, FlatIsJoint
<1>6. FlattenSeq(s) = Joint(s, n)
  BY FlatIsJoint DEF n
<1>7. FlattenSeq(a) = FlattenSeq(s) \o q
  BY <1>1, <1>3, <1>4, <1>5, <1>6
<1> QED BY <1>7 DEF a

(* A sequence in which one element is replaced.                           *)
LEMMA ElementReplaced ==
  ASSUME NEW S, NEW s \in Seq(S), NEW n \in 1..Len(s), NEW e \in S
  PROVE  /\ [s EXCEPT ![n] = e] \in Seq(S) /\ Len([s EXCEPT ![n] = e]) = Len(s)
         /\ [s EXCEPT ![n] = e][n] = e
         /\ \A k \in 1..Len(s) : k # n => [s EXCEPT ![n] = e][k] = s[k]
  OBVIOUS

(* A packet for the last tile-part comes last of all.                     *)
LEMMA FlatLonger ==
  ASSUME NEW T, NEW s \in Seq(Seq(T)), s # <<>>, NEW x \in T
  PROVE  /\ [s EXCEPT ![Len(s)] = Append(@, x)] \in Seq(Seq(T))
         /\ FlattenSeq([s EXCEPT ![Len(s)] = Append(@, x)]) = Append(FlattenSeq(s), x)
<1> DEFINE n == Len(s)
           a == [s EXCEPT ![n] = Append(@, x)]
           m == n - 1
<1>1. n \in Nat /\ m \in Nat /\ n = m + 1 /\ n \in 1..n
  OBVIOUS
<1>2. s[n] \in Seq(T) /\ Append(s[n], x) \in Seq(T)
  <2>1. s[n] \in Seq(T)
    BY <1>1
  <2>2. \A q \in Seq(T) : Append(q, x) \in Seq(T)
    OBVIOUS
  <2> QED BY <2>1, <2>2
<1>3. /\ a \in Seq(Seq(T)) /\ Len(a) = n /\ a[n] = Append(s[n], x)
      /\ \A k \in 1..m : a[k] = s[k]
  <2>1. n \in 1..Len(s) /\ \A k \in 1..m : k \in 1..Len(s) /\ k # n
    <3>1. n = Len(s) /\ n \in Nat /\ n = m + 1 /\ m \in Nat
      BY <1>1
    <3> HIDE DEF n, m
    <3>2. \A k \in 1..m : k \in 1..n /\ k # n
      BY <3>1
    <3>3. n \in 1..n
      BY <1>1
    <3> QED BY <3>1, <3>2, <3>3
  <2>2. a = [s EXCEPT ![n] = Append(s[n], x)]
    OBVIOUS
  <2> HIDE DEF n, a, m
  <2> QED BY <1>2, <2>1, <2>2, ElementReplaced DEF n
<1> HIDE DEF a, m
<1>4. \A k \in 1..(m + 1) : a[k] \in Seq(T) /\ s[k] \in Seq(T)
  <2>1. \A k \in 1..(m + 1) : k \in 1..Len(a) /\ k \in 1..Len(s)
    BY <1>1, <1>3
  <2> QED BY <1>3, <2>1
<1> HIDE DEF n
<1>5. Joint(a, m + 1) = Joint(a, m) \o a[m + 1]
  BY <1>1, <1>4, JointStep
<1>6. Joint(s, m + 1) = Joint(s, m) \o s[m + 1] /\ Joint(s, m) \in Seq(T)
  BY <1>1, <1>4, JointStep
<1>7. Joint(a, m) = Joint(s, m)
  <2>1. [k \in 1..m |-> a[k]] = [k \in 1..m |-> s[k]]
    BY <1>3
  <2> QED BY <2>1 DEF Joint
<1>8. FlattenSeq(a) = Joint(a, m + 1)
  BY <1>1, <1>3, FlatIsJoint
<1>9. FlattenSeq(s) = Joint(s, m + 1)
  BY <1>1, FlatIsJoint DEF n
<1> DEFINE j == Joint(s, m)
           q == s[n]
<1>10. FlattenSeq(a) = j \o Append(q, x) /\ FlattenSeq(s) = j \o q /\ j \in Seq(T) /\ q \in Seq(T)
  BY <1>1, <1>2, <1>3, <1>5, <1>6, <1>7, <1>8, <1>9
<1> HIDE DEF j, q
<1>11. j \o Append(q, x) = Append(j \o q, x)
  BY <1>10
<1> QED BY <1>3, <1>10, <1>11 DEF a, n

-----------------------------------------------------------------------------
(* The inductive invariant. *)
\* the visits that give the packets of the tile-parts up to n
Due        == Fresh(t.prg, Every(t))
DueUpto(n) == {v \in Due : PartNo(t, v) <= n}
Sound(A)   == \A v \in A : ~Missing(v)

\* in a tile-part: A are the visits that gave a packet
Coding(A) == /\ Lists(t.prg, A, Written)
             /\ Running(t.prg, Every(t), Class(t, tp), A, left, Included)
             /\ Sound(A)
             /\ \A v \in Due : (PartNo(t, v) < tp => v \in A) /\ (v \in A => PartNo(t, v) <= tp)
Reading(B) == /\ Lists(t.prg, B, read)
              /\ Running(t.prg, All(t, FALSE), All(t, FALSE), B, left, ToSet(read))

Still    == /\ IsTile(t) /\ ByLetters(t)
            /\ pocs = <<>> /\ pino = 0 /\ prg = t.prg /\ tnsot = PartCount(t)
            /\ phase \in {"between", "packets", "refused", "decode", "done"}
            /\ odo \in [Digits -> Int]
PartsHeld == /\ parts \in Seq(Seq(AllPackets(t)))
             /\ tp \in -1..(PartCount(t) - 1) /\ Len(parts) = tp + 1
             /\ TpOn => \A n \in DOMAIN parts : \A p, q \in ToSet(parts[n]) :
                          p[PosOf(t.flag, "LRCP")] = q[PosOf(t.flag, "LRCP")]
OdoHeld   == tp >= 0 => \E g : AreDigits(t, g) /\ Odometer(g) /\ Numeral(t, g) = tp
Encoding  == /\ phase = "packets" => tp >= 0 /\ \E A : Coding(A)
             /\ phase = "between" => Lists(t.prg, DueUpto(tp), Written) /\ Sound(DueUpto(tp))
             /\ phase \in {"packets", "between", "refused"} => read = <<>>
             /\ phase = "refused" => /\ TpOn /\ ~ByPosition(t.prg)
                                     /\ \E c \in CompNos(t), r \in ResNos(t) : NumPrec(t, c, r) < MaxPrec(t)
Decoding  == /\ phase \in {"decode", "done"} => /\ tp = PartCount(t) - 1
                                                /\ Lists(t.prg, Due, Written) /\ Sound(Due)
                                                /\ \E B : Reading(B)
             /\ phase = "done" => read = Written
OrderInv  == Still /\ PartsHeld /\ OdoHeld /\ Encoding /\ Decoding

(* The encoder refuses nothing but a precinct that an undivided letter P    *)
(* counts beyond its resolution.                                            *)
LEMMA NotMissing ==
  ASSUME IsTile(t), ByLetters(t), NEW v \in Every(t)
  PROVE  /\ ~Missing(v) => v.P < NumPrec(t, v.C, v.R) /\ Packet(v) \in AllPackets(t)
         /\ Missing(v) => /\ TpOn /\ ~ByPosition(t.prg)
                          /\ \E c \in CompNos(t), r \in ResNos(t) : NumPrec(t, c, r) < MaxPrec(t)
<1> DEFINE on == t.flag # "off"
<1>1. on \in BOOLEAN /\ v \in All(t, on)
  BY DEF Every
<1> HIDE DEF on
<1>2. Whole(t, on, v)
  BY <1>1, AllIs
<1>3. /\ v.R \in ResNos(t) /\ v.C \in CompNos(t) /\ v.P \in Nat /\ v.P < MaxPrec(t)
      /\ v.P <= NumPrec(t, v.C, v.R) - 1 \/ (on /\ ~ByPosition(t.prg))
      /\ NumPrec(t, v.C, v.R) \in Nat /\ MaxPrec(t) \in Nat
  <2>1. v.R \in ResNos(t) /\ v.C \in CompNos(t)
    BY <1>2 DEF Whole
  <2> QED BY <1>1, <1>2, <2>1, WholeType, NumPrecType, MaxPrecIs
<1>4. ASSUME Missing(v)
      PROVE  /\ TpOn /\ ~ByPosition(t.prg)
             /\ \E c \in CompNos(t), r \in ResNos(t) : NumPrec(t, c, r) < MaxPrec(t)
  <2>1. v.P \notin 0..(NumPrec(t, v.C, v.R) - 1)
    BY <1>4 DEF Missing
  <2>2. v.P >= NumPrec(t, v.C, v.R)
    BY <1>3, <2>1
  <2>3. on /\ ~ByPosition(t.prg)
    BY <1>3, <2>2
  <2>4. NumPrec(t, v.C, v.R) < MaxPrec(t)
    BY <1>3, <2>2
  <2> QED BY <1>3, <2>3, <2>4 DEF TpOn, on
<1>5. ASSUME ~Missing(v) PROVE v.P < NumPrec(t, v.C, v.R)
  <2>1. CASE on /\ ~ByPosition(t.prg)
    <3>1. Coded(t, v.C, v.R)
      BY <1>3, <2>1 DEF ByLetters, on
    <3>2. v.P \in 0..(NumPrec(t, v.C, v.R) - 1)
      BY <1>5, <3>1 DEF Missing
    <3> QED BY <1>3, <3>2
  <2>2. CASE ~(on /\ ~ByPosition(t.prg))
    BY <1>3, <2>2
  <2> QED BY <2>1, <2>2
<1>6. ASSUME ~Missing(v) PROVE Packet(v) \in AllPackets(t)
  BY <1>1, <1>2, <1>5, <1>6, WholePacket
<1> QED BY <1>4, <1>5, <1>6

(* When every due visit was coded, both sides run over the same visits.     *)
LEMMA BothSides ==
  ASSUME IsTile(t), ByLetters(t), Sound(Due)
  PROVE  Every(t) = All(t, FALSE)
<1>1. Nested(t.prg, Every(t))
  BY AllNested DEF Every
<1>2. ASSUME NEW v \in Every(t) PROVE v.P < NumPrec(t, v.C, v.R)
  <2>1. PICK w \in Fresh(t.prg, Every(t)) : Packet(w) = Packet(v)
    BY <1>1, FreshCovers
  <2>2. w \in Every(t) /\ ~Missing(w)
    BY DEF Fresh, Sound, Due
  <2>3. w.P < NumPrec(t, w.C, w.R)
    BY <2>2, NotMissing
  <2> QED BY <2>1, <2>3, SamePacket
<1>3. CASE t.flag = "off"
  BY <1>3 DEF Every
<1>4. CASE t.flag # "off"
  <2>1. Every(t) = All(t, TRUE)
    BY <1>4 DEF Every
  <2>2. \A v \in All(t, TRUE) : v.P < NumPrec(t, v.C, v.R)
    BY <1>2, <2>1
  <2> QED BY <2>1, <2>2, SameVisits
<1> QED BY <1>3, <1>4

(* A tile without progression changes has one progression.                *)
LEMMA NumPocsIs == ASSUME ByLetters(t) PROVE NumPocs = 0
  BY DEF ByLetters, NumPocs

(* A sum over one number.                                                 *)
LEMMA SumOfOne ==
  ASSUME NEW f, f[0] \in Int, NEW D, D = {0}, DOMAIN f = D
  PROVE  SumFunction(f) = f[0]
<1>1. IsFiniteSet({0})
  BY FS_Singleton
<1>2. SumFunctionOnSet(f, {0}) = f[0] + SumFunctionOnSet(f, {0} \ {0})
  BY <1>1, SumRemove
<1>3. SumFunctionOnSet(f, {0} \ {0}) = 0
  <2>1. {0} \ {0} = {}
    OBVIOUS
  <2> QED BY <2>1, SumEmpty
<1>4. SumFunction(f) = SumFunctionOnSet(f, {0})
  BY DEF SumFunction
<1> QED BY <1>2, <1>3, <1>4

(* The invariant holds when the encoder is set up.                        *)
LEMMA OrderStarts ==
  ASSUME Init, ByLetters(t)
  PROVE  OrderInv
<1>1. IsTile(t) /\ NumPocs = 0
  BY TilesAssumption, NumPocsIs DEF Init
<1>2. pocs = <<>>
  <2>1. t.pocs = <<>> /\ DOMAIN <<>> = 1..0
    BY DEF ByLetters
  <2>2. pocs = [i \in 1..0 |-> [t.pocs[i] EXCEPT !.C[2] = Min({@, NumComps(t)})]]
    BY <2>1 DEF Init
  <2> QED BY <2>2
<1>3. tnsot = PartCount(t)
  <2> DEFINE f == [p \in 0..NumPocs |-> NumTp(t, pocs, p)]
  <2>1. 0..0 = {0}
    OBVIOUS
  <2>2. DOMAIN f = {0} /\ f[0] = PartCount(t) /\ PartCount(t) \in Int
    BY <1>1, <1>2, <2>1, PartCountIs
  <2>3. tnsot = SumFunction(f)
    BY DEF Init
  <2> HIDE DEF f
  <2> QED BY <2>2, <2>3, SumOfOne
<1>4. Still
  BY <1>1, <1>2, <1>3 DEF Still, Init
<1>5. parts = <<>> /\ read = <<>> /\ tp = -1 /\ phase = "between"
  BY DEF Init
<1>6. PartsHeld
  <2>1. <<>> \in Seq(Seq(AllPackets(t))) /\ Len(<<>>) = 0 /\ DOMAIN <<>> = {}
    OBVIOUS
  <2>2. PartCount(t) \in Nat \ {0}
    BY <1>1, PartCountIs
  <2> QED BY <1>5, <2>1, <2>2 DEF PartsHeld
<1>7. DueUpto(tp) = {}
  <2> SUFFICES ASSUME NEW v \in Due, PartNo(t, v) <= tp PROVE FALSE
    BY DEF DueUpto
  <2>1. v \in Every(t)
    BY DEF Due, Fresh
  <2>2. PartNo(t, v) \in Nat
    BY <1>1, <2>1, PartNoType
  <2> QED BY <1>5, <2>2
<1>8. Written = <<>>
  BY <1>5, FlatOfNone DEF Written
<1>9. Encoding
  BY <1>5, <1>7, <1>8, ListsNothing DEF Encoding, Sound
<1> QED BY <1>4, <1>5, <1>6, <1>9 DEF OrderInv, OdoHeld, Decoding

(* A tile-part begins with its class of visits, behind all earlier ones.    *)
LEMMA ClassBegins ==
  ASSUME IsTile(t), ByLetters(t), NEW n \in Int
  PROVE  Running(t.prg, Every(t), Class(t, n), DueUpto(n - 1), Class(t, n), {})
<1>1. \A v \in Due : v \in Every(t) /\ PartNo(t, v) \in Int
  BY PartNoType DEF Due, Fresh
<1>2. \A v \in Class(t, n) : v \in Every(t) /\ PartNo(t, v) = n
  BY DEF Class, Every
<1>3. DueUpto(n - 1) \in SUBSET Fresh(t.prg, Every(t)) /\ DueUpto(n - 1) \cap Class(t, n) = {}
  BY <1>1, <1>2 DEF DueUpto, Due
<1>4. \A v \in DueUpto(n - 1), w \in Class(t, n) : Before(t.prg, v, w)
  <2> SUFFICES ASSUME NEW v \in DueUpto(n - 1), NEW w \in Class(t, n) PROVE Before(t.prg, v, w)
    OBVIOUS
  <2>1. v \in Every(t) /\ w \in Every(t) /\ PartNo(t, v) < PartNo(t, w)
    BY <1>1, <1>2 DEF DueUpto
  <2> QED BY <2>1, PartNoOrders
<1>5. \A v \in Fresh(t.prg, Every(t)) \ Class(t, n), w \in Class(t, n) :
         Before(t.prg, v, w) => v \in DueUpto(n - 1)
  <2> SUFFICES ASSUME NEW v \in Fresh(t.prg, Every(t)) \ Class(t, n), NEW w \in Class(t, n),
                      Before(t.prg, v, w)
               PROVE  v \in DueUpto(n - 1)
    OBVIOUS
  <2>1. v \in Every(t) /\ w \in Every(t) /\ PartNo(t, w) = n /\ PartNo(t, v) \in Int /\ PartNo(t, v) # n
    BY <1>1, <1>2 DEF Due, Class, Every
  <2>2. PartNo(t, v) <= n
    BY <2>1, PartNoBefore
  <2> QED BY <2>1, <2>2 DEF DueUpto, Due
<1> QED BY <1>3, <1>4, <1>5, RunStarts

(* The windows of the next tile-part and what BeginPart makes of them.      *)
LEMMA WindowNext ==
  ASSUME OrderInv, NEW n, n = tp + 1, n < PartCount(t)
  PROVE  \E e : /\ AreDigits(t, e) /\ Numeral(t, e) = n
                /\ IsWindow(t, [d \in Digits |-> Window(<<>>, 0, n, d)], e)
<1> DEFINE w == [d \in Digits |-> Window(<<>>, 0, n, d)]
<1>0. /\ IsTile(t) /\ ByLetters(t) /\ tp \in -1..(PartCount(t) - 1) /\ Depth(t) \in 0..3
      /\ \A i \in 1..Depth(t) : Letter(t, i) \in Digits
  <2>1. IsTile(t) /\ ByLetters(t) /\ tp \in -1..(PartCount(t) - 1)
    BY DEF OrderInv, Still, PartsHeld
  <2> QED BY <2>1, DepthIs DEF Digits, Letters
<1>1. \A d \in Digits : (\A i \in 1..Depth(t) : Letter(t, i) # d) => w[d] = Full(t)[d]
  BY <1>0, WindowIs
<1>2. CASE n = 0
  <2> DEFINE e == <<0, 0, 0>>
  <2>1. AreDigits(t, e) /\ Numeral(t, e) = 0
    BY <1>0, NumeralZero
  <2>2. \A i \in 1..3 : e[i] = 0
    OBVIOUS
  <2>3. \A i \in 1..Depth(t) : w[Letter(t, i)] = <<e[i], e[i] + 1>>
    <3> SUFFICES ASSUME NEW i \in 1..Depth(t) PROVE w[Letter(t, i)] = <<e[i], e[i] + 1>>
      OBVIOUS
    <3>1. w[Letter(t, i)] = <<0, 1>>
      BY <1>0, <1>2, WindowIs
    <3>2. i \in 1..3 /\ 0 + 1 = 1
      BY <1>0
    <3> HIDE DEF e, w
    <3> QED BY <2>2, <3>1, <3>2
  <2> HIDE DEF e, w
  <2>4. IsWindow(t, w, e)
    BY <1>1, <2>3 DEF IsWindow
  <2> QED BY <1>2, <2>1, <2>4 DEF w
<1>3. CASE n # 0
  <2>1. tp >= 0 /\ tp \in Int
    BY <1>0, <1>3
  <2>2. PICK g : AreDigits(t, g) /\ Odometer(g) /\ Numeral(t, g) = tp
    BY <2>1 DEF OrderInv, OdoHeld
  <2>3. PICK e : Advances(t, g, e) /\ Numeral(t, e) = Numeral(t, g) + 1
    BY <1>0, <2>2, NumeralNext
  <2>4. \A i \in 1..Depth(t) : w[Letter(t, i)] = <<e[i], e[i] + 1>>
    BY <1>0, <1>3, <2>2, <2>3, WindowAdvances
  <2> HIDE DEF w
  <2>5. AreDigits(t, e) /\ IsWindow(t, w, e)
    BY <1>1, <2>3, <2>4 DEF IsWindow, Advances
  <2> QED BY <2>2, <2>3, <2>5 DEF w
<1> QED BY <1>2, <1>3

(* A tile-part is begun.                                                  *)
LEMMA OrderBegins ==
  ASSUME OrderInv, phase = "between", NEW n, n = tp + 1, n < PartCount(t), BeginPart(<<>>, 0, n)
  PROVE  OrderInv'
<1> DEFINE w == [d \in Digits |-> Window(<<>>, 0, n, d)]
<1>0. /\ IsTile(t) /\ ByLetters(t) /\ pocs = <<>> /\ pino = 0 /\ prg = t.prg /\ tnsot = PartCount(t)
      /\ odo \in [Digits -> Int]
      /\ tp \in -1..(PartCount(t) - 1) /\ Depth(t) \in 0..3 /\ n \in Int /\ n - 1 = tp
      /\ OrderOf(t, <<>>, 0) = t.prg
  <2>1. IsTile(t) /\ ByLetters(t) /\ tp \in -1..(PartCount(t) - 1)
    BY DEF OrderInv, Still, PartsHeld
  <2> QED BY <2>1, DepthIs DEF OrderInv, Still, OrderOf
<1>1. /\ prg' = t.prg /\ left' = Visits(t, Iterator(t.prg, t.flag # "off", w))
      /\ odo' = [d \in Digits |-> IF TpOn /\ d \in ToSet(Divided(t.prg)) THEN w[d][2] ELSE odo[d]]
      /\ pocs' = <<>> /\ pino' = 0 /\ tp' = n /\ parts' = Append(parts, <<>>)
      /\ phase' = "packets" /\ t' = t /\ tnsot' = tnsot /\ read' = read
  BY <1>0 DEF BeginPart, Start, Iterator, TpOn
<1>2. PICK e : AreDigits(t, e) /\ Numeral(t, e) = n /\ IsWindow(t, w, e)
  BY WindowNext
<1> HIDE DEF w
<1>3. left' = Class(t, n)
  BY <1>0, <1>1, <1>2, WindowClass DEF Numeral
<1>4. \A i \in 1..Depth(t) : /\ e[i] \in Nat /\ w[Letter(t, i)] = <<e[i], e[i] + 1>>
  <2>1. \A i \in 1..Depth(t) : i \in 1..3
    BY <1>0
  <2> QED BY <1>2, <2>1 DEF AreDigits, IsWindow
<1>5. ASSUME TpOn, NEW d
      PROVE  d \in ToSet(Divided(t.prg)) <=> \E i \in 1..Depth(t) : Letter(t, i) = d
  <2>1. d \in ToSet(Divided(t.prg)) <=> \E j \in 1..Depth(t) : Letter(t, Depth(t) + 1 - j) = d
    BY <1>0, <1>5, DividedIs DEF ToSet
  <2>2. \A j \in 1..Depth(t) : Depth(t) + 1 - j \in 1..Depth(t) /\ Depth(t) + 1 - (Depth(t) + 1 - j) = j
    BY <1>0
  <2> QED BY <2>1, <2>2
<1>6. odo' \in [Digits -> Int]
  <2>1. ASSUME NEW d \in Digits PROVE (IF TpOn /\ d \in ToSet(Divided(t.prg)) THEN w[d][2] ELSE odo[d]) \in Int
    <3>1. CASE TpOn /\ d \in ToSet(Divided(t.prg))
      <4>1. PICK i \in 1..Depth(t) : Letter(t, i) = d
        BY <1>5, <3>1
      <4> QED BY <1>4, <3>1, <4>1
    <3>2. CASE ~(TpOn /\ d \in ToSet(Divided(t.prg)))
      BY <1>0, <3>2
    <3> QED BY <3>1, <3>2
  <2> QED BY <1>1, <2>1
<1>7. Still'
  BY <1>0, <1>1, <1>6 DEF Still
<1>8. OdoHeld'
  <2>1. ASSUME NEW i \in 1..Depth(t) PROVE odo'[Letter(t, i)] = e[i] + 1
    <3>1. Letter(t, i) \in Digits
      BY <1>0, DepthIs DEF Digits, Letters
    <3>2. TpOn
      BY <1>0 DEF TpOn, Depth
    <3>3. Letter(t, i) \in ToSet(Divided(t.prg))
      BY <1>5, <3>2
    <3> QED BY <1>1, <1>4, <3>1, <3>2, <3>3
  <2>2. Odometer(e)'
    BY <1>1, <2>1 DEF Odometer
  <2> QED BY <1>1, <1>2, <2>2 DEF OdoHeld
<1>9. parts \in Seq(Seq(AllPackets(t))) /\ Len(parts) = tp + 1 /\ <<>> \in Seq(AllPackets(t))
  BY DEF OrderInv, PartsHeld
<1>10. /\ parts' \in Seq(Seq(AllPackets(t))) /\ Len(parts') = n + 1 /\ parts'[n + 1] = <<>>
       /\ \A k \in 1..n : parts'[k] = parts[k]
  BY <1>0, <1>1, <1>9
<1>11. PartsHeld'
  <2>1. ASSUME TpOn, NEW k \in DOMAIN parts', NEW p \in ToSet(parts'[k]), NEW q \in ToSet(parts'[k])
        PROVE  p[PosOf(t.flag, "LRCP")] = q[PosOf(t.flag, "LRCP")]
    <3>1. k \in 1..(n + 1)
      BY <1>10, <2>1
    <3>2. CASE k = n + 1
      <4>1. ToSet(<<>>) = {}
        BY DEF ToSet
      <4> QED BY <1>10, <2>1, <3>2, <4>1
    <3>3. CASE k # n + 1
      <4>1. k \in 1..n /\ k \in DOMAIN parts
        BY <1>0, <1>9, <3>1, <3>3
      <4>2. p \in ToSet(parts[k]) /\ q \in ToSet(parts[k])
        BY <1>10, <2>1, <4>1
      <4> QED BY <2>1, <4>1, <4>2 DEF OrderInv, PartsHeld
    <3> QED BY <3>2, <3>3
  <2>2. TpOn' = TpOn
    BY <1>1 DEF TpOn
  <2>3. n \in -1..(PartCount(t) - 1)
    <3>1. PartCount(t) \in Int
      BY <1>0, PartCountIs
    <3> QED BY <1>0, <3>1
  <2> QED BY <1>1, <1>10, <2>1, <2>2, <2>3 DEF PartsHeld
<1>12. Written' = Written
  <2>1. FlattenSeq(Append(parts, <<>>)) = FlattenSeq(parts) \o <<>>
    BY <1>9, FlatAppend
  <2>2. FlattenSeq(parts) \in Seq(AllPackets(t))
    BY <1>9, FlatIsJoint
  <2>3. FlattenSeq(parts) \o <<>> = FlattenSeq(parts)
    BY <2>2
  <2> QED BY <1>1, <2>1, <2>3 DEF Written
<1>13. Included' = {}
  <2>1. ToSet(<<>>) = {}
    BY DEF ToSet
  <2> QED BY <1>10, <2>1 DEF Included
<1>14. \E A : Coding(A)'
  <2>0. PICK A : A = DueUpto(tp)
    OBVIOUS
  <2>1. Lists(t.prg, A, Written) /\ Sound(A)
    BY <2>0 DEF OrderInv, Encoding
  <2>2. Running(t.prg, Every(t), Class(t, n), A, Class(t, n), {})
    BY <1>0, <2>0, ClassBegins
  <2>3. \A v \in Due : (PartNo(t, v) < n => v \in A) /\ (v \in A => PartNo(t, v) <= n)
    <3>1. \A v \in Due : PartNo(t, v) \in Int
      BY <1>0, PartNoType DEF Due, Fresh
    <3> QED BY <1>0, <2>0, <3>1 DEF DueUpto
  <2>4. (\A v : Missing(v)' = Missing(v)) /\ Due' = Due
    BY <1>1 DEF Missing, Due
  <2>5. Coding(A)'
    BY <1>1, <1>3, <1>12, <1>13, <2>1, <2>2, <2>3, <2>4 DEF Coding, Sound
  <2> QED BY <2>5
<1>15. Encoding'
  <2>1. tp' >= 0
    BY <1>0, <1>1
  <2>2. read' = <<>>
    BY <1>1 DEF OrderInv, Encoding
  <2> QED BY <1>1, <1>14, <2>1, <2>2 DEF Encoding
<1> QED BY <1>1, <1>7, <1>8, <1>11, <1>15 DEF OrderInv, Decoding

(* The elements of a sequence made longer.                                *)
LEMMA AppendRange ==
  ASSUME NEW T, NEW s \in Seq(T), NEW x \in T
  PROVE  ToSet(Append(s, x)) = ToSet(s) \cup {x}
<1> DEFINE a == Append(s, x)
           n == Len(s)
<1>1. /\ n \in Nat /\ DOMAIN s = 1..n /\ DOMAIN a = 1..(n + 1) /\ a[n + 1] = x
      /\ \A i \in 1..n : a[i] = s[i]
  OBVIOUS
<1>2. \A i \in 1..(n + 1) : i \in 1..n \/ i = n + 1
  BY <1>1
<1>3. n + 1 \in 1..(n + 1) /\ \A i \in 1..n : i \in 1..(n + 1)
  BY <1>1
<1> HIDE DEF a, n
<1>4. \A y : y \in ToSet(a) <=> y \in ToSet(s) \/ y = x
  BY <1>1, <1>2, <1>3 DEF ToSet
<1> QED BY <1>4 DEF a

(* A packet is written, or the precinct is refused.                       *)
LEMMA OrderEncodes ==
  ASSUME OrderInv, EncodePacket
  PROVE  OrderInv'
<1>0. /\ IsTile(t) /\ ByLetters(t) /\ prg = t.prg /\ phase = "packets" /\ tp >= 0
      /\ tp \in -1..(PartCount(t) - 1)
      /\ parts \in Seq(Seq(AllPackets(t))) /\ Len(parts) = tp + 1 /\ read = <<>>
  BY DEF OrderInv, Still, PartsHeld, Encoding, EncodePacket
<1>1. t' = t /\ pocs' = pocs /\ tnsot' = tnsot /\ pino' = pino /\ tp' = tp /\ odo' = odo
      /\ prg' = prg /\ read' = read
  BY DEF EncodePacket
<1>2. PICK v \in Following :
        IF Missing(v)
        THEN phase' = "refused" /\ UNCHANGED <<left, parts>>
        ELSE /\ left' = Past(v)
             /\ parts' = [parts EXCEPT ![Len(parts)] = Append(@, Packet(v))]
             /\ UNCHANGED phase
  BY DEF EncodePacket
<1>3. PICK A : Coding(A)
  BY <1>0 DEF OrderInv, Encoding
<1> DEFINE C == Class(t, tp)
           V == Every(t)
<1>4. Nested(t.prg, V) /\ PartOf(t.prg, V, C)
  BY <1>0, AllNested, ClassPart DEF Every
<1>5. v \in NextVisits(t.prg, left, Included) /\ Running(t.prg, V, C, A, left, Included)
  BY <1>0, <1>3 DEF Following, Coding
<1> HIDE DEF C, V
<1>6. /\ v \in Fresh(t.prg, V) /\ v \in C /\ v \in left /\ v \notin A
      /\ \A w \in A : Before(t.prg, w, v)
      /\ Running(t.prg, V, C, A \cup {v}, {w \in left : Before(t.prg, v, w)}, Included \cup {Packet(v)})
  BY <1>4, <1>5, RunGoesOn
<1>7. v \in Every(t) /\ PartNo(t, v) = tp
  BY <1>6 DEF C, Class, Every
<1>8. Still' /\ OdoHeld' /\ Decoding'
  <2>1. phase' \in {"packets", "refused"}
    BY <1>0, <1>2
  <2>2. OdoHeld' /\ Decoding'
    BY <1>1, <2>1 DEF OrderInv, OdoHeld, Odometer, Decoding
  <2>3. Still'
    BY <1>1, <2>1 DEF OrderInv, Still
  <2> QED BY <2>2, <2>3
<1>9. CASE Missing(v)
  <2>1. phase' = "refused" /\ parts' = parts
    BY <1>2, <1>9
  <2>2. PartsHeld'
    BY <1>1, <2>1 DEF OrderInv, PartsHeld, TpOn
  <2>3. /\ TpOn /\ ~ByPosition(t.prg)
        /\ \E c \in CompNos(t), r \in ResNos(t) : NumPrec(t, c, r) < MaxPrec(t)
    BY <1>0, <1>7, <1>9, NotMissing
  <2>4. Encoding'
    BY <1>0, <1>1, <2>1, <2>3 DEF Encoding, TpOn
  <2> QED BY <1>8, <2>2, <2>4 DEF OrderInv
<1>10. CASE ~Missing(v)
  <2> DEFINE n == Len(parts)
             q == Append(parts[n], Packet(v))
  <2>1. /\ left' = {w \in left : Before(t.prg, v, w)} /\ phase' = "packets"
        /\ parts' = [parts EXCEPT ![Len(parts)] = Append(@, Packet(v))]
    BY <1>0, <1>2, <1>10 DEF Past
  <2>2. parts' = [parts EXCEPT ![n] = q]
    BY <2>1
  <2>3. Packet(v) \in AllPackets(t)
    BY <1>0, <1>7, <1>10, NotMissing
  <2>4. n \in 1..n /\ parts # <<>> /\ n = tp + 1 /\ n \in Nat
    BY <1>0
  <2>5. parts' \in Seq(Seq(AllPackets(t))) /\ Written' = Append(Written, Packet(v))
    BY <1>0, <2>1, <2>3, <2>4, FlatLonger DEF Written
  <2>6. parts[n] \in Seq(AllPackets(t)) /\ q \in Seq(AllPackets(t))
    <3>1. parts[n] \in Seq(AllPackets(t))
      BY <1>0, <2>4
    <3>2. \A s \in Seq(AllPackets(t)) : Append(s, Packet(v)) \in Seq(AllPackets(t))
      BY <2>3
    <3> QED BY <3>1, <3>2
  <2>7. /\ Len(parts') = n /\ parts'[n] = q
        /\ \A k \in 1..n : k # n => parts'[k] = parts[k]
    <3> HIDE DEF q
    <3> QED BY <1>0, <2>2, <2>4, <2>6, ElementReplaced
  <2>8. ToSet(q) = ToSet(parts[n]) \cup {Packet(v)}
    <3> DEFINE s == parts[n]
    <3>1. s \in Seq(AllPackets(t)) /\ Packet(v) \in AllPackets(t)
      BY <2>3, <2>6
    <3> HIDE DEF s
    <3>2. ToSet(Append(s, Packet(v))) = ToSet(s) \cup {Packet(v)}
      BY <3>1, AppendRange
    <3> QED BY <3>2 DEF s
  <2>9. Included' = Included \cup {Packet(v)}
    <3> HIDE DEF q
    <3> QED BY <2>7, <2>8 DEF Included
  <2>10. ASSUME TpOn, NEW x \in Included PROVE x[PosOf(t.flag, "LRCP")] = Packet(v)[PosOf(t.flag, "LRCP")]
    <3>1. PICK w \in A \cap C : x = Packet(w)
      BY <1>5, <2>10 DEF Running
    <3>2. w \in Every(t) /\ PartNo(t, w) = PartNo(t, v)
      BY <1>7, <3>1 DEF C, Class, Every
    <3>3. t.flag # "off"
      BY <2>10 DEF TpOn
    <3>4. Depth(t) \in 1..3 /\ Letter(t, Depth(t)) = t.flag
      BY <1>0, <3>3, DepthIs
    <3>5. t.flag \in {"L", "R", "C"}
      <4>1. Depth(t) \in 1..Depth(t)
        BY <3>4
      <4> QED BY <1>0, <3>4, <4>1, DepthIs
    <3>6. w[t.flag] = v[t.flag]
      <4>1. Depth(t) \in 1..Depth(t)
        BY <3>4
      <4> QED BY <1>0, <1>7, <3>2, <3>4, <4>1, PartNoSame
    <3>7. "LRCP" \in Orders /\ LetterOrder("LRCP") = <<"L", "R", "C", "P">> /\ t.flag \in Letters
      BY <3>5 DEF Orders, LetterOrder, Letters
    <3>8. PosOf(t.flag, "LRCP") \in 1..4 /\ <<"L", "R", "C", "P">>[PosOf(t.flag, "LRCP")] = t.flag
      BY <3>7, PosIs
    <3>9. \A y : /\ t.flag = "L" => Packet(y)[PosOf(t.flag, "LRCP")] = y.L
                 /\ t.flag = "R" => Packet(y)[PosOf(t.flag, "LRCP")] = y.R
                 /\ t.flag = "C" => Packet(y)[PosOf(t.flag, "LRCP")] = y.C
      <4>1. PosOf(t.flag, "LRCP") = 1 \/ PosOf(t.flag, "LRCP") = 2 \/ PosOf(t.flag, "LRCP") = 3
              \/ PosOf(t.flag, "LRCP") = 4
        BY <3>8
      <4>2. /\ t.flag = "L" => PosOf(t.flag, "LRCP") = 1
            /\ t.flag = "R" => PosOf(t.flag, "LRCP") = 2
            /\ t.flag = "C" => PosOf(t.flag, "LRCP") = 3
        BY <3>8, <4>1
      <4> QED BY <4>2 DEF Packet
    <3> QED BY <3>1, <3>5, <3>6, <3>9
  <2>11. PartsHeld'
    <3>1. ASSUME TpOn, NEW k \in DOMAIN parts', NEW x \in ToSet(parts'[k]), NEW y \in ToSet(parts'[k])
          PROVE  x[PosOf(t.flag, "LRCP")] = y[PosOf(t.flag, "LRCP")]
      <4>1. k \in 1..n /\ k \in DOMAIN parts /\ n \in DOMAIN parts
        BY <1>0, <2>4, <2>5, <2>7, <3>1
      <4>2. \A z \in DOMAIN parts : \A i, j \in ToSet(parts[z]) :
               i[PosOf(t.flag, "LRCP")] = j[PosOf(t.flag, "LRCP")]
        BY <3>1 DEF OrderInv, PartsHeld
      <4>3. CASE k = n
        <5>1. x \in Included \cup {Packet(v)} /\ y \in Included \cup {Packet(v)}
          <6>1. parts'[k] = q
            BY <2>7, <4>3
          <6> HIDE DEF q
          <6> QED BY <2>8, <3>1, <6>1 DEF Included
        <5> QED BY <2>10, <3>1, <5>1
      <4>4. CASE k # n
        <5>1. parts'[k] = parts[k]
          BY <2>7, <4>1, <4>4
        <5> QED BY <3>1, <4>1, <4>2, <5>1
      <4> QED BY <4>3, <4>4
    <3>2. TpOn' = TpOn
      BY <1>1 DEF TpOn
    <3> HIDE DEF q, n
    <3> QED BY <1>0, <1>1, <2>4, <2>5, <2>7, <3>1, <3>2 DEF PartsHeld
  <2>12. Lists(t.prg, A \cup {v}, Append(Written, Packet(v)))
    <3>1. A \in SUBSET V /\ v \in V /\ Lists(t.prg, A, Written)
      BY <1>3, <1>5, <1>6 DEF Running, Fresh, Coding
    <3> QED BY <1>4, <1>6, <3>1, ListsAppend
  <2>13. Sound(A \cup {v})
    BY <1>3, <1>10 DEF Coding, Sound
  <2>14. \A w \in Due : (PartNo(t, w) < tp => w \in A \cup {v}) /\ (w \in A \cup {v} => PartNo(t, w) <= tp)
    BY <1>0, <1>3, <1>7 DEF Coding
  <2>15. (\A w : Missing(w)' = Missing(w)) /\ Due' = Due
    BY <1>1 DEF Missing, Due
  <2>16. PICK B : B = A \cup {v}
    OBVIOUS
  <2>17. Coding(B)'
    <3> HIDE DEF q, n
    <3>1. Running(t.prg, V, C, B, left', Included')
      BY <1>6, <2>1, <2>9, <2>16
    <3>2. Running(t.prg, Every(t), Class(t, tp), B, left, Included)'
      BY <1>1, <3>1 DEF V, C
    <3> QED BY <1>1, <2>5, <2>12, <2>13, <2>14, <2>15, <2>16, <3>2 DEF Coding, Sound
  <2>18. Encoding'
    BY <1>0, <1>1, <2>1, <2>17 DEF Encoding
  <2> QED BY <1>8, <2>11, <2>18 DEF OrderInv
<1> QED BY <1>9, <1>10

(* A tile-part ends when opj_pi_next has no packet left for it: then all of the *)
(* class was written.                                                     *)
LEMMA OrderEndsPart ==
  ASSUME OrderInv, EndPart
  PROVE  OrderInv'
<1>0. /\ IsTile(t) /\ ByLetters(t) /\ prg = t.prg /\ phase = "packets" /\ tp >= 0
      /\ tp \in -1..(PartCount(t) - 1) /\ read = <<>>
  BY DEF OrderInv, Still, PartsHeld, Encoding, EndPart
<1>1. t' = t /\ pocs' = pocs /\ tnsot' = tnsot /\ pino' = pino /\ tp' = tp /\ odo' = odo
      /\ prg' = prg /\ read' = read /\ left' = left /\ parts' = parts /\ phase' = "between"
      /\ Following = {}
  BY DEF EndPart
<1>2. PICK A : Coding(A)
  BY <1>0 DEF OrderInv, Encoding
<1>3. Nested(t.prg, Every(t)) /\ PartOf(t.prg, Every(t), Class(t, tp))
  BY <1>0, AllNested, ClassPart DEF Every
<1>4. Fresh(t.prg, Every(t)) \cap Class(t, tp) \in SUBSET A
  BY <1>0, <1>1, <1>2, <1>3, RunEnds DEF Coding, Following
<1>5. A = DueUpto(tp)
  <2>1. A \in SUBSET Due
    BY <1>2 DEF Coding, Running, Due
  <2>2. \A v \in Due : PartNo(t, v) <= tp => v \in A
    <3> SUFFICES ASSUME NEW v \in Due, PartNo(t, v) <= tp PROVE v \in A
      OBVIOUS
    <3>1. v \in Every(t) /\ PartNo(t, v) \in Int
      BY <1>0, PartNoType DEF Due, Fresh
    <3>2. CASE PartNo(t, v) < tp
      BY <1>2, <3>2 DEF Coding
    <3>3. CASE PartNo(t, v) = tp
      BY <1>4, <3>1, <3>3 DEF Due, Class, Every
    <3> QED BY <1>0, <3>1, <3>2, <3>3
  <2>3. \A v \in A : PartNo(t, v) <= tp
    BY <1>2, <2>1 DEF Coding
  <2> QED BY <2>1, <2>2, <2>3 DEF DueUpto
<1>6. Lists(t.prg, DueUpto(tp), Written) /\ Sound(DueUpto(tp))
  BY <1>2, <1>5 DEF Coding
<1>7. (\A w : Missing(w)' = Missing(w)) /\ DueUpto(tp)' = DueUpto(tp) /\ Written' = Written
  BY <1>1 DEF Missing, Due, DueUpto, Written
<1>8. Encoding'
  BY <1>0, <1>1, <1>6, <1>7 DEF Encoding, Sound
<1>9. Still' /\ PartsHeld' /\ OdoHeld' /\ Decoding'
  BY <1>1 DEF OrderInv, Still, PartsHeld, OdoHeld, Odometer, Decoding, TpOn
<1> QED BY <1>8, <1>9 DEF OrderInv

(* After the last tile-part the decoder begins.                           *)
LEMMA OrderTurns ==
  ASSUME OrderInv, BeginDecode
  PROVE  OrderInv'
<1>0. /\ IsTile(t) /\ ByLetters(t) /\ prg = t.prg /\ phase = "between" /\ pocs = <<>> /\ pino = 0
      /\ tp \in -1..(PartCount(t) - 1) /\ read = <<>>
      /\ PartCount(t) \in Nat \ {0} /\ NumTp(t, pocs, pino) = PartCount(t)
  <2>1. /\ IsTile(t) /\ ByLetters(t) /\ prg = t.prg /\ phase = "between" /\ pocs = <<>> /\ pino = 0
        /\ tp \in -1..(PartCount(t) - 1) /\ read = <<>>
    BY DEF OrderInv, Still, PartsHeld, Encoding, BeginDecode
  <2> QED BY <2>1, PartCountIs
<1>1. t' = t /\ pocs' = pocs /\ tnsot' = tnsot /\ tp' = tp /\ odo' = odo /\ parts' = parts
      /\ read' = read /\ phase' = "decode" /\ pino' = 0 /\ tp + 1 >= PartCount(t)
      /\ prg' = DecodeIterator(0).prg /\ left' = Visits(t, DecodeIterator(0))
  BY <1>0 DEF BeginDecode, Start
<1>2. tp = PartCount(t) - 1
  BY <1>0, <1>1
<1>3. DueUpto(tp) = Due
  <2>1. \A v \in Due : PartNo(t, v) <= tp
    BY <1>0, <1>2, PartNoType DEF Due, Fresh
  <2> QED BY <2>1 DEF DueUpto
<1>4. Lists(t.prg, Due, Written) /\ Sound(Due)
  BY <1>0, <1>3 DEF OrderInv, Encoding
<1>5. DecodeIterator(0) = Iterator(t.prg, FALSE, Full(t))
  <2>1. PICK w : w = [Full(t) EXCEPT !.L[1] = 0]
    OBVIOUS
  <2>2. DOMAIN Full(t) = Digits
    BY DEF Full, Ranges
  <2>3. w.L = Full(t).L
    <3>1. w.L = [Full(t).L EXCEPT ![1] = 0]
      BY <2>1, <2>2 DEF Digits, Letters
    <3>2. Full(t).L = <<0, t.layers>>
      BY FullIs
    <3>3. [<<0, t.layers>> EXCEPT ![1] = 0] = <<0, t.layers>>
      OBVIOUS
    <3> QED BY <3>1, <3>2, <3>3
  <2>4. w.R = Full(t).R /\ w.C = Full(t).C /\ w.P = Full(t).P /\ w.x = Full(t).x /\ w.y = Full(t).y
    BY <2>1, <2>2 DEF Digits, Letters, Axes
  <2>5. DecodeIterator(0) = Iterator(t.prg, FALSE, w)
    BY <1>0, <2>1 DEF DecodeIterator, OrderOf, Full
  <2> QED BY <2>3, <2>4, <2>5 DEF Iterator
<1>6. prg' = t.prg /\ left' = All(t, FALSE)
  <2>1. Iterator(t.prg, FALSE, Full(t)).prg = t.prg
    BY DEF Iterator
  <2> QED BY <1>1, <1>5, <2>1 DEF All
<1>7. Reading({})'
  <2> DEFINE D == All(t, FALSE)
  <2>1. Running(t.prg, D, D, {}, D, {})
    <3> HIDE DEF D
    <3>1. {} \in SUBSET Fresh(t.prg, D) /\ {} \cap D = {} /\ Fresh(t.prg, D) \ D = {}
      BY DEF Fresh
    <3> QED BY <3>1, RunStarts
  <2>2. ToSet(<<>>) = {}
    BY DEF ToSet
  <2>3. Lists(t.prg, {}, <<>>)
    BY ListsNothing
  <2> QED BY <1>0, <1>1, <1>6, <2>1, <2>2, <2>3 DEF Reading
<1>8. (\A w : Missing(w)' = Missing(w)) /\ Due' = Due /\ Written' = Written
  BY <1>1 DEF Missing, Due, Written
<1>9. Decoding'
  BY <1>1, <1>2, <1>4, <1>7, <1>8 DEF Decoding, Sound
<1>10. Encoding'
  BY <1>1 DEF Encoding
<1>11. Still' /\ PartsHeld' /\ OdoHeld'
  BY <1>0, <1>1, <1>6 DEF OrderInv, Still, PartsHeld, OdoHeld, Odometer, TpOn
<1> QED BY <1>9, <1>10, <1>11 DEF OrderInv

(* The decoder comes upon a packet.                                       *)
LEMMA OrderReads ==
  ASSUME OrderInv, DecodePacket
  PROVE  OrderInv'
<1>0. /\ IsTile(t) /\ ByLetters(t) /\ prg = t.prg /\ phase = "decode"
  BY DEF OrderInv, Still, DecodePacket
<1>1. t' = t /\ pocs' = pocs /\ tnsot' = tnsot /\ tp' = tp /\ odo' = odo /\ parts' = parts
      /\ phase' = phase /\ pino' = pino /\ prg' = prg
  BY DEF DecodePacket
<1>2. PICK v \in Expected : left' = Past(v) /\ read' = Append(read, Packet(v))
  BY DEF DecodePacket
<1>3. PICK B : Reading(B)
  BY <1>0 DEF OrderInv, Decoding
<1> DEFINE D == All(t, FALSE)
<1>4. Nested(t.prg, D)
  BY <1>0, AllNested
<1>5. v \in NextVisits(t.prg, left, ToSet(read)) /\ Running(t.prg, D, D, B, left, ToSet(read))
      /\ Lists(t.prg, B, read)
  BY <1>0, <1>3 DEF Expected, Reading
<1> HIDE DEF D
<1>6. PartOf(t.prg, D, D)
  BY DEF PartOf
<1>7. /\ v \in Fresh(t.prg, D) /\ v \in D /\ \A w \in B : Before(t.prg, w, v)
      /\ Running(t.prg, D, D, B \cup {v}, {w \in left : Before(t.prg, v, w)}, ToSet(read) \cup {Packet(v)})
  BY <1>4, <1>5, <1>6, RunGoesOn
<1>8. Lists(t.prg, B \cup {v}, Append(read, Packet(v)))
  <2>1. B \in SUBSET D
    BY <1>5 DEF Running, Fresh
  <2> QED BY <1>4, <1>5, <1>7, <2>1, ListsAppend
<1>9. ToSet(read') = ToSet(read) \cup {Packet(v)}
  <2>1. PICK S : read \in Seq(S)
    BY <1>5 DEF Lists
  <2>2. read \in Seq(S \cup {Packet(v)})
    BY <2>1
  <2> QED BY <1>2, <2>2, AppendRange
<1>10. PICK E : E = B \cup {v}
  OBVIOUS
<1>11. Reading(E)'
  <2>1. left' = {w \in left : Before(t.prg, v, w)}
    BY <1>0, <1>2 DEF Past
  <2>2. Running(t.prg, D, D, E, left', ToSet(read'))
    BY <1>7, <1>9, <1>10, <2>1
  <2>3. Running(t.prg, All(t, FALSE), All(t, FALSE), E, left, ToSet(read))'
    BY <1>1, <2>2 DEF D
  <2> QED BY <1>1, <1>2, <1>8, <1>10, <2>3 DEF Reading
<1>12. (\A w : Missing(w)' = Missing(w)) /\ Due' = Due /\ Written' = Written
  BY <1>1 DEF Missing, Due, Written
<1>13. Decoding'
  BY <1>0, <1>1, <1>11, <1>12 DEF OrderInv, Decoding, Sound
<1>14. Encoding'
  BY <1>0, <1>1 DEF Encoding
<1>15. Still' /\ PartsHeld' /\ OdoHeld'
  BY <1>1 DEF OrderInv, Still, PartsHeld, OdoHeld, Odometer, TpOn
<1> QED BY <1>13, <1>14, <1>15 DEF OrderInv

\* What has been read is the beginning of what was written, and all of it once
\* the decoder finds no more.
LEMMA ReadIsPrefix ==
  ASSUME OrderInv, phase \in {"decode", "done"}
  PROVE  /\ IsPrefix(read, Written)
         /\ Expected = {} => read = Written
<1>0. /\ IsTile(t) /\ ByLetters(t) /\ prg = t.prg /\ Lists(t.prg, Due, Written) /\ Sound(Due)
  BY DEF OrderInv, Still, Decoding
<1>1. PICK B : Reading(B)
  BY DEF OrderInv, Decoding
<1> DEFINE D == All(t, FALSE)
<1>2. Every(t) = D
  BY <1>0, BothSides
<1>3. Nested(t.prg, D)
  BY <1>0, AllNested
<1>4. Running(t.prg, D, D, B, left, ToSet(read)) /\ Lists(t.prg, B, read)
  BY <1>1 DEF Reading
<1> HIDE DEF D
<1>5. PartOf(t.prg, D, D)
  BY DEF PartOf
<1>6. Due = Fresh(t.prg, D) /\ B \in SUBSET Due
  BY <1>2, <1>4 DEF Due, Running
<1>7. \A v \in Due, w \in B : Before(t.prg, v, w) => v \in B
  BY <1>3, <1>4, <1>5, <1>6, RunIsPrefix
<1>8. IsPrefix(read, Written) /\ (Due = B => read = Written)
  BY <1>0, <1>4, <1>6, <1>7, ListsPrefix
<1>9. ASSUME Expected = {} PROVE read = Written
  <2>1. Fresh(t.prg, D) \cap D \in SUBSET B
    BY <1>0, <1>3, <1>4, <1>5, <1>9, RunEnds DEF Expected
  <2>2. Due = B
    BY <1>6, <2>1 DEF Fresh
  <2> QED BY <1>8, <2>2
<1> QED BY <1>8, <1>9

(* The decoder comes upon no further packet.                              *)
LEMMA OrderDone ==
  ASSUME OrderInv, DecodeProgression
  PROVE  OrderInv'
<1>0. ByLetters(t) /\ phase = "decode" /\ pino = 0 /\ Expected = {} /\ NumPocs = 0
  <2>1. ByLetters(t) /\ phase = "decode" /\ pino = 0 /\ Expected = {}
    BY DEF OrderInv, Still, DecodeProgression
  <2> QED BY <2>1, NumPocsIs
<1>1. UNCHANGED <<t, pocs, tnsot, pino, tp, odo, prg, left, parts, read>> /\ phase' = "done"
  BY <1>0 DEF DecodeProgression
<1>2. read = Written
  BY <1>0, ReadIsPrefix
<1>3. (\A w : Missing(w)' = Missing(w)) /\ Due' = Due /\ Written' = Written
  BY <1>1 DEF Missing, Due, Written
<1>4. \E B : Reading(B)'
  <2>1. PICK B : Reading(B)
    BY <1>0 DEF OrderInv, Decoding
  <2>2. Reading(B)'
    BY <1>1, <2>1 DEF Reading
  <2> QED BY <2>2
<1>5. Decoding'
  BY <1>0, <1>1, <1>2, <1>3, <1>4 DEF OrderInv, Decoding, Sound
<1>6. Encoding'
  BY <1>1 DEF Encoding
<1>7. Still' /\ PartsHeld' /\ OdoHeld'
  BY <1>1 DEF OrderInv, Still, PartsHeld, OdoHeld, Odometer, TpOn
<1> QED BY <1>5, <1>6, <1>7 DEF OrderInv

(* Every step keeps the invariant.                                        *)
LEMMA OrderInvKept ==
  ASSUME OrderInv, [Next]_vars
  PROVE  OrderInv'
<1>0. /\ IsTile(t) /\ ByLetters(t) /\ pocs = <<>> /\ pino = 0
      /\ NumPocs = 0 /\ NumTp(t, pocs, pino) = PartCount(t) /\ PartCount(t) \in Nat \ {0}
      /\ tp \in -1..(PartCount(t) - 1)
  <2>1. IsTile(t) /\ ByLetters(t) /\ pocs = <<>> /\ pino = 0 /\ tp \in -1..(PartCount(t) - 1)
    BY DEF OrderInv, Still, PartsHeld
  <2> QED BY <2>1, PartCountIs, NumPocsIs
<1>1. CASE FirstPart
  <2>1. Clamped(t, pocs) = <<>>
    <3>1. DOMAIN <<>> = 1..0
      OBVIOUS
    <3>2. Clamped(t, pocs) = [i \in 1..0 |-> [<<>>[i] EXCEPT !.L = Min({@, t.layers}),
                                                             !.R[2] = Min({@, NumRes(t)})]]
      BY <1>0, <3>1 DEF Clamped
    <3> QED BY <3>2
  <2>2. phase = "between" /\ 0 = tp + 1 /\ 0 < PartCount(t) /\ BeginPart(<<>>, 0, 0)
    BY <1>0, <1>1, <2>1 DEF FirstPart
  <2> QED BY <2>2, OrderBegins
<1>2. CASE NextPart
  <2>1. PICK n : n = tp + 1
    OBVIOUS
  <2>2. phase = "between" /\ n < PartCount(t) /\ BeginPart(<<>>, 0, n)
    BY <1>0, <1>2, <2>1 DEF NextPart
  <2> QED BY <2>1, <2>2, OrderBegins
<1>3. CASE NextProgression
  BY <1>0, <1>3 DEF NextProgression
<1>4. CASE EncodePacket
  BY <1>4, OrderEncodes
<1>5. CASE EndPart
  BY <1>5, OrderEndsPart
<1>6. CASE BeginDecode
  BY <1>6, OrderTurns
<1>7. CASE DecodePacket
  BY <1>7, OrderReads
<1>8. CASE DecodeProgression
  BY <1>8, OrderDone
<1>9. CASE Finished \/ UNCHANGED vars
  <2>1. UNCHANGED vars
    BY <1>9 DEF Finished
  <2>2. /\ t' = t /\ pocs' = pocs /\ tnsot' = tnsot /\ phase' = phase /\ pino' = pino /\ tp' = tp
        /\ odo' = odo /\ prg' = prg /\ left' = left /\ parts' = parts /\ read' = read
    BY <2>1 DEF vars
  <2>3. Still' /\ PartsHeld' /\ OdoHeld'
    BY <2>2 DEF OrderInv, Still, PartsHeld, OdoHeld, Odometer, TpOn
  <2>4. /\ (\A w : Missing(w)' = Missing(w)) /\ Due' = Due /\ DueUpto(tp)' = DueUpto(tp)
        /\ Written' = Written /\ Included' = Included
    BY <2>2 DEF Missing, Due, DueUpto, Written, Included
  <2>5. (\A A : Coding(A)' <=> Coding(A)) /\ (\A B : Reading(B)' <=> Reading(B))
        /\ (\A A : Sound(A)' <=> Sound(A))
    BY <2>2, <2>4 DEF Coding, Reading, Sound
  <2>6. Encoding' /\ Decoding'
    BY <2>2, <2>4, <2>5 DEF OrderInv, Encoding, Decoding, TpOn
  <2> QED BY <2>3, <2>6 DEF OrderInv
<1> QED BY <1>1, <1>2, <1>3, <1>4, <1>5, <1>6, <1>7, <1>8, <1>9 DEF Next

(* The invariant of the order, for every tile divided before the position. *)
LEMMA OrderInvHolds == Spec => [](ByLetters(t) => OrderInv)
<1>1. Init => (ByLetters(t) => OrderInv)
  BY OrderStarts
<1>2. (ByLetters(t) => OrderInv) /\ [Next]_vars => (ByLetters(t) => OrderInv)'
  <2> SUFFICES ASSUME ByLetters(t) => OrderInv, [Next]_vars, ByLetters(t)' PROVE OrderInv'
    OBVIOUS
  <2>1. t' = t
    BY DEF Next, vars, FirstPart, NextPart, NextProgression, BeginPart, EncodePacket, EndPart,
           BeginDecode, DecodePacket, DecodeProgression, Finished
  <2>2. ByLetters(t)
    BY <2>1
  <2> QED BY <2>2, OrderInvKept
<1> QED BY <1>1, <1>2, PTL DEF Spec

(* The packets as many as the due visits. *)
LEMMA DueCovers ==
  ASSUME NEW u, IsTile(u), ByPosition(u.prg) => StepsAlign(u), NEW F, F = Fresh(u.prg, All(u, FALSE))
  PROVE  {Packet(v) : v \in F} = AllPackets(u) /\ Cardinality(F) = Cardinality(AllPackets(u))
<1> DEFINE D == All(u, FALSE)
           P == {Packet(v) : v \in F}
           f == [v \in F |-> Packet(v)]
<1>1. Nested(u.prg, D)
  BY AllNested
<1>2. \A v \in F : v \in D /\ v \in Fresh(u.prg, D)
  BY DEF Fresh
<1>3. \A v \in D : Packet(v) \in AllPackets(u)
  <2> SUFFICES ASSUME NEW v \in D PROVE Packet(v) \in AllPackets(u)
    OBVIOUS
  <2>1. Whole(u, FALSE, v)
    BY AllIs
  <2>2. v.P <= NumPrec(u, v.C, v.R) - 1 /\ v.P \in Nat /\ v.R \in ResNos(u) /\ v.C \in CompNos(u)
    BY <2>1, WholeType DEF Whole
  <2>3. NumPrec(u, v.C, v.R) \in Nat
    BY <2>2, NumPrecType
  <2>4. v.P < NumPrec(u, v.C, v.R)
    BY <2>2, <2>3
  <2> QED BY <2>1, <2>4, WholePacket
<1>4. \A p \in AllPackets(u) : \E v \in F : Packet(v) = p
  <2> SUFFICES ASSUME NEW p \in AllPackets(u) PROVE \E v \in F : Packet(v) = p
    OBVIOUS
  <2>1. PICK w \in D : Packet(w) = p
    BY PacketVisited
  <2>2. F = Fresh(u.prg, D)
    OBVIOUS
  <2> HIDE DEF D
  <2>3. PICK v \in Fresh(u.prg, D) : Packet(v) = Packet(w)
    BY <1>1, <2>1, FreshCovers
  <2> QED BY <2>1, <2>2, <2>3
<1>5. P = AllPackets(u)
  BY <1>2, <1>3, <1>4
<1>6. f \in Bijection(F, AllPackets(u))
  <2>1. f \in [F -> AllPackets(u)]
    BY <1>2, <1>3
  <2>2. \A v, w \in F : f[v] = f[w] => v = w
    <3> HIDE DEF D
    <3> QED BY <1>1, <1>2, FreshOnce
  <2>3. \A p \in AllPackets(u) : \E v \in F : f[v] = p
    BY <1>4
  <2> QED BY <2>1, <2>2, <2>3 DEF Bijection, Injection, Surjection, IsInjective
<1>7. IsFiniteSet(F)
  <2>1. F \in SUBSET D /\ IsFiniteSet(D)
    BY <1>1, <1>2 DEF Nested
  <2> HIDE DEF D
  <2> QED BY <2>1, FS_Subset
<1> HIDE DEF f
<1>8. Cardinality(F) = Cardinality(AllPackets(u))
  <2>1. ExistsBijection(F, AllPackets(u))
    BY <1>6 DEF ExistsBijection
  <2> QED BY <1>7, <2>1, FS_Bijection
<1> QED BY <1>5, <1>8

\* What is written are packets of the tile, for any tile, order and geometry that
\* is not divided beyond its letters: opj_t2_encode_packet refuses the others.
THEOREM OrderTypes == Spec => [](ByLetters(t) => TypeOK)
<1>1. OrderInv => TypeOK
  <2> SUFFICES ASSUME OrderInv PROVE TypeOK
    OBVIOUS
  <2>1. /\ IsTile(t) /\ ByLetters(t) /\ pino = 0 /\ prg = t.prg /\ tnsot = PartCount(t)
        /\ phase \in {"between", "packets", "refused", "decode", "done"}
        /\ odo \in [Digits -> Int] /\ tp \in -1..(PartCount(t) - 1)
        /\ parts \in Seq(Seq(AllPackets(t)))
    BY DEF OrderInv, Still, PartsHeld
  <2>2. NumPocs = 0 /\ PartCount(t) \in Nat \ {0} /\ t.prg \in Orders
    BY <2>1, NumPocsIs, PartCountIs DEF IsTile
  <2>3. \A n \in DOMAIN parts : \A p \in ToSet(parts[n]) : IsPacket(t, p)
    <3> SUFFICES ASSUME NEW n \in DOMAIN parts, NEW p \in ToSet(parts[n]) PROVE IsPacket(t, p)
      OBVIOUS
    <3>1. parts[n] \in Seq(AllPackets(t))
      BY <2>1
    <3>2. p \in AllPackets(t)
      BY <3>1 DEF ToSet
    <3> QED BY <3>2, PacketFields
  <2> QED BY <2>1, <2>2, <2>3 DEF TypeOK
<1> QED BY <1>1, OrderInvHolds, PTL

\* The decoder, one loop nest over the whole tile (opj_pi_create_decode), comes upon
\* the packets in the order of the tile-parts, whose windows
\* opj_pi_create_encode counted through.
THEOREM DecodersOrder == Spec => [](ByLetters(t) => SameOrder)
<1>1. OrderInv => SameOrder
  <2> SUFFICES ASSUME OrderInv PROVE IsPrefix(read, Written)
    BY DEF SameOrder
  <2>1. CASE phase \in {"decode", "done"}
    BY <2>1, ReadIsPrefix
  <2>2. CASE phase \notin {"decode", "done"}
    <3>1. read = <<>>
      BY <2>2 DEF OrderInv, Still, Encoding
    <3>2. Written \in Seq(AllPackets(t))
      BY FlatIsJoint DEF OrderInv, PartsHeld, Written
    <3>3. IsPrefix(<<>>, Written)
      BY <3>2 DEF IsPrefix
    <3> QED BY <3>1, <3>3
  <2> QED BY <2>1, <2>2
<1> QED BY <1>1, OrderInvHolds, PTL

\* Each packet of the tile is written once and read once, whatever the division.
\* A position order needs the steps of the components to be multiples of the least
\* of them: pi->dx and pi->dy, the least, are what its loops advance by.
THEOREM PacketsComplete ==
  Spec => [](ByLetters(t) /\ (ByPosition(t.prg) => StepsAlign(t)) => EveryPacketOnce)
<1>1. OrderInv /\ (ByPosition(t.prg) => StepsAlign(t)) => EveryPacketOnce
  <2> SUFFICES ASSUME OrderInv, ByPosition(t.prg) => StepsAlign(t) PROVE EveryPacketOnce
    OBVIOUS
  <2>1. ASSUME phase = "done"
        PROVE  ToSet(Written) = AllPackets(t) /\ Len(Written) = Cardinality(AllPackets(t)) /\ read = Written
    <3>1. IsTile(t) /\ ByLetters(t) /\ Lists(t.prg, Due, Written) /\ Sound(Due) /\ read = Written
      BY <2>1 DEF OrderInv, Still, Decoding
    <3>2. Due = Fresh(t.prg, All(t, FALSE))
      BY <3>1, BothSides DEF Due
    <3>3. {Packet(v) : v \in Due} = AllPackets(t) /\ Cardinality(Due) = Cardinality(AllPackets(t))
      BY <3>1, <3>2, DueCovers
    <3>4. ToSet(Written) = {Packet(v) : v \in Due} /\ Len(Written) = Cardinality(Due)
      BY <3>1, ListsRange
    <3> QED BY <3>1, <3>3, <3>4
  <2>2. phase = "refused" => /\ TpOn /\ ~ByPosition(t.prg)
                             /\ \E c \in CompNos(t), r \in ResNos(t) : NumPrec(t, c, r) < MaxPrec(t)
    BY DEF OrderInv, Encoding
  <2> QED BY <2>1, <2>2 DEF EveryPacketOnce
<1> QED BY <1>1, OrderInvHolds, PTL

\* The tile-parts are as many as TNsot says, and each holds packets of one
\* resolution, component or layer when tp_flag asks for it.
THEOREM PartsKeepWord == Spec => [](ByLetters(t) => PartsAsAnnounced)
<1>1. OrderInv => PartsAsAnnounced
  <2> SUFFICES ASSUME OrderInv PROVE PartsAsAnnounced
    OBVIOUS
  <2>1. /\ Len(parts) = tp + 1 /\ tp \in -1..(PartCount(t) - 1) /\ tnsot = PartCount(t)
        /\ PartCount(t) \in Nat \ {0}
    BY PartCountIs DEF OrderInv, PartsHeld, Still
  <2>2. phase \in {"decode", "done"} => tp = PartCount(t) - 1
    BY DEF OrderInv, Decoding
  <2>3. TpOn => \A n \in DOMAIN parts : \A p, q \in ToSet(parts[n]) :
                   p[PosOf(t.flag, "LRCP")] = q[PosOf(t.flag, "LRCP")]
    BY DEF OrderInv, PartsHeld
  <2>4. Len(parts) <= tnsot /\ (phase \in {"decode", "done"} => Len(parts) = tnsot)
    BY <2>1, <2>2
  <2> QED BY <2>3, <2>4 DEF PartsAsAnnounced
<1> QED BY <1>1, OrderInvHolds, PTL
=============================================================================
