---------------------------- MODULE FoldTheorems -----------------------------
(* Facts about sums over finite sets, as SumFunctionOnSet of the community  *)
(* module Functions computes them.  That operator folds with a CHOOSE of a  *)
(* recursive function, so everything starts from the existence of such a    *)
(* function, by induction on the number of elements.  The induction is      *)
(* stated over a set of numbers or of sets, never over a predicate: a lemma *)
(* here takes constants only.                                               *)
EXTENDS Integers, FiniteSets, FiniteSetTheorems, Sequences, SequencesExt, SequenceTheorems,
        Functions, WellFoundedInduction, TLAPS

(* Induction over the natural numbers, for a set of them: it holds 0 and the
   successor of each of its members, so it holds all. *)
LEMMA SetInduction ==
  ASSUME NEW P \in SUBSET Nat, 0 \in P, \A n \in Nat : n \in P => n + 1 \in P
  PROVE  \A n \in Nat : n \in P
<1> DEFINE T == Nat \ P
<1> SUFFICES ASSUME T # {} PROVE FALSE
  OBVIOUS
<1>1. PICK m \in T : \A k \in T : ~ (<<k, m>> \in OpToRel(<, Nat))
  BY WFMin, NatLessThanWellFounded
<1>2. m # 0 /\ m - 1 \in Nat /\ m \in Nat
  OBVIOUS
<1>3. m - 1 \in T
  BY <1>2
<1>4. <<m - 1, m>> \in OpToRel(<, Nat)
  BY <1>2 DEF OpToRel
<1> QED
  BY <1>1, <1>3, <1>4

(* One step of the fold: the element it takes, the value it gives to s, and *)
(* the functions that obey that step on every subset of S.                  *)
PickOf(s) == CHOOSE x \in s : TRUE
SumTerm(f, g, s) == IF s = {} THEN 0 ELSE f[PickOf(s)] + g[s \ {PickOf(s)}]
Unfolds(f, S, g) == g = [s \in SUBSET S |-> SumTerm(f, g, s)]

(* The element a fold takes next is one of the set. *)
LEMMA PickIn == ASSUME NEW s, s # {} PROVE PickOf(s) \in s
  BY DEF PickOf

(* The sum of the library is the value at S of a function that unfolds it. *)
LEMMA SumUnfolds ==
  ASSUME NEW f, NEW S
  PROVE SumFunctionOnSet(f, S) = (CHOOSE g : Unfolds(f, S, g))[S]
  BY DEF SumFunctionOnSet, FoldFunctionOnSet, MapThenFoldSet, Unfolds, SumTerm, PickOf

(* A subset of a finite set without one of its elements is smaller by one. *)
LEMMA Smaller1 ==
  ASSUME NEW S, IsFiniteSet(S), NEW s \in SUBSET S, NEW x \in s
  PROVE  /\ s \ {x} \in SUBSET S
         /\ IsFiniteSet(s)
         /\ Cardinality(s) \in Nat /\ Cardinality(s \ {x}) \in Nat
         /\ Cardinality(s \ {x}) = Cardinality(s) - 1
<1>1. IsFiniteSet(s)
  BY FS_Subset
<1> QED BY <1>1, FS_RemoveElement, FS_CardinalityType

(* The recursion of the sum has a solution over every finite set. *)
LEMMA UnfoldingExists ==
  ASSUME NEW f, NEW S, IsFiniteSet(S)
  PROVE  \E g : Unfolds(f, S, g)
<1> DEFINE Upto(g, n) == /\ g = [s \in SUBSET S |-> g[s]]
                         /\ \A s \in SUBSET S : Cardinality(s) <= n => g[s] = SumTerm(f, g, s)
           P == {n \in Nat : \E g : Upto(g, n)}
<1>1. 0 \in P
  <2> DEFINE g == [s \in SUBSET S |-> 0]
  <2>1. \A s \in SUBSET S : Cardinality(s) <= 0 => s = {}
    <3> SUFFICES ASSUME NEW s \in SUBSET S, Cardinality(s) <= 0 PROVE s = {}
      OBVIOUS
    <3>1. IsFiniteSet(s) /\ Cardinality(s) \in Nat
      BY FS_Subset, FS_CardinalityType
    <3> QED BY <3>1, FS_EmptySet
  <2>2. Upto(g, 0)
    BY <2>1 DEF SumTerm
  <2> QED BY <2>2
<1>2. ASSUME NEW n \in Nat, n \in P PROVE n + 1 \in P
  <2>1. PICK g : Upto(g, n)
    BY <1>2
  <2> DEFINE h == [s \in SUBSET S |-> IF Cardinality(s) <= n THEN g[s] ELSE SumTerm(f, g, s)]
  <2>2. h = [s \in SUBSET S |-> h[s]]
    OBVIOUS
  <2>3. ASSUME NEW s \in SUBSET S, Cardinality(s) <= n + 1 PROVE h[s] = SumTerm(f, h, s)
    <3>1. h[s] = SumTerm(f, g, s)
      BY <2>1
    <3>2. CASE s = {}
      BY <3>1, <3>2 DEF SumTerm
    <3>3. CASE s # {}
      <4> DEFINE r == s \ {PickOf(s)}
      <4>1. r \in SUBSET S /\ Cardinality(r) <= n
        BY <2>3, <3>3, PickIn, Smaller1
      <4>2. h[r] = g[r]
        BY <4>1
      <4> HIDE DEF h
      <4> QED BY <3>1, <4>2 DEF SumTerm
    <3> QED BY <3>2, <3>3
  <2> HIDE DEF h
  <2>4. Upto(h, n + 1)
    BY <2>2, <2>3
  <2>5. n + 1 \in Nat
    OBVIOUS
  <2> HIDE DEF Upto
  <2>6. \E k : Upto(k, n + 1)
    BY <2>4
  <2> QED BY <2>5, <2>6
<1>3. Cardinality(S) \in Nat
  BY FS_CardinalityType
<1> HIDE DEF P
<1>4. P \in SUBSET Nat
  BY DEF P
<1>5. Cardinality(S) \in P
  BY <1>1, <1>2, <1>3, <1>4, SetInduction
<1>6. PICK g : Upto(g, Cardinality(S))
  BY <1>5 DEF P
<1>7. \A s \in SUBSET S : g[s] = SumTerm(f, g, s)
  BY <1>6, FS_Subset
<1> QED BY <1>6, <1>7 DEF Unfolds

\* The sums over the subsets of S, as the library chooses them.
Sums(f, S) == CHOOSE g : Unfolds(f, S, g)

(* The chosen solution obeys the recursion: 0 on the empty set, otherwise the
   value of the picked element and the sum of the rest. *)
LEMMA SumsStep ==
  ASSUME NEW f, NEW S, IsFiniteSet(S)
  PROVE  /\ Sums(f, S)[{}] = 0
         /\ \A s \in SUBSET S : s # {} =>
               Sums(f, S)[s] = f[PickOf(s)] + Sums(f, S)[s \ {PickOf(s)}]
<1> DEFINE g == Sums(f, S)
<1>1. Unfolds(f, S, g)
  BY UnfoldingExists DEF Sums
<1> HIDE DEF g
<1>2. \A s \in SUBSET S : g[s] = SumTerm(f, g, s)
  BY <1>1 DEF Unfolds
<1>3. {} \in SUBSET S
  OBVIOUS
<1> QED BY <1>2, <1>3 DEF g, SumTerm

(* Induction over the subsets of a finite set, by their number of elements. *)
LEMMA SubsetInduction ==
  ASSUME NEW S, IsFiniteSet(S), NEW Q \in SUBSET SUBSET S,
         {} \in Q,
         \A s \in SUBSET S : s # {} /\ (\A x \in s : s \ {x} \in Q) => s \in Q
  PROVE  \A s \in SUBSET S : s \in Q
<1> DEFINE P == {n \in Nat : \A s \in SUBSET S : Cardinality(s) = n => s \in Q}
<1>1. P \in SUBSET Nat
  OBVIOUS
<1>2. \A s \in SUBSET S : IsFiniteSet(s) /\ Cardinality(s) \in Nat
  BY FS_Subset, FS_CardinalityType
<1>3. 0 \in P
  BY <1>2, FS_EmptySet
<1>4. ASSUME NEW n \in Nat, n \in P PROVE n + 1 \in P
  <2> SUFFICES ASSUME NEW s \in SUBSET S, Cardinality(s) = n + 1 PROVE s \in Q
    OBVIOUS
  <2>1. s # {}
    BY FS_EmptySet
  <2>2. \A x \in s : s \ {x} \in Q
    BY <1>4, Smaller1
  <2> QED BY <2>1, <2>2
<1> HIDE DEF P
<1>5. \A n \in Nat : n \in P
  BY <1>1, <1>3, <1>4, SetInduction
<1> QED BY <1>2, <1>5 DEF P

(* Partial sums of integers are integers, of natural numbers natural. *)
LEMMA SumsType ==
  ASSUME NEW f, NEW S, IsFiniteSet(S), NEW V \in {Int, Nat}, \A x \in S : f[x] \in V
  PROVE  \A s \in SUBSET S : Sums(f, S)[s] \in V
<1> DEFINE g == Sums(f, S)
           Q == {s \in SUBSET S : g[s] \in V}
<1>1. {} \in Q
  BY SumsStep
<1>2. ASSUME NEW s \in SUBSET S, s # {}, \A x \in s : s \ {x} \in Q PROVE s \in Q
  <2>1. s # {}
    BY <1>2
  <2>2. PickOf(s) \in s
    BY <2>1, PickIn
  <2>3. g[s] = f[PickOf(s)] + g[s \ {PickOf(s)}]
    BY <2>1, SumsStep
  <2> HIDE DEF g
  <2>4. f[PickOf(s)] \in V /\ g[s \ {PickOf(s)}] \in V
    BY <1>2, <2>2
  <2> QED BY <2>3, <2>4
<1> HIDE DEF Q, g
<1>3. Q \in SUBSET SUBSET S
  BY DEF Q
<1>4. \A s \in SUBSET S : s \in Q
  BY <1>1, <1>2, <1>3, SubsetInduction
<1> QED BY <1>4 DEF Q, g

(* Any element may be taken out first, not only the one the fold picks. *)
LEMMA SumsAny ==
  ASSUME NEW f, NEW S, IsFiniteSet(S), \A x \in S : f[x] \in Int
  PROVE  \A s \in SUBSET S : \A x \in s : Sums(f, S)[s] = f[x] + Sums(f, S)[s \ {x}]
<1> DEFINE g == Sums(f, S)
           Q == {s \in SUBSET S : \A x \in s : g[s] = f[x] + g[s \ {x}]}
<1>1. {} \in Q
  OBVIOUS
<1>0. \A s \in SUBSET S : g[s] \in Int
  BY SumsType
<1>2. ASSUME NEW s \in SUBSET S, s # {}, \A x \in s : s \ {x} \in Q PROVE s \in Q
  <2> SUFFICES ASSUME NEW x \in s PROVE g[s] = f[x] + g[s \ {x}]
    OBVIOUS
  <2> DEFINE c == PickOf(s)
             rest == g[(s \ {c}) \ {x}]
  <2>0. s # {}
    BY <1>2
  <2>1. g[s] = f[c] + g[s \ {c}] /\ c \in s
    BY <2>0, SumsStep, PickIn
  <2> HIDE DEF c, g
  <2>2. CASE x = c
    BY <2>1, <2>2
  <2>3. CASE x # c
    <3>1. x \in s \ {c} /\ c \in s \ {x}
      BY <2>1, <2>3
    <3>2. g[s \ {c}] = f[x] + g[(s \ {c}) \ {x}]
      BY <1>2, <2>1, <3>1
    <3>3. g[s \ {x}] = f[c] + g[(s \ {x}) \ {c}]
      BY <1>2, <3>1
    <3>4. (s \ {x}) \ {c} = (s \ {c}) \ {x}
      OBVIOUS
    <3>5. f[x] \in Int /\ f[c] \in Int /\ rest \in Int
      BY <1>0, <2>1
    <3>6. g[s] = f[c] + (f[x] + rest) /\ g[s \ {x}] = f[c] + rest
      BY <2>1, <3>2, <3>3, <3>4, Zenon
    <3> HIDE DEF rest
    <3> QED BY <3>5, <3>6
  <2> QED BY <2>2, <2>3
<1> HIDE DEF Q, g
<1>3. Q \in SUBSET SUBSET S
  BY DEF Q
<1>4. \A s \in SUBSET S : s \in Q
  BY <1>1, <1>2, <1>3, SubsetInduction
<1> QED BY <1>4 DEF Q, g

(* Partial sums of functions that agree on S agree on the subsets of S. *)
LEMMA SumsAgree ==
  ASSUME NEW f, NEW S, IsFiniteSet(S), NEW h, NEW T, IsFiniteSet(T), \A x \in S : f[x] = h[x]
  PROVE  \A s \in SUBSET S : s \in SUBSET T => Sums(f, S)[s] = Sums(h, T)[s]
<1> DEFINE Q == {s \in SUBSET S : s \in SUBSET T => Sums(f, S)[s] = Sums(h, T)[s]}
<1>1. {} \in Q
  BY SumsStep
<1>2. ASSUME NEW s \in SUBSET S, s # {}, \A x \in s : s \ {x} \in Q PROVE s \in Q
  <2> SUFFICES ASSUME s \in SUBSET T PROVE Sums(f, S)[s] = Sums(h, T)[s]
    OBVIOUS
  <2> DEFINE c == PickOf(s)
  <2>1. /\ Sums(f, S)[s] = f[c] + Sums(f, S)[s \ {c}] /\ c \in s
        /\ Sums(h, T)[s] = h[c] + Sums(h, T)[s \ {c}]
    BY <1>2, SumsStep, PickIn
  <2> HIDE DEF c
  <2>2. Sums(f, S)[s \ {c}] = Sums(h, T)[s \ {c}]
    BY <1>2, <2>1
  <2>3. f[c] = h[c]
    BY <2>1
  <2> QED BY <2>1, <2>2, <2>3
<1> HIDE DEF Q
<1>3. Q \in SUBSET SUBSET S
  BY DEF Q
<1>4. \A s \in SUBSET S : s \in Q
  BY <1>1, <1>2, <1>3, SubsetInduction
<1> QED BY <1>4 DEF Q

-----------------------------------------------------------------------------
(* What the sum of a finite function over a set is.                        *)

(* The sum is the partial sum over the whole set. *)
LEMMA SumIs ==
  ASSUME NEW f, NEW S
  PROVE  SumFunctionOnSet(f, S) = Sums(f, S)[S]
  BY SumUnfolds DEF Sums

(* The sum over the empty set is 0. *)
LEMMA SumEmpty == ASSUME NEW f PROVE SumFunctionOnSet(f, {}) = 0
  BY SumIs, SumsStep, FS_EmptySet

(* A sum of integers is an integer, of natural numbers a natural number. *)
LEMMA SumType ==
  ASSUME NEW f, NEW S, IsFiniteSet(S), NEW V \in {Int, Nat}, \A x \in S : f[x] \in V
  PROVE  SumFunctionOnSet(f, S) \in V
  BY SumIs, SumsType

(* Functions that agree on S have the same sum over S. *)
LEMMA SumAgree ==
  ASSUME NEW f, NEW h, NEW S, IsFiniteSet(S), \A x \in S : f[x] = h[x]
  PROVE  SumFunctionOnSet(f, S) = SumFunctionOnSet(h, S)
  BY SumIs, SumsAgree

(* A sum is the value of any one element and the sum of the others. *)
LEMMA SumRemove ==
  ASSUME NEW f, NEW S, IsFiniteSet(S), \A x \in S : f[x] \in Int, NEW x \in S
  PROVE  SumFunctionOnSet(f, S) = f[x] + SumFunctionOnSet(f, S \ {x})
<1> DEFINE T == S \ {x}
<1>1. IsFiniteSet(T) /\ T \in SUBSET S
  BY FS_RemoveElement
<1>2. Sums(f, S)[T] = Sums(f, T)[T]
  BY <1>1, SumsAgree
<1>3. Sums(f, S)[S] = f[x] + Sums(f, S)[T]
  BY SumsAny
<1> QED BY <1>2, <1>3, SumIs

(* The sum over a disjoint union is the sum of the two sums. *)
LEMMA SumUnion ==
  ASSUME NEW f, NEW S, IsFiniteSet(S), NEW T, IsFiniteSet(T), S \cap T = {},
         \A x \in S \cup T : f[x] \in Int
  PROVE  SumFunctionOnSet(f, S \cup T) = SumFunctionOnSet(f, S) + SumFunctionOnSet(f, T)
<1> DEFINE sum(s) == SumFunctionOnSet(f, s)
           Q == {s \in SUBSET S : sum(s \cup T) = sum(s) + sum(T)}
<1>1. \A s \in SUBSET S : IsFiniteSet(s) /\ IsFiniteSet(s \cup T)
  BY FS_Subset, FS_Union
<1>2. \A s \in SUBSET S : sum(s) \in Int /\ sum(T) \in Int /\ sum(s \cup T) \in Int
  BY <1>1, SumType
<1>3. {} \in Q
  <2>1. sum({}) = 0 /\ {} \cup T = T
    BY SumEmpty
  <2> HIDE DEF sum
  <2> QED BY <1>2, <2>1
<1>4. ASSUME NEW s \in SUBSET S, s # {}, \A x \in s : s \ {x} \in Q PROVE s \in Q
  <2>1. PICK x \in s : TRUE
    BY <1>4
  <2> DEFINE r == s \ {x}
  <2>2. f[x] \in Int /\ r \in SUBSET S /\ x \in s \cup T
    OBVIOUS
  <2>3. (s \cup T) \ {x} = r \cup T
    BY <2>2
  <2>0. IsFiniteSet(s) /\ IsFiniteSet(s \cup T) /\ \A y \in s : f[y] \in Int
    BY <1>1
  <2>4. sum(s) = f[x] + sum(r)
    BY <2>0, SumRemove
  <2> DEFINE u == s \cup T
  <2>9. \A y \in u : f[y] \in Int
    OBVIOUS
  <2>5. sum(u) = f[x] + sum(u \ {x})
    <3>1. IsFiniteSet(u) /\ x \in u
      BY <2>0, <2>2
    <3> HIDE DEF u
    <3> QED BY <2>9, <3>1, SumRemove
  <2>6. sum(r \cup T) = sum(r) + sum(T)
    BY <1>4
  <2> HIDE DEF sum, r
  <2>7. sum(s \cup T) = f[x] + (sum(r) + sum(T))
    BY <2>3, <2>5, <2>6
  <2>8. sum(r) \in Int /\ sum(T) \in Int
    BY <1>2, <2>2
  <2> QED BY <2>2, <2>4, <2>7, <2>8
<1> HIDE DEF Q
<1>5. Q \in SUBSET SUBSET S
  BY DEF Q
<1>6. S \in Q
  BY <1>3, <1>4, <1>5, SubsetInduction
<1> QED BY <1>6 DEF Q

\* A part of a sum of natural numbers, and the sum without that part.
LEMMA SumPart ==
  ASSUME NEW f, NEW S, IsFiniteSet(S), NEW T \in SUBSET S,
         \A x \in S : f[x] \in Nat
  PROVE  /\ SumFunctionOnSet(f, T) \in Nat
         /\ SumFunctionOnSet(f, S \ T) \in Nat
         /\ SumFunctionOnSet(f, S) =
               SumFunctionOnSet(f, T) + SumFunctionOnSet(f, S \ T)
<1>1. IsFiniteSet(T) /\ IsFiniteSet(S \ T) /\ T \cup (S \ T) = S /\ T \cap (S \ T) = {}
  BY FS_Subset
<1>2. SumFunctionOnSet(f, T) \in Nat /\ SumFunctionOnSet(f, S \ T) \in Nat
  BY <1>1, SumType
<1>3. SumFunctionOnSet(f, S) = SumFunctionOnSet(f, T) + SumFunctionOnSet(f, S \ T)
  <2>1. \A x \in T \cup (S \ T) : f[x] \in Int
    OBVIOUS
  <2> QED BY <1>1, <2>1, SumUnion
<1> QED BY <1>2, <1>3

(* A sum of zeros is 0. *)
LEMMA SumOfNothing ==
  ASSUME NEW f, NEW S, IsFiniteSet(S), \A x \in S : f[x] = 0
  PROVE  SumFunctionOnSet(f, S) = 0
<1> DEFINE Q == {s \in SUBSET S : SumFunctionOnSet(f, s) = 0}
<1>1. {} \in Q
  BY SumEmpty
<1>2. ASSUME NEW s \in SUBSET S, s # {}, \A x \in s : s \ {x} \in Q PROVE s \in Q
  <2>1. PICK x \in s : TRUE
    BY <1>2
  <2>2. SumFunctionOnSet(f, s) = f[x] + SumFunctionOnSet(f, s \ {x})
    <3>1. IsFiniteSet(s) /\ \A y \in s : f[y] \in Int
      BY FS_Subset
    <3> QED BY <3>1, SumRemove
  <2>3. SumFunctionOnSet(f, s \ {x}) = 0 /\ f[x] = 0
    BY <1>2
  <2> QED BY <2>2, <2>3
<1> HIDE DEF Q
<1>3. Q \in SUBSET SUBSET S
  BY DEF Q
<1>4. S \in Q
  BY <1>1, <1>2, <1>3, SubsetInduction
<1> QED BY <1>4 DEF Q

(* Changing one value changes the sum by the difference. *)
LEMMA SumExcept ==
  ASSUME NEW f, NEW h, NEW S, IsFiniteSet(S), NEW x \in S,
         \A y \in S : f[y] \in Int /\ h[y] \in Int,
         \A y \in S \ {x} : f[y] = h[y]
  PROVE  SumFunctionOnSet(h, S) = SumFunctionOnSet(f, S) - f[x] + h[x]
<1> DEFINE T == S \ {x}
<1>1. IsFiniteSet(T)
  BY FS_RemoveElement
<1>2. SumFunctionOnSet(f, T) = SumFunctionOnSet(h, T) /\ SumFunctionOnSet(f, T) \in Int
  BY <1>1, SumAgree, SumType
<1>3. /\ SumFunctionOnSet(f, S) = f[x] + SumFunctionOnSet(f, T)
      /\ SumFunctionOnSet(h, S) = h[x] + SumFunctionOnSet(h, T)
  BY SumRemove
<1> HIDE DEF T
<1> QED BY <1>2, <1>3

(* The same for functions known by their domain, with the conclusions      *)
(* named: a step cites the name first, the equation second.                *)
SplitsAt(f, S, T) ==
    /\ SumFunctionOnSet(f, T) \in Nat /\ SumFunctionOnSet(f, S \ T) \in Nat
    /\ SumFunctionOnSet(f, S) =
          SumFunctionOnSet(f, T) + SumFunctionOnSet(f, S \ T)

(* A sum of natural numbers is that of a part and that of the rest. *)
LEMMA SumSplit ==
  ASSUME NEW D, NEW f \in [D -> Nat], NEW S \in SUBSET D, IsFiniteSet(S),
         NEW T \in SUBSET S
  PROVE  SplitsAt(f, S, T)
<1>1. PICK g : g = f
  OBVIOUS
<1>2. \A x \in S : g[x] \in Nat
  BY <1>1
<1>3. SumFunctionOnSet(g, T) \in Nat /\ SumFunctionOnSet(g, S \ T) \in Nat
  BY <1>2, SumPart, Zenon
<1>4. SumFunctionOnSet(g, S) =
         SumFunctionOnSet(g, T) + SumFunctionOnSet(g, S \ T)
  BY <1>2, SumPart, SMT
<1>5. QED BY <1>1, <1>3, <1>4, Zenon DEF SplitsAt

UpdatesAt(f, D, x, n) ==
    SumFunctionOnSet([f EXCEPT ![x] = n], D) = SumFunctionOnSet(f, D) - f[x] + n

(* Writing one entry of a function changes its sum by the difference. *)
LEMMA SumUpdate ==
  ASSUME NEW D, IsFiniteSet(D), NEW f \in [D -> Nat], NEW x \in D, NEW n \in Nat
  PROVE  UpdatesAt(f, D, x, n)
<1>1. PICK g, h : g = f /\ h = [f EXCEPT ![x] = n]
  OBVIOUS
<1>2. /\ \A y \in D : g[y] \in Int /\ h[y] \in Int
      /\ \A y \in D \ {x} : g[y] = h[y]
      /\ h[x] = n
  BY <1>1
<1>3. SumFunctionOnSet(h, D) = SumFunctionOnSet(g, D) - g[x] + h[x]
  BY <1>2, SumExcept, SMT
<1>4. SumFunctionOnSet(h, D) = SumFunctionOnSet(g, D) - g[x] + n
  BY <1>2, <1>3, Zenon
<1>5. QED BY <1>1, <1>4, Zenon DEF UpdatesAt

-----------------------------------------------------------------------------
(* FlattenSeq of the community module SequencesExt.                        *)

\* Concatenating the sequences of a sequence, one after the other.
FlatTerm(seqs, g, i) == IF i = 1 THEN seqs[i] ELSE g[i - 1] \o seqs[i]
Flattens(seqs, g) == g = [i \in 1..Len(seqs) |-> FlatTerm(seqs, g, i)]
Flat(seqs) == CHOOSE g : Flattens(seqs, g)

(* The recursion of FlattenSeq has a solution. *)
LEMMA FlatExists ==
  ASSUME NEW seqs, Len(seqs) \in Nat
  PROVE  \E g : Flattens(seqs, g)
<1> DEFINE N == Len(seqs)
           Upto(g, n) == /\ g = [i \in 1..N |-> g[i]]
                         /\ \A i \in 1..N : i <= n => g[i] = FlatTerm(seqs, g, i)
           P == {n \in Nat : \E g : Upto(g, n)}
<1> HIDE DEF N
<1>0. N \in Nat
  BY DEF N
<1>1. 0 \in P
  <2> DEFINE g == [i \in 1..N |-> 0]
  <2>1. Upto(g, 0)
    OBVIOUS
  <2> QED BY <2>1
<1>2. ASSUME NEW n \in Nat, n \in P PROVE n + 1 \in P
  <2>1. PICK g : Upto(g, n)
    BY <1>2
  <2> DEFINE h == [i \in 1..N |-> IF i <= n THEN g[i] ELSE FlatTerm(seqs, g, i)]
  <2>2. h = [i \in 1..N |-> h[i]]
    OBVIOUS
  <2>3. ASSUME NEW i \in 1..N, i <= n + 1 PROVE h[i] = FlatTerm(seqs, h, i)
    <3>1. h[i] = FlatTerm(seqs, g, i)
      BY <2>1
    <3>2. CASE i = 1
      BY <3>1, <3>2 DEF FlatTerm
    <3>3. CASE i # 1
      <4>1. i - 1 \in 1..N /\ i - 1 <= n
        BY <1>0, <2>3, <3>3
      <4>2. h[i - 1] = g[i - 1]
        BY <4>1
      <4> HIDE DEF h
      <4> QED BY <3>1, <3>3, <4>2 DEF FlatTerm
    <3> QED BY <3>2, <3>3
  <2> HIDE DEF h
  <2>4. Upto(h, n + 1)
    BY <2>2, <2>3
  <2> HIDE DEF Upto
  <2>5. \E k : Upto(k, n + 1)
    BY <2>4
  <2> QED BY <2>5
<1> HIDE DEF P
<1>3. N \in P
  <2>1. P \in SUBSET Nat
    BY DEF P
  <2> QED BY <1>0, <1>1, <1>2, <2>1, SetInduction
<1>4. PICK g : Upto(g, N)
  BY <1>3 DEF P
<1>5. g = [i \in 1..N |-> FlatTerm(seqs, g, i)]
  <2>1. \A i \in 1..N : g[i] = FlatTerm(seqs, g, i)
    BY <1>0, <1>4
  <2> QED BY <1>4, <2>1, Zenon
<1> QED BY <1>5 DEF Flattens, N

(* What the recursion of FlattenSeq computes, and that it is FlattenSeq.   *)
LEMMA FlatStep ==
  ASSUME NEW seqs, Len(seqs) \in Nat
  PROVE  /\ \A i \in 1..Len(seqs) : Flat(seqs)[i] = FlatTerm(seqs, Flat(seqs), i)
         /\ FlattenSeq(seqs) = IF Len(seqs) = 0 THEN seqs ELSE Flat(seqs)[Len(seqs)]
<1> DEFINE g == Flat(seqs)
<1>1. Flattens(seqs, g)
  BY FlatExists DEF Flat
<1>2. FlattenSeq(seqs) = IF Len(seqs) = 0 THEN seqs ELSE Flat(seqs)[Len(seqs)]
  BY DEF FlattenSeq, Flat, Flattens, FlatTerm
<1> HIDE DEF g
<1>3. \A i \in 1..Len(seqs) : g[i] = FlatTerm(seqs, g, i)
  BY <1>1 DEF Flattens
<1> QED BY <1>2, <1>3 DEF g

(* The concatenation of the first sequences is a sequence of their type.   *)
LEMMA FlatIn ==
  ASSUME NEW T, NEW seqs, Len(seqs) \in Nat, \A i \in 1..Len(seqs) : seqs[i] \in Seq(T)
  PROVE  \A i \in 1..Len(seqs) : Flat(seqs)[i] \in Seq(T)
<1> DEFINE g == Flat(seqs)
           N == Len(seqs)
           P == {n \in Nat : n \in 1..N => g[n] \in Seq(T)}
<1>1. \A i \in 1..N : g[i] = FlatTerm(seqs, g, i)
  BY FlatStep
<1> HIDE DEF g
<1>2. 0 \in P
  OBVIOUS
<1>3. ASSUME NEW n \in Nat, n \in P PROVE n + 1 \in P
  <2> SUFFICES ASSUME n + 1 \in 1..N PROVE g[n + 1] \in Seq(T)
    OBVIOUS
  <2>1. g[n + 1] = FlatTerm(seqs, g, n + 1)
    BY <1>1
  <2>2. CASE n = 0
    BY <2>1, <2>2 DEF FlatTerm
  <2>3. CASE n # 0
    <3>1. n \in 1..N /\ (n + 1) - 1 = n /\ n + 1 # 1
      BY <2>3
    <3>2. g[n] \in Seq(T) /\ seqs[n + 1] \in Seq(T)
      BY <1>3, <3>1
    <3>3. g[n + 1] = g[n] \o seqs[n + 1]
      BY <2>1, <3>1 DEF FlatTerm
    <3> QED BY <3>2, <3>3, ConcatProperties
  <2> QED BY <2>2, <2>3
<1> HIDE DEF P
<1>4. P \in SUBSET Nat
  BY DEF P
<1>5. \A n \in Nat : n \in P
  BY <1>2, <1>3, <1>4, SetInduction
<1> QED BY <1>5 DEF P, g

(* A concatenation of sequences over T is one.                            *)
LEMMA FlattenIn ==
  ASSUME NEW T, NEW seqs \in Seq(Seq(T))
  PROVE  FlattenSeq(seqs) \in Seq(T)
<1>1. Len(seqs) \in Nat /\ \A i \in 1..Len(seqs) : seqs[i] \in Seq(T)
  OBVIOUS
<1>2. CASE Len(seqs) = 0
  <2>1. seqs = <<>>
    BY <1>2
  <2>2. FlattenSeq(seqs) = seqs
    BY <1>1, <1>2, FlatStep
  <2>3. <<>> \in Seq(T)
    OBVIOUS
  <2> QED BY <2>1, <2>2, <2>3, Zenon
<1>3. CASE Len(seqs) # 0
  <2>1. Len(seqs) \in 1..Len(seqs)
    BY <1>1, <1>3
  <2>2. FlattenSeq(seqs) = Flat(seqs)[Len(seqs)]
    BY <1>1, <1>3, FlatStep
  <2> QED BY <1>1, <2>1, <2>2, FlatIn
<1> QED BY <1>2, <1>3

-----------------------------------------------------------------------------
(* A set of natural numbers has a least member.                            *)
LEMMA LeastOf ==
  ASSUME NEW S \in SUBSET Nat, S # {}
  PROVE  \E u \in S : \A v \in S : u <= v
<1>1. PICK m \in S : \A k \in S : ~ (<<k, m>> \in OpToRel(<, Nat))
  BY WFMin, NatLessThanWellFounded
<1>2. \A k \in S : ~ (k < m)
  BY <1>1 DEF OpToRel
<1> QED BY <1>2
-----------------------------------------------------------------------------
(* The concatenation of the first n sequences of f, and where the elements  *)
(* of each of them stand in it.                                             *)
Joint(f, n) == FlattenSeq([k \in 1..n |-> f[k]])

\* The concatenation of the first sequences does not depend on those behind them.
LEMMA FlatAgree ==
  ASSUME NEW n \in Nat, NEW a, Len(a) \in Nat, NEW b, Len(b) \in Nat, n <= Len(a), n <= Len(b),
         \A i \in 1..n : a[i] = b[i]
  PROVE  \A i \in 1..n : Flat(a)[i] = Flat(b)[i]
<1> DEFINE P == {i \in Nat : i \in 1..n => Flat(a)[i] = Flat(b)[i]}
<1>1. 0 \in P
  OBVIOUS
<1>2. ASSUME NEW i \in Nat, i \in P PROVE i + 1 \in P
  <2> SUFFICES ASSUME i + 1 \in 1..n PROVE Flat(a)[i + 1] = Flat(b)[i + 1]
    OBVIOUS
  <2>1. i + 1 \in 1..Len(a) /\ i + 1 \in 1..Len(b)
    OBVIOUS
  <2>2. Flat(a)[i + 1] = FlatTerm(a, Flat(a), i + 1) /\ Flat(b)[i + 1] = FlatTerm(b, Flat(b), i + 1)
    BY <2>1, FlatStep
  <2>3. a[i + 1] = b[i + 1]
    OBVIOUS
  <2>4. CASE i = 0
    BY <2>2, <2>3, <2>4 DEF FlatTerm
  <2>5. CASE i # 0
    <3>1. i \in 1..n /\ (i + 1) - 1 = i /\ i + 1 # 1
      BY <2>5
    <3>2. Flat(a)[i] = Flat(b)[i]
      BY <1>2, <3>1
    <3> QED BY <2>2, <2>3, <3>1, <3>2 DEF FlatTerm
  <2> QED BY <2>4, <2>5
<1> HIDE DEF P
<1>3. P \in SUBSET Nat
  BY DEF P
<1>4. \A i \in Nat : i \in P
  BY <1>1, <1>2, <1>3, SetInduction
<1> QED BY <1>4 DEF P

\* Joining one sequence more appends it.
LEMMA JointStep ==
  ASSUME NEW T, NEW n \in Nat, NEW f, \A k \in 1..(n + 1) : f[k] \in Seq(T)
  PROVE  /\ Joint(f, 0) = <<>>
         /\ Joint(f, n) \in Seq(T)
         /\ Joint(f, n + 1) = Joint(f, n) \o f[n + 1]
<1> DEFINE a == [k \in 1..n |-> f[k]]
           b == [k \in 1..(n + 1) |-> f[k]]
<1>1. /\ Len(a) = n /\ Len(b) = n + 1
      /\ \A k \in 1..n : a[k] = f[k] /\ b[k] = f[k]
      /\ b[n + 1] = f[n + 1]
      /\ a \in Seq(Seq(T))
  OBVIOUS
<1>2. Joint(f, 0) = <<>>
  <2> DEFINE e == [k \in 1..0 |-> f[k]]
  <2>1. e = <<>> /\ Len(e) = 0
    OBVIOUS
  <2>2. FlattenSeq(e) = e
    BY <2>1, FlatStep
  <2> QED BY <2>1, <2>2 DEF Joint
<1>3. Joint(f, n) = FlattenSeq(a) /\ Joint(f, n + 1) = FlattenSeq(b)
  BY DEF Joint
<1> HIDE DEF a, b
<1>4. Joint(f, n) \in Seq(T)
  BY <1>1, <1>3, FlattenIn
<1>5. /\ FlattenSeq(a) = IF n = 0 THEN a ELSE Flat(a)[n]
      /\ FlattenSeq(b) = Flat(b)[n + 1]
      /\ Flat(b)[n + 1] = FlatTerm(b, Flat(b), n + 1)
  <2>1. Len(a) \in Nat /\ Len(b) \in Nat /\ n + 1 # 0 /\ n + 1 \in 1..Len(b)
    BY <1>1
  <2>2. FlattenSeq(a) = IF Len(a) = 0 THEN a ELSE Flat(a)[Len(a)]
    BY <2>1, FlatStep
  <2>3. /\ FlattenSeq(b) = IF Len(b) = 0 THEN b ELSE Flat(b)[Len(b)]
        /\ Flat(b)[n + 1] = FlatTerm(b, Flat(b), n + 1)
    BY <2>1, FlatStep
  <2> QED BY <1>1, <2>1, <2>2, <2>3, Zenon
<1>6. CASE n = 0
  <2>1. FlattenSeq(b) = f[1]
    BY <1>1, <1>5, <1>6 DEF FlatTerm
  <2>2. FlattenSeq(a) = <<>>
    BY <1>1, <1>5, <1>6
  <2>3. f[1] \in Seq(T) /\ <<>> \o f[1] = f[1]
    BY <1>6, ConcatEmptySeq
  <2> QED BY <1>2, <1>3, <1>4, <1>6, <2>1, <2>2, <2>3
<1>7. CASE n # 0
  <2>0. n \in 1..n /\ n \in Nat /\ n <= Len(a) /\ n <= Len(b) /\ (n + 1) - 1 = n /\ n + 1 # 1
        /\ Len(a) \in Nat /\ Len(b) \in Nat
    BY <1>1, <1>7
  <2>1. Flat(a)[n] = Flat(b)[n]
    <3>1. \A i \in 1..n : a[i] = b[i]
      BY <1>1
    <3>2. \A i \in 1..n : Flat(a)[i] = Flat(b)[i]
      BY <2>0, <3>1, FlatAgree
    <3> QED BY <2>0, <3>2
  <2>2. FlattenSeq(b) = Flat(b)[n] \o f[n + 1]
    BY <1>1, <1>5, <2>0 DEF FlatTerm
  <2>3. FlattenSeq(a) = Flat(a)[n]
    BY <1>5, <1>7
  <2> QED BY <1>2, <1>3, <1>4, <2>1, <2>2, <2>3, Zenon
<1> QED BY <1>6, <1>7

\* Sequences all of whose elements are in T.
Sequences(f, T, N) == \A k \in 1..N : f[k] \in Seq(T)

\* In the first n sequences joined, the elements of f[i] stand behind the i - 1 before it.
JointPlace(f, n) ==
  /\ \A i \in 1..n : \A j \in 1..Len(f[i]) :
        /\ Len(Joint(f, i - 1)) + j \in 1..Len(Joint(f, n))
        /\ Joint(f, n)[Len(Joint(f, i - 1)) + j] = f[i][j]
  /\ \A m \in 1..Len(Joint(f, n)) : \E i \in 1..n : \E j \in 1..Len(f[i]) : m = Len(Joint(f, i - 1)) + j

LEMMA JointAt ==
  ASSUME NEW T, NEW f, NEW N \in Nat, Sequences(f, T, N)
  PROVE  \A n \in 0..N : JointPlace(f, n)
<1> DEFINE P == {n \in Nat : n <= N => JointPlace(f, n)}
           J(n) == Joint(f, n)
<1>1. 0 \in P
  <2>1. Joint(f, 0) = <<>> /\ Len(<<>>) = 0 /\ 1..0 = {}
    <3>1. \A k \in 1..(0 + 1) : [x \in {1} |-> <<>>][k] \in Seq(T)
      OBVIOUS
    <3>2. [k \in 1..0 |-> f[k]] = <<>>
      OBVIOUS
    <3>3. FlattenSeq(<<>>) = <<>>
      BY FlatStep
    <3> QED BY <3>2, <3>3 DEF Joint
  <2> QED BY <2>1 DEF JointPlace
<1>2. ASSUME NEW n \in Nat, n \in P PROVE n + 1 \in P
  <2> SUFFICES ASSUME n + 1 <= N PROVE JointPlace(f, n + 1)
    OBVIOUS
  <2>1. JointPlace(f, n)
    BY <1>2
  <2>2. \A k \in 1..(n + 1) : f[k] \in Seq(T)
    BY DEF Sequences
  <2>3. J(n) \in Seq(T) /\ J(n + 1) = J(n) \o f[n + 1] /\ f[n + 1] \in Seq(T)
    BY <2>2, JointStep
  <2> DEFINE a == J(n)
             b == f[n + 1]
             c == J(n + 1)
  <2>4. /\ a \in Seq(T) /\ b \in Seq(T) /\ c = a \o b /\ Len(a) \in Nat /\ Len(b) \in Nat
        /\ Len(c) = Len(a) + Len(b)
        /\ \A m \in 1..Len(a) : c[m] = a[m]
        /\ \A j \in 1..Len(b) : c[Len(a) + j] = b[j]
    <3> HIDE DEF a, b, c
    <3>1. a \in Seq(T) /\ b \in Seq(T) /\ c = a \o b
      BY <2>3 DEF a, b, c
    <3> QED BY <3>1
  <2>5. ASSUME NEW i \in 1..(n + 1), NEW j \in 1..Len(f[i])
        PROVE  Len(J(i - 1)) + j \in 1..Len(c) /\ c[Len(J(i - 1)) + j] = f[i][j]
    <3>1. CASE i = n + 1
      <4>1. J(i - 1) = a /\ f[i] = b
        BY <3>1
      <4> HIDE DEF a, b, c, J
      <4>2. j \in 1..Len(b)
        BY <4>1
      <4> QED BY <2>4, <4>1, <4>2
    <3>2. CASE i # n + 1
      <4>1. i \in 1..n
        BY <3>2
      <4>2. Len(J(i - 1)) + j \in 1..Len(a) /\ a[Len(J(i - 1)) + j] = f[i][j]
        BY <2>1, <4>1 DEF JointPlace
      <4> HIDE DEF a, b, c, J
      <4> QED BY <2>4, <4>2
    <3> QED BY <3>1, <3>2
  <2>6. ASSUME NEW m \in 1..Len(c)
        PROVE  \E i \in 1..(n + 1) : \E j \in 1..Len(f[i]) : m = Len(J(i - 1)) + j
    <3>1. CASE m <= Len(a)
      <4>1. m \in 1..Len(a)
        BY <2>4, <3>1
      <4>2. PICK i \in 1..n : \E j \in 1..Len(f[i]) : m = Len(J(i - 1)) + j
        BY <2>1, <4>1 DEF JointPlace
      <4>3. i \in 1..(n + 1)
        OBVIOUS
      <4> QED BY <4>2, <4>3
    <3>2. CASE m > Len(a)
      <4> DEFINE j == m - Len(a)
      <4>1. j \in 1..Len(b) /\ m = Len(a) + j
        <5> HIDE DEF a, b, c
        <5> QED BY <2>4, <3>2
      <4>2. n + 1 \in 1..(n + 1) /\ f[n + 1] = b /\ J((n + 1) - 1) = a
        OBVIOUS
      <4> HIDE DEF a, b, c, j, J
      <4> QED BY <4>1, <4>2
    <3> QED BY <2>4, <3>1, <3>2
  <2> QED BY <2>5, <2>6 DEF JointPlace
<1> HIDE DEF P
<1>3. P \in SUBSET Nat
  BY DEF P
<1>4. \A n \in Nat : n \in P
  BY <1>1, <1>2, <1>3, SetInduction
<1> QED BY <1>4 DEF P

\* What was joined first is a prefix of all.
LEMMA JointPrefix ==
  ASSUME NEW T, NEW f, NEW N \in Nat, Sequences(f, T, N), NEW n \in 0..N
  PROVE  IsPrefix(Joint(f, n), Joint(f, N))
<1> DEFINE J(m) == Joint(f, m)
           P == {m \in Nat : m \in n..N => \E w \in Seq(T) : J(m) = J(n) \o w}
<1>0. \A m \in 0..N : J(m) \in Seq(T)
  <2> SUFFICES ASSUME NEW m \in 0..N PROVE J(m) \in Seq(T)
    OBVIOUS
  <2> DEFINE a == [k \in 1..m |-> f[k]]
  <2>1. a \in Seq(Seq(T))
    BY DEF Sequences
  <2> QED BY <2>1, FlattenIn DEF Joint
<1>1. 0 \in P
  <2>1. CASE n = 0
    <3>1. J(0) \in Seq(T) /\ <<>> \in Seq(T)
      BY <1>0
    <3>2. J(0) = J(0) \o <<>>
      BY <3>1, ConcatEmptySeq
    <3> QED BY <2>1, <3>1, <3>2
  <2> QED BY <2>1
<1>2. ASSUME NEW m \in Nat, m \in P PROVE m + 1 \in P
  <2> SUFFICES ASSUME m + 1 \in n..N PROVE \E w \in Seq(T) : J(m + 1) = J(n) \o w
    OBVIOUS
  <2>1. CASE m + 1 = n
    <3>1. J(n) \in Seq(T) /\ <<>> \in Seq(T)
      BY <1>0
    <3>2. J(n) = J(n) \o <<>>
      BY <3>1, ConcatEmptySeq
    <3> QED BY <2>1, <3>1, <3>2
  <2>2. CASE m + 1 # n
    <3>1. PICK w \in Seq(T) : J(m) = J(n) \o w
      BY <1>2, <2>2
    <3>2. J(m + 1) = J(m) \o f[m + 1] /\ f[m + 1] \in Seq(T)
      <4>1. \A k \in 1..(m + 1) : f[k] \in Seq(T)
        BY DEF Sequences
      <4> QED BY <4>1, JointStep
    <3>3. J(n) \in Seq(T)
      BY <1>0
    <3> DEFINE v == w \o f[m + 1]
    <3> DEFINE a == J(n)
               c == f[m + 1]
    <3>4. a \in Seq(T) /\ c \in Seq(T) /\ J(m + 1) = (a \o w) \o c
      BY <3>1, <3>2, <3>3
    <3> HIDE DEF a, c, J
    <3>5. (a \o w) \o c = a \o (w \o c) /\ w \o c \in Seq(T)
      BY <3>4, ConcatAssociative, ConcatProperties
    <3>6. J(m + 1) = a \o v
      BY <3>4, <3>5, Zenon DEF c
    <3>7. v \in Seq(T)
      BY <3>5 DEF c
    <3>8. v \in Seq(T) /\ J(m + 1) = J(n) \o v
      BY <3>6, <3>7, Zenon DEF a
    <3> HIDE DEF v
    <3> QED BY <3>8
  <2> QED BY <2>1, <2>2
<1> HIDE DEF P
<1>3. P \in SUBSET Nat
  BY DEF P
<1>4. N \in P
  BY <1>1, <1>2, <1>3, SetInduction
<1>5. PICK w \in Seq(T) : J(N) = J(n) \o w
  BY <1>4 DEF P
<1>6. J(n) \in Seq(T)
  BY <1>0
<1> DEFINE a == J(n)
           b == J(N)
<1>7. a \in Seq(T) /\ b = a \o w
  BY <1>5, <1>6
<1> HIDE DEF a, b, J
<1>8. Len(a) <= Len(b) /\ SubSeq(a, 1, Len(a)) = SubSeq(b, 1, Len(a))
  BY <1>7
<1> QED BY <1>8 DEF IsPrefix, a, b, J

-----------------------------------------------------------------------------
(* Finite sets of numbers.                                                 *)

(* One that is not empty has a greatest member, which Max gives. *)
LEMMA GreatestOf ==
  ASSUME NEW S \in SUBSET Nat, IsFiniteSet(S), S # {}
  PROVE  Max(S) \in S /\ \A x \in S : x <= Max(S)
<1> DEFINE P == {s \in SUBSET S : s # {} => \E m \in s : \A x \in s : x <= m}
<1>1. {} \in P
  OBVIOUS
<1>2. ASSUME NEW s \in SUBSET S, s # {}, \A x \in s : s \ {x} \in P PROVE s \in P
  <2>1. PICK x \in s : TRUE
    BY <1>2
  <2>2. CASE s \ {x} = {}
    BY <2>2
  <2>3. CASE s \ {x} # {}
    <3>1. PICK m \in s \ {x} : \A y \in s \ {x} : y <= m
      BY <1>2, <2>3
    <3>2. CASE x <= m
      BY <3>1, <3>2
    <3>3. CASE ~(x <= m)
      <4>1. \A y \in s : y <= x
        BY <3>1, <3>3
      <4> QED BY <4>1
    <3> QED BY <3>2, <3>3
  <2> QED BY <2>2, <2>3
<1> HIDE DEF P
<1>3. P \in SUBSET SUBSET S
  BY DEF P
<1>4. S \in P
  BY <1>1, <1>2, <1>3, SubsetInduction
<1>5. \E m \in S : \A x \in S : m >= x
  <2>1. PICK m \in S : \A x \in S : x <= m
    BY <1>4 DEF P
  <2>2. \A x \in S : m >= x
    BY <2>1
  <2> QED BY <2>2
<1> QED BY <1>5 DEF Max

\* How many members are below x.
Rank(S, x) == Cardinality({y \in S : y < x})

(* The members of a finite set of numbers have the ranks from 0 on, each one its own. *)
LEMMA Ranked ==
  ASSUME NEW S \in SUBSET Int, IsFiniteSet(S)
  PROVE  /\ Cardinality(S) \in Nat
         /\ \A x \in S : Rank(S, x) \in 0..(Cardinality(S) - 1)
         /\ \A x, y \in S : Rank(S, x) = Rank(S, y) => x = y
         /\ \A k \in 0..(Cardinality(S) - 1) : \E x \in S : Rank(S, x) = k
<1> DEFINE below(x) == {y \in S : y < x}
           N == Cardinality(S)
<1>1. \A x \in S : IsFiniteSet(below(x)) /\ below(x) \in SUBSET S
  BY FS_Subset
<1>2. N \in Nat
  BY FS_CardinalityType
<1>3. ASSUME NEW x \in S PROVE Rank(S, x) \in 0..(N - 1)
  <2>1. Cardinality(below(x)) \in Nat /\ Cardinality(below(x)) <= N /\ Cardinality(below(x)) # N
    <3>1. x \notin below(x)
      OBVIOUS
    <3>2. below(x) # S
      BY <3>1
    <3> HIDE DEF below
    <3> QED BY <1>1, <3>2, FS_Subset, FS_CardinalityType
  <2> QED BY <1>2, <2>1 DEF Rank
<1>4. ASSUME NEW x \in S, NEW y \in S, x < y PROVE Rank(S, x) < Rank(S, y)
  <2>1. below(x) \in SUBSET below(y) /\ x \in below(y) /\ x \notin below(x)
    <3>1. x \in Int /\ y \in Int /\ \A z \in S : z \in Int
      OBVIOUS
    <3>2. \A z \in S : z < x => z < y
      BY <1>4, <3>1
    <3>3. x \in below(y) /\ x \notin below(x)
      BY <1>4, <3>1
    <3> QED BY <3>2, <3>3
  <2>2. Cardinality(below(x)) <= Cardinality(below(y)) /\ Cardinality(below(x)) # Cardinality(below(y))
    <3>1. IsFiniteSet(below(y)) /\ below(x) # below(y)
      BY <1>1, <2>1
    <3>2. below(x) \in SUBSET below(y)
      BY <2>1
    <3> HIDE DEF below
    <3> QED BY <3>1, <3>2, FS_Subset
  <2>3. Rank(S, x) \in Int /\ Rank(S, y) \in Int
    BY <1>3
  <2> QED BY <2>2, <2>3 DEF Rank
<1>5. \A x, y \in S : Rank(S, x) = Rank(S, y) => x = y
  <2> SUFFICES ASSUME NEW x \in S, NEW y \in S, x # y PROVE Rank(S, x) # Rank(S, y)
    OBVIOUS
  <2>1. x < y \/ y < x
    OBVIOUS
  <2>2. Rank(S, x) \in Int /\ Rank(S, y) \in Int
    BY <1>3
  <2>3. Rank(S, x) < Rank(S, y) \/ Rank(S, y) < Rank(S, x)
    BY <1>4, <2>1
  <2> QED BY <2>2, <2>3
<1>6. \A k \in 0..(N - 1) : \E x \in S : Rank(S, x) = k
  <2> DEFINE T == 0..(N - 1)
             f == [x \in S |-> Rank(S, x)]
  <2>1. f \in Injection(S, T)
    BY <1>3, <1>5 DEF Injection, IsInjective
  <2>2. IsFiniteSet(T) /\ Cardinality(T) = N
    <3>1. 0 \in Int /\ N - 1 \in Int
      BY <1>2
    <3>2. IsFiniteSet(T) /\ Cardinality(T) = IF 0 > N - 1 THEN 0 ELSE (N - 1) - 0 + 1
      BY <3>1, FS_Interval
    <3> QED BY <1>2, <3>2
  <2> HIDE DEF f, T
  <2>3. f \in Surjection(S, T)
    BY <2>1, <2>2, FS_Injection DEF N
  <2> QED BY <2>3 DEF Surjection, f, T
<1> QED BY <1>2, <1>3, <1>5, <1>6
=============================================================================
