----------------------------- MODULE FoldProofs -----------------------------
(***************************************************************************)
(* Induction over data, for the folds and sums of the modules.  It rests   *)
(* on the well-foundedness of the natural numbers: a set of numbers that   *)
(* is not empty has a least element.  What a fold needs from it is that    *)
(* its recursive function exists, that what it is built from stays within  *)
(* a set, and, for a sum, that the element taken out does not matter.      *)
(***************************************************************************)
EXTENDS Integers, FiniteSetsExt, FiniteSetTheorems, WellFoundedInduction, TLAPS

-----------------------------------------------------------------------------
(* Induction.                                                              *)

LessThan == {ss \in Nat \X Nat : ss[1] < ss[2]}

LEMMA LeastElement ==
  ASSUME NEW T \in SUBSET Nat, T # {}
  PROVE  \E m \in T : \A k \in T : m <= k
<1>1. IsWellFoundedOn(LessThan, Nat)
  BY NatLessThanWellFounded DEF OpToRel, LessThan
<1>2. PICK m \in T : \A k \in T : ~(<<k, m>> \in LessThan)
  BY <1>1, WFMin
<1>3. ASSUME NEW k \in T PROVE m <= k
  <2>1. k \in Nat /\ m \in Nat /\ ~(k < m)
    BY <1>2 DEF LessThan
  <2> QED BY <2>1
<1> QED BY <1>3

(* A set that holds 0, and with every number the next one, holds them all. *)
LEMMA NumberInduction ==
  ASSUME NEW T, 0 \in T, \A n \in Nat : n \in T => n + 1 \in T
  PROVE  \A n \in Nat : n \in T
<1> DEFINE Missing == {n \in Nat : n \notin T}
<1> SUFFICES ASSUME Missing # {} PROVE FALSE
  OBVIOUS
<1>1. PICK m \in Missing : \A k \in Missing : m <= k
  BY LeastElement
<1>2. m # 0 /\ m - 1 \in Nat
  BY <1>1
<1>3. m - 1 \in T
  BY <1>1, <1>2
<1> QED BY <1>1, <1>2, <1>3

(* Taking an element out of a subset of a finite set.                      *)
LEMMA TakeOut ==
  ASSUME NEW S, IsFiniteSet(S), NEW A \in SUBSET S
  PROVE  /\ IsFiniteSet(A) /\ Cardinality(A) \in Nat
         /\ Cardinality(A) = 0 <=> A = {}
         /\ \A x \in A : /\ A \ {x} \in SUBSET S
                        /\ Cardinality(A \ {x}) = Cardinality(A) - 1
                        /\ A = (A \ {x}) \cup {x}
<1>1. IsFiniteSet(A) /\ Cardinality(A) \in Nat
  BY FS_Subset, FS_CardinalityType
<1>2. Cardinality(A) = 0 <=> A = {}
  BY <1>1, FS_EmptySet
<1>3. ASSUME NEW x \in A PROVE Cardinality(A \ {x}) = Cardinality(A) - 1
  BY <1>1, FS_RemoveElement
<1> QED BY <1>1, <1>2, <1>3

(* A collection that holds the empty set, and with a set the set with one  *)
(* more element of S, holds every subset of the finite set S.              *)
LEMMA SubsetInduction ==
  ASSUME NEW S, IsFiniteSet(S), NEW T, {} \in T,
         \A A \in SUBSET S : \A x \in S \ A : A \in T => A \cup {x} \in T
  PROVE  \A A \in SUBSET S : A \in T
<1> DEFINE N == {n \in Nat : \A A \in SUBSET S : Cardinality(A) = n => A \in T}
<1>1. \A A \in SUBSET S : Cardinality(A) \in Nat
  BY TakeOut
<1>2. 0 \in N
  BY TakeOut
<1>3. ASSUME NEW n \in Nat, n \in N PROVE n + 1 \in N
  <2> SUFFICES ASSUME NEW A \in SUBSET S, Cardinality(A) = n + 1 PROVE A \in T
    OBVIOUS
  <2>1. PICK x \in A : TRUE
    BY TakeOut
  <2>2. A \ {x} \in SUBSET S /\ Cardinality(A \ {x}) = n
    BY TakeOut
  <2>3. A \ {x} \in T
    BY <1>3, <2>2
  <2>4. A = (A \ {x}) \cup {x}
    OBVIOUS
  <2>5. (A \ {x}) \cup {x} \in T
    BY <2>2, <2>3
  <2> QED BY <2>4, <2>5
<1>4. \A n \in Nat : n \in N
  <2> HIDE DEF N
  <2> QED BY <1>2, <1>3, NumberInduction
<1> QED BY <1>1, <1>4

-----------------------------------------------------------------------------
(* Folds.  c chooses an element of a set, F maps it and the result for the *)
(* other elements to the result.                                           *)

Chooses(c, S) == \A A \in SUBSET S : A # {} => c[A] \in A
FoldsTo(g, S, base, c, F) ==
  g = [A \in SUBSET S |->
         IF A = {} THEN base ELSE F[<<c[A], g[A \ {c[A]}]>>]]

(* The recursive function of a fold over a finite set exists.              *)
LEMMA FoldExists ==
  ASSUME NEW S, IsFiniteSet(S), NEW base, NEW F, NEW c, Chooses(c, S)
  PROVE  \E g : FoldsTo(g, S, base, c, F)
<1> DEFINE Upto(n) == {A \in SUBSET S : Cardinality(A) <= n}
           On(g, n) == g = [A \in Upto(n) |->
                              IF A = {} THEN base ELSE F[<<c[A], g[A \ {c[A]}]>>]]
           N == {n \in Nat : \E g : On(g, n)}
<1>1. \A A \in SUBSET S : Cardinality(A) \in Nat /\ (Cardinality(A) = 0 <=> A = {})
  BY TakeOut
<1>2. 0 \in N
  <2> DEFINE g == [A \in Upto(0) |-> base]
  <2>1. \A A \in Upto(0) : A = {}
    BY <1>1
  <2>2. On(g, 0)
    BY <2>1
  <2> QED BY <2>2
<1>3. ASSUME NEW n \in Nat, n \in N PROVE n + 1 \in N
  <2>1. PICK g : On(g, n)
    BY <1>3
  <2>0. PICK h : h = [A \in Upto(n + 1) |->
                        IF A = {} THEN base ELSE F[<<c[A], g[A \ {c[A]}]>>]]
    OBVIOUS
  <2>2. ASSUME NEW A \in Upto(n + 1), A # {}
        PROVE  h[A \ {c[A]}] = g[A \ {c[A]}]
    <3> DEFINE B == A \ {c[A]}
    <3>1. c[A] \in A
      BY <2>2 DEF Chooses
    <3>2. B \in SUBSET S /\ Cardinality(B) = Cardinality(A) - 1
      BY <3>1, TakeOut
    <3>3. B \in Upto(n) /\ B \in Upto(n + 1)
      BY <1>1, <3>2
    <3> HIDE DEF B, Upto
    <3>4. h[B] = IF B = {} THEN base ELSE F[<<c[B], g[B \ {c[B]}]>>]
      BY <2>0, <3>3
    <3>5. g[B] = IF B = {} THEN base ELSE F[<<c[B], g[B \ {c[B]}]>>]
      BY <2>1, <3>3
    <3> QED BY <3>4, <3>5 DEF B
  <2>3. On(h, n + 1)
    <3> HIDE DEF Upto
    <3>1. \A A \in Upto(n + 1) :
            (IF A = {} THEN base ELSE F[<<c[A], g[A \ {c[A]}]>>])
              = IF A = {} THEN base ELSE F[<<c[A], h[A \ {c[A]}]>>]
      BY <2>2
    <3> QED BY <2>0, <3>1
  <2> HIDE DEF On
  <2> QED BY <2>3
<1>4. \A n \in Nat : n \in N
  <2> HIDE DEF N
  <2> QED BY <1>2, <1>3, NumberInduction
<1>5. PICK g : On(g, Cardinality(S))
  BY <1>1, <1>4
<1>6. Upto(Cardinality(S)) = SUBSET S
  BY <1>1, FS_Subset
<1> QED BY <1>5, <1>6 DEF FoldsTo

(* What a fold starts with and keeps in a set, it ends with.               *)
LEMMA FoldStays ==
  ASSUME NEW S, IsFiniteSet(S), NEW c, Chooses(c, S), NEW g, NEW V, g[{}] \in V,
         \A A \in SUBSET S : A # {} /\ g[A \ {c[A]}] \in V => g[A] \in V
  PROVE  \A A \in SUBSET S : g[A] \in V
<1> DEFINE N == {n \in Nat : \A A \in SUBSET S : Cardinality(A) = n => g[A] \in V}
<1>1. \A A \in SUBSET S : Cardinality(A) \in Nat /\ (Cardinality(A) = 0 <=> A = {})
  BY TakeOut
<1>2. 0 \in N
  BY <1>1
<1>3. ASSUME NEW n \in Nat, n \in N PROVE n + 1 \in N
  <2> SUFFICES ASSUME NEW A \in SUBSET S, Cardinality(A) = n + 1 PROVE g[A] \in V
    OBVIOUS
  <2>1. A # {} /\ c[A] \in A
    BY <1>1 DEF Chooses
  <2>2. A \ {c[A]} \in SUBSET S /\ Cardinality(A \ {c[A]}) = n
    BY <2>1, TakeOut
  <2>3. g[A \ {c[A]}] \in V
    BY <1>3, <2>2
  <2> QED BY <2>1, <2>3
<1>4. \A n \in Nat : n \in N
  <2> HIDE DEF N
  <2> QED BY <1>2, <1>3, NumberInduction
<1> QED BY <1>1, <1>4

(* Two folds over sets that agree on what they do agree on common subsets. *)
LEMMA FoldUnique ==
  ASSUME NEW S, IsFiniteSet(S), NEW T, NEW base, NEW c, NEW F, NEW G, NEW g, NEW h,
         Chooses(c, S), Chooses(c, T),
         FoldsTo(g, S, base, c, F), FoldsTo(h, T, base, c, G),
         \A x \in S \cap T : \A v : F[<<x, v>>] = G[<<x, v>>]
  PROVE  \A A \in SUBSET (S \cap T) : g[A] = h[A]
<1> DEFINE U == S \cap T
           N == {n \in Nat : \A A \in SUBSET U : Cardinality(A) = n => g[A] = h[A]}
<1>0. IsFiniteSet(U)
  BY FS_Subset
<1>1. \A A \in SUBSET U : Cardinality(A) \in Nat /\ (Cardinality(A) = 0 <=> A = {})
  BY <1>0, TakeOut
<1>2. ASSUME NEW A \in SUBSET U
      PROVE  /\ g[A] = IF A = {} THEN base ELSE F[<<c[A], g[A \ {c[A]}]>>]
             /\ h[A] = IF A = {} THEN base ELSE G[<<c[A], h[A \ {c[A]}]>>]
  BY DEF FoldsTo
<1>3. 0 \in N
  BY <1>1, <1>2
<1>4. ASSUME NEW n \in Nat, n \in N PROVE n + 1 \in N
  <2> SUFFICES ASSUME NEW A \in SUBSET U, Cardinality(A) = n + 1 PROVE g[A] = h[A]
    OBVIOUS
  <2>1. A # {} /\ c[A] \in A
    BY <1>1 DEF Chooses
  <2> DEFINE B == A \ {c[A]}
  <2>2. B \in SUBSET U /\ Cardinality(B) = n
    BY <1>0, <2>1, TakeOut
  <2>3. g[B] = h[B]
    BY <1>4, <2>2
  <2>4. F[<<c[A], h[B]>>] = G[<<c[A], h[B]>>]
    BY <2>1
  <2>5. g[A] = F[<<c[A], g[B]>>] /\ h[A] = G[<<c[A], h[B]>>]
    BY <1>2, <2>1
  <2> HIDE DEF B
  <2> QED BY <2>3, <2>4, <2>5
<1>5. \A n \in Nat : n \in N
  <2> HIDE DEF N
  <2> QED BY <1>3, <1>4, NumberInduction
<1> QED BY <1>1, <1>5

-----------------------------------------------------------------------------
(* Sums of numbers: Sum(w, S) is what MapThenSumSet computes for the       *)
(* operator whose values are those of the function w.                      *)

Pick(A) == CHOOSE x \in A : TRUE
Adds(w, S) == [p \in S \X Int |-> w[p[1]] + p[2]]
Picks(S) == [A \in SUBSET S |-> Pick(A)]
Sum(w, S) == MapThenSumSet(LAMBDA x : w[x], S)

(* The equation of a sum, for one function on all subsets of S.            *)
SumsTo(g, w, S) ==
  /\ g \in [SUBSET S -> Int]
  /\ g[{}] = 0
  /\ \A A \in SUBSET S : A # {} => g[A] = w[Pick(A)] + g[A \ {Pick(A)}]

LEMMA SumExists ==
  ASSUME NEW S, IsFiniteSet(S), NEW w \in [S -> Int]
  PROVE  \E g : SumsTo(g, w, S)
<1> DEFINE c == Picks(S)
           F == Adds(w, S)
<1>1. Chooses(c, S) /\ \A A \in SUBSET S : c[A] = Pick(A)
  BY DEF Chooses, Picks, Pick
<1>2. PICK g : FoldsTo(g, S, 0, c, F)
  <2> HIDE DEF c, F
  <2> QED BY <1>1, FoldExists
<1>3. \A x \in S, v \in Int : F[<<x, v>>] = w[x] + v
  BY DEF Adds
<1> HIDE DEF c, F
<1>4. g[{}] = 0
  BY <1>2 DEF FoldsTo
<1>5. ASSUME NEW A \in SUBSET S, A # {}
      PROVE  Pick(A) \in A /\ g[A] = F[<<Pick(A), g[A \ {Pick(A)}]>>]
  BY <1>1, <1>2, <1>5 DEF FoldsTo, Chooses
<1> DEFINE N == {n \in Nat : \A A \in SUBSET S : Cardinality(A) = n => g[A] \in Int}
<1>6. \A A \in SUBSET S : Cardinality(A) \in Nat /\ (Cardinality(A) = 0 <=> A = {})
  BY TakeOut
<1>7. 0 \in N
  BY <1>4, <1>6
<1>8. ASSUME NEW n \in Nat, n \in N PROVE n + 1 \in N
  <2> SUFFICES ASSUME NEW A \in SUBSET S, Cardinality(A) = n + 1 PROVE g[A] \in Int
    OBVIOUS
  <2>1. Pick(A) \in A /\ g[A] = F[<<Pick(A), g[A \ {Pick(A)}]>>]
    BY <1>5, <1>6
  <2> DEFINE B == A \ {Pick(A)}
  <2>2. B \in SUBSET S /\ Cardinality(B) = n
    BY <2>1, TakeOut
  <2>3. g[B] \in Int
    BY <1>8, <2>2
  <2> HIDE DEF B
  <2>4. w[Pick(A)] \in Int
    BY <2>1
  <2> QED BY <1>3, <2>1, <2>3, <2>4 DEF B
<1>9. \A n \in Nat : n \in N
  <2> HIDE DEF N
  <2> QED BY <1>7, <1>8, NumberInduction
<1>10. \A A \in SUBSET S : g[A] \in Int
  BY <1>6, <1>9
<1>11. g \in [SUBSET S -> Int]
  BY <1>2, <1>10 DEF FoldsTo
<1>12. ASSUME NEW A \in SUBSET S, A # {} PROVE g[A] = w[Pick(A)] + g[A \ {Pick(A)}]
  <2>1. Pick(A) \in S /\ A \ {Pick(A)} \in SUBSET S
    BY <1>5, <1>12
  <2> QED BY <1>3, <1>5, <1>10, <1>12, <2>1
<1> QED BY <1>4, <1>11, <1>12 DEF SumsTo

(* What an element adds does not depend on when it is added.               *)
LEMMA SumTakesOut ==
  ASSUME NEW S, IsFiniteSet(S), NEW w \in [S -> Int], NEW g, SumsTo(g, w, S)
  PROVE  \A A \in SUBSET S : \A x \in A : g[A] = w[x] + g[A \ {x}]
<1> DEFINE N == {n \in Nat : \A A \in SUBSET S : \A x \in A :
                   Cardinality(A) = n => g[A] = w[x] + g[A \ {x}]}
<1>1. \A A \in SUBSET S : Cardinality(A) \in Nat /\ (Cardinality(A) = 0 <=> A = {})
  BY TakeOut
<1>2. 0 \in N
  BY <1>1
<1>3. ASSUME NEW n \in Nat, n \in N PROVE n + 1 \in N
  <2> SUFFICES ASSUME NEW A \in SUBSET S, NEW x \in A, Cardinality(A) = n + 1
               PROVE  g[A] = w[x] + g[A \ {x}]
    OBVIOUS
  <2> DEFINE y == Pick(A)
             B == A \ {y}
             C == A \ {x}
             D == (A \ {x}) \ {y}
  <2>1. y \in A /\ g[A] = w[y] + g[B]
    BY DEF SumsTo, Pick
  <2>2. CASE x = y
    BY <2>1, <2>2
  <2>3. CASE x # y
    <3>1. /\ B \in SUBSET S /\ Cardinality(B) = n /\ x \in B
          /\ C \in SUBSET S /\ Cardinality(C) = n /\ y \in C
      BY <2>1, <2>3, TakeOut
    <3>2. D = B \ {x} /\ D = C \ {y} /\ D \in SUBSET S
      OBVIOUS
    <3> HIDE DEF B, C, D, y
    <3>3. g[B] = w[x] + g[D] /\ g[C] = w[y] + g[D]
      BY <1>3, <3>1, <3>2
    <3>4. w[x] \in Int /\ w[y] \in Int /\ g[D] \in Int
      BY <2>1, <3>2 DEF SumsTo
    <3>5. g[A] = w[x] + g[C]
      BY <2>1, <3>3, <3>4
    <3> QED BY <3>5 DEF C
  <2> QED BY <2>2, <2>3
<1>4. \A n \in Nat : n \in N
  <2> HIDE DEF N
  <2> QED BY <1>2, <1>3, NumberInduction
<1> QED BY <1>1, <1>4

(* The sum is the value of that function, whichever way it was chosen.     *)
RawSum(g, w, S) ==
  g = [A \in SUBSET S |->
         IF A = {} THEN 0 ELSE w[Pick(A)] + g[A \ {Pick(A)}]]

LEMMA RawSumIsSum ==
  ASSUME NEW S, IsFiniteSet(S), NEW w \in [S -> Int], NEW g
  PROVE  RawSum(g, w, S) <=> SumsTo(g, w, S)
<1>1. ASSUME RawSum(g, w, S) PROVE SumsTo(g, w, S)
  <2>1. PICK h : SumsTo(h, w, S)
    BY SumExists
  <2> DEFINE N == {n \in Nat : \A A \in SUBSET S : Cardinality(A) = n => g[A] = h[A]}
  <2>2. \A A \in SUBSET S : Cardinality(A) \in Nat /\ (Cardinality(A) = 0 <=> A = {})
    BY TakeOut
  <2>3. 0 \in N
    BY <1>1, <2>1, <2>2 DEF RawSum, SumsTo
  <2>4. ASSUME NEW n \in Nat, n \in N PROVE n + 1 \in N
    <3> SUFFICES ASSUME NEW A \in SUBSET S, Cardinality(A) = n + 1 PROVE g[A] = h[A]
      OBVIOUS
    <3> DEFINE B == A \ {Pick(A)}
    <3>1. A # {} /\ Pick(A) \in A
      BY <2>2 DEF Pick
    <3>2. B \in SUBSET S /\ Cardinality(B) = n
      BY <3>1, TakeOut
    <3>3. g[B] = h[B]
      BY <2>4, <3>2
    <3>4. g[A] = w[Pick(A)] + g[B]
      BY <1>1, <3>1 DEF RawSum
    <3>5. h[A] = w[Pick(A)] + h[B]
      BY <2>1, <3>1 DEF SumsTo
    <3> QED BY <3>3, <3>4, <3>5
  <2>5. \A n \in Nat : n \in N
    <3> HIDE DEF N
    <3> QED BY <2>3, <2>4, NumberInduction
  <2>6. \A A \in SUBSET S : g[A] = h[A]
    BY <2>2, <2>5
  <2>7. DOMAIN g = SUBSET S /\ g = [A \in SUBSET S |-> g[A]]
    BY <1>1 DEF RawSum
  <2>8. DOMAIN h = SUBSET S /\ h = [A \in SUBSET S |-> h[A]]
    BY <2>1 DEF SumsTo
  <2>9. g = h
    BY <2>6, <2>7, <2>8
  <2> QED BY <2>1, <2>9
<1>2. ASSUME SumsTo(g, w, S) PROVE RawSum(g, w, S)
  <2>1. g = [A \in SUBSET S |-> g[A]]
    BY <1>2 DEF SumsTo
  <2>2. \A A \in SUBSET S :
          g[A] = IF A = {} THEN 0 ELSE w[Pick(A)] + g[A \ {Pick(A)}]
    BY <1>2 DEF SumsTo
  <2> QED BY <2>1, <2>2 DEF RawSum
<1> QED BY <1>1, <1>2

LEMMA SumValue ==
  ASSUME NEW S, IsFiniteSet(S), NEW w \in [S -> Int]
  PROVE  \E g : SumsTo(g, w, S) /\ Sum(w, S) = g[S]
<1>1. \E g : RawSum(g, w, S)
  BY SumExists, RawSumIsSum
<1>2. \E g : RawSum(g, w, S) /\ Sum(w, S) = g[S]
  BY <1>1 DEF RawSum, Sum, Pick, MapThenSumSet, MapThenFoldSet
<1> QED BY <1>2, RawSumIsSum

LEMMA SumAgrees ==
  ASSUME NEW S, IsFiniteSet(S), NEW w \in [S -> Int], NEW g, SumsTo(g, w, S),
         NEW T, IsFiniteSet(T), NEW v \in [T -> Int], NEW h, SumsTo(h, v, T),
         T \subseteq S, \A x \in T : v[x] = w[x]
  PROVE  \A A \in SUBSET T : g[A] = h[A]
<1> DEFINE N == {n \in Nat : \A A \in SUBSET T : Cardinality(A) = n => g[A] = h[A]}
<1>1. \A A \in SUBSET T : Cardinality(A) \in Nat /\ (Cardinality(A) = 0 <=> A = {})
  BY TakeOut
<1>2. 0 \in N
  BY <1>1 DEF SumsTo
<1>3. ASSUME NEW n \in Nat, n \in N PROVE n + 1 \in N
  <2> SUFFICES ASSUME NEW A \in SUBSET T, Cardinality(A) = n + 1 PROVE g[A] = h[A]
    OBVIOUS
  <2> DEFINE B == A \ {Pick(A)}
  <2>1. A # {} /\ Pick(A) \in A
    BY <1>1 DEF Pick
  <2>2. B \in SUBSET T /\ Cardinality(B) = n
    <3>1. \A x \in A : A \ {x} \in SUBSET T /\ Cardinality(A \ {x}) = Cardinality(A) - 1
      BY TakeOut
    <3> QED BY <2>1, <3>1
  <2>3. g[B] = h[B]
    BY <1>3, <2>2
  <2>4. g[A] = w[Pick(A)] + g[B]
    BY <2>1 DEF SumsTo
  <2>5. h[A] = v[Pick(A)] + h[B]
    BY <2>1 DEF SumsTo
  <2>6. v[Pick(A)] = w[Pick(A)]
    BY <2>1
  <2> QED BY <2>3, <2>4, <2>5, <2>6
<1>4. \A n \in Nat : n \in N
  <2> HIDE DEF N
  <2> QED BY <1>2, <1>3, NumberInduction
<1> QED BY <1>1, <1>4

-----------------------------------------------------------------------------
(* The facts about sums that other modules use.                            *)

LEMMA SumEmpty ==
  ASSUME NEW w PROVE Sum(w, {}) = 0
<1> DEFINE v == [x \in {} |-> 0]
<1>1. IsFiniteSet({}) /\ v \in [{} -> Int]
  BY FS_EmptySet
<1>2. \E g : RawSum(g, v, {})
  BY <1>1, SumExists, RawSumIsSum
<1>3. \A g : RawSum(g, v, {}) <=> RawSum(g, w, {})
  BY DEF RawSum
<1>4. \E g : RawSum(g, w, {}) /\ Sum(w, {}) = g[{}]
  BY <1>2, <1>3 DEF RawSum, Sum, Pick, MapThenSumSet, MapThenFoldSet
<1> QED BY <1>4 DEF RawSum

LEMMA SumTypes ==
  ASSUME NEW S, IsFiniteSet(S), NEW w \in [S -> Int]
  PROVE  /\ Sum(w, S) \in Int
         /\ w \in [S -> Nat] => Sum(w, S) \in Nat
<1>1. PICK g : SumsTo(g, w, S) /\ Sum(w, S) = g[S]
  BY SumValue
<1>2. ASSUME w \in [S -> Nat] PROVE g[S] \in Nat
  <2> DEFINE T == {A \in SUBSET S : g[A] \in Nat}
  <2>1. {} \in T
    BY <1>1 DEF SumsTo
  <2>2. ASSUME NEW A \in SUBSET S, NEW x \in S \ A, A \in T PROVE A \cup {x} \in T
    <3>0. A \cup {x} \in SUBSET S /\ x \in A \cup {x}
      OBVIOUS
    <3>1. g[A \cup {x}] = w[x] + g[(A \cup {x}) \ {x}]
      BY <1>1, <3>0, SumTakesOut
    <3>2. (A \cup {x}) \ {x} = A
      OBVIOUS
    <3>3. w[x] \in Nat
      BY <1>2
    <3> QED BY <2>2, <3>1, <3>2, <3>3
  <2>3. \A A \in SUBSET S : A \in T
    <3> HIDE DEF T
    <3> QED BY <2>1, <2>2, SubsetInduction
  <2> QED BY <2>3
<1> QED BY <1>1, <1>2 DEF SumsTo

(* One element less; v is w on the others.                                 *)
LEMMA SumWithout ==
  ASSUME NEW S, IsFiniteSet(S), NEW w \in [S -> Int], NEW x \in S,
         NEW v \in [S \ {x} -> Int], \A y \in S \ {x} : v[y] = w[y]
  PROVE  Sum(w, S) = w[x] + Sum(v, S \ {x})
<1>1. PICK g : SumsTo(g, w, S) /\ Sum(w, S) = g[S]
  BY SumValue
<1>2. IsFiniteSet(S \ {x})
  BY TakeOut
<1>3. PICK h : SumsTo(h, v, S \ {x}) /\ Sum(v, S \ {x}) = h[S \ {x}]
  BY <1>2, SumValue
<1>4. g[S] = w[x] + g[S \ {x}]
  BY <1>1, SumTakesOut
<1>5. g[S \ {x}] = h[S \ {x}]
  <2> DEFINE T == S \ {x}
  <2>1. T \subseteq S
    OBVIOUS
  <2> HIDE DEF T
  <2>2. \A A \in SUBSET T : g[A] = h[A]
    BY <1>1, <1>2, <1>3, <2>1, SumAgrees DEF T
  <2> QED BY <2>2 DEF T
<1> QED BY <1>1, <1>3, <1>4, <1>5

(* Numbers that are left out make a sum of natural numbers no larger.      *)
LEMMA SumOfSubset ==
  ASSUME NEW S, IsFiniteSet(S), NEW w \in [S -> Nat], NEW T \in SUBSET S,
         NEW v \in [T -> Nat], \A x \in T : v[x] <= w[x]
  PROVE  Sum(v, T) <= Sum(w, S)
<1>0. IsFiniteSet(T) /\ w \in [S -> Int] /\ v \in [T -> Int]
  BY FS_Subset
<1>1. PICK g : SumsTo(g, w, S) /\ Sum(w, S) = g[S]
  BY <1>0, SumValue
<1>2. PICK h : SumsTo(h, v, T) /\ Sum(v, T) = h[T]
  BY <1>0, SumValue
<1> DEFINE N == {A \in SUBSET S : h[A \cap T] <= g[A]}
<1>3. {} \in N
  BY <1>1, <1>2 DEF SumsTo
<1>4. ASSUME NEW A \in SUBSET S, NEW x \in S \ A, A \in N PROVE A \cup {x} \in N
  <2>1. g[A \cup {x}] = w[x] + g[A] /\ g[A] \in Int /\ w[x] \in Nat
    <3>1. (A \cup {x}) \ {x} = A
      OBVIOUS
    <3>2. g[A \cup {x}] = w[x] + g[(A \cup {x}) \ {x}]
      BY <1>0, <1>1, SumTakesOut
    <3> QED BY <1>1, <3>1, <3>2 DEF SumsTo
  <2>2. CASE x \in T
    <3>1. (A \cup {x}) \cap T = (A \cap T) \cup {x}
      BY <2>2
    <3> DEFINE B == (A \cap T) \cup {x}
    <3>2. B \in SUBSET T /\ x \in B /\ B \ {x} = A \cap T
      BY <2>2
    <3>3. h[B] = v[x] + h[B \ {x}]
      BY <1>0, <1>2, <3>2, SumTakesOut
    <3>4. h[A \cap T] \in Int /\ v[x] \in Nat /\ v[x] <= w[x]
      BY <1>2, <2>2, <3>2 DEF SumsTo
    <3> HIDE DEF B
    <3>5. h[A \cap T] <= g[A] /\ h[B] = v[x] + h[A \cap T]
      BY <1>4, <3>2, <3>3
    <3>6. h[B] <= g[A \cup {x}]
      BY <2>1, <3>4, <3>5
    <3> QED BY <3>1, <3>6 DEF B
  <2>3. CASE x \notin T
    <3>1. (A \cup {x}) \cap T = A \cap T
      BY <2>3
    <3>2. h[A \cap T] \in Int
      BY <1>2 DEF SumsTo
    <3> QED BY <1>4, <2>1, <3>1, <3>2
  <2> QED BY <2>2, <2>3
<1>5. \A A \in SUBSET S : A \in N
  <2> HIDE DEF N
  <2> QED BY <1>3, <1>4, SubsetInduction
<1>6. S \cap T = T
  OBVIOUS
<1> QED BY <1>1, <1>2, <1>5, <1>6

(* Sums over the positions of a sequence: one more at the end, one less at *)
(* the front.                                                              *)
LEMMA SumLonger ==
  ASSUME NEW n \in Nat, NEW w \in [1 .. n + 1 -> Int], NEW v \in [1 .. n -> Int],
         \A i \in 1 .. n : v[i] = w[i]
  PROVE  Sum(w, 1 .. n + 1) = w[n + 1] + Sum(v, 1 .. n)
<1> DEFINE S == 1 .. n + 1
<1>0. IsFiniteSet(S)
  BY 1 \in Int, n + 1 \in Int, FS_Interval
<1>1. IsFiniteSet(S) /\ n + 1 \in S /\ S \ {n + 1} = 1 .. n
  BY <1>0
<1> HIDE DEF S
<1>2. w \in [S -> Int] /\ v \in [S \ {n + 1} -> Int]
  BY <1>1 DEF S
<1>3. \A i \in S \ {n + 1} : v[i] = w[i]
  BY <1>1
<1>4. Sum(w, S) = w[n + 1] + Sum(v, S \ {n + 1})
  BY <1>1, <1>2, <1>3, SumWithout
<1> QED BY <1>1, <1>4 DEF S

LEMMA SumShifted ==
  ASSUME NEW n \in Nat, NEW w \in [1 .. n + 1 -> Int], NEW v \in [1 .. n -> Int],
         \A i \in 1 .. n : v[i] = w[i + 1]
  PROVE  Sum(w, 1 .. n + 1) = w[1] + Sum(v, 1 .. n)
<1> DEFINE Shift(u, k) == [i \in 1 .. k |-> u[i + 1]]
           N == {k \in Nat : \A u \in [1 .. k + 1 -> Int] :
                   Sum(u, 1 .. k + 1) = u[1] + Sum(Shift(u, k), 1 .. k)}
<1>1. 0 \in N
  <2> SUFFICES ASSUME NEW u \in [1 .. 1 -> Int]
               PROVE  Sum(u, 1 .. 1) = u[1] + Sum(Shift(u, 0), 1 .. 0)
    OBVIOUS
  <2>1. 1 .. 0 = {} /\ 0 + 1 = 1
    OBVIOUS
  <2> DEFINE z == [i \in 1 .. 0 |-> 0]
  <2>2. Sum(u, 1 .. 0 + 1) = u[0 + 1] + Sum(z, 1 .. 0)
    <3>1. u \in [1 .. 0 + 1 -> Int] /\ z \in [1 .. 0 -> Int] /\ \A i \in 1 .. 0 : z[i] = u[i]
      BY <2>1
    <3> HIDE DEF z
    <3> QED BY <3>1, SumLonger
  <2>3. Sum(z, 1 .. 0) = 0 /\ Sum(Shift(u, 0), 1 .. 0) = 0
    <3> HIDE DEF z, Shift
    <3> QED BY <2>1, SumEmpty
  <2> HIDE DEF z, Shift
  <2> QED BY <2>1, <2>2, <2>3
<1>2. ASSUME NEW k \in Nat, k \in N PROVE k + 1 \in N
  <2> SUFFICES ASSUME NEW u \in [1 .. k + 1 + 1 -> Int]
               PROVE  Sum(u, 1 .. k + 1 + 1) = u[1] + Sum(Shift(u, k + 1), 1 .. k + 1)
    <3> HIDE DEF Shift
    <3> QED BY k + 1 \in Nat
  <2> DEFINE p == [i \in 1 .. k + 1 |-> u[i]]
             a == Shift(u, k + 1)
             b == Shift(p, k)
  <2>1. /\ p \in [1 .. k + 1 -> Int] /\ a \in [1 .. k + 1 -> Int]
        /\ b \in [1 .. k -> Int] /\ p[1] = u[1] /\ a[k + 1] = u[k + 1 + 1]
        /\ \A i \in 1 .. k + 1 : p[i] = u[i]
        /\ \A i \in 1 .. k : b[i] = a[i]
        /\ u[1] \in Int /\ u[k + 1 + 1] \in Int /\ k + 1 \in Nat
    OBVIOUS
  <2>2. Sum(p, 1 .. k + 1) = p[1] + Sum(b, 1 .. k)
    BY <1>2, <2>1
  <2> HIDE DEF p, a, b
  <2>3. Sum(u, 1 .. k + 1 + 1) = u[k + 1 + 1] + Sum(p, 1 .. k + 1)
    BY <2>1, SumLonger
  <2>4. Sum(a, 1 .. k + 1) = a[k + 1] + Sum(b, 1 .. k)
    BY <2>1, SumLonger
  <2>5. Sum(b, 1 .. k) \in Int
    <3>1. IsFiniteSet(1 .. k)
      BY 1 \in Int, k \in Int, FS_Interval
    <3> QED BY <2>1, <3>1, SumTypes
  <2>6. Sum(u, 1 .. k + 1 + 1) = u[1] + Sum(a, 1 .. k + 1)
    BY <2>1, <2>2, <2>3, <2>4, <2>5
  <2> QED BY <2>6 DEF a
<1>3. \A k \in Nat : k \in N
  <2> HIDE DEF N
  <2> QED BY <1>1, <1>2, NumberInduction
<1>4. v = Shift(w, n)
  OBVIOUS
<1>5. Sum(w, 1 .. n + 1) = w[1] + Sum(Shift(w, n), 1 .. n)
  BY <1>3
<1> HIDE DEF Shift
<1> QED BY <1>4, <1>5
=============================================================================
