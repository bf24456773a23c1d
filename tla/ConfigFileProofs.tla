-------------------------- MODULE ConfigFileProofs --------------------------
(***************************************************************************)
(* What any lines of a configuration file are read into, and what a fold   *)
(* over a sequence makes of what it starts with.                           *)
(***************************************************************************)
EXTENDS ConfigFile, FoldProofs, SequenceTheorems

-----------------------------------------------------------------------------
(* Least and greatest numbers, and folds over positions.                   *)

LEMMA MinIsLeast ==
  ASSUME NEW I \in SUBSET Nat, I # {}
  PROVE  Min(I) \in I /\ \A k \in I : Min(I) <= k
<1>1. \E m \in I : \A k \in I : m <= k
  BY LeastElement
<1> QED BY <1>1 DEF Min

LEMMA MaxIsGreatest ==
  ASSUME NEW n \in Nat, NEW I \in SUBSET (1..n), I # {}
  PROVE  Max(I) \in I /\ \A k \in I : k <= Max(I)
<1> DEFINE U == {u \in Nat : \A k \in I : k <= u}
<1>1. n \in U
  OBVIOUS
<1>2. PICK u \in U : \A v \in U : u <= v
  BY <1>1, LeastElement
<1>3. u \in I
  <2> SUFFICES ASSUME u \notin I PROVE FALSE
    OBVIOUS
  <2>1. \A k \in I : k \in Nat /\ k >= 1 /\ k <= u - 1
    BY <1>2
  <2>2. u - 1 \in Nat
    <3>1. PICK k \in I : TRUE
      OBVIOUS
    <3>2. u \in Nat /\ k \in Nat /\ k >= 1 /\ k <= u - 1
      BY <2>1, <1>2, <3>1
    <3> QED BY <3>2
  <2>3. u - 1 \in U
    BY <2>1, <2>2
  <2> QED BY <1>2, <2>3
<1>4. \E m \in I : \A k \in I : m >= k
  BY <1>2, <1>3
<1>5. Max(I) \in I /\ \A k \in I : Max(I) >= k
  BY <1>4 DEF Max
<1> QED BY <1>5

(* Where the first entry of a set of positions is, 0 when there is none.   *)
First(I) == IF I # {} THEN Min(I) ELSE 0

LEMMA FirstIsLeast ==
  ASSUME NEW n \in Nat, NEW I \in SUBSET (1..n)
  PROVE  \/ First(I) = 0 /\ I = {}
         \/ First(I) \in I /\ First(I) # 0 /\ \A k \in I : First(I) <= k
BY MinIsLeast DEF First

LEMMA AppendFacts ==
  ASSUME NEW T, NEW q \in Seq(T), NEW e \in T
  PROVE  /\ Append(q, e) \in Seq(T)
         /\ Len(Append(q, e)) = Len(q) + 1
         /\ \A i \in 1..Len(q) : Append(q, e)[i] = q[i]
         /\ Append(q, e)[Len(q) + 1] = e
BY AppendProperties

LEMMA CountedFinite ==
  ASSUME NEW n \in Nat, NEW I \in SUBSET (1..n)
  PROVE  IsFiniteSet(I) /\ Cardinality(I) \in Nat
<1>1. IsFiniteSet(1..n)
  <2>1. 1 \in Int /\ n \in Int
    OBVIOUS
  <2> QED BY <2>1, FS_Interval
<1>2. I \in SUBSET (1..n)
  OBVIOUS
<1>3. IsFiniteSet(I)
  BY <1>1, <1>2, FS_Subset
<1> QED BY <1>3, FS_CardinalityType

MaxOf(n) == [A \in SUBSET (1..n) |-> Max(A)]

LEMMA MaxOfChooses ==
  ASSUME NEW n \in Nat
  PROVE  IsFiniteSet(1..n) /\ Chooses(MaxOf(n), 1..n)
<1>1. IsFiniteSet(1..n)
  BY CountedFinite
<1>2. ASSUME NEW A \in SUBSET (1..n), A # {} PROVE MaxOf(n)[A] \in A
  BY <1>2, MaxIsGreatest DEF MaxOf
<1> QED BY <1>1, <1>2 DEF Chooses

LEMMA PrefixFacts ==
  ASSUME NEW n \in Nat, NEW k \in 1..n
  PROVE  /\ 1..k \in SUBSET (1..n) /\ 1..k # {}
         /\ Max(1..k) = k /\ (1..k) \ {k} = 1..(k - 1)
<1>1. k \in 1..k /\ 1..k \in SUBSET (1..n)
  OBVIOUS
<1>4. (1..k) \ {k} = 1..(k - 1)
  <2>1. \A i \in Int : i \in (1..k) \ {k} <=> i \in 1..(k - 1)
    OBVIOUS
  <2>2. (1..k) \ {k} \subseteq Int /\ 1..(k - 1) \subseteq Int
    OBVIOUS
  <2> QED BY <2>1, <2>2
<1>2. Max(1..k) \in 1..k /\ k <= Max(1..k)
  BY <1>1, MaxIsGreatest
<1>3. Max(1..k) = k
  BY <1>2
<1> QED BY <1>1, <1>3, <1>4

LEMMA UpToInduction ==
  ASSUME NEW n \in Nat, NEW K, 0 \in K, \A k \in 1..n : k - 1 \in K => k \in K
  PROVE  n \in K
<1> DEFINE N == {k \in Nat : k <= n => k \in K}
<1>1. 0 \in N
  OBVIOUS
<1>2. ASSUME NEW k \in Nat, k \in N PROVE k + 1 \in N
  <2> SUFFICES ASSUME k + 1 <= n PROVE k + 1 \in K
    OBVIOUS
  <2>1. k \in K /\ k + 1 \in 1..n /\ (k + 1) - 1 = k
    BY <1>2
  <2> QED BY <2>1
<1>3. \A k \in Nat : k \in N
  <2> HIDE DEF N
  <2> QED BY <1>1, <1>2, NumberInduction
<1> QED BY <1>3

-----------------------------------------------------------------------------
(* The configuration file, from any lines.                                 *)

DataLines(L) == {l \in L : l.k = "data"}
Pairs(L) == {[key |-> l.key, data |-> l.data] : l \in DataLines(L)}
Section(L) == [name : {l.name : l \in L}, list : Seq(Pairs(L))]
File(L) == [sections : Seq(Section(L)), valid : BOOLEAN]

LEMMA ReadLineStays ==
  ASSUME NEW L, NEW file \in File(L), NEW l \in L
  PROVE  ReadLine(file, l) \in File(L)
<1>1. file.sections \in Seq(Section(L)) /\ file.valid \in BOOLEAN
  BY DEF File
<1>2. SetSection(file, l.name) \in File(L)
  <2> DEFINE x == [name |-> l.name, list |-> <<>>]
  <2>1. <<>> \in Seq(Pairs(L))
    OBVIOUS
  <2>2. x \in Section(L)
    BY <2>1 DEF Section
  <2>3. Append(file.sections, x) \in Seq(Section(L))
    BY <1>1, <2>2, AppendFacts
  <2>4. [sections |-> Append(file.sections, x), valid |-> TRUE] \in File(L)
    BY <2>3 DEF File
  <2>5. [file EXCEPT !.valid = FALSE] \in File(L)
    BY DEF File
  <2> QED BY <2>4, <2>5 DEF SetSection
<1>3. ASSUME l.k = "data" PROVE SetSectionData(file, l.key, l.data) \in File(L)
  <2> DEFINE n == Len(file.sections)
             p == [key |-> l.key, data |-> l.data]
             new == [file EXCEPT !.sections[n].list = Append(@, p)]
  <2>1. SetSectionData(file, l.key, l.data) \in {file, new}
    BY DEF SetSectionData
  <2>2. new \in File(L)
    <3> DEFINE y == [file.sections[n] EXCEPT !.list = Append(@, p)]
               z == [file.sections EXCEPT ![n] = y]
    <3>1. new = [file EXCEPT !.sections = z]
      OBVIOUS
    <3>2. p \in Pairs(L) /\ n \in Nat
      BY <1>1, <1>3 DEF Pairs, DataLines
    <3>3. z \in Seq(Section(L))
      <4>1. CASE n = 0
        <5>1. file.sections = <<>> /\ z = file.sections
          BY <1>1, <4>1
        <5> QED BY <1>1, <5>1
      <4>2. CASE n # 0
        <5>1. n \in 1..n
          BY <3>2, <4>2
        <5>2. file.sections[n] \in Section(L)
          BY <1>1, <5>1, ElementOfSeq
        <5>3. Append(file.sections[n].list, p) \in Seq(Pairs(L))
          BY <3>2, <5>2, AppendFacts DEF Section
        <5>4. y \in Section(L)
          BY <5>2, <5>3 DEF Section
        <5> HIDE DEF y, n
        <5> QED BY <1>1, <5>1, <5>4, ExceptSeq DEF n
      <4> QED BY <4>1, <4>2
    <3> HIDE DEF new, z
    <3> QED BY <3>1, <3>3 DEF File
  <2> HIDE DEF new
  <2> QED BY <2>1, <2>2
<1> HIDE DEF File
<1> QED BY <1>2, <1>3 DEF ReadLine

LEMMA ReadFileIs ==
  ASSUME NEW L, NEW lines \in Seq(L)
  PROVE  ReadFile(lines) \in Seq(Section(L))
<1> DEFINE n == Len(lines)
           D == 1..n
           base == [sections |-> <<>>, valid |-> FALSE]
           V == File(L)
           c == MaxOf(n)
           Folded(g) == g = [A \in SUBSET D |->
                               IF A = {} THEN base
                               ELSE ReadLine(g[A \ {Max(A)}], lines[Max(A)])]
<1>0. n \in Nat /\ DOMAIN lines = D
  OBVIOUS
<1>1. IsFiniteSet(D) /\ Chooses(c, D) /\ \A A \in SUBSET D : c[A] = Max(A)
  BY <1>0, MaxOfChooses DEF MaxOf
<1>2. base \in V
  <2>1. <<>> \in Seq(Section(L))
    OBVIOUS
  <2> QED BY <2>1 DEF File
<1>3. \A x \in D : \A v \in V : ReadLine(v, lines[x]) \in V
  <2>1. \A x \in D : lines[x] \in L
    BY <1>0, ElementOfSeq
  <2> HIDE DEF D
  <2> QED BY <2>1, ReadLineStays
<1> HIDE DEF n, D, base, V, c
<1>5. \E g : Folded(g)
  <2> DEFINE F == [p \in D \X V |-> ReadLine(p[2], lines[p[1]])]
  <2>1. PICK g : FoldsTo(g, D, base, c, F)
    <3> HIDE DEF F
    <3> QED BY <1>1, FoldExists
  <2>2. \A x \in D : \A v \in V : F[<<x, v>>] = ReadLine(v, lines[x])
    OBVIOUS
  <2> HIDE DEF F
  <2>3. ASSUME NEW A \in SUBSET D, A # {}, g[A \ {c[A]}] \in V
        PROVE  g[A] \in V /\ g[A] = ReadLine(g[A \ {Max(A)}], lines[Max(A)])
    <3>1. c[A] = Max(A) /\ c[A] \in D /\ g[A] = F[<<c[A], g[A \ {c[A]}]>>]
      BY <1>1, <2>1, <2>3 DEF Chooses, FoldsTo
    <3> QED BY <1>3, <2>2, <2>3, <3>1
  <2>4. g[{}] = base
    BY <2>1 DEF FoldsTo
  <2>5. \A A \in SUBSET D : g[A] \in V
    BY <1>1, <1>2, <2>3, <2>4, FoldStays
  <2>6. \A A \in SUBSET D : g[A] = IF A = {} THEN base
                                   ELSE ReadLine(g[A \ {Max(A)}], lines[Max(A)])
    <3> SUFFICES ASSUME NEW A \in SUBSET D, A # {}
                 PROVE  g[A] = ReadLine(g[A \ {Max(A)}], lines[Max(A)])
      BY <2>4
    <3> QED BY <2>3, <2>5
  <2>7. Folded(g)
    BY <2>1, <2>6 DEF FoldsTo
  <2> QED BY <2>7
<1>6. ASSUME NEW g, Folded(g) PROVE g[D] \in V
  <2>1. g[{}] \in V
    BY <1>2, <1>6
  <2>2. ASSUME NEW A \in SUBSET D, A # {}, g[A \ {c[A]}] \in V PROVE g[A] \in V
    <3>1. c[A] = Max(A) /\ c[A] \in D
      BY <1>1, <2>2 DEF Chooses
    <3>2. g[A] = ReadLine(g[A \ {Max(A)}], lines[Max(A)])
      BY <1>6, <2>2
    <3> QED BY <1>3, <2>2, <3>1, <3>2
  <2> HIDE DEF Folded
  <2> QED BY <1>1, <2>1, <2>2, FoldStays
<1>7. FoldLeft(ReadLine, base, lines) = (CHOOSE g : Folded(g))[D]
  BY <1>0 DEF FoldLeft, MapThenFoldSet
<1> HIDE DEF Folded
<1>8. FoldLeft(ReadLine, base, lines) \in V
  BY <1>5, <1>6, <1>7
<1> QED BY <1>8 DEF ReadFile, base, V, File
DataOf(L, key) == {l.data : l \in {x \in DataLines(L) : x.key = key}}
Values(L) == {l.data : l \in L} \cup {<<>>}

LEMMA DataAreValues ==
  ASSUME NEW L, NEW key PROVE DataOf(L, key) \subseteq Values(L)
BY DEF DataOf, DataLines, Values

LEMMA GetValueIs ==
  ASSUME NEW L, NEW file \in Seq(Section(L)), NEW n, NEW key
  PROVE  GetValue(file, n, key) \in DataOf(L, key) \cup {Absent}
<1> DEFINE I == {i \in 1..Len(file) : file[i].name = n}
           k == First(I)
           J == {i \in 1..Len(file[k].list) : file[k].list[i].key = key}
<1>1. FindSection(file, n) = k
  BY DEF FindSection, SelectInSeq, First
<1>2. SelectInSeq(file[k].list, LAMBDA x : x.key = key) = First(J)
  BY DEF SelectInSeq, First
<1>3. GetValue(file, n, key)
        = IF k = 0 \/ First(J) = 0 THEN Absent ELSE file[k].list[First(J)].data
  BY <1>1, <1>2 DEF GetValue
<1> SUFFICES ASSUME k # 0, First(J) # 0
             PROVE  file[k].list[First(J)].data \in DataOf(L, key)
  BY <1>3
<1>4. k \in 1..Len(file)
  <2>1. I \in SUBSET (1..Len(file)) /\ Len(file) \in Nat
    OBVIOUS
  <2>2. First(I) # 0
    OBVIOUS
  <2> HIDE DEF I
  <2>3. First(I) \in I
    BY <2>1, <2>2, FirstIsLeast
  <2> QED BY <2>1, <2>3
<1> HIDE DEF k
<1>5. file[k].list \in Seq(Pairs(L))
  <2>1. file[k] \in Section(L)
    BY <1>4, ElementOfSeq
  <2> QED BY <2>1 DEF Section
<1>6. First(J) \in 1..Len(file[k].list) /\ file[k].list[First(J)].key = key
  <2>1. J \in SUBSET (1..Len(file[k].list)) /\ Len(file[k].list) \in Nat
    BY <1>5
  <2>2. First(J) # 0
    OBVIOUS
  <2> HIDE DEF J
  <2>3. First(J) \in J
    BY <2>1, <2>2, FirstIsLeast
  <2> QED BY <2>3 DEF J
<1> DEFINE e == file[k].list[First(J)]
<1>7. e \in Pairs(L) /\ e.key = key
  BY <1>5, <1>6, ElementOfSeq
<1>8. PICK l \in DataLines(L) : e = [key |-> l.key, data |-> l.data]
  BY <1>7 DEF Pairs
<1> HIDE DEF e
<1>9. e.data = l.data /\ e.key = l.key
  BY <1>8
<1> QED BY <1>7, <1>9 DEF DataOf, e
=============================================================================
