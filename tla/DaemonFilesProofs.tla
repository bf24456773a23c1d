------------------------- MODULE DaemonFilesProofs -------------------------
(***************************************************************************)
(* The offline trace stays within its size and keeps the file it writes,   *)
(* and a message goes to the filters of the log storage that want it, for  *)
(* every configuration and any messages.                                   *)
(*                                                                         *)
(* What counts for the trace is the room that is left beside the file that *)
(* is open: it is made before a file is begun and not touched until the    *)
(* next one is.  What counts for the filters is that a message is looked   *)
(* up under at most one of the keys of each.                               *)
(***************************************************************************)
EXTENDS DaemonFiles, ConfigFileProofs

-----------------------------------------------------------------------------
(* The size of a set of files.                                             *)

TraceFile == [name : Nat, time : Nat, size : Nat]
SizesOf(S) == [x \in S |-> x.size]

LEMMA TotalIsSum ==
  ASSUME NEW S \in SUBSET TraceFile, IsFiniteSet(S)
  PROVE  TotalSize(S) = Sum(SizesOf(S), S)
<1> DEFINE w == SizesOf(S)
           OfSizes(g) == g = [A \in SUBSET S |->
                           IF A = {} THEN 0 ELSE Pick(A).size + g[A \ {Pick(A)}]]
<1>1. \A A \in SUBSET S : A # {} => Pick(A) \in S /\ w[Pick(A)] = Pick(A).size
  BY DEF Pick, SizesOf
<1>2. w \in [S -> Int]
  BY DEF SizesOf, TraceFile
<1> HIDE DEF w
<1>3. ASSUME NEW g PROVE RawSum(g, w, S) <=> OfSizes(g)
  <2>1. ASSUME NEW A \in SUBSET S
        PROVE  (IF A = {} THEN 0 ELSE w[Pick(A)] + g[A \ {Pick(A)}])
                 = (IF A = {} THEN 0 ELSE Pick(A).size + g[A \ {Pick(A)}])
    BY <1>1, <2>1
  <2>2. [A \in SUBSET S |-> IF A = {} THEN 0 ELSE w[Pick(A)] + g[A \ {Pick(A)}]]
          = [A \in SUBSET S |-> IF A = {} THEN 0 ELSE Pick(A).size + g[A \ {Pick(A)}]]
    BY <2>1
  <2> QED BY <2>2 DEF RawSum
<1>4. \E g : RawSum(g, w, S)
  BY <1>2, SumExists, RawSumIsSum
<1>5. \E g : OfSizes(g) /\ TotalSize(S) = g[S]
  <2>1. \E g : OfSizes(g)
    BY <1>3, <1>4
  <2> QED BY <2>1 DEF TotalSize, Pick, MapThenSumSet, MapThenFoldSet
<1>6. PICK g : RawSum(g, w, S) /\ TotalSize(S) = g[S]
  <2> HIDE DEF OfSizes
  <2> QED BY <1>3, <1>5
<1>7. PICK k : SumsTo(k, w, S) /\ Sum(w, S) = k[S]
  BY <1>2, SumValue
<1>8. SumsTo(g, w, S)
  BY <1>2, <1>6, RawSumIsSum
<1>9. \A A \in SUBSET S : g[A] = k[A]
  BY <1>2, <1>7, <1>8, SumAgrees
<1> QED BY <1>6, <1>7, <1>9 DEF w

LEMMA TotalFacts ==
  ASSUME NEW S \in SUBSET TraceFile, IsFiniteSet(S)
  PROVE  /\ TotalSize(S) \in Nat
         /\ \A A \in SUBSET S : TotalSize(A) <= TotalSize(S)
         /\ \A x \in S : TotalSize(S) = x.size + TotalSize(S \ {x})
<1>1. \A A \in SUBSET S : /\ A \in SUBSET TraceFile /\ IsFiniteSet(A)
                          /\ SizesOf(A) \in [A -> Nat] /\ SizesOf(A) \in [A -> Int]
                          /\ \A x \in A : SizesOf(A)[x] = SizesOf(S)[x]
  BY FS_Subset DEF SizesOf, TraceFile
<1>2. \A A \in SUBSET S : TotalSize(A) = Sum(SizesOf(A), A)
  BY <1>1, TotalIsSum
<1>3. Sum(SizesOf(S), S) \in Nat
  BY <1>1, SumTypes
<1>4. ASSUME NEW A \in SUBSET S PROVE Sum(SizesOf(A), A) <= Sum(SizesOf(S), S)
  <2>1. \A x \in A : SizesOf(A)[x] <= SizesOf(S)[x]
    BY <1>1
  <2> QED BY <1>1, <2>1, SumOfSubset
<1>5. ASSUME NEW x \in S
      PROVE  Sum(SizesOf(S), S) = x.size + Sum(SizesOf(S \ {x}), S \ {x})
  <2> DEFINE v == SizesOf(S \ {x})
  <2>1. v \in [S \ {x} -> Int] /\ \A y \in S \ {x} : v[y] = SizesOf(S)[y]
    BY <1>1
  <2>2. SizesOf(S)[x] = x.size
    BY DEF SizesOf
  <2> HIDE DEF v
  <2>3. Sum(SizesOf(S), S) = SizesOf(S)[x] + Sum(v, S \ {x})
    BY <1>1, <2>1, SumWithout
  <2> QED BY <2>2, <2>3 DEF v
<1> QED BY <1>2, <1>3, <1>4, <1>5

(* A new file's number is not in use.                                      *)
LEMMA NumberIsNew ==
  ASSUME NEW S, IsFiniteSet(S), S \subseteq Nat
  PROVE  Max(S \cup {0}) \in Nat /\ \A n \in S : n <= Max(S \cup {0})
<1> DEFINE T == {A \in SUBSET S : \E m \in A \cup {0} : \A k \in A \cup {0} : m >= k}
<1>1. {} \in T
  OBVIOUS
<1>2. ASSUME NEW A \in SUBSET S, NEW x \in S \ A, A \in T PROVE A \cup {x} \in T
  <2>1. PICK m \in A \cup {0} : \A k \in A \cup {0} : m >= k
    BY <1>2
  <2>2. m \in Nat /\ x \in Nat /\ \A k \in A \cup {0} : k \in Nat
    OBVIOUS
  <2>3. CASE m >= x
    <3>1. \A k \in (A \cup {x}) \cup {0} : m >= k
      BY <2>1, <2>3
    <3> QED BY <3>1
  <2>4. CASE x >= m
    <3>1. \A k \in (A \cup {x}) \cup {0} : x >= k
      BY <2>1, <2>2, <2>4
    <3> QED BY <3>1
  <2> QED BY <2>2, <2>3, <2>4
<1>3. \A A \in SUBSET S : A \in T
  <2> HIDE DEF T
  <2> QED BY <1>1, <1>2, SubsetInduction
<1>4. \E m \in S \cup {0} : \A k \in S \cup {0} : m >= k
  BY <1>3
<1>5. Max(S \cup {0}) \in S \cup {0} /\ \A k \in S \cup {0} : Max(S \cup {0}) >= k
  BY <1>4 DEF Max
<1> DEFINE n == Max(S \cup {0})
<1>6. n \in S \cup {0} /\ \A k \in S : n >= k
  BY <1>5
<1> HIDE DEF n
<1>7. n \in Nat /\ \A k \in S : k \in Nat
  BY <1>6
<1>8. \A k \in S : k <= n
  BY <1>6, <1>7
<1> QED BY <1>7, <1>8 DEF n

-----------------------------------------------------------------------------
(* The invariant of a trace.                                               *)

Trace == [files : SUBSET TraceFile, open : Nat \cup {Closed}, pos : Nat,
          writable : BOOLEAN, now : Nat]
TraceConfiguration == [file_size : Nat, max_size : Nat, by_time : BOOLEAN]

(* The files beside x leave room for one.                                  *)
LeavesRoom(c, files, x) == files \ {x} = {} \/ TotalSize(files \ {x}) <= Room(c)

(* What holds of a trace with or without an open file.  A file that is     *)
(* named after this second may be opened again without making room.        *)
InUse(t) == t.open # Closed
Orderly(c, t) ==
  /\ t \in Trace /\ IsFiniteSet(t.files)
  /\ \A x, y \in t.files : x.name = y.name => x = y
  /\ \A x \in t.files : x.time <= t.now /\ (c.by_time => x.name <= x.time)
  /\ c.by_time => \A x \in t.files : x.name = t.now =>
       LeavesRoom(c, t.files, x) /\ (InUse(t) => t.open = x.name)
Writes(c, t, x) ==
  /\ x.name = t.open
  /\ \A y \in t.files : y.time <= x.time
  /\ LeavesRoom(c, t.files, x)
TraceInv(c, t) == Orderly(c, t) /\ (InUse(t) => \E x \in t.files : Writes(c, t, x))

LEMMA CreatedTrace ==
  ASSUME NEW c \in TraceConfiguration, NEW t, Orderly(c, t),
         t.writable => Fit(c, t.files)
  PROVE  TraceInv(c, CreateNewFile(c, t))
<1> DEFINE n == NewName(c, t)
           known == \E x \in t.files : x.name = n
           u == CreateNewFile(c, t)
<1>1. /\ t \in Trace /\ t.files \in SUBSET TraceFile /\ IsFiniteSet(t.files)
      /\ t.now \in Nat /\ t.writable \in BOOLEAN /\ c.by_time \in BOOLEAN
  BY DEF Orderly, Trace, TraceConfiguration
<1>2. \A x \in t.files : x.name \in Nat /\ x.time \in Nat /\ x.size \in Nat
  BY <1>1 DEF TraceFile
<1>3. n \in Nat /\ (known => c.by_time) /\ (c.by_time => n = t.now)
  <2>1. CASE c.by_time
    BY <1>1, <2>1 DEF NewName
  <2>2. CASE ~c.by_time
    <3> DEFINE N == {x.name : x \in t.files}
               top == Max(N \cup {0})
    <3>1. IsFiniteSet(N) /\ N \subseteq Nat
      <4> DEFINE name == [x \in t.files |-> x.name]
      <4>1. name \in Surjection(t.files, N)
        BY DEF Surjection
      <4> QED BY <1>1, <1>2, <4>1, FS_Surjection
    <3> HIDE DEF N
    <3>2. top \in Nat /\ \A k \in N : k <= top
      BY <3>1, NumberIsNew
    <3>3. n = top + 1
      BY <2>2 DEF NewName, N
    <3> HIDE DEF top, n
    <3>4. n \in Nat /\ n \notin N
      BY <3>1, <3>2, <3>3
    <3> QED BY <2>2, <3>4 DEF N
  <2> QED BY <1>1, <2>1, <2>2
<1> HIDE DEF n
<1>4. CASE ~t.writable /\ ~known
  <2>1. u = [t EXCEPT !.open = Closed]
    BY <1>4 DEF CreateNewFile, n
  <2> HIDE DEF u
  <2>2. /\ u \in Trace /\ u.files = t.files /\ u.now = t.now /\ ~InUse(u)
    BY <1>1, <2>1 DEF Trace, InUse
  <2>3. c.by_time => \A x \in t.files : x.name # t.now
    BY <1>3, <1>4
  <2>4. Orderly(c, u)
    BY <2>2, <2>3 DEF Orderly
  <2> QED BY <2>2, <2>4 DEF TraceInv, u
<1>5. CASE known
  <2>1. u = [t EXCEPT !.open = n, !.pos = 0]
    BY <1>1, <1>5 DEF CreateNewFile, n, Trace
  <2> HIDE DEF u
  <2>2. /\ u \in Trace /\ u.files = t.files /\ u.now = t.now /\ u.open = n
    BY <1>1, <1>3, <2>1 DEF Trace
  <2>3. c.by_time /\ n = t.now
    BY <1>3, <1>5
  <2>4. PICK x \in t.files : x.name = n
    BY <1>5
  <2>5. x.name <= x.time /\ \A y \in t.files : y.time <= t.now
    BY <2>3 DEF Orderly
  <2>6. \A y \in t.files : y.time <= x.time
    BY <1>1, <1>2, <2>3, <2>4, <2>5
  <2>7. LeavesRoom(c, t.files, x)
    BY <2>3, <2>4 DEF Orderly
  <2>8. Writes(c, u, x)
    BY <2>2, <2>4, <2>6, <2>7 DEF Writes
  <2>9. Orderly(c, u)
    BY <2>2, <2>3 DEF Orderly
  <2> QED BY <2>2, <2>4, <2>8, <2>9 DEF TraceInv, u
<1>6. CASE t.writable /\ ~known
  <2> DEFINE new == [name |-> n, time |-> t.now, size |-> 0]
  <2>1. u = [t EXCEPT !.open = n, !.pos = 0, !.files = @ \cup {new}]
    BY <1>1, <1>6 DEF CreateNewFile, n
  <2>2. /\ new \in TraceFile /\ new.name = n /\ new.time = t.now
        /\ \A x \in t.files : x.name # new.name
    BY <1>1, <1>3, <1>6 DEF TraceFile
  <2> HIDE DEF u, new
  <2>3. /\ u \in Trace /\ u.files = t.files \cup {new} /\ u.now = t.now /\ u.open = n
    BY <1>1, <1>3, <2>1, <2>2 DEF Trace
  <2>4. IsFiniteSet(u.files) /\ u.files \ {new} = t.files
    BY <1>1, <2>2, <2>3, FS_AddElement
  <2>5. LeavesRoom(c, u.files, new)
    BY <1>6, <2>4 DEF LeavesRoom, Fit
  <2>6. \A y \in u.files : y.time <= new.time
    BY <1>1, <2>2, <2>3 DEF Orderly
  <2>7. Writes(c, u, new)
    BY <2>2, <2>3, <2>5, <2>6 DEF Writes
  <2>8. \A x, y \in u.files : x.name = y.name => x = y
    BY <2>2, <2>3 DEF Orderly
  <2>9. \A x \in u.files : x.time <= u.now /\ (c.by_time => x.name <= x.time)
    BY <1>1, <1>3, <2>2, <2>3 DEF Orderly
  <2>10. c.by_time => \A x \in u.files : x.name = u.now =>
           LeavesRoom(c, u.files, x) /\ u.open = x.name
    BY <1>3, <2>2, <2>3, <2>5
  <2>11. Orderly(c, u)
    BY <2>3, <2>4, <2>8, <2>9, <2>10 DEF Orderly
  <2> QED BY <2>3, <2>7, <2>11 DEF TraceInv, u
<1> QED BY <1>4, <1>5, <1>6

LEMMA RenewedTrace ==
  ASSUME NEW c \in TraceConfiguration, NEW t, Orderly(c, t), NEW u \in Renewed(c, t)
  PROVE  TraceInv(c, u)
<1>1. /\ t \in Trace /\ t.files \in SUBSET TraceFile /\ IsFiniteSet(t.files)
      /\ t.writable \in BOOLEAN
  BY DEF Orderly, Trace
<1>2. CASE ~t.writable
  BY <1>2, CreatedTrace DEF Renewed
<1>3. CASE t.writable
  <2>1. PICK rest \in Remaining(c, t.files) : u = CreateNewFile(c, [t EXCEPT !.files = rest])
    BY <1>3 DEF Renewed
  <2>2. rest \in SUBSET t.files /\ Fit(c, rest)
    BY DEF Remaining
  <2> DEFINE v == [t EXCEPT !.files = rest]
  <2>3. /\ v \in Trace /\ v.files = rest /\ v.now = t.now /\ v.open = t.open
    BY <1>1, <2>2 DEF Trace
  <2> HIDE DEF v
  <2>4. IsFiniteSet(rest) /\ rest \in SUBSET TraceFile
    BY <1>1, <2>2, FS_Subset
  <2>5. ASSUME NEW x \in rest, LeavesRoom(c, t.files, x) PROVE LeavesRoom(c, rest, x)
    <3>1. rest \ {x} \in SUBSET (t.files \ {x})
      BY <2>2
    <3>2. CASE t.files \ {x} = {}
      BY <3>1, <3>2 DEF LeavesRoom
    <3>3. CASE TotalSize(t.files \ {x}) <= Room(c)
      <4> DEFINE S == t.files \ {x}
                 A == rest \ {x}
      <4>1. S \in SUBSET TraceFile /\ IsFiniteSet(S)
        BY <1>1, FS_Subset
      <4>2. A \in SUBSET TraceFile /\ IsFiniteSet(A)
        BY <2>4, FS_Subset
      <4>3. Room(c) \in Int
        BY DEF Room, TraceConfiguration
      <4> HIDE DEF S, A
      <4>4. TotalSize(A) \in Nat /\ TotalSize(S) \in Nat /\ TotalSize(A) <= TotalSize(S)
        BY <3>1, <4>1, <4>2, TotalFacts DEF S, A
      <4>5. TotalSize(A) <= Room(c)
        BY <3>3, <4>3, <4>4 DEF S
      <4> QED BY <4>5 DEF LeavesRoom, A
    <3> QED BY <2>5, <3>2, <3>3 DEF LeavesRoom
  <2>6. Orderly(c, v)
    <3>1. \A x, y \in rest : x.name = y.name => x = y
      BY <2>2 DEF Orderly
    <3>2. \A x \in rest : x.time <= v.now /\ (c.by_time => x.name <= x.time)
      BY <2>2, <2>3 DEF Orderly
    <3>3. c.by_time => \A x \in rest : x.name = v.now =>
            LeavesRoom(c, rest, x) /\ (InUse(v) => v.open = x.name)
      BY <2>2, <2>3, <2>5 DEF Orderly, InUse
    <3> QED BY <2>3, <2>4, <3>1, <3>2, <3>3 DEF Orderly
  <2> QED BY <2>1, <2>2, <2>3, <2>6, CreatedTrace DEF v
<1> QED BY <1>1, <1>2, <1>3

(* Writing lets the file grow that is open, and no other.                  *)
LEMMA PutTrace ==
  ASSUME NEW c \in TraceConfiguration, NEW t, TraceInv(c, t), NEW n \in Nat
  PROVE  TraceInv(c, Put(t, n))
<1>1. CASE ~InUse(t)
  BY <1>1 DEF Put, InUse
<1>2. CASE InUse(t)
  <2>1. PICK x \in t.files : Writes(c, t, x)
    BY <1>2 DEF TraceInv
  <2>2. /\ Orderly(c, t) /\ t \in Trace /\ t.files \in SUBSET TraceFile
        /\ IsFiniteSet(t.files) /\ t.now \in Nat /\ t.pos \in Nat
        /\ x \in TraceFile /\ x.name = t.open
    BY <2>1 DEF TraceInv, Orderly, Writes, Trace
  <2> DEFINE size == Max({x.size, t.pos + n})
             z == [x EXCEPT !.time = t.now, !.size = size]
             others == t.files \ {x}
             u == Put(t, n)
             grown(y) == IF y.name # t.open THEN y
                         ELSE [y EXCEPT !.time = t.now, !.size = Max({@, t.pos + n})]
  <2>3. size \in Nat
    <3>1. x.size \in Nat /\ t.pos + n \in Nat
      BY <2>2 DEF TraceFile
    <3>2. \E m \in {x.size, t.pos + n} : \A k \in {x.size, t.pos + n} : m >= k
      BY <3>1
    <3>3. size \in {x.size, t.pos + n}
      BY <3>2 DEF Max
    <3> QED BY <3>1, <3>3
  <2>4. u = [t EXCEPT !.files = {grown(y) : y \in @}, !.pos = @ + n]
    BY <1>2 DEF Put, InUse
  <2>5. grown(x) = z /\ \A y \in others : grown(y) = y /\ y.name # x.name
    BY <2>2 DEF Orderly
  <2> HIDE DEF size
  <2>6. z \in TraceFile /\ z.name = x.name /\ z.time = t.now
    BY <2>2, <2>3 DEF TraceFile
  <2> HIDE DEF z, grown, u
  <2>7. {grown(y) : y \in t.files} = others \cup {z}
    BY <2>5
  <2>8. /\ u \in Trace /\ u.files = others \cup {z}
        /\ u.now = t.now /\ u.open = t.open
    <3> DEFINE F == others \cup {z}
    <3>1. u = [t EXCEPT !.files = F, !.pos = t.pos + n]
      BY <2>4, <2>7
    <3>2. F \in SUBSET TraceFile /\ t.pos + n \in Nat
      BY <2>2, <2>6
    <3> HIDE DEF F
    <3>3. /\ u \in Trace /\ u.files = F /\ u.now = t.now /\ u.open = t.open
      BY <2>2, <3>1, <3>2 DEF Trace
    <3> QED BY <3>3 DEF F
  <2>9. z \notin others /\ u.files \ {z} = others
    BY <2>5, <2>6, <2>8
  <2>10. IsFiniteSet(u.files)
    <3>1. IsFiniteSet(others)
      BY <2>2, FS_Subset
    <3> QED BY <2>8, <3>1, FS_AddElement
  <2>11. LeavesRoom(c, u.files, z)
    BY <2>1, <2>9 DEF Writes, LeavesRoom
  <2>12. \A y \in u.files : y.time <= z.time
    BY <2>2, <2>6, <2>8 DEF Orderly
  <2>13. Writes(c, u, z)
    BY <2>2, <2>6, <2>8, <2>11, <2>12 DEF Writes
  <2>14. \A y, w \in u.files : y.name = w.name => y = w
    BY <2>2, <2>5, <2>6, <2>8 DEF Orderly
  <2>15. ASSUME NEW y \in u.files PROVE y.time <= u.now /\ (c.by_time => y.name <= y.time)
    <3>1. CASE y = z
      <4>1. x.time <= t.now /\ (c.by_time => x.name <= x.time)
        BY <2>2 DEF Orderly
      <4>2. x.time \in Nat /\ x.name \in Nat
        BY <2>2 DEF TraceFile
      <4> QED BY <2>2, <2>6, <2>8, <3>1, <4>1, <4>2
    <3>2. CASE y \in others
      BY <2>2, <2>8, <3>2 DEF Orderly
    <3> QED BY <2>8, <3>1, <3>2
  <2>16. ASSUME c.by_time, NEW y \in u.files, y.name = u.now
         PROVE  LeavesRoom(c, u.files, y) /\ u.open = y.name
    <3>1. y = z
      <4> SUFFICES ASSUME y \in others PROVE FALSE
        BY <2>8
      <4>1. t.open = y.name
        BY <1>2, <2>2, <2>8, <2>16 DEF Orderly
      <4> QED BY <2>2, <2>5, <4>1
    <3> QED BY <2>2, <2>6, <2>8, <2>11, <3>1
  <2>17. Orderly(c, u)
    BY <2>8, <2>10, <2>14, <2>15, <2>16 DEF Orderly
  <2> QED BY <2>8, <2>13, <2>17 DEF TraceInv, u
<1> QED BY <1>1, <1>2

LEMMA AddMessageTrace ==
  ASSUME NEW c \in TraceConfiguration, NEW t, TraceInv(c, t), NEW n \in Nat,
         NEW u \in AddMessage(c, t, n)
  PROVE  TraceInv(c, u)
<1>1. CASE u = t
  BY <1>1
<1>2. CASE u = Put(t, n)
  BY <1>2, PutTrace
<1>3. CASE \E v \in Renewed(c, t) : u = Put(v, n)
  <2>1. PICK v \in Renewed(c, t) : u = Put(v, n)
    BY <1>3
  <2>2. TraceInv(c, v)
    BY RenewedTrace DEF TraceInv
  <2> QED BY <2>1, <2>2, PutTrace
<1>4. u = t \/ u = Put(t, n) \/ \E v \in Renewed(c, t) : u = Put(v, n)
  BY DEF AddMessage
<1> QED BY <1>1, <1>2, <1>3, <1>4

(* A restart goes on in a new file.                                        *)
LEMMA RestartedTrace ==
  ASSUME NEW c \in TraceConfiguration, NEW t, TraceInv(c, t),
         NEW u \in Begin(c, [t EXCEPT !.open = Closed])
  PROVE  TraceInv(c, u)
<1> DEFINE v == [t EXCEPT !.open = Closed]
<1>1. t \in Trace /\ Orderly(c, t)
  BY DEF TraceInv, Orderly
<1>2. v \in Trace /\ v.files = t.files /\ v.now = t.now /\ v.open = Closed
  BY <1>1 DEF Trace
<1>3. u \in Renewed(c, v)
  BY DEF Begin
<1> HIDE DEF v
<1>4. Orderly(c, v)
  BY <1>1, <1>2 DEF Orderly, InUse
<1> QED BY <1>3, <1>4, RenewedTrace

LEMMA FirstTrace ==
  ASSUME NEW c \in TraceConfiguration, NEW u \in Begin(c, TraceOff)
  PROVE  TraceInv(c, u)
<1>1. /\ TraceOff \in Trace /\ TraceOff.files = {} /\ IsFiniteSet({})
  BY FS_EmptySet DEF TraceOff, Trace
<1>2. Orderly(c, TraceOff)
  BY <1>1 DEF Orderly
<1> QED BY <1>2, RenewedTrace DEF Begin

(* The clock, and the directory.                                           *)
LEMMA TickedTrace ==
  ASSUME NEW c \in TraceConfiguration, NEW t, TraceInv(c, t)
  PROVE  TraceInv(c, [t EXCEPT !.now = @ + 1])
<1> DEFINE u == [t EXCEPT !.now = @ + 1]
<1>1. t \in Trace /\ Orderly(c, t) /\ t.now \in Nat /\ t.files \in SUBSET TraceFile
  BY DEF TraceInv, Orderly, Trace
<1>2. u \in Trace /\ u.files = t.files /\ u.now = t.now + 1 /\ u.open = t.open
  BY <1>1 DEF Trace
<1> HIDE DEF u
<1>3. \A x \in t.files : x.name \in Nat /\ x.time \in Nat
  BY <1>1 DEF TraceFile
<1>4. \A x \in u.files : x.time <= u.now /\ (c.by_time => x.name <= x.time)
  BY <1>1, <1>2, <1>3 DEF Orderly
<1>5. c.by_time => \A x \in u.files : x.name # u.now
  BY <1>1, <1>2, <1>3 DEF Orderly
<1>6. Orderly(c, u)
  BY <1>1, <1>2, <1>4, <1>5 DEF Orderly
<1>7. \A x \in t.files : Writes(c, t, x) => Writes(c, u, x)
  BY <1>2 DEF Writes
<1> QED BY <1>2, <1>6, <1>7 DEF TraceInv, InUse, u

LEMMA ProtectedTrace ==
  ASSUME NEW c \in TraceConfiguration, NEW t, TraceInv(c, t)
  PROVE  TraceInv(c, [t EXCEPT !.writable = ~@])
<1> DEFINE u == [t EXCEPT !.writable = ~@]
<1>1. t \in Trace /\ Orderly(c, t)
  BY DEF TraceInv, Orderly
<1>2. u \in Trace /\ u.files = t.files /\ u.now = t.now /\ u.open = t.open
  BY <1>1 DEF Trace
<1> HIDE DEF u
<1>3. Orderly(c, u)
  BY <1>1, <1>2 DEF Orderly, InUse
<1>4. \A x \in t.files : Writes(c, t, x) => Writes(c, u, x)
  BY <1>2 DEF Writes
<1> QED BY <1>2, <1>3, <1>4 DEF TraceInv, InUse, u

-----------------------------------------------------------------------------
(* The daemon.                                                             *)

Configured == TraceConf[conf.n]
FilesInv ==
  /\ conf.n \in DOMAIN Conf
  /\ \A m \in DOMAIN conf.found : m.size \in Nat
  /\ Traced => TraceInv(Configured, trace)

LEMMA ConfiguredIs ==
  ASSUME conf.n \in DOMAIN Conf, Traced
  PROVE  Configured \in TraceConfiguration
BY DaemonFilesAssumption DEF Traced, Configured, TraceConfiguration

LEMMA FilesInit ==
  ASSUME InitFiles
  PROVE  FilesInv
<1>1. PICK n \in DOMAIN Conf : conf = Read(Conf[n], n)
  BY DEF InitFiles, Init
<1>2. conf.n = n /\ DOMAIN conf.found = Conf[n].messages
  BY <1>1 DEF Read
<1>3. \A m \in DOMAIN conf.found : m.size \in Nat
  BY <1>2, DaemonFilesAssumption
<1>4. ASSUME Traced PROVE TraceInv(Configured, trace)
  <2>1. Configured \in TraceConfiguration
    BY <1>2, <1>4, ConfiguredIs
  <2>2. trace \in Begin(Configured, TraceOff)
    BY <1>4 DEF InitFiles, Configured
  <2> QED BY <2>1, <2>2, FirstTrace
<1> QED BY <1>2, <1>3, <1>4 DEF FilesInv

LEMMA ConfStays == [NextFiles]_allvars => conf' = conf
BY DEF NextFiles, Restart, Exit, Crash, Device, Connect, Disconnect, SyncCaches,
       Unplug, Plug, CrashRotating, Tick, Protect, Send, Message, allvars, vars

LEMMA FilesStep ==
  ASSUME FilesInv, [NextFiles]_allvars
  PROVE  FilesInv'
<1> SUFFICES ASSUME conf' = conf, Traced, TraceInv(Configured, trace)
             PROVE  TraceInv(Configured, trace')
  <2>1. conf' = conf
    BY ConfStays
  <2> QED BY <2>1 DEF FilesInv, Traced, Configured
<1> DEFINE c == Configured
<1>1. c \in TraceConfiguration
  BY ConfiguredIs DEF FilesInv
<1>2. CASE Restart
  <2>1. trace' \in Begin(c, [trace EXCEPT !.open = Closed])
    BY <1>2 DEF Restart, TraceNext, Configured
  <2> QED BY <1>1, <2>1, RestartedTrace
<1>3. CASE Device
  BY <1>3 DEF Device
<1>4. CASE Tick
  BY <1>1, <1>4, TickedTrace DEF Tick
<1>5. CASE Protect
  BY <1>1, <1>5, ProtectedTrace DEF Protect
<1>6. ASSUME NEW m \in DOMAIN conf.found, Send(m) PROVE TraceInv(c, trace')
  <2>1. trace' \in AddMessage(c, trace, m.size)
    BY <1>6 DEF Send, TraceNext, Configured
  <2>2. m.size \in Nat
    BY DEF FilesInv
  <2> QED BY <1>1, <2>1, <2>2, AddMessageTrace
<1>7. CASE UNCHANGED allvars
  BY <1>7 DEF allvars
<1> QED BY <1>2, <1>3, <1>4, <1>5, <1>6, <1>7 DEF NextFiles

(* A file is no larger than all of them together: the configuration may    *)
(* say otherwise, and then no file fits.                                   *)
FileFitsTrace ==
  \A n \in DOMAIN Conf :
    TraceConf[n] # Absent => TraceConf[n].file_size <= TraceConf[n].max_size

LEMMA TraceWithinSize ==
  ASSUME FilesInv, FileFitsTrace
  PROVE  TraceFits
<1> DEFINE c == Configured
<1> SUFFICES ASSUME Traced, InUse(trace)
             PROVE  LET current == {x \in trace.files : x.name = trace.open}
                    IN /\ current # {}
                       /\ \A x \in current :
                            /\ \A y \in trace.files : y.time <= x.time
                            /\ TotalSize(trace.files) <= c.max_size \/ x.size > c.file_size
  BY DEF TraceFits, InUse, Configured
<1>1. /\ c \in TraceConfiguration /\ TraceInv(c, trace) /\ c.file_size <= c.max_size
  BY ConfiguredIs DEF FilesInv, FileFitsTrace, Traced, Configured
<1>2. PICK x \in trace.files : Writes(c, trace, x)
  BY <1>1 DEF TraceInv
<1>3. /\ trace.files \in SUBSET TraceFile /\ IsFiniteSet(trace.files)
      /\ \A y \in trace.files : y.name = trace.open => y = x
  BY <1>1, <1>2 DEF TraceInv, Orderly, Trace, Writes
<1>4. TotalSize(trace.files) <= c.max_size \/ x.size > c.file_size
  <2> DEFINE others == trace.files \ {x}
  <2>1. /\ c.file_size \in Nat /\ c.max_size \in Nat /\ c.file_size <= c.max_size
        /\ x.size \in Nat /\ x \in trace.files
    BY <1>1, <1>2, <1>3 DEF TraceConfiguration, TraceFile
  <2>2. others \in SUBSET TraceFile /\ IsFiniteSet(others)
    BY <1>3, FS_Subset
  <2>3. TotalSize(trace.files) = x.size + TotalSize(others)
    BY <1>3, <2>1, TotalFacts
  <2> HIDE DEF others
  <2>4. TotalSize(others) \in Nat
    BY <2>2, TotalFacts
  <2>5. others = {} \/ TotalSize(others) <= c.max_size - c.file_size
    BY <1>2 DEF Writes, LeavesRoom, Room, others
  <2>6. others = {} => TotalSize(others) = 0
    <3>1. SUFFICES ASSUME others = {} PROVE TotalSize({}) = 0
      OBVIOUS
    <3>2. {} \in SUBSET TraceFile /\ IsFiniteSet({})
      BY FS_EmptySet
    <3> QED BY <3>2, TotalIsSum, SumEmpty
  <2> QED BY <2>1, <2>3, <2>4, <2>5, <2>6
<1> QED BY <1>2, <1>3, <1>4 DEF Writes

(* The trace stays within OfflineTraceMaxSize, but for one message that is *)
(* longer than a file, and making room never takes away the file that is   *)
(* open (mct_offline_trace_check_size, mct_offline_trace_create_new_file): *)
(* for any sizes of which a file's is the smaller one, any messages, file  *)
(* names by number or by time, restarts and directories that cannot be     *)
(* written for a while.                                                    *)
THEOREM TraceFitsCorrect ==
  ASSUME FileFitsTrace
  PROVE  SpecFiles => []TraceFits
<1>1. InitFiles => FilesInv
  BY FilesInit
<1>2. FilesInv /\ [NextFiles]_allvars => FilesInv'
  BY FilesStep
<1>3. FilesInv => TraceFits
  BY TraceWithinSize
<1> QED BY <1>1, <1>2, <1>3, PTL DEF SpecFiles

-----------------------------------------------------------------------------
(* Sequences that list a set: every element of it, each of them once.      *)

Once(s, A) ==
  /\ s \in Seq(A)
  /\ \A x \in A : \E i \in 1..Len(s) : s[i] = x
  /\ \A i, j \in 1..Len(s) : s[i] = s[j] => i = j

LEMMA OnceEmpty == Once(<<>>, {})
BY DEF Once

LEMMA OnceFacts ==
  ASSUME NEW A, NEW s, Once(s, A)
  PROVE  /\ Len(s) \in Nat /\ DOMAIN s = 1..Len(s) /\ s \in [1..Len(s) -> A]
         /\ \A i \in 1..Len(s) : s[i] \in A
         /\ \A x \in A : \E i \in 1..Len(s) : s[i] = x
         /\ \A i, j \in 1..Len(s) : s[i] = s[j] => i = j
<1>1. s \in Seq(A)
  BY DEF Once
<1>2. Len(s) \in Nat /\ DOMAIN s = 1..Len(s) /\ s \in [1..Len(s) -> A]
  BY <1>1
<1>3. \A i \in 1..Len(s) : s[i] \in A
  BY <1>2
<1> QED BY <1>2, <1>3 DEF Once

LEMMA OnceIsRange ==
  ASSUME NEW A, NEW s, Once(s, A)
  PROVE  Range(s) = A /\ IsFiniteSet(A) /\ Cardinality(A) = Len(s)
<1>1. s \in Seq(A) /\ Len(s) \in Nat /\ DOMAIN s = 1..Len(s) /\ s \in [1..Len(s) -> A]
  BY DEF Once
<1>2. Range(s) = A
  BY <1>1 DEF Once, Range
<1>3. s \in Bijection(1..Len(s), A)
  BY <1>1 DEF Once, Bijection, Injection, IsInjective, Surjection
<1>4. IsFiniteSet(1..Len(s)) /\ Cardinality(1..Len(s)) = Len(s)
  <2>1. 1 \in Int /\ Len(s) \in Int /\ Len(s) >= 0
    BY <1>1
  <2>2. Cardinality(1..Len(s)) = IF 1 > Len(s) THEN 0 ELSE Len(s) - 1 + 1
    BY <2>1, FS_Interval
  <2>3. IsFiniteSet(1..Len(s))
    BY <2>1, FS_Interval
  <2>4. (IF 1 > Len(s) THEN 0 ELSE Len(s) - 1 + 1) = Len(s)
    BY <2>1
  <2> QED BY <2>2, <2>3, <2>4
<1>5. IsFiniteSet(A) /\ Cardinality(A) = Cardinality(1..Len(s))
  <2> DEFINE I == 1..Len(s)
  <2>1. s \in Bijection(I, A) /\ IsFiniteSet(I)
    BY <1>3, <1>4
  <2> HIDE DEF I
  <2>2. IsFiniteSet(A) /\ Cardinality(A) = Cardinality(I)
    BY <2>1, FS_Bijection DEF ExistsBijection
  <2> QED BY <2>2 DEF I
<1> QED BY <1>2, <1>4, <1>5

LEMMA OnceConcat ==
  ASSUME NEW A, NEW B, A \cap B = {}, NEW s, Once(s, A), NEW t, Once(t, B)
  PROVE  Once(s \o t, A \cup B)
<1> DEFINE C == A \cup B
           m == Len(s)
           n == Len(t)
           u == s \o t
<1>1. m \in Nat /\ n \in Nat /\ s \in Seq(C) /\ t \in Seq(C)
  <2>1. s \in Seq(A) /\ t \in Seq(B)
    BY DEF Once
  <2>2. s \in [1..m -> A] /\ t \in [1..n -> B] /\ m \in Nat /\ n \in Nat
    BY <2>1
  <2>3. s \in [1..m -> C] /\ t \in [1..n -> C]
    BY <2>2
  <2>4. s = [i \in 1..m |-> s[i]] /\ t = [i \in 1..n |-> t[i]]
    BY <2>2
  <2>5. [i \in 1..m |-> s[i]] \in Seq(C) /\ [i \in 1..n |-> t[i]] \in Seq(C)
    BY <2>2, <2>3
  <2> QED BY <2>2, <2>4, <2>5
<1>2. /\ u \in Seq(C) /\ Len(u) = m + n
      /\ \A i \in 1..m : u[i] = s[i]
      /\ \A i \in 1..n : u[m + i] = t[i]
  BY <1>1
<1>3. /\ \A i \in 1..m : s[i] \in A
      /\ \A i \in 1..n : t[i] \in B
      /\ \A x \in A : \E i \in 1..m : s[i] = x
      /\ \A x \in B : \E i \in 1..n : t[i] = x
      /\ \A i, j \in 1..m : s[i] = s[j] => i = j
      /\ \A i, j \in 1..n : t[i] = t[j] => i = j
  BY OnceFacts
<1> HIDE DEF u, m, n
<1>4. \A i \in 1..(m + n) : i \in 1..m \/ (i - m \in 1..n /\ i = m + (i - m))
  BY <1>1
<1>5. ASSUME NEW x \in C PROVE \E i \in 1..(m + n) : u[i] = x
  <2>1. CASE x \in A
    <3>1. PICK i \in 1..m : s[i] = x
      BY <1>3, <2>1
    <3>2. i \in 1..(m + n)
      BY <1>1
    <3> QED BY <1>2, <3>1, <3>2
  <2>2. CASE x \in B
    <3>1. PICK i \in 1..n : t[i] = x
      BY <1>3, <2>2
    <3>2. m + i \in 1..(m + n)
      BY <1>1
    <3> QED BY <1>2, <3>1, <3>2
  <2> QED BY <2>1, <2>2
<1>6. ASSUME NEW i \in 1..(m + n), NEW j \in 1..(m + n), u[i] = u[j] PROVE i = j
  <2>1. /\ i \in 1..m => u[i] = s[i] /\ u[i] \in A
        /\ j \in 1..m => u[j] = s[j] /\ u[j] \in A
    BY <1>2, <1>3
  <2>2. /\ i - m \in 1..n => u[i] = t[i - m] /\ u[i] \in B
        /\ j - m \in 1..n => u[j] = t[j - m] /\ u[j] \in B
    <3>1. ASSUME NEW k \in 1..(m + n), k - m \in 1..n
          PROVE  u[k] = t[k - m] /\ u[k] \in B
      <4> DEFINE l == k - m
      <4>1. l \in 1..n /\ k = m + l
        BY <1>1, <3>1
      <4> HIDE DEF l
      <4>2. u[m + l] = t[l] /\ t[l] \in B
        BY <1>2, <1>3, <4>1
      <4> QED BY <4>1, <4>2 DEF l
    <3> QED BY <3>1
  <2>3. CASE i \in 1..m
    <3>1. j \in 1..m
      BY <1>4, <1>6, <2>1, <2>2, <2>3
    <3> QED BY <1>3, <1>6, <2>1, <2>3, <3>1
  <2>4. CASE i - m \in 1..n
    <3>1. j - m \in 1..n
      BY <1>4, <1>6, <2>1, <2>2, <2>4
    <3>2. i - m = j - m
      BY <1>3, <1>6, <2>2, <2>4, <3>1
    <3> QED BY <1>1, <3>2
  <2> QED BY <1>4, <2>3, <2>4
<1>7. Once(u, C)
  BY <1>2, <1>5, <1>6 DEF Once
<1> QED BY <1>7 DEF u

LEMMA OnceAppend ==
  ASSUME NEW A, NEW t, Once(t, A), NEW x, x \notin A
  PROVE  Once(Append(t, x), A \cup {x})
<1>1. Once(<<x>>, {x})
  BY DEF Once
<1>2. Append(t, x) = t \o <<x>>
  <2>1. t \in Seq(A \cup {x}) /\ x \in A \cup {x}
    <3>1. t \in Seq(A)
      BY DEF Once
    <3> QED BY <3>1
  <2> QED BY <2>1
<1> QED BY <1>1, <1>2, OnceConcat

(* What is selected from a list.                                           *)
LEMMA SelectedIs ==
  ASSUME NEW A, NEW s, Once(s, A), NEW T
  PROVE  Once(Selected(s, T), A \cap T)
<1> DEFINE n == Len(s)
           D == 1..n
           W == Seq(A)
           next(t, x) == IF x \in T THEN Append(t, x) ELSE t
           c == MaxOf(n)
           Folded(g) == g = [B \in SUBSET D |->
                               IF B = {} THEN <<>>
                               ELSE next(g[B \ {Max(B)}], s[Max(B)])]
           Done(k) == {s[i] : i \in 1..k} \cap T
<1>0. n \in Nat /\ DOMAIN s = D /\ \A i \in D : s[i] \in A
  BY OnceFacts
<1>1. IsFiniteSet(D) /\ Chooses(c, D) /\ \A B \in SUBSET D : c[B] = Max(B)
  BY <1>0, MaxOfChooses DEF MaxOf
<1>2. \A v \in W : \A i \in D : next(v, s[i]) \in W
  BY <1>0, AppendFacts
<1>3. Selected(s, T) = (CHOOSE g : Folded(g))[D]
  BY <1>0 DEF Selected, FoldLeft, MapThenFoldSet
<1>4. <<>> \in W
  OBVIOUS
<1> HIDE DEF c, W, next
<1>5. \E g : Folded(g)
  <2> DEFINE F == [p \in D \X W |-> next(p[2], s[p[1]])]
  <2> HIDE DEF D
  <2>1. PICK g : FoldsTo(g, D, <<>>, c, F)
    <3> HIDE DEF F
    <3> QED BY <1>1, FoldExists
  <2>2. \A i \in D : \A v \in W : F[<<i, v>>] = next(v, s[i])
    OBVIOUS
  <2> HIDE DEF F
  <2>3. ASSUME NEW B \in SUBSET D, B # {}, g[B \ {c[B]}] \in W
        PROVE  g[B] \in W /\ g[B] = next(g[B \ {Max(B)}], s[Max(B)])
    <3>1. c[B] = Max(B) /\ c[B] \in D /\ g[B] = F[<<c[B], g[B \ {c[B]}]>>]
      BY <1>1, <2>1, <2>3 DEF Chooses, FoldsTo
    <3> QED BY <1>2, <2>2, <2>3, <3>1
  <2>4. g[{}] = <<>>
    BY <2>1 DEF FoldsTo
  <2>5. \A B \in SUBSET D : g[B] \in W
    <3>1. g[{}] \in W
      BY <1>4, <2>4
    <3>2. \A B \in SUBSET D : B # {} /\ g[B \ {c[B]}] \in W => g[B] \in W
      BY <2>3
    <3> HIDE DEF Folded, Done
    <3> QED BY <1>1, <3>1, <3>2, FoldStays
  <2>6. \A B \in SUBSET D : g[B] = IF B = {} THEN <<>>
                                   ELSE next(g[B \ {Max(B)}], s[Max(B)])
    <3> SUFFICES ASSUME NEW B \in SUBSET D, B # {}
                 PROVE  g[B] = next(g[B \ {Max(B)}], s[Max(B)])
      BY <2>4
    <3> QED BY <2>3, <2>5
  <2>7. Folded(g)
    BY <2>1, <2>6 DEF FoldsTo
  <2> QED BY <2>7
<1>6. ASSUME NEW g, Folded(g) PROVE Once(g[D], Done(n))
  <2> DEFINE K == {k \in 0..n : Once(g[1..k], Done(k))}
  <2>1. 0 \in K
    <3>1. 1..0 = {} /\ {} \in SUBSET D /\ Done(0) = {}
      OBVIOUS
    <3>2. g[{}] = <<>>
      BY <1>6
    <3>3. Once(g[1..0], Done(0)) /\ 0 \in 0..n
      <4>1. 0 \in 0..n
        BY <1>0
      <4>2. g[1..0] = <<>>
        BY <3>1, <3>2
      <4> HIDE DEF Done
      <4>3. Done(0) = {}
        BY <3>1
      <4> QED BY <4>1, <4>2, <4>3, OnceEmpty
    <3> QED BY <3>3
  <2>2. ASSUME NEW k \in 1..n, k - 1 \in K PROVE k \in K
    <3>1. g[1..k] = next(g[1..(k - 1)], s[k])
      <4> DEFINE B == 1..k
      <4>1. B \in SUBSET D /\ B # {} /\ Max(B) = k /\ B \ {k} = 1..(k - 1)
        BY <1>0, PrefixFacts
      <4> HIDE DEF B
      <4>2. g[B] = next(g[B \ {Max(B)}], s[Max(B)])
        BY <1>6, <4>1
      <4> QED BY <4>1, <4>2 DEF B
    <3>2. Once(g[1..(k - 1)], Done(k - 1))
      BY <2>2
    <3>3. Done(k) = IF s[k] \in T THEN Done(k - 1) \cup {s[k]} ELSE Done(k - 1)
      <4>1. 1..k = (1..(k - 1)) \cup {k}
        BY <1>0
      <4> QED BY <4>1
    <3>4. s[k] \notin Done(k - 1)
      <4>1. \A i \in 1..(k - 1) : i \in 1..n /\ i # k
        BY <1>0
      <4>2. \A i, j \in 1..n : s[i] = s[j] => i = j
        BY OnceFacts
      <4> QED BY <4>1, <4>2
    <3>5. k \in 0..n
      BY <1>0
    <3> HIDE DEF Done
    <3>6. Once(g[1..k], Done(k))
      <4>1. CASE s[k] \in T
        BY <3>1, <3>2, <3>3, <3>4, <4>1, OnceAppend DEF next
      <4>2. CASE s[k] \notin T
        BY <3>1, <3>2, <3>3, <4>2 DEF next
      <4> QED BY <4>1, <4>2
    <3> QED BY <3>5, <3>6
  <2>3. n \in K
    <3> HIDE DEF K, n
    <3> QED BY <1>0, <2>1, <2>2, UpToInduction
  <2> QED BY <2>3
<1>7. Done(n) = A \cap T
  <2>1. \A x \in A : \E i \in 1..n : s[i] = x
    BY OnceFacts
  <2> QED BY <1>0, <2>1
<1> HIDE DEF Folded, Done
<1>8. PICK g : Folded(g) /\ Selected(s, T) = g[D]
  BY <1>3, <1>5
<1> QED BY <1>6, <1>7, <1>8

LEMMA ListFindIs ==
  ASSUME NEW X, NEW list \in Seq(X), NEW key
  PROVE  Once(ListFind(list, key), {i \in DOMAIN list : key \in Keys(list[i])})
<1> DEFINE s == [i \in DOMAIN list |-> i]
           T == {i \in DOMAIN list : key \in Keys(list[i])}
           D == DOMAIN list
<1>1. Once(s, D)
  <2>1. D = 1..Len(list) /\ Len(list) \in Nat
    OBVIOUS
  <2>2. s \in [1..Len(list) -> D] /\ Len(s) = Len(list) /\ \A i \in D : s[i] = i
    BY <2>1
  <2>3. s \in Seq(D)
    BY <2>1, <2>2
  <2> QED BY <2>1, <2>2, <2>3 DEF Once
<1>2. D \cap T = T /\ ListFind(list, key) = Selected(s, T)
  BY DEF ListFind
<1> HIDE DEF s, T, D
<1>3. Once(Selected(s, T), D \cap T)
  BY <1>1, SelectedIs
<1> QED BY <1>2, <1>3 DEF T, D

-----------------------------------------------------------------------------
(* The filters that are found for a message.                               *)

LEMMA PossibleKeysAre ==
  ASSUME NEW m
  PROVE  Len(PossibleKeys(m)) \in Nat /\ DOMAIN PossibleKeys(m) = 1..Len(PossibleKeys(m))
<1>1. CASE m.apid = Absent
  BY <1>1 DEF PossibleKeys
<1>2. CASE m.apid # Absent
  BY <1>2 DEF PossibleKeys
<1> QED BY <1>1, <1>2

(* If no filter has two of the keys, it does not matter that the search    *)
(* ends when as many filters were found as there are.                      *)
Hit(list, key) == {i \in DOMAIN list : key \in Keys(list[i])}
LEMMA GetConfigIs ==
  ASSUME NEW X, NEW list \in Seq(X), NEW m,
         \A j, k \in DOMAIN PossibleKeys(m) : j # k =>
           Hit(list, PossibleKeys(m)[j]) \cap Hit(list, PossibleKeys(m)[k]) = {}
  PROVE  Once(GetConfig(list, m),
              UNION {Hit(list, PossibleKeys(m)[k]) : k \in DOMAIN PossibleKeys(m)})
<1> DEFINE ks == PossibleKeys(m)
           n == Len(ks)
           D == 1..n
           I == DOMAIN list
           W == Seq(I)
           next(found, key) == IF Len(found) = Len(list) THEN found
                               ELSE found \o ListFind(list, key)
           c == MaxOf(n)
           Folded(g) == g = [B \in SUBSET D |->
                               IF B = {} THEN <<>>
                               ELSE next(g[B \ {Max(B)}], ks[Max(B)])]
           hits(k) == Hit(list, ks[k])
           Done(k) == UNION {hits(i) : i \in 1..k}
<1>0. /\ n \in Nat /\ DOMAIN ks = D
      /\ \A j, k \in D : j # k => hits(j) \cap hits(k) = {}
  BY PossibleKeysAre
<1>1. IsFiniteSet(D) /\ Chooses(c, D) /\ \A B \in SUBSET D : c[B] = Max(B)
  BY <1>0, MaxOfChooses DEF MaxOf
<1>2. GetConfig(list, m) = (CHOOSE g : Folded(g))[D]
  BY <1>0 DEF GetConfig, FoldLeft, MapThenFoldSet
<1> HIDE DEF ks
<1>3. ASSUME NEW key
      PROVE  /\ Once(ListFind(list, key), Hit(list, key))
             /\ Hit(list, key) \in SUBSET I /\ ListFind(list, key) \in W
  <2>1. Once(ListFind(list, key), Hit(list, key)) /\ Hit(list, key) \in SUBSET I
    BY ListFindIs DEF Hit
  <2> DEFINE t == ListFind(list, key)
  <2> HIDE DEF t, I
  <2>2. Len(t) \in Nat /\ t \in [1..Len(t) -> Hit(list, key)] /\ t \in Seq(Hit(list, key))
    BY <2>1, OnceFacts DEF t, Once
  <2>3. t \in [1..Len(t) -> I]
    BY <2>1, <2>2
  <2>4. t = [i \in 1..Len(t) |-> t[i]] /\ [i \in 1..Len(t) |-> t[i]] \in Seq(I)
    BY <2>2, <2>3
  <2> QED BY <2>1, <2>4 DEF t
<1>4. <<>> \in W /\ \A v \in W : \A k \in D : next(v, ks[k]) \in W
  <2>1. \A v \in W : \A key : v \o ListFind(list, key) \in W
    BY <1>3, ConcatProperties
  <2>2. <<>> \in W
    OBVIOUS
  <2> HIDE DEF W, D
  <2>3. ASSUME NEW v \in W, NEW k \in D PROVE next(v, ks[k]) \in W
    BY <2>1
  <2> QED BY <2>2, <2>3
<1>5. IsFiniteSet(I) /\ Cardinality(I) = Len(list)
  <2>1. Len(list) \in Nat /\ I = 1..Len(list)
    OBVIOUS
  <2> DEFINE s == [i \in I |-> i]
  <2>2. s \in [1..Len(list) -> I] /\ Len(s) = Len(list) /\ \A i \in I : s[i] = i
    BY <2>1
  <2>3. s \in Seq(I)
    BY <2>1, <2>2
  <2>4. Once(s, I)
    BY <2>1, <2>2, <2>3 DEF Once
  <2> HIDE DEF s
  <2> QED BY <2>2, <2>4, OnceIsRange
<1> HIDE DEF c, W, next, I, D
<1>6. \E g : Folded(g)
  <2> DEFINE F == [p \in D \X W |-> next(p[2], ks[p[1]])]
  <2>1. PICK g : FoldsTo(g, D, <<>>, c, F)
    <3> HIDE DEF F
    <3> QED BY <1>1, FoldExists
  <2>2. \A i \in D : \A v \in W : F[<<i, v>>] = next(v, ks[i])
    OBVIOUS
  <2> HIDE DEF F
  <2>3. ASSUME NEW B \in SUBSET D, B # {}, g[B \ {c[B]}] \in W
        PROVE  g[B] \in W /\ g[B] = next(g[B \ {Max(B)}], ks[Max(B)])
    <3>1. c[B] = Max(B) /\ c[B] \in D /\ g[B] = F[<<c[B], g[B \ {c[B]}]>>]
      BY <1>1, <2>1, <2>3 DEF Chooses, FoldsTo
    <3> QED BY <1>4, <2>2, <2>3, <3>1
  <2>4. g[{}] = <<>>
    BY <2>1 DEF FoldsTo
  <2>5. \A B \in SUBSET D : g[B] \in W
    <3>1. g[{}] \in W
      BY <1>4, <2>4
    <3>2. \A B \in SUBSET D : B # {} /\ g[B \ {c[B]}] \in W => g[B] \in W
      BY <2>3
    <3> HIDE DEF Folded, Done
    <3> QED BY <1>1, <3>1, <3>2, FoldStays
  <2>6. \A B \in SUBSET D : g[B] = IF B = {} THEN <<>>
                                   ELSE next(g[B \ {Max(B)}], ks[Max(B)])
    <3> SUFFICES ASSUME NEW B \in SUBSET D, B # {}
                 PROVE  g[B] = next(g[B \ {Max(B)}], ks[Max(B)])
      BY <2>4
    <3> QED BY <2>3, <2>5
  <2>7. Folded(g)
    BY <2>1, <2>6 DEF FoldsTo
  <2> QED BY <2>7
<1>7. ASSUME NEW k \in 1..n, NEW s, Once(s, Done(k - 1))
      PROVE  Once(next(s, ks[k]), Done(k))
  <2>1. Done(k) = Done(k - 1) \cup hits(k)
    <3>1. 1..k = (1..(k - 1)) \cup {k}
      BY <1>0
    <3> QED BY <3>1
  <2>2. Done(k - 1) \cap hits(k) = {}
    <3>1. \A i \in 1..(k - 1) : i \in D /\ k \in D /\ i # k
      BY <1>0 DEF D
    <3> QED BY <1>0, <3>1
  <2>3. Done(k - 1) \in SUBSET I /\ hits(k) \in SUBSET I
    BY <1>3
  <2> HIDE DEF Done, hits
  <2>4. CASE Len(s) = Len(list)
    <3>1. IsFiniteSet(Done(k - 1)) /\ Cardinality(Done(k - 1)) = Cardinality(I)
      BY <1>5, <1>7, <2>4, OnceIsRange
    <3>2. Done(k - 1) = I
      BY <1>5, <2>3, <3>1, FS_Subset
    <3>3. Done(k) = Done(k - 1)
      BY <2>1, <2>3, <3>2
    <3> QED BY <1>7, <2>4, <3>3 DEF next
  <2>5. CASE Len(s) # Len(list)
    <3>1. Once(ListFind(list, ks[k]), hits(k))
      BY <1>3 DEF hits
    <3>2. Once(s \o ListFind(list, ks[k]), Done(k - 1) \cup hits(k))
      BY <1>7, <2>2, <3>1, OnceConcat
    <3> QED BY <2>1, <2>5, <3>2 DEF next
  <2> QED BY <2>4, <2>5
<1>8. ASSUME NEW g, Folded(g) PROVE Once(g[D], Done(n))
  <2> DEFINE K == {k \in 0..n : Once(g[1..k], Done(k))}
  <2>1. 0 \in K
    <3>1. 1..0 = {} /\ {} \in SUBSET D /\ Done(0) = {}
      OBVIOUS
    <3>2. g[{}] = <<>>
      BY <1>8
    <3>3. 0 \in 0..n
      BY <1>0
    <3>4. g[1..0] = <<>>
      BY <3>1, <3>2
    <3> HIDE DEF Done
    <3>5. Once(g[1..0], Done(0))
      BY <3>1, <3>4, OnceEmpty
    <3> QED BY <3>3, <3>5
  <2>2. ASSUME NEW k \in 1..n, k - 1 \in K PROVE k \in K
    <3>1. g[1..k] = next(g[1..(k - 1)], ks[k])
      <4> DEFINE B == 1..k
      <4>1. B \in SUBSET D /\ B # {} /\ Max(B) = k /\ B \ {k} = 1..(k - 1)
        BY <1>0, PrefixFacts DEF D
      <4> HIDE DEF B
      <4>2. g[B] = next(g[B \ {Max(B)}], ks[Max(B)])
        BY <1>8, <4>1
      <4> QED BY <4>1, <4>2 DEF B
    <3>2. Once(g[1..(k - 1)], Done(k - 1)) /\ k \in 0..n
      BY <1>0, <2>2
    <3> HIDE DEF Done
    <3>3. Once(g[1..k], Done(k))
      BY <1>7, <3>1, <3>2
    <3> QED BY <3>2, <3>3
  <2>3. n \in K
    <3> HIDE DEF K, n
    <3> QED BY <1>0, <2>1, <2>2, UpToInduction
  <2> QED BY <2>3 DEF D
<1> HIDE DEF Folded
<1>9. PICK g : Folded(g) /\ GetConfig(list, m) = g[D]
  BY <1>2, <1>6
<1>10. Done(n) = UNION {Hit(list, ks[k]) : k \in DOMAIN ks}
  BY <1>0 DEF D
<1> QED BY <1>8, <1>9, <1>10 DEF ks

(* The elements of a list are selected from it once.                       *)
LEMMA FoundIs ==
  ASSUME NEW list, NEW m, NEW A, Once(GetConfig(list, m), A)
  PROVE  Once(Found(list, m),
              {i \in A : /\ i \in DOMAIN list
                         /\ Passes(list[i], m) /\ list[i].file_name # Absent})
<1> DEFINE T == {i \in DOMAIN list : Passes(list[i], m) /\ list[i].file_name # Absent}
<1>1. Found(list, m) = Selected(GetConfig(list, m), T)
  BY DEF Found
<1>2. A \cap T = {i \in A : /\ i \in DOMAIN list
                            /\ Passes(list[i], m) /\ list[i].file_name # Absent}
  OBVIOUS
<1> HIDE DEF T
<1>3. Once(Selected(GetConfig(list, m), T), A \cap T)
  BY SelectedIs
<1> QED BY <1>1, <1>2, <1>3

(* A filter is in the table under its keys: its lists are lists of names,  *)
(* and there is a key.                                                     *)
HasNames(v) == v = Absent \/ IsNames(v)
Entered(f) == HasNames(f.apids) /\ HasNames(f.ctids) /\ Keys(f) # {}
ForMessage(m) ==
  /\ m.ecu # Absent /\ (m.apid = Absent <=> m.ctid = Absent)
  /\ Wild \notin {m.apid, m.ctid}

(* The one key under which a filter may be found for a message.            *)
KeyFor(f, m) ==
  IF f.apids = Absent \/ (f.apids = {Wild} /\ f.ctids = {Wild} /\ f.ecuid # Absent)
  THEN <<f.ecuid, Absent, Absent>>
  ELSE <<f.ecuid, IF f.apids = {Wild} THEN Absent ELSE m.apid,
                  IF f.ctids = {Wild} /\ f.apids # {Wild} THEN Absent ELSE m.ctid>>

LEMMA KeysOfEntered ==
  ASSUME NEW f, Entered(f)
  PROVE  \/ /\ f.ecuid # Absent /\ Keys(f) = {<<f.ecuid, Absent, Absent>>}
            /\ \/ f.apids = Absent /\ f.ctids = Absent
               \/ f.apids = {Wild} /\ f.ctids = {Wild}
         \/ /\ f.apids # Absent /\ f.ctids # Absent
            /\ IsNames(f.apids) /\ IsNames(f.ctids)
            /\ ~(f.apids = {Wild} /\ f.ctids = {Wild}) \/ f.ecuid = Absent
            /\ Keys(f) = {CASE a = Wild -> <<f.ecuid, Absent, c>>
                            [] a # Wild /\ c = Wild -> <<f.ecuid, a, Absent>>
                            [] OTHER -> <<f.ecuid, a, c>> : a \in f.apids, c \in f.ctids}
<1>1. CASE /\ f.ecuid # Absent
           /\ \/ f.apids = Absent /\ f.ctids = Absent
              \/ f.apids = {Wild} /\ f.ctids = {Wild}
  BY <1>1 DEF Keys
<1>2. CASE ~(/\ f.ecuid # Absent
             /\ \/ f.apids = Absent /\ f.ctids = Absent
                \/ f.apids = {Wild} /\ f.ctids = {Wild})
  <2>1. f.apids # Absent /\ f.ctids # Absent
    BY <1>2 DEF Keys, Entered
  <2> QED BY <1>2, <2>1 DEF Keys, Entered, HasNames
<1> QED BY <1>1, <1>2

LEMMA PossibleKey ==
  ASSUME NEW m, ForMessage(m), NEW k \in DOMAIN PossibleKeys(m)
  PROVE  \E e \in {Absent, m.ecu}, a \in {Absent, m.apid}, c \in {Absent, m.ctid} :
           /\ PossibleKeys(m)[k] = <<e, a, c>>
           /\ a = Absent /\ c = Absent => e = m.ecu
<1>1. CASE m.apid = Absent
  <2>1. PossibleKeys(m)[k] = <<m.ecu, Absent, Absent>>
    BY <1>1 DEF PossibleKeys
  <2> QED BY <2>1
<1>2. CASE m.apid # Absent
  <2>1. m.ctid # Absent
    BY <1>2 DEF ForMessage
  <2>2. PossibleKeys(m)[k] \in
          {<<Absent, m.apid, Absent>>, <<Absent, Absent, m.ctid>>,
           <<Absent, m.apid, m.ctid>>, <<m.ecu, m.apid, m.ctid>>,
           <<m.ecu, m.apid, Absent>>, <<m.ecu, Absent, m.ctid>>,
           <<m.ecu, Absent, Absent>>}
    BY <1>2 DEF PossibleKeys
  <2> QED BY <1>2, <2>1, <2>2
<1> QED BY <1>1, <1>2

LEMMA PossibleKeysDiffer ==
  ASSUME NEW m, ForMessage(m), NEW j \in DOMAIN PossibleKeys(m),
         NEW k \in DOMAIN PossibleKeys(m), PossibleKeys(m)[j] = PossibleKeys(m)[k]
  PROVE  j = k
<1>1. CASE m.apid = Absent
  BY <1>1 DEF PossibleKeys
<1>2. CASE m.apid # Absent
  <2>1. m.ctid # Absent /\ m.ecu # Absent
    BY <1>2 DEF ForMessage
  <2>2. j \in {1, 2, 3, 4, 5, 6, 7} /\ k \in {1, 2, 3, 4, 5, 6, 7}
    BY <1>2 DEF PossibleKeys
  <2>3. \A i \in {1, 2, 3, 4, 5, 6, 7} :
          PossibleKeys(m)[i] = <<IF i \in {1, 2, 3} THEN Absent ELSE m.ecu,
                                 IF i \in {2, 6, 7} THEN Absent ELSE m.apid,
                                 IF i \in {1, 5, 7} THEN Absent ELSE m.ctid>>
    BY <1>2 DEF PossibleKeys
  <2>4. /\ j \in {1, 2, 3} <=> k \in {1, 2, 3}
        /\ j \in {2, 6, 7} <=> k \in {2, 6, 7}
        /\ j \in {1, 5, 7} <=> k \in {1, 5, 7}
    BY <1>2, <2>1, <2>2, <2>3
  <2> QED BY <2>2, <2>4
<1> QED BY <1>1, <1>2

LEMMA OnlyKeyFor ==
  ASSUME NEW f, Entered(f), NEW m, ForMessage(m), NEW k \in DOMAIN PossibleKeys(m),
         PossibleKeys(m)[k] \in Keys(f)
  PROVE  PossibleKeys(m)[k] = KeyFor(f, m)
<1>1. PICK e \in {Absent, m.ecu}, a \in {Absent, m.apid}, c \in {Absent, m.ctid} :
        /\ PossibleKeys(m)[k] = <<e, a, c>>
        /\ a = Absent /\ c = Absent => e = m.ecu
  BY PossibleKey
<1>2. m.ecu # Absent /\ m.apid # Wild /\ m.ctid # Wild
  BY DEF ForMessage
<1>3. CASE /\ f.ecuid # Absent /\ Keys(f) = {<<f.ecuid, Absent, Absent>>}
           /\ \/ f.apids = Absent /\ f.ctids = Absent
              \/ f.apids = {Wild} /\ f.ctids = {Wild}
  BY <1>3 DEF KeyFor
<1>4. CASE /\ f.apids # Absent /\ f.ctids # Absent
           /\ IsNames(f.apids) /\ IsNames(f.ctids)
           /\ ~(f.apids = {Wild} /\ f.ctids = {Wild}) \/ f.ecuid = Absent
           /\ Keys(f) = {CASE x = Wild -> <<f.ecuid, Absent, y>>
                           [] x # Wild /\ y = Wild -> <<f.ecuid, x, Absent>>
                           [] OTHER -> <<f.ecuid, x, y>> : x \in f.apids, y \in f.ctids}
  <2>1. PICK x \in f.apids, y \in f.ctids :
          <<e, a, c>> = CASE x = Wild -> <<f.ecuid, Absent, y>>
                          [] x # Wild /\ y = Wild -> <<f.ecuid, x, Absent>>
                          [] OTHER -> <<f.ecuid, x, y>>
    <3> DEFINE key(x, y) == CASE x = Wild -> <<f.ecuid, Absent, y>>
                              [] x # Wild /\ y = Wild -> <<f.ecuid, x, Absent>>
                              [] OTHER -> <<f.ecuid, x, y>>
    <3>1. Keys(f) = {key(x, y) : x \in f.apids, y \in f.ctids}
      BY <1>4
    <3>2. <<e, a, c>> \in Keys(f)
      BY <1>1
    <3> HIDE DEF key
    <3>3. \E x \in f.apids, y \in f.ctids : <<e, a, c>> = key(x, y)
      BY <3>1, <3>2
    <3> QED BY <3>3 DEF key
  <2>2. /\ x # Absent /\ y # Absent
        /\ x = Wild <=> f.apids = {Wild}
        /\ y = Wild <=> f.ctids = {Wild}
    BY <1>4 DEF IsNames
  <2>3. KeyFor(f, m) = <<f.ecuid, IF x = Wild THEN Absent ELSE m.apid,
                         IF y = Wild /\ x # Wild THEN Absent ELSE m.ctid>>
    BY <1>4, <2>2 DEF KeyFor
  <2>4. CASE x = Wild
    <3>1. e = f.ecuid /\ a = Absent /\ c = y
      BY <2>1, <2>4
    <3> QED BY <1>1, <2>2, <2>3, <2>4, <3>1
  <2>5. CASE x # Wild /\ y = Wild
    <3>1. e = f.ecuid /\ a = x /\ c = Absent
      BY <2>1, <2>5
    <3> QED BY <1>1, <2>2, <2>3, <2>5, <3>1
  <2>6. CASE x # Wild /\ y # Wild
    <3>1. e = f.ecuid /\ a = x /\ c = y
      BY <2>1, <2>6
    <3> QED BY <1>1, <2>2, <2>3, <2>6, <3>1
  <2> QED BY <2>4, <2>5, <2>6
<1> QED BY <1>3, <1>4, KeysOfEntered

LEMMA FoundByKey ==
  ASSUME NEW f, Entered(f), NEW m, ForMessage(m), Passes(f, m), f.file_name # Absent
  PROVE  (\E k \in DOMAIN PossibleKeys(m) : PossibleKeys(m)[k] \in Keys(f)) <=> Wants(f, m)
<1> DEFINE found == \E k \in DOMAIN PossibleKeys(m) : PossibleKeys(m)[k] \in Keys(f)
<1>1. m.ecu # Absent /\ (m.apid = Absent <=> m.ctid = Absent) /\ m.apid # Wild /\ m.ctid # Wild
  BY DEF ForMessage
<1>2. f.ecuid \in {Absent, m.ecu}
  BY DEF Passes
<1>3. ASSUME NEW key PROVE (\E k \in DOMAIN PossibleKeys(m) : PossibleKeys(m)[k] = key)
        <=> IF m.apid = Absent THEN key = <<m.ecu, Absent, Absent>>
            ELSE key \in {<<Absent, m.apid, Absent>>, <<Absent, Absent, m.ctid>>,
                          <<Absent, m.apid, m.ctid>>, <<m.ecu, m.apid, m.ctid>>,
                          <<m.ecu, m.apid, Absent>>, <<m.ecu, Absent, m.ctid>>,
                          <<m.ecu, Absent, Absent>>}
  <2>1. CASE m.apid = Absent
    BY <2>1 DEF PossibleKeys
  <2>2. CASE m.apid # Absent
    <3>1. DOMAIN PossibleKeys(m) = {1, 2, 3, 4, 5, 6, 7}
      BY <2>2 DEF PossibleKeys
    <3>2. /\ PossibleKeys(m)[1] = <<Absent, m.apid, Absent>>
          /\ PossibleKeys(m)[2] = <<Absent, Absent, m.ctid>>
          /\ PossibleKeys(m)[3] = <<Absent, m.apid, m.ctid>>
          /\ PossibleKeys(m)[4] = <<m.ecu, m.apid, m.ctid>>
          /\ PossibleKeys(m)[5] = <<m.ecu, m.apid, Absent>>
          /\ PossibleKeys(m)[6] = <<m.ecu, Absent, m.ctid>>
          /\ PossibleKeys(m)[7] = <<m.ecu, Absent, Absent>>
      BY <2>2 DEF PossibleKeys
    <3> QED BY <2>2, <3>1, <3>2
  <2> QED BY <2>1, <2>2
<1>4. found <=> KeyFor(f, m) \in Keys(f) /\ \E k \in DOMAIN PossibleKeys(m) :
                                              PossibleKeys(m)[k] = KeyFor(f, m)
  BY OnlyKeyFor
<1>5. CASE /\ f.ecuid # Absent /\ Keys(f) = {<<f.ecuid, Absent, Absent>>}
           /\ \/ f.apids = Absent /\ f.ctids = Absent
              \/ f.apids = {Wild} /\ f.ctids = {Wild}
  <2>1. KeyFor(f, m) = <<m.ecu, Absent, Absent>> /\ f.ecuid = m.ecu
    BY <1>2, <1>5 DEF KeyFor
  <2>2. found
    BY <1>3, <1>4, <1>5, <2>1
  <2>3. Wants(f, m)
    BY <1>5, <2>1 DEF Wants, Names
  <2> QED BY <2>2, <2>3
<1>6. CASE /\ f.apids # Absent /\ f.ctids # Absent
           /\ IsNames(f.apids) /\ IsNames(f.ctids)
           /\ ~(f.apids = {Wild} /\ f.ctids = {Wild}) \/ f.ecuid = Absent
           /\ Keys(f) = {CASE x = Wild -> <<f.ecuid, Absent, y>>
                           [] x # Wild /\ y = Wild -> <<f.ecuid, x, Absent>>
                           [] OTHER -> <<f.ecuid, x, y>> : x \in f.apids, y \in f.ctids}
  <2> DEFINE key(x, y) == CASE x = Wild -> <<f.ecuid, Absent, y>>
                            [] x # Wild /\ y = Wild -> <<f.ecuid, x, Absent>>
                            [] OTHER -> <<f.ecuid, x, y>>
  <2>1. KeyFor(f, m) = <<f.ecuid, IF f.apids = {Wild} THEN Absent ELSE m.apid,
                         IF f.ctids = {Wild} /\ f.apids # {Wild} THEN Absent ELSE m.ctid>>
    BY <1>6 DEF KeyFor
  <2>2. Keys(f) = {key(x, y) : x \in f.apids, y \in f.ctids}
    BY <1>6
  <2>3. /\ f.apids = {Wild} \/ Wild \notin f.apids
        /\ f.ctids = {Wild} \/ Wild \notin f.ctids
        /\ Absent \notin f.apids /\ Absent \notin f.ctids
    BY <1>6 DEF IsNames
  <2>4. CASE m.apid = Absent
    <3>1. KeyFor(f, m) \notin Keys(f)
      <4>1. ASSUME NEW x \in f.apids, NEW y \in f.ctids
            PROVE  key(x, y) # <<f.ecuid, Absent, Absent>>
        BY <2>3
      <4>2. KeyFor(f, m) = <<f.ecuid, Absent, Absent>>
        BY <1>1, <2>1, <2>4
      <4> HIDE DEF key
      <4> QED BY <2>2, <4>1, <4>2
    <3>2. ~Wants(f, m)
      BY <1>1, <1>6, <2>4 DEF Wants
    <3> QED BY <1>4, <3>1, <3>2
  <2>5. CASE m.apid # Absent
    <3>1. m.ctid # Absent
      BY <1>1, <2>5
    <3>2. Wants(f, m) <=> /\ Names(f.apids, m.apid) /\ Names(f.ctids, m.ctid)
                          /\ ~(f.apids = {Wild} /\ f.ctids = {Wild})
      BY <1>2, <1>6, <2>5 DEF Wants
    <3>3. CASE f.apids = {Wild} /\ f.ctids = {Wild}
      <4>1. \A x \in f.apids, y \in f.ctids : key(x, y) = <<f.ecuid, Absent, Wild>>
        BY <3>3
      <4>2. KeyFor(f, m) = <<f.ecuid, Absent, m.ctid>>
        BY <2>1, <3>3
      <4>3. <<f.ecuid, Absent, m.ctid>> # <<f.ecuid, Absent, Wild>>
        BY <1>1
      <4> HIDE DEF key
      <4>4. KeyFor(f, m) \notin Keys(f)
        BY <2>2, <4>1, <4>2, <4>3
      <4> QED BY <1>4, <3>2, <3>3, <4>4
    <3>4. CASE f.apids = {Wild} /\ f.ctids # {Wild}
      <4>1. \A x \in f.apids, y \in f.ctids : key(x, y) = <<f.ecuid, Absent, y>>
        BY <3>4
      <4>2. KeyFor(f, m) = <<f.ecuid, Absent, m.ctid>>
        BY <2>1, <3>4
      <4> HIDE DEF key
      <4>3. KeyFor(f, m) \in Keys(f) <=> m.ctid \in f.ctids
        BY <2>2, <3>4, <4>1, <4>2
      <4>4. \E k \in DOMAIN PossibleKeys(m) : PossibleKeys(m)[k] = KeyFor(f, m)
        BY <1>2, <1>3, <2>5, <4>2
      <4> QED BY <1>4, <3>2, <3>4, <4>3, <4>4 DEF Names
    <3>5. CASE f.apids # {Wild} /\ f.ctids = {Wild}
      <4>1. \A x \in f.apids, y \in f.ctids : key(x, y) = <<f.ecuid, x, Absent>>
        BY <2>3, <3>5
      <4>2. KeyFor(f, m) = <<f.ecuid, m.apid, Absent>>
        BY <2>1, <3>5
      <4> HIDE DEF key
      <4>3. KeyFor(f, m) \in Keys(f) <=> m.apid \in f.apids
        BY <2>2, <3>5, <4>1, <4>2
      <4>4. \E k \in DOMAIN PossibleKeys(m) : PossibleKeys(m)[k] = KeyFor(f, m)
        BY <1>2, <1>3, <2>5, <4>2
      <4> QED BY <1>4, <3>2, <3>5, <4>3, <4>4 DEF Names
    <3>6. CASE f.apids # {Wild} /\ f.ctids # {Wild}
      <4>1. \A x \in f.apids, y \in f.ctids : key(x, y) = <<f.ecuid, x, y>>
        BY <2>3, <3>6
      <4>2. KeyFor(f, m) = <<f.ecuid, m.apid, m.ctid>>
        BY <2>1, <3>6
      <4> HIDE DEF key
      <4>3. KeyFor(f, m) \in Keys(f) <=> m.apid \in f.apids /\ m.ctid \in f.ctids
        BY <2>2, <4>1, <4>2
      <4>4. \E k \in DOMAIN PossibleKeys(m) : PossibleKeys(m)[k] = KeyFor(f, m)
        BY <1>2, <1>3, <2>5, <4>2
      <4> QED BY <1>4, <3>2, <3>6, <4>3, <4>4 DEF Names
    <3> QED BY <3>3, <3>4, <3>5, <3>6
  <2> QED BY <2>4, <2>5
<1> QED BY <1>5, <1>6, KeysOfEntered

-----------------------------------------------------------------------------
(* The filters of a configuration file are entered.                        *)

(* A section that is not refused gives lists of names.                     *)
NamesGiven(L) ==
  \A l \in L : l.k = "data" /\ l.key \in IdKeys => l.data = Bad \/ IsNames(l.data)

LEMMA ParsedNames ==
  ASSUME NEW L, NamesGiven(L), NEW file \in Seq(Section(L)), NEW n,
         n[1] \in FilterKinds, ParseFilter(file, n) # Bad
  PROVE  HasNames(ParseFilter(file, n).apids) /\ HasNames(ParseFilter(file, n).ctids)
<1> DEFINE known == Required(n[1]) \cup Optional(n[1])
           get(key) == IF key \in known THEN GetValue(file, n, key) ELSE Absent
<1>1. /\ \A key \in known : Understood(key, get(key))
      /\ ParseFilter(file, n).apids = Given(get("LogAppName"), Absent)
      /\ ParseFilter(file, n).ctids = Given(get("ContextName"), Absent)
  BY DEF ParseFilter
<1> HIDE DEF known
<1>2. ASSUME NEW key \in IdKeys PROVE HasNames(Given(get(key), Absent))
  <2>1. CASE get(key) = Absent
    BY <2>1 DEF Given, HasNames
  <2>2. CASE get(key) # Absent
    <3>1. key \in known /\ get(key) = GetValue(file, n, key)
      BY <2>2
    <3>2. get(key) \in DataOf(L, key)
      BY <2>2, <3>1, GetValueIs
    <3>3. get(key) = Bad \/ IsNames(get(key))
      BY <3>2 DEF DataOf, DataLines, NamesGiven
    <3>4. get(key) # Bad
      <4>1. Bad # Absent
        BY ConfAssumption
      <4>2. ~Understood(key, Bad)
        BY <4>1 DEF Understood, IdKeys
      <4> QED BY <1>1, <3>1, <4>2
    <3> QED BY <2>2, <3>3, <3>4 DEF Given, HasNames
  <2> QED BY <2>1, <2>2
<1> HIDE DEF get
<1> QED BY <1>1, <1>2 DEF IdKeys

LEMMA StoredFilters ==
  ASSUME NEW L, NamesGiven(L), NEW lines \in Seq(L)
  PROVE  /\ StoreFilters(lines).list \in Seq({StoreFilters(lines).list[i] :
                                               i \in DOMAIN StoreFilters(lines).list})
         /\ \A i \in DOMAIN StoreFilters(lines).list : Entered(StoreFilters(lines).list[i])
<1> DEFINE file == ReadFile(lines)
           n == Len(file)
           D == 1..n
           names == {file[i].name : i \in D}
           X == {f \in {ParseFilter(file, name) : name \in names} : Entered(f)}
           W == [list : Seq(X), valid : {-1, 0, 1}, ended : BOOLEAN]
           base == [list |-> <<>>, valid |-> -1, ended |-> FALSE]
           next(st, s) == StoreFilter(file, st, s.name)
           c == MaxOf(n)
           Folded(g) == g = [B \in SUBSET D |->
                               IF B = {} THEN base
                               ELSE next(g[B \ {Max(B)}], file[Max(B)])]
<1>0. file \in Seq(Section(L)) /\ n \in Nat /\ DOMAIN file = D
  <2>1. file \in Seq(Section(L))
    BY ReadFileIs
  <2> HIDE DEF file
  <2> QED BY <2>1
<1>1. IsFiniteSet(D) /\ Chooses(c, D) /\ \A B \in SUBSET D : c[B] = Max(B)
  BY <1>0, MaxOfChooses DEF MaxOf
<1>2. base \in W
  <2>1. <<>> \in Seq(X)
    OBVIOUS
  <2> HIDE DEF X
  <2> QED BY <2>1
<1>3. StoreFilters(lines) = (CHOOSE g : Folded(g))[D]
  BY <1>0 DEF StoreFilters, FoldLeft, MapThenFoldSet
<1> HIDE DEF file
<1>4. ASSUME NEW v \in W, NEW i \in D PROVE next(v, file[i]) \in W
  <2> DEFINE name == file[i].name
             f == ParseFilter(file, name)
  <2>1. v.list \in Seq(X) /\ v.valid \in {-1, 0, 1} /\ v.ended \in BOOLEAN
    OBVIOUS
  <2>2. CASE v.ended \/ name[1] \notin FilterKinds
    BY <2>2 DEF StoreFilter
  <2>3. CASE ~v.ended /\ name[1] \in FilterKinds /\ f = Bad
    <3>1. next(v, file[i]) = [v EXCEPT !.valid = 1]
      BY <2>3 DEF StoreFilter
    <3> HIDE DEF X, f, name, next
    <3> QED BY <3>1
  <2>4. CASE ~v.ended /\ name[1] \in FilterKinds /\ f # Bad /\ Keys(f) = {}
    <3>1. next(v, file[i]) = [v EXCEPT !.ended = TRUE]
      BY <2>4 DEF StoreFilter
    <3> HIDE DEF X, f, name, next
    <3> QED BY <3>1
  <2>5. CASE ~v.ended /\ name[1] \in FilterKinds /\ f # Bad /\ Keys(f) # {}
    <3>1. next(v, file[i]) = [v EXCEPT !.list = Append(@, f),
                                       !.valid = IF @ # 1 THEN 0 ELSE @]
      BY <2>5 DEF StoreFilter
    <3>2. Entered(f)
      BY <1>0, <2>5, ParsedNames DEF Entered
    <3>3. f \in X
      BY <3>2
    <3> HIDE DEF X, f, name, next
    <3>4. Append(v.list, f) \in Seq(X)
      BY <2>1, <3>3, AppendFacts
    <3>5. (IF v.valid # 1 THEN 0 ELSE v.valid) \in {-1, 0, 1}
      BY <2>1
    <3> QED BY <3>1, <3>4, <3>5
  <2> QED BY <2>2, <2>3, <2>4, <2>5
<1> HIDE DEF W, base, next, c
<1>5. \E g : Folded(g)
  <2> DEFINE F == [p \in D \X W |-> next(p[2], file[p[1]])]
  <2> HIDE DEF D
  <2>1. PICK g : FoldsTo(g, D, base, c, F)
    <3> HIDE DEF F
    <3> QED BY <1>1, FoldExists
  <2>2. \A i \in D : \A v \in W : F[<<i, v>>] = next(v, file[i])
    OBVIOUS
  <2> HIDE DEF F
  <2>3. ASSUME NEW B \in SUBSET D, B # {}, g[B \ {c[B]}] \in W
        PROVE  g[B] \in W /\ g[B] = next(g[B \ {Max(B)}], file[Max(B)])
    <3>1. c[B] = Max(B) /\ c[B] \in D /\ g[B] = F[<<c[B], g[B \ {c[B]}]>>]
      BY <1>1, <2>1, <2>3 DEF Chooses, FoldsTo
    <3> QED BY <1>4, <2>2, <2>3, <3>1
  <2>4. g[{}] = base
    BY <2>1 DEF FoldsTo
  <2>5. \A B \in SUBSET D : g[B] \in W
    <3>1. g[{}] \in W
      BY <1>2, <2>4
    <3>2. \A B \in SUBSET D : B # {} /\ g[B \ {c[B]}] \in W => g[B] \in W
      BY <2>3
    <3> HIDE DEF Folded
    <3> QED BY <1>1, <3>1, <3>2, FoldStays
  <2>6. \A B \in SUBSET D : g[B] = IF B = {} THEN base
                                   ELSE next(g[B \ {Max(B)}], file[Max(B)])
    <3> SUFFICES ASSUME NEW B \in SUBSET D, B # {}
                 PROVE  g[B] = next(g[B \ {Max(B)}], file[Max(B)])
      BY <2>4
    <3> QED BY <2>3, <2>5
  <2>7. Folded(g)
    BY <2>1, <2>6 DEF FoldsTo
  <2> QED BY <2>7
<1> HIDE DEF D
<1>6. ASSUME NEW g, Folded(g) PROVE g[D] \in W
  <2>1. g[{}] \in W
    BY <1>2, <1>6
  <2>2. ASSUME NEW B \in SUBSET D, B # {}, g[B \ {c[B]}] \in W PROVE g[B] \in W
    <3>1. c[B] = Max(B) /\ c[B] \in D
      BY <1>1, <2>2 DEF Chooses
    <3>2. g[B] = next(g[B \ {Max(B)}], file[Max(B)])
      BY <1>6, <2>2
    <3> QED BY <1>4, <2>2, <3>1, <3>2
  <2> HIDE DEF Folded
  <2> QED BY <1>1, <2>1, <2>2, FoldStays
<1> HIDE DEF Folded
<1>7. StoreFilters(lines) \in W
  BY <1>3, <1>5, <1>6
<1> DEFINE list == StoreFilters(lines).list
<1>8. list \in Seq(X)
  BY <1>7 DEF W
<1> HIDE DEF list
<1>9. \A i \in DOMAIN list : list[i] \in X
  BY <1>8
<1>10. list \in Seq({list[i] : i \in DOMAIN list})
  <2>1. Len(list) \in Nat /\ DOMAIN list = 1..Len(list) /\ list = [i \in 1..Len(list) |-> list[i]]
    BY <1>8
  <2>2. \A i \in 1..Len(list) : list[i] \in {list[j] : j \in DOMAIN list}
    BY <2>1
  <2> DEFINE R == {list[j] : j \in DOMAIN list}
  <2> HIDE DEF R
  <2>3. [i \in 1..Len(list) |-> list[i]] \in Seq(R)
    BY <2>1, <2>2 DEF R
  <2> QED BY <2>1, <2>3 DEF R
<1>11. \A i \in DOMAIN list : Entered(list[i])
  BY <1>9 DEF X
<1> QED BY <1>10, <1>11 DEF list

-----------------------------------------------------------------------------
(* What a device is configured with.                                       *)

LEMMA FoundAsWanted ==
  ASSUME NEW X, NEW list \in Seq(X), \A i \in DOMAIN list : Entered(list[i]),
         NEW m, ForMessage(m)
  PROVE  Once(Found(list, m), {i \in DOMAIN list : Wants(list[i], m)})
<1> DEFINE ks == PossibleKeys(m)
           hits(k) == Hit(list, ks[k])
           A == UNION {hits(k) : k \in DOMAIN ks}
           Taken(i) == Passes(list[i], m) /\ list[i].file_name # Absent
<1>1. ASSUME NEW j \in DOMAIN ks, NEW k \in DOMAIN ks, j # k
      PROVE  hits(j) \cap hits(k) = {}
  <2> SUFFICES ASSUME NEW i \in DOMAIN list, ks[j] \in Keys(list[i]), ks[k] \in Keys(list[i])
               PROVE  FALSE
    BY DEF Hit
  <2>1. ks[j] = KeyFor(list[i], m) /\ ks[k] = KeyFor(list[i], m)
    BY OnlyKeyFor
  <2> QED BY <1>1, <2>1, PossibleKeysDiffer
<1>2. Once(GetConfig(list, m), A)
  BY <1>1, GetConfigIs
<1>3. \A i \in DOMAIN list :
        i \in A <=> \E k \in DOMAIN ks : ks[k] \in Keys(list[i])
  BY DEF Hit
<1>4. A \subseteq DOMAIN list
  BY DEF Hit
<1> HIDE DEF A, ks
<1>5. Once(Found(list, m), {i \in A : i \in DOMAIN list /\ Taken(i)})
  <2>1. Once(Found(list, m), {i \in A : /\ i \in DOMAIN list
                                        /\ Passes(list[i], m) /\ list[i].file_name # Absent})
    BY <1>2, FoundIs
  <2>2. {i \in A : i \in DOMAIN list /\ Taken(i)}
          = {i \in A : /\ i \in DOMAIN list
                       /\ Passes(list[i], m) /\ list[i].file_name # Absent}
    OBVIOUS
  <2> QED BY <2>1, <2>2
<1>6. ASSUME NEW i \in DOMAIN list PROVE i \in A /\ Taken(i) <=> Wants(list[i], m)
  <2>1. Wants(list[i], m) => Taken(i)
    BY DEF Wants
  <2>2. Taken(i) => (i \in A <=> Wants(list[i], m))
    BY <1>3, FoundByKey DEF ks
  <2> QED BY <2>1, <2>2
<1> HIDE DEF Taken
<1>7. {i \in A : i \in DOMAIN list /\ Taken(i)} = {i \in DOMAIN list : Wants(list[i], m)}
  BY <1>4, <1>6
<1> QED BY <1>5, <1>7

(* A device is configured by one of the configuration files.               *)
ConfInv == \E n \in DOMAIN Conf : conf = Read(Conf[n], n)

LEMMA ConfInit == InitFiles => ConfInv
BY DEF InitFiles, Init, ConfInv

LEMMA ConfStep ==
  ASSUME ConfInv, [NextFiles]_allvars
  PROVE  ConfInv'
BY ConfStays DEF ConfInv

LEMMA ConfiguredStores ==
  ASSUME ConfInv
  PROVE  StoredAsConfigured
<1>1. PICK n \in DOMAIN Conf : conf = Read(Conf[n], n)
  BY DEF ConfInv
<1> DEFINE lines == Conf[n].lines
           L == Range(lines)
           list == StoreFilters(lines).list
<1>2. /\ conf.list = list
      /\ conf.found = [m \in Conf[n].messages |-> Found(list, m)]
  BY <1>1 DEF Read
<1>3. lines \in Seq(L) /\ NamesGiven(L)
  <2>1. lines \in Seq(L)
    BY ConfAssumption
  <2>2. \A i \in DOMAIN lines : lines[i].k = "data" /\ lines[i].key \in IdKeys
          => lines[i].data = Bad \/ IsNames(lines[i].data)
    BY ConfAssumption
  <2>3. \A l \in L : \E i \in DOMAIN lines : l = lines[i]
    BY DEF Range
  <2> HIDE DEF lines, L
  <2> QED BY <2>1, <2>2, <2>3 DEF NamesGiven
<1>4. \A m \in Conf[n].messages : ForMessage(m)
  BY ConfAssumption DEF ForMessage
<1> HIDE DEF lines, L
<1> DEFINE X == {list[i] : i \in DOMAIN list}
<1>5. list \in Seq(X) /\ \A i \in DOMAIN list : Entered(list[i])
  BY <1>3, StoredFilters
<1> HIDE DEF list, X
<1>6. ASSUME NEW m \in DOMAIN conf.found
      PROVE  /\ Range(conf.found[m]) = {f \in DOMAIN conf.list : Wants(conf.list[f], m)}
             /\ Len(conf.found[m]) = Cardinality(Range(conf.found[m]))
  <2>1. m \in Conf[n].messages /\ conf.found[m] = Found(list, m)
    BY <1>2
  <2>2. Once(Found(list, m), {i \in DOMAIN list : Wants(list[i], m)})
    BY <1>4, <1>5, <2>1, FoundAsWanted
  <2> DEFINE A == {i \in DOMAIN list : Wants(list[i], m)}
             s == Found(list, m)
  <2> HIDE DEF A, s
  <2>3. Range(s) = A /\ Cardinality(A) = Len(s)
    BY <2>2, OnceIsRange DEF A, s
  <2> QED BY <1>2, <2>1, <2>3 DEF A, s
<1> QED BY <1>6 DEF StoredAsConfigured

(* A message goes once to every filter that names its application, its     *)
(* context and its ECU, and to no other: the keys under which              *)
(* mct_logstorage_create_keys enters a filter and those under which        *)
(* mct_logstorage_get_config looks a message up meet in one key at most,   *)
(* and they do for the filters that want it.  For any configuration file,  *)
(* any number of sections and any messages.                                *)
THEOREM StoredAsConfiguredCorrect == SpecFiles => []StoredAsConfigured
<1>1. InitFiles => ConfInv
  BY ConfInit
<1>2. ConfInv /\ [NextFiles]_allvars => ConfInv'
  BY ConfStep
<1>3. ConfInv => StoredAsConfigured
  BY ConfiguredStores
<1> QED BY <1>1, <1>2, <1>3, PTL DEF SpecFiles
=============================================================================
