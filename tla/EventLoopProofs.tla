-------------------------- MODULE EventLoopProofs --------------------------
(***************************************************************************)
(* Proofs about the event loop and the message filter, for every set of    *)
(* filter files, levels, addresses and any number of descriptors.          *)
(***************************************************************************)
EXTENDS EventLoop, ConfigFileProofs

-----------------------------------------------------------------------------
(* What the operators on sequences, their folds and finite sets do.        *)

Skip(c, i) == IF i < c THEN i ELSE i + 1
LEMMA RemoveAtFacts ==
  ASSUME NEW T, NEW q \in Seq(T), NEW c \in 1..Len(q)
  PROVE  /\ RemoveAt(q, c) \in Seq(T)
         /\ Len(RemoveAt(q, c)) = Len(q) - 1
         /\ DOMAIN RemoveAt(q, c) = 1..(Len(q) - 1)
         /\ \A i \in 1..(Len(q) - 1) : /\ Skip(c, i) \in 1..Len(q)
                                     /\ Skip(c, i) # c
                                     /\ RemoveAt(q, c)[i] = q[Skip(c, i)]
         /\ \A j \in 1..Len(q) : j # c => \E i \in 1..(Len(q) - 1) : j = Skip(c, i)
         /\ \A i, j \in 1..(Len(q) - 1) : Skip(c, i) = Skip(c, j) => i = j
<1> DEFINE a == SubSeq(q, 1, c - 1)
           b == SubSeq(q, c + 1, Len(q))
<1>1. Len(q) \in Nat /\ c \in Nat
  OBVIOUS
<1>2. /\ a \in Seq(T) /\ Len(a) = c - 1
      /\ \A i \in 1..(c - 1) : a[i] = q[i]
  BY <1>1
<1>3. /\ b \in Seq(T) /\ Len(b) = Len(q) - c
      /\ \A i \in 1..(Len(q) - c) : b[i] = q[c + i]
  BY <1>1
<1> HIDE DEF a, b
<1>4. /\ a \o b \in Seq(T) /\ Len(a \o b) = Len(q) - 1
      /\ \A i \in 1..(Len(q) - 1) : (a \o b)[i] = q[Skip(c, i)]
  <2>1. /\ a \o b \in Seq(T)
        /\ Len(a \o b) = Len(a) + Len(b)
        /\ \A i \in 1..(Len(a) + Len(b)) :
             (a \o b)[i] = IF i <= Len(a) THEN a[i] ELSE b[i - Len(a)]
    BY <1>2, <1>3, ConcatProperties
  <2>2. Len(a) + Len(b) = Len(q) - 1
    BY <1>1, <1>2, <1>3
  <2>3. ASSUME NEW i \in 1..(Len(q) - 1) PROVE (a \o b)[i] = q[Skip(c, i)]
    <3>1. CASE i < c
      <4>1. i \in 1..(c - 1) /\ i <= Len(a) /\ Skip(c, i) = i
        BY <1>1, <1>2, <3>1 DEF Skip
      <4> QED BY <1>2, <2>1, <2>2, <4>1
    <3>2. CASE ~(i < c)
      <4>1. /\ ~(i <= Len(a)) /\ i - Len(a) \in 1..(Len(q) - c)
            /\ c + (i - Len(a)) = i + 1 /\ Skip(c, i) = i + 1
        BY <1>1, <1>2, <3>2 DEF Skip
      <4>2. (a \o b)[i] = b[i - Len(a)]
        BY <2>1, <2>2, <4>1
      <4>3. b[i - Len(a)] = q[c + (i - Len(a))]
        BY <1>3, <4>1
      <4> QED BY <4>1, <4>2, <4>3
    <3> QED BY <3>1, <3>2
  <2> QED BY <2>1, <2>2, <2>3
<1>5. RemoveAt(q, c) = a \o b
  BY DEF RemoveAt, a, b
<1>6. /\ \A i \in 1..(Len(q) - 1) : Skip(c, i) \in 1..Len(q) /\ Skip(c, i) # c
      /\ \A i, j \in 1..(Len(q) - 1) : Skip(c, i) = Skip(c, j) => i = j
  BY <1>1 DEF Skip
<1>7. ASSUME NEW j \in 1..Len(q), j # c
      PROVE  \E i \in 1..(Len(q) - 1) : j = Skip(c, i)
  <2>1. CASE j < c
    <3>1. j \in 1..(Len(q) - 1) /\ Skip(c, j) = j
      BY <1>1, <2>1 DEF Skip
    <3> QED BY <3>1
  <2>2. CASE j > c
    <3>1. j - 1 \in 1..(Len(q) - 1) /\ Skip(c, j - 1) = j
      BY <1>1, <2>2 DEF Skip
    <3> QED BY <3>1
  <2>3. j < c \/ j > c
    BY <1>1, <1>7
  <2> QED BY <2>1, <2>2, <2>3
<1>8. DOMAIN (a \o b) = 1..Len(a \o b)
  BY <1>4
<1> HIDE DEF Skip
<1> QED BY <1>4, <1>5, <1>6, <1>7, <1>8

LEMMA InsertAtFacts ==
  ASSUME NEW T, NEW q \in Seq(T), NEW e \in T, NEW i \in 1..Len(q)
  PROVE  /\ InsertAt(q, i, e) \in Seq(T)
         /\ Len(InsertAt(q, i, e)) = Len(q) + 1
         /\ \A k \in 1..(Len(q) + 1) :
              InsertAt(q, i, e)[k] = IF k < i THEN q[k] ELSE IF k = i THEN e ELSE q[k - 1]
<1> DEFINE a == SubSeq(q, 1, i - 1)
           b == SubSeq(q, i, Len(q))
<1>1. Len(q) \in Nat /\ i \in Nat
  OBVIOUS
<1>2. /\ a \in Seq(T) /\ Len(a) = i - 1
      /\ \A k \in 1..(i - 1) : a[k] = q[k]
  BY <1>1
<1>3. /\ b \in Seq(T) /\ Len(b) = Len(q) - i + 1
      /\ \A k \in 1..(Len(q) - i + 1) : b[k] = q[i + k - 1]
  BY <1>1
<1> HIDE DEF a, b
<1>4. /\ Append(a, e) \in Seq(T) /\ Len(Append(a, e)) = i
      /\ \A k \in 1..(i - 1) : Append(a, e)[k] = q[k]
      /\ Append(a, e)[i] = e
  BY <1>1, <1>2, AppendFacts
<1>5. InsertAt(q, i, e) = Append(a, e) \o b
  <2>1. <<e>> \in Seq(T) /\ a \o <<e>> = Append(a, e)
    BY <1>2, AppendProperties
  <2> QED BY <2>1 DEF InsertAt, a, b
<1> DEFINE c == Append(a, e)
<1>6. /\ c \o b \in Seq(T)
      /\ Len(c \o b) = Len(c) + Len(b)
      /\ \A k \in 1..(Len(c) + Len(b)) :
           (c \o b)[k] = IF k <= Len(c) THEN c[k] ELSE b[k - Len(c)]
  <2>1. c \in Seq(T)
    BY <1>4
  <2> HIDE DEF c
  <2> QED BY <2>1, <1>3, ConcatProperties
<1>7. Len(c) + Len(b) = Len(q) + 1
  BY <1>1, <1>3, <1>4
<1> HIDE DEF c
<1>8. ASSUME NEW k \in 1..(Len(q) + 1)
      PROVE  (c \o b)[k] = IF k < i THEN q[k] ELSE IF k = i THEN e ELSE q[k - 1]
  <2>1. (c \o b)[k] = IF k <= i THEN c[k] ELSE b[k - i]
    BY <1>4, <1>6, <1>7 DEF c
  <2>2. CASE k < i
    <3>1. k \in 1..(i - 1) /\ k <= i
      BY <1>1, <2>2
    <3> QED BY <1>4, <2>1, <2>2, <3>1 DEF c
  <2>3. CASE k = i
    BY <1>1, <1>4, <2>1, <2>3 DEF c
  <2>4. CASE k > i
    <3>1. k - i \in 1..(Len(q) - i + 1) /\ i + (k - i) - 1 = k - 1 /\ ~(k <= i) /\ ~(k < i) /\ k # i
      BY <1>1, <2>4
    <3>2. b[k - i] = q[i + (k - i) - 1]
      BY <1>3, <3>1
    <3> QED BY <2>1, <3>1, <3>2
  <2>5. k < i \/ k = i \/ k > i
    BY <1>1
  <2> QED BY <2>2, <2>3, <2>4, <2>5
<1> QED BY <1>5, <1>6, <1>7, <1>8 DEF c

(* Two finite sets with as many elements.                                  *)
LEMMA SameSize ==
  ASSUME NEW S, NEW T, IsFiniteSet(S), NEW h \in [S -> T],
         \A x, y \in S : h[x] = h[y] => x = y,
         \A y \in T : \E x \in S : h[x] = y
  PROVE  IsFiniteSet(T) /\ Cardinality(T) = Cardinality(S)
<1>1. h \in Bijection(S, T)
  BY DEF Bijection, Injection, IsInjective, Surjection
<1> QED BY <1>1, FS_Bijection DEF ExistsBijection

(* The sequence r is q without its element c.                              *)
Shorter(T, q, c, r) ==
  /\ r \in Seq(T)
  /\ Len(r) = Len(q) - 1
  /\ \A i \in 1..(Len(q) - 1) : /\ Skip(c, i) \in 1..Len(q)
                              /\ Skip(c, i) # c
                              /\ r[i] = q[Skip(c, i)]
  /\ \A j \in 1..Len(q) : j # c => \E i \in 1..(Len(q) - 1) : j = Skip(c, i)
  /\ \A i, j \in 1..(Len(q) - 1) : Skip(c, i) = Skip(c, j) => i = j

LEMMA RemoveAtShorter ==
  ASSUME NEW T, NEW q \in Seq(T), NEW c \in 1..Len(q)
  PROVE  Shorter(T, q, c, RemoveAt(q, c))
<1> DEFINE r == RemoveAt(q, c)
<1>1. /\ r \in Seq(T)
      /\ Len(r) = Len(q) - 1
      /\ \A i \in 1..(Len(q) - 1) : /\ Skip(c, i) \in 1..Len(q)
                                  /\ Skip(c, i) # c
                                  /\ r[i] = q[Skip(c, i)]
      /\ \A j \in 1..Len(q) : j # c => \E i \in 1..(Len(q) - 1) : j = Skip(c, i)
      /\ \A i, j \in 1..(Len(q) - 1) : Skip(c, i) = Skip(c, j) => i = j
  BY RemoveAtFacts
<1> HIDE DEF r
<1>2. Shorter(T, q, c, r)
  BY <1>1 DEF Shorter
<1> QED BY <1>2 DEF r

LEMMA FindConnectionIs ==
  ASSUME NEW s, NEW f
  PROVE  FindConnection(s, f) = First({i \in 1..Len(s.conns) : s.conns[i].fd = f})
BY DEF FindConnection, SelectInSeq, First

LEMMA NextOfTypeIs ==
  ASSUME NEW s, NEW type
  PROVE  NextOfType(s, type) = First({i \in 1..Len(s.conns) : s.conns[i].type = type})
BY DEF NextOfType, SelectInSeq, First

LEMMA EntryOfIs ==
  ASSUME NEW s, NEW f
  PROVE  EntryOf(s, f) = First({i \in 1..Len(s.pfd) : s.pfd[i].fd = f})
BY DEF EntryOf, SelectInSeq, First

LEMMA CoveringIs ==
  ASSUME NEW configs, NEW level
  PROVE  Covering(configs, level) = First({i \in 1..Len(configs) : configs[i].max >= level})
BY DEF Covering, SelectInSeq, First

-----------------------------------------------------------------------------
(* The inductive invariant.  First the types.                              *)

Kinds == HasReceiver \cup {"free", "timer"}
Conn == [type : HasReceiver, fd : Fd \cup {None}, active : BOOLEAN]
PollFd == [fd : Fd, ev : {"none", "in", "rejected"}]
Input == {Nothing, Data} \cup {SetLevel(l) : l \in Levels}
Obj == [k : Kinds, in : Input, peer : {"there", "gone", "reset", "none"}, addr : Nat]
State == [conns : Seq(Conn), pfd : Seq(PollFd), clients : Nat, current : Nat,
          fds : [Fd -> Obj], leave : {"no", "exit", "failed"}]

(* poll() watches the active connections, each once.                       *)
Tables(s) ==
  /\ \A i, j \in 1..Len(s.pfd) : s.pfd[i].fd = s.pfd[j].fd => i = j
  /\ \A j \in 1..Len(s.pfd) : \E i \in 1..Len(s.conns) :
       s.conns[i].active /\ s.conns[i].fd = s.pfd[j].fd
  /\ \A i \in 1..Len(s.conns) : s.conns[i].active =>
       \E j \in 1..Len(s.pfd) : s.pfd[j].fd = s.conns[i].fd

(* Each connection has a descriptor of its own and kind; only a socket for *)
(* clients that is switched off has none.                                  *)
HasDescriptor(s, i) ==
  \/ /\ s.conns[i].fd = None /\ s.conns[i].type = "client_connect"
     /\ ~s.conns[i].active
  \/ /\ s.conns[i].fd \in Fd /\ s.fds[s.conns[i].fd].k = s.conns[i].type
     /\ ~s.conns[i].active => s.conns[i].type # "client_connect"
Descriptors(s) ==
  /\ \A i \in 1..Len(s.conns) : HasDescriptor(s, i)
  /\ \A i, j \in 1..Len(s.conns) :
       s.conns[i].fd = s.conns[j].fd /\ s.conns[i].fd # None => i = j

CountedAt(conns) == {i \in 1..Len(conns) : conns[i].type \in Counted}
Counts(s) == s.clients = Cardinality(CountedAt(s.conns))

(* What poll() rejects is not a listening socket.                          *)
Rejects(s) ==
  /\ \A f \in Fd : s.fds[f].k = "client_connect" => s.fds[f].peer = "there"
  /\ \A j \in 1..Len(s.pfd) : s.pfd[j].ev = "rejected" =>
       s.fds[s.pfd[j].fd].peer # "there"

Wf(s) == Tables(s) /\ Descriptors(s) /\ Counts(s) /\ Rejects(s)

LEMMA AllowedIsBoolean ==
  ASSUME NEW s, NEW type
  PROVE  Allowed(s, type) \in BOOLEAN
BY DEF Allowed, IsConnectionAllowed

LEMMA FieldTypes ==
  ASSUME NEW s \in State
  PROVE  /\ s.conns \in Seq(Conn) /\ s.pfd \in Seq(PollFd)
         /\ Len(s.conns) \in Nat /\ Len(s.pfd) \in Nat
         /\ \A i \in 1..Len(s.conns) :
              /\ s.conns[i] \in Conn /\ s.conns[i].type \in HasReceiver
              /\ s.conns[i].fd \in Fd \cup {None} /\ s.conns[i].active \in BOOLEAN
         /\ \A j \in 1..Len(s.pfd) :
              /\ s.pfd[j] \in PollFd /\ s.pfd[j].fd \in Fd
         /\ s.clients \in Nat /\ s.current \in Nat /\ s.fds \in [Fd -> Obj]
         /\ \A f \in Fd : s.fds[f] \in Obj /\ s.fds[f].k \in Kinds
<1>1. /\ s.conns \in Seq(Conn) /\ s.pfd \in Seq(PollFd)
      /\ s.clients \in Nat /\ s.current \in Nat /\ s.fds \in [Fd -> Obj]
  BY DEF State
<1>2. Len(s.conns) \in Nat /\ Len(s.pfd) \in Nat
  BY <1>1
<1>3. ASSUME NEW i \in 1..Len(s.conns)
      PROVE  /\ s.conns[i] \in Conn /\ s.conns[i].type \in HasReceiver
             /\ s.conns[i].fd \in Fd \cup {None} /\ s.conns[i].active \in BOOLEAN
  <2>1. s.conns[i] \in Conn
    BY <1>1, ElementOfSeq
  <2> QED BY <2>1 DEF Conn
<1>4. ASSUME NEW j \in 1..Len(s.pfd)
      PROVE  s.pfd[j] \in PollFd /\ s.pfd[j].fd \in Fd
  <2>1. s.pfd[j] \in PollFd
    BY <1>1, ElementOfSeq
  <2> QED BY <2>1 DEF PollFd
<1>5. ASSUME NEW f \in Fd PROVE s.fds[f] \in Obj /\ s.fds[f].k \in Kinds
  BY <1>1 DEF Obj
<1> QED BY <1>1, <1>2, <1>3, <1>4, <1>5

(* A new connection.                                                       *)
Registered(s, f, type, t) ==
  /\ t \in State
  /\ Len(t.conns) = Len(s.conns) + 1
  /\ \A i \in 1..Len(s.conns) : t.conns[i] = s.conns[i]
  /\ t.conns[Len(s.conns) + 1].type = type
  /\ t.conns[Len(s.conns) + 1].fd = f
  /\ t.conns[Len(s.conns) + 1].active <=> Allowed(s, type)
  /\ Allowed(s, type) => t.pfd = Append(s.pfd, [fd |-> f, ev |-> "none"])
  /\ ~Allowed(s, type) => t.pfd = s.pfd
  /\ t.clients = IF type \in Counted THEN s.clients + 1 ELSE s.clients
  /\ t.current = s.current /\ t.fds = s.fds /\ t.leave = s.leave

LEMMA RegisterIs ==
  ASSUME NEW s \in State, NEW f \in Fd, NEW type \in HasReceiver
  PROVE  Registered(s, f, type, Register(s, f, type))
<1> DEFINE t == Register(s, f, type)
<1> DEFINE new == [type |-> type, fd |-> f, active |-> FALSE]
           n == Len(s.conns) + 1
           u == [s EXCEPT !.conns = Append(@, new),
                          !.clients = IF type \in Counted THEN @ + 1 ELSE @]
<1>1. new \in Conn
  BY DEF Conn
<1>2. /\ u \in State
      /\ u.conns = Append(s.conns, new) /\ u.pfd = s.pfd
      /\ u.clients = IF type \in Counted THEN s.clients + 1 ELSE s.clients
      /\ u.current = s.current /\ u.fds = s.fds /\ u.leave = s.leave
  <2> DEFINE cs == Append(s.conns, new)
             cl == IF type \in Counted THEN s.clients + 1 ELSE s.clients
  <2>1. cs \in Seq(Conn)
    BY <1>1, FieldTypes, AppendFacts
  <2>2. cl \in Nat
    BY FieldTypes
  <2>3. u = [s EXCEPT !.conns = cs, !.clients = cl]
    OBVIOUS
  <2> HIDE DEF cs, cl, u
  <2>4. /\ u \in State /\ u.conns = cs /\ u.clients = cl
        /\ u.pfd = s.pfd /\ u.current = s.current
        /\ u.fds = s.fds /\ u.leave = s.leave
    BY <2>1, <2>2, <2>3 DEF State
  <2> QED BY <2>4 DEF cs, cl
<1>3. /\ Len(u.conns) = n /\ u.conns[n] = new /\ n \in 1..Len(u.conns)
      /\ \A i \in 1..Len(s.conns) : u.conns[i] = s.conns[i]
  BY <1>1, <1>2, FieldTypes, AppendFacts
<1>4. Allowed(u, type) = Allowed(s, type)
  BY <1>2 DEF Allowed, Current
<1>5. t = CheckActivate(u, n, "activate")
  BY <1>2, <1>3 DEF Register
<1> SUFFICES Registered(s, f, type, t)
  OBVIOUS
<1> HIDE DEF new, n, u, t
<1>6. u.conns[n].type = type /\ u.conns[n].active = FALSE /\ u.conns[n].fd = f
  BY <1>3 DEF new
<1>7. CASE ~Allowed(s, type)
  <2>1. t = u
    BY <1>4, <1>5, <1>6, <1>7 DEF CheckActivate
  <2>9. /\ t \in State /\ Len(t.conns) = n
        /\ \A i \in 1..Len(s.conns) : t.conns[i] = s.conns[i]
        /\ t.conns[n].type = type /\ t.conns[n].fd = f
        /\ t.conns[n].active <=> Allowed(s, type)
        /\ t.clients = IF type \in Counted THEN s.clients + 1 ELSE s.clients
        /\ t.current = s.current /\ t.fds = s.fds /\ t.leave = s.leave
    BY <1>2, <1>3, <1>6, <1>7, <2>1
  <2>10. t.pfd = s.pfd
    BY <1>2, <2>1
  <2> QED BY <1>7, <2>9, <2>10 DEF n, Registered
<1>8. CASE Allowed(s, type)
  <2>1. t = Activate(u, n)
    BY <1>4, <1>5, <1>6, <1>8 DEF CheckActivate
  <2> DEFINE cs == [u.conns EXCEPT ![n].active = TRUE]
             ps == Append(u.pfd, [fd |-> f, ev |-> "none"])
  <2>2. t = [u EXCEPT !.pfd = ps, !.conns = cs]
    BY <1>2, <1>6, <2>1 DEF Activate, EnableFd, State
  <2>3. [fd |-> f, ev |-> "none"] \in PollFd
    BY DEF PollFd
  <2>4. ps \in Seq(PollFd)
    BY <1>2, <2>3, FieldTypes, AppendFacts
  <2>5. LET e == [u.conns[n] EXCEPT !.active = TRUE] IN
          e \in Conn /\ e.type = type /\ e.fd = f /\ e.active = TRUE
    BY <1>1, <1>3, <1>6 DEF Conn
  <2>6. /\ cs \in Seq(Conn) /\ Len(cs) = n
        /\ \A i \in 1..Len(s.conns) : cs[i] = s.conns[i]
        /\ cs[n].type = type /\ cs[n].fd = f /\ cs[n].active
    <3>1. u.conns \in Seq(Conn)
      BY <1>2, FieldTypes
    <3>2. Len(s.conns) \in Nat
      BY FieldTypes
    <3> QED BY <3>1, <3>2, <1>3, <2>5, ExceptSeq DEF n
  <2> HIDE DEF cs, ps
  <2>7. t \in State
    BY <1>2, <2>2, <2>4, <2>6 DEF State
  <2>8. /\ t.conns = cs /\ t.pfd = ps /\ t.clients = u.clients
        /\ t.current = u.current /\ t.fds = u.fds /\ t.leave = u.leave
    BY <1>2, <2>2 DEF State
  <2>9. /\ t \in State /\ Len(t.conns) = n
        /\ \A i \in 1..Len(s.conns) : t.conns[i] = s.conns[i]
        /\ t.conns[n].type = type /\ t.conns[n].fd = f
        /\ t.conns[n].active <=> Allowed(s, type)
        /\ t.clients = IF type \in Counted THEN s.clients + 1 ELSE s.clients
        /\ t.current = s.current /\ t.fds = s.fds /\ t.leave = s.leave
    BY <1>2, <1>8, <2>6, <2>7, <2>8
  <2>10. t.pfd = Append(s.pfd, [fd |-> f, ev |-> "none"])
    BY <1>2, <2>8 DEF ps
  <2> QED BY <1>8, <2>9, <2>10 DEF n, Registered
<1> QED BY <1>7, <1>8

LEMMA RegisterWf ==
  ASSUME NEW s \in State, Wf(s), NEW f \in Fd, NEW type \in HasReceiver,
         s.fds[f].k = type,
         \A i \in 1..Len(s.conns) : s.conns[i].fd # f,
         type = "client_connect" => Allowed(s, type),
         NEW t, Registered(s, f, type, t)
  PROVE  Wf(t)
<1> DEFINE n == Len(s.conns) + 1
<1>1. /\ t \in State
      /\ Len(t.conns) = n
      /\ \A i \in 1..Len(s.conns) : t.conns[i] = s.conns[i]
      /\ t.conns[n].type = type /\ t.conns[n].fd = f
      /\ t.conns[n].active <=> Allowed(s, type)
      /\ t.clients = IF type \in Counted THEN s.clients + 1 ELSE s.clients
      /\ t.fds = s.fds
  BY DEF Registered
<1>2. /\ Allowed(s, type) => t.pfd = Append(s.pfd, [fd |-> f, ev |-> "none"])
      /\ ~Allowed(s, type) => t.pfd = s.pfd
  BY DEF Registered
<1>3. Len(s.conns) \in Nat /\ n \in Nat /\ 1..n = 1..Len(s.conns) \cup {n}
  BY FieldTypes
<1>4. n \notin 1..Len(s.conns)
  BY <1>3
<1> HIDE DEF n
<1>5. Descriptors(t)
  <2>1. \A i \in 1..Len(s.conns) : HasDescriptor(t, i)
    BY <1>1 DEF Wf, Descriptors, HasDescriptor
  <2>2. HasDescriptor(t, n)
    BY <1>1 DEF HasDescriptor
  <2>3. ASSUME NEW i \in 1..n, NEW j \in 1..n,
               t.conns[i].fd = t.conns[j].fd, t.conns[i].fd # None
        PROVE  i = j
    BY <1>1, <1>3, <2>3 DEF Wf, Descriptors
  <2> QED BY <1>1, <1>3, <2>1, <2>2, <2>3 DEF Descriptors
<1>6. \A j \in 1..Len(s.pfd) : s.pfd[j].fd # f
  BY DEF Wf, Tables
<1>7. Tables(t) /\ Rejects(t)
  <2>1. CASE ~Allowed(s, type)
    <3>1. t.pfd = s.pfd
      BY <1>2, <2>1
    <3>2. Rejects(t)
      BY <1>1, <3>1 DEF Wf, Rejects
    <3>3. \A i \in 1..n : t.conns[i].active => i \in 1..Len(s.conns)
      BY <1>1, <1>3, <2>1
    <3>4. \A i \in 1..Len(s.conns) : i \in 1..n
      BY <1>3
    <3>5. Tables(s)
      BY DEF Wf
    <3>6. \A i, j \in 1..Len(t.pfd) : t.pfd[i].fd = t.pfd[j].fd => i = j
      BY <3>1, <3>5 DEF Tables
    <3>7. ASSUME NEW j \in 1..Len(t.pfd)
          PROVE  \E i \in 1..n : t.conns[i].active /\ t.conns[i].fd = t.pfd[j].fd
      <4>1. PICK i \in 1..Len(s.conns) : s.conns[i].active /\ s.conns[i].fd = s.pfd[j].fd
        BY <3>1, <3>5 DEF Tables
      <4> QED BY <1>1, <3>1, <3>4, <4>1
    <3>8. ASSUME NEW i \in 1..n, t.conns[i].active
          PROVE  \E j \in 1..Len(t.pfd) : t.pfd[j].fd = t.conns[i].fd
      <4>1. i \in 1..Len(s.conns) /\ t.conns[i] = s.conns[i]
        BY <1>1, <3>3, <3>8
      <4> QED BY <3>1, <3>5, <3>8, <4>1 DEF Tables
    <3> QED BY <1>1, <3>2, <3>6, <3>7, <3>8 DEF Tables
  <2>2. CASE Allowed(s, type)
    <3> DEFINE m == Len(s.pfd) + 1
               e == [fd |-> f, ev |-> "none"]
    <3>1. e \in PollFd /\ e.fd = f /\ e.ev = "none"
      BY DEF PollFd
    <3>2. Len(s.pfd) \in Nat /\ s.pfd \in Seq(PollFd)
      BY FieldTypes
    <3>3. t.pfd = Append(s.pfd, e)
      BY <1>2, <2>2
    <3> HIDE DEF e
    <3>4. /\ Len(t.pfd) = m /\ t.pfd[m] = e
          /\ \A j \in 1..Len(s.pfd) : t.pfd[j] = s.pfd[j]
      BY <3>1, <3>2, <3>3, AppendFacts
    <3>5. 1..m = 1..Len(s.pfd) \cup {m} /\ m \notin 1..Len(s.pfd)
      BY <3>2
    <3> HIDE DEF m
    <3>6. Rejects(t)
      BY <1>1, <3>1, <3>4, <3>5 DEF Wf, Rejects
    <3>7. \A i, j \in 1..m : t.pfd[i].fd = t.pfd[j].fd => i = j
      BY <1>6, <3>1, <3>4, <3>5 DEF Wf, Tables
    <3>8. ASSUME NEW j \in 1..m
          PROVE  \E i \in 1..n : t.conns[i].active /\ t.conns[i].fd = t.pfd[j].fd
      <4>1. CASE j = m
        <5>1. n \in 1..n
          BY <1>3
        <5>2. t.conns[n].active /\ t.conns[n].fd = t.pfd[m].fd
          BY <1>1, <2>2, <3>1, <3>4
        <5> QED BY <5>1, <5>2, <4>1
      <4>2. CASE j \in 1..Len(s.pfd)
        <5>1. PICK i \in 1..Len(s.conns) :
                s.conns[i].active /\ s.conns[i].fd = s.pfd[j].fd
          BY <4>2 DEF Wf, Tables
        <5>2. t.pfd[j] = s.pfd[j] /\ t.conns[i] = s.conns[i]
          BY <1>1, <3>4, <4>2
        <5>3. i \in 1..n
          BY <1>3
        <5> QED BY <5>1, <5>2, <5>3
      <4> QED BY <3>5, <4>1, <4>2
    <3>9. ASSUME NEW i \in 1..n, t.conns[i].active
          PROVE  \E j \in 1..m : t.pfd[j].fd = t.conns[i].fd
      <4>1. CASE i = n
        <5>1. m \in 1..m
          BY <3>5
        <5>2. t.pfd[m].fd = t.conns[n].fd
          BY <1>1, <3>1, <3>4
        <5> QED BY <5>1, <5>2, <4>1
      <4>2. CASE i \in 1..Len(s.conns)
        <5>1. PICK j \in 1..Len(s.pfd) : s.pfd[j].fd = s.conns[i].fd
          BY <1>1, <3>9, <4>2 DEF Wf, Tables
        <5>2. t.pfd[j] = s.pfd[j] /\ t.conns[i] = s.conns[i]
          BY <1>1, <3>4, <4>2
        <5>3. j \in 1..m
          BY <3>5
        <5> QED BY <5>1, <5>2, <5>3
      <4> QED BY <1>3, <4>1, <4>2
    <3> QED BY <1>1, <3>4, <3>6, <3>7, <3>8, <3>9 DEF Tables
  <2> QED BY <2>1, <2>2
<1>8. Counts(t)
  <2> DEFINE old == CountedAt(s.conns)
  <2>1. IsFiniteSet(old) /\ n \notin old
    BY <1>3, <1>4, CountedFinite DEF CountedAt
  <2>2. s.clients = Cardinality(old)
    BY DEF Wf, Counts
  <2>3. CountedAt(t.conns) = IF type \in Counted THEN old \cup {n} ELSE old
    BY <1>1, <1>3, <1>4 DEF CountedAt
  <2>4. Cardinality(old \cup {n}) = Cardinality(old) + 1
    BY <2>1, FS_AddElement
  <2> QED BY <1>1, <2>2, <2>3, <2>4 DEF Counts
<1> QED BY <1>1, <1>5, <1>7, <1>8 DEF Wf

-----------------------------------------------------------------------------
(* The filters.                                                            *)

Masks == {m \in SUBSET Type : "tcp" \in m <=> "client_connect" \in m}
Filter(L) == [name : Values(L), min : 0..LevelMax, max : 0..LevelMax, clients : Masks,
              control : SUBSET Service, injections : DataOf(L, "Injections") \cup {<<>>}]
InjectionOf(L) == [name : Values(L), apid : Values(L), ctid : Values(L), ecuid : Values(L),
                 ids : Values(L) \cup {{}}]

(* They divide the levels up to the last one's.                            *)
Divided(q) ==
  /\ q # <<>> => q[1].min = 0
  /\ \A i \in 1..Len(q) : q[i].min <= q[i].max
  /\ \A i \in 1..(Len(q) - 1) : q[i + 1].min = q[i].max + 1
Divisions(L) == {q \in Seq(Filter(L)) : Divided(q)}
MessageFilters(L) ==
  [ok : BOOLEAN, default : 0..LevelMax, backend : BOOLEAN,
   configs : Divisions(L), injections : Seq(InjectionOf(L))]

LEMMA ClientMaskIs ==
  ASSUME NEW value
  PROVE  ClientMask(value) \in Masks
<1>1. \A t : TypesOf(t) \in Masks
  BY DEF TypesOf, Masks, Type
<1>2. DefaultMask \in Masks /\ Type \in Masks
  BY DEF DefaultMask, Masks, Type
<1>3. \A S : S \subseteq Masks => UNION S \in Masks
  BY DEF Masks
<1>4. \A m, n \in Masks : m \cup n \in Masks
  BY DEF Masks
<1>5. UNION {TypesOf(t) : t \in value} \in Masks
  BY <1>1, <1>3
<1> HIDE DEF Masks
<1> QED BY <1>2, <1>4, <1>5 DEF ClientMask

LEMMA FilterFields ==
  ASSUME NEW L, NEW q \in Seq(Filter(L))
  PROVE  /\ Len(q) \in Nat
         /\ \A i \in 1..Len(q) : /\ q[i] \in Filter(L)
                                 /\ q[i].min \in 0..LevelMax /\ q[i].max \in 0..LevelMax
                                 /\ q[i].clients \in Masks
<1>1. \A i \in 1..Len(q) : q[i] \in Filter(L)
  BY ElementOfSeq
<1> QED BY <1>1 DEF Filter

LEMMA AppendedDivided ==
  ASSUME NEW L, NEW q \in Divisions(L), NEW x \in Filter(L), x.min = 0,
         \A i \in 1..Len(q) : q[i].max < x.max
  PROVE  InsertAtEnd(q, x) \in Divisions(L)
<1> DEFINE n == Len(q)
           y == [x EXCEPT !.min = IF q = <<>> THEN @ ELSE Last(q).max + 1]
<1>0. LevelMax \in Nat
  BY MessageFilterAssumption
<1>1. q \in Seq(Filter(L)) /\ Divided(q)
  BY DEF Divisions
<1>2. n \in Nat /\ (q # <<>> => n \in 1..n /\ Last(q) = q[n]) /\ (q = <<>> => n = 0)
  BY <1>1 DEF Last
<1>3. /\ \A i \in 1..n : q[i].min \in 0..LevelMax /\ q[i].max \in 0..LevelMax
      /\ x.max \in 0..LevelMax
  BY <1>1, FilterFields DEF Filter
<1>4. /\ y.max = x.max
      /\ y.min = IF q = <<>> THEN 0 ELSE q[n].max + 1
      /\ y.min \in 0..LevelMax /\ y.min <= y.max
      /\ y \in Filter(L)
  <2> DEFINE m == IF q = <<>> THEN 0 ELSE q[n].max + 1
  <2>1. m \in 0..LevelMax /\ m <= x.max
    BY <1>0, <1>2, <1>3
  <2>2. y = [x EXCEPT !.min = m]
    BY <1>2
  <2> HIDE DEF m, y
  <2>3. y \in Filter(L) /\ y.max = x.max /\ y.min = m
    BY <2>1, <2>2 DEF Filter
  <2> QED BY <2>1, <2>3 DEF m
<1> HIDE DEF y
<1>5. /\ Append(q, y) \in Seq(Filter(L)) /\ Len(Append(q, y)) = n + 1
      /\ \A i \in 1..n : Append(q, y)[i] = q[i]
      /\ Append(q, y)[n + 1] = y
  BY <1>1, <1>4, AppendFacts
<1> DEFINE a == Append(q, y)
<1> HIDE DEF a, n
<1>6. Divided(a)
  <2>1. a[1].min = 0
    <3>1. CASE q = <<>>
      BY <1>2, <1>4, <1>5, <3>1 DEF a
    <3>2. CASE q # <<>>
      <4>1. 1 \in 1..n
        BY <1>2, <3>2
      <4> QED BY <1>1, <1>5, <3>2, <4>1 DEF a, Divided
    <3> QED BY <3>1, <3>2
  <2>2. ASSUME NEW i \in 1..(n + 1) PROVE a[i].min <= a[i].max
    <3>1. i \in 1..n \/ i = n + 1
      BY <1>2
    <3> QED BY <1>1, <1>4, <1>5, <3>1 DEF a, Divided, n
  <2>3. ASSUME NEW i \in 1..n PROVE a[i + 1].min = a[i].max + 1
    <3>1. CASE i = n
      <4>1. q # <<>> /\ n \in 1..n
        BY <1>2, <3>1
      <4> QED BY <1>4, <1>5, <3>1, <4>1 DEF a
    <3>2. CASE i # n
      <4>1. i \in 1..(n - 1) /\ i + 1 \in 1..n /\ i \in 1..n
        BY <1>2, <3>2
      <4> QED BY <1>1, <1>5, <4>1 DEF a, Divided, n
    <3> QED BY <3>1, <3>2
  <2>4. Len(a) = n + 1 /\ Len(a) - 1 = n
    BY <1>2, <1>5 DEF a
  <2> QED BY <2>1, <2>2, <2>3, <2>4 DEF Divided
<1>7. InsertAtEnd(q, x) = a
  BY DEF InsertAtEnd, a, y
<1> QED BY <1>5, <1>6, <1>7 DEF Divisions, a

LEMMA InsertedDivided ==
  ASSUME NEW L, NEW q \in Divisions(L), NEW x \in Filter(L), x.min = 0,
         NEW i \in 1..Len(q), x.max < q[i].max, i = 1 \/ q[i - 1].max < x.max
  PROVE  InsertBefore(q, x, i) \in Divisions(L)
<1> DEFINE n == Len(q)
           y == [x EXCEPT !.min = IF i = 1 THEN @ ELSE q[i].min]
           z == [q[i] EXCEPT !.min = x.max + 1]
           u == [q EXCEPT ![i] = z]
<1>0. LevelMax \in Nat
  BY MessageFilterAssumption
<1>1. q \in Seq(Filter(L)) /\ Divided(q)
  BY DEF Divisions
<1>2. n \in Nat /\ i \in Nat /\ i >= 1 /\ i <= n /\ q # <<>>
  BY <1>1
<1>3. /\ \A k \in 1..n : q[k].min \in 0..LevelMax /\ q[k].max \in 0..LevelMax
      /\ q[i] \in Filter(L) /\ x.max \in 0..LevelMax
  BY <1>1, FilterFields DEF Filter
<1>4. i # 1 => q[i].min = q[i - 1].max + 1 /\ q[i].min <= x.max
  <2> SUFFICES ASSUME i # 1 PROVE q[i].min = q[i - 1].max + 1 /\ q[i].min <= x.max
    OBVIOUS
  <2>1. i - 1 \in 1..(n - 1) /\ i - 1 \in 1..n /\ (i - 1) + 1 = i
    BY <1>2
  <2>2. q[(i - 1) + 1].min = q[i - 1].max + 1
    BY <1>1, <2>1 DEF Divided
  <2>3. q[i - 1].max \in 0..LevelMax /\ q[i - 1].max < x.max /\ x.max \in 0..LevelMax
    BY <1>3, <2>1
  <2> QED BY <2>1, <2>2, <2>3
<1>5. y \in Filter(L) /\ y.max = x.max /\ y.min <= y.max
      /\ y.min = IF i = 1 THEN 0 ELSE q[i].min
  <2> DEFINE m == IF i = 1 THEN 0 ELSE q[i].min
  <2>1. m \in 0..LevelMax /\ m <= x.max
    BY <1>0, <1>3, <1>4
  <2>2. y = [x EXCEPT !.min = m]
    OBVIOUS
  <2> HIDE DEF m, y
  <2>3. y \in Filter(L) /\ y.max = x.max /\ y.min = m
    BY <2>1, <2>2 DEF Filter
  <2> QED BY <2>1, <2>3 DEF m
<1>6. z \in Filter(L) /\ z.max = q[i].max /\ z.min = x.max + 1 /\ z.min <= z.max
  <2> DEFINE m == x.max + 1
  <2>1. m \in 0..LevelMax /\ m <= q[i].max
    BY <1>0, <1>3
  <2>2. z = [q[i] EXCEPT !.min = m]
    OBVIOUS
  <2> HIDE DEF m, z
  <2>3. z \in Filter(L) /\ z.max = q[i].max /\ z.min = m
    BY <1>3, <2>1, <2>2 DEF Filter
  <2> QED BY <2>1, <2>3 DEF m
<1> HIDE DEF y, z
<1>7. /\ u \in Seq(Filter(L)) /\ Len(u) = n /\ u[i] = z
      /\ \A k \in 1..n : k # i => u[k] = q[k]
  BY <1>1, <1>6, ExceptSeq
<1> DEFINE a == InsertAt(u, i, y)
<1> HIDE DEF u
<1>8. /\ a \in Seq(Filter(L)) /\ Len(a) = n + 1
      /\ \A k \in 1..(n + 1) :
           a[k] = IF k < i THEN u[k] ELSE IF k = i THEN y ELSE u[k - 1]
  <2>1. i \in 1..Len(u)
    BY <1>2, <1>7
  <2> QED BY <1>5, <1>7, <2>1, InsertAtFacts
<1> HIDE DEF a, n
<1>9. /\ a[i] = y /\ a[i + 1] = z
      /\ \A k \in 1..n : k < i => a[k] = q[k]
      /\ \A k \in 1..n : k > i => a[k + 1] = q[k]
  <2>1. a[i] = y
    BY <1>2, <1>8
  <2>2. a[i + 1] = z
    <3>1. i + 1 \in 1..(n + 1) /\ ~(i + 1 < i) /\ i + 1 # i /\ (i + 1) - 1 = i
      BY <1>2
    <3> QED BY <1>7, <1>8, <3>1
  <2>3. ASSUME NEW k \in 1..n, k < i PROVE a[k] = q[k]
    <3>1. k \in 1..(n + 1) /\ k # i
      BY <1>2, <2>3
    <3> QED BY <1>7, <1>8, <2>3, <3>1
  <2>4. ASSUME NEW k \in 1..n, k > i PROVE a[k + 1] = q[k]
    <3>1. k + 1 \in 1..(n + 1) /\ ~(k + 1 < i) /\ k + 1 # i /\ (k + 1) - 1 = k /\ k # i
      BY <1>2, <2>4
    <3>2. a[k + 1] = u[(k + 1) - 1]
      BY <1>8, <3>1
    <3> QED BY <1>7, <3>1, <3>2
  <2> QED BY <2>1, <2>2, <2>3, <2>4
<1>10. Divided(a)
  <2>1. a[1].min = 0
    <3>1. CASE i = 1
      BY <1>5, <1>9, <3>1
    <3>2. CASE i # 1
      <4>1. 1 \in 1..n /\ 1 < i
        BY <1>2, <3>2
      <4> QED BY <1>1, <1>2, <1>9, <4>1 DEF Divided
    <3> QED BY <3>1, <3>2
  <2>2. ASSUME NEW k \in 1..(n + 1) PROVE a[k].min <= a[k].max
    <3>1. CASE k < i
      <4>1. k \in 1..n
        BY <1>2, <3>1
      <4> QED BY <1>1, <1>9, <3>1, <4>1 DEF Divided, n
    <3>2. CASE k = i
      BY <1>5, <1>9, <3>2
    <3>3. CASE k = i + 1
      BY <1>6, <1>9, <3>3
    <3>4. CASE k > i + 1
      <4>1. k - 1 \in 1..n /\ k - 1 > i /\ (k - 1) + 1 = k
        BY <1>2, <3>4
      <4>2. a[(k - 1) + 1] = q[k - 1]
        BY <1>9, <4>1
      <4> QED BY <1>1, <4>1, <4>2 DEF Divided, n
    <3>5. k < i \/ k = i \/ k = i + 1 \/ k > i + 1
      BY <1>2
    <3> QED BY <3>1, <3>2, <3>3, <3>4, <3>5
  <2>3. ASSUME NEW k \in 1..n PROVE a[k + 1].min = a[k].max + 1
    <3>1. CASE k + 1 < i
      <4>1. k \in 1..n /\ k + 1 \in 1..n /\ k < i /\ k \in 1..(n - 1)
        BY <1>2, <3>1
      <4> QED BY <1>1, <1>9, <3>1, <4>1 DEF Divided, n
    <3>2. CASE k + 1 = i
      <4>1. k < i /\ i # 1 /\ i - 1 = k
        BY <1>2, <3>2
      <4>2. a[k] = q[k] /\ a[k + 1] = y
        BY <1>9, <3>2, <4>1
      <4> QED BY <1>4, <1>5, <4>1, <4>2
    <3>3. CASE k = i
      BY <1>5, <1>6, <1>9, <3>3
    <3>4. CASE k = i + 1
      <4>1. k > i /\ i \in 1..(n - 1)
        BY <1>2, <3>4
      <4>2. q[i + 1].min = q[i].max + 1
        BY <1>1, <4>1 DEF Divided, n
      <4> QED BY <1>6, <1>9, <3>4, <4>1, <4>2
    <3>5. CASE k > i + 1
      <4>1. /\ k > i /\ k - 1 \in 1..n /\ k - 1 > i /\ (k - 1) + 1 = k
            /\ k - 1 \in 1..(n - 1)
        BY <1>2, <3>5
      <4>2. a[(k - 1) + 1] = q[k - 1] /\ a[k + 1] = q[k]
        BY <1>9, <4>1
      <4>3. q[(k - 1) + 1].min = q[k - 1].max + 1
        BY <1>1, <4>1 DEF Divided, n
      <4> QED BY <4>1, <4>2, <4>3
    <3>6. k + 1 < i \/ k + 1 = i \/ k = i \/ k = i + 1 \/ k > i + 1
      BY <1>2
    <3> QED BY <3>1, <3>2, <3>3, <3>4, <3>5, <3>6
  <2>4. Len(a) - 1 = n
    BY <1>2, <1>8
  <2> QED BY <1>8, <2>1, <2>2, <2>3, <2>4 DEF Divided
<1>11. InsertBefore(q, x, i) = a
  BY DEF InsertBefore, a, u, y, z
<1> QED BY <1>8, <1>10, <1>11 DEF Divisions

LEMMA InsertFilterIs ==
  ASSUME NEW L, NEW q \in Divisions(L), NEW x \in Filter(L), x.min = 0,
         ~LevelDefined(q, x)
  PROVE  InsertFilter(q, x) \in Divisions(L)
<1> DEFINE I == {i \in 1..Len(q) : x.max < q[i].max}
           i == First(I)
<1>1. q \in Seq(Filter(L))
  BY DEF Divisions
<1>2. InsertFilter(q, x) = IF i = 0 THEN InsertAtEnd(q, x) ELSE InsertBefore(q, x, i)
  BY DEF InsertFilter, SelectInSeq, First
<1>3. \A k \in 1..Len(q) : q[k].max \in Int /\ x.max \in Int /\ q[k].max # x.max
  BY <1>1, FilterFields DEF LevelDefined, Filter
<1>4. \/ i = 0 /\ I = {}
      \/ i \in I /\ i # 0 /\ \A k \in I : i <= k
  <2>1. I \in SUBSET (1..Len(q)) /\ Len(q) \in Nat
    BY <1>1
  <2> HIDE DEF I
  <2> QED BY <2>1, FirstIsLeast
<1>5. CASE i = 0 /\ I = {}
  <2>1. \A k \in 1..Len(q) : q[k].max < x.max
    BY <1>3, <1>5
  <2> HIDE DEF i
  <2> QED BY <1>2, <1>5, <2>1, AppendedDivided
<1>6. CASE i \in I /\ i # 0 /\ \A k \in I : i <= k
  <2>1. i \in 1..Len(q) /\ x.max < q[i].max
    BY <1>6
  <2>2. ASSUME i # 1 PROVE q[i - 1].max < x.max
    <3>1. i - 1 \in 1..Len(q) /\ ~(i <= i - 1)
      BY <1>1, <2>1, <2>2
    <3>2. i - 1 \notin I
      BY <1>6, <3>1
    <3> QED BY <1>3, <3>1, <3>2
  <2> HIDE DEF i
  <2> QED BY <1>2, <1>6, <2>1, <2>2, InsertedDivided
<1> QED BY <1>4, <1>5, <1>6

LEMMA SetupFilterStays ==
  ASSUME NEW L, NEW m \in MessageFilters(L), NEW file \in Seq(Section(L)), NEW sec
  PROVE  SetupFilter(m, file, sec) \in MessageFilters(L)
<1> DEFINE V(key) == GetValue(file, sec, key)
           x == [name |-> V("Name"), min |-> 0, max |-> V("Level"),
                 clients |-> ClientMask(V("Clients")),
                 control |-> ControlMask(V("ControlMessages")),
                 injections |-> V("Injections")]
           refused == \/ \E key \in FilterKeys : V(key) = Absent
                      \/ NameInUse(m.configs, V("Name"))
                      \/ V("Level") \notin 0..LevelMax
                      \/ LevelDefined(m.configs, x)
           new == [m EXCEPT !.configs = InsertFilter(@, x)]
<1>1. SetupFilter(m, file, sec) = IF refused THEN Failed(m) ELSE new
  BY DEF SetupFilter
<1>2. Failed(m) \in MessageFilters(L)
  BY DEF Failed, MessageFilters
<1>3. ASSUME ~refused PROVE new \in MessageFilters(L)
  <2>1. \A key \in FilterKeys : V(key) \in DataOf(L, key)
    BY <1>3, GetValueIs
  <2>2. V("Level") \in 0..LevelMax /\ ~LevelDefined(m.configs, x)
    BY <1>3
  <2>3. ClientMask(V("Clients")) \in Masks /\ ControlMask(V("ControlMessages")) \in SUBSET Service
    BY ClientMaskIs DEF ControlMask
  <2>4. V("Name") \in Values(L) /\ V("Injections") \in DataOf(L, "Injections")
    BY <2>1, DataAreValues DEF FilterKeys
  <2>5. 0 \in 0..LevelMax
    BY MessageFilterAssumption
  <2> HIDE DEF V, refused
  <2>6. x \in Filter(L) /\ x.min = 0
    BY <2>2, <2>3, <2>4, <2>5 DEF Filter
  <2>7. m.configs \in Divisions(L)
    BY DEF MessageFilters
  <2> HIDE DEF x
  <2>8. InsertFilter(m.configs, x) \in Divisions(L)
    BY <2>2, <2>6, <2>7, InsertFilterIs
  <2> QED BY <2>8 DEF MessageFilters
<1> HIDE DEF refused, new
<1> QED BY <1>1, <1>2, <1>3

LEMMA SetupInjectionStays ==
  ASSUME NEW L, NEW m \in MessageFilters(L), NEW file \in Seq(Section(L)), NEW sec
  PROVE  SetupInjection(m, file, sec) \in MessageFilters(L)
<1> DEFINE V(key) == LET v == GetValue(file, sec, key)
                     IN IF v = Absent THEN <<>> ELSE v
           x == [name |-> V("Name"), apid |-> V("LogAppName"),
                 ctid |-> V("ContextName"), ecuid |-> V("NodeID"),
                 ids |-> ServiceIds(GetValue(file, sec, "ServiceID"))]
           new == [m EXCEPT !.injections = Append(@, x)]
<1>1. SetupInjection(m, file, sec) \in {Failed(m), new}
  BY DEF SetupInjection
<1>2. Failed(m) \in MessageFilters(L)
  BY DEF Failed, MessageFilters
<1>3. \A key : V(key) \in Values(L)
  <2>1. <<>> \in Values(L)
    BY DEF Values
  <2> QED BY <2>1, GetValueIs, DataAreValues
<1>4. ServiceIds(GetValue(file, sec, "ServiceID")) \in Values(L) \cup {{}}
  BY GetValueIs, DataAreValues DEF ServiceIds
<1> HIDE DEF V
<1>5. x \in InjectionOf(L)
  BY <1>3, <1>4 DEF InjectionOf
<1> HIDE DEF x
<1>6. m.injections \in Seq(InjectionOf(L))
  BY DEF MessageFilters
<1>7. Append(m.injections, x) \in Seq(InjectionOf(L))
  BY <1>5, <1>6, AppendFacts
<1>8. new \in MessageFilters(L)
  BY <1>7 DEF MessageFilters
<1> HIDE DEF new
<1> QED BY <1>1, <1>2, <1>8

LEMMA SetupSectionStays ==
  ASSUME NEW L, NEW m \in MessageFilters(L), NEW file \in Seq(Section(L)), NEW sec
  PROVE  SetupSection(m, file, sec) \in MessageFilters(L)
<1>1. SetupGeneral(m, file, sec) \in MessageFilters(L)
  <2> DEFINE level == GetValue(file, sec, "DefaultLevel")
             l == IF level \in 0..LevelMax THEN level ELSE m.default
             b == GetValue(file, sec, "Backend") # Absent
             new == [m EXCEPT !.default = l, !.backend = b]
  <2>1. SetupGeneral(m, file, sec) \in {Failed(m), new}
    BY DEF SetupGeneral
  <2>2. Failed(m) \in MessageFilters(L)
    BY DEF Failed, MessageFilters
  <2>3. l \in 0..LevelMax /\ b \in BOOLEAN
    BY DEF MessageFilters
  <2> HIDE DEF l, b
  <2>4. new \in MessageFilters(L)
    BY <2>3 DEF MessageFilters
  <2> HIDE DEF new
  <2> QED BY <2>1, <2>2, <2>4
<1>2. SetupFilter(m, file, sec) \in MessageFilters(L)
  BY SetupFilterStays
<1>3. SetupInjection(m, file, sec) \in MessageFilters(L)
  BY SetupInjectionStays
<1> QED BY <1>1, <1>2, <1>3 DEF SetupSection

(* The filters in use: they divide all levels.                             *)
AllLevels(L) == {q \in Divisions(L) : q # <<>> /\ q[Len(q)].max = LevelMax}

LEMMA CoverAllLevelsIs ==
  ASSUME NEW L, NEW q \in Divisions(L)
  PROVE  CoverAllLevels(q) \in AllLevels(L)
<1>0. LevelMax \in Nat /\ q \in Seq(Filter(L)) /\ Divided(q)
  BY MessageFilterAssumption DEF Divisions
<1>1. CASE q = <<>>
  <2> DEFINE c == ClosedFilter
  <2>1. c \in Filter(L) /\ c.min = 0 /\ c.max = LevelMax
    <3>1. DefaultMask \in Masks /\ <<>> \in Values(L) /\ 0 \in 0..LevelMax
          /\ LevelMax \in 0..LevelMax
      BY <1>0 DEF DefaultMask, Masks, Type, Values
    <3> QED BY <3>1 DEF ClosedFilter, Filter
  <2> HIDE DEF c
  <2>2. <<c>> \in Seq(Filter(L)) /\ Len(<<c>>) = 1 /\ <<c>>[1] = c /\ <<c>> # <<>>
    BY <2>1
  <2>3. Divided(<<c>>)
    BY <1>0, <2>1, <2>2 DEF Divided
  <2>4. CoverAllLevels(q) = <<c>>
    BY <1>1 DEF CoverAllLevels, c
  <2> QED BY <2>1, <2>2, <2>3, <2>4 DEF AllLevels, Divisions
<1>2. CASE q # <<>>
  <2> DEFINE n == Len(q)
             e == [q[n] EXCEPT !.max = LevelMax]
             a == [q EXCEPT ![n] = e]
  <2>1. n \in Nat /\ n \in 1..n
    BY <1>0, <1>2
  <2>2. q[n] \in Filter(L) /\ q[n].min \in 0..LevelMax
    BY <1>0, <2>1, FilterFields
  <2>3. e \in Filter(L) /\ e.max = LevelMax /\ e.min = q[n].min
    <3>1. LevelMax \in 0..LevelMax
      BY <1>0
    <3> QED BY <2>2, <3>1 DEF Filter
  <2> HIDE DEF e
  <2>4. /\ a \in Seq(Filter(L)) /\ Len(a) = n /\ a[n] = e
        /\ \A k \in 1..n : k # n => a[k] = q[k]
    BY <1>0, <2>1, <2>3, ExceptSeq
  <2>5. CoverAllLevels(q) = a
    BY <1>2 DEF CoverAllLevels, e
  <2> HIDE DEF a, n
  <2>6. \A k \in 1..n : a[k].min = q[k].min
    BY <2>3, <2>4
  <2>7. \A k \in 1..n : a[k].min <= a[k].max
    <3>1. a[n].min <= a[n].max
      BY <1>0, <2>2, <2>3, <2>4
    <3> QED BY <1>0, <2>4, <3>1 DEF Divided, n
  <2>8. \A k \in 1..(n - 1) : a[k + 1].min = a[k].max + 1
    <3> SUFFICES ASSUME NEW k \in 1..(n - 1) PROVE a[k + 1].min = a[k].max + 1
      OBVIOUS
    <3>1. k \in 1..n /\ k # n /\ k + 1 \in 1..n
      BY <2>1
    <3>2. q[k + 1].min = q[k].max + 1
      BY <1>0 DEF Divided, n
    <3> QED BY <2>4, <2>6, <3>1, <3>2
  <2>9. a[1].min = 0
    <3>1. 1 \in 1..n
      BY <2>1
    <3> QED BY <1>0, <1>2, <2>6, <3>1 DEF Divided
  <2>10. Divided(a)
    BY <2>4, <2>7, <2>8, <2>9 DEF Divided
  <2>11. a # <<>>
    BY <2>1, <2>4
  <2> QED BY <2>3, <2>4, <2>5, <2>10, <2>11 DEF AllLevels, Divisions
<1> QED BY <1>1, <1>2

LEMMA SetupAllStays ==
  ASSUME NEW L, NEW file \in Seq(Section(L))
  PROVE  FoldLeft(LAMBDA m, s : SetupSection(m, file, s.name), EmptyFilter, file)
           \in MessageFilters(L)
<1> DEFINE n == Len(file)
           D == 1..n
           V == MessageFilters(L)
           c == MaxOf(n)
           Folded(g) == g = [A \in SUBSET D |->
                               IF A = {} THEN EmptyFilter
                               ELSE SetupSection(g[A \ {Max(A)}], file, file[Max(A)].name)]
           value == FoldLeft(LAMBDA m, s : SetupSection(m, file, s.name), EmptyFilter, file)
<1>0. n \in Nat /\ DOMAIN file = D
  OBVIOUS
<1>1. IsFiniteSet(D) /\ Chooses(c, D) /\ \A A \in SUBSET D : c[A] = Max(A)
  BY <1>0, MaxOfChooses DEF MaxOf
<1>2. EmptyFilter \in V
  <2>1. <<>> \in Divisions(L) /\ <<>> \in Seq(InjectionOf(L)) /\ 0 \in 0..LevelMax
    BY MessageFilterAssumption DEF Divisions, Divided
  <2> QED BY <2>1 DEF EmptyFilter, MessageFilters
<1>3. \A x \in D : \A v \in V : SetupSection(v, file, file[x].name) \in V
  BY SetupSectionStays
<1>4. value = (CHOOSE g : Folded(g))[D]
  BY <1>0 DEF FoldLeft, MapThenFoldSet
<1> HIDE DEF n, D, V, c, value
<1>5. \E g : Folded(g)
  <2> DEFINE F == [p \in D \X V |-> SetupSection(p[2], file, file[p[1]].name)]
  <2>1. PICK g : FoldsTo(g, D, EmptyFilter, c, F)
    <3> HIDE DEF F
    <3> QED BY <1>1, FoldExists
  <2>2. \A x \in D : \A v \in V : F[<<x, v>>] = SetupSection(v, file, file[x].name)
    OBVIOUS
  <2> HIDE DEF F
  <2>3. ASSUME NEW A \in SUBSET D, A # {}, g[A \ {c[A]}] \in V
        PROVE  /\ g[A] \in V
               /\ g[A] = SetupSection(g[A \ {Max(A)}], file, file[Max(A)].name)
    <3>1. c[A] = Max(A) /\ c[A] \in D /\ g[A] = F[<<c[A], g[A \ {c[A]}]>>]
      BY <1>1, <2>1, <2>3 DEF Chooses, FoldsTo
    <3> QED BY <1>3, <2>2, <2>3, <3>1
  <2>4. g[{}] = EmptyFilter
    BY <2>1 DEF FoldsTo
  <2>5. \A A \in SUBSET D : g[A] \in V
    BY <1>1, <1>2, <2>3, <2>4, FoldStays
  <2>6. \A A \in SUBSET D :
          g[A] = IF A = {} THEN EmptyFilter
                 ELSE SetupSection(g[A \ {Max(A)}], file, file[Max(A)].name)
    <3> SUFFICES ASSUME NEW A \in SUBSET D, A # {}
                 PROVE  g[A] = SetupSection(g[A \ {Max(A)}], file, file[Max(A)].name)
      BY <2>4
    <3> QED BY <2>3, <2>5
  <2>7. Folded(g)
    BY <2>1, <2>6 DEF FoldsTo
  <2> QED BY <2>7
<1>6. ASSUME NEW g, Folded(g) PROVE g[D] \in V
  <2>1. g[{}] \in V
    BY <1>2, <1>6
  <2>2. ASSUME NEW A \in SUBSET D, A # {}, g[A \ {c[A]}] \in V PROVE g[A] \in V
    <3>1. c[A] = Max(A) /\ c[A] \in D
      BY <1>1, <2>2 DEF Chooses
    <3>2. g[A] = SetupSection(g[A \ {Max(A)}], file, file[Max(A)].name)
      BY <1>6, <2>2
    <3> QED BY <1>3, <2>2, <3>1, <3>2
  <2> HIDE DEF Folded
  <2> QED BY <1>1, <2>1, <2>2, FoldStays
<1> HIDE DEF Folded
<1>7. value \in V
  BY <1>4, <1>5, <1>6
<1> QED BY <1>7 DEF value, V

(* Whatever the lines of the configuration file.                           *)
LEMMA PrepareIs ==
  ASSUME NEW L, NEW lines \in Seq(L), NEW m, m = PrepareMessageFilter(lines)
  PROVE  /\ m.configs \in AllLevels(L) /\ m.injections \in Seq(InjectionOf(L))
         /\ m.ok \in BOOLEAN /\ m.backend \in BOOLEAN /\ m.default \in 0..LevelMax
<1> DEFINE file == ReadFile(lines)
           x == FoldLeft(LAMBDA y, s : SetupSection(y, file, s.name), EmptyFilter, file)
<1>1. file \in Seq(Section(L))
  BY ReadFileIs
<1>2. m = [x EXCEPT !.configs = CoverAllLevels(@)]
  BY DEF PrepareMessageFilter
<1> HIDE DEF file
<1>3. x \in MessageFilters(L)
  BY <1>1, SetupAllStays
<1> HIDE DEF x
<1>4. CoverAllLevels(x.configs) \in AllLevels(L)
  BY <1>3, CoverAllLevelsIs DEF MessageFilters
<1> QED BY <1>2, <1>3, <1>4 DEF MessageFilters

-----------------------------------------------------------------------------
(* Injections.                                                             *)

LEMMA InjectionsListed ==
  ASSUME NEW L, NEW q \in Seq(InjectionOf(L)), mf.injections = q, NEW m,
         NEW current, NEW n \in Nat,
         current.injections # Star => DOMAIN current.injections = 1..n,
         IsInjectionAllowed(current, q, m)
  PROVE  LET names == current.injections
         IN names = Star \/ \E i \in DOMAIN names : ListedUnder(names[i], m)
<1> DEFINE names == current.injections
           Where(i) == FindInjection(q, names[i])
<1> SUFFICES ASSUME names # Star PROVE \E i \in DOMAIN names : ListedUnder(names[i], m)
  OBVIOUS
<1>1. PICK i \in DOMAIN names :
        /\ \A j \in 1..i : Where(j) # 0 /\ SameTarget(q[Where(j)], m)
        /\ m.id \in q[Where(i)].ids
  BY DEF IsInjectionAllowed
<1>2. i \in 1..i
  BY <1>1
<1> DEFINE I == {k \in 1..Len(q) : IsPrefix(q[k].name, names[i])}
<1>3. Where(i) = First(I)
  BY DEF FindInjection, SelectInSeq, First
<1>4. Where(i) \in 1..Len(q) /\ IsPrefix(q[Where(i)].name, names[i])
  <2>1. I \in SUBSET (1..Len(q)) /\ Len(q) \in Nat
    OBVIOUS
  <2>2. First(I) # 0
    BY <1>1, <1>2, <1>3
  <2> HIDE DEF I
  <2>3. First(I) \in I
    BY <2>1, <2>2, FirstIsLeast
  <2> QED BY <1>3, <2>3 DEF I
<1> HIDE DEF Where
<1>5. ListedUnder(names[i], m)
  BY <1>1, <1>2, <1>4 DEF ListedUnder, SameTarget
<1> QED BY <1>1, <1>5

-----------------------------------------------------------------------------
(* Descriptors.                                                            *)

LEMMA NoneIsNoFd == None \notin Fd /\ \A f \in Fd : f \in Int
BY EventLoopAssumption DEF None, Fd

LEMMA LowestFreeIs ==
  ASSUME NEW s
  PROVE  \/ LowestFree(s) = None
         \/ LowestFree(s) \in Fd /\ s.fds[LowestFree(s)].k = "free"
<1> DEFINE I == {f \in Fd : s.fds[f].k = "free"}
<1>1. I \in SUBSET Nat
  BY DEF Fd
<1>2. CASE I = {}
  BY <1>2 DEF LowestFree
<1>3. CASE I # {}
  <2>1. LowestFree(s) = Min(I)
    BY <1>3 DEF LowestFree
  <2>2. Min(I) \in I
    <3> HIDE DEF I
    <3> QED BY <1>1, <1>3, MinIsLeast
  <2> QED BY <2>1, <2>2
<1> QED BY <1>2, <1>3

(* What a descriptor is has changed.                                       *)
Replaced(s, f, o, t) ==
  /\ t \in State
  /\ t.fds[f] = o
  /\ \A g \in Fd : g # f => t.fds[g] = s.fds[g]
  /\ t.conns = s.conns /\ t.pfd = s.pfd /\ t.clients = s.clients
  /\ t.current = s.current /\ t.leave = s.leave

LEMMA ReplacedIs ==
  ASSUME NEW s \in State, NEW f \in Fd, NEW o \in Obj
  PROVE  Replaced(s, f, o, [s EXCEPT !.fds[f] = o])
<1> DEFINE t == [s EXCEPT !.fds[f] = o]
           fs == [s.fds EXCEPT ![f] = o]
<1>1. s.fds \in [Fd -> Obj]
  BY FieldTypes
<1>2. /\ fs \in [Fd -> Obj] /\ fs[f] = o
      /\ \A g \in Fd : g # f => fs[g] = s.fds[g]
  BY <1>1
<1>3. t = [s EXCEPT !.fds = fs]
  OBVIOUS
<1> HIDE DEF fs
<1>4. /\ t \in State /\ t.fds = fs
      /\ t.conns = s.conns /\ t.pfd = s.pfd /\ t.clients = s.clients
      /\ t.current = s.current /\ t.leave = s.leave
  BY <1>2, <1>3 DEF State
<1> HIDE DEF t
<1>5. Replaced(s, f, o, t)
  BY <1>2, <1>4 DEF Replaced
<1> QED BY <1>5 DEF t

LEMMA ObjectIs ==
  /\ Free \in Obj /\ Free.k = "free" /\ Free.peer = "none"
  /\ \A k \in Kinds, a \in Nat :
       Object(k, a) \in Obj /\ Object(k, a).k = k /\ Object(k, a).peer = "there"
       /\ Object(k, a).addr = a
BY DEF Free, Object, Obj, Kinds, Input

LEMMA CloseFdIs ==
  ASSUME NEW s \in State, NEW f
  PROVE  /\ f \in Fd => Replaced(s, f, Free, CloseFd(s, f))
         /\ f \notin Fd => CloseFd(s, f) = s
BY ReplacedIs, ObjectIs DEF CloseFd

LEMMA ConsumeIs ==
  ASSUME NEW s \in State, NEW f \in Fd
  PROVE  LET o == [s.fds[f] EXCEPT !.in = Nothing]
         IN  /\ o \in Obj /\ o.k = s.fds[f].k /\ o.peer = s.fds[f].peer
             /\ o.addr = s.fds[f].addr
             /\ Replaced(s, f, o, Consume(s, f))
<1> DEFINE o == [s.fds[f] EXCEPT !.in = Nothing]
<1>1. s.fds[f] \in Obj
  BY FieldTypes
<1>2. o \in Obj /\ o.k = s.fds[f].k /\ o.peer = s.fds[f].peer /\ o.addr = s.fds[f].addr
  BY <1>1 DEF Obj, Input
<1>3. Consume(s, f) = [s EXCEPT !.fds[f] = o]
  BY DEF Consume
<1> HIDE DEF o
<1>4. Replaced(s, f, o, Consume(s, f))
  BY <1>2, <1>3, ReplacedIs
<1> QED BY <1>2, <1>4 DEF o

(* The kind of a descriptor stays, and a peer that is gone is gone.        *)
SameKind(s, f, o) ==
  /\ o.k = s.fds[f].k /\ o.addr = s.fds[f].addr
  /\ s.fds[f].peer # "there" => o.peer # "there"
  /\ o.k = "client_connect" => o.peer = "there"

LEMMA ReplacedWf ==
  ASSUME NEW s \in State, Wf(s), NEW f \in Fd, NEW o, NEW t, Replaced(s, f, o, t),
         SameKind(s, f, o)
  PROVE  Wf(t)
<1>1. /\ t.conns = s.conns /\ t.pfd = s.pfd /\ t.clients = s.clients
      /\ \A g \in Fd : /\ t.fds[g].k = s.fds[g].k
                       /\ s.fds[g].peer # "there" => t.fds[g].peer # "there"
                       /\ g # f => t.fds[g] = s.fds[g]
      /\ t.fds[f] = o
  BY DEF Replaced, SameKind
<1>2. Tables(t) /\ Counts(t)
  BY <1>1 DEF Wf, Tables, Counts
<1>3. Descriptors(t)
  BY <1>1 DEF Wf, Descriptors, HasDescriptor
<1>4. ASSUME NEW j \in 1..Len(s.pfd) PROVE s.pfd[j].fd \in Fd
  BY NoneIsNoFd DEF Wf, Tables, Descriptors, HasDescriptor
<1>5. Rejects(t)
  <2>1. ASSUME NEW g \in Fd, t.fds[g].k = "client_connect" PROVE t.fds[g].peer = "there"
    BY <1>1, <2>1 DEF Wf, Rejects, SameKind
  <2>2. ASSUME NEW j \in 1..Len(t.pfd), t.pfd[j].ev = "rejected"
        PROVE  t.fds[t.pfd[j].fd].peer # "there"
    BY <1>1, <1>4, <2>2 DEF Wf, Rejects
  <2> QED BY <2>1, <2>2 DEF Rejects
<1> QED BY <1>2, <1>3, <1>5 DEF Wf

(* A descriptor that was free is opened.                                   *)
LEMMA OpenedWf ==
  ASSUME NEW s \in State, Wf(s), NEW f \in Fd, s.fds[f].k = "free", NEW o \in Obj,
         o.peer = "there", NEW t, Replaced(s, f, o, t)
  PROVE  Wf(t) /\ \A i \in 1..Len(s.conns) : s.conns[i].fd # f
<1>1. \A i \in 1..Len(s.conns) : s.conns[i].type # "free"
  <2>1. "free" \notin HasReceiver
    BY DEF HasReceiver
  <2> QED BY <2>1, FieldTypes
<1>2. \A i \in 1..Len(s.conns) : s.conns[i].fd # f
  BY <1>1, NoneIsNoFd DEF Wf, Descriptors, HasDescriptor
<1>3. \A j \in 1..Len(s.pfd) : s.pfd[j].fd \in Fd /\ s.pfd[j].fd # f
  BY <1>2, NoneIsNoFd DEF Wf, Tables, Descriptors, HasDescriptor
<1>4. /\ t.conns = s.conns /\ t.pfd = s.pfd /\ t.clients = s.clients
      /\ \A g \in Fd : g # f => t.fds[g] = s.fds[g]
      /\ t.fds[f] = o
  BY DEF Replaced
<1>5. Tables(t) /\ Counts(t)
  BY <1>4 DEF Wf, Tables, Counts
<1>6. Descriptors(t)
  BY <1>2, <1>4 DEF Wf, Descriptors, HasDescriptor
<1>7. Rejects(t)
  BY <1>3, <1>4 DEF Wf, Rejects
<1> QED BY <1>2, <1>5, <1>6, <1>7 DEF Wf

-----------------------------------------------------------------------------
(* Opening a connection.                                                   *)

(* What every operation keeps, in a daemon that is leaving too.            *)
Kept(s, t) ==
  /\ t \in State /\ t.current = s.current
  /\ s.leave # "no" => t.leave # "no"

LEMMA LeavingIs ==
  ASSUME NEW s \in State, NEW l \in {"exit", "failed"}
  PROVE  Kept(s, [s EXCEPT !.leave = l]) /\ [s EXCEPT !.leave = l].leave = l
BY DEF Kept, State

LEMMA OpenAndCreateKept ==
  ASSUME NEW s \in State, NEW type \in HasReceiver \cup {"one_s"}, NEW kind \in Kinds,
         NEW addr \in Nat, NEW failure \in {"exit", "failed"}
  PROVE  LET t == OpenAndCreate(s, type, kind, addr, failure)
         IN  Kept(s, t) /\ (type \notin Counted => t.clients = s.clients)
<1> DEFINE f == LowestFree(s)
           u == [s EXCEPT !.fds[f] = Object(kind, addr)]
           t == OpenAndCreate(s, type, kind, addr, failure)
<1>1. CASE f = None
  <2>1. t = [s EXCEPT !.leave = failure]
    BY <1>1 DEF OpenAndCreate
  <2>2. t.clients = s.clients
    BY <2>1 DEF State
  <2> HIDE DEF t
  <2>3. Kept(s, t)
    BY <2>1, LeavingIs
  <2> QED BY <2>2, <2>3 DEF t
<1>2. CASE f \in Fd
  <2>1. t = ConnectionCreate(u, f, type)
    BY <1>2, NoneIsNoFd DEF OpenAndCreate
  <2>2. Replaced(s, f, Object(kind, addr), u)
    BY <1>2, ReplacedIs, ObjectIs
  <2>3. u \in State /\ u.current = s.current /\ u.leave = s.leave /\ u.clients = s.clients
    BY <2>2 DEF Replaced
  <2> HIDE DEF u, t, f
  <2>4. t = u \/ (type \in HasReceiver /\ t = Register(u, f, type))
    BY <2>1 DEF ConnectionCreate
  <2>5. CASE t = u
    BY <2>3, <2>5 DEF Kept, t
  <2>6. CASE type \in HasReceiver /\ t = Register(u, f, type)
    <3>1. Registered(u, f, type, t)
      BY <1>2, <2>3, <2>6, RegisterIs
    <3> QED BY <2>3, <3>1 DEF Registered, Kept, t
  <2> QED BY <2>4, <2>5, <2>6
<1> QED BY <1>1, <1>2, LowestFreeIs

Created(s, f, type, addr, t) ==
  /\ f \in Fd /\ s.fds[f].k = "free"
  /\ t.fds[f] = Object(type, addr)
  /\ \A g \in Fd : g # f => t.fds[g] = s.fds[g]
  /\ Len(t.conns) = Len(s.conns) + 1
  /\ \A i \in 1..Len(s.conns) : t.conns[i] = s.conns[i]
  /\ t.conns[Len(s.conns) + 1].type = type
  /\ t.conns[Len(s.conns) + 1].fd = f
  /\ t.conns[Len(s.conns) + 1].active <=> Allowed(s, type)
  /\ t.current = s.current
  /\ Wf(t)

LEMMA OpenAndCreateIs ==
  ASSUME NEW s \in State, Wf(s), NEW type \in HasReceiver, NEW addr \in Nat,
         type = "client_connect" => Allowed(s, type), NEW failure \in {"exit", "failed"}
  PROVE  LET t == OpenAndCreate(s, type, type, addr, failure)
         IN  t.leave # "no" \/ \E f : Created(s, f, type, addr, t)
<1> DEFINE f == LowestFree(s)
           o == Object(type, addr)
           u == [s EXCEPT !.fds[f] = o]
           t == OpenAndCreate(s, type, type, addr, failure)
<1>1. CASE f = None
  <2>1. t = [s EXCEPT !.leave = failure]
    BY <1>1 DEF OpenAndCreate
  <2> HIDE DEF t
  <2>2. t.leave # "no"
    BY <2>1, LeavingIs
  <2> QED BY <2>2 DEF t
<1>2. CASE f \in Fd /\ s.fds[f].k = "free"
  <2>1. t = ConnectionCreate(u, f, type)
    BY <1>2, NoneIsNoFd DEF OpenAndCreate
  <2>2. type \in Kinds
    BY DEF Kinds
  <2>3. o \in Obj /\ o.k = type /\ o.peer = "there"
    BY <2>2, ObjectIs
  <2> HIDE DEF o, t, f
  <2>4. Replaced(s, f, o, u)
    BY <1>2, <2>3, ReplacedIs
  <2> HIDE DEF u
  <2>5. Wf(u) /\ \A i \in 1..Len(u.conns) : u.conns[i].fd # f
    BY <1>2, <2>3, <2>4, OpenedWf DEF Replaced
  <2>6. FindConnection(u, f) = 0
    <3>1. {i \in 1..Len(u.conns) : u.conns[i].fd = f} = {}
      BY <2>5
    <3> QED BY <3>1, FindConnectionIs DEF First
  <2>7. t = Register(u, f, type)
    BY <1>2, <2>1, <2>6, NoneIsNoFd DEF ConnectionCreate
  <2>8. u \in State /\ u.conns = s.conns /\ u.current = s.current
        /\ u.fds[f] = o /\ \A g \in Fd : g # f => u.fds[g] = s.fds[g]
    BY <2>4 DEF Replaced
  <2>9. Allowed(u, type) = Allowed(s, type)
    BY <2>8 DEF Allowed, Current
  <2>10. Registered(u, f, type, t)
    BY <1>2, <2>7, <2>8, RegisterIs
  <2>11. Wf(t)
    BY <1>2, <2>3, <2>5, <2>8, <2>9, <2>10, RegisterWf
  <2>12. Created(s, f, type, addr, t)
    BY <1>2, <2>8, <2>9, <2>10, <2>11 DEF Registered, Created, o
  <2> QED BY <2>12 DEF t
<1> QED BY <1>1, <1>2, LowestFreeIs

-----------------------------------------------------------------------------
(* The sockets for clients, when there is one address: open, with one      *)
(* connection, exactly while the current filter allows it.                 *)

AllowedBy(configs, s, type) == type \in configs[s.current].clients

LEMMA AllowedIs ==
  ASSUME NEW s, NEW type
  PROVE  Allowed(s, type) <=> AllowedBy(mf.configs, s, type)
BY DEF Allowed, AllowedBy, Current, IsConnectionAllowed

Listens(s, i) == s.conns[i].type = "client_connect"
Enforced(s, configs) ==
  /\ \A i, j \in 1..Len(s.conns) : Listens(s, i) /\ Listens(s, j) => i = j
  /\ \A f \in Fd : s.fds[f].k = "client_connect" =>
       /\ s.fds[f].addr = 1
       /\ \E i \in 1..Len(s.conns) : s.conns[i].fd = f /\ s.conns[i].active
  /\ AllowedBy(configs, s, "client_connect") <=>
       \E i \in 1..Len(s.conns) : Listens(s, i) /\ s.conns[i].active
NoListener(s) ==
  /\ \A f \in Fd : s.fds[f].k # "client_connect"
  /\ \A i \in 1..Len(s.conns) : ~Listens(s, i)

LEMMA CreatedElse ==
  ASSUME NEW s \in State, NEW f, NEW type \in HasReceiver, type # "client_connect",
         NEW addr \in Nat, NEW t \in State, Created(s, f, type, addr, t), NEW configs
  PROVE  /\ NoListener(s) => NoListener(t)
         /\ Enforced(s, configs) => Enforced(t, configs)
<1> DEFINE n == Len(s.conns) + 1
<1>1. /\ f \in Fd /\ s.fds[f].k = "free" /\ t.fds[f].k = type
      /\ \A g \in Fd : g # f => t.fds[g] = s.fds[g]
      /\ Len(t.conns) = n /\ t.current = s.current
      /\ \A i \in 1..Len(s.conns) : t.conns[i] = s.conns[i]
      /\ ~Listens(t, n)
  <2>1. type \in Kinds
    BY DEF Kinds
  <2> QED BY <2>1, ObjectIs DEF Created, Listens
<1>2. /\ \A i \in 1..n : i \in 1..Len(s.conns) \/ i = n
      /\ \A i \in 1..Len(s.conns) : i \in 1..n
  BY FieldTypes
<1> HIDE DEF n
<1>3. /\ \A i \in 1..Len(s.conns) : Listens(t, i) <=> Listens(s, i)
      /\ \A i \in 1..n : Listens(t, i) => i \in 1..Len(s.conns)
  BY <1>1, <1>2 DEF Listens
<1>4. ASSUME NoListener(s) PROVE NoListener(t)
  BY <1>1, <1>3, <1>4 DEF NoListener
<1>5. ASSUME Enforced(s, configs) PROVE Enforced(t, configs)
  <2>1. \A i, j \in 1..Len(t.conns) : Listens(t, i) /\ Listens(t, j) => i = j
    BY <1>1, <1>3, <1>5 DEF Enforced
  <2>2. ASSUME NEW g \in Fd, t.fds[g].k = "client_connect"
        PROVE  /\ t.fds[g].addr = 1
               /\ \E i \in 1..Len(t.conns) : t.conns[i].fd = g /\ t.conns[i].active
    <3>1. g # f /\ t.fds[g] = s.fds[g]
      BY <1>1, <2>2
    <3>2. PICK i \in 1..Len(s.conns) : s.conns[i].fd = g /\ s.conns[i].active
      BY <1>5, <2>2, <3>1 DEF Enforced
    <3>3. i \in 1..Len(t.conns) /\ t.conns[i] = s.conns[i]
      BY <1>1, <1>2
    <3>4. s.fds[g].addr = 1
      BY <1>5, <2>2, <3>1 DEF Enforced
    <3> QED BY <3>1, <3>2, <3>3, <3>4
  <2>3. (\E i \in 1..Len(t.conns) : Listens(t, i) /\ t.conns[i].active)
          <=> \E i \in 1..Len(s.conns) : Listens(s, i) /\ s.conns[i].active
    BY <1>1, <1>2, <1>3
  <2>4. AllowedBy(configs, t, "client_connect") <=> AllowedBy(configs, s, "client_connect")
    BY <1>1 DEF AllowedBy
  <2> QED BY <1>5, <2>1, <2>2, <2>3, <2>4 DEF Enforced
<1> QED BY <1>4, <1>5

LEMMA CreatedListener ==
  ASSUME NEW s \in State, NoListener(s), Allowed(s, "client_connect"),
         NEW f, NEW t \in State, Created(s, f, "client_connect", 1, t)
  PROVE  Enforced(t, mf.configs)
<1> DEFINE n == Len(s.conns) + 1
<1>1. "client_connect" \in Kinds
  BY DEF Kinds, HasReceiver
<1>2. /\ t.fds[f].addr = 1
      /\ \A g \in Fd : g # f => t.fds[g].k # "client_connect"
      /\ Len(t.conns) = n /\ t.current = s.current
      /\ \A i \in 1..Len(s.conns) : ~Listens(t, i)
      /\ Listens(t, n) /\ t.conns[n].fd = f /\ t.conns[n].active
  BY <1>1, ObjectIs DEF Created, NoListener, Listens
<1>3. n \in 1..n /\ \A i \in 1..n : i \in 1..Len(s.conns) \/ i = n
  BY FieldTypes
<1> HIDE DEF n
<1>4. AllowedBy(mf.configs, t, "client_connect")
  BY <1>2, AllowedIs DEF AllowedBy
<1>5. \A i, j \in 1..Len(t.conns) : Listens(t, i) /\ Listens(t, j) => i = j
  BY <1>2, <1>3
<1>6. \A g \in Fd : t.fds[g].k = "client_connect" =>
        /\ t.fds[g].addr = 1
        /\ \E i \in 1..Len(t.conns) : t.conns[i].fd = g /\ t.conns[i].active
  BY <1>2, <1>3
<1>7. \E i \in 1..Len(t.conns) : Listens(t, i) /\ t.conns[i].active
  BY <1>2, <1>3
<1> QED BY <1>4, <1>5, <1>6, <1>7 DEF Enforced

-----------------------------------------------------------------------------
(* Closing a connection.                                                   *)

(* The table p without the entry of f, if there is one, is q.              *)
Disabled(p, f, q) ==
  \/ q = p /\ \A j \in 1..Len(p) : p[j].fd # f
  \/ \E e \in 1..Len(p) : p[e].fd = f /\ q = RemoveAt(p, e)

LEMMA DisableFdIs ==
  ASSUME NEW s \in State, NEW f
  PROVE  LET t == DisableFd(s, f)
         IN  /\ t \in State /\ Disabled(s.pfd, f, t.pfd)
             /\ t.conns = s.conns /\ t.clients = s.clients /\ t.current = s.current
             /\ t.fds = s.fds /\ t.leave = s.leave
<1> DEFINE I == {i \in 1..Len(s.pfd) : s.pfd[i].fd = f}
           e == EntryOf(s, f)
           t == DisableFd(s, f)
<1>1. e = First(I)
  BY EntryOfIs
<1>2. \/ e = 0 /\ I = {}
      \/ e \in I /\ e # 0
  <2>1. I \in SUBSET (1..Len(s.pfd)) /\ Len(s.pfd) \in Nat
    BY FieldTypes
  <2> HIDE DEF I, e
  <2> QED BY <1>1, <2>1, FirstIsLeast
<1>3. CASE e = 0 /\ I = {}
  BY <1>3 DEF DisableFd, Disabled
<1>4. CASE e \in I /\ e # 0
  <2> DEFINE q == RemoveAt(s.pfd, e)
  <2>1. e \in 1..Len(s.pfd) /\ s.pfd[e].fd = f
    BY <1>4
  <2>2. q \in Seq(PollFd)
    BY <2>1, FieldTypes, RemoveAtFacts
  <2>3. t = [s EXCEPT !.pfd = q]
    BY <1>4 DEF DisableFd
  <2>4. Disabled(s.pfd, f, q)
    BY <2>1 DEF Disabled
  <2> HIDE DEF q, t
  <2>5. /\ t \in State /\ t.pfd = q
        /\ t.conns = s.conns /\ t.clients = s.clients /\ t.current = s.current
        /\ t.fds = s.fds /\ t.leave = s.leave
    BY <2>2, <2>3 DEF State
  <2> QED BY <2>4, <2>5 DEF t
<1> QED BY <1>2, <1>3, <1>4

(* A connection is switched off.                                           *)
Deactivated(s, c, t) ==
  /\ t \in State
  /\ Len(t.conns) = Len(s.conns)
  /\ \A i \in 1..Len(s.conns) : i # c => t.conns[i] = s.conns[i]
  /\ t.conns[c].type = s.conns[c].type /\ ~t.conns[c].active
  /\ t.conns[c].fd = IF s.conns[c].type = "client_connect" THEN None ELSE s.conns[c].fd
  /\ Disabled(s.pfd, s.conns[c].fd, t.pfd)
  /\ t.clients = s.clients /\ t.current = s.current
  /\ t.fds = s.fds /\ t.leave = s.leave

LEMMA DeactivateIs ==
  ASSUME NEW s \in State, NEW c \in 1..Len(s.conns)
  PROVE  Deactivated(s, c, Deactivate(s, c))
<1> DEFINE u == DisableFd(s, s.conns[c].fd)
           t == Deactivate(s, c)
           f == IF s.conns[c].type = "client_connect" THEN None ELSE s.conns[c].fd
           x == [s.conns[c] EXCEPT !.active = FALSE, !.fd = f]
           cs == [s.conns EXCEPT ![c] = x]
<1>1. /\ u \in State /\ Disabled(s.pfd, s.conns[c].fd, u.pfd)
      /\ u.conns = s.conns /\ u.clients = s.clients /\ u.current = s.current
      /\ u.fds = s.fds /\ u.leave = s.leave
  BY DisableFdIs
<1>2. t = [u EXCEPT !.conns = cs]
  BY <1>1 DEF Deactivate, State
<1>3. x \in Conn /\ x.type = s.conns[c].type /\ ~x.active /\ x.fd = f
  <2>1. s.conns[c] \in Conn /\ f \in Fd \cup {None}
    BY FieldTypes
  <2> HIDE DEF f
  <2> QED BY <2>1 DEF Conn
<1> HIDE DEF x
<1>4. /\ cs \in Seq(Conn) /\ Len(cs) = Len(s.conns) /\ cs[c] = x
      /\ \A i \in 1..Len(s.conns) : i # c => cs[i] = s.conns[i]
  BY <1>3, FieldTypes, ExceptSeq
<1> HIDE DEF cs, u, t
<1>5. /\ t \in State /\ t.conns = cs
      /\ t.pfd = u.pfd /\ t.clients = u.clients /\ t.current = u.current
      /\ t.fds = u.fds /\ t.leave = u.leave
  BY <1>1, <1>2, <1>4 DEF State
<1>6. Deactivated(s, c, t)
  BY <1>1, <1>3, <1>4, <1>5 DEF Deactivated
<1> QED BY <1>6 DEF t

(* A connection and its descriptor are gone.                               *)
Unregistered(s, c, t) ==
  /\ t \in State
  /\ Len(t.conns) = Len(s.conns) - 1
  /\ \A i \in 1..Len(t.conns) : /\ Skip(c, i) \in 1..Len(s.conns) /\ Skip(c, i) # c
                               /\ t.conns[i] = s.conns[Skip(c, i)]
  /\ \A j \in 1..Len(s.conns) : j # c => \E i \in 1..Len(t.conns) : j = Skip(c, i)
  /\ \A i, j \in 1..Len(t.conns) : Skip(c, i) = Skip(c, j) => i = j
  /\ t.clients = IF s.conns[c].type \in Counted /\ s.clients > 0
                 THEN s.clients - 1 ELSE s.clients
  /\ t.current = s.current /\ t.leave = s.leave
  /\ s.conns[c].active => Disabled(s.pfd, s.conns[c].fd, t.pfd)
  /\ ~s.conns[c].active => t.pfd = s.pfd
  /\ s.conns[c].type # "client_connect" /\ s.conns[c].fd \in Fd =>
       /\ t.fds[s.conns[c].fd] = Free
       /\ \A g \in Fd : g # s.conns[c].fd => t.fds[g] = s.fds[g]

LEMMA UnregisterIs ==
  ASSUME NEW s \in State, NEW f
  PROVE  LET t == Unregister(s, f)
         IN  \/ t = s /\ \A i \in 1..Len(s.conns) : s.conns[i].fd # f
             \/ \E c \in 1..Len(s.conns) : s.conns[c].fd = f /\ Unregistered(s, c, t)
<1> DEFINE I == {i \in 1..Len(s.conns) : s.conns[i].fd = f}
           c == FindConnection(s, f)
           t == Unregister(s, f)
<1>1. \/ c = 0 /\ I = {}
      \/ c \in I /\ c # 0
  <2>1. I \in SUBSET (1..Len(s.conns)) /\ Len(s.conns) \in Nat
    BY FieldTypes
  <2>2. c = First(I)
    BY FindConnectionIs
  <2> HIDE DEF I, c
  <2> QED BY <2>1, <2>2, FirstIsLeast
<1>2. CASE c = 0 /\ I = {}
  BY <1>2 DEF Unregister
<1>3. CASE c \in I /\ c # 0
  <2> DEFINE u == CountDown(s, c)
             v == CheckActivate(u, c, "deactivate")
             x == v.conns[c].fd
             w == CloseFd(v, x)
             cs == RemoveAt(w.conns, c)
  <2>1. c \in 1..Len(s.conns) /\ s.conns[c].fd = f
    BY <1>3
  <2>2. t = [w EXCEPT !.conns = cs]
    BY <1>3 DEF Unregister, RemoveConnection
  <2>3. /\ u \in State /\ u.conns = s.conns /\ u.pfd = s.pfd
        /\ u.clients = IF s.conns[c].type \in Counted /\ s.clients > 0
                       THEN s.clients - 1 ELSE s.clients
        /\ u.current = s.current /\ u.leave = s.leave /\ u.fds = s.fds
    <3> DEFINE n == IF s.conns[c].type \in Counted /\ s.clients > 0
                    THEN s.clients - 1 ELSE s.clients
    <3>1. n \in Nat
      BY FieldTypes
    <3>2. u = [s EXCEPT !.clients = n]
      BY DEF CountDown
    <3> HIDE DEF n, u, c
    <3>3. /\ u \in State /\ u.conns = s.conns /\ u.pfd = s.pfd /\ u.clients = n
          /\ u.current = s.current /\ u.leave = s.leave /\ u.fds = s.fds
      BY <3>1, <3>2 DEF State
    <3> QED BY <3>3 DEF n
  <2> HIDE DEF u, t, c
  <2>4. u.conns[c].active => v = Deactivate(u, c)
    BY DEF CheckActivate
  <2>5. ~u.conns[c].active => v = u
    BY DEF CheckActivate
  <2>6. u.conns[c].active => Deactivated(u, c, v)
    BY <2>1, <2>3, <2>4, DeactivateIs
  <2> HIDE DEF v
  <2>7. /\ v \in State /\ Len(v.conns) = Len(s.conns)
        /\ \A i \in 1..Len(s.conns) : i # c => v.conns[i] = s.conns[i]
        /\ s.conns[c].type # "client_connect" => x = s.conns[c].fd
        /\ v.clients = u.clients /\ v.current = s.current /\ v.leave = s.leave
        /\ v.fds = s.fds
        /\ s.conns[c].active => Disabled(s.pfd, s.conns[c].fd, v.pfd)
        /\ ~s.conns[c].active => v.pfd = s.pfd
    BY <2>3, <2>5, <2>6 DEF Deactivated
  <2> HIDE DEF x, w
  <2>8. /\ w \in State /\ w.conns = v.conns /\ w.pfd = v.pfd /\ w.clients = v.clients
        /\ w.current = v.current /\ w.leave = v.leave
        /\ x \in Fd => /\ w.fds[x] = Free
                       /\ \A g \in Fd : g # x => w.fds[g] = v.fds[g]
    BY <2>7, CloseFdIs DEF Replaced, w
  <2>9. w.conns \in Seq(Conn) /\ c \in 1..Len(w.conns) /\ Len(w.conns) = Len(s.conns)
    BY <2>1, <2>7, <2>8, FieldTypes
  <2>10. /\ cs \in Seq(Conn)
         /\ Len(cs) = Len(s.conns) - 1
         /\ \A i \in 1..Len(cs) : /\ Skip(c, i) \in 1..Len(s.conns)
                                 /\ Skip(c, i) # c
                                 /\ cs[i] = w.conns[Skip(c, i)]
         /\ \A j \in 1..Len(s.conns) : j # c => \E i \in 1..Len(cs) : j = Skip(c, i)
         /\ \A i, j \in 1..Len(cs) : Skip(c, i) = Skip(c, j) => i = j
    <3>1. Shorter(Conn, w.conns, c, cs)
      BY <2>9, RemoveAtShorter
    <3> HIDE DEF cs
    <3>2. Len(w.conns) = Len(s.conns)
      BY <2>9
    <3>3. Len(cs) = Len(s.conns) - 1
      BY <3>1, <3>2 DEF Shorter
    <3> QED BY <3>1, <3>2, <3>3 DEF Shorter
  <2> HIDE DEF cs
  <2>11. /\ t \in State /\ t.conns = cs /\ t.pfd = w.pfd /\ t.clients = w.clients
         /\ t.current = w.current /\ t.leave = w.leave /\ t.fds = w.fds
    BY <2>2, <2>8, <2>10 DEF State
  <2>12. \A i \in 1..Len(cs) : cs[i] = s.conns[Skip(c, i)]
    BY <2>7, <2>8, <2>10
  <2>13. Unregistered(s, c, t)
    BY <2>3, <2>7, <2>8, <2>10, <2>11, <2>12 DEF Unregistered
  <2> QED BY <2>1, <2>13 DEF t
<1> QED BY <1>1, <1>2, <1>3

(* The entries of p whose descriptor is not f.                             *)
Removed(p, f, q) ==
  /\ \A j \in 1..Len(q) : \E k \in 1..Len(p) : q[j] = p[k] /\ p[k].fd # f
  /\ \A i, j \in 1..Len(q) : q[i].fd = q[j].fd => i = j
  /\ \A k \in 1..Len(p) : p[k].fd # f => \E j \in 1..Len(q) : q[j] = p[k]

LEMMA DisabledRemoved ==
  ASSUME NEW p \in Seq(PollFd), \A i, j \in 1..Len(p) : p[i].fd = p[j].fd => i = j,
         NEW f, NEW q, Disabled(p, f, q)
  PROVE  Removed(p, f, q)
<1>1. CASE q = p /\ \A j \in 1..Len(p) : p[j].fd # f
  BY <1>1 DEF Removed
<1>2. ASSUME NEW e \in 1..Len(p), p[e].fd = f, q = RemoveAt(p, e) PROVE Removed(p, f, q)
  <2> DEFINE r == RemoveAt(p, e)
  <2>0. /\ Len(r) = Len(p) - 1
        /\ \A i \in 1..(Len(p) - 1) : Skip(e, i) \in 1..Len(p) /\ Skip(e, i) # e
                                     /\ r[i] = p[Skip(e, i)]
        /\ \A j \in 1..Len(p) : j # e => \E i \in 1..(Len(p) - 1) : j = Skip(e, i)
        /\ \A i, j \in 1..(Len(p) - 1) : Skip(e, i) = Skip(e, j) => i = j
    BY RemoveAtFacts
  <2> HIDE DEF r
  <2>1. /\ Len(q) = Len(p) - 1
        /\ \A i \in 1..(Len(p) - 1) : Skip(e, i) \in 1..Len(p) /\ Skip(e, i) # e
                                     /\ q[i] = p[Skip(e, i)]
        /\ \A j \in 1..Len(p) : j # e => \E i \in 1..(Len(p) - 1) : j = Skip(e, i)
        /\ \A i, j \in 1..(Len(p) - 1) : Skip(e, i) = Skip(e, j) => i = j
    BY <1>2, <2>0 DEF r
  <2> DEFINE N == 1..(Len(p) - 1)
  <2>2. 1..Len(q) = N
    BY <2>1
  <2>3. \A j \in 1..Len(p) : p[j].fd = f => j = e
    BY <1>2
  <2>4. \A j \in N : \E k \in 1..Len(p) : q[j] = p[k] /\ p[k].fd # f
    BY <2>1, <2>3
  <2>5. \A i, j \in N : q[i].fd = q[j].fd => i = j
    BY <2>1
  <2>6. \A k \in 1..Len(p) : p[k].fd # f => \E j \in N : q[j] = p[k]
    BY <1>2, <2>1
  <2> HIDE DEF N
  <2> QED BY <2>2, <2>4, <2>5, <2>6 DEF Removed
<1> QED BY <1>1, <1>2 DEF Disabled

LEMMA UnregisterWf ==
  ASSUME NEW s \in State, Wf(s), NEW c \in 1..Len(s.conns),
         s.conns[c].type # "client_connect", NEW t, Unregistered(s, c, t)
  PROVE  /\ Wf(t) /\ s.conns[c].fd \in Fd
         /\ Removed(s.pfd, s.conns[c].fd, t.pfd)
<1> DEFINE f == s.conns[c].fd
<1>1. /\ Tables(s) /\ Descriptors(s) /\ Counts(s) /\ Rejects(s)
  BY DEF Wf
<1>2. f \in Fd /\ f # None
  BY <1>1, NoneIsNoFd DEF Descriptors, HasDescriptor
<1>3. /\ t \in State
      /\ Len(t.conns) = Len(s.conns) - 1
      /\ \A i \in 1..Len(t.conns) : /\ Skip(c, i) \in 1..Len(s.conns) /\ Skip(c, i) # c
                                   /\ t.conns[i] = s.conns[Skip(c, i)]
      /\ \A j \in 1..Len(s.conns) : j # c => \E i \in 1..Len(t.conns) : j = Skip(c, i)
      /\ \A i, j \in 1..Len(t.conns) : Skip(c, i) = Skip(c, j) => i = j
      /\ t.clients = IF s.conns[c].type \in Counted /\ s.clients > 0
                     THEN s.clients - 1 ELSE s.clients
      /\ s.conns[c].active => Disabled(s.pfd, f, t.pfd)
      /\ ~s.conns[c].active => t.pfd = s.pfd
      /\ t.fds[f] = Free
      /\ \A g \in Fd : g # f => t.fds[g] = s.fds[g]
  BY <1>2 DEF Unregistered
<1>4. \A j \in 1..Len(s.conns) : j # c => s.conns[j].fd # f
  BY <1>1, <1>2 DEF Descriptors
<1>5. Disabled(s.pfd, f, t.pfd)
  <2>1. CASE ~s.conns[c].active
    <3>1. \A j \in 1..Len(s.pfd) : s.pfd[j].fd # f
      BY <1>1, <1>4, <2>1 DEF Tables
    <3> QED BY <1>3, <2>1, <3>1 DEF Disabled
  <2> QED BY <1>3, <2>1
<1>6. Removed(s.pfd, f, t.pfd)
  <2>1. s.pfd \in Seq(PollFd)
    BY FieldTypes
  <2> QED BY <1>1, <1>5, <2>1, DisabledRemoved DEF Tables
<1> HIDE DEF f
<1>7. Tables(t)
  <2>1. \A i, j \in 1..Len(t.pfd) : t.pfd[i].fd = t.pfd[j].fd => i = j
    BY <1>6 DEF Removed
  <2>2. ASSUME NEW j \in 1..Len(t.pfd)
        PROVE  \E i \in 1..Len(t.conns) : t.conns[i].active /\ t.conns[i].fd = t.pfd[j].fd
    <3>1. PICK k \in 1..Len(s.pfd) : t.pfd[j] = s.pfd[k] /\ s.pfd[k].fd # f
      BY <1>6 DEF Removed
    <3>2. PICK x \in 1..Len(s.conns) : s.conns[x].active /\ s.conns[x].fd = s.pfd[k].fd
      BY <1>1 DEF Tables
    <3>3. x # c
      BY <3>1, <3>2 DEF f
    <3>4. PICK i \in 1..Len(t.conns) : x = Skip(c, i)
      BY <1>3, <3>3
    <3> QED BY <1>3, <3>1, <3>2, <3>4
  <2>3. ASSUME NEW i \in 1..Len(t.conns), t.conns[i].active
        PROVE  \E j \in 1..Len(t.pfd) : t.pfd[j].fd = t.conns[i].fd
    <3>1. t.conns[i] = s.conns[Skip(c, i)] /\ Skip(c, i) \in 1..Len(s.conns) /\ Skip(c, i) # c
      BY <1>3
    <3>2. PICK k \in 1..Len(s.pfd) : s.pfd[k].fd = s.conns[Skip(c, i)].fd
      BY <1>1, <2>3, <3>1 DEF Tables
    <3>3. s.pfd[k].fd # f
      BY <1>4, <3>1, <3>2
    <3>4. PICK j \in 1..Len(t.pfd) : t.pfd[j] = s.pfd[k]
      BY <1>6, <3>3 DEF Removed
    <3> QED BY <3>1, <3>2, <3>4
  <2> QED BY <2>1, <2>2, <2>3 DEF Tables
<1>8. Descriptors(t)
  <2>1. ASSUME NEW i \in 1..Len(t.conns) PROVE HasDescriptor(t, i)
    <3>1. /\ t.conns[i] = s.conns[Skip(c, i)] /\ Skip(c, i) \in 1..Len(s.conns)
          /\ s.conns[Skip(c, i)].fd # f
      BY <1>3, <1>4
    <3>2. HasDescriptor(s, Skip(c, i))
      BY <1>1, <3>1 DEF Descriptors
    <3> QED BY <1>3, <3>1, <3>2 DEF HasDescriptor
  <2>2. ASSUME NEW i \in 1..Len(t.conns), NEW j \in 1..Len(t.conns),
               t.conns[i].fd = t.conns[j].fd, t.conns[i].fd # None
        PROVE  i = j
    <3> DEFINE a == Skip(c, i)
               b == Skip(c, j)
    <3>0. /\ a \in 1..Len(s.conns) /\ b \in 1..Len(s.conns)
          /\ t.conns[i] = s.conns[a] /\ t.conns[j] = s.conns[b]
      BY <1>3
    <3> HIDE DEF a, b
    <3>3. a = b
      BY <1>1, <2>2, <3>0 DEF Descriptors
    <3>1. Skip(c, i) = Skip(c, j)
      BY <3>3 DEF a, b
    <3>2. \A x, y \in 1..Len(t.conns) : Skip(c, x) = Skip(c, y) => x = y
      BY <1>3
    <3> HIDE DEF Skip
    <3> QED BY <3>1, <3>2
  <2> QED BY <2>1, <2>2 DEF Descriptors
<1>9. Rejects(t)
  <2>1. \A g \in Fd : t.fds[g].k = "client_connect" => t.fds[g].peer = "there"
    BY <1>1, <1>3, ObjectIs DEF Rejects
  <2>2. ASSUME NEW j \in 1..Len(t.pfd), t.pfd[j].ev = "rejected"
        PROVE  t.fds[t.pfd[j].fd].peer # "there"
    <3>1. PICK k \in 1..Len(s.pfd) : t.pfd[j] = s.pfd[k] /\ s.pfd[k].fd # f
      BY <1>6 DEF Removed
    <3>2. s.pfd[k].fd \in Fd
      BY <1>1, NoneIsNoFd DEF Tables, Descriptors, HasDescriptor
    <3> QED BY <1>1, <1>3, <2>2, <3>1, <3>2 DEF Rejects
  <2> QED BY <2>1, <2>2 DEF Rejects
<1>10. Counts(t)
  <2> DEFINE A == CountedAt(s.conns)
             B == CountedAt(t.conns)
             h == [i \in B |-> Skip(c, i)]
  <2>1. IsFiniteSet(A) /\ IsFiniteSet(B) /\ Cardinality(A) \in Nat
    <3>1. Len(s.conns) \in Nat /\ Len(t.conns) \in Nat
      BY <1>3, FieldTypes
    <3> QED BY <3>1, CountedFinite DEF CountedAt
  <2>2. h \in [B -> A \ {c}]
    BY <1>3 DEF CountedAt
  <2>3. /\ \A i, j \in B : h[i] = h[j] => i = j
        /\ \A x \in A \ {c} : \E i \in B : h[i] = x
    <3>1. \A i, j \in B : h[i] = h[j] => i = j
      BY <1>3 DEF CountedAt
    <3>2. ASSUME NEW x \in A \ {c} PROVE \E i \in B : h[i] = x
      <4>1. PICK i \in 1..Len(t.conns) : x = Skip(c, i)
        BY <1>3 DEF CountedAt
      <4>2. i \in B
        BY <1>3, <4>1 DEF CountedAt
      <4> QED BY <4>1, <4>2
    <3> QED BY <3>1, <3>2
  <2>4. c \in A <=> s.conns[c].type \in Counted
    BY DEF CountedAt
  <2>5. s.clients = Cardinality(A)
    BY <1>1 DEF Counts
  <2> HIDE DEF A, B, h
  <2>6. Cardinality(A \ {c}) = Cardinality(B)
    BY <2>1, <2>2, <2>3, SameSize
  <2>7. Cardinality(A \ {c}) = IF c \in A THEN Cardinality(A) - 1 ELSE Cardinality(A)
    BY <2>1, FS_RemoveElement
  <2>8. c \in A => Cardinality(A) # 0
    BY <2>1, FS_EmptySet
  <2> QED BY <1>3, <2>1, <2>4, <2>5, <2>6, <2>7, <2>8 DEF Counts, B
<1> QED BY <1>2, <1>6, <1>7, <1>8, <1>9, <1>10 DEF Wf, f

LEMMA UnregisteredEnforced ==
  ASSUME NEW s \in State, Wf(s), NEW c \in 1..Len(s.conns),
         s.conns[c].type # "client_connect", NEW t, Unregistered(s, c, t), NEW configs,
         Enforced(s, configs)
  PROVE  Enforced(t, configs)
<1> DEFINE f == s.conns[c].fd
<1>1. f \in Fd
  BY UnregisterWf
<1>2. /\ \A i \in 1..Len(t.conns) : /\ Skip(c, i) \in 1..Len(s.conns) /\ Skip(c, i) # c
                                   /\ t.conns[i] = s.conns[Skip(c, i)]
      /\ \A j \in 1..Len(s.conns) : j # c => \E i \in 1..Len(t.conns) : j = Skip(c, i)
      /\ \A i, j \in 1..Len(t.conns) : Skip(c, i) = Skip(c, j) => i = j
      /\ t.fds[f].k = "free" /\ t.current = s.current
      /\ \A g \in Fd : g # f => t.fds[g] = s.fds[g]
  BY <1>1, ObjectIs DEF Unregistered
<1>3. \A i \in 1..Len(t.conns) : Listens(t, i) <=> Listens(s, Skip(c, i))
  BY <1>2 DEF Listens
<1>4. \A j \in 1..Len(s.conns) : j # c =>
        \E i \in 1..Len(t.conns) : j = Skip(c, i) /\ t.conns[i] = s.conns[j]
  BY <1>2
<1> HIDE DEF f, Skip
<1>5. \A i, j \in 1..Len(t.conns) : Listens(t, i) /\ Listens(t, j) => i = j
  <2>1. \A i, j \in 1..Len(s.conns) : Listens(s, i) /\ Listens(s, j) => i = j
    BY DEF Enforced
  <2> SUFFICES ASSUME NEW i \in 1..Len(t.conns), NEW j \in 1..Len(t.conns),
                      Listens(t, i), Listens(t, j)
               PROVE  i = j
    OBVIOUS
  <2>2. Skip(c, i) = Skip(c, j)
    BY <1>2, <1>3, <2>1
  <2>3. \A x, y \in 1..Len(t.conns) : Skip(c, x) = Skip(c, y) => x = y
    BY <1>2
  <2> QED BY <2>2, <2>3
<1>6. ASSUME NEW g \in Fd, t.fds[g].k = "client_connect"
      PROVE  /\ t.fds[g].addr = 1
             /\ \E i \in 1..Len(t.conns) : t.conns[i].fd = g /\ t.conns[i].active
  <2>1. g # f /\ t.fds[g] = s.fds[g]
    BY <1>2, <1>6
  <2>2. PICK j \in 1..Len(s.conns) : s.conns[j].fd = g /\ s.conns[j].active
    BY <1>6, <2>1 DEF Enforced
  <2>3. j # c
    BY <2>1, <2>2 DEF f
  <2>4. s.fds[g].addr = 1
    BY <1>6, <2>1 DEF Enforced
  <2> QED BY <1>4, <2>1, <2>2, <2>3, <2>4
<1>7. (\E i \in 1..Len(t.conns) : Listens(t, i) /\ t.conns[i].active)
        <=> \E i \in 1..Len(s.conns) : Listens(s, i) /\ s.conns[i].active
  <2>1. ASSUME NEW i \in 1..Len(t.conns), Listens(t, i), t.conns[i].active
        PROVE  \E j \in 1..Len(s.conns) : Listens(s, j) /\ s.conns[j].active
    BY <1>2, <1>3, <2>1
  <2>2. ASSUME NEW j \in 1..Len(s.conns), Listens(s, j), s.conns[j].active
        PROVE  \E i \in 1..Len(t.conns) : Listens(t, i) /\ t.conns[i].active
    <3>1. j # c
      BY <2>2 DEF Listens
    <3>2. PICK i \in 1..Len(t.conns) : j = Skip(c, i) /\ t.conns[i] = s.conns[j]
      BY <1>4, <3>1
    <3> QED BY <1>3, <2>2, <3>2
  <2> QED BY <2>1, <2>2
<1>8. AllowedBy(configs, t, "client_connect") <=> AllowedBy(configs, s, "client_connect")
  BY <1>2 DEF AllowedBy
<1> QED BY <1>5, <1>6, <1>7, <1>8 DEF Enforced

-----------------------------------------------------------------------------
(* The invariant of the daemon's structures: configs are the filters, n    *)
(* the number of addresses.  A daemon that is leaving may have opened some *)
(* of its sockets only.                                                    *)
Good(s, configs, n) ==
  /\ s \in State /\ s.current \in 1..Len(configs)
  /\ s.leave = "no" => Wf(s) /\ (n = 1 => Enforced(s, configs))

LEMMA KeptIsGood ==
  ASSUME NEW s, NEW t, NEW configs, NEW n, Good(s, configs, n), Kept(s, t),
         t.leave = "no" => Wf(t) /\ (n = 1 => Enforced(t, configs))
  PROVE  Good(t, configs, n)
BY DEF Good, Kept

LEMMA UnregisterGood ==
  ASSUME NEW s, NEW configs, NEW n, Good(s, configs, n), NEW f,
         s.leave = "no" => f \in Fd /\ s.fds[f].k # "client_connect"
  PROVE  LET t == Unregister(s, f)
         IN  /\ Good(t, configs, n) /\ t.leave = s.leave
             /\ s.leave = "no" =>
                  \A g \in Fd : t.fds[g].k = s.fds[g].k \/ t.fds[g].k = "free"
<1> DEFINE t == Unregister(s, f)
<1>1. s \in State
  BY DEF Good
<1>2. \/ t = s
      \/ \E c \in 1..Len(s.conns) : s.conns[c].fd = f /\ Unregistered(s, c, t)
  BY <1>1, UnregisterIs
<1> HIDE DEF t
<1>3. CASE t = s
  BY <1>3 DEF t
<1>4. ASSUME NEW c \in 1..Len(s.conns), s.conns[c].fd = f, Unregistered(s, c, t)
      PROVE  /\ Good(t, configs, n) /\ t.leave = s.leave
             /\ s.leave = "no" =>
                  \A g \in Fd : t.fds[g].k = s.fds[g].k \/ t.fds[g].k = "free"
  <2>1. t \in State /\ t.current = s.current /\ t.leave = s.leave
    BY <1>4 DEF Unregistered
  <2>2. CASE s.leave # "no"
    BY <2>1, <2>2 DEF Good
  <2>3. CASE s.leave = "no"
    <3>1. Wf(s) /\ (n = 1 => Enforced(s, configs))
      BY <2>3 DEF Good
    <3>2. s.conns[c].type # "client_connect"
      BY <1>4, <2>3, <3>1, NoneIsNoFd DEF Wf, Descriptors, HasDescriptor
    <3>3. Wf(t)
      BY <1>1, <1>4, <3>1, <3>2, UnregisterWf
    <3>4. n = 1 => Enforced(t, configs)
      BY <1>1, <1>4, <3>1, <3>2, UnregisteredEnforced
    <3>5. \A g \in Fd : t.fds[g].k = s.fds[g].k \/ t.fds[g].k = "free"
      BY <1>4, <2>3, <3>2, ObjectIs DEF Unregistered
    <3> QED BY <2>1, <3>3, <3>4, <3>5 DEF Good
  <2> QED BY <2>2, <2>3
<1> QED BY <1>2, <1>3, <1>4 DEF t

-----------------------------------------------------------------------------
(* A send to all clients.                                                  *)

LEMMA UnregisterAll ==
  ASSUME NEW s, NEW configs, NEW n, Good(s, configs, n),
         NEW fs \in SUBSET (Fd \cup {None}),
         s.leave = "no" => \A f \in fs : f \in Fd /\ s.fds[f].k # "client_connect"
  PROVE  Good(FoldSet(LAMBDA f, t : Unregister(t, f), s, fs), configs, n)
<1> DEFINE V == {t \in State : /\ Good(t, configs, n) /\ t.leave = s.leave
                               /\ s.leave = "no" =>
                                    \A f \in fs : t.fds[f].k # "client_connect"}
           c == Picks(fs)
           Folded(g) == g = [A \in SUBSET fs |->
                               IF A = {} THEN s
                               ELSE Unregister(g[A \ {CHOOSE x \in A : TRUE}],
                                               CHOOSE x \in A : TRUE)]
           value == FoldSet(LAMBDA f, t : Unregister(t, f), s, fs)
<1>0. IsFiniteSet(fs)
  <2>1. IsFiniteSet(Fd)
    <3>1. 1 \in Int /\ MaxFd \in Int
      BY EventLoopAssumption
    <3> QED BY <3>1, FS_Interval DEF Fd
  <2>2. IsFiniteSet(Fd \cup {None})
    BY <2>1, FS_AddElement
  <2> QED BY <2>2, FS_Subset
<1>1. /\ Chooses(c, fs)
      /\ \A A \in SUBSET fs : c[A] = CHOOSE x \in A : TRUE
  BY DEF Chooses, Picks, Pick
<1>2. s \in V
  BY DEF Good
<1>3. \A x \in fs : \A v \in V : Unregister(v, x) \in V
  <2> SUFFICES ASSUME NEW x \in fs, NEW v \in V PROVE Unregister(v, x) \in V
    OBVIOUS
  <2> DEFINE t == Unregister(v, x)
  <2>1. /\ Good(v, configs, n) /\ v.leave = s.leave
        /\ v.leave = "no" => x \in Fd /\ v.fds[x].k # "client_connect"
    OBVIOUS
  <2>2. /\ Good(t, configs, n) /\ t.leave = v.leave
        /\ v.leave = "no" => \A g \in Fd : t.fds[g].k = v.fds[g].k \/ t.fds[g].k = "free"
    BY <2>1, UnregisterGood
  <2> HIDE DEF t
  <2>3. s.leave = "no" => \A f \in fs : t.fds[f].k # "client_connect"
    BY <2>1, <2>2
  <2>4. t \in State
    BY <2>2 DEF Good
  <2>5. t \in V
    BY <2>1, <2>2, <2>3, <2>4
  <2> HIDE DEF V
  <2> QED BY <2>5 DEF t
<1>4. value = (CHOOSE g : Folded(g))[fs]
  BY DEF FoldSet, MapThenFoldSet
<1> HIDE DEF V, c, value
<1>5. \E g : Folded(g)
  <2> DEFINE F == [p \in fs \X V |-> Unregister(p[2], p[1])]
  <2>1. PICK g : FoldsTo(g, fs, s, c, F)
    <3> HIDE DEF F
    <3> QED BY <1>0, <1>1, FoldExists
  <2>2. \A x \in fs : \A v \in V : F[<<x, v>>] = Unregister(v, x)
    OBVIOUS
  <2> HIDE DEF F
  <2>3. ASSUME NEW A \in SUBSET fs, A # {}, g[A \ {c[A]}] \in V
        PROVE  /\ g[A] \in V
               /\ g[A] = Unregister(g[A \ {CHOOSE x \in A : TRUE}], CHOOSE x \in A : TRUE)
    <3>1. c[A] = (CHOOSE x \in A : TRUE) /\ c[A] \in fs /\ g[A] = F[<<c[A], g[A \ {c[A]}]>>]
      BY <1>1, <2>1, <2>3 DEF Chooses, FoldsTo
    <3>2. g[A] = Unregister(g[A \ {c[A]}], c[A])
      BY <2>2, <2>3, <3>1
    <3>3. g[A] \in V
      BY <1>3, <2>3, <3>1, <3>2
    <3> QED BY <3>1, <3>2, <3>3
  <2>4. g[{}] = s
    BY <2>1 DEF FoldsTo
  <2>5. \A A \in SUBSET fs : g[A] \in V
    BY <1>0, <1>1, <1>2, <2>3, <2>4, FoldStays
  <2>6. \A A \in SUBSET fs :
          g[A] = IF A = {} THEN s
                 ELSE Unregister(g[A \ {CHOOSE x \in A : TRUE}], CHOOSE x \in A : TRUE)
    <3> SUFFICES ASSUME NEW A \in SUBSET fs, A # {}
                 PROVE  g[A] = Unregister(g[A \ {CHOOSE x \in A : TRUE}],
                                          CHOOSE x \in A : TRUE)
      BY <2>4
    <3>1. A \ {c[A]} \in SUBSET fs
      OBVIOUS
    <3> QED BY <2>3, <2>5, <3>1
  <2>7. Folded(g)
    BY <2>1, <2>6 DEF FoldsTo
  <2> QED BY <2>7
<1>6. ASSUME NEW g, Folded(g) PROVE g[fs] \in V
  <2>1. g[{}] \in V
    BY <1>2, <1>6
  <2>2. ASSUME NEW A \in SUBSET fs, A # {}, g[A \ {c[A]}] \in V PROVE g[A] \in V
    <3>1. c[A] = (CHOOSE x \in A : TRUE) /\ c[A] \in fs
      BY <1>1, <2>2 DEF Chooses
    <3>2. g[A] = Unregister(g[A \ {CHOOSE x \in A : TRUE}], CHOOSE x \in A : TRUE)
      BY <1>6, <2>2
    <3>3. g[A] = Unregister(g[A \ {c[A]}], c[A])
      BY <3>1, <3>2
    <3> QED BY <1>3, <2>2, <3>1, <3>3
  <2> HIDE DEF Folded
  <2> QED BY <1>0, <1>1, <2>1, <2>2, FoldStays
<1> HIDE DEF Folded
<1>7. value \in V
  BY <1>4, <1>5, <1>6
<1> QED BY <1>7 DEF value, V

LEMMA SendToAllGood ==
  ASSUME NEW s, NEW configs, NEW n, Good(s, configs, n), NEW t \in SendToAll(s)
  PROVE  Good(t, configs, n)
<1>1. PICK fs \in SUBSET BrokenClients(s) :
        t = FoldSet(LAMBDA f, u : Unregister(u, f), s, fs)
  BY DEF SendToAll
<1>2. s \in State
  BY DEF Good
<1>3. \A f \in BrokenClients(s) : \E i \in 1..Len(s.conns) :
        s.conns[i].type = "tcp" /\ s.conns[i].fd = f
  <2>1. DOMAIN s.conns = 1..Len(s.conns)
    BY <1>2, FieldTypes
  <2> QED BY <2>1 DEF BrokenClients
<1>4. fs \in SUBSET (Fd \cup {None})
  BY <1>2, <1>3, FieldTypes
<1>5. ASSUME s.leave = "no", NEW f \in fs PROVE f \in Fd /\ s.fds[f].k # "client_connect"
  <2>1. Wf(s)
    BY <1>5 DEF Good
  <2>2. f \in BrokenClients(s)
    BY <1>1
  <2>3. PICK i \in 1..Len(s.conns) : s.conns[i].type = "tcp" /\ s.conns[i].fd = f
    BY <1>3, <2>2
  <2>4. HasDescriptor(s, i)
    BY <2>1 DEF Wf, Descriptors
  <2> QED BY <2>3, <2>4 DEF HasDescriptor
<1> QED BY <1>1, <1>4, <1>5, UnregisterAll

LEMMA CloseSocketGood ==
  ASSUME NEW s, NEW configs, NEW n, Good(s, configs, n), NEW f,
         s.leave = "no" => f \in Fd /\ s.fds[f].k # "client_connect",
         NEW t \in CloseSocket(s, f)
  PROVE  Good(t, configs, n)
BY UnregisterGood, SendToAllGood DEF CloseSocket

LEMMA ReplacedEnforced ==
  ASSUME NEW s \in State, NEW f \in Fd, NEW o, NEW t, Replaced(s, f, o, t),
         \/ SameKind(s, f, o)
         \/ s.fds[f].k # "client_connect" /\ o.k # "client_connect",
         NEW configs, Enforced(s, configs)
  PROVE  Enforced(t, configs)
<1>1. /\ t.conns = s.conns /\ t.current = s.current
      /\ \A g \in Fd : /\ g # f => t.fds[g] = s.fds[g]
                       /\ t.fds[g].k = "client_connect" =>
                            s.fds[g].k = "client_connect" /\ t.fds[g].addr = s.fds[g].addr
  BY DEF Replaced, SameKind
<1>2. AllowedBy(configs, t, "client_connect") <=> AllowedBy(configs, s, "client_connect")
  BY <1>1 DEF AllowedBy
<1>3. \A i \in 1..Len(s.conns) : Listens(t, i) <=> Listens(s, i)
  BY <1>1 DEF Listens
<1> QED BY <1>1, <1>2, <1>3 DEF Enforced

LEMMA SameKindGood ==
  ASSUME NEW s, NEW configs, NEW n, Good(s, configs, n), NEW f \in Fd, NEW o \in Obj,
         SameKind(s, f, o) \/ s.leave # "no", NEW t, Replaced(s, f, o, t)
  PROVE  Good(t, configs, n)
<1>1. s \in State
  BY DEF Good
<1>2. Kept(s, t) /\ t.leave = s.leave
  BY DEF Replaced, Kept
<1>3. ASSUME s.leave = "no" PROVE Wf(t) /\ (n = 1 => Enforced(t, configs))
  BY <1>1, <1>3, ReplacedWf, ReplacedEnforced DEF Good
<1> QED BY <1>2, <1>3, KeptIsGood

LEMMA ConsumeGood ==
  ASSUME NEW s, NEW configs, NEW n, Good(s, configs, n), NEW f \in Fd
  PROVE  LET t == Consume(s, f)
         IN  /\ Good(t, configs, n) /\ t.conns = s.conns /\ t.leave = s.leave
             /\ t.current = s.current
<1> DEFINE o == [s.fds[f] EXCEPT !.in = Nothing]
           t == Consume(s, f)
<1>1. s \in State
  BY DEF Good
<1>2. /\ o \in Obj /\ o.k = s.fds[f].k /\ o.peer = s.fds[f].peer /\ o.addr = s.fds[f].addr
      /\ Replaced(s, f, o, t)
  BY <1>1, ConsumeIs
<1> HIDE DEF o, t
<1>3. SameKind(s, f, o) \/ s.leave # "no"
  BY <1>2 DEF SameKind, Good, Wf, Rejects
<1>4. Good(t, configs, n)
  BY <1>2, <1>3, SameKindGood
<1> QED BY <1>2, <1>4 DEF Replaced, t

-----------------------------------------------------------------------------
(* The sockets for clients are opened again.                               *)

(* A connection is switched on.                                            *)
Activated(s, c, t) ==
  /\ t \in State
  /\ Len(t.conns) = Len(s.conns)
  /\ \A i \in 1..Len(s.conns) : i # c => t.conns[i] = s.conns[i]
  /\ t.conns[c].type = s.conns[c].type /\ t.conns[c].fd = s.conns[c].fd
  /\ t.conns[c].active
  /\ t.pfd = Append(s.pfd, [fd |-> s.conns[c].fd, ev |-> "none"])
  /\ t.clients = s.clients /\ t.current = s.current
  /\ t.fds = s.fds /\ t.leave = s.leave

LEMMA ActivateIs ==
  ASSUME NEW s \in State, NEW c \in 1..Len(s.conns), s.conns[c].fd \in Fd
  PROVE  Activated(s, c, Activate(s, c))
<1> DEFINE f == s.conns[c].fd
           t == Activate(s, c)
           x == [s.conns[c] EXCEPT !.active = TRUE]
           cs == [s.conns EXCEPT ![c] = x]
           ps == Append(s.pfd, [fd |-> f, ev |-> "none"])
<1>1. t = [s EXCEPT !.pfd = ps, !.conns = cs]
  BY DEF Activate, EnableFd, State
<1>2. x \in Conn /\ x.type = s.conns[c].type /\ x.active /\ x.fd = f
  <2>1. s.conns[c] \in Conn
    BY FieldTypes
  <2> QED BY <2>1 DEF Conn
<1>3. ps \in Seq(PollFd)
  <2>1. [fd |-> f, ev |-> "none"] \in PollFd
    BY DEF PollFd
  <2> QED BY <2>1, FieldTypes, AppendFacts
<1> HIDE DEF x
<1>4. /\ cs \in Seq(Conn) /\ Len(cs) = Len(s.conns) /\ cs[c] = x
      /\ \A i \in 1..Len(s.conns) : i # c => cs[i] = s.conns[i]
  BY <1>2, FieldTypes, ExceptSeq
<1> HIDE DEF cs, ps, t
<1>5. /\ t \in State /\ t.conns = cs /\ t.pfd = ps
      /\ t.clients = s.clients /\ t.current = s.current
      /\ t.fds = s.fds /\ t.leave = s.leave
  BY <1>1, <1>3, <1>4 DEF State
<1>6. Activated(s, c, t)
  BY <1>2, <1>4, <1>5 DEF Activated, ps
<1> QED BY <1>6 DEF t

LEMMA CheckActivateKept ==
  ASSUME NEW s \in State, NEW c \in 1..Len(s.conns),
         s.conns[c].fd \in Fd \/ ~Allowed(s, s.conns[c].type)
  PROVE  Kept(s, CheckActivate(s, c, "activate"))
<1> DEFINE t == CheckActivate(s, c, "activate")
<1>1. \/ t = s \/ t = Deactivate(s, c)
      \/ t = Activate(s, c) /\ s.conns[c].fd \in Fd
  BY AllowedIsBoolean, FieldTypes DEF CheckActivate
<1> SUFFICES Kept(s, t)
  OBVIOUS
<1> HIDE DEF t
<1>2. CASE t = s
  BY <1>2 DEF Kept
<1>3. CASE t = Deactivate(s, c)
  <2>1. Deactivated(s, c, t)
    BY <1>3, DeactivateIs
  <2> QED BY <2>1 DEF Deactivated, Kept
<1>4. CASE t = Activate(s, c) /\ s.conns[c].fd \in Fd
  <2>1. Activated(s, c, t)
    BY <1>4, ActivateIs
  <2> QED BY <2>1 DEF Activated, Kept
<1> QED BY <1>1, <1>2, <1>3, <1>4

(* Sockets were opened, and the connection c has one of them.              *)
Socket(o) == o.k = "client_connect" /\ o.peer = "there"
Reopened(s, c, t) ==
  /\ t \in State
  /\ Len(t.conns) = Len(s.conns)
  /\ \A i \in 1..Len(s.conns) : i # c => t.conns[i] = s.conns[i]
  /\ t.conns[c].type = s.conns[c].type /\ t.conns[c].active = s.conns[c].active
  /\ t.pfd = s.pfd /\ t.clients = s.clients
  /\ t.current = s.current /\ t.leave = s.leave
  /\ \A g \in Fd : t.fds[g] = s.fds[g] \/ (s.fds[g].k = "free" /\ Socket(t.fds[g]))
  /\ \/ t.conns[c].fd = s.conns[c].fd
     \/ /\ t.conns[c].fd \in Fd /\ s.fds[t.conns[c].fd].k = "free"
        /\ Socket(t.fds[t.conns[c].fd])
Results(s, c) == {r \in [s : State, ok : BOOLEAN] : Reopened(s, c, r.s)}

LEMMA ReopenStays ==
  ASSUME NEW s \in State, NEW c \in 1..Len(s.conns), NEW r \in Results(s, c), NEW addr \in Nat
  PROVE  LET x == Reopen(r, c, addr)
         IN  x \in Results(s, c) /\ (x.ok => x.s.conns[c].fd \in Fd)
<1> DEFINE f == SocketOpen(r.s, addr)
           o == Object("client_connect", addr)
           x == Reopen(r, c, addr)
<1>1. r \in [s : State, ok : BOOLEAN] /\ Reopened(s, c, r.s)
  BY DEF Results
<1>2. CASE ~r.ok \/ f = None
  <2>1. x = [r EXCEPT !.ok = FALSE]
    BY <1>2 DEF Reopen
  <2> HIDE DEF x
  <2>2. x \in [s : State, ok : BOOLEAN] /\ x.s = r.s /\ x.ok = FALSE
    BY <1>1, <2>1
  <2>3. x \in Results(s, c)
    BY <1>1, <2>2 DEF Results
  <2> QED BY <2>2, <2>3 DEF x
<1>3. CASE r.ok /\ f \in Fd /\ r.s.fds[f].k = "free"
  <2> DEFINE u == r.s
             fs == [u.fds EXCEPT ![f] = o]
             y == [u.conns[c] EXCEPT !.fd = f]
             cs == [u.conns EXCEPT ![c] = y]
             t == [u EXCEPT !.fds = fs, !.conns = cs]
  <2>0. u \in State /\ c \in 1..Len(u.conns)
    BY <1>1 DEF Reopened
  <2>1. x = [r EXCEPT !.s = t]
    BY <1>1, <1>3, <2>0, NoneIsNoFd DEF Reopen, State
  <2>2. o \in Obj /\ Socket(o) /\ o.k # "free"
    <3>1. "client_connect" \in Kinds
      BY DEF Kinds, HasReceiver
    <3>2. o \in Obj /\ o.k = "client_connect" /\ o.peer = "there"
      BY <3>1, ObjectIs
    <3> QED BY <3>2 DEF Socket
  <2>3. u.conns[c] \in Conn
    BY <2>0, FieldTypes
  <2>4. y \in Conn /\ y.fd = f /\ y.type = u.conns[c].type /\ y.active = u.conns[c].active
    BY <1>3, <2>3 DEF Conn
  <2> HIDE DEF o, y, x, u
  <2>5. /\ fs \in [Fd -> Obj] /\ fs[f] = o
        /\ \A g \in Fd : g # f => fs[g] = u.fds[g]
    BY <1>3, <2>0, <2>2, FieldTypes
  <2>6. /\ cs \in Seq(Conn) /\ Len(cs) = Len(u.conns) /\ cs[c] = y
        /\ \A i \in 1..Len(u.conns) : i # c => cs[i] = u.conns[i]
    BY <2>0, <2>4, FieldTypes, ExceptSeq
  <2> HIDE DEF fs, cs, f
  <2>7. /\ t \in State /\ t.conns = cs /\ t.fds = fs
        /\ t.pfd = u.pfd /\ t.clients = u.clients
        /\ t.current = u.current /\ t.leave = u.leave
    BY <2>0, <2>5, <2>6 DEF State
  <2> HIDE DEF t
  <2>8. x \in [s : State, ok : BOOLEAN] /\ x.s = t
    BY <1>1, <2>1, <2>7
  <2>9. /\ Len(u.conns) = Len(s.conns)
        /\ \A i \in 1..Len(s.conns) : i # c => u.conns[i] = s.conns[i]
        /\ u.conns[c].type = s.conns[c].type /\ u.conns[c].active = s.conns[c].active
        /\ u.pfd = s.pfd /\ u.clients = s.clients
        /\ u.current = s.current /\ u.leave = s.leave
        /\ \A g \in Fd : u.fds[g] = s.fds[g] \/ (s.fds[g].k = "free" /\ Socket(u.fds[g]))
    BY <1>1 DEF Reopened, u
  <2>10. s.fds[f].k = "free"
    <3>1. u.fds[f].k = "free"
      BY <1>3 DEF u
    <3> QED BY <1>3, <2>9, <3>1 DEF Socket
  <2>11. \A g \in Fd : t.fds[g] = s.fds[g] \/ (s.fds[g].k = "free" /\ Socket(t.fds[g]))
    BY <2>2, <2>5, <2>7, <2>9, <2>10
  <2>12. t.conns[c].fd = f /\ Socket(t.fds[f])
    BY <2>2, <2>4, <2>5, <2>6, <2>7
  <2>13. Reopened(s, c, t)
    <3>1. /\ Len(t.conns) = Len(s.conns)
          /\ \A i \in 1..Len(s.conns) : i # c => t.conns[i] = s.conns[i]
          /\ t.conns[c].type = s.conns[c].type /\ t.conns[c].active = s.conns[c].active
          /\ t.pfd = s.pfd /\ t.clients = s.clients
          /\ t.current = s.current /\ t.leave = s.leave
      BY <2>4, <2>6, <2>7, <2>9
    <3> QED BY <1>3, <2>7, <2>10, <2>11, <2>12, <3>1 DEF Reopened
  <2>14. x \in Results(s, c)
    BY <2>8, <2>13 DEF Results
  <2> QED BY <1>3, <2>8, <2>12, <2>14 DEF x
<1>4. f = None \/ (f \in Fd /\ r.s.fds[f].k = "free")
  BY LowestFreeIs DEF SocketOpen
<1>5. r.ok \in BOOLEAN
  BY <1>1
<1> QED BY <1>2, <1>3, <1>4, <1>5

LEMMA ReopenAllIs ==
  ASSUME NEW s \in State, NEW c \in 1..Len(s.conns), conf.addresses \in Nat \ {0}
  PROVE  LET r == ReopenAll(s, c)
         IN  /\ r \in Results(s, c) /\ (r.ok => r.s.conns[c].fd \in Fd)
             /\ conf.addresses = 1 => r = Reopen([s |-> s, ok |-> TRUE], c, 1)
<1> DEFINE n == conf.addresses
           D == 1..n
           V == Results(s, c)
           ch == MaxOf(n)
           base == [s |-> s, ok |-> TRUE]
           Folded(g) == g = [A \in SUBSET D |->
                               IF A = {} THEN base
                               ELSE Reopen(g[A \ {Max(A)}], c, [i \in D |-> i][Max(A)])]
           value == ReopenAll(s, c)
<1>0. n \in Nat /\ D # {} /\ DOMAIN [i \in D |-> i] = D /\ (n = 1 => D = {1})
  OBVIOUS
<1>1. IsFiniteSet(D) /\ Chooses(ch, D) /\ \A A \in SUBSET D : ch[A] = Max(A)
  BY <1>0, MaxOfChooses DEF MaxOf
<1>2. base \in V
  <2>1. Reopened(s, c, s)
    <3>1. \A g \in Fd : s.fds[g] = s.fds[g]
      OBVIOUS
    <3>2. s.conns[c].fd = s.conns[c].fd
      OBVIOUS
    <3> QED BY <3>1, <3>2, Zenon DEF Reopened
  <2> QED BY <2>1 DEF Results
<1>3. \A x \in D : \A v \in V :
        /\ Reopen(v, c, x) \in V
        /\ Reopen(v, c, x).ok => Reopen(v, c, x).s.conns[c].fd \in Fd
  <2>1. D \subseteq Nat
    OBVIOUS
  <2> QED BY <2>1, ReopenStays
<1>4. value = (CHOOSE g : Folded(g))[D]
  BY <1>0 DEF ReopenAll, FoldLeft, MapThenFoldSet
<1>5. \A x \in D : [i \in D |-> i][x] = x
  OBVIOUS
<1> HIDE DEF n, D, V, ch, base, value
<1>6. \E g : Folded(g)
  <2> DEFINE F == [p \in D \X V |-> Reopen(p[2], c, p[1])]
  <2>1. PICK g : FoldsTo(g, D, base, ch, F)
    <3> HIDE DEF F
    <3> QED BY <1>1, FoldExists
  <2>2. \A x \in D : \A v \in V : F[<<x, v>>] = Reopen(v, c, x)
    OBVIOUS
  <2> HIDE DEF F
  <2>3. ASSUME NEW A \in SUBSET D, A # {}, g[A \ {ch[A]}] \in V
        PROVE  /\ g[A] \in V
               /\ g[A] = Reopen(g[A \ {Max(A)}], c, [i \in D |-> i][Max(A)])
    <3>1. ch[A] = Max(A) /\ ch[A] \in D /\ g[A] = F[<<ch[A], g[A \ {ch[A]}]>>]
      BY <1>1, <2>1, <2>3 DEF Chooses, FoldsTo
    <3>2. g[A] = Reopen(g[A \ {Max(A)}], c, Max(A))
      BY <2>2, <2>3, <3>1
    <3>3. [i \in D |-> i][Max(A)] = Max(A)
      BY <1>5, <3>1
    <3> QED BY <1>3, <2>3, <3>1, <3>2, <3>3
  <2>4. g[{}] = base
    BY <2>1 DEF FoldsTo
  <2>5. \A A \in SUBSET D : g[A] \in V
    BY <1>1, <1>2, <2>3, <2>4, FoldStays
  <2>6. \A A \in SUBSET D :
          g[A] = IF A = {} THEN base
                 ELSE Reopen(g[A \ {Max(A)}], c, [i \in D |-> i][Max(A)])
    <3> SUFFICES ASSUME NEW A \in SUBSET D, A # {}
                 PROVE  g[A] = Reopen(g[A \ {Max(A)}], c, [i \in D |-> i][Max(A)])
      BY <2>4
    <3>1. A \ {ch[A]} \in SUBSET D
      OBVIOUS
    <3> QED BY <2>3, <2>5, <3>1
  <2>7. Folded(g)
    BY <2>1, <2>6 DEF FoldsTo
  <2> QED BY <2>7
<1>7. ASSUME NEW g, Folded(g)
      PROVE  /\ g[D] \in V /\ (g[D].ok => g[D].s.conns[c].fd \in Fd)
             /\ n = 1 => g[D] = Reopen(base, c, 1)
  <2>1. g[{}] = base
    BY <1>7
  <2>2. ASSUME NEW A \in SUBSET D, A # {}
        PROVE  /\ g[A] = Reopen(g[A \ {ch[A]}], c, ch[A]) /\ ch[A] = Max(A)
               /\ ch[A] \in A /\ ch[A] \in D
    <3>1. ch[A] = Max(A) /\ ch[A] \in A /\ ch[A] \in D
      BY <1>1, <2>2 DEF Chooses
    <3>2. g[A] = Reopen(g[A \ {Max(A)}], c, [i \in D |-> i][Max(A)])
      BY <1>7, <2>2
    <3>3. [i \in D |-> i][Max(A)] = Max(A)
      BY <1>5, <3>1
    <3> QED BY <3>1, <3>2, <3>3
  <2> HIDE DEF Folded
  <2>3. ASSUME NEW A \in SUBSET D, A # {}, g[A \ {ch[A]}] \in V PROVE g[A] \in V
    BY <1>3, <2>2, <2>3
  <2>4. \A A \in SUBSET D : g[A] \in V
    <3>1. g[{}] \in V
      BY <1>2, <2>1
    <3> QED BY <1>1, <2>3, <3>1, FoldStays
  <2>5. g[D \ {ch[D]}] \in V
    BY <2>4
  <2>6. g[D].ok => g[D].s.conns[c].fd \in Fd
    <3>1. D \in SUBSET D
      OBVIOUS
    <3>2. ch[D] \in D /\ g[D] = Reopen(g[D \ {ch[D]}], c, ch[D])
      BY <1>0, <2>2, <3>1
    <3> HIDE DEF D
    <3> QED BY <1>3, <2>5, <3>2
  <2>7. ASSUME n = 1 PROVE g[D] = Reopen(base, c, 1)
    <3>1. D = {1} /\ ch[D] = 1 /\ D \ {ch[D]} = {}
      BY <1>0, <2>2, <2>7
    <3> QED BY <2>1, <2>2, <3>1
  <2> QED BY <2>4, <2>6, <2>7
<1> HIDE DEF Folded
<1>8. /\ value \in V /\ (value.ok => value.s.conns[c].fd \in Fd)
      /\ n = 1 => value = Reopen(base, c, 1)
  BY <1>4, <1>6, <1>7
<1> QED BY <1>8 DEF value, V, n, base

(* The part of Enforced that no change of the level disturbs.              *)
OneListener(s) ==
  /\ \A i, j \in 1..Len(s.conns) : Listens(s, i) /\ Listens(s, j) => i = j
  /\ \A f \in Fd : s.fds[f].k = "client_connect" =>
       /\ s.fds[f].addr = 1
       /\ \E i \in 1..Len(s.conns) : s.conns[i].fd = f /\ s.conns[i].active

LEMMA SameTypesCounts ==
  ASSUME NEW s, Counts(s), NEW t, t.clients = s.clients, Len(t.conns) = Len(s.conns),
         \A i \in 1..Len(s.conns) : t.conns[i].type = s.conns[i].type
  PROVE  Counts(t)
<1>1. CountedAt(t.conns) = CountedAt(s.conns)
  BY DEF CountedAt
<1> QED BY <1>1 DEF Counts

LEMMA ReopenedWf ==
  ASSUME NEW s \in State, Wf(s), NEW c \in 1..Len(s.conns), Listens(s, c),
         s.conns[c].fd = None, NEW u, Reopened(s, c, u), u.conns[c].fd \in Fd,
         NEW t, Activated(u, c, t)
  PROVE  Wf(t)
<1> DEFINE f == u.conns[c].fd
           n == Len(s.conns)
           m == Len(s.pfd) + 1
           e == [fd |-> f, ev |-> "none"]
<1>1. Tables(s) /\ Descriptors(s) /\ Counts(s) /\ Rejects(s)
  BY DEF Wf
<1>2. ~s.conns[c].active
  BY <1>1, NoneIsNoFd DEF Descriptors, HasDescriptor
<1>3. f \in Fd /\ f # None
  BY NoneIsNoFd
<1>4. /\ s.fds[f].k = "free" /\ t.fds[f].k = "client_connect" /\ t.fds[f].peer = "there"
      /\ \A g \in Fd : \/ t.fds[g] = s.fds[g]
                       \/ /\ s.fds[g].k = "free" /\ t.fds[g].k = "client_connect"
                          /\ t.fds[g].peer = "there"
  BY <1>3 DEF Reopened, Activated, Socket
<1>5. /\ Len(t.conns) = n
      /\ \A i \in 1..n : i # c => t.conns[i] = s.conns[i]
      /\ t.conns[c].type = "client_connect" /\ t.conns[c].fd = f /\ t.conns[c].active
      /\ t.clients = s.clients
  BY DEF Reopened, Activated, Listens
<1>6. /\ Len(t.pfd) = m /\ t.pfd[m] = e /\ e.fd = f /\ e.ev = "none"
      /\ \A j \in 1..Len(s.pfd) : t.pfd[j] = s.pfd[j]
      /\ \A j \in 1..m : j \in 1..Len(s.pfd) \/ j = m
      /\ \A j \in 1..Len(s.pfd) : j \in 1..m
      /\ m \in 1..m
  <2>1. e \in PollFd /\ e.fd = f /\ e.ev = "none"
    BY DEF PollFd
  <2>2. s.pfd \in Seq(PollFd) /\ Len(s.pfd) \in Nat
    BY FieldTypes
  <2>3. t.pfd = Append(s.pfd, e)
    BY DEF Activated, Reopened
  <2> HIDE DEF e
  <2>4. /\ Len(t.pfd) = m /\ t.pfd[m] = e
        /\ \A j \in 1..Len(s.pfd) : t.pfd[j] = s.pfd[j]
    BY <2>1, <2>2, <2>3, AppendFacts
  <2> QED BY <2>1, <2>2, <2>4
<1> HIDE DEF f, n, m, e
<1>7. \A i \in 1..n : i # c => /\ s.conns[i].fd # f
                               /\ HasDescriptor(s, i)
  <2> SUFFICES ASSUME NEW i \in 1..n, i # c PROVE s.conns[i].fd # f /\ HasDescriptor(s, i)
    OBVIOUS
  <2>1. HasDescriptor(s, i)
    BY <1>1 DEF Descriptors, n
  <2>2. s.conns[i].type # "free"
    BY FieldTypes DEF n, HasReceiver
  <2> QED BY <1>3, <1>4, <2>1, <2>2 DEF HasDescriptor
<1>8. \A j \in 1..Len(s.pfd) : \E i \in 1..n :
        /\ i # c /\ s.conns[i].active /\ s.conns[i].fd = s.pfd[j].fd
        /\ s.pfd[j].fd # f
  BY <1>1, <1>2, <1>7 DEF Tables, n
<1>9. Tables(t)
  <2>1. \A i, j \in 1..m : t.pfd[i].fd = t.pfd[j].fd => i = j
    <3>1. /\ \A i, j \in 1..Len(s.pfd) : s.pfd[i].fd = s.pfd[j].fd => i = j
          /\ \A j \in 1..Len(s.pfd) : s.pfd[j].fd # f
      BY <1>1, <1>8 DEF Tables
    <3> QED BY <1>6, <3>1
  <2>2. ASSUME NEW j \in 1..m
        PROVE  \E i \in 1..n : t.conns[i].active /\ t.conns[i].fd = t.pfd[j].fd
    <3>1. CASE j = m
      BY <1>5, <1>6, <3>1 DEF n
    <3>2. CASE j \in 1..Len(s.pfd)
      BY <1>5, <1>6, <1>8, <3>2
    <3> QED BY <1>6, <3>1, <3>2
  <2>3. ASSUME NEW i \in 1..n, t.conns[i].active
        PROVE  \E j \in 1..m : t.pfd[j].fd = t.conns[i].fd
    <3>1. CASE i = c
      BY <1>5, <1>6, <3>1
    <3>2. CASE i # c
      <4>1. t.conns[i] = s.conns[i]
        BY <1>5, <3>2
      <4>2. PICK j \in 1..Len(s.pfd) : s.pfd[j].fd = s.conns[i].fd
        BY <1>1, <2>3, <4>1 DEF Tables, n
      <4> QED BY <1>6, <4>1, <4>2
    <3> QED BY <3>1, <3>2
  <2> QED BY <1>5, <1>6, <2>1, <2>2, <2>3 DEF Tables
<1>10. Descriptors(t)
  <2>1. ASSUME NEW i \in 1..n PROVE HasDescriptor(t, i)
    <3>1. CASE i = c
      BY <1>3, <1>4, <1>5, <3>1 DEF HasDescriptor
    <3>2. CASE i # c
      <4>1. t.conns[i] = s.conns[i] /\ HasDescriptor(s, i) /\ s.conns[i].type # "free"
        BY <1>5, <1>7, <3>2, FieldTypes DEF n, HasReceiver
      <4> QED BY <1>4, <4>1 DEF HasDescriptor
    <3> QED BY <3>1, <3>2
  <2>2. ASSUME NEW i \in 1..n, NEW j \in 1..n,
               t.conns[i].fd = t.conns[j].fd, t.conns[i].fd # None
        PROVE  i = j
    BY <1>1, <1>5, <1>7, <2>2 DEF Descriptors, n
  <2> QED BY <1>5, <2>1, <2>2 DEF Descriptors
<1>11. Rejects(t)
  <2>1. \A g \in Fd : t.fds[g].k = "client_connect" => t.fds[g].peer = "there"
    BY <1>1, <1>4 DEF Rejects
  <2>2. ASSUME NEW j \in 1..m, t.pfd[j].ev = "rejected"
        PROVE  t.fds[t.pfd[j].fd].peer # "there"
    <3>1. j \in 1..Len(s.pfd) /\ t.pfd[j] = s.pfd[j]
      BY <1>6, <2>2
    <3>2. PICK i \in 1..n : i # c /\ s.conns[i].fd = s.pfd[j].fd
      BY <1>8, <3>1
    <3>3. s.pfd[j].fd \in Fd
      BY <3>1, FieldTypes
    <3>4. s.fds[s.pfd[j].fd].k # "free"
      <4>1. s.conns[i].type # "free"
        BY FieldTypes DEF n, HasReceiver
      <4> QED BY <1>7, <3>2, <3>3, <4>1, NoneIsNoFd DEF HasDescriptor
    <3> QED BY <1>1, <1>4, <2>2, <3>1, <3>3, <3>4 DEF Rejects
  <2> QED BY <1>6, <2>1, <2>2 DEF Rejects
<1>12. Counts(t)
  <2>1. \A i \in 1..n : t.conns[i].type = s.conns[i].type
    BY <1>5 DEF Listens
  <2> QED BY <1>1, <1>5, <2>1, SameTypesCounts DEF n
<1> QED BY <1>9, <1>10, <1>11, <1>12 DEF Wf

LEMMA ReopenOne ==
  ASSUME NEW s \in State, NEW c \in 1..Len(s.conns)
  PROVE  LET r == Reopen([s |-> s, ok |-> TRUE], c, 1)
         IN  r.ok => \E f \in Fd :
               /\ r.s.fds[f].addr = 1 /\ r.s.conns[c].fd = f
               /\ \A g \in Fd : g # f => r.s.fds[g] = s.fds[g]
<1> DEFINE f == SocketOpen(s, 1)
           o == Object("client_connect", 1)
           r == Reopen([s |-> s, ok |-> TRUE], c, 1)
           y == [s.conns[c] EXCEPT !.fd = f]
           fs == [s.fds EXCEPT ![f] = o]
           cs == [s.conns EXCEPT ![c] = y]
           t == [s EXCEPT !.fds = fs, !.conns = cs]
<1> SUFFICES ASSUME r.ok PROVE \E x \in Fd :
               /\ r.s.fds[x].addr = 1 /\ r.s.conns[c].fd = x
               /\ \A g \in Fd : g # x => r.s.fds[g] = s.fds[g]
  OBVIOUS
<1>1. f \in Fd
  <2>1. f # None
    BY DEF Reopen
  <2> QED BY <2>1, LowestFreeIs DEF SocketOpen
<1>2. r.s = t
  BY <1>1, NoneIsNoFd DEF Reopen, State
<1>3. s.conns[c] \in Conn /\ s.fds \in [Fd -> Obj] /\ s.conns \in Seq(Conn)
  BY FieldTypes
<1>4. o.addr = 1
  BY DEF Object
<1>5. y.fd = f
  BY <1>3 DEF Conn
<1> HIDE DEF o, r, f, y
<1>6. fs[f] = o /\ \A g \in Fd : g # f => fs[g] = s.fds[g]
  BY <1>1, <1>3
<1>7. cs[c] = y
  BY <1>3
<1> HIDE DEF fs, cs
<1>8. t.fds = fs /\ t.conns = cs
  BY DEF State
<1> QED BY <1>1, <1>2, <1>4, <1>5, <1>6, <1>7, <1>8

LEMMA ReopenedEnforced ==
  ASSUME NEW s \in State, Wf(s), OneListener(s), NEW c \in 1..Len(s.conns), Listens(s, c),
         s.conns[c].fd = None, NEW configs, AllowedBy(configs, s, "client_connect"),
         NEW u, Reopened(s, c, u),
         NEW f \in Fd, u.fds[f].addr = 1, u.conns[c].fd = f,
         \A g \in Fd : g # f => u.fds[g] = s.fds[g],
         NEW t, Activated(u, c, t)
  PROVE  Enforced(t, configs)
<1>1. Descriptors(s) /\ \A i, j \in 1..Len(s.conns) : Listens(s, i) /\ Listens(s, j) => i = j
  BY DEF Wf, OneListener
<1>2. ~s.conns[c].active
  BY <1>1, NoneIsNoFd DEF Descriptors, HasDescriptor
<1>3. ASSUME NEW g \in Fd PROVE s.fds[g].k # "client_connect"
  <2> SUFFICES ASSUME s.fds[g].k = "client_connect" PROVE FALSE
    OBVIOUS
  <2>1. PICK i \in 1..Len(s.conns) : s.conns[i].fd = g /\ s.conns[i].active
    BY DEF OneListener
  <2>2. Listens(s, i)
    BY <1>1, <2>1, NoneIsNoFd DEF Descriptors, HasDescriptor, Listens
  <2> QED BY <1>1, <1>2, <2>1, <2>2
<1>4. /\ Len(t.conns) = Len(s.conns) /\ t.current = s.current
      /\ \A i \in 1..Len(s.conns) : t.conns[i].type = s.conns[i].type
      /\ t.conns[c].fd = f /\ t.conns[c].active
      /\ t.fds = u.fds
  BY DEF Reopened, Activated
<1>5. \A i \in 1..Len(s.conns) : Listens(t, i) <=> Listens(s, i)
  BY <1>4 DEF Listens
<1>6. \A g \in Fd : t.fds[g].k = "client_connect" =>
        /\ t.fds[g].addr = 1
        /\ \E i \in 1..Len(t.conns) : t.conns[i].fd = g /\ t.conns[i].active
  BY <1>3, <1>4
<1>7. AllowedBy(configs, t, "client_connect")
  BY <1>4 DEF AllowedBy
<1> QED BY <1>1, <1>4, <1>5, <1>6, <1>7 DEF Enforced

(* The socket for clients is closed, and its connection switched off.      *)
LEMMA ClosedWf ==
  ASSUME NEW s \in State, Wf(s), NEW c \in 1..Len(s.conns), Listens(s, c),
         s.conns[c].active, NEW u, Replaced(s, s.conns[c].fd, Free, u),
         NEW t, Deactivated(u, c, t)
  PROVE  /\ Wf(t)
         /\ \A configs : OneListener(s) /\ ~AllowedBy(configs, s, "client_connect")
                           => Enforced(t, configs)
<1> DEFINE f == s.conns[c].fd
           n == Len(s.conns)
<1>1. Tables(s) /\ Descriptors(s) /\ Counts(s) /\ Rejects(s)
  BY DEF Wf
<1>2. f \in Fd /\ f # None
  BY <1>1, NoneIsNoFd DEF Descriptors, HasDescriptor
<1>3. /\ t.fds[f] = Free /\ \A g \in Fd : g # f => t.fds[g] = s.fds[g]
      /\ Len(t.conns) = n
      /\ \A i \in 1..n : i # c => t.conns[i] = s.conns[i]
      /\ t.conns[c].type = "client_connect" /\ t.conns[c].fd = None /\ ~t.conns[c].active
      /\ Disabled(s.pfd, f, t.pfd)
      /\ t.clients = s.clients /\ t.current = s.current
  BY DEF Replaced, Deactivated, Listens
<1>4. Removed(s.pfd, f, t.pfd)
  <2>1. s.pfd \in Seq(PollFd)
    BY FieldTypes
  <2> QED BY <1>1, <1>3, <2>1, DisabledRemoved DEF Tables
<1>5. \A i \in 1..n : i # c => s.conns[i].fd # f
  BY <1>1, <1>2 DEF Descriptors
<1> HIDE DEF f, n
<1>6. Tables(t)
  <2>1. \A i, j \in 1..Len(t.pfd) : t.pfd[i].fd = t.pfd[j].fd => i = j
    BY <1>4 DEF Removed
  <2>2. ASSUME NEW j \in 1..Len(t.pfd)
        PROVE  \E i \in 1..n : t.conns[i].active /\ t.conns[i].fd = t.pfd[j].fd
    <3>1. PICK k \in 1..Len(s.pfd) : t.pfd[j] = s.pfd[k] /\ s.pfd[k].fd # f
      BY <1>4 DEF Removed
    <3>2. PICK i \in 1..n : s.conns[i].active /\ s.conns[i].fd = s.pfd[k].fd
      BY <1>1 DEF Tables, n
    <3> QED BY <1>3, <3>1, <3>2 DEF f
  <2>3. ASSUME NEW i \in 1..n, t.conns[i].active
        PROVE  \E j \in 1..Len(t.pfd) : t.pfd[j].fd = t.conns[i].fd
    <3>1. i # c /\ t.conns[i] = s.conns[i]
      BY <1>3, <2>3
    <3>2. PICK k \in 1..Len(s.pfd) : s.pfd[k].fd = s.conns[i].fd
      BY <1>1, <2>3, <3>1 DEF Tables, n
    <3>3. PICK j \in 1..Len(t.pfd) : t.pfd[j] = s.pfd[k]
      BY <1>4, <1>5, <3>1, <3>2 DEF Removed
    <3> QED BY <3>1, <3>2, <3>3
  <2> QED BY <1>3, <2>1, <2>2, <2>3 DEF Tables
<1>7. Descriptors(t)
  <2>1. ASSUME NEW i \in 1..n PROVE HasDescriptor(t, i)
    <3>1. CASE i = c
      BY <1>3, <3>1 DEF HasDescriptor
    <3>2. CASE i # c
      <4>1. t.conns[i] = s.conns[i] /\ HasDescriptor(s, i) /\ s.conns[i].fd # f
        BY <1>1, <1>3, <1>5, <3>2 DEF Descriptors, n
      <4> QED BY <1>3, <4>1 DEF HasDescriptor
    <3> QED BY <3>1, <3>2
  <2>2. ASSUME NEW i \in 1..n, NEW j \in 1..n,
               t.conns[i].fd = t.conns[j].fd, t.conns[i].fd # None
        PROVE  i = j
    BY <1>1, <1>3, <2>2 DEF Descriptors, n
  <2> QED BY <1>3, <2>1, <2>2 DEF Descriptors
<1>8. Rejects(t)
  <2>1. \A g \in Fd : t.fds[g].k = "client_connect" => t.fds[g].peer = "there"
    BY <1>1, <1>3, ObjectIs DEF Rejects
  <2>2. ASSUME NEW j \in 1..Len(t.pfd), t.pfd[j].ev = "rejected"
        PROVE  t.fds[t.pfd[j].fd].peer # "there"
    <3>1. PICK k \in 1..Len(s.pfd) : t.pfd[j] = s.pfd[k] /\ s.pfd[k].fd # f
      BY <1>4 DEF Removed
    <3>2. s.pfd[k].fd \in Fd
      BY FieldTypes
    <3> QED BY <1>1, <1>3, <2>2, <3>1, <3>2 DEF Rejects
  <2> QED BY <2>1, <2>2 DEF Rejects
<1>9. \A i \in 1..n : t.conns[i].type = s.conns[i].type
  BY <1>3 DEF Listens
<1>10. Counts(t)
  BY <1>1, <1>3, <1>9, SameTypesCounts DEF n
<1>11. ASSUME NEW configs, OneListener(s), ~AllowedBy(configs, s, "client_connect")
       PROVE  Enforced(t, configs)
  <2>1. /\ \A i, j \in 1..n : Listens(s, i) /\ Listens(s, j) => i = j
        /\ \A g \in Fd : s.fds[g].k = "client_connect" =>
             \E i \in 1..n : s.conns[i].fd = g /\ s.conns[i].active
    BY <1>11 DEF OneListener, n
  <2>2. \A i \in 1..n : Listens(t, i) <=> Listens(s, i)
    BY <1>9 DEF Listens
  <2>3. \A i \in 1..n : Listens(t, i) => i = c
    BY <2>1, <2>2 DEF n
  <2>4. ASSUME NEW g \in Fd PROVE t.fds[g].k # "client_connect"
    <3> SUFFICES ASSUME t.fds[g].k = "client_connect" PROVE FALSE
      OBVIOUS
    <3>1. g # f /\ s.fds[g].k = "client_connect"
      BY <1>3, ObjectIs
    <3>2. PICK i \in 1..n : s.conns[i].fd = g
      BY <2>1, <3>1
    <3>3. Listens(s, i)
      BY <1>1, <3>1, <3>2, NoneIsNoFd DEF Descriptors, HasDescriptor, Listens, n
    <3> QED BY <2>2, <2>3, <3>1, <3>2, <3>3 DEF f
  <2>5. ~AllowedBy(configs, t, "client_connect")
    BY <1>3, <1>11 DEF AllowedBy
  <2> QED BY <1>3, <2>3, <2>4, <2>5 DEF Enforced
<1> QED BY <1>6, <1>7, <1>8, <1>10, <1>11 DEF Wf

-----------------------------------------------------------------------------
(* The change of the level.                                                *)

(* What the configuration file and the configuration give.                 *)
Prepared ==
  /\ Len(mf.configs) \in Nat /\ 1 \in 1..Len(mf.configs)
  /\ \A level \in 0..LevelMax : Covering(mf.configs, level) \in 1..Len(mf.configs)
  /\ mf.default \in 0..LevelMax
  /\ \A i \in 1..Len(mf.configs) :
       "tcp" \in mf.configs[i].clients <=> "client_connect" \in mf.configs[i].clients
  /\ conf.addresses \in Nat \ {0}

LEMMA BothAllowed ==
  ASSUME Prepared, NEW s, s.current \in 1..Len(mf.configs)
  PROVE  Allowed(s, "tcp") <=> Allowed(s, "client_connect")
BY DEF Prepared, Allowed, Current, IsConnectionAllowed

LEMMA ReopenedAllowed ==
  ASSUME NEW s, NEW t, t.current = s.current, NEW type
  PROVE  Allowed(t, type) = Allowed(s, type)
BY DEF Allowed, Current

LEMMA KnownSocketKept ==
  ASSUME Prepared, NEW s \in State, s.current \in 1..Len(mf.configs),
         NEW c \in 1..Len(s.conns), Listens(s, c)
  PROVE  Kept(s, KnownSocket(s, c))
<1> DEFINE r == ChangeKnown(s, c)
           t == KnownSocket(s, c)
<1>1. t = IF r.ok THEN CheckActivate(r.s, c, "activate") ELSE [r.s EXCEPT !.leave = "exit"]
  BY DEF KnownSocket
<1>2. /\ Kept(s, r.s) /\ Len(r.s.conns) = Len(s.conns)
      /\ r.s.conns[c].type = "client_connect"
      /\ r.ok => r.s.conns[c].fd \in Fd \/ ~Allowed(r.s, "client_connect")
  <2>1. CASE Allowed(s, "tcp") /\ s.conns[c].fd = None
    <3>1. r = ReopenAll(s, c)
      BY <2>1 DEF ChangeKnown
    <3>2. r \in Results(s, c) /\ (r.ok => r.s.conns[c].fd \in Fd)
      BY <3>1, ReopenAllIs DEF Prepared
    <3> HIDE DEF r
    <3>3. Reopened(s, c, r.s)
      BY <3>2 DEF Results
    <3> QED BY <3>2, <3>3 DEF Reopened, Kept, Listens
  <2>2. CASE Allowed(s, "tcp") /\ s.conns[c].fd # None
    <3>1. r = [s |-> s, ok |-> TRUE]
      BY <2>2 DEF ChangeKnown
    <3> HIDE DEF r
    <3>2. s.conns[c].fd \in Fd
      BY <2>2, FieldTypes
    <3> QED BY <3>1, <3>2 DEF Kept, Listens
  <2>3. CASE ~Allowed(s, "tcp")
    <3> DEFINE f == s.conns[c].fd
               u == CloseFd(s, f)
    <3>1. r = [s |-> u, ok |-> TRUE]
      BY <2>3 DEF ChangeKnown
    <3> HIDE DEF r
    <3>2. u = s \/ Replaced(s, f, Free, u)
      BY CloseFdIs
    <3> HIDE DEF u
    <3>3. Kept(s, u) /\ u.conns = s.conns
      BY <3>2 DEF Replaced, Kept
    <3>4. ~Allowed(u, "client_connect")
      <4>1. u.current = s.current
        BY <3>3 DEF Kept
      <4> QED BY <2>3, <4>1, BothAllowed, ReopenedAllowed
    <3> QED BY <3>1, <3>3, <3>4 DEF Listens
  <2> QED BY <2>1, <2>2, <2>3
<1> SUFFICES Kept(s, t)
  OBVIOUS
<1> HIDE DEF r, t
<1>3. r.s \in State
  BY <1>2 DEF Kept
<1>4. CASE r.ok
  <2>1. Kept(r.s, CheckActivate(r.s, c, "activate"))
    BY <1>2, <1>3, <1>4, CheckActivateKept
  <2> QED BY <1>1, <1>2, <1>4, <2>1 DEF Kept
<1>5. CASE ~r.ok
  <2>1. Kept(r.s, [r.s EXCEPT !.leave = "exit"])
    BY <1>3, LeavingIs
  <2> QED BY <1>1, <1>2, <1>5, <2>1 DEF Kept
<1> QED BY <1>4, <1>5

LEMMA KnownSocketGood ==
  ASSUME Prepared, NEW s \in State, s.current \in 1..Len(mf.configs), Wf(s),
         conf.addresses = 1 => OneListener(s), NEW c \in 1..Len(s.conns), Listens(s, c)
  PROVE  LET t == KnownSocket(s, c)
         IN  t.leave = "no" =>
               Wf(t) /\ (conf.addresses = 1 => Enforced(t, mf.configs))
<1> DEFINE r == ChangeKnown(s, c)
           t == KnownSocket(s, c)
           On == AllowedBy(mf.configs, s, "client_connect")
<1> SUFFICES ASSUME t.leave = "no"
             PROVE  Wf(t) /\ (conf.addresses = 1 => Enforced(t, mf.configs))
  OBVIOUS
<1>0. s.conns[c].type = "client_connect" /\ HasDescriptor(s, c)
  BY DEF Listens, Wf, Descriptors
<1>1. CASE Allowed(s, "tcp") /\ s.conns[c].fd = None
  <2>1. r = ReopenAll(s, c)
    BY <1>1 DEF ChangeKnown
  <2>2. /\ r \in Results(s, c) /\ (r.ok => r.s.conns[c].fd \in Fd)
        /\ conf.addresses = 1 => r = Reopen([s |-> s, ok |-> TRUE], c, 1)
    BY <2>1, ReopenAllIs DEF Prepared
  <2>3. t = IF r.ok THEN CheckActivate(r.s, c, "activate") ELSE [r.s EXCEPT !.leave = "exit"]
    BY DEF KnownSocket
  <2> HIDE DEF r
  <2>4. Reopened(s, c, r.s) /\ r.s \in State
    BY <2>2 DEF Results, Reopened
  <2>5. r.ok
    <3> SUFFICES ASSUME ~r.ok PROVE FALSE
      OBVIOUS
    <3>1. [r.s EXCEPT !.leave = "exit"].leave = "exit"
      BY <2>4, LeavingIs
    <3> QED BY <2>3, <3>1
  <2>6. Allowed(s, "client_connect") /\ On
    BY <1>1, BothAllowed, AllowedIs
  <2>7. t = Activate(r.s, c)
    <3>1. Allowed(r.s, "client_connect")
      <4>1. r.s.current = s.current
        BY <2>4 DEF Reopened
      <4> QED BY <2>6, <4>1, ReopenedAllowed
    <3>2. ~s.conns[c].active
      BY <1>0, <1>1, NoneIsNoFd DEF HasDescriptor
    <3>3. ~r.s.conns[c].active /\ r.s.conns[c].type = "client_connect"
      BY <1>0, <2>4, <3>2 DEF Reopened
    <3> HIDE DEF t
    <3> QED BY <2>3, <2>5, <3>1, <3>3 DEF CheckActivate
  <2>8. Activated(r.s, c, t)
    <3>1. c \in 1..Len(r.s.conns)
      BY <2>4 DEF Reopened
    <3> QED BY <2>2, <2>4, <2>5, <2>7, <3>1, ActivateIs
  <2> HIDE DEF t
  <2>9. Wf(t)
    BY <1>1, <2>2, <2>4, <2>5, <2>8, ReopenedWf
  <2>10. ASSUME conf.addresses = 1 PROVE Enforced(t, mf.configs)
    <3>1. PICK f \in Fd : /\ r.s.fds[f].addr = 1 /\ r.s.conns[c].fd = f
                          /\ \A g \in Fd : g # f => r.s.fds[g] = s.fds[g]
      BY <2>2, <2>5, <2>10, ReopenOne
    <3> QED BY <1>1, <2>4, <2>6, <2>8, <2>10, <3>1, ReopenedEnforced
  <2> QED BY <2>9, <2>10
<1>2. CASE Allowed(s, "tcp") /\ s.conns[c].fd # None
  <2>1. r = [s |-> s, ok |-> TRUE]
    BY <1>2 DEF ChangeKnown
  <2>2. t = CheckActivate(s, c, "activate")
    BY <2>1 DEF KnownSocket
  <2>3. s.conns[c].active
    BY <1>0, <1>2 DEF HasDescriptor
  <2>4. Allowed(s, "client_connect") /\ On
    BY <1>2, BothAllowed, AllowedIs
  <2> HIDE DEF t
  <2>5. t = s
    BY <1>0, <2>2, <2>3, <2>4 DEF CheckActivate
  <2>6. OneListener(s) => Enforced(s, mf.configs)
    BY <2>3, <2>4 DEF OneListener, Enforced
  <2> QED BY <2>5, <2>6
<1>3. CASE ~Allowed(s, "tcp")
  <2> DEFINE f == s.conns[c].fd
             u == CloseFd(s, f)
  <2>1. r = [s |-> u, ok |-> TRUE]
    BY <1>3 DEF ChangeKnown
  <2>2. t = CheckActivate(u, c, "activate")
    BY <2>1 DEF KnownSocket
  <2>3. ~Allowed(s, "client_connect") /\ ~On
    BY <1>3, BothAllowed, AllowedIs
  <2> HIDE DEF t
  <2>4. CASE s.conns[c].active
    <3>1. f \in Fd
      BY <1>0, <2>4 DEF HasDescriptor
    <3>2. Replaced(s, f, Free, u)
      BY <3>1, CloseFdIs
    <3> HIDE DEF u
    <3>3. u \in State /\ u.conns = s.conns /\ u.current = s.current
      BY <3>2 DEF Replaced
    <3>4. ~Allowed(u, "client_connect")
      BY <2>3, <3>3, ReopenedAllowed
    <3>5. t = Deactivate(u, c)
      BY <1>0, <2>2, <2>4, <3>3, <3>4 DEF CheckActivate
    <3>6. Deactivated(u, c, t)
      BY <3>3, <3>5, DeactivateIs
    <3> QED BY <2>3, <2>4, <3>2, <3>6, ClosedWf
  <2>5. CASE ~s.conns[c].active
    <3>1. f = None
      BY <1>0, <2>5 DEF HasDescriptor
    <3>2. u = s
      BY <3>1, NoneIsNoFd, CloseFdIs
    <3>3. t = s
      BY <1>0, <2>2, <2>3, <2>5, <3>2 DEF CheckActivate
    <3>4. ASSUME OneListener(s) PROVE Enforced(s, mf.configs)
      <4>1. \A i \in 1..Len(s.conns) : Listens(s, i) => ~s.conns[i].active
        BY <2>5, <3>4 DEF OneListener
      <4> QED BY <2>3, <3>4, <4>1 DEF OneListener, Enforced
    <3> QED BY <3>3, <3>4
  <2> QED BY <2>4, <2>5
<1> QED BY <1>1, <1>2, <1>3

LEMMA FirstSocketGood ==
  ASSUME Prepared, NEW s \in State, s.current \in 1..Len(mf.configs),
         s.leave = "no" => /\ Wf(s)
                           /\ conf.addresses = 1 => NoListener(s)
  PROVE  Good(FirstSocket(s), mf.configs, conf.addresses)
<1> DEFINE t == FirstSocket(s)
<1> SUFFICES Good(t, mf.configs, conf.addresses)
  OBVIOUS
<1>1. CASE ~Allowed(s, "client_connect")
  <2>1. t = s
    BY <1>1 DEF FirstSocket
  <2>2. ASSUME NoListener(s) PROVE Enforced(s, mf.configs)
    BY <1>1, <2>2, AllowedIs DEF NoListener, Enforced
  <2> QED BY <2>1, <2>2 DEF Good
<1>2. CASE Allowed(s, "client_connect")
  <2>1. t = OpenAndCreate(s, "client_connect", "client_connect", 1, "exit")
    BY <1>2 DEF FirstSocket
  <2>2. "client_connect" \in HasReceiver /\ "client_connect" \in Kinds
    BY DEF HasReceiver, Kinds
  <2> HIDE DEF t
  <2>3. Kept(s, t)
    BY <2>1, <2>2, OpenAndCreateKept
  <2>4. ASSUME t.leave = "no"
        PROVE  Wf(t) /\ (conf.addresses = 1 => Enforced(t, mf.configs))
    <3>1. s.leave = "no" /\ t \in State
      BY <2>3, <2>4 DEF Kept
    <3>2. PICK f : Created(s, f, "client_connect", 1, t)
      BY <1>2, <2>1, <2>2, <2>4, <3>1, OpenAndCreateIs
    <3>3. Wf(t)
      BY <3>2 DEF Created
    <3> QED BY <1>2, <3>1, <3>2, <3>3, CreatedListener
  <2> QED BY <2>3, <2>4 DEF Good, Kept
<1>3. Allowed(s, "client_connect") \in BOOLEAN
  BY AllowedIsBoolean
<1> QED BY <1>1, <1>2, <1>3

LEMMA ChangeFilterLevelGood ==
  ASSUME Prepared, NEW s, Good(s, mf.configs, conf.addresses), NEW level \in Nat
  PROVE  Good(ChangeFilterLevel(s, level), mf.configs, conf.addresses)
<1> DEFINE k == Covering(mf.configs, level)
           t == [s EXCEPT !.current = k]
           c == NextOfType(s, "client_connect")
           I == {i \in 1..Len(s.conns) : s.conns[i].type = "client_connect"}
           u == ChangeFilterLevel(s, level)
<1>0. s \in State /\ s.current \in 1..Len(mf.configs)
  BY DEF Good
<1> SUFFICES Good(u, mf.configs, conf.addresses)
  OBVIOUS
<1>1. CASE level > LevelMax
  <2>1. u = s
    BY <1>1, MessageFilterAssumption DEF ChangeFilterLevel
  <2> QED BY <2>1
<1>2. CASE ~(level > LevelMax)
  <2>1. LevelMax \in Nat /\ level <= LevelMax /\ level \in 0..LevelMax
    BY <1>2, MessageFilterAssumption
  <2>2. k \in 1..Len(mf.configs) /\ k \in Nat
    BY <2>1 DEF Prepared
  <2> HIDE DEF k
  <2>3. /\ t \in State /\ t.current = k /\ t.conns = s.conns /\ t.pfd = s.pfd
        /\ t.fds = s.fds /\ t.clients = s.clients /\ t.leave = s.leave
    BY <1>0, <2>2 DEF State
  <2>4. \/ c = 0 /\ I = {}
        \/ c \in I /\ c # 0
    <3>1. c = First(I)
      BY NextOfTypeIs
    <3>2. I \in SUBSET (1..Len(s.conns)) /\ Len(s.conns) \in Nat
      BY <1>0, FieldTypes
    <3> HIDE DEF c, I
    <3> QED BY <3>1, <3>2, FirstIsLeast
  <2>5. u = IF c = 0 THEN FirstSocket(t) ELSE KnownSocket(t, c)
    BY <1>2, <2>1 DEF ChangeFilterLevel, k
  <2> HIDE DEF t, u, c
  <2>6. ASSUME s.leave = "no" PROVE Wf(t)
    BY <2>3, <2>6 DEF Good, Wf, Tables, Descriptors, HasDescriptor, Counts, Rejects
  <2>7. ASSUME s.leave = "no", conf.addresses = 1 PROVE OneListener(t)
    <3>1. Enforced(s, mf.configs)
      BY <2>7 DEF Good
    <3>2. OneListener(s)
      BY <3>1 DEF Enforced, OneListener
    <3> QED BY <2>3, <3>2 DEF OneListener, Listens
  <2>8. CASE c = 0 /\ I = {}
    <3>1. ASSUME s.leave = "no", conf.addresses = 1 PROVE NoListener(t)
      <4>1. \A i \in 1..Len(t.conns) : ~Listens(t, i)
        BY <2>3, <2>8 DEF Listens
      <4>2. OneListener(t) /\ Wf(t)
        BY <2>6, <2>7, <3>1
      <4>3. ASSUME NEW f \in Fd, t.fds[f].k = "client_connect" PROVE FALSE
        <5>1. PICK i \in 1..Len(t.conns) : t.conns[i].fd = f
          BY <4>2, <4>3 DEF OneListener
        <5>2. Listens(t, i)
          BY <4>2, <4>3, <5>1, NoneIsNoFd DEF Wf, Descriptors, HasDescriptor, Listens
        <5> QED BY <4>1, <5>2
      <4> QED BY <4>1, <4>3 DEF NoListener
    <3> QED BY <2>2, <2>3, <2>5, <2>6, <2>8, <3>1, FirstSocketGood
  <2>9. CASE c \in I /\ c # 0
    <3>1. c \in 1..Len(t.conns) /\ Listens(t, c) /\ t.current \in 1..Len(mf.configs)
      BY <2>2, <2>3, <2>9 DEF Listens
    <3>2. u = KnownSocket(t, c)
      BY <2>5, <2>9
    <3>3. Kept(t, u)
      BY <2>3, <3>1, <3>2, KnownSocketKept
    <3>4. ASSUME u.leave = "no"
          PROVE  Wf(u) /\ (conf.addresses = 1 => Enforced(u, mf.configs))
      <4>1. s.leave = "no"
        BY <2>3, <3>3, <3>4 DEF Kept
      <4> QED BY <2>3, <2>6, <2>7, <3>1, <3>2, <3>4, <4>1, KnownSocketGood
    <3> QED BY <3>1, <3>3, <3>4 DEF Good, Kept
  <2> QED BY <2>4, <2>8, <2>9
<1> QED BY <1>1, <1>2

-----------------------------------------------------------------------------
(* The callbacks.                                                          *)

LEMMA BackendLevelChangedGood ==
  ASSUME Prepared, NEW s, Good(s, mf.configs, conf.addresses), NEW level \in Nat
  PROVE  Good(BackendLevelChanged(s, level), mf.configs, conf.addresses)
BY ChangeFilterLevelGood DEF BackendLevelChanged

LEMMA LeaveGood ==
  ASSUME NEW s, NEW configs, NEW n, Good(s, configs, n), NEW l \in {"exit", "failed"}
  PROVE  Good([s EXCEPT !.leave = l], configs, n)
<1> DEFINE t == [s EXCEPT !.leave = l]
<1>1. s \in State
  BY DEF Good
<1>2. Kept(s, t) /\ t.leave = l
  BY <1>1, LeavingIs
<1> HIDE DEF t
<1>3. Good(t, configs, n)
  BY <1>2, KeptIsGood
<1> QED BY <1>3 DEF t

LEMMA InputLevel ==
  ASSUME NEW s \in State, NEW f \in Fd, s.fds[f].in.k = "level"
  PROVE  s.fds[f].in.level \in Nat
<1>1. s.fds[f].in \in Input
  <2>1. s.fds[f] \in Obj
    BY FieldTypes
  <2> QED BY <2>1 DEF Obj
<1>2. Levels \subseteq Nat
  BY EventLoopAssumption
<1> QED BY <1>1, <1>2 DEF Input, Nothing, Data, SetLevel

LEMMA OpenGood ==
  ASSUME NEW s, Good(s, mf.configs, conf.addresses),
         NEW type \in HasReceiver \ {"client_connect"}
  PROVE  Good(OpenAndCreate(s, type, type, 0, "failed"), mf.configs, conf.addresses)
<1> DEFINE t == OpenAndCreate(s, type, type, 0, "failed")
<1>1. s \in State /\ type \in Kinds
  BY DEF Good, Kinds
<1> SUFFICES Good(t, mf.configs, conf.addresses)
  OBVIOUS
<1>2. Kept(s, t)
  BY <1>1, OpenAndCreateKept
<1>3. ASSUME t.leave = "no"
      PROVE  Wf(t) /\ (conf.addresses = 1 => Enforced(t, mf.configs))
  <2>1. s.leave = "no" /\ t \in State
    BY <1>2, <1>3 DEF Kept
  <2>2. Wf(s) /\ (conf.addresses = 1 => Enforced(s, mf.configs))
    BY <2>1 DEF Good
  <2>3. PICK g : Created(s, g, type, 0, t)
    BY <1>1, <1>3, <2>2, OpenAndCreateIs
  <2>4. Wf(t)
    BY <2>3 DEF Created
  <2> HIDE DEF t
  <2> QED BY <1>1, <2>1, <2>2, <2>3, <2>4, CreatedElse
<1> HIDE DEF t
<1> QED BY <1>2, <1>3, KeptIsGood

LEMMA AcceptedGood ==
  ASSUME NEW s, Good(s, mf.configs, conf.addresses), NEW f \in Fd,
         NEW type \in {"tcp", "control"}
  PROVE  Good(Accepted(s, f, type), mf.configs, conf.addresses)
<1>1. Good(Consume(s, f), mf.configs, conf.addresses)
  BY ConsumeGood
<1>2. type \in HasReceiver \ {"client_connect"}
  BY DEF HasReceiver
<1> QED BY <1>1, <1>2, OpenGood DEF Accepted

LEMMA ProcessControlGood ==
  ASSUME Prepared, NEW s, Good(s, mf.configs, conf.addresses), NEW f \in Fd, NEW type
  PROVE  Good(ProcessControl(Consume(s, f), type, s.fds[f].in), mf.configs, conf.addresses)
<1> DEFINE u == Consume(s, f)
<1>1. s \in State
  BY DEF Good
<1>2. Good(u, mf.configs, conf.addresses)
  BY ConsumeGood
<1> HIDE DEF u
<1>3. CASE s.fds[f].in.k = "level" /\ MaySetLevel(u, type)
  <2>1. Good(ChangeFilterLevel(u, s.fds[f].in.level), mf.configs, conf.addresses)
    BY <1>1, <1>2, <1>3, InputLevel, ChangeFilterLevelGood
  <2> QED BY <1>3, <2>1 DEF ProcessControl, u
<1>4. CASE ~(s.fds[f].in.k = "level" /\ MaySetLevel(u, type))
  BY <1>2, <1>4 DEF ProcessControl, u
<1> QED BY <1>3, <1>4

LEMMA CallbackGood ==
  ASSUME Prepared, NEW s, Good(s, mf.configs, conf.addresses),
         NEW c \in 1..Len(s.conns), s.conns[c].fd \in Fd,
         NEW t \in Callback(s, s.conns[c].fd, s.conns[c].type)
  PROVE  Good(t, mf.configs, conf.addresses)
<1> DEFINE f == s.conns[c].fd
           type == s.conns[c].type
           in == s.fds[f].in
           G(x) == Good(x, mf.configs, conf.addresses)
<1>1. s \in State /\ type \in HasReceiver
  BY FieldTypes DEF Good
<1>2. s.leave = "no" => s.fds[f].k = type
  <2> SUFFICES ASSUME s.leave = "no" PROVE s.fds[f].k = type
    OBVIOUS
  <2>1. HasDescriptor(s, c)
    BY DEF Good, Wf, Descriptors
  <2> QED BY <2>1, NoneIsNoFd DEF HasDescriptor
<1>3. G(Consume(s, f))
  BY ConsumeGood
<1>4. G(Leave(s))
  BY LeaveGood DEF Leave
<1>5. \A x : G(ProcessControl(Consume(s, f), x, in))
  BY ProcessControlGood
<1>6. t \in Callback(s, f, type)
  OBVIOUS
<1> SUFFICES G(t)
  OBVIOUS
<1> HIDE DEF f, type, in
<1>7. CASE type = "client_connect"
  <2>1. t \in ClientConnect(s, f)
    BY <1>6, <1>7 DEF Callback
  <2>2. CASE t = Leave(s)
    BY <1>4, <2>2
  <2>3. CASE t \in SendToAll(Accepted(s, f, "tcp"))
    BY <2>3, AcceptedGood, SendToAllGood DEF f
  <2> QED BY <2>1, <2>2, <2>3 DEF ClientConnect
<1>8. CASE type \in {"tcp", "control"}
  <2>1. t \in Messages(s, f, type)
    BY <1>6, <1>8 DEF Callback
  <2>2. CASE t \in CloseSocket(s, f)
    <3>1. s.leave = "no" => f \in Fd /\ s.fds[f].k # "client_connect"
      BY <1>2, <1>8 DEF f
    <3> QED BY <2>2, <3>1, CloseSocketGood
  <2>3. CASE t = ProcessControl(Consume(s, f), type, in)
    BY <1>5, <2>3
  <2>4. ASSUME NEW u \in CloseSocket(s, f), t = Leave(u)
        PROVE  G(t)
    <3>1. s.leave = "no" => f \in Fd /\ s.fds[f].k # "client_connect"
      BY <1>2, <1>8 DEF f
    <3>2. G(u)
      BY <2>4, <3>1, CloseSocketGood
    <3> QED BY <2>4, <3>2, LeaveGood DEF Leave
  <2> QED BY <2>1, <2>2, <2>3, <2>4 DEF Messages, in
<1>9. CASE type = "serial"
  <2>1. t \in SerialMessages(s, f)
    BY <1>6, <1>9 DEF Callback
  <2> QED BY <1>4, <1>5, <2>1 DEF SerialMessages, in
<1>10. CASE type = "app"
  <2>1. t \in UserMessages(s, f)
    BY <1>6, <1>10 DEF Callback
  <2> QED BY <1>3, <2>1, SendToAllGood DEF UserMessages
<1>11. CASE type = "control_connect"
  <2>1. t \in ControlConnect(s, f)
    BY <1>6, <1>11 DEF Callback
  <2>2. CASE t = Leave(s)
    BY <1>4, <2>2
  <2>3. CASE t = Accepted(s, f, "control")
    BY <2>3, AcceptedGood DEF f
  <2> QED BY <2>1, <2>2, <2>3 DEF ControlConnect
<1>12. CASE type = "filter"
  <2>1. t = IF in.k = "level" THEN BackendLevelChanged(Consume(s, f), in.level)
            ELSE Consume(s, f)
    BY <1>6, <1>12 DEF Callback, FilterMessages, in
  <2>2. CASE in.k = "level"
    <3>1. in.level \in Nat
      BY <1>1, <2>2, InputLevel DEF in, f
    <3> QED BY <1>3, <2>1, <2>2, <3>1, BackendLevelChangedGood
  <2> QED BY <1>3, <2>1, <2>2
<1> QED BY <1>1, <1>7, <1>8, <1>9, <1>10, <1>11, <1>12 DEF HasReceiver

-----------------------------------------------------------------------------
(* The loop and the world.                                                 *)

LEMMA FirstReadyIs ==
  ASSUME NEW p \in Seq(PollFd), NEW from \in Nat \ {0}
  PROVE  FirstReady(p, from) \in 0..Len(p)
<1> DEFINE I == {i \in from..Len(p) : p[i].ev # "none"}
<1>1. I \in SUBSET Nat /\ I \in SUBSET (1..Len(p)) /\ Len(p) \in Nat
  OBVIOUS
<1>2. FirstReady(p, from) = IF I = {} THEN 0 ELSE Min(I)
  BY DEF FirstReady
<1> HIDE DEF I
<1>3. I # {} => Min(I) \in I
  BY <1>1, MinIsLeast
<1>4. 0 \in 0..Len(p) /\ \A i \in 1..Len(p) : i \in 0..Len(p)
  BY <1>1
<1>5. CASE I = {}
  BY <1>2, <1>4, <1>5
<1>6. CASE I # {}
  <2>1. Min(I) \in 1..Len(p)
    BY <1>1, <1>3, <1>6
  <2> QED BY <1>2, <1>4, <1>6, <2>1
<1> QED BY <1>5, <1>6

LEMMA ConnectionOfEntry ==
  ASSUME NEW s \in State, NEW f \in Fd
  PROVE  LET c == FindConnection(s, f)
         IN  \/ c = 0 /\ \A i \in 1..Len(s.conns) : s.conns[i].fd # f
             \/ c # 0 /\ c \in 1..Len(s.conns) /\ s.conns[c].fd = f
<1> DEFINE I == {i \in 1..Len(s.conns) : s.conns[i].fd = f}
           c == FindConnection(s, f)
<1>1. c = First(I)
  BY FindConnectionIs
<1>2. I \in SUBSET (1..Len(s.conns)) /\ Len(s.conns) \in Nat
  BY FieldTypes
<1>3. \/ c = 0 /\ I = {}
      \/ c # 0 /\ c \in I
  <2> HIDE DEF I, c
  <2> QED BY <1>1, <1>2, FirstIsLeast
<1> QED BY <1>3

IndInv ==
  /\ conf \in Conf /\ mf = PrepareMessageFilter(conf.lines)
  /\ Good(d, mf.configs, conf.addresses)
  /\ idx \in 0..Len(d.pfd)

LEMMA PreparedIs ==
  ASSUME conf \in Conf, mf = PrepareMessageFilter(conf.lines)
  PROVE  Prepared
<1> DEFINE L == Range(conf.lines)
           q == mf.configs
           n == Len(mf.configs)
<1>1. conf.lines \in Seq(L) /\ conf.addresses \in Nat \ {0} /\ LevelMax \in Nat
  BY EventLoopAssumption, MessageFilterAssumption
<1>2. q \in AllLevels(L) /\ mf.default \in 0..LevelMax
  BY <1>1, PrepareIs
<1>3. q \in Seq(Filter(L)) /\ q # <<>> /\ q[n].max = LevelMax
  BY <1>2 DEF AllLevels, Divisions
<1>4. n \in Nat /\ n \in 1..n /\ 1 \in 1..n
  BY <1>3
<1>5. ASSUME NEW i \in 1..n
      PROVE  q[i].max \in Nat
             /\ ("tcp" \in q[i].clients <=> "client_connect" \in q[i].clients)
  <2>1. q[i] \in Filter(L)
    BY <1>3, ElementOfSeq
  <2>2. q[i].clients \in Masks /\ q[i].max \in 0..LevelMax
    BY <2>1 DEF Filter
  <2> QED BY <1>1, <2>2 DEF Masks
<1>6. ASSUME NEW level \in 0..LevelMax PROVE Covering(q, level) \in 1..n
  <2> DEFINE I == {i \in 1..n : q[i].max >= level}
  <2>1. n \in I
    BY <1>1, <1>3, <1>4
  <2>2. Covering(q, level) = First(I)
    BY CoveringIs
  <2>3. I \in SUBSET (1..n)
    OBVIOUS
  <2> HIDE DEF I, n
  <2>4. First(I) \in I
    BY <1>4, <2>1, <2>3, FirstIsLeast
  <2> QED BY <2>2, <2>3, <2>4
<1> QED BY <1>1, <1>2, <1>4, <1>5, <1>6 DEF Prepared

(* The daemon goes from s to t in a step that its structures survive.      *)
LEMMA NextInd ==
  ASSUME IndInv, NEW s, Good(s, mf.configs, conf.addresses), d' = s,
         idx' \in 0..Len(s.pfd), UNCHANGED <<conf, mf>>
  PROVE  IndInv'
<1>1. Good(d', mf'.configs, conf'.addresses)
  OBVIOUS
<1>2. idx' \in 0..Len(d'.pfd)
  OBVIOUS
<1> QED BY <1>1, <1>2 DEF IndInv

LEMMA TurnInd ==
  ASSUME IndInv, idx # 0, NEW s, Good(s, mf.configs, conf.addresses), Turn(s)
  PROVE  IndInv'
<1>1. s.pfd \in Seq(PollFd) /\ Len(s.pfd) \in Nat
  BY FieldTypes DEF Good
<1>2. idx + 1 \in Nat \ {0}
  BY FieldTypes DEF IndInv, Good
<1>3. FirstReady(s.pfd, idx + 1) \in 0..Len(s.pfd) /\ 0 \in 0..Len(s.pfd)
  BY <1>1, <1>2, FirstReadyIs
<1>4. /\ d' = s /\ conf' = conf /\ mf' = mf
      /\ idx' = IF s.leave = "failed" THEN 0 ELSE FirstReady(s.pfd, idx + 1)
  BY DEF Turn
<1>5. idx' \in 0..Len(s.pfd)
  BY <1>3, <1>4
<1> QED BY <1>4, <1>5, NextInd

LEMMA EntryIs ==
  ASSUME IndInv, idx # 0
  PROVE  /\ d \in State /\ idx \in 1..Len(d.pfd) /\ Entry.fd \in Fd
         /\ \/ Found = 0 /\ \A i \in 1..Len(d.conns) : d.conns[i].fd # Entry.fd
            \/ Found # 0 /\ Found \in 1..Len(d.conns) /\ d.conns[Found].fd = Entry.fd
<1>1. d \in State /\ idx \in 0..Len(d.pfd)
  BY DEF IndInv, Good
<1>2. Len(d.pfd) \in Nat
  BY <1>1, FieldTypes
<1>3. idx \in 1..Len(d.pfd)
  BY <1>1, <1>2
<1>4. d.pfd[idx].fd \in Fd
  BY <1>1, <1>3, FieldTypes
<1> QED BY <1>1, <1>3, <1>4, ConnectionOfEntry DEF Entry, Found

LEMMA HandleRejectedInd ==
  ASSUME IndInv, HandleRejected
  PROVE  IndInv'
<1> DEFINE f == Entry.fd
<1>1. idx # 0 /\ Rejected
  BY DEF HandleRejected
<1>2. PICK s \in CleanUp : Turn(s)
  BY DEF HandleRejected
<1>3. /\ d \in State /\ idx \in 1..Len(d.pfd) /\ f \in Fd
      /\ \/ Found = 0 /\ \A i \in 1..Len(d.conns) : d.conns[i].fd # f
         \/ Found # 0 /\ Found \in 1..Len(d.conns) /\ d.conns[Found].fd = f
  BY <1>1, EntryIs
<1>4. Good(d, mf.configs, conf.addresses)
  BY DEF IndInv
<1>5. d.leave = "no" => /\ Found # 0
                        /\ d.fds[f].k # "client_connect"
  <2> SUFFICES ASSUME d.leave = "no" PROVE Found # 0 /\ d.fds[f].k # "client_connect"
    OBVIOUS
  <2>1. Tables(d) /\ Rejects(d)
    BY <1>4 DEF Good, Wf
  <2>2. Found # 0
    BY <1>3, <2>1 DEF Tables, Entry
  <2>3. d.fds[f].peer # "there"
    BY <1>1, <1>3, <2>1, <2>2 DEF Rejected, Rejects, Entry
  <2> QED BY <1>3, <2>1, <2>2, <2>3 DEF Rejects
<1> HIDE DEF f
<1>6. Good(s, mf.configs, conf.addresses)
  <2>1. CASE Found = 0
    <3>1. s = DisableFd(d, f) /\ d.leave # "no"
      BY <1>2, <1>5, <2>1 DEF CleanUp, f
    <3> DEFINE t == DisableFd(d, f)
    <3>2. t \in State /\ t.current = d.current /\ t.leave = d.leave
      BY <1>3, DisableFdIs
    <3> HIDE DEF t
    <3>3. Good(t, mf.configs, conf.addresses)
      BY <1>4, <3>1, <3>2 DEF Good
    <3> QED BY <3>1, <3>3 DEF t
  <2>2. CASE Found # 0 /\ EntryType = "tcp"
    <3>1. s \in CloseSocket(d, f)
      BY <1>2, <2>2 DEF CleanUp, f
    <3> QED BY <1>3, <1>4, <1>5, <3>1, CloseSocketGood
  <2>3. CASE Found # 0 /\ EntryType # "tcp"
    <3>1. s = Unregister(d, f)
      BY <1>2, <2>3 DEF CleanUp, f
    <3> QED BY <1>3, <1>4, <1>5, <3>1, UnregisterGood
  <2> QED BY <2>1, <2>2, <2>3
<1> QED BY <1>1, <1>2, <1>6, TurnInd

LEMMA HandleInputInd ==
  ASSUME IndInv, HandleInput
  PROVE  IndInv'
<1>1. idx # 0 /\ ~Rejected
  BY DEF HandleInput
<1>2. PICK s \in Callback(d, Entry.fd, EntryType) : Turn(s)
  BY DEF HandleInput
<1>3. /\ Entry.fd \in Fd /\ Found \in 1..Len(d.conns) /\ d.conns[Found].fd = Entry.fd
  BY <1>1, EntryIs DEF Rejected
<1>4. Good(d, mf.configs, conf.addresses) /\ Prepared
  BY PreparedIs DEF IndInv
<1>5. Good(s, mf.configs, conf.addresses)
  <2>1. s \in Callback(d, d.conns[Found].fd, d.conns[Found].type)
    BY <1>2, <1>3 DEF EntryType
  <2> QED BY <1>3, <1>4, <2>1, CallbackGood
<1> QED BY <1>1, <1>2, <1>5, TurnInd

LEMMA PollInd ==
  ASSUME IndInv, Poll
  PROVE  IndInv'
<1> DEFINE p == [i \in DOMAIN d.pfd |-> [d.pfd[i] EXCEPT !.ev = Revents(d.fds[d.pfd[i].fd])]]
           t == [d EXCEPT !.pfd = p]
<1>1. /\ d.leave = "no" /\ d' = t /\ idx' = FirstReady(p, 1) /\ conf' = conf /\ mf' = mf
  BY DEF Poll
<1>2. Good(d, mf.configs, conf.addresses) /\ d \in State
  BY DEF IndInv, Good
<1>3. /\ d.pfd \in Seq(PollFd) /\ Len(d.pfd) \in Nat /\ DOMAIN d.pfd = 1..Len(d.pfd)
      /\ \A i \in 1..Len(d.pfd) : d.pfd[i] \in PollFd /\ d.pfd[i].fd \in Fd
  BY <1>2, FieldTypes
<1>4. \A o : Revents(o) \in {"none", "in", "rejected"}
  BY DEF Revents
<1>5. \A i \in 1..Len(d.pfd) :
        LET e == [d.pfd[i] EXCEPT !.ev = Revents(d.fds[d.pfd[i].fd])]
        IN e \in PollFd /\ e.fd = d.pfd[i].fd /\ e.ev = Revents(d.fds[d.pfd[i].fd])
  BY <1>3, <1>4 DEF PollFd
<1>6. /\ p \in Seq(PollFd) /\ Len(p) = Len(d.pfd)
      /\ \A i \in 1..Len(d.pfd) : /\ p[i].fd = d.pfd[i].fd
                                  /\ p[i].ev = Revents(d.fds[d.pfd[i].fd])
  <2>1. p = [i \in 1..Len(d.pfd) |-> [d.pfd[i] EXCEPT !.ev = Revents(d.fds[d.pfd[i].fd])]]
    BY <1>3
  <2>2. \A i \in 1..Len(d.pfd) : /\ p[i] \in PollFd /\ p[i].fd = d.pfd[i].fd
                                 /\ p[i].ev = Revents(d.fds[d.pfd[i].fd])
    BY <1>5, <2>1
  <2>3. p \in [1..Len(d.pfd) -> PollFd]
    BY <2>1, <2>2
  <2> HIDE DEF p
  <2>4. p \in Seq(PollFd) /\ Len(p) = Len(d.pfd)
    BY <1>3, <2>3
  <2> QED BY <2>2, <2>4
<1> HIDE DEF p
<1>7. /\ t \in State /\ t.pfd = p /\ t.conns = d.conns /\ t.fds = d.fds
      /\ t.clients = d.clients /\ t.current = d.current /\ t.leave = d.leave
  BY <1>2, <1>6 DEF State
<1> HIDE DEF t
<1>8. Wf(d) /\ (conf.addresses = 1 => Enforced(d, mf.configs))
  BY <1>1, <1>2 DEF Good
<1>9. Wf(t)
  <2>1. Tables(t)
    <3>1. /\ Len(t.pfd) = Len(d.pfd) /\ t.conns = d.conns
          /\ \A i \in 1..Len(d.pfd) : t.pfd[i].fd = d.pfd[i].fd
      BY <1>6, <1>7
    <3>2. Tables(d)
      BY <1>8 DEF Wf
    <3>3. \A i, j \in 1..Len(t.pfd) : t.pfd[i].fd = t.pfd[j].fd => i = j
      BY <3>1, <3>2 DEF Tables
    <3>4. \A j \in 1..Len(t.pfd) : \E i \in 1..Len(t.conns) :
            t.conns[i].active /\ t.conns[i].fd = t.pfd[j].fd
      BY <3>1, <3>2 DEF Tables
    <3>5. \A i \in 1..Len(t.conns) : t.conns[i].active =>
            \E j \in 1..Len(t.pfd) : t.pfd[j].fd = t.conns[i].fd
      BY <3>1, <3>2 DEF Tables
    <3> QED BY <3>3, <3>4, <3>5 DEF Tables
  <2>2. Descriptors(t) /\ Counts(t)
    BY <1>7, <1>8 DEF Wf, Descriptors, HasDescriptor, Counts
  <2>3. \A f \in Fd : t.fds[f].k = "client_connect" => t.fds[f].peer = "there"
    BY <1>7, <1>8 DEF Wf, Rejects
  <2>4. ASSUME NEW j \in 1..Len(t.pfd), t.pfd[j].ev = "rejected"
        PROVE  t.fds[t.pfd[j].fd].peer # "there"
    <3> DEFINE f == d.pfd[j].fd
    <3>1. j \in 1..Len(d.pfd) /\ t.pfd[j].fd = f /\ Revents(d.fds[f]) = "rejected"
      BY <1>6, <1>7, <2>4
    <3>2. PICK i \in 1..Len(d.conns) : d.conns[i].fd = f
      BY <1>8, <3>1 DEF Wf, Tables
    <3>3. f \in Fd /\ d.fds[f].k = d.conns[i].type
      BY <1>3, <1>8, <3>1, <3>2, NoneIsNoFd DEF Wf, Descriptors, HasDescriptor
    <3>4. d.fds[f].k # "free"
      BY <1>2, <3>2, <3>3, FieldTypes DEF HasReceiver
    <3>5. d.fds[f].peer = "reset"
      BY <3>1, <3>4 DEF Revents
    <3> QED BY <1>7, <3>1, <3>5
  <2>5. Rejects(t)
    BY <2>3, <2>4 DEF Rejects
  <2> QED BY <2>1, <2>2, <2>5 DEF Wf
<1>10. Enforced(d, mf.configs) => Enforced(t, mf.configs)
  BY <1>7 DEF Enforced, AllowedBy, Listens
<1>11. Good(t, mf.configs, conf.addresses)
  BY <1>2, <1>7, <1>8, <1>9, <1>10 DEF Good
<1>12. FirstReady(p, 1) \in 0..Len(p)
  BY <1>6, FirstReadyIs
<1> QED BY <1>1, <1>7, <1>11, <1>12, NextInd

LEMMA EventInd ==
  ASSUME IndInv, NEW f \in Fd, NEW o \in Obj, SameKind(d, f, o), Event(f, o)
  PROVE  IndInv'
<1> DEFINE t == [d EXCEPT !.fds[f] = o]
<1>1. /\ Good(d, mf.configs, conf.addresses) /\ d \in State
      /\ idx \in 0..Len(d.pfd)
  BY DEF IndInv, Good
<1>2. d' = t /\ conf' = conf /\ mf' = mf /\ idx' = idx
  BY DEF Event
<1>3. Replaced(d, f, o, t)
  BY <1>1, ReplacedIs
<1> HIDE DEF t
<1>4. Good(t, mf.configs, conf.addresses)
  BY <1>1, <1>3, SameKindGood
<1>5. idx' \in 0..Len(t.pfd)
  BY <1>1, <1>2, <1>3 DEF Replaced
<1> QED BY <1>2, <1>4, <1>5, NextInd

LEMMA WorldInd ==
  ASSUME IndInv, World
  PROVE  IndInv'
<1>1. Good(d, mf.configs, conf.addresses) /\ d \in State
  BY DEF IndInv, Good
<1>2. ASSUME NEW f \in Fd, NEW in \in Input, d.fds[f].peer = "there"
      PROVE  LET o == [d.fds[f] EXCEPT !.in = in] IN o \in Obj /\ SameKind(d, f, o)
  <2>1. d.fds[f] \in Obj
    BY <1>1, FieldTypes
  <2> QED BY <1>2, <2>1 DEF Obj, SameKind
<1>3. ASSUME NEW f \in Fd, NEW how \in {"gone", "reset"}, d.fds[f].k # "client_connect"
      PROVE  LET o == [d.fds[f] EXCEPT !.peer = how] IN o \in Obj /\ SameKind(d, f, o)
  <2>1. d.fds[f] \in Obj
    BY <1>1, FieldTypes
  <2> QED BY <1>3, <2>1 DEF Obj, SameKind
<1>4. Data \in Input /\ \A l \in Levels : SetLevel(l) \in Input
  BY DEF Input
<1>5. CASE Dial
  <2>1. PICK f \in Fd : Waiting(d.fds[f]) /\ Event(f, [d.fds[f] EXCEPT !.in = Data])
    BY <1>5 DEF Dial
  <2> QED BY <1>2, <1>4, <2>1, EventInd DEF Waiting
<1>6. CASE Ask
  <2>1. PICK f \in Fd, l \in Levels :
          Waiting(d.fds[f]) /\ Event(f, [d.fds[f] EXCEPT !.in = SetLevel(l)])
    BY <1>6 DEF Ask
  <2> QED BY <1>2, <1>4, <2>1, EventInd DEF Waiting
<1>7. CASE HangUp
  <2>1. PICK f \in Fd, how \in {"gone", "reset"} :
          /\ d.fds[f].k \in {"tcp", "control"}
          /\ Event(f, [d.fds[f] EXCEPT !.peer = how])
    BY <1>7 DEF HangUp
  <2> QED BY <1>3, <2>1, EventInd
<1>8. CASE Unplug
  <2>1. PICK f \in Fd : d.fds[f].k = "serial" /\ Event(f, [d.fds[f] EXCEPT !.peer = "gone"])
    BY <1>8 DEF Unplug
  <2> QED BY <1>3, <2>1, EventInd
<1>9. CASE Signal
  <2> DEFINE t == [d EXCEPT !.leave = "exit"]
  <2>1. d' = t /\ conf' = conf /\ mf' = mf /\ idx' = idx
    BY <1>9 DEF Signal
  <2>2. Good(t, mf.configs, conf.addresses)
    BY <1>1, LeaveGood
  <2>3. t.pfd = d.pfd
    BY <1>1 DEF State
  <2> HIDE DEF t
  <2>4. idx' \in 0..Len(t.pfd)
    BY <2>1, <2>3 DEF IndInv
  <2> QED BY <2>1, <2>2, <2>4, NextInd
<1> QED BY <1>5, <1>6, <1>7, <1>8, <1>9 DEF World

-----------------------------------------------------------------------------
(* The start.                                                              *)

(* Before the sockets for clients are opened.                              *)
Starting(s, configs) ==
  /\ s \in State /\ s.current \in 1..Len(configs)
  /\ s.leave = "no" => Wf(s) /\ NoListener(s)

LEMMA StartWithIs ==
  ASSUME NEW configs, NEW k \in 1..Len(configs), k \in Nat
  PROVE  /\ Starting(StartWith(k), configs) /\ StartWith(k).clients = 0
         /\ StartWith(k).leave = "no"
<1> DEFINE s == StartWith(k)
<1>1. /\ s.conns = <<>> /\ s.pfd = <<>> /\ s.clients = 0 /\ s.current = k
      /\ s.fds = [f \in Fd |-> Free] /\ s.leave = "no"
  BY DEF StartWith
<1>2. s \in State
  BY ObjectIs DEF StartWith, State
<1> HIDE DEF s
<1>3. Len(s.conns) = 0 /\ Len(s.pfd) = 0 /\ 1..0 = {}
  BY <1>1
<1>4. \A f \in Fd : s.fds[f].k = "free"
  BY <1>1, ObjectIs
<1>5. Tables(s) /\ Descriptors(s) /\ Rejects(s) /\ NoListener(s)
  BY <1>3, <1>4 DEF Tables, Descriptors, Rejects, NoListener
<1>6. Counts(s)
  <2>1. CountedAt(s.conns) = {}
    BY <1>3 DEF CountedAt
  <2>2. Cardinality({}) = 0
    BY FS_EmptySet
  <2> QED BY <1>1, <2>1, <2>2 DEF Counts
<1>7. Starting(s, configs) /\ s.clients = 0 /\ s.leave = "no"
  BY <1>1, <1>2, <1>5, <1>6 DEF Starting, Wf
<1> QED BY <1>7 DEF s

LEMMA OpenStarting ==
  ASSUME NEW s, NEW configs, Starting(s, configs), NEW type \in {"filter", "app"}
  PROVE  LET t == OpenAndCreate(s, type, type, 0, "failed")
         IN  Starting(t, configs) /\ t.clients = s.clients
<1> DEFINE t == OpenAndCreate(s, type, type, 0, "failed")
<1>1. s \in State /\ type \in Kinds /\ type \in HasReceiver \ {"client_connect"}
      /\ type \notin Counted
  BY DEF Starting, Kinds, HasReceiver, Counted
<1>2. Kept(s, t) /\ t.clients = s.clients
  BY <1>1, OpenAndCreateKept
<1>3. ASSUME t.leave = "no" PROVE Wf(t) /\ NoListener(t)
  <2>1. s.leave = "no" /\ t \in State
    BY <1>2, <1>3 DEF Kept
  <2>2. Wf(s) /\ NoListener(s)
    BY <2>1 DEF Starting
  <2>3. PICK g : Created(s, g, type, 0, t)
    BY <1>1, <1>3, <2>2, OpenAndCreateIs
  <2>4. Wf(t)
    BY <2>3 DEF Created
  <2> HIDE DEF t
  <2> QED BY <1>1, <2>1, <2>2, <2>3, <2>4, CreatedElse
<1> HIDE DEF t
<1>4. Starting(t, configs)
  BY <1>2, <1>3 DEF Kept, Starting
<1> QED BY <1>2, <1>4 DEF t

LEMMA CreateTimerGood ==
  ASSUME NEW s, Good(s, mf.configs, conf.addresses)
  PROVE  Good(CreateTimer(s), mf.configs, conf.addresses)
<1> DEFINE f == LowestFree(s)
           o == Object("timer", 0)
           u == [s EXCEPT !.fds[f] = o]
           t == CreateTimer(s)
<1>0. s \in State
  BY DEF Good
<1>1. CASE f = None
  <2>1. t = s
    BY <1>0, <1>1 DEF CreateTimer, OpenAndCreate, State
  <2> QED BY <2>1 DEF t
<1>2. CASE f \in Fd /\ s.fds[f].k = "free"
  <2>1. t = u
    <3>1. "one_s" \notin HasReceiver
      BY DEF HasReceiver
    <3> QED BY <1>2, <3>1, NoneIsNoFd DEF CreateTimer, OpenAndCreate, ConnectionCreate
  <2>2. o \in Obj /\ o.k = "timer" /\ o.peer = "there"
    <3>1. "timer" \in Kinds
      BY DEF Kinds
    <3> QED BY <3>1, ObjectIs
  <2> HIDE DEF o, t, f
  <2>3. Replaced(s, f, o, u)
    BY <1>0, <1>2, <2>2, ReplacedIs
  <2> HIDE DEF u
  <2>4. Kept(s, u) /\ u.leave = s.leave
    BY <2>3 DEF Replaced, Kept
  <2>5. ASSUME s.leave = "no" PROVE Wf(u) /\ (conf.addresses = 1 => Enforced(u, mf.configs))
    <3>1. Wf(s) /\ (conf.addresses = 1 => Enforced(s, mf.configs))
      BY <2>5 DEF Good
    <3>2. Wf(u)
      BY <1>0, <1>2, <2>2, <2>3, <3>1, OpenedWf
    <3> QED BY <1>0, <1>2, <2>2, <2>3, <3>1, <3>2, ReplacedEnforced
  <2>6. Good(u, mf.configs, conf.addresses)
    BY <2>4, <2>5, KeptIsGood
  <2> QED BY <2>1, <2>6 DEF t
<1> QED BY <1>1, <1>2, LowestFreeIs

LEMMA InitClientSocketsGood ==
  ASSUME Prepared, NEW s, Starting(s, mf.configs)
  PROVE  Good(InitClientSockets(s), mf.configs, conf.addresses)
<1> DEFINE n == conf.addresses
           D == 1..n
           V == {t \in State : t.current = s.current /\ (t.leave = "no" => Wf(t))}
           ch == MaxOf(n)
           Open(t, a) == OpenAndCreate(t, "client_connect", "client_connect", a, "failed")
           Folded(g) == g = [A \in SUBSET D |->
                               IF A = {} THEN s
                               ELSE Open(g[A \ {Max(A)}], [i \in D |-> i][Max(A)])]
           value == InitClientSockets(s)
<1>0. n \in Nat /\ D # {} /\ DOMAIN [i \in D |-> i] = D /\ (n = 1 => D = {1})
  BY DEF Prepared
<1>1. IsFiniteSet(D) /\ Chooses(ch, D) /\ \A A \in SUBSET D : ch[A] = Max(A)
  BY <1>0, MaxOfChooses DEF MaxOf
<1>2. /\ s \in V /\ s \in State /\ s.current \in 1..Len(mf.configs)
      /\ s.leave = "no" => Wf(s) /\ NoListener(s)
  BY DEF Starting
<1>3. CASE ~Allowed(s, "client_connect")
  <2>1. value = s
    BY <1>3 DEF InitClientSockets
  <2>2. ASSUME NoListener(s) PROVE Enforced(s, mf.configs)
    BY <1>3, <2>2, AllowedIs DEF NoListener, Enforced
  <2> HIDE DEF value
  <2>3. Good(value, mf.configs, conf.addresses)
    BY <1>2, <2>1, <2>2 DEF Good
  <2> QED BY <2>3 DEF value
<1>4. CASE Allowed(s, "client_connect")
  <2>1. "client_connect" \in HasReceiver /\ "client_connect" \in Kinds
    BY DEF HasReceiver, Kinds
  <2>2. \A x \in D : \A v \in V : Open(v, x) \in V
    <3> SUFFICES ASSUME NEW x \in D, NEW v \in V PROVE Open(v, x) \in V
      OBVIOUS
    <3> DEFINE t == Open(v, x)
    <3>1. v \in State /\ x \in Nat /\ v.current = s.current /\ (v.leave = "no" => Wf(v))
      OBVIOUS
    <3>2. Allowed(v, "client_connect")
      BY <1>4, <3>1, ReopenedAllowed
    <3>3. Kept(v, t)
      BY <2>1, <3>1, OpenAndCreateKept
    <3>4. t.leave = "no" => Wf(t)
      <4> SUFFICES ASSUME t.leave = "no" PROVE Wf(t)
        OBVIOUS
      <4>1. v.leave = "no"
        BY <3>3 DEF Kept
      <4>2. \E f : Created(v, f, "client_connect", x, t)
        BY <2>1, <3>1, <3>2, <4>1, OpenAndCreateIs
      <4> QED BY <4>2 DEF Created
    <3> HIDE DEF t
    <3>5. t \in V
      BY <3>1, <3>3, <3>4 DEF Kept
    <3> QED BY <3>5 DEF t
  <2>3. value = (CHOOSE g : Folded(g))[D]
    BY <1>0, <1>4 DEF InitClientSockets, FoldLeft, MapThenFoldSet
  <2>4. \A x \in D : [i \in D |-> i][x] = x
    OBVIOUS
  <2> HIDE DEF n, D, V, ch, value, Open
  <2>5. \E g : Folded(g)
    <3> DEFINE F == [p \in D \X V |-> Open(p[2], p[1])]
    <3>1. PICK g : FoldsTo(g, D, s, ch, F)
      <4> HIDE DEF F
      <4> QED BY <1>1, FoldExists
    <3>2. \A x \in D : \A v \in V : F[<<x, v>>] = Open(v, x)
      OBVIOUS
    <3> HIDE DEF F
    <3>3. ASSUME NEW A \in SUBSET D, A # {}, g[A \ {ch[A]}] \in V
          PROVE  /\ g[A] \in V
                 /\ g[A] = Open(g[A \ {Max(A)}], [i \in D |-> i][Max(A)])
      <4>1. ch[A] = Max(A) /\ ch[A] \in D /\ g[A] = F[<<ch[A], g[A \ {ch[A]}]>>]
        BY <1>1, <3>1, <3>3 DEF Chooses, FoldsTo
      <4>2. g[A] = Open(g[A \ {Max(A)}], Max(A))
        BY <3>2, <3>3, <4>1
      <4>3. [i \in D |-> i][Max(A)] = Max(A)
        BY <2>4, <4>1
      <4> QED BY <2>2, <3>3, <4>1, <4>2, <4>3
    <3>4. g[{}] = s
      BY <3>1 DEF FoldsTo
    <3>5. \A A \in SUBSET D : g[A] \in V
      BY <1>1, <1>2, <3>3, <3>4, FoldStays
    <3>6. \A A \in SUBSET D :
            g[A] = IF A = {} THEN s
                   ELSE Open(g[A \ {Max(A)}], [i \in D |-> i][Max(A)])
      <4> SUFFICES ASSUME NEW A \in SUBSET D, A # {}
                   PROVE  g[A] = Open(g[A \ {Max(A)}], [i \in D |-> i][Max(A)])
        BY <3>4
      <4>1. A \ {ch[A]} \in SUBSET D
        OBVIOUS
      <4> QED BY <3>3, <3>5, <4>1
    <3>7. Folded(g)
      BY <3>1, <3>6 DEF FoldsTo
    <3> QED BY <3>7
  <2>6. ASSUME NEW g, Folded(g)
        PROVE  g[D] \in V /\ (n = 1 => g[D] = Open(s, 1))
    <3>1. g[{}] = s
      BY <2>6
    <3>2. ASSUME NEW A \in SUBSET D, A # {}
          PROVE  /\ g[A] = Open(g[A \ {ch[A]}], ch[A]) /\ ch[A] = Max(A)
                 /\ ch[A] \in A /\ ch[A] \in D
      <4>1. ch[A] = Max(A) /\ ch[A] \in A /\ ch[A] \in D
        BY <1>1, <3>2 DEF Chooses
      <4>2. g[A] = Open(g[A \ {Max(A)}], [i \in D |-> i][Max(A)])
        BY <2>6, <3>2
      <4>3. [i \in D |-> i][Max(A)] = Max(A)
        BY <2>4, <4>1
      <4> QED BY <4>1, <4>2, <4>3
    <3> HIDE DEF Folded
    <3>3. ASSUME NEW A \in SUBSET D, A # {}, g[A \ {ch[A]}] \in V PROVE g[A] \in V
      BY <2>2, <3>2, <3>3
    <3>4. \A A \in SUBSET D : g[A] \in V
      BY <1>1, <1>2, <3>1, <3>3, FoldStays
    <3>5. ASSUME n = 1 PROVE g[D] = Open(s, 1)
      <4>1. D = {1} /\ ch[D] = 1 /\ D \ {ch[D]} = {}
        BY <1>0, <3>2, <3>5
      <4> QED BY <3>1, <3>2, <4>1
    <3> QED BY <3>4, <3>5
  <2> HIDE DEF Folded
  <2>7. value \in V /\ (n = 1 => value = Open(s, 1))
    BY <2>3, <2>5, <2>6
  <2>8. /\ value \in State /\ value.current \in 1..Len(mf.configs)
        /\ value.leave = "no" => Wf(value)
    BY <1>2, <2>7 DEF V
  <2>9. ASSUME value.leave = "no", conf.addresses = 1 PROVE Enforced(value, mf.configs)
    <3>1. value = OpenAndCreate(s, "client_connect", "client_connect", 1, "failed")
      BY <2>7, <2>9 DEF n, Open
    <3>2. s.leave = "no"
      BY <1>2, <2>1, <2>9, <3>1, OpenAndCreateKept DEF Kept
    <3>3. PICK f : Created(s, f, "client_connect", 1, value)
      BY <1>2, <1>4, <2>1, <2>9, <3>1, <3>2, OpenAndCreateIs
    <3> QED BY <1>2, <1>4, <2>8, <3>2, <3>3, CreatedListener
  <2>10. Good(value, mf.configs, conf.addresses)
    BY <2>8, <2>9 DEF Good
  <2> QED BY <2>10 DEF value
<1>5. Allowed(s, "client_connect") \in BOOLEAN
  BY AllowedIsBoolean
<1> QED BY <1>3, <1>4, <1>5

LEMMA StartedGood ==
  ASSUME Prepared
  PROVE  Good(Started, mf.configs, conf.addresses)
<1> DEFINE k == Covering(mf.configs, mf.default)
           G(s) == Good(s, mf.configs, conf.addresses)
           s1 == StartWith(k)
           s2 == InitBackend(s1)
           s3 == InitFifo(s2)
           s4 == InitClientSockets(s3)
           s5 == InitControl(s4)
           s6 == InitSerial(s5)
<1>1. k \in 1..Len(mf.configs) /\ k \in Nat
  BY DEF Prepared
<1> HIDE DEF k
<1>2. Starting(s1, mf.configs) /\ s1.clients = 0
  BY <1>1, StartWithIs
<1> HIDE DEF s1
<1>3. Starting(s2, mf.configs) /\ s2.clients = 0
  BY <1>2, OpenStarting DEF InitBackend
<1> HIDE DEF s2
<1>4. Starting(s3, mf.configs)
  <2> DEFINE t == OpenAndCreate(s2, "app", "app", 0, "failed")
  <2>1. Starting(t, mf.configs) /\ t.clients = 0
    BY <1>3, OpenStarting
  <2>2. s3 = [t EXCEPT !.clients = 0]
    BY DEF InitFifo
  <2> HIDE DEF t, s3
  <2>3. s3 = t
    BY <2>1, <2>2 DEF Starting, State
  <2> QED BY <2>1, <2>3
<1> HIDE DEF s3
<1>5. G(s4)
  BY <1>4, InitClientSocketsGood
<1> HIDE DEF s4
<1>6. {"control_connect", "serial"} \subseteq HasReceiver \ {"client_connect"}
  BY DEF HasReceiver
<1>7. G(s5)
  BY <1>5, <1>6, OpenGood DEF InitControl
<1> HIDE DEF s5
<1>8. G(s6)
  BY <1>6, <1>7, OpenGood DEF InitSerial
<1> HIDE DEF s6
<1>9. G(CreateTimer(s6))
  BY <1>8, CreateTimerGood
<1>10. Started = CreateTimer(s6)
  BY DEF Started, s6, s5, s4, s3, s2, s1, k
<1> QED BY <1>9, <1>10

LEMMA InitInd ==
  ASSUME Init
  PROVE  IndInv
<1>1. conf \in Conf /\ mf = PrepareMessageFilter(conf.lines) /\ idx = 0
  BY DEF Init
<1>2. Prepared
  BY <1>1, PreparedIs
<1>3. Good(d, mf.configs, conf.addresses)
  <2>1. CASE mf.ok
    BY <1>2, <2>1, StartedGood DEF Init
  <2>2. CASE ~mf.ok
    <3>1. d = Leave(StartWith(1))
      BY <2>2 DEF Init
    <3> DEFINE s == StartWith(1)
    <3>2. Starting(s, mf.configs)
      BY <1>2, StartWithIs DEF Prepared
    <3> HIDE DEF s
    <3>3. s \in State /\ s.current \in 1..Len(mf.configs)
      BY <3>2 DEF Starting
    <3> DEFINE t == [s EXCEPT !.leave = "failed"]
    <3>4. Kept(s, t) /\ t.leave = "failed"
      BY <3>3, LeavingIs
    <3> HIDE DEF t
    <3>5. Good(t, mf.configs, conf.addresses)
      BY <3>3, <3>4 DEF Good, Kept
    <3> QED BY <3>1, <3>5 DEF Leave, s, t
  <2> QED BY <2>1, <2>2
<1>4. idx \in 0..Len(d.pfd)
  BY <1>1, <1>3, FieldTypes DEF Good
<1> QED BY <1>1, <1>3, <1>4 DEF IndInv

(* In every state the structures of the daemon fit together, unless it is  *)
(* leaving.                                                                *)
THEOREM Invariance == Spec => []IndInv
<1>1. Init => IndInv
  BY InitInd
<1>2. IndInv /\ [Next]_vars => IndInv'
  <2> SUFFICES ASSUME IndInv, [Next]_vars PROVE IndInv'
    OBVIOUS
  <2>1. CASE World
    BY <2>1, WorldInd
  <2>2. CASE Poll
    BY <2>2, PollInd
  <2>3. CASE HandleRejected
    BY <2>3, HandleRejectedInd
  <2>4. CASE HandleInput
    BY <2>4, HandleInputInd
  <2>5. CASE UNCHANGED vars
    <3>1. Good(d, mf.configs, conf.addresses) /\ idx \in 0..Len(d.pfd)
      BY DEF IndInv
    <3>2. d' = d /\ idx' = idx /\ UNCHANGED <<conf, mf>>
      BY <2>5 DEF vars
    <3> QED BY <3>1, <3>2, NextInd
  <2> QED BY <2>1, <2>2, <2>3, <2>4, <2>5 DEF Next, Loop
<1> QED BY <1>1, <1>2, PTL DEF Spec

-----------------------------------------------------------------------------
(* What the runs check.                                                    *)

LEMMA TableMatches ==
  ASSUME d \in State, Wf(d)
  PROVE  /\ WatchedFds = FdsOf(ActiveConnections)
         /\ Len(d.pfd) = Cardinality(ActiveConnections)
<1> DEFINE n == Len(d.pfd)
           A == ActiveConnections
           On(j, i) == d.conns[i].fd = d.pfd[j].fd
<1>1. /\ n \in Nat /\ Len(d.conns) \in Nat
      /\ DOMAIN d.pfd = 1..n /\ DOMAIN d.conns = 1..Len(d.conns)
      /\ \A j \in 1..n : d.pfd[j].fd \in Fd
  BY FieldTypes
<1>2. A = {i \in 1..Len(d.conns) : d.conns[i].active}
  BY <1>1 DEF ActiveConnections
<1>3. /\ \A i, j \in 1..n : d.pfd[i].fd = d.pfd[j].fd => i = j
      /\ \A j \in 1..n : \E i \in A : On(j, i)
      /\ \A i \in A : \E j \in 1..n : On(j, i)
  BY <1>2 DEF Wf, Tables
<1>4. \A i, j \in A : d.conns[i].fd = d.conns[j].fd /\ d.conns[i].fd # None => i = j
  BY <1>2 DEF Wf, Descriptors
<1>5. WatchedFds = FdsOf(A)
  BY <1>1, <1>3 DEF WatchedFds, FdsOf
<1> HIDE DEF n, A
<1> DEFINE h == [j \in 1..n |-> CHOOSE i \in A : On(j, i)]
<1>6. \A j \in 1..n : h[j] \in A /\ On(j, h[j])
  BY <1>3
<1>7. h \in [1..n -> A]
  BY <1>6
<1>8. ASSUME NEW i \in 1..n, NEW j \in 1..n, h[i] = h[j] PROVE i = j
  <2>1. d.pfd[i].fd = d.pfd[j].fd
    BY <1>6, <1>8
  <2> QED BY <1>3, <2>1
<1>9. ASSUME NEW i \in A PROVE \E j \in 1..n : h[j] = i
  <2>1. PICK j \in 1..n : On(j, i)
    BY <1>3
  <2>2. On(j, h[j]) /\ h[j] \in A /\ d.pfd[j].fd # None
    BY <1>1, <1>6, NoneIsNoFd
  <2> QED BY <1>4, <2>1, <2>2
<1>10. IsFiniteSet(1..n) /\ Cardinality(1..n) = n
  BY <1>1, FS_Interval
<1> HIDE DEF h
<1>11. Cardinality(A) = Cardinality(1..n)
  BY <1>7, <1>8, <1>9, <1>10, SameSize
<1> QED BY <1>5, <1>10, <1>11 DEF n, A

LEMMA DescriptorsDiffer ==
  ASSUME d \in State, Wf(d)
  PROVE  Cardinality(FdsOf(DOMAIN d.conns) \ {None})
           = Cardinality({i \in DOMAIN d.conns : d.conns[i].fd # None})
<1> DEFINE S == {i \in DOMAIN d.conns : d.conns[i].fd # None}
           T == FdsOf(DOMAIN d.conns) \ {None}
           h == [i \in S |-> d.conns[i].fd]
<1>1. Len(d.conns) \in Nat /\ DOMAIN d.conns = 1..Len(d.conns)
  BY FieldTypes
<1>2. S \in SUBSET (1..Len(d.conns))
  BY <1>1
<1>3. IsFiniteSet(S)
  BY <1>1, <1>2, CountedFinite
<1>4. h \in [S -> T]
  BY DEF FdsOf
<1>5. \A x, y \in S : h[x] = h[y] => x = y
  BY <1>1 DEF Wf, Descriptors
<1>6. \A y \in T : \E x \in S : h[x] = y
  BY DEF FdsOf
<1> HIDE DEF S, T, h
<1>7. Cardinality(T) = Cardinality(S)
  BY <1>3, <1>4, <1>5, <1>6, SameSize
<1> QED BY <1>7 DEF S, T

LEMMA TableIsOk ==
  ASSUME IndInv
  PROVE  PollTableOk
<1> SUFFICES ASSUME d.leave = "no" PROVE PollTableOk
  BY DEF PollTableOk
<1>1. d \in State /\ Wf(d)
  BY DEF IndInv, Good
<1>2. /\ WatchedFds = FdsOf(ActiveConnections)
      /\ Len(d.pfd) = Cardinality(ActiveConnections)
  BY <1>1, TableMatches
<1>3. DOMAIN d.conns = 1..Len(d.conns)
  BY <1>1, FieldTypes
<1>4. \A i \in DOMAIN d.conns :
        \/ d.conns[i].fd = None /\ d.conns[i].type = "client_connect"
        \/ d.conns[i].fd \in Fd /\ d.fds[d.conns[i].fd].k = d.conns[i].type
  BY <1>1, <1>3 DEF Wf, Descriptors, HasDescriptor
<1>5. Cardinality(FdsOf(DOMAIN d.conns) \ {None})
        = Cardinality({i \in DOMAIN d.conns : d.conns[i].fd # None})
  BY <1>1, DescriptorsDiffer
<1>6. Connected(Counted) = CountedAt(d.conns)
  BY <1>3 DEF Connected, CountedAt
<1>7. d.clients = Cardinality(Connected(Counted))
  BY <1>1, <1>6 DEF Wf, Counts
<1> QED BY <1>2, <1>4, <1>5, <1>7 DEF PollTableOk

LEMMA LevelEnforced ==
  ASSUME IndInv
  PROVE  LevelIsEnforced
<1> SUFFICES ASSUME d.leave = "no", conf.addresses = 1 PROVE LevelIsEnforced
  BY DEF LevelIsEnforced
<1>1. d \in State /\ Wf(d) /\ Enforced(d, mf.configs)
  BY DEF IndInv, Good
<1> DEFINE open == Allowed(d, "client_connect")
           n == Len(d.conns)
           Serves(i) == i \in 1..n /\ Listens(d, i) /\ d.conns[i].active
<1>2. open <=> \E i : Serves(i)
  <2>1. open <=> AllowedBy(mf.configs, d, "client_connect")
    BY AllowedIs
  <2> QED BY <1>1, <2>1 DEF Enforced
<1>3. ASSUME NEW i, Serves(i)
      PROVE  /\ d.conns[i].fd \in Fd /\ d.fds[d.conns[i].fd].k = "client_connect"
             /\ d.fds[d.conns[i].fd].addr = 1 /\ d.conns[i].fd \in WatchedFds
  <2>1. HasDescriptor(d, i)
    BY <1>1, <1>3 DEF Wf, Descriptors
  <2>2. d.conns[i].fd \in Fd /\ d.fds[d.conns[i].fd].k = "client_connect"
    BY <1>3, <2>1 DEF HasDescriptor, Listens
  <2>3. d.fds[d.conns[i].fd].addr = 1
    BY <1>1, <2>2 DEF Enforced
  <2>4. \E j \in 1..Len(d.pfd) : d.pfd[j].fd = d.conns[i].fd
    BY <1>1, <1>3 DEF Wf, Tables
  <2>5. DOMAIN d.pfd = 1..Len(d.pfd)
    BY <1>1, FieldTypes
  <2> QED BY <2>2, <2>3, <2>4, <2>5 DEF WatchedFds
<1>4. ASSUME NEW f \in Fd, d.fds[f].k = "client_connect" PROVE \E i : Serves(i)
  <2>1. PICK i \in 1..n : d.conns[i].fd = f /\ d.conns[i].active
    BY <1>1, <1>4 DEF Enforced
  <2>2. HasDescriptor(d, i) /\ f # None
    BY <1>1, <1>4, NoneIsNoFd DEF Wf, Descriptors
  <2>3. Listens(d, i)
    BY <1>4, <2>1, <2>2 DEF HasDescriptor, Listens
  <2> QED BY <2>1, <2>3
<1>5. \A f \in WatchedFds : f \in Fd
  <2>1. DOMAIN d.pfd = 1..Len(d.pfd) /\ \A j \in 1..Len(d.pfd) : d.pfd[j].fd \in Fd
    BY <1>1, FieldTypes
  <2> QED BY <2>1 DEF WatchedFds
<1> HIDE DEF Serves, open
<1>6. AddressInUse(d, 1) <=> open
  BY <1>2, <1>3, <1>4 DEF AddressInUse
<1>7. open <=> \E f \in WatchedFds : d.fds[f].k = "client_connect"
  BY <1>2, <1>3, <1>4, <1>5
<1> QED BY <1>6, <1>7 DEF LevelIsEnforced, open

LEMMA FilterSound ==
  ASSUME IndInv
  PROVE  FilterIsSound
<1> DEFINE L == Range(conf.lines)
           q == mf.configs
           n == Len(mf.configs)
           cur == Current(d)
<1>1. conf.lines \in Seq(L) /\ LevelMax \in Nat
  BY EventLoopAssumption, MessageFilterAssumption DEF IndInv
<1>2. q \in AllLevels(L) /\ mf.injections \in Seq(InjectionOf(L))
  BY <1>1, PrepareIs DEF IndInv
<1>3. q \in Seq(Filter(L)) /\ Divided(q) /\ q # <<>> /\ q[n].max = LevelMax
  BY <1>2 DEF AllLevels, Divisions
<1>4. DOMAIN q = 1..n /\ n \in Nat
  BY <1>3
<1>5. LevelsDivided
  <2>1. Last(q) = q[n]
    BY DEF Last
  <2> QED BY <1>3, <1>4, <2>1 DEF LevelsDivided, Divided
<1>6. cur \in Filter(L)
  <2>1. d.current \in 1..n
    BY DEF IndInv, Good
  <2> QED BY <1>3, <2>1, ElementOfSeq DEF Current
<1>7. \E k \in Nat : cur.injections # Star => DOMAIN cur.injections = 1..k
  <2>1. cur.injections \in DataOf(L, "Injections") \cup {<<>>}
    BY <1>6 DEF Filter
  <2>2. CASE cur.injections = <<>>
    <3>1. DOMAIN cur.injections = 1..0
      BY <2>2
    <3> QED BY <3>1
  <2>3. CASE cur.injections \in DataOf(L, "Injections")
    <3>1. PICK l \in L : l.k = "data" /\ l.key = "Injections" /\ cur.injections = l.data
      BY <2>3 DEF DataOf, DataLines
    <3>2. l.data = Star \/ l.data \in Seq(Range(l.data))
      BY <3>1, EventLoopAssumption DEF IndInv
    <3>3. CASE l.data \in Seq(Range(l.data))
      <4>1. Len(l.data) \in Nat /\ DOMAIN l.data = 1..Len(l.data)
        BY <3>3
      <4> QED BY <3>1, <4>1
    <3> QED BY <3>1, <3>2, <3>3
  <2> QED BY <2>1, <2>2, <2>3
<1>8. PICK k \in Nat : cur.injections # Star => DOMAIN cur.injections = 1..k
  BY <1>7
<1> HIDE DEF cur
<1>9. ASSUME NEW m \in conf.injections, IsInjectionAllowed(cur, mf.injections, m)
      PROVE  cur.injections = Star
             \/ \E i \in DOMAIN cur.injections : ListedUnder(cur.injections[i], m)
  BY <1>2, <1>8, <1>9, InjectionsListed
<1> QED BY <1>5, <1>9 DEF FilterIsSound, cur

(* Through every callback that adds, closes, switches off and on while     *)
(* mct_daemon_handle_event walks over its table: poll() watches exactly    *)
(* the active connections, each once, every connection has a descriptor of *)
(* its own and kind, and client_connections counts the clients there are.  *)
THEOREM PollTableOkCorrect == Spec => []PollTableOk
BY Invariance, TableIsOk, PTL

(* With one address, a client can connect exactly while the filter of the  *)
(* current level allows it, whichever message, backend or start set it     *)
(* (mct_daemon_filter_change_filter_level).                                *)
THEOREM LevelIsEnforcedCorrect == Spec => []LevelIsEnforced
BY Invariance, LevelEnforced, PTL

(* Whatever the sections of the file and their order, the filters divide   *)
(* the levels among them (mct_daemon_insert_filter), and an injection      *)
(* passes only when an entry that the current filter names lists it        *)
(* (mct_daemon_filter_is_injection_allowed).                               *)
THEOREM FilterIsSoundCorrect == Spec => []FilterIsSound
BY Invariance, FilterSound, PTL
=============================================================================
