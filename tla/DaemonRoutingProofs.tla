------------------------ MODULE DaemonRoutingProofs ------------------------
(***************************************************************************)
(* Proofs about the routing of messages to clients, for every set of       *)
(* clients, every capacity of the ring buffer and any number of events.    *)
(*                                                                         *)
(* The call stack is read from its bottom: the handler that the event loop *)
(* called is at position 1, the running call at position Depth.  A step    *)
(* changes the stack at its top only, so what is known of the callers      *)
(* carries over.                                                           *)
(***************************************************************************)
EXTENDS DaemonRouting, SequenceTheorems, FiniteSetTheorems, TLAPS

From(s, j) == s[Len(s) + 1 - j]
Depth == Len(calls)
At(j) == From(calls, j)

Ops == {"client_send", "store", "send_all", "send_force", "forced", "drained",
        "send_ringbuffer", "update_overflow", "update_reported", "connected",
        "first_client", "user_overflow", "reported", "close_socket"}
Frame == {f \in [op : Ops, msg : Message \cup Client, i : Nat, sent : BOOLEAN] :
            /\ f.op # "close_socket" => f.msg \in Message
            /\ f.op \in {"send_all", "send_force"} => f.i >= 1}

-----------------------------------------------------------------------------
(* The inductive invariant: types, the callers that a call may have, and   *)
(* what the daemon is doing.                                               *)

Buffers == {"BUFFER", "BUFFER_FULL"}
Types ==
  /\ state \in States /\ ret \in Results
  /\ pfd \in Seq(Client) /\ IsInjective(pfd)
  /\ ring \in Seq(Message) /\ Len(ring) <= Capacity
  /\ overflow_counter \in Nat /\ overflow_cnt \in {0, 1}
  /\ connectionState \in {0, 1}
  /\ broken \subseteq Range(pfd)
  /\ events \in 0 .. MaxEvents /\ connects \in 0 .. MaxConnects
  /\ received \in [Client -> Seq(Nat)]
  /\ lost \in Nat /\ reported \in Nat
  /\ calls \in Seq(Frame)

(* Which call is where: the ends of handlers are at the bottom, a loop over*)
(* the poll table is run by the mct_daemon_client_send that stores or      *)
(* reports after it, and at most one overflow report is under way.         *)
Placed(j) ==
  /\ At(j).op \in {"first_client", "user_overflow", "connected"} => j = 1
  /\ At(j).op \in {"update_overflow", "update_reported"} =>
       j = 2 /\ At(1).op = "connected"
  /\ At(j).op = "close_socket" => j = Depth /\ At(j).msg \in Range(pfd)
  /\ At(j).op = "send_all" =>
       j >= 2 /\ At(j - 1).op = "store" /\ At(j - 1).msg = At(j).msg
  /\ At(j).op = "reported" =>
       /\ overflow_cnt = 1
       /\ \A k \in 1 .. Depth : At(k).op = "reported" => k = j
Places == \A j \in 1 .. Depth : Placed(j)

Sends == {"client_send", "store"}
DrainOps == {"send_ringbuffer", "send_force", "forced", "drained"}
NoDrain == \A j \in 1 .. Depth : At(j).op \notin DrainOps
Updating == At(1).op = "connected" /\ At(2).op = "update_overflow"

(* Clients are connected and the ring buffer is empty.                     *)
Direct ==
  /\ state = "SEND_DIRECT" /\ pfd # <<>> /\ ring = <<>>
  /\ connectionState = 1 /\ NoDrain

(* The first client has been accepted.                                     *)
First ==
  /\ Len(pfd) = 1 /\ state \in Buffers
  /\ Depth \in 1 .. 2 /\ At(1).op = "first_client"
  /\ Depth = 2 => At(2).op \in Sends /\ At(2).msg = Internal

(* The ring buffer is being drained to the first client: between two       *)
(* messages, and while the head of the ring buffer is sent, has been sent, *)
(* is followed by an overflow report, or turns out not to be sendable.     *)
NextHead ==
  Depth = 3 /\ Updating /\ At(3).op = "send_ringbuffer" /\ state = "SEND_BUFFER"
HeadCalls ==
  \/ Depth = 3 /\ ret = "OK"
  \/ Depth = 4 /\ At(4).op = "forced" /\ ret = "OK"
  \/ Depth = 4 /\ At(4).op = "reported"
  \/ /\ Depth = 5 /\ At(4).op = "reported"
     /\ At(5).op \in Sends /\ At(5).msg.kind = "overflow"
  \/ /\ Depth = 5 /\ At(4).op = "forced" /\ At(5).op = "send_force"
     /\ At(5).msg = Head(ring)
     /\ IF At(5).sent THEN At(5).i = 2 ELSE At(5).i = 1
  \/ /\ Depth = 6 /\ At(4).op = "forced" /\ At(5).op = "send_force"
     /\ ~At(5).sent /\ At(5).i = 2 /\ At(6).op = "close_socket"
Drain ==
  /\ Len(pfd) = 1 /\ connectionState = 1
  /\ state \in {"SEND_BUFFER", "BUFFER_FULL"}
  /\ NextHead \/ (ring # <<>> /\ Updating /\ At(3).op = "drained" /\ HeadCalls)

(* The drain was cut short: its callers give up one after the other.       *)
CutShort ==
  /\ Depth \in 3 .. 7 /\ Updating /\ At(3).op = "drained"
  /\ Depth \in {3, 4} => ret # "OK"
  /\ Depth >= 4 => At(4).op = "forced"
  /\ Depth >= 5 => At(5).op = "send_force" /\ At(5).i = 2 /\ ~At(5).sent
  /\ Depth >= 6 => At(6).op \in Sends
  /\ Depth = 7 => At(7).op \in Sends
NoClient == pfd = <<>> /\ state \in Buffers /\ (NoDrain \/ CutShort)

Structure == Types /\ Places /\ (Direct \/ First \/ Drain \/ NoClient)

-----------------------------------------------------------------------------
(* The stack.                                                              *)

(* What the last steps of a handler do to the stack: the running call      *)
(* returns, goes on as f, or goes on as g after a call f (and g2 after g). *)
Kept(n) == \A j \in 1 .. n : From(calls', j) = At(j)
Returned == Depth' = Depth - 1 /\ Kept(Depth - 1)
Continued(f) ==
  Depth' = Depth /\ Kept(Depth - 1) /\ From(calls', Depth) = f
Called(f, g) ==
  /\ Depth' = Depth + 1 /\ Kept(Depth - 1)
  /\ From(calls', Depth) = g /\ From(calls', Depth + 1) = f
CalledTwo(f, g, h) ==
  /\ Depth' = Depth + 2 /\ Kept(Depth - 1)
  /\ From(calls', Depth) = h /\ From(calls', Depth + 1) = g
  /\ From(calls', Depth + 2) = f

LEMMA FrameAt ==
  ASSUME NEW S, NEW s \in Seq(S)
  PROVE  /\ Len(s) \in Nat
         /\ \A j \in 1 .. Len(s) : From(s, j) \in S
         /\ s # <<>> => /\ Len(s) >= 1 /\ Head(s) = From(s, Len(s))
                        /\ Tail(s) \in Seq(S) /\ Len(Tail(s)) = Len(s) - 1
                        /\ \A j \in 1 .. Len(s) - 1 : From(Tail(s), j) = From(s, j)
         /\ s = <<>> => Len(s) = 0
<1>1. /\ Len(s) \in Nat
      /\ \A j \in 1 .. Len(s) : s[j] \in S
  BY ElementOfSeq, LenProperties
<1>2. \A j \in 1 .. Len(s) : From(s, j) \in S
  <2> TAKE j \in 1 .. Len(s)
  <2>1. Len(s) + 1 - j \in 1 .. Len(s)
    BY <1>1
  <2> QED BY <1>1, <2>1 DEF From
<1>3. ASSUME s # <<>>
      PROVE  /\ Len(s) >= 1 /\ Head(s) = From(s, Len(s))
             /\ Tail(s) \in Seq(S) /\ Len(Tail(s)) = Len(s) - 1
             /\ \A j \in 1 .. Len(s) - 1 : From(Tail(s), j) = From(s, j)
  <2>1. Len(s) >= 1
    BY <1>3, EmptySeq
  <2>2. /\ Tail(s) \in Seq(S) /\ Len(Tail(s)) = Len(s) - 1
        /\ \A i \in 1 .. Len(s) - 1 : Tail(s)[i] = s[i + 1]
    BY <1>3, HeadTailProperties
  <2>3. Head(s) = s[1]
    BY <1>3
  <2>4. Head(s) = From(s, Len(s))
    BY <2>1, <2>3, <1>1 DEF From
  <2>5. ASSUME NEW j \in 1 .. Len(s) - 1 PROVE From(Tail(s), j) = From(s, j)
    <3>1. /\ Len(s) - 1 + 1 - j \in 1 .. Len(s) - 1
          /\ (Len(s) - 1 + 1 - j) + 1 = Len(s) + 1 - j
      BY <1>1
    <3> QED BY <3>1, <2>2 DEF From
  <2> QED BY <2>1, <2>2, <2>4, <2>5
<1>4. s = <<>> => Len(s) = 0
  BY EmptySeq
<1> QED BY <1>1, <1>2, <1>3, <1>4

LEMMA Stacked ==
  ASSUME NEW S, NEW s \in Seq(S), NEW t \in Seq(S)
  PROVE  /\ s \o t \in Seq(S) /\ Len(s \o t) = Len(s) + Len(t)
         /\ \A j \in 1 .. Len(t) : From(s \o t, j) = From(t, j)
         /\ \A j \in 1 .. Len(s) : From(s \o t, Len(t) + j) = From(s, j)
<1>1. /\ s \o t \in Seq(S) /\ Len(s \o t) = Len(s) + Len(t)
      /\ \A i \in 1 .. Len(s) + Len(t) :
           (s \o t)[i] = IF i <= Len(s) THEN s[i] ELSE t[i - Len(s)]
  BY ConcatProperties
<1>2. Len(s) \in Nat /\ Len(t) \in Nat
  BY LenProperties
<1>3. ASSUME NEW j \in 1 .. Len(t) PROVE From(s \o t, j) = From(t, j)
  <2>1. /\ Len(s) + Len(t) + 1 - j \in 1 .. Len(s) + Len(t)
        /\ ~(Len(s) + Len(t) + 1 - j <= Len(s))
        /\ Len(s) + Len(t) + 1 - j - Len(s) = Len(t) + 1 - j
    BY <1>2
  <2> QED BY <1>1, <2>1 DEF From
<1>4. ASSUME NEW j \in 1 .. Len(s) PROVE From(s \o t, Len(t) + j) = From(s, j)
  <2>1. /\ Len(s) + Len(t) + 1 - (Len(t) + j) \in 1 .. Len(s) + Len(t)
        /\ Len(s) + Len(t) + 1 - (Len(t) + j) <= Len(s)
        /\ Len(s) + Len(t) + 1 - (Len(t) + j) = Len(s) + 1 - j
    BY <1>2
  <2> QED BY <1>1, <2>1 DEF From
<1> QED BY <1>1, <1>3, <1>4

LEMMA OneFrame ==
  ASSUME NEW S, NEW f \in S
  PROVE  <<f>> \in Seq(S) /\ Len(<<f>>) = 1 /\ From(<<f>>, 1) = f
BY DEF From

LEMMA TwoFrames ==
  ASSUME NEW S, NEW f \in S, NEW g \in S
  PROVE  /\ <<f, g>> \in Seq(S) /\ Len(<<f, g>>) = 2
         /\ From(<<f, g>>, 1) = g /\ From(<<f, g>>, 2) = f
BY DEF From

LEMMA ThreeFrames ==
  ASSUME NEW S, NEW f \in S, NEW g \in S, NEW h \in S
  PROVE  /\ <<f, g, h>> \in Seq(S) /\ Len(<<f, g, h>>) = 3
         /\ From(<<f, g, h>>, 1) = h /\ From(<<f, g, h>>, 2) = g
         /\ From(<<f, g, h>>, 3) = f
BY DEF From

(* The running call goes on as cs.                                         *)
LEMMA Replaced ==
  ASSUME calls \in Seq(Frame), calls # <<>>, NEW cs \in Seq(Frame), Do(cs)
  PROVE  /\ calls' \in Seq(Frame) /\ Depth' = Depth - 1 + Len(cs)
         /\ Kept(Depth - 1)
         /\ \A j \in 1 .. Len(cs) : From(calls', Depth - 1 + j) = From(cs, j)
<1> DEFINE t == Tail(calls)
<1>1. /\ t \in Seq(Frame) /\ Len(t) = Depth - 1
      /\ \A j \in 1 .. Depth - 1 : From(t, j) = At(j)
  BY FrameAt DEF Depth, At
<1>2. calls' = cs \o t
  BY DEF Do
<1> HIDE DEF t
<1>3. /\ cs \o t \in Seq(Frame) /\ Len(cs \o t) = Len(cs) + Len(t)
      /\ \A j \in 1 .. Len(t) : From(cs \o t, j) = From(t, j)
      /\ \A j \in 1 .. Len(cs) : From(cs \o t, Len(t) + j) = From(cs, j)
  BY <1>1, Stacked
<1>4. Len(cs) \in Nat /\ Depth \in Nat
  BY LenProperties DEF Depth
<1>5. Depth' = Depth - 1 + Len(cs)
  BY <1>1, <1>2, <1>3, <1>4 DEF Depth
<1>6. Kept(Depth - 1)
  BY <1>1, <1>2, <1>3 DEF Kept
<1> QED BY <1>1, <1>2, <1>3, <1>5, <1>6

(* The stack after the last steps of a handler.                            *)
LEMMA StackSteps ==
  ASSUME calls \in Seq(Frame), calls # <<>>
  PROVE  /\ Depth \in Nat /\ Depth >= 1 /\ Top = At(Depth)
         /\ \A j \in 1 .. Depth : At(j) \in Frame
         /\ Return => calls' \in Seq(Frame) /\ Returned
         /\ \A f \in Frame : Do(<<f>>) => calls' \in Seq(Frame) /\ Continued(f)
         /\ \A f, g \in Frame :
              Do(<<f, g>>) => calls' \in Seq(Frame) /\ Called(f, g)
         /\ \A f, g, h \in Frame :
              Do(<<f, g, h>>) => calls' \in Seq(Frame) /\ CalledTwo(f, g, h)
<1>1. /\ Depth \in Nat /\ Depth >= 1 /\ Top = At(Depth)
      /\ \A j \in 1 .. Depth : At(j) \in Frame
      /\ Tail(calls) \in Seq(Frame) /\ Len(Tail(calls)) = Depth - 1
      /\ \A j \in 1 .. Depth - 1 : From(Tail(calls), j) = At(j)
  BY FrameAt DEF Depth, At, Top
<1>2. Return => calls' \in Seq(Frame) /\ Returned
  BY <1>1 DEF Returned, Kept, Depth, Return
<1>0. Depth - 1 + 1 = Depth /\ Depth - 1 + 2 = Depth + 1 /\ Depth - 1 + 3 = Depth + 2
  BY <1>1
<1>3. ASSUME NEW f \in Frame, Do(<<f>>)
      PROVE  calls' \in Seq(Frame) /\ Continued(f)
  <2> DEFINE cs == <<f>>
  <2>1. cs \in Seq(Frame) /\ Len(cs) = 1 /\ From(cs, 1) = f
    BY OneFrame
  <2> HIDE DEF cs
  <2>2. Do(cs)
    BY <1>3 DEF cs
  <2>3. /\ calls' \in Seq(Frame) /\ Depth' = Depth - 1 + Len(cs)
        /\ Kept(Depth - 1)
        /\ \A j \in 1 .. Len(cs) : From(calls', Depth - 1 + j) = From(cs, j)
    BY <2>1, <2>2, Replaced
  <2> QED BY <1>0, <2>1, <2>3 DEF Continued
<1>4. ASSUME NEW f \in Frame, NEW g \in Frame, Do(<<f, g>>)
      PROVE  calls' \in Seq(Frame) /\ Called(f, g)
  <2> DEFINE cs == <<f, g>>
  <2>1. /\ cs \in Seq(Frame) /\ Len(cs) = 2
        /\ From(cs, 1) = g /\ From(cs, 2) = f
    BY TwoFrames
  <2> HIDE DEF cs
  <2>2. Do(cs)
    BY <1>4 DEF cs
  <2>3. /\ calls' \in Seq(Frame) /\ Depth' = Depth - 1 + Len(cs)
        /\ Kept(Depth - 1)
        /\ \A j \in 1 .. Len(cs) : From(calls', Depth - 1 + j) = From(cs, j)
    BY <2>1, <2>2, Replaced
  <2> QED BY <1>0, <1>1, <2>1, <2>3 DEF Called
<1>5. ASSUME NEW f \in Frame, NEW g \in Frame, NEW h \in Frame, Do(<<f, g, h>>)
      PROVE  calls' \in Seq(Frame) /\ CalledTwo(f, g, h)
  <2> DEFINE cs == <<f, g, h>>
  <2>1. /\ cs \in Seq(Frame) /\ Len(cs) = 3
        /\ From(cs, 1) = h /\ From(cs, 2) = g /\ From(cs, 3) = f
    BY ThreeFrames
  <2> HIDE DEF cs
  <2>2. Do(cs)
    BY <1>5 DEF cs
  <2>3. /\ calls' \in Seq(Frame) /\ Depth' = Depth - 1 + Len(cs)
        /\ Kept(Depth - 1)
        /\ \A j \in 1 .. Len(cs) : From(calls', Depth - 1 + j) = From(cs, j)
    BY <2>1, <2>2, Replaced
  <2> QED BY <1>0, <1>1, <2>1, <2>3 DEF CalledTwo
<1> QED BY <1>1, <1>2, <1>3, <1>4, <1>5

-----------------------------------------------------------------------------
(* The poll table.                                                         *)

(* What is left of the poll table when a socket is closed: the clients     *)
(* behind it move up by one.                                               *)
LEMMA WithoutClient ==
  ASSUME NEW s \in Seq(Client), IsInjective(s), NEW c \in Range(s)
  PROVE  LET t == RemoveFirst(s, c) IN
         /\ t \in Seq(Client) /\ IsInjective(t) /\ Len(t) = Len(s) - 1
         /\ Range(t) = Range(s) \ {c}
         /\ \A j \in 1 .. Len(t) : t[j] = s[j] \/ t[j] = s[j + 1]
<1> DEFINE t == RemoveFirst(s, c)
           I == {k \in 1 .. Len(s) : s[k] = c}
<1>1. /\ Len(s) \in Nat /\ DOMAIN s = 1 .. Len(s)
      /\ \A j \in 1 .. Len(s) : s[j] \in Client
  BY LenProperties, ElementOfSeq
<1>2. PICK i \in 1 .. Len(s) : s[i] = c
  BY <1>1 DEF Range
<1>3. I = {i}
  BY <1>1, <1>2 DEF IsInjective
<1>4. t = SubSeq(s, 1, i - 1) \o SubSeq(s, i + 1, Len(s))
  <2>1. t = RemoveAt(s, SelectInSeq(s, LAMBDA v : v = c))
    BY <1>2 DEF RemoveFirst
  <2>2. SelectInSeq(s, LAMBDA v : v = c) = Min(I)
    BY <1>3 DEF SelectInSeq
  <2>3. Min(I) = i
    BY <1>3 DEF Min
  <2> QED BY <2>1, <2>2, <2>3 DEF RemoveAt
<1> DEFINE a == SubSeq(s, 1, i - 1)
           b == SubSeq(s, i + 1, Len(s))
<1>5. /\ a \in Seq(Client) /\ Len(a) = i - 1
      /\ \A j \in 1 .. i - 1 : a[j] = s[j]
  <2>1. 1 \in Int /\ i - 1 \in Int /\ \A j \in 1 .. i - 1 : s[j] \in Client
    BY <1>1
  <2>2. /\ a \in Seq(Client) /\ Len(a) = IF 1 <= i - 1 THEN i - 1 - 1 + 1 ELSE 0
        /\ \A j \in 1 .. i - 1 - 1 + 1 : a[j] = s[1 + j - 1]
    BY <2>1, SubSeqProperties
  <2> QED BY <1>1, <2>2
<1>6. /\ b \in Seq(Client) /\ Len(b) = Len(s) - i
      /\ \A j \in 1 .. Len(s) - i : b[j] = s[i + j]
  <2>1. i + 1 \in Int /\ Len(s) \in Int /\ \A j \in i + 1 .. Len(s) : s[j] \in Client
    BY <1>1
  <2>2. /\ b \in Seq(Client)
        /\ Len(b) = IF i + 1 <= Len(s) THEN Len(s) - (i + 1) + 1 ELSE 0
        /\ \A j \in 1 .. Len(s) - (i + 1) + 1 : b[j] = s[(i + 1) + j - 1]
    BY <2>1, SubSeqProperties
  <2> HIDE DEF b
  <2>3. Len(s) - (i + 1) + 1 = Len(s) - i
    BY <1>1
  <2>4. Len(b) = Len(s) - i
    <3>1. CASE i + 1 <= Len(s)
      BY <1>1, <2>2, <2>3, <3>1
    <3>2. CASE ~(i + 1 <= Len(s))
      <4>1. Len(s) \in Nat /\ i \in 1 .. Len(s)
        BY <1>1
      <4>2. i \in Int /\ i <= Len(s)
        BY <4>1
      <4>3. Len(s) = i
        BY <4>1, <4>2, <3>2
      <4>4. Len(s) - i = 0
        BY <4>2, <4>3
      <4> QED BY <2>2, <3>2, <4>4
    <3> QED BY <3>1, <3>2
  <2>5. ASSUME NEW j \in 1 .. Len(s) - i PROVE b[j] = s[i + j]
    <3>1. (i + 1) + j - 1 = i + j
      BY <1>1
    <3> QED BY <2>2, <2>3, <3>1
  <2> QED BY <2>2, <2>4, <2>5
<1> HIDE DEF a, b
<1>7. /\ t \in Seq(Client) /\ Len(t) = Len(s) - 1
      /\ \A j \in 1 .. Len(s) - 1 : t[j] = IF j < i THEN s[j] ELSE s[j + 1]
  <2>1. t = a \o b
    BY <1>4 DEF a, b
  <2> HIDE DEF t
  <2>2. /\ a \o b \in Seq(Client) /\ Len(a \o b) = Len(a) + Len(b)
        /\ \A j \in 1 .. Len(a) + Len(b) :
             (a \o b)[j] = IF j <= Len(a) THEN a[j] ELSE b[j - Len(a)]
    BY <1>5, <1>6, ConcatProperties
  <2>3. ASSUME NEW j \in 1 .. Len(s) - 1
        PROVE  t[j] = IF j < i THEN s[j] ELSE s[j + 1]
    <3>1. t[j] = IF j <= i - 1 THEN a[j] ELSE b[j - (i - 1)]
      BY <1>1, <1>5, <1>6, <2>1, <2>2
    <3>2. CASE j < i
      BY <1>1, <1>5, <3>1, <3>2
    <3>3. CASE ~(j < i)
      <4>1. j - (i - 1) \in 1 .. Len(s) - i /\ i + (j - (i - 1)) = j + 1
        BY <1>1, <3>3
      <4> QED BY <1>1, <1>6, <3>1, <3>3, <4>1
    <3> QED BY <3>2, <3>3
  <2> QED BY <1>1, <1>5, <1>6, <2>1, <2>2, <2>3
<1> HIDE DEF t
<1>8. DOMAIN t = 1 .. Len(s) - 1
  BY <1>7, LenProperties
<1>9. IsInjective(t)
  BY <1>1, <1>7, <1>8 DEF IsInjective
<1>10. Range(t) \subseteq Range(s) \ {c}
  BY <1>1, <1>2, <1>7, <1>8 DEF IsInjective, Range
<1>11. Range(s) \ {c} \subseteq Range(t)
  <2> SUFFICES ASSUME NEW k \in 1 .. Len(s), s[k] # c PROVE s[k] \in Range(t)
    BY <1>1 DEF Range
  <2>1. CASE k < i
    BY <1>1, <1>7, <1>8, <2>1 DEF Range
  <2>2. CASE k > i
    <3>1. k - 1 \in 1 .. Len(s) - 1 /\ ~(k - 1 < i) /\ k - 1 + 1 = k
      BY <1>1, <2>2
    <3>2. t[k - 1] = s[k]
      BY <1>7, <3>1
    <3> QED BY <1>8, <3>1, <3>2 DEF Range
  <2> QED BY <1>1, <1>2, <2>1, <2>2
<1> QED BY <1>7, <1>9, <1>10, <1>11 DEF t

-----------------------------------------------------------------------------
(* The frames that calls leave on the stack.                               *)

LEMMA Messages ==
  /\ Internal \in Message /\ Internal.kind = "internal"
  /\ \A n \in Nat : Log(n) \in Message /\ Log(n).kind = "log" /\ Log(n).n = n
  /\ \A n \in Nat : Overflow(n) \in Message /\ Overflow(n).kind = "overflow"
BY DEF Internal, Log, Overflow, Message

LEMMA NewFrames ==
  /\ \A op \in Ops \ {"close_socket", "send_all", "send_force"} : Call(op) \in Frame /\ Call(op).op = op
  /\ \A m \in Message :
       /\ Send(m) \in Frame /\ Send(m).op = "client_send" /\ Send(m).msg = m
       /\ Store(m) \in Frame /\ Store(m).op = "store" /\ Store(m).msg = m
       /\ \A op \in {"send_all", "send_force"} :
            /\ SendAll(m, op) \in Frame /\ SendAll(m, op).op = op
            /\ SendAll(m, op).msg = m /\ SendAll(m, op).i = 1
            /\ ~SendAll(m, op).sent
  /\ \A c \in Client :
       /\ Close(c) \in Frame /\ Close(c).op = "close_socket"
       /\ Close(c).msg = c
<1>1. ASSUME NEW op \in Ops \ {"close_socket", "send_all", "send_force"}
      PROVE  Call(op) \in Frame /\ Call(op).op = op
  BY <1>1, Messages DEF Frame, Call
<1>2. ASSUME NEW m \in Message
      PROVE  /\ Send(m) \in Frame /\ Send(m).op = "client_send" /\ Send(m).msg = m
             /\ Store(m) \in Frame /\ Store(m).op = "store" /\ Store(m).msg = m
  BY <1>2, Messages DEF Frame, Ops, Call, Send, Store
<1>3. ASSUME NEW m \in Message, NEW op \in {"send_all", "send_force"}
      PROVE  /\ SendAll(m, op) \in Frame /\ SendAll(m, op).op = op
             /\ SendAll(m, op).msg = m /\ SendAll(m, op).i = 1
             /\ ~SendAll(m, op).sent
  <2>1. SendAll(m, op) \in [op : Ops, msg : Message \cup Client, i : Nat, sent : BOOLEAN]
    BY <1>3, Messages DEF Ops, Call, SendAll
  <2>2. /\ SendAll(m, op).op = op /\ SendAll(m, op).msg = m
        /\ SendAll(m, op).i = 1 /\ ~SendAll(m, op).sent
    BY DEF Call, SendAll
  <2> QED BY <1>3, <2>1, <2>2 DEF Frame
<1>4. ASSUME NEW c \in Client
      PROVE  /\ Close(c) \in Frame /\ Close(c).op = "close_socket"
             /\ Close(c).msg = c
  BY <1>4, Messages DEF Frame, Ops, Call, Close
<1> QED BY <1>1, <1>2, <1>3, <1>4

(* The loop over the poll table goes on with the next client.              *)
LEMMA LoopFrames ==
  ASSUME NEW f \in Frame, f.op \in {"send_all", "send_force"}
  PROVE  /\ [f EXCEPT !.i = @ + 1] \in Frame
         /\ [f EXCEPT !.i = @ + 1].op = f.op /\ [f EXCEPT !.i = @ + 1].msg = f.msg
         /\ [f EXCEPT !.i = @ + 1].i = f.i + 1
         /\ [f EXCEPT !.i = @ + 1].sent = f.sent
         /\ [f EXCEPT !.i = @ + 1, !.sent = TRUE] \in Frame
         /\ [f EXCEPT !.i = @ + 1, !.sent = TRUE].op = f.op
         /\ [f EXCEPT !.i = @ + 1, !.sent = TRUE].msg = f.msg
         /\ [f EXCEPT !.i = @ + 1, !.sent = TRUE].i = f.i + 1
         /\ [f EXCEPT !.i = @ + 1, !.sent = TRUE].sent = TRUE
<1> DEFINE Record == [op : Ops, msg : Message \cup Client, i : Nat, sent : BOOLEAN]
           g == [f EXCEPT !.i = @ + 1]
           h == [f EXCEPT !.i = @ + 1, !.sent = TRUE]
<1>1. f \in Record /\ f.i + 1 \in Nat /\ f.i + 1 >= 1 /\ f.msg \in Message
  BY DEF Frame
<1>2. g \in Record
  BY <1>1
<1>3. h \in Record
  BY <1>1
<1>4. g.op = f.op /\ g.msg = f.msg /\ g.i = f.i + 1 /\ g.sent = f.sent
  BY <1>1
<1>5. h.op = f.op /\ h.msg = f.msg /\ h.i = f.i + 1 /\ h.sent = TRUE
  BY <1>1
<1> HIDE DEF g, h
<1>6. g \in Frame /\ h \in Frame
  BY <1>1, <1>2, <1>3, <1>4, <1>5 DEF Frame
<1> QED BY <1>4, <1>5, <1>6 DEF g, h

(* What the events leave on the empty stack.                               *)
LEMMA StackNew ==
  ASSUME NEW f \in Frame, NEW g \in Frame
  PROVE  /\ calls' = <<f>> =>
              calls' \in Seq(Frame) /\ Depth' = 1 /\ From(calls', 1) = f
         /\ calls' = <<f, g>> =>
              /\ calls' \in Seq(Frame) /\ Depth' = 2
              /\ From(calls', 1) = g /\ From(calls', 2) = f
<1>1. ASSUME calls' = <<f>>
      PROVE  calls' \in Seq(Frame) /\ Depth' = 1 /\ From(calls', 1) = f
  BY <1>1, OneFrame DEF Depth
<1>2. ASSUME calls' = <<f, g>>
      PROVE  /\ calls' \in Seq(Frame) /\ Depth' = 2
             /\ From(calls', 1) = g /\ From(calls', 2) = f
  BY <1>2, TwoFrames DEF Depth
<1> QED BY <1>1, <1>2

(* In the event loop there is a phase without a call.                      *)
LEMMA IdlePhase ==
  ASSUME Structure, calls = <<>>
  PROVE  /\ Depth = 0 /\ NoDrain
         /\ Direct \/ NoClient
<1>1. Depth = 0
  BY DEF Depth
<1> QED BY <1>1 DEF Structure, First, Drain, NextHead, HeadCalls, NoClient,
             CutShort, NoDrain

-----------------------------------------------------------------------------
(* The steps.                                                              *)
Phase == Direct \/ First \/ Drain \/ NoClient

LEMMA AppLogStep ==
  ASSUME Structure, AppLog
  PROVE  Structure'
<1>1. Depth = 0 /\ (Direct \/ NoClient)
  BY IdlePhase DEF AppLog
<1>2. /\ Log(events + 1) \in Message
  BY Messages DEF Structure, Types
<1>3. /\ calls' \in Seq(Frame) /\ Depth' = 1
      /\ From(calls', 1).op = "client_send"
  BY <1>2, NewFrames, StackNew DEF AppLog
<1>4. Types'
  BY <1>3, RoutingAssumption DEF Structure, Types, AppLog, daemon, history
<1>5. Places'
  BY <1>3 DEF Places, Placed, At
<1>6. Direct' \/ NoClient'
  BY <1>1, <1>3 DEF Direct, NoClient, NoDrain, DrainOps, At, CutShort, AppLog, daemon
<1> QED BY <1>4, <1>5, <1>6 DEF Structure

LEMMA AppOverflowStep ==
  ASSUME Structure, AppOverflow
  PROVE  Structure'
<1>1. Depth = 0 /\ (Direct \/ NoClient)
  BY IdlePhase DEF AppOverflow
<1>2. /\ calls' \in Seq(Frame) /\ Depth' = 2
      /\ From(calls', 1).op = "user_overflow"
      /\ From(calls', 2).op = "client_send" 
  BY Messages, NewFrames, StackNew DEF AppOverflow, Ops
<1>3. Types'
  BY <1>2, RoutingAssumption DEF Structure, Types, AppOverflow, daemon
<1>4. Places'
  BY <1>2 DEF Places, Placed, At
<1>5. Direct' \/ NoClient'
  BY <1>1, <1>2 DEF Direct, NoClient, NoDrain, DrainOps, At, CutShort, AppOverflow, daemon
<1> QED BY <1>3, <1>4, <1>5 DEF Structure

LEMMA ConnectStep ==
  ASSUME Structure, NEW c \in Client, Connect(c)
  PROVE  Structure'
<1>1. Depth = 0 /\ (Direct \/ NoClient)
  BY IdlePhase DEF Connect
<1>2. /\ calls' \in Seq(Frame) /\ Depth' = 2
      /\ From(calls', 1).op = "first_client"
      /\ From(calls', 2).op = "client_send" /\ From(calls', 2).msg = Internal
  <2>1. calls' = <<Send(Internal), Call("first_client")>>
    BY DEF Connect
  <2> QED BY <2>1, Messages, NewFrames, StackNew DEF Ops
<1>3. /\ pfd' \in Seq(Client) /\ IsInjective(pfd')
      /\ Len(pfd') = Len(pfd) + 1 /\ Range(pfd) \subseteq Range(pfd')
  <2>1. /\ pfd \in Seq(Client) /\ Len(pfd) \in Nat /\ DOMAIN pfd = 1 .. Len(pfd)
        /\ IsInjective(pfd) /\ c \notin Range(pfd) /\ pfd' = Append(pfd, c)
    BY LenProperties DEF Structure, Types, Connect
  <2>2. /\ pfd' \in Seq(Client) /\ Len(pfd') = Len(pfd) + 1
        /\ \A i \in 1 .. Len(pfd) : pfd'[i] = pfd[i]
        /\ pfd'[Len(pfd) + 1] = c
    BY <2>1, AppendProperties
  <2>3. DOMAIN pfd' = 1 .. Len(pfd) + 1
    BY <2>2, LenProperties
  <2>4. IsInjective(pfd')
    BY <2>1, <2>2, <2>3 DEF IsInjective, Range
  <2> QED BY <2>1, <2>2, <2>3, <2>4 DEF Range
<1>4. Types'
  BY <1>2, <1>3, RoutingAssumption DEF Structure, Types, Connect, history
<1>5. Places'
  BY <1>2 DEF Places, Placed, At
<1>6. CASE Direct
  <2>1. pfd' # <<>>
    BY <1>3, EmptySeq, LenProperties DEF Structure, Types
  <2> QED BY <1>2, <1>4, <1>5, <1>6, <2>1
       DEF Structure, Direct, NoDrain, DrainOps, At, Connect
<1>7. CASE NoClient
  <2>1. Len(pfd') = 1
    BY <1>3, <1>7 DEF NoClient
  <2> QED BY <1>2, <1>4, <1>5, <1>7, <2>1
       DEF Structure, NoClient, First, Sends, At, Connect
<1> QED BY <1>1, <1>6, <1>7

LEMMA ClientGoneStep ==
  ASSUME Structure, NEW c \in Client, ClientGone(c)
  PROVE  Structure'
<1>1. Depth = 0 /\ (Direct \/ NoClient)
  BY IdlePhase DEF ClientGone
<1>2. /\ calls' \in Seq(Frame) /\ Depth' = 1
      /\ From(calls', 1).op = "close_socket" /\ From(calls', 1).msg = c
  BY NewFrames, StackNew DEF ClientGone
<1>3. Types'
  BY <1>2, RoutingAssumption DEF Structure, Types, ClientGone, daemon, history
<1>4. Places'
  BY <1>2 DEF Places, Placed, At, ClientGone, Structure, Types, daemon
<1>5. Direct' \/ NoClient'
  BY <1>1, <1>2 DEF Direct, NoClient, NoDrain, DrainOps, At, CutShort, ClientGone, daemon
<1> QED BY <1>3, <1>4, <1>5 DEF Structure

LEMMA BreakStep ==
  ASSUME Structure, NEW c \in Client, Break(c)
  PROVE  Structure'
<1>1. UNCHANGED <<daemon, calls, ret, events, connects, history>>
  BY DEF Break
<1>2. Types'
  BY <1>1 DEF Structure, Types, Break, daemon, history
<1>3. Places' /\ Phase'
  BY <1>1 DEF Structure, Places, Placed, Phase, Direct, First, Drain, NextHead,
     HeadCalls, Updating, NoClient, NoDrain, CutShort, At, Depth, daemon
<1> QED BY <1>2, <1>3 DEF Structure, Phase

LEMMA StutterStep ==
  ASSUME Structure, UNCHANGED vars
  PROVE  Structure'
BY DEF Structure, Types, Places, Placed, Phase, Direct, First, Drain, NextHead,
   HeadCalls, Updating, NoClient, NoDrain, CutShort, At, Depth, vars, daemon, history

(* Of a call at the top only its own phase and callers are possible.       *)
LEMMA TopPhase ==
  ASSUME Structure, calls # <<>>
  PROVE  /\ Depth \in Nat /\ Depth >= 1 /\ Top = At(Depth)
         /\ Placed(Depth)
         /\ At(Depth) \in Frame
         /\ Phase
<1>1. calls \in Seq(Frame)
  BY DEF Structure, Types
<1> QED BY <1>1, StackSteps DEF Structure, Places, Phase

LEMMA UserOverflowStep ==
  ASSUME Structure, UserOverflow
  PROVE  Structure'
<1>1. calls # <<>> /\ Top.op = "user_overflow" /\ calls \in Seq(Frame)
  BY DEF UserOverflow, Running, Structure, Types
<1>2. Depth = 1 /\ At(1).op = "user_overflow" /\ (Direct \/ NoClient)
  BY <1>1, TopPhase DEF Placed, Phase, First, Drain, NextHead, HeadCalls, Updating
<1>3. calls' \in Seq(Frame) /\ Depth' = 0
  BY <1>1, <1>2, StackSteps DEF UserOverflow, Returned
<1>4. Types'
  BY <1>3 DEF Structure, Types, UserOverflow, history
<1>5. Places'
  BY <1>3 DEF Places
<1>6. Direct' \/ NoClient'
  BY <1>2, <1>3 DEF Direct, NoClient, NoDrain, CutShort, UserOverflow
<1> QED BY <1>4, <1>5, <1>6 DEF Structure

LEMMA FirstClientStep ==
  ASSUME Structure, FirstClient
  PROVE  Structure'
<1>1. calls # <<>> /\ Top.op = "first_client" /\ calls \in Seq(Frame)
  BY DEF FirstClient, Running, Structure, Types
<1>2. Depth = 1 /\ At(1).op = "first_client" /\ (Direct \/ NoClient \/ First)
  BY <1>1, TopPhase DEF Placed, Phase, Drain, NextHead, HeadCalls, Updating
<1>3. CASE IsFirstClient
  <2>1. /\ calls' \in Seq(Frame) /\ Depth' = 3
        /\ From(calls', 1).op = "connected"
        /\ From(calls', 2).op = "update_overflow"
        /\ From(calls', 3).op = "send_ringbuffer"
    <3>1. Do(<<Call("send_ringbuffer"), Call("update_overflow"), Call("connected")>>)
      BY <1>3 DEF FirstClient
    <3> QED BY <1>1, <1>2, <3>1, StackSteps, NewFrames DEF CalledTwo, Ops
  <2>2. Types'
    BY <1>3, <2>1 DEF Structure, Types, States, FirstClient, history
  <2>3. Places'
    BY <2>1 DEF Places, Placed, At
  <2>4. Drain'
    BY <1>3, <2>1 DEF Drain, NextHead, Updating, At, FirstClient, IsFirstClient,
                       client_connections
  <2> QED BY <2>2, <2>3, <2>4 DEF Structure
<1>4. CASE ~IsFirstClient
  <2>1. calls' \in Seq(Frame) /\ Depth' = 0
    BY <1>1, <1>2, <1>4, StackSteps DEF FirstClient, Returned
  <2>2. Types'
    BY <1>4, <2>1 DEF Structure, Types, FirstClient, history
  <2>3. Places'
    BY <2>1 DEF Places
  <2>4. Direct \/ NoClient
    BY <1>2, <1>4 DEF First, IsFirstClient, client_connections
  <2>5. Direct' \/ NoClient'
    BY <1>4, <2>1, <2>4 DEF Direct, NoClient, NoDrain, CutShort, FirstClient
  <2> QED BY <2>2, <2>3, <2>5 DEF Structure
<1> QED BY <1>3, <1>4

LEMMA UpdateOverflowStep ==
  ASSUME Structure, UpdateOverflow
  PROVE  Structure'
<1>1. calls # <<>> /\ Top.op = "update_overflow" /\ calls \in Seq(Frame)
  BY DEF UpdateOverflow, Running, Structure, Types
<1>2. /\ Depth = 2 /\ At(2).op = "update_overflow" /\ At(1).op = "connected"
      /\ Direct \/ NoClient
  BY <1>1, TopPhase DEF Placed, Phase, First, Drain, NextHead, HeadCalls, Sends
<1>3. CASE UpdateDue
  <2>1. /\ calls' \in Seq(Frame) /\ Depth' = 3
        /\ From(calls', 1) = At(1)
        /\ From(calls', 2).op = "update_reported"
        /\ From(calls', 3).op = "client_send" 
    <3>1. Do(<<Send(Overflow(overflow_counter)), Call("update_reported")>>)
      BY <1>3 DEF UpdateOverflow
    <3>2. Overflow(overflow_counter) \in Message
      BY Messages DEF Structure, Types
    <3> QED BY <1>1, <1>2, <3>1, <3>2, StackSteps, NewFrames DEF Called, Kept, Ops
  <2>2. Types'
    BY <2>1 DEF Structure, Types, UpdateOverflow, daemon, history
  <2>3. Places'
    BY <1>2, <2>1 DEF Places, Placed, At
  <2>4. Direct' \/ NoClient'
    BY <1>2, <2>1 DEF Direct, NoClient, NoDrain, DrainOps, CutShort, At,
                       UpdateOverflow, daemon
  <2> QED BY <2>2, <2>3, <2>4 DEF Structure
<1>4. CASE ~UpdateDue
  <2>1. calls' \in Seq(Frame) /\ Depth' = 1 /\ From(calls', 1) = At(1)
    BY <1>1, <1>2, <1>4, StackSteps DEF UpdateOverflow, Returned, Kept
  <2>2. Types'
    BY <2>1 DEF Structure, Types, UpdateOverflow, daemon, history
  <2>3. Places'
    BY <1>2, <2>1 DEF Places, Placed, At
  <2>4. Direct' \/ NoClient'
    BY <1>2, <2>1 DEF Direct, NoClient, NoDrain, DrainOps, CutShort, At,
                       UpdateOverflow, daemon
  <2> QED BY <2>2, <2>3, <2>4 DEF Structure
<1> QED BY <1>3, <1>4

LEMMA UpdateReportedStep ==
  ASSUME Structure, UpdateReported
  PROVE  Structure'
<1>1. calls # <<>> /\ Top.op = "update_reported" /\ calls \in Seq(Frame)
  BY DEF UpdateReported, Running, Structure, Types
<1>2. /\ Depth = 2 /\ At(2).op = "update_reported" /\ At(1).op = "connected"
      /\ Direct \/ NoClient
  BY <1>1, TopPhase DEF Placed, Phase, First, Drain, NextHead, HeadCalls, Updating, Sends
<1>3. calls' \in Seq(Frame) /\ Depth' = 1 /\ From(calls', 1) = At(1)
  BY <1>1, <1>2, StackSteps DEF UpdateReported, Returned, Kept
<1>4. Types'
  BY <1>3 DEF Structure, Types, UpdateReported, history
<1>5. Places'
  BY <1>2, <1>3 DEF Places, Placed, At
<1>6. Direct' \/ NoClient'
  BY <1>2, <1>3 DEF Direct, NoClient, NoDrain, DrainOps, CutShort, At, UpdateReported
<1> QED BY <1>4, <1>5, <1>6 DEF Structure

LEMMA ConnectedStep ==
  ASSUME Structure, Connected
  PROVE  Structure'
<1>1. calls # <<>> /\ Top.op = "connected" /\ calls \in Seq(Frame)
  BY DEF Connected, Running, Structure, Types
<1>2. Depth = 1 /\ At(1).op = "connected" /\ (Direct \/ NoClient)
  BY <1>1, TopPhase DEF Placed, Phase, First, Drain, NextHead, HeadCalls
<1>3. calls' \in Seq(Frame) /\ Depth' = 0
  BY <1>1, <1>2, StackSteps DEF Connected, Returned
<1>4. Types'
  BY <1>3 DEF Structure, Types, Connected, history
<1>5. Places'
  BY <1>3 DEF Places
<1>6. Direct' \/ NoClient'
  BY <1>2, <1>3 DEF Direct, NoClient, NoDrain, CutShort, Connected
<1> QED BY <1>4, <1>5, <1>6 DEF Structure

LEMMA CloseSocketStep ==
  ASSUME Structure, CloseSocket
  PROVE  Structure'
<1>1. calls # <<>> /\ Top.op = "close_socket" /\ calls \in Seq(Frame)
  BY DEF CloseSocket, Running, Structure, Types
<1>2. /\ Depth \in Nat /\ Depth >= 1 /\ Top = At(Depth)
      /\ At(Depth).op = "close_socket"
      /\ Top.msg \in Range(pfd) /\ Phase
  BY <1>1, TopPhase DEF Placed
<1>3. /\ calls' \in Seq(Frame) /\ Depth' = Depth + 1
      /\ \A j \in 1 .. Depth - 1 : From(calls', j) = At(j)
      /\ From(calls', Depth) = Send(Internal)
      /\ From(calls', Depth + 1) = Send(Internal)
      /\ Send(Internal).op = "client_send" /\ Send(Internal).msg = Internal
  <2>1. Do(<<Send(Internal), Send(Internal)>>)
    BY DEF CloseSocket
  <2> QED BY <1>1, <2>1, StackSteps, Messages, NewFrames DEF Called, Kept
<1>4. /\ pfd' \in Seq(Client) /\ IsInjective(pfd') /\ Len(pfd') = Len(pfd) - 1
      /\ Range(pfd') = Range(pfd) \ {Top.msg}
      /\ Len(pfd) \in Nat /\ Len(pfd') \in Nat
  BY <1>2, WithoutClient, LenProperties DEF CloseSocket, Structure, Types
<1>5. Types'
  BY <1>3, <1>4 DEF Structure, Types, States, CloseSocket, history
<1>6. Places'
  <2> SUFFICES ASSUME NEW j \in 1 .. Depth + 1 PROVE Placed(j)'
    BY <1>3 DEF Places
  <2>1. CASE j < Depth
    <3>1. /\ Placed(j) /\ From(calls', j) = At(j) /\ At(j).op # "close_socket"
          /\ \A k \in 1 .. Depth : At(k).op = "reported" => k < Depth
          /\ j - 1 \in 1 .. Depth - 1 => From(calls', j - 1) = At(j - 1)
          /\ From(calls', 1) = At(1)
      BY <1>2, <1>3, <2>1 DEF Structure, Places, Placed
    <3>2. \A k \in 1 .. Depth + 1 :
            From(calls', k).op = "reported" => k \in 1 .. Depth /\ At(k).op = "reported"
      BY <1>2, <1>3
    <3>3. overflow_cnt' = overflow_cnt
      BY DEF CloseSocket
    <3> QED BY <1>2, <1>3, <2>1, <3>1, <3>2, <3>3 DEF Placed, At
  <2>2. CASE j >= Depth
    <3>1. From(calls', j).op = "client_send"
      BY <1>2, <1>3, <2>2
    <3> QED BY <3>1 DEF Placed, At
  <2> QED BY <1>2, <2>1, <2>2
<1>7. CASE Direct
  <2>1. NoDrain'
    <3>1. \A j \in 1 .. Depth + 1 : From(calls', j).op \notin DrainOps
      BY <1>2, <1>3, <1>7 DEF Direct, NoDrain, DrainOps
    <3> QED BY <1>3, <3>1 DEF NoDrain, At
  <2>2. CASE Len(pfd) = 1
    <3>1. pfd' = <<>>
      BY <1>4, <2>2, EmptySeq
    <3> QED BY <1>5, <1>6, <2>1, <2>2, <3>1 DEF Structure, NoClient, Buffers, CloseSocket,
             LastSocket, client_connections
  <2>3. CASE Len(pfd) # 1
    <3>1. pfd' # <<>>
      BY <1>4, <2>3, <1>7, EmptySeq DEF Direct
    <3> QED BY <1>5, <1>6, <1>7, <2>1, <2>3, <3>1 DEF Structure, Direct, CloseSocket,
             LastSocket, client_connections
  <2> QED BY <2>2, <2>3
<1>8. CASE Drain
  <2>1. /\ Depth = 6 /\ Updating /\ At(3).op = "drained" /\ At(4).op = "forced"
        /\ At(5).op = "send_force" /\ ~At(5).sent /\ At(5).i = 2
        /\ Len(pfd) = 1
    BY <1>2, <1>8 DEF Drain, NextHead, HeadCalls, Sends
  <2>2. pfd' = <<>>
    BY <1>4, <2>1, EmptySeq
  <2>3. CutShort'
    BY <1>3, <2>1 DEF CutShort, Updating, At, Sends
  <2> QED BY <1>5, <1>6, <2>1, <2>2, <2>3 DEF Structure, NoClient, Buffers, CloseSocket,
           LastSocket, client_connections
<1>9. ~First /\ ~NoClient
  <2>1. pfd # <<>>
    BY <1>4, EmptySeq DEF Structure, Types
  <2> QED BY <1>2, <2>1 DEF First, NoClient, Sends
<1> QED BY <1>2, <1>7, <1>8, <1>9 DEF Phase

LEMMA ClientSendStep ==
  ASSUME Structure, ClientSend
  PROVE  Structure'
<1>1. calls # <<>> /\ Top.op = "client_send" /\ calls \in Seq(Frame)
  BY DEF ClientSend, Running, Structure, Types
<1>2. /\ Depth \in Nat /\ Depth >= 1 /\ Top = At(Depth)
      /\ At(Depth).op = "client_send" /\ At(Depth).msg \in Message /\ Phase
  BY <1>1, TopPhase DEF Frame
<1> DEFINE m == At(Depth).msg
<1>3. /\ Store(m) \in Frame /\ Store(m).op = "store" /\ Store(m).msg = m
      /\ SendAll(m, "send_all") \in Frame /\ SendAll(m, "send_all").op = "send_all"
      /\ SendAll(m, "send_all").msg = m
  BY <1>2, NewFrames
<1>4. CASE state = "SEND_DIRECT"
  <2>1. /\ calls' \in Seq(Frame) /\ Depth' = Depth + 1
        /\ \A j \in 1 .. Depth - 1 : From(calls', j) = At(j)
        /\ From(calls', Depth).op = "store" /\ From(calls', Depth).msg = m
        /\ From(calls', Depth + 1).op = "send_all"
        /\ From(calls', Depth + 1).msg = m
    <3>1. Do(<<SendAll(m, "send_all"), Store(m)>>)
      BY <1>2, <1>4 DEF ClientSend
    <3> QED BY <1>1, <1>3, <3>1, StackSteps DEF Called, Kept
  <2> HIDE DEF m
  <2>2. Types'
    BY <2>1 DEF Structure, Types, ClientSend, daemon, history
  <2>3. Places'
    <3> SUFFICES ASSUME NEW j \in 1 .. Depth + 1 PROVE Placed(j)'
      BY <2>1 DEF Places
    <3>1. \A k \in 1 .. Depth + 1 :
            From(calls', k).op = "reported" => k \in 1 .. Depth /\ At(k).op = "reported"
      BY <1>2, <2>1
    <3>2. overflow_cnt' = overflow_cnt
      BY DEF ClientSend, daemon
    <3>3. CASE j < Depth
      <4>1. /\ Placed(j) /\ From(calls', j) = At(j) /\ At(j).op # "close_socket"
            /\ j - 1 \in 1 .. Depth - 1 => From(calls', j - 1) = At(j - 1)
            /\ From(calls', 1) = At(1)
        BY <1>2, <2>1, <3>3 DEF Structure, Places, Placed
      <4> QED BY <1>2, <2>1, <3>1, <3>2, <3>3, <4>1 DEF Placed, At
    <3>4. CASE j = Depth
      BY <2>1, <3>4 DEF Placed, At
    <3>5. CASE j = Depth + 1
      <4>1. j >= 2 /\ j - 1 = Depth
        BY <1>2, <3>5
      <4> QED BY <2>1, <3>5, <4>1 DEF Placed, At
    <3> QED BY <1>2, <3>3, <3>4, <3>5
  <2>4. Direct
    BY <1>2, <1>4 DEF Phase, First, Buffers, Drain, NoClient
  <2>5. \A j \in 1 .. Depth + 1 : From(calls', j).op \notin DrainOps
    BY <1>2, <2>1, <2>4 DEF Direct, NoDrain, DrainOps
  <2>6. Direct'
    BY <2>1, <2>4, <2>5 DEF Direct, NoDrain, At, ClientSend, daemon
  <2> QED BY <2>2, <2>3, <2>6 DEF Structure
<1>5. CASE state # "SEND_DIRECT"
  <2>1. /\ calls' \in Seq(Frame) /\ Depth' = Depth
        /\ \A j \in 1 .. Depth - 1 : From(calls', j) = At(j)
        /\ From(calls', Depth).op = "store" /\ From(calls', Depth).msg = m
    <3>1. Do(<<Store(m)>>)
      BY <1>2, <1>5 DEF ClientSend
    <3> QED BY <1>1, <1>3, <3>1, StackSteps DEF Continued, Kept
  <2>2. Types'
    BY <2>1 DEF Structure, Types, ClientSend, daemon, history
  <2> HIDE DEF m
  <2>3. Places'
    <3> SUFFICES ASSUME NEW j \in 1 .. Depth PROVE Placed(j)'
      BY <2>1 DEF Places
    <3>1. \A k \in 1 .. Depth :
            From(calls', k).op = "reported" => At(k).op = "reported"
      BY <1>2, <2>1
    <3>2. overflow_cnt' = overflow_cnt
      BY DEF ClientSend, daemon
    <3>3. CASE j < Depth
      <4>1. /\ Placed(j) /\ From(calls', j) = At(j) /\ At(j).op # "close_socket"
            /\ j - 1 \in 1 .. Depth - 1 => From(calls', j - 1) = At(j - 1)
            /\ From(calls', 1) = At(1)
        BY <1>2, <2>1, <3>3 DEF Structure, Places, Placed
      <4> QED BY <1>2, <2>1, <3>1, <3>2, <3>3, <4>1 DEF Placed, At
    <3>4. CASE j = Depth
      BY <2>1, <3>4 DEF Placed, At
    <3> QED BY <1>2, <3>3, <3>4
  <2>4. UNCHANGED <<daemon, ret>>
    BY DEF ClientSend
  <2>5. CASE First
    BY <1>2, <2>1, <2>2, <2>3, <2>4, <2>5
    DEF Structure, First, Sends, At, daemon, m
  <2>6. CASE Drain
    <3>1. /\ Depth = 5 /\ At(4).op = "reported" /\ Updating /\ At(3).op = "drained"
          /\ m.kind = "overflow" /\ ring # <<>>
      BY <1>2, <2>6 DEF Drain, NextHead, HeadCalls, m
    <3> QED BY <2>1, <2>2, <2>3, <2>4, <2>6, <3>1
      DEF Structure, Drain, HeadCalls, Updating, Sends, At, daemon
  <2>7. CASE NoClient
    <3>1. CASE NoDrain
      <4>1. \A j \in 1 .. Depth : From(calls', j).op \notin DrainOps
        BY <1>2, <2>1, <3>1 DEF NoDrain, DrainOps
      <4> QED BY <2>1, <2>2, <2>3, <2>4, <2>7, <4>1
        DEF Structure, NoClient, NoDrain, At, daemon
    <3>2. CASE CutShort
      <4>1. Depth \in {6, 7}
        BY <1>2, <3>2 DEF CutShort
      <4> QED BY <1>2, <2>1, <2>2, <2>3, <2>4, <2>7, <3>2, <4>1
        DEF Structure, NoClient, CutShort, Updating, Sends, At, daemon
    <3> QED BY <2>7, <3>1, <3>2 DEF NoClient
  <2> QED BY <1>2, <1>5, <2>5, <2>6, <2>7 DEF Phase, Direct
<1> QED BY <1>4, <1>5

(* What is known of the callers stays true when the running call returns or*)
(* goes on.                                                                *)
LEMMA CallersKept ==
  ASSUME Structure, calls # <<>>, Kept(Depth - 1), Depth' \in Nat, Depth' >= Depth - 1,
         \/ overflow_cnt' = overflow_cnt
         \/ At(Depth).op = "reported" \/ overflow_cnt = 0,
         \A k \in Depth .. Depth' : From(calls', k).op = "reported" => overflow_cnt = 0
  PROVE  /\ \A j \in 1 .. Depth - 1 : Placed(j)' /\ At(j).op # "close_socket"
         /\ NoDrain /\ (\A k \in Depth .. Depth' : From(calls', k).op \notin DrainOps)
              => NoDrain'
<1>1. Depth \in Nat /\ Depth >= 1
  BY TopPhase
<1>2. ASSUME NEW j \in 1 .. Depth - 1
      PROVE  Placed(j)' /\ At(j).op # "close_socket"
  <2>1. /\ Placed(j) /\ From(calls', j) = At(j) /\ At(j).op # "close_socket"
        /\ j - 1 \in 1 .. Depth - 1 => From(calls', j - 1) = At(j - 1)
        /\ From(calls', 1) = At(1)
    BY <1>1 DEF Structure, Places, Placed, Kept
  <2>2. ASSUME At(j).op = "reported"
        PROVE  /\ overflow_cnt' = 1
               /\ \A k \in 1 .. Depth' : From(calls', k).op = "reported" => k = j
    <3>1. overflow_cnt = 1 /\ \A k \in 1 .. Depth : At(k).op = "reported" => k = j
      BY <2>1, <2>2 DEF Placed
    <3>2. At(Depth).op # "reported"
      BY <1>1, <3>1
    <3>3. ASSUME NEW k \in 1 .. Depth', From(calls', k).op = "reported" PROVE k = j
      <4>1. CASE k < Depth
        BY <1>1, <3>1, <3>3, <4>1 DEF Kept
      <4>2. CASE k >= Depth
        BY <1>1, <3>1, <3>3, <4>2
      <4> QED BY <1>1, <4>1, <4>2
    <3> QED BY <3>1, <3>2, <3>3
  <2> QED BY <1>1, <2>1, <2>2 DEF Placed, At
<1>3. ASSUME NoDrain, \A k \in Depth .. Depth' : From(calls', k).op \notin DrainOps
      PROVE  NoDrain'
  <2> SUFFICES ASSUME NEW k \in 1 .. Depth' PROVE From(calls', k).op \notin DrainOps
    BY DEF NoDrain, At
  <2>1. CASE k < Depth
    BY <1>1, <1>3, <2>1 DEF NoDrain, Kept
  <2>2. CASE k >= Depth
    BY <1>1, <1>3, <2>2
  <2> QED BY <1>1, <2>1, <2>2
<1> QED BY <1>2, <1>3

LEMMA SendOneStep ==
  ASSUME Structure, SendOne
  PROVE  Structure'
<1>1. /\ calls # <<>> /\ Top.op \in {"send_all", "send_force"} /\ calls \in Seq(Frame)
      /\ Top.i <= Len(pfd)
  BY DEF SendOne, Sending, Running, Structure, Types
<1>2. /\ Depth \in Nat /\ Depth >= 1 /\ Top = At(Depth) /\ Placed(Depth)
      /\ Top \in Frame /\ Top.i \in Nat /\ Top.i >= 1 /\ Top.msg \in Message /\ Phase
  BY <1>1, TopPhase DEF Frame
<1>3. /\ Len(pfd) \in Nat /\ DOMAIN pfd = 1 .. Len(pfd)
      /\ pfd[Top.i] \in Client /\ pfd[Top.i] \in Range(pfd)
  <2>1. Len(pfd) \in Nat /\ DOMAIN pfd = 1 .. Len(pfd)
    BY LenProperties DEF Structure, Types
  <2>2. Top.i \in 1 .. Len(pfd)
    BY <1>1, <1>2, <2>1
  <2> QED BY <2>1, <2>2, ElementOfSeq DEF Structure, Types, Range
<1> DEFINE c == pfd[Top.i]
           g == [Top EXCEPT !.i = @ + 1]
           h == [Top EXCEPT !.i = @ + 1, !.sent = TRUE]
<1>4. /\ g \in Frame /\ g.op = Top.op /\ g.msg = Top.msg /\ g.i = Top.i + 1
      /\ g.sent = Top.sent
      /\ h \in Frame /\ h.op = Top.op /\ h.msg = Top.msg /\ h.i = Top.i + 1
      /\ h.sent = TRUE
  BY <1>1, <1>2, LoopFrames
<1>5. Direct \/ Drain
  <2>1. pfd # <<>>
    BY <1>1, <1>2, EmptySeq
  <2> QED BY <1>1, <1>2, <2>1 DEF Phase, First, NoClient, Sends
<1>6. Drain => /\ Depth = 5 /\ Updating /\ At(3).op = "drained" /\ At(4).op = "forced"
               /\ Top.op = "send_force" /\ ring # <<>> /\ Top.msg = Head(ring)
               /\ Top.i = 1 /\ ~Top.sent
  BY <1>1, <1>2 DEF Drain, NextHead, HeadCalls, Sends
<1>7. UNCHANGED <<daemon, broken, ret, events, connects, discarded, lost>>
  BY DEF SendOne
<1>8. CASE c \in broken
  <2>1. /\ Close(c) \in Frame /\ Close(c).op = "close_socket" /\ Close(c).msg = c
    BY <1>3, NewFrames
  <2>2. /\ calls' \in Seq(Frame) /\ Depth' = Depth + 1 /\ Kept(Depth - 1)
        /\ From(calls', Depth) = g /\ From(calls', Depth + 1) = Close(c)
    <3>1. Do(<<Close(c), g>>)
      BY <1>8 DEF SendOne
    <3> HIDE DEF g
    <3> QED BY <1>1, <1>4, <2>1, <3>1, StackSteps DEF Called
  <2> HIDE DEF g, c
  <2>3. Types'
    BY <1>7, <1>8, <2>2 DEF Structure, Types, SendOne, daemon, c
  <2>4. /\ Depth' \in Nat /\ Depth' >= Depth - 1
        /\ \A k \in Depth .. Depth' :
             From(calls', k).op \in {Top.op, "close_socket"}
    <3>1. \A k \in Depth .. Depth' : k = Depth \/ k = Depth + 1
      BY <1>2, <2>2
    <3> QED BY <1>2, <1>4, <2>1, <2>2, <3>1
  <2>5. overflow_cnt' = overflow_cnt /\ pfd' = pfd
    BY <1>7 DEF daemon
  <2>6. \A j \in 1 .. Depth - 1 : Placed(j)'
    BY <1>1, <2>2, <2>4, <2>5, CallersKept
  <2>7. ASSUME NEW j, j = Depth \/ j = Depth + 1 PROVE Placed(j)'
    <3>1. CASE j = Depth
      BY <1>1, <1>2, <1>4, <2>2, <3>1 DEF Placed, At, Kept
    <3>2. CASE j = Depth + 1
      BY <1>2, <1>3, <2>1, <2>2, <2>5, <3>2 DEF Placed, At, c
    <3> QED BY <2>7, <3>1, <3>2
  <2>8. Places'
    <3> SUFFICES ASSUME NEW j \in 1 .. Depth + 1 PROVE Placed(j)'
      BY <2>2 DEF Places
    <3> QED BY <1>2, <2>6, <2>7
  <2>9. CASE Direct
    <3>1. NoDrain'
      <4>1. NoDrain /\ \A k \in Depth .. Depth' : From(calls', k).op \notin DrainOps
        BY <1>2, <2>4, <2>9 DEF Direct, NoDrain, DrainOps
      <4> QED BY <1>1, <2>2, <2>4, <2>5, <4>1, CallersKept
    <3> QED BY <1>7, <2>3, <2>8, <2>9, <3>1 DEF Structure, Direct, daemon
  <2>10. CASE Drain
    BY <1>4, <1>6, <1>7, <2>1, <2>2, <2>3, <2>8, <2>10
    DEF Structure, Drain, HeadCalls, Updating, At, Kept, daemon
  <2> QED BY <1>5, <2>9, <2>10
<1>9. CASE c \notin broken
  <2>1. /\ calls' \in Seq(Frame) /\ Depth' = Depth /\ Kept(Depth - 1)
        /\ From(calls', Depth) = h
    <3>1. Do(<<h>>)
      BY <1>9 DEF SendOne
    <3> HIDE DEF h
    <3> QED BY <1>1, <1>4, <3>1, StackSteps DEF Continued
  <2>2. Delivered(c)
    BY <1>9 DEF SendOne
  <2> HIDE DEF h
  <2>3. received' \in [Client -> Seq(Nat)] /\ reported' \in Nat
    <3>1. Top.msg.n \in Nat
      BY <1>2 DEF Message
    <3>2. Append(received[c], Top.msg.n) \in Seq(Nat)
      BY <1>3, <3>1, AppendProperties DEF Structure, Types
    <3> QED BY <1>3, <2>2, <3>1, <3>2 DEF Delivered, Structure, Types
  <2> HIDE DEF c
  <2>4. Types'
    BY <1>7, <2>1, <2>3 DEF Structure, Types, daemon
  <2>5. \A k \in Depth .. Depth' : k = Depth
    BY <1>2, <2>1
  <2>6. \A j \in 1 .. Depth - 1 : Placed(j)'
    BY <1>1, <1>2, <1>4, <1>7, <2>1, <2>5, CallersKept DEF daemon
  <2>7. Placed(Depth)'
    BY <1>1, <1>2, <1>4, <2>1 DEF Placed, At, Kept
  <2>8. Places'
    BY <1>2, <2>1, <2>6, <2>7 DEF Places
  <2>9. CASE Direct
    <3>1. NoDrain'
      BY <1>1, <1>2, <1>4, <1>7, <2>1, <2>5, <2>9, CallersKept
      DEF Direct, NoDrain, DrainOps, daemon
    <3> QED BY <1>7, <2>4, <2>8, <2>9, <3>1 DEF Structure, Direct, daemon
  <2>10. CASE Drain
    BY <1>4, <1>6, <1>7, <2>1, <2>4, <2>8, <2>10
    DEF Structure, Drain, HeadCalls, Updating, At, Kept, daemon
  <2> QED BY <1>5, <2>9, <2>10
<1> QED BY <1>8, <1>9

(* When the running call returns.                                          *)
LEMMA ReturnKeeps ==
  ASSUME Structure, calls # <<>>, Return,
         overflow_cnt' = overflow_cnt \/ At(Depth).op = "reported" \/ overflow_cnt = 0
  PROVE  /\ calls' \in Seq(Frame) /\ Depth' = Depth - 1 /\ Kept(Depth - 1)
         /\ Depth \in Nat /\ Depth >= 1 /\ Top = At(Depth) /\ At(Depth) \in Frame
         /\ Placed(Depth) /\ Phase
         /\ Places'
         /\ NoDrain => NoDrain'
<1>1. /\ calls' \in Seq(Frame) /\ Depth' = Depth - 1 /\ Kept(Depth - 1)
      /\ Depth \in Nat /\ Depth >= 1 /\ Top = At(Depth) /\ At(Depth) \in Frame
      /\ Placed(Depth) /\ Phase
  BY TopPhase, StackSteps DEF Structure, Types, Returned
<1>2. Depth' \in Nat /\ Depth' >= Depth - 1 /\ Depth .. Depth' = {}
  BY <1>1
<1>3. /\ \A j \in 1 .. Depth - 1 : Placed(j)'
      /\ NoDrain => NoDrain'
  BY <1>1, <1>2, CallersKept
<1> QED BY <1>1, <1>3 DEF Places

LEMMA SendEndStep ==
  ASSUME Structure, SendEnd
  PROVE  Structure'
<1>1. /\ calls # <<>> /\ Top.op \in {"send_all", "send_force"} /\ Top.i > Len(pfd)
      /\ Return /\ ret' = IF ForceFailed THEN "SEND_FAILED" ELSE "OK"
      /\ UNCHANGED <<daemon, broken, events, connects, history>>
  BY DEF SendEnd, Sending, Running
<1>2. /\ calls' \in Seq(Frame) /\ Depth' = Depth - 1 /\ Kept(Depth - 1)
      /\ Depth \in Nat /\ Depth >= 1 /\ Top = At(Depth) /\ Top.i \in Nat
      /\ Phase /\ Places' /\ (NoDrain => NoDrain')
  BY <1>1, ReturnKeeps DEF daemon, Frame
<1>3. Types'
  BY <1>1, <1>2 DEF Structure, Types, Results, daemon, history
<1>4. CASE Direct
  BY <1>1, <1>2, <1>3, <1>4 DEF Structure, Direct, daemon
<1>5. CASE Drain
  <2>1. /\ Depth = 5 /\ Updating /\ At(3).op = "drained" /\ At(4).op = "forced"
        /\ Top.op = "send_force" /\ ring # <<>>
        /\ IF Top.sent THEN Top.i = 2 ELSE Top.i = 1
    BY <1>1, <1>2, <1>5 DEF Drain, NextHead, HeadCalls, Sends
  <2>2. Top.sent /\ ret' = "OK"
    BY <1>1, <1>2, <1>5, <2>1 DEF Drain, ForceFailed
  <2>3. ring' # <<>> /\ Updating' /\ At(3)'.op = "drained" /\ HeadCalls'
    BY <1>1, <1>2, <2>1, <2>2 DEF HeadCalls, Updating, At, Kept, daemon
  <2> QED BY <1>1, <1>2, <1>3, <1>5, <2>3 DEF Structure, Drain, daemon
<1>6. CASE NoClient
  <2>1. CASE NoDrain
    BY <1>1, <1>2, <1>3, <1>6, <2>1 DEF Structure, NoClient, daemon
  <2>2. CASE CutShort
    <3>1. Depth = 5 /\ Top.op = "send_force" /\ ~Top.sent
      BY <1>1, <1>2, <2>2 DEF CutShort, Sends
    <3>2. ret' = "SEND_FAILED"
      BY <1>1, <3>1 DEF ForceFailed
    <3>3. CutShort'
      BY <1>2, <2>2, <3>1, <3>2 DEF CutShort, Updating, At, Kept
    <3> QED BY <1>1, <1>2, <1>3, <1>6, <3>3 DEF Structure, NoClient, daemon
  <2> QED BY <1>6, <2>1, <2>2 DEF NoClient
<1>7. ~First
  BY <1>1, <1>2 DEF First, Sends
<1> QED BY <1>2, <1>4, <1>5, <1>6, <1>7 DEF Phase

(* A message is stored or discarded while no client is connected, before   *)
(* the first client is served, or when an overflow report made during the  *)
(* drain is buffered behind the messages that are drained.                 *)
LEMMA BufferedStep ==
  ASSUME Structure, Running("store"), Return, state # "SEND_DIRECT",
         pfd' = pfd, connectionState' = connectionState, overflow_cnt' = overflow_cnt,
         state' = state \/ state' = "BUFFER_FULL",
         ring' = ring \/ ring' = Append(ring, Top.msg), Types'
  PROVE  Structure'
<1>1. /\ calls' \in Seq(Frame) /\ Depth' = Depth - 1 /\ Kept(Depth - 1)
      /\ Depth \in Nat /\ Depth >= 1 /\ Top = At(Depth) /\ Top.op = "store"
      /\ Top.msg \in Message
      /\ Phase /\ Places' /\ (NoDrain => NoDrain')
  BY ReturnKeeps DEF Running, Frame
<1>2. ASSUME ring # <<>>
      PROVE  ring' # <<>>
  BY <1>1, <1>2, AppendProperties, EmptySeq DEF Structure, Types
<1>3. CASE First
  BY <1>1, <1>3 DEF Structure, First, Buffers, At, Kept
<1>4. CASE Drain
  <2>1. /\ Depth = 5 /\ At(4).op = "reported" /\ Updating /\ At(3).op = "drained"
        /\ ring # <<>>
    BY <1>1, <1>4 DEF Drain, NextHead, HeadCalls
  <2>2. ring' # <<>> /\ Updating' /\ At(3)'.op = "drained" /\ HeadCalls'
    BY <1>1, <1>2, <2>1 DEF HeadCalls, Updating, At, Kept
  <2> QED BY <1>1, <1>4, <2>2 DEF Structure, Drain
<1>5. CASE NoClient
  <2>1. CASE NoDrain
    BY <1>1, <1>5, <2>1 DEF Structure, NoClient, Buffers
  <2>2. CASE CutShort
    <3>1. Depth \in {6, 7}
      BY <1>1, <2>2 DEF CutShort
    <3>2. CutShort'
      BY <1>1, <2>2, <3>1 DEF CutShort, Updating, At, Kept
    <3> QED BY <1>1, <1>5, <3>2 DEF Structure, NoClient, Buffers
  <2> QED BY <1>5, <2>1, <2>2 DEF NoClient
<1> QED BY <1>1, <1>3, <1>4, <1>5 DEF Phase, Direct

LEMMA StorePushStep ==
  ASSUME Structure, StorePush
  PROVE  Structure'
<1>1. /\ calls # <<>> /\ Top.op = "store" /\ Top \in Frame /\ calls' \in Seq(Frame)
  BY ReturnKeeps DEF StorePush, Running
<1>2. ring' \in Seq(Message) /\ Len(ring') <= Capacity
  BY <1>1, AppendProperties, LenProperties, RoutingAssumption
  DEF StorePush, Room, Frame, Structure, Types
<1>3. Types'
  BY <1>1, <1>2 DEF Structure, Types, Results, StorePush, history
<1> QED BY <1>3, BufferedStep DEF StorePush, Buffering

LEMMA StoreDiscardStep ==
  ASSUME Structure, StoreDiscard
  PROVE  Structure'
<1>1. /\ calls # <<>> /\ calls' \in Seq(Frame)
  BY ReturnKeeps DEF StoreDiscard, Running
<1>2. Types'
  BY <1>1 DEF Structure, Types, States, Results, StoreDiscard
<1> QED BY <1>2, BufferedStep DEF StoreDiscard, Buffering

LEMMA StoreDirectStep ==
  ASSUME Structure, StoreDirect
  PROVE  Structure'
<1>1. /\ calls # <<>> /\ Top.op \in {"store", "forced"} /\ calls \in Seq(Frame)
      /\ Top.op = "store" => state = "SEND_DIRECT"
      /\ Top.op = "forced" => ret = "OK"
      /\ ret' = "OK"
      /\ UNCHANGED <<state, pfd, ring, overflow_counter, connectionState, broken,
                     events, connects, history>>
  BY DEF StoreDirect, Forced, Running, Buffering, Structure, Types
<1>2. /\ Depth \in Nat /\ Depth >= 1 /\ Top = At(Depth) /\ Phase
  BY <1>1, TopPhase
<1>3. /\ Direct \/ Drain
      /\ Drain => /\ Depth = 4 /\ Updating /\ At(3).op = "drained"
                  /\ At(4).op = "forced" /\ ring # <<>>
  <2>1. ~First
    BY <1>1, <1>2 DEF First, Sends, Buffers
  <2>2. ~NoClient
    BY <1>1, <1>2 DEF NoClient, Buffers, NoDrain, DrainOps, CutShort, Sends
  <2>3. Drain => /\ Depth = 4 /\ Updating /\ At(3).op = "drained"
                 /\ At(4).op = "forced" /\ ring # <<>>
    BY <1>1, <1>2 DEF Drain, NextHead, HeadCalls, Sends
  <2> QED BY <1>2, <2>1, <2>2, <2>3 DEF Phase
<1>4. CASE ReportDue
  <2> DEFINE m == Overflow(overflow_counter)
  <2>1. /\ m \in Message /\ m.kind = "overflow"
        /\ Send(m) \in Frame /\ Send(m).op = "client_send" /\ Send(m).msg = m
        /\ Call("reported") \in Frame /\ Call("reported").op = "reported"
    BY Messages, NewFrames DEF Structure, Types, Ops
  <2>2. overflow_cnt' = 1 /\ overflow_cnt = 0 /\ Do(<<Send(m), Call("reported")>>)
    BY <1>4 DEF StoreDirect, ReportDue
  <2> HIDE DEF m
  <2>3. /\ calls' \in Seq(Frame) /\ Depth' = Depth + 1 /\ Kept(Depth - 1)
        /\ From(calls', Depth) = Call("reported") /\ From(calls', Depth + 1) = Send(m)
    BY <1>1, <2>1, <2>2, StackSteps DEF Called
  <2>4. Types'
    BY <1>1, <2>2, <2>3 DEF Structure, Types, Results, history
  <2>5. /\ Depth' \in Nat /\ Depth' >= Depth - 1
        /\ \A k \in Depth .. Depth' : k = Depth \/ k = Depth + 1
    BY <1>2, <2>3
  <2>6. \A k \in Depth .. Depth' : From(calls', k).op \notin DrainOps
    BY <2>1, <2>3, <2>5 DEF DrainOps
  <2>7. /\ \A j \in 1 .. Depth - 1 : Placed(j)' /\ At(j).op # "reported"
        /\ NoDrain => NoDrain'
    <3>1. /\ \A j \in 1 .. Depth - 1 : Placed(j)'
          /\ NoDrain => NoDrain'
      BY <1>1, <2>2, <2>3, <2>5, <2>6, CallersKept
    <3>2. \A j \in 1 .. Depth - 1 : At(j).op # "reported"
      BY <1>2, <2>2 DEF Structure, Places, Placed
    <3> QED BY <3>1, <3>2
  <2>8. Places'
    <3> SUFFICES ASSUME NEW j \in 1 .. Depth + 1 PROVE Placed(j)'
      BY <2>3 DEF Places
    <3>1. CASE j = Depth
      <4>1. ASSUME NEW k \in 1 .. Depth + 1, From(calls', k).op = "reported"
            PROVE  k = Depth
        BY <1>2, <2>1, <2>3, <2>7, <4>1 DEF Kept
      <4> QED BY <2>1, <2>2, <2>3, <3>1, <4>1 DEF Placed, At
    <3>2. CASE j = Depth + 1
      BY <2>1, <2>3, <3>2 DEF Placed, At
    <3> QED BY <1>2, <2>7, <3>1, <3>2
  <2>9. CASE Direct
    BY <1>1, <2>4, <2>7, <2>8, <2>9 DEF Structure, Direct
  <2>10. CASE Drain
    <3>1. ring' # <<>> /\ Updating' /\ At(3)'.op = "drained" /\ HeadCalls'
      BY <1>1, <1>3, <2>1, <2>3, <2>10 DEF HeadCalls, Updating, Sends, At, Kept
    <3> QED BY <1>1, <2>4, <2>8, <2>10, <3>1 DEF Structure, Drain
  <2> QED BY <1>3, <2>9, <2>10
<1>5. CASE ~ReportDue
  <2>1. Return /\ overflow_cnt' = overflow_cnt
    BY <1>5 DEF StoreDirect
  <2>2. /\ calls' \in Seq(Frame) /\ Depth' = Depth - 1 /\ Kept(Depth - 1)
        /\ Places' /\ (NoDrain => NoDrain')
    BY <1>1, <2>1, ReturnKeeps
  <2>3. Types'
    BY <1>1, <2>1, <2>2 DEF Structure, Types, Results, history
  <2>4. CASE Direct
    BY <1>1, <2>2, <2>3, <2>4 DEF Structure, Direct
  <2>5. CASE Drain
    <3>1. ring' # <<>> /\ Updating' /\ At(3)'.op = "drained" /\ HeadCalls'
      BY <1>1, <1>3, <2>2, <2>5 DEF HeadCalls, Updating, At, Kept
    <3> QED BY <1>1, <2>2, <2>3, <2>5, <3>1 DEF Structure, Drain
  <2> QED BY <1>3, <2>4, <2>5
<1> QED BY <1>4, <1>5

LEMMA ForceGivesUpStep ==
  ASSUME Structure, ForceGivesUp
  PROVE  Structure'
<1>1. /\ calls # <<>> /\ Top.op = "forced" /\ ret # "OK" /\ Return
      /\ UNCHANGED <<daemon, broken, ret, events, connects, history>>
  BY DEF ForceGivesUp, Running
<1>2. /\ calls' \in Seq(Frame) /\ Depth' = Depth - 1 /\ Kept(Depth - 1)
      /\ Depth \in Nat /\ Depth >= 1 /\ Top = At(Depth)
      /\ Phase /\ Places'
  BY <1>1, ReturnKeeps DEF daemon
<1>3. Types'
  BY <1>1, <1>2 DEF Structure, Types, daemon, history
<1>4. NoClient /\ CutShort /\ Depth = 4
  BY <1>1, <1>2 DEF Phase, Direct, First, Drain, NextHead, HeadCalls, Sends,
     NoClient, NoDrain, DrainOps, CutShort
<1>5. CutShort'
  BY <1>1, <1>2, <1>4 DEF CutShort, Updating, At, Kept
<1> QED BY <1>1, <1>2, <1>3, <1>4, <1>5 DEF Structure, NoClient, daemon

LEMMA ReportedStep ==
  ASSUME Structure, Reported
  PROVE  Structure'
<1>1. /\ calls # <<>> /\ Top.op = "reported" /\ Return /\ ret' = "OK"
      /\ UNCHANGED <<state, pfd, ring, connectionState, broken, events, connects,
                     history>>
  BY DEF Reported, Running
<1>2. /\ calls' \in Seq(Frame) /\ Depth' = Depth - 1 /\ Kept(Depth - 1)
      /\ Depth \in Nat /\ Depth >= 1 /\ Top = At(Depth)
      /\ Phase /\ Placed(Depth) /\ Places' /\ (NoDrain => NoDrain')
  <2>1. At(Depth).op = "reported"
    BY <1>1, TopPhase
  <2> QED BY <1>1, <2>1, ReturnKeeps
<1>3. overflow_counter' \in Nat /\ overflow_cnt' \in {0, 1}
  BY <1>1, <1>2 DEF Placed, Reported, Structure, Types
<1>4. Types'
  BY <1>1, <1>2, <1>3 DEF Structure, Types, Results, history
<1>5. CASE Direct
  BY <1>1, <1>2, <1>4, <1>5 DEF Structure, Direct
<1>6. CASE Drain
  <2>1. /\ Depth = 4 /\ Updating /\ At(3).op = "drained" /\ ring # <<>>
    BY <1>1, <1>2, <1>6 DEF Drain, NextHead, HeadCalls, Sends
  <2>2. ring' # <<>> /\ Updating' /\ At(3)'.op = "drained" /\ HeadCalls'
    BY <1>1, <1>2, <2>1 DEF HeadCalls, Updating, At, Kept
  <2> QED BY <1>1, <1>2, <1>4, <1>6, <2>2 DEF Structure, Drain
<1>7. CASE NoClient
  <2>1. NoDrain
    BY <1>1, <1>2, <1>7 DEF NoClient, CutShort, Sends
  <2> QED BY <1>1, <1>2, <1>4, <1>7, <2>1 DEF Structure, NoClient
<1>8. ~First
  BY <1>1, <1>2 DEF First, Sends
<1> QED BY <1>2, <1>5, <1>6, <1>7, <1>8 DEF Phase

LEMMA SendRingbufferStep ==
  ASSUME Structure, SendRingbuffer
  PROVE  Structure'
<1>1. /\ calls # <<>> /\ Top.op = "send_ringbuffer" /\ calls \in Seq(Frame)
      /\ UNCHANGED <<pfd, ring, overflow_counter, overflow_cnt, connectionState,
                     broken, events, connects, history>>
  BY DEF SendRingbuffer, Running, Structure, Types
<1>2. /\ Depth = 3 /\ Updating /\ Drain
  BY <1>1, TopPhase DEF Phase, Direct, First, Drain, NextHead, HeadCalls, Sends,
     NoClient, NoDrain, DrainOps, CutShort
<1>3. At(3).op = "send_ringbuffer"
  BY <1>1, <1>2, TopPhase
<1>4. CASE ring = <<>>
  <2>1. Return /\ state' = "SEND_DIRECT" /\ ret' = "OK"
    BY <1>4 DEF SendRingbuffer
  <2>2. /\ calls' \in Seq(Frame) /\ Depth' = 2 /\ Kept(2) /\ Places'
    BY <1>1, <1>2, <2>1, ReturnKeeps
  <2>3. Types'
    BY <1>1, <2>1, <2>2 DEF Structure, Types, States, Results, history
  <2>4. pfd' = pfd /\ pfd # <<>>
    BY <1>1, <1>2, EmptySeq DEF Drain
  <2>5. NoDrain'
    BY <1>2, <2>2 DEF NoDrain, DrainOps, Updating, At, Kept
  <2> QED BY <1>1, <1>2, <1>4, <2>1, <2>2, <2>3, <2>4, <2>5 DEF Structure, Direct, Drain
<1>5. CASE ring # <<>>
  <2>1. /\ Do(<<SendAll(Head(ring), "send_force"), Call("forced"), Call("drained")>>)
        /\ UNCHANGED <<state, ret>>
    BY <1>5 DEF SendRingbuffer
  <2>2. Head(ring) \in Message
    BY <1>5, HeadTailProperties DEF Structure, Types
  <2>3. /\ calls' \in Seq(Frame) /\ Depth' = 5 /\ Kept(2)
        /\ From(calls', 3) = Call("drained") /\ From(calls', 4) = Call("forced")
        /\ From(calls', 5) = SendAll(Head(ring), "send_force")
    BY <1>1, <1>2, <2>1, <2>2, StackSteps, NewFrames DEF CalledTwo, Ops
  <2>4. /\ From(calls', 3).op = "drained" /\ From(calls', 4).op = "forced"
        /\ From(calls', 5).op = "send_force" /\ From(calls', 5).msg = Head(ring)
        /\ From(calls', 5).i = 1 /\ ~From(calls', 5).sent
    BY <2>2, <2>3, NewFrames DEF Ops
  <2>5. Types'
    BY <1>1, <2>1, <2>3 DEF Structure, Types, history
  <2>6. Updating'
    BY <1>2, <2>3 DEF Updating, At, Kept
  <2>7. Places'
    BY <2>3, <2>4, <2>6 DEF Places, Placed, At, Updating
  <2>8. HeadCalls'
    BY <1>1, <2>3, <2>4 DEF HeadCalls, At
  <2> QED BY <1>1, <1>2, <1>5, <2>1, <2>4, <2>5, <2>6, <2>7, <2>8
    DEF Structure, Drain, At
<1> QED BY <1>4, <1>5

LEMMA DrainedStep ==
  ASSUME Structure, Drained
  PROVE  Structure'
<1>1. /\ calls # <<>> /\ Top.op = "drained" /\ calls \in Seq(Frame)
      /\ UNCHANGED <<pfd, overflow_counter, overflow_cnt, connectionState, broken,
                     ret, events, connects, history>>
  BY DEF Drained, Running, Structure, Types
<1>2. /\ Depth = 3 /\ Updating /\ At(3).op = "drained"
      /\ IF ret = "OK" THEN Drain /\ ring # <<>> ELSE NoClient
  BY <1>1, TopPhase DEF Phase, Direct, First, Drain, NextHead, HeadCalls, Sends,
     NoClient, NoDrain, DrainOps, CutShort
<1>3. CASE ret = "OK"
  <2>1. /\ Do(<<Call("send_ringbuffer")>>) /\ ring' = Tail(ring)
        /\ state' = "SEND_BUFFER"
    BY <1>3 DEF Drained, AfterRemove
  <2>2. /\ calls' \in Seq(Frame) /\ Depth' = 3 /\ Kept(2)
        /\ From(calls', 3).op = "send_ringbuffer"
    BY <1>1, <1>2, <2>1, StackSteps, NewFrames DEF Continued, Ops
  <2>3. ring' \in Seq(Message) /\ Len(ring') <= Capacity
    BY <1>2, <1>3, <2>1, HeadTailProperties, LenProperties, RoutingAssumption
    DEF Structure, Types
  <2>4. Types'
    BY <1>1, <2>1, <2>2, <2>3 DEF Structure, Types, States, history
  <2>5. Updating'
    BY <1>2, <2>2 DEF Updating, At, Kept
  <2>6. Places'
    BY <2>2, <2>5 DEF Places, Placed, At, Updating
  <2> QED BY <1>1, <1>2, <1>3, <2>1, <2>2, <2>4, <2>5, <2>6
    DEF Structure, Drain, NextHead, At
<1>4. CASE ret # "OK"
  <2>1. Return /\ UNCHANGED <<ring, state>>
    BY <1>4 DEF Drained
  <2>2. /\ calls' \in Seq(Frame) /\ Depth' = 2 /\ Kept(2) /\ Places'
    BY <1>1, <1>2, <2>1, ReturnKeeps
  <2>3. Types'
    BY <1>1, <2>1, <2>2 DEF Structure, Types, history
  <2>4. NoDrain'
    BY <1>2, <2>2 DEF NoDrain, DrainOps, Updating, At, Kept
  <2> QED BY <1>1, <1>2, <1>4, <2>1, <2>2, <2>3, <2>4 DEF Structure, NoClient
<1> QED BY <1>3, <1>4

-----------------------------------------------------------------------------
(* Theorems.                                                               *)

LEMMA InitStructure == Init => Structure
<1> SUFFICES ASSUME Init PROVE Structure
  OBVIOUS
<1>1. Depth = 0 /\ calls \in Seq(Frame) /\ pfd \in Seq(Client) /\ ring \in Seq(Message)
      /\ Len(ring) = 0 /\ IsInjective(pfd)
  BY EmptySeq DEF Init, Depth, IsInjective
<1>2. Types
  BY <1>1, RoutingAssumption DEF Init, Types, States, Results
<1> QED BY <1>1, <1>2 DEF Init, Structure, Places, NoClient, Buffers, NoDrain

LEMMA StructureStep == Structure /\ [Next]_vars => Structure'
<1> SUFFICES ASSUME Structure, [Next]_vars PROVE Structure'
  OBVIOUS
<1>1. CASE AppLog \/ AppOverflow
  BY <1>1, AppLogStep, AppOverflowStep
<1>2. ASSUME NEW c \in Client, Connect(c) \/ ClientGone(c) \/ Break(c)
      PROVE  Structure'
  BY <1>2, ConnectStep, ClientGoneStep, BreakStep
<1>3. CASE Step
  BY <1>3, UserOverflowStep, FirstClientStep, UpdateOverflowStep, UpdateReportedStep,
     ConnectedStep, CloseSocketStep, ClientSendStep, SendOneStep, SendEndStep,
     StorePushStep, StoreDiscardStep, StoreDirectStep, ForceGivesUpStep, ReportedStep,
     SendRingbufferStep, DrainedStep DEF Step
<1>4. CASE PollTimeout \/ UNCHANGED vars
  BY <1>4, StutterStep DEF PollTimeout
<1> QED BY <1>1, <1>2, <1>3, <1>4 DEF Next

THEOREM StructureCorrect == Spec => []Structure
BY InitStructure, StructureStep, PTL DEF Spec

(* Between two handlers the state of the daemon fits its clients: through  *)
(* sends that close sockets and drains that are cut short.                 *)
THEOREM StateMatchesClientsCorrect == Spec => []StateMatchesClients
<1>1. Structure => StateMatchesClients
  BY IdlePhase DEF StateMatchesClients, Idle, Direct, NoClient, Buffers
<1> QED BY <1>1, StructureCorrect, PTL

(* While a client is connected, applications have been told so.            *)
THEOREM ConnectedIsToldCorrect == Spec => []ConnectedIsTold
<1>1. Structure => ConnectedIsTold
  BY IdlePhase DEF ConnectedIsTold, Idle, Direct, NoClient
<1> QED BY <1>1, StructureCorrect, PTL

-----------------------------------------------------------------------------
(* What each step does to the stack, for the invariants that follow.       *)
LEMMA CallsAfter ==
  ASSUME Structure, calls # <<>>
  PROVE  /\ Depth \in Nat /\ Depth >= 1 /\ Top = At(Depth) /\ At(Depth) \in Frame
         /\ UserOverflow => Depth = 1 /\ Returned
         /\ FirstClient =>
              /\ Depth = 1
              /\ IF IsFirstClient
                 THEN CalledTwo(Call("send_ringbuffer"), Call("update_overflow"),
                                Call("connected"))
                 ELSE Returned
         /\ UpdateOverflow =>
              /\ Depth = 2
              /\ IF UpdateDue
                 THEN Called(Send(Overflow(overflow_counter)), Call("update_reported"))
                 ELSE Returned
         /\ UpdateReported => Depth = 2 /\ Returned
         /\ Connected => Depth = 1 /\ Returned
         /\ CloseSocket => Called(Send(Internal), Send(Internal))
         /\ ClientSend => IF state = "SEND_DIRECT"
                          THEN Called(SendAll(Top.msg, "send_all"), Store(Top.msg))
                          ELSE Continued(Store(Top.msg))
         /\ SendEnd \/ StorePush \/ StoreDiscard \/ ForceGivesUp \/ Reported => Returned
         /\ StoreDirect => IF ReportDue
                           THEN Called(Send(Overflow(overflow_counter)), Call("reported"))
                           ELSE Returned
         /\ SendRingbuffer =>
              /\ Depth = 3
              /\ IF ring = <<>> THEN Returned
                 ELSE CalledTwo(SendAll(Head(ring), "send_force"), Call("forced"),
                                Call("drained"))
         /\ Drained => /\ Depth = 3
                       /\ IF ret = "OK" THEN Continued(Call("send_ringbuffer"))
                          ELSE Returned
<1>1. /\ calls \in Seq(Frame)
      /\ Depth \in Nat /\ Depth >= 1 /\ Top = At(Depth) /\ At(Depth) \in Frame
      /\ Placed(Depth) /\ Phase
  BY TopPhase DEF Structure, Types
<1>2. /\ Overflow(overflow_counter) \in Message /\ Internal \in Message
      /\ ring # <<>> => Head(ring) \in Message
  BY Messages, HeadTailProperties DEF Structure, Types
<1>3. Return => Returned
  BY <1>1, StackSteps
<1>4. \A f \in Frame : Do(<<f>>) => Continued(f)
  BY <1>1, StackSteps
<1>5. \A f, g \in Frame : Do(<<f, g>>) => Called(f, g)
  BY <1>1, StackSteps
<1>6. \A f, g, h \in Frame : Do(<<f, g, h>>) => CalledTwo(f, g, h)
  BY <1>1, StackSteps
<1>7. /\ \A op \in {"send_ringbuffer", "update_overflow", "connected",
                    "update_reported", "reported", "forced", "drained"} :
           Call(op) \in Frame
      /\ \A m \in Message :
           /\ Send(m) \in Frame /\ Store(m) \in Frame
           /\ SendAll(m, "send_all") \in Frame /\ SendAll(m, "send_force") \in Frame
  BY NewFrames DEF Ops
<1>8. UserOverflow => Depth = 1 /\ Returned
  BY <1>1, <1>3 DEF UserOverflow, Running, Placed
<1>9. FirstClient =>
        /\ Depth = 1
        /\ IF IsFirstClient
           THEN CalledTwo(Call("send_ringbuffer"), Call("update_overflow"),
                          Call("connected"))
           ELSE Returned
  BY <1>1, <1>3, <1>6, <1>7 DEF FirstClient, Running, Placed
<1>10. UpdateOverflow =>
         /\ Depth = 2
         /\ IF UpdateDue
            THEN Called(Send(Overflow(overflow_counter)), Call("update_reported"))
            ELSE Returned
  BY <1>1, <1>2, <1>3, <1>5, <1>7 DEF UpdateOverflow, Running, Placed
<1>11. UpdateReported => Depth = 2 /\ Returned
  BY <1>1, <1>3 DEF UpdateReported, Running, Placed
<1>12. Connected => Depth = 1 /\ Returned
  BY <1>1, <1>3 DEF Connected, Running, Placed
<1>13. CloseSocket => Called(Send(Internal), Send(Internal))
  BY <1>2, <1>5, <1>7 DEF CloseSocket
<1>14. ClientSend => IF state = "SEND_DIRECT"
                     THEN Called(SendAll(Top.msg, "send_all"), Store(Top.msg))
                     ELSE Continued(Store(Top.msg))
  <2>1. ClientSend => Top.msg \in Message
    BY <1>1 DEF ClientSend, Running, Frame
  <2> QED BY <2>1, <1>4, <1>5, <1>7 DEF ClientSend
<1>15. SendEnd \/ StorePush \/ StoreDiscard \/ ForceGivesUp \/ Reported => Returned
  BY <1>3 DEF SendEnd, StorePush, StoreDiscard, ForceGivesUp, Reported
<1>16. StoreDirect => IF ReportDue
                      THEN Called(Send(Overflow(overflow_counter)), Call("reported"))
                      ELSE Returned
  BY <1>2, <1>3, <1>5, <1>7 DEF StoreDirect
<1>17. SendRingbuffer =>
         /\ Depth = 3
         /\ IF ring = <<>> THEN Returned
            ELSE CalledTwo(SendAll(Head(ring), "send_force"), Call("forced"),
                           Call("drained"))
  <2>1. SendRingbuffer => Depth = 3
    BY <1>1 DEF SendRingbuffer, Running, Phase, Direct, First, Drain, NextHead, HeadCalls,
       Sends, NoClient, NoDrain, DrainOps, CutShort
  <2> QED BY <2>1, <1>2, <1>3, <1>6, <1>7 DEF SendRingbuffer
<1>18. Drained => /\ Depth = 3
                  /\ IF ret = "OK" THEN Continued(Call("send_ringbuffer")) ELSE Returned
  <2>1. Drained => Depth = 3
    BY <1>1 DEF Drained, Running, Phase, Direct, First, Drain, NextHead, HeadCalls,
       Sends, NoClient, NoDrain, DrainOps, CutShort
  <2> QED BY <2>1, <1>3, <1>4, <1>7 DEF Drained
<1> QED BY <1>1, <1>8, <1>9, <1>10, <1>11, <1>12, <1>13, <1>14, <1>15, <1>16, <1>17, <1>18

(* One iteration of the loop over the poll table.                          *)
LEMMA SendOneCalls ==
  ASSUME Structure, SendOne
  PROVE  \E g \in Frame :
           /\ Depth \in Nat /\ Depth >= 1 /\ Top = At(Depth) /\ Kept(Depth - 1)
           /\ Top.op \in {"send_all", "send_force"} /\ Top.msg \in Message
           /\ Top.i \in 1 .. Len(pfd) /\ pfd[Top.i] \in Client
           /\ From(calls', Depth) = g /\ g.op = Top.op /\ g.msg = Top.msg
           /\ g.i = Top.i + 1
           /\ IF pfd[Top.i] \in broken
              THEN /\ Depth' = Depth + 1 /\ g.sent = Top.sent
                   /\ From(calls', Depth + 1) = Close(pfd[Top.i])
              ELSE Depth' = Depth /\ g.sent
<1>1. /\ calls # <<>> /\ Top.op \in {"send_all", "send_force"} /\ calls \in Seq(Frame)
      /\ Top.i <= Len(pfd)
  BY DEF SendOne, Sending, Running, Structure, Types
<1>2. /\ Depth \in Nat /\ Depth >= 1 /\ Top = At(Depth)
      /\ Top \in Frame /\ Top.msg \in Message
      /\ Len(pfd) \in Nat /\ Top.i \in 1 .. Len(pfd)
  BY <1>1, TopPhase, LenProperties DEF Frame, Structure, Types
<1>3. pfd[Top.i] \in Client
  BY <1>2, ElementOfSeq DEF Structure, Types
<1>4. CASE pfd[Top.i] \in broken
  <2> DEFINE g == [Top EXCEPT !.i = @ + 1]
  <2>1. g \in Frame /\ g.op = Top.op /\ g.msg = Top.msg /\ g.i = Top.i + 1 /\ g.sent = Top.sent
    BY <1>1, <1>2, LoopFrames
  <2>2. Do(<<Close(pfd[Top.i]), g>>)
    BY <1>4 DEF SendOne
  <2> HIDE DEF g
  <2>3. Called(Close(pfd[Top.i]), g)
    BY <1>1, <1>3, <2>1, <2>2, NewFrames, StackSteps
  <2> QED BY <1>1, <1>2, <1>3, <1>4, <2>1, <2>3 DEF Called
<1>5. CASE pfd[Top.i] \notin broken
  <2> DEFINE g == [Top EXCEPT !.i = @ + 1, !.sent = TRUE]
  <2>1. g \in Frame /\ g.op = Top.op /\ g.msg = Top.msg /\ g.i = Top.i + 1 /\ g.sent = TRUE
    BY <1>1, <1>2, LoopFrames
  <2>2. Do(<<g>>)
    BY <1>5 DEF SendOne
  <2> HIDE DEF g
  <2>3. Continued(g)
    BY <1>1, <2>1, <2>2, StackSteps
  <2> QED BY <1>1, <1>2, <1>3, <1>5, <2>1, <2>3 DEF Continued
<1> QED BY <1>4, <1>5

-----------------------------------------------------------------------------
(* Losses are told.                                                        *)

(* While clients are connected, an overflow is only pending inside the     *)
(* update of the first client; and what a report waits for succeeds, since *)
(* nothing is refused in this state.                                       *)
ReportOps == {"user_overflow", "update_overflow", "update_reported", "reported"}
InUpdate == Depth >= 2 /\ At(2).op \in {"update_overflow", "update_reported"}
Told ==
  state = "SEND_DIRECT" =>
    /\ overflow_counter = 0 \/ InUpdate
    /\ Depth >= 1 /\ At(Depth).op \in ReportOps => ret = "OK"

(* No more losses are counted than there were; the one that an application *)
(* has reported is counted at the end of its handler.                      *)
UserLoss == IF Depth >= 1 /\ At(1).op = "user_overflow" THEN 1 ELSE 0
CountedOnce == overflow_counter + UserLoss <= lost

(* In the state SEND_DIRECT clients are connected.                         *)
LEMMA DirectState ==
  ASSUME Structure, state = "SEND_DIRECT"
  PROVE  Direct
BY DEF Structure, First, Buffers, Drain, NoClient

(* A pending update stays pending while calls above it come and go.        *)
LEMMA UpdateKept ==
  ASSUME Structure, calls # <<>>, Kept(Depth - 1), Depth' \in Nat, Depth' >= Depth - 1,
         At(Depth).op \notin {"update_overflow", "update_reported"}
  PROVE  InUpdate => InUpdate'
<1>1. Depth \in Nat /\ Depth >= 1
  BY TopPhase
<1>2. InUpdate => Depth > 2
  BY <1>1 DEF InUpdate
<1>3. Depth > 2 => From(calls', 2) = At(2) /\ Depth' >= 2
  BY <1>1 DEF Kept
<1> QED BY <1>2, <1>3 DEF InUpdate, At

(* When a call returns with success, or under a caller that does not       *)
(* report, and the counter is unchanged or reset.                          *)
LEMMA ToldReturn ==
  ASSUME Structure, calls # <<>>, Told, Returned,
         state' = "SEND_DIRECT" => state = "SEND_DIRECT",
         overflow_counter' \in {0, overflow_counter},
         \/ overflow_counter' = 0
         \/ At(Depth).op \notin {"update_overflow", "update_reported"},
         ret' = "OK" \/ Depth = 1
  PROVE  Told'
<1>1. Depth \in Nat /\ Depth >= 1
  BY TopPhase
<1>2. Depth' = Depth - 1 /\ Kept(Depth - 1) /\ Depth' \in Nat
  BY <1>1 DEF Returned
<1>3. ASSUME At(Depth).op \notin {"update_overflow", "update_reported"}
      PROVE  InUpdate => InUpdate'
  BY <1>1, <1>2, <1>3, UpdateKept
<1> QED BY <1>1, <1>2, <1>3 DEF Told

(* When a call is made that is not a report.                               *)
LEMMA ToldCall ==
  ASSUME Structure, calls # <<>>, Told, Kept(Depth - 1), Depth' \in Nat, Depth' >= Depth,
         At(Depth).op \notin {"update_overflow", "update_reported"},
         From(calls', Depth').op \notin ReportOps,
         state' = "SEND_DIRECT" => state = "SEND_DIRECT",
         overflow_counter' = overflow_counter
  PROVE  Told'
<1>1. Depth \in Nat /\ Depth >= 1
  BY TopPhase
<1>2. InUpdate => InUpdate'
  BY <1>1, UpdateKept
<1> QED BY <1>2 DEF Told, At

LEMMA ToldStep ==
  ASSUME Structure, Told, [Next]_vars
  PROVE  Told'
<1>1. CASE UNCHANGED vars \/ PollTimeout \/ \E c \in Client : Break(c)
  BY <1>1 DEF Told, InUpdate, At, Depth, vars, daemon, PollTimeout, Break
<1>2. CASE AppLog \/ AppOverflow \/ \E c \in Client : Connect(c) \/ ClientGone(c)
  <2>1. Depth = 0 /\ state' = state /\ overflow_counter' = overflow_counter
    BY <1>2, IdlePhase DEF AppLog, AppOverflow, Connect, ClientGone, daemon
  <2>2. /\ Log(events + 1) \in Message /\ Overflow(1) \in Message /\ Internal \in Message
    BY Messages DEF Structure, Types
  <2>3. /\ Depth' \in Nat
        /\ From(calls', Depth').op \in {"client_send", "close_socket"}
    <3>1. CASE AppLog
      BY <3>1, <2>2, StackNew, NewFrames DEF AppLog
    <3>2. CASE AppOverflow
      <4>1. calls' = <<Send(Overflow(1)), Call("user_overflow")>>
        BY <3>2 DEF AppOverflow
      <4> QED BY <4>1, <2>2, StackNew, NewFrames DEF Ops
    <3>3. ASSUME NEW c \in Client, Connect(c)
          PROVE  Depth' \in Nat /\ From(calls', Depth').op = "client_send"
      <4>1. calls' = <<Send(Internal), Call("first_client")>>
        BY <3>3 DEF Connect
      <4> QED BY <4>1, <2>2, StackNew, NewFrames DEF Ops
    <3>4. ASSUME NEW c \in Client, ClientGone(c)
          PROVE  Depth' \in Nat /\ From(calls', Depth').op = "close_socket"
      BY <3>4, StackNew, NewFrames DEF ClientGone
    <3> QED BY <1>2, <3>1, <3>2, <3>3, <3>4
  <2> QED BY <2>1, <2>3 DEF Told, InUpdate, ReportOps, At
<1>3. CASE Step
  <2>0. calls # <<>>
    BY <1>3 DEF Step, UserOverflow, FirstClient, UpdateOverflow, UpdateReported, Connected,
       CloseSocket, ClientSend, SendOne, SendEnd, StorePush, StoreDiscard, StoreDirect,
       ForceGivesUp, Reported, SendRingbuffer, Drained, Sending, Forced, Running
  <2>1. /\ Depth \in Nat /\ Depth >= 1 /\ Top = At(Depth)
        /\ overflow_counter \in Nat /\ overflow_counter' \in Nat
        /\ Structure'
    BY <2>0, TopPhase, StructureStep DEF Structure, Types
  <2>2. /\ Overflow(overflow_counter) \in Message /\ Internal \in Message
        /\ ring # <<>> => Head(ring) \in Message
    BY Messages, HeadTailProperties DEF Structure, Types
  <2>3. CASE UserOverflow
    BY <2>0, <2>1, <2>3, CallsAfter DEF UserOverflow, Running, Told, InUpdate, ReportOps,
       Returned
  <2>4. CASE FirstClient
    <3>1. CASE IsFirstClient
      BY <2>4, <3>1 DEF FirstClient, Told
    <3>2. CASE ~IsFirstClient
      BY <2>0, <2>1, <2>4, <3>2, CallsAfter, ToldReturn DEF FirstClient, Running
    <3> QED BY <3>1, <3>2
  <2>5. CASE UpdateOverflow
    <3>1. Depth = 2 /\ At(1).op = "connected" /\ At(2).op = "update_overflow"
      BY <2>0, <2>1, <2>5, TopPhase, CallsAfter DEF UpdateOverflow, Running, Placed
    <3>2. state' = state /\ overflow_counter' = overflow_counter /\ ret' = ret
      BY <2>5 DEF UpdateOverflow, daemon
    <3>3. CASE UpdateDue
      <4>1. /\ Depth' = 3 /\ From(calls', 2).op = "update_reported"
            /\ From(calls', 3).op = "client_send"
        BY <2>0, <2>2, <2>5, <3>1, <3>3, CallsAfter, NewFrames DEF Called, Ops
      <4> QED BY <4>1 DEF Told, InUpdate, ReportOps, At
    <3>4. CASE ~UpdateDue
      <4>1. Depth' = 1 /\ From(calls', 1) = At(1)
        BY <2>0, <2>5, <3>1, <3>4, CallsAfter DEF Returned, Kept
      <4>2. state = "SEND_DIRECT" => overflow_counter = 0
        BY <2>1, <3>1, <3>4 DEF Told, ReportOps, UpdateDue
      <4> QED BY <3>1, <3>2, <4>1, <4>2 DEF Told, ReportOps, At
    <3> QED BY <3>3, <3>4
  <2>6. CASE UpdateReported
    <3>1. /\ Depth = 2 /\ At(1).op = "connected" /\ At(2).op = "update_reported"
          /\ Depth' = 1 /\ From(calls', 1) = At(1)
      BY <2>0, <2>1, <2>6, TopPhase, CallsAfter DEF UpdateReported, Running, Placed,
         Returned, Kept
    <3>2. state' = "SEND_DIRECT" => overflow_counter' = 0
      BY <2>1, <2>6, <3>1 DEF UpdateReported, ReportMade, Told, ReportOps
    <3> QED BY <3>1, <3>2 DEF Told, ReportOps, At
  <2>7. CASE Connected
    BY <2>0, <2>1, <2>7, CallsAfter, ToldReturn DEF Connected, Running
  <2>8. CASE CloseSocket
    <3>1. /\ Depth' = Depth + 1 /\ Kept(Depth - 1)
          /\ From(calls', Depth').op = "client_send"
      BY <2>0, <2>2, <2>8, CallsAfter, NewFrames DEF Called
    <3> QED BY <2>0, <2>1, <2>8, <3>1, ToldCall DEF CloseSocket, Running, ReportOps
  <2>9. CASE ClientSend
    <3>1. At(Depth).op = "client_send" /\ Top.msg \in Message
      BY <2>0, <2>1, <2>9, TopPhase DEF ClientSend, Running, Frame
    <3>2. /\ Depth' \in {Depth, Depth + 1} /\ Kept(Depth - 1)
          /\ From(calls', Depth').op \in {"store", "send_all"}
      BY <2>0, <2>1, <2>9, <3>1, CallsAfter, NewFrames DEF Called, Continued
    <3> QED BY <2>0, <2>1, <2>9, <3>1, <3>2, ToldCall DEF ClientSend, daemon, ReportOps
  <2>10. CASE SendOne
    <3>1. PICK g \in Frame :
           /\ Kept(Depth - 1) /\ At(Depth).op \in {"send_all", "send_force"}
           /\ pfd[Top.i] \in Client
           /\ From(calls', Depth) = g /\ g.op = At(Depth).op
           /\ \/ Depth' = Depth
              \/ Depth' = Depth + 1 /\ From(calls', Depth + 1) = Close(pfd[Top.i])
      BY <2>10, SendOneCalls
    <3>2. From(calls', Depth').op \in {"send_all", "send_force", "close_socket"}
      BY <3>1, NewFrames
    <3> QED BY <2>0, <2>1, <2>10, <3>1, <3>2, ToldCall DEF SendOne, daemon, ReportOps
  <2>11. CASE SendEnd
    <3>1. state' = state /\ overflow_counter' = overflow_counter /\ Returned
      BY <2>0, <2>11, CallsAfter DEF SendEnd, daemon
    <3>2. At(Depth).op \in {"send_all", "send_force"}
      BY <2>1, <2>11 DEF SendEnd, Sending, Running
    <3>3. state = "SEND_DIRECT" => ret' = "OK"
      BY <2>1, <2>11, <3>2, DirectState DEF SendEnd, ForceFailed, Direct, NoDrain, DrainOps
    <3>4. CASE state = "SEND_DIRECT"
      BY <2>0, <3>1, <3>2, <3>3, <3>4, ToldReturn
    <3>5. CASE state # "SEND_DIRECT"
      BY <3>1, <3>5 DEF Told
    <3> QED BY <3>4, <3>5
  <2>12. CASE StorePush \/ StoreDiscard
    BY <2>12 DEF StorePush, StoreDiscard, Buffering, Told
  <2>13. CASE StoreDirect
    <3>1. At(Depth).op \in {"store", "forced"}
      BY <2>1, <2>13 DEF StoreDirect, Forced, Running
    <3>2. CASE ReportDue
      <4>1. /\ Depth' = Depth + 1 /\ Kept(Depth - 1)
            /\ From(calls', Depth').op = "client_send"
        BY <2>0, <2>2, <2>13, <3>2, CallsAfter, NewFrames DEF Called
      <4> QED BY <2>0, <2>1, <2>13, <3>1, <4>1, ToldCall DEF StoreDirect, ReportOps
    <3>3. CASE ~ReportDue
      BY <2>0, <2>1, <2>13, <3>1, <3>3, CallsAfter, ToldReturn DEF StoreDirect
    <3> QED BY <3>2, <3>3
  <2>14. CASE ForceGivesUp
    <3>1. state # "SEND_DIRECT"
      BY <2>1, <2>14, DirectState DEF ForceGivesUp, Running, Direct, NoDrain, DrainOps
    <3> QED BY <2>14, <3>1 DEF ForceGivesUp, daemon, Told
  <2>15. CASE Reported
    <3>1. At(Depth).op = "reported" /\ Returned /\ state' = state /\ ret' = "OK"
      BY <2>0, <2>1, <2>15, CallsAfter DEF Reported, Running
    <3>2. state = "SEND_DIRECT" => overflow_counter' = 0
      BY <2>1, <2>15, <3>1 DEF Reported, ReportMade, Told, ReportOps
    <3>3. CASE state = "SEND_DIRECT"
      BY <2>0, <3>1, <3>2, <3>3, ToldReturn
    <3>4. CASE state # "SEND_DIRECT"
      BY <3>1, <3>4 DEF Told
    <3> QED BY <3>3, <3>4
  <2>16. CASE SendRingbuffer
    <3>1. CASE ring = <<>>
      <4>1. /\ Depth' = 2 /\ From(calls', 2) = At(2) /\ ret' = "OK"
        BY <2>0, <2>16, <3>1, CallsAfter DEF Returned, Kept, SendRingbuffer
      <4>2. At(2).op = "update_overflow"
        BY <2>0, <2>1, <2>16, TopPhase DEF SendRingbuffer, Running, Phase, Direct, First,
           Drain, NextHead, HeadCalls, Sends, NoClient, NoDrain, DrainOps, CutShort, Updating
      <4> QED BY <4>1, <4>2 DEF Told, InUpdate, At
    <3>2. CASE ring # <<>>
      <4>1. state' = state
        BY <2>16, <3>2 DEF SendRingbuffer
      <4>2. state # "SEND_DIRECT"
        BY <2>1, <2>16, DirectState DEF SendRingbuffer, Running, Direct, NoDrain, DrainOps
      <4> QED BY <4>1, <4>2 DEF Told
    <3> QED BY <3>1, <3>2
  <2>17. CASE Drained
    <3>1. state # "SEND_DIRECT"
      BY <2>1, <2>17, DirectState DEF Drained, Running, Direct, NoDrain, DrainOps
    <3>2. state' # "SEND_DIRECT"
      BY <2>17, <3>1 DEF Drained
    <3> QED BY <3>2 DEF Told
  <2> QED BY <1>3, <2>3, <2>4, <2>5, <2>6, <2>7, <2>8, <2>9, <2>10, <2>11, <2>12, <2>13,
             <2>14, <2>15, <2>16, <2>17 DEF Step
<1> QED BY <1>1, <1>2, <1>3 DEF Next

(* The pending loss of an application is untouched by the calls above it.  *)
LEMMA UserLossKept ==
  ASSUME Structure, calls # <<>>, Kept(Depth - 1), Depth' \in Nat, Depth' >= Depth - 1,
         At(Depth).op # "user_overflow",
         Depth' >= Depth => From(calls', Depth).op # "user_overflow"
  PROVE  UserLoss' = UserLoss
<1>1. Depth \in Nat /\ Depth >= 1
  BY TopPhase
<1>2. CASE Depth = 1
  BY <1>1, <1>2 DEF UserLoss, At
<1>3. CASE Depth > 1
  <2>1. Depth' >= 1 /\ From(calls', 1) = At(1)
    BY <1>1, <1>3 DEF Kept
  <2>2. Depth >= 1
    BY <1>1, <1>3
  <2> QED BY <2>1, <2>2 DEF UserLoss, At
<1> QED BY <1>1, <1>2, <1>3

LEMMA CountedStep ==
  ASSUME Structure, CountedOnce, [Next]_vars
  PROVE  CountedOnce'
<1>0. overflow_counter \in Nat /\ lost \in Nat /\ UserLoss \in {0, 1}
  BY DEF Structure, Types, UserLoss
<1>1. CASE UNCHANGED vars \/ PollTimeout \/ \E c \in Client : Break(c)
  BY <1>1 DEF CountedOnce, UserLoss, At, Depth, vars, daemon, history, PollTimeout, Break
<1>2. CASE AppLog \/ AppOverflow \/ \E c \in Client : Connect(c) \/ ClientGone(c)
  <2>1. Depth = 0 /\ overflow_counter' = overflow_counter /\ UserLoss = 0
    BY <1>2, IdlePhase DEF AppLog, AppOverflow, Connect, ClientGone, daemon, UserLoss
  <2>2. /\ Log(events + 1) \in Message /\ Internal \in Message
    BY Messages DEF Structure, Types
  <2>3. CASE AppLog
    <3>1. From(calls', 1).op = "client_send" /\ lost' = lost
      BY <2>2, <2>3, StackNew, NewFrames DEF AppLog, history
    <3> QED BY <1>0, <2>1, <3>1 DEF CountedOnce, UserLoss, At
  <2>4. CASE AppOverflow
    BY <1>0, <2>1, <2>4 DEF AppOverflow, CountedOnce, UserLoss
  <2>5. ASSUME NEW c \in Client, Connect(c)
        PROVE  CountedOnce'
    <3>1. calls' = <<Send(Internal), Call("first_client")>> /\ lost' = lost
      BY <2>5 DEF Connect, history
    <3>2. From(calls', 1).op = "first_client"
      BY <2>2, <3>1, StackNew, NewFrames DEF Ops
    <3> QED BY <1>0, <2>1, <3>1, <3>2 DEF CountedOnce, UserLoss, At
  <2>6. ASSUME NEW c \in Client, ClientGone(c)
        PROVE  CountedOnce'
    <3>1. From(calls', 1).op = "close_socket" /\ lost' = lost
      BY <2>6, StackNew, NewFrames DEF ClientGone, history
    <3> QED BY <1>0, <2>1, <3>1 DEF CountedOnce, UserLoss, At
  <2> QED BY <1>2, <2>3, <2>4, <2>5, <2>6
<1>3. CASE Step
  <2>0. calls # <<>>
    BY <1>3 DEF Step, UserOverflow, FirstClient, UpdateOverflow, UpdateReported, Connected,
       CloseSocket, ClientSend, SendOne, SendEnd, StorePush, StoreDiscard, StoreDirect,
       ForceGivesUp, Reported, SendRingbuffer, Drained, Sending, Forced, Running
  <2>1. /\ Depth \in Nat /\ Depth >= 1 /\ Top = At(Depth) /\ At(Depth) \in Frame
    BY <2>0, TopPhase
  <2>2. /\ Overflow(overflow_counter) \in Message /\ Internal \in Message
        /\ ring # <<>> => Head(ring) \in Message
    BY Messages, HeadTailProperties DEF Structure, Types
  <2>3. CASE UserOverflow
    <3>1. Depth = 1 /\ Depth' = 0
      BY <2>0, <2>3, CallsAfter DEF Returned
    <3>2. UserLoss = 1 /\ UserLoss' = 0
      BY <2>1, <2>3, <3>1 DEF UserLoss, UserOverflow, Running
    <3> QED BY <1>0, <2>3, <3>2 DEF CountedOnce, UserOverflow, history
  <2>4. CASE ~UserOverflow
    <3>1. /\ Kept(Depth - 1) /\ Depth' \in Nat /\ Depth' >= Depth - 1
          /\ Top.op # "user_overflow"
          /\ Depth' >= Depth => From(calls', Depth).op # "user_overflow"
      <4>1. CASE FirstClient
        BY <2>0, <2>1, <4>1, CallsAfter, NewFrames
        DEF CalledTwo, Returned, FirstClient, Running, Ops
      <4>2. CASE UpdateOverflow
        BY <2>0, <2>1, <2>2, <4>2, CallsAfter, NewFrames
        DEF Called, Returned, UpdateOverflow, Running, Ops
      <4>3. CASE UpdateReported \/ Connected
        BY <2>0, <2>1, <4>3, CallsAfter DEF Returned, UpdateReported, Connected, Running
      <4>4. CASE CloseSocket
        BY <2>0, <2>1, <2>2, <4>4, CallsAfter, NewFrames DEF Called, CloseSocket, Running
      <4>5. CASE ClientSend
        <5>1. Top.op = "client_send" /\ Top.msg \in Message
          BY <2>1, <4>5 DEF ClientSend, Running, Frame
        <5>2. Store(Top.msg).op = "store"
          BY <5>1, NewFrames
        <5>3. /\ Kept(Depth - 1) /\ Depth' \in {Depth, Depth + 1}
              /\ From(calls', Depth) = Store(Top.msg)
          BY <2>0, <4>5, CallsAfter DEF Called, Continued
        <5> QED BY <2>1, <5>1, <5>2, <5>3
      <4>6. CASE SendOne
        BY <4>6, SendOneCalls
      <4>7. CASE SendEnd \/ StorePush \/ StoreDiscard \/ ForceGivesUp \/ Reported
        BY <2>0, <2>1, <4>7, CallsAfter
        DEF Returned, SendEnd, StorePush, StoreDiscard, ForceGivesUp, Reported, Sending, Running
      <4>8. CASE StoreDirect
        BY <2>0, <2>1, <2>2, <4>8, CallsAfter, NewFrames
        DEF Called, Returned, StoreDirect, Forced, Running, Ops
      <4>9. CASE SendRingbuffer
        BY <2>0, <2>1, <2>2, <4>9, CallsAfter, NewFrames
        DEF CalledTwo, Returned, SendRingbuffer, Running, Ops
      <4>10. CASE Drained
        BY <2>0, <2>1, <4>10, CallsAfter, NewFrames
        DEF Continued, Returned, Drained, Running, Ops
      <4> QED BY <1>3, <2>4, <4>1, <4>2, <4>3, <4>4, <4>5, <4>6, <4>7, <4>8, <4>9, <4>10
              DEF Step
    <3>2. UserLoss' = UserLoss
      BY <2>0, <2>1, <3>1, UserLossKept
    <3>3. \/ overflow_counter' \in {0, overflow_counter} /\ lost' = lost
          \/ overflow_counter' = overflow_counter + 1 /\ lost' = lost + 1
      BY <1>3, <2>4 DEF Step, FirstClient, UpdateOverflow, UpdateReported, Connected,
         CloseSocket, ClientSend, SendOne, SendEnd, StorePush, StoreDiscard, StoreDirect,
         ForceGivesUp, Reported, SendRingbuffer, Drained, daemon, history
    <3> QED BY <1>0, <3>2, <3>3 DEF CountedOnce
  <2> QED BY <2>3, <2>4
<1> QED BY <1>1, <1>2, <1>3 DEF Next

LEMMA LossesCorrect == Spec => [](Structure /\ Told /\ CountedOnce)
<1>1. Init => Structure /\ Told /\ CountedOnce
  <2> SUFFICES ASSUME Init PROVE Structure /\ Told /\ CountedOnce
    OBVIOUS
  <2>1. Structure /\ calls = <<>>
    BY InitStructure DEF Init
  <2>2. Depth = 0
    BY <2>1, IdlePhase
  <2> QED BY <2>1, <2>2 DEF Init, Told, CountedOnce, UserLoss
<1>2. Structure /\ Told /\ CountedOnce /\ [Next]_vars => (Structure /\ Told /\ CountedOnce)'
  BY StructureStep, ToldStep, CountedStep
<1> QED BY <1>1, <1>2, PTL DEF Spec

(* No loss is kept from a connected client: when the event loop is idle    *)
(* and clients are connected, every lost message has been reported.        *)
THEOREM LossIsToldCorrect == Spec => []LossIsTold
<1>1. Structure /\ Told => LossIsTold
  BY IdlePhase DEF LossIsTold, Idle, Told, InUpdate, Direct, NoClient
<1> QED BY <1>1, LossesCorrect, PTL

(* The variables keep their types; the poll table holds a client once, the *)
(* ring buffer stays within its capacity, and no loss is counted twice.    *)
THEOREM TypeCorrect == Spec => []TypeOK
<1>1. Structure /\ CountedOnce => TypeOK
  <2> SUFFICES ASSUME Structure, CountedOnce PROVE TypeOK
    OBVIOUS
  <2>1. overflow_counter \in 0 .. lost
    BY DEF CountedOnce, UserLoss, Structure, Types
  <2> QED BY <2>1 DEF TypeOK, Structure, Types
<1> QED BY <1>1, LossesCorrect, PTL

-----------------------------------------------------------------------------
(* The recursion of the handlers is bounded, for every number of clients:  *)
(* through send, close and overflow report, each closed socket makes room  *)
(* for three more calls, and the report for one.                           *)

(* How many clients are not connected, and whether a report is under way   *)
(* below position j.                                                       *)
Free == Cardinality(Client) - Len(pfd)
Under(j) == IF \E k \in 1 .. j - 1 : At(k).op = "reported" THEN 1 ELSE 0

LowEnough(j) ==
  /\ At(j).op \in Sends => j <= 3 + Under(j) + 3 * Free
  /\ At(j).op = "send_all" =>
       j <= (IF pfd = <<>> THEN 1 ELSE 4) + Under(j) + 3 * Free
  /\ At(j).op = "close_socket" => j <= 5 + Under(j) + 3 * Free
  /\ At(j).op = "reported" => j <= 3 + 3 * Free

(* While the ring buffer is drained the stack has one of the shapes that   *)
(* Structure lists.                                                        *)
Bounded ==
  IF NoDrain THEN \A j \in 1 .. Depth : LowEnough(j) ELSE Client # {}

(* The poll table holds each client at most once.                          *)
LEMMA PollTableBound ==
  ASSUME NEW s \in Seq(Client), IsInjective(s)
  PROVE  /\ Cardinality(Client) \in Nat /\ Len(s) \in Nat
         /\ Cardinality(Client) - Len(s) \in Nat
<1>1. Len(s) \in Nat /\ s \in [1 .. Len(s) -> Client]
  BY LenProperties
<1>2. s \in Injection(1 .. Len(s), Client)
  BY <1>1 DEF Injection
<1>3. Cardinality(1 .. Len(s)) = Len(s)
  BY <1>1, FS_Interval
<1>4. Cardinality(1 .. Len(s)) <= Cardinality(Client)
  BY <1>2, RoutingAssumption, FS_Injection
<1>5. Cardinality(Client) \in Nat
  BY RoutingAssumption, FS_CardinalityType
<1> QED BY <1>1, <1>3, <1>4, <1>5

(* What a drain looks like from its bottom.                                *)
LEMMA DrainBottom ==
  ASSUME Structure, ~NoDrain
  PROVE  /\ Depth \in 3 .. 7 /\ At(1).op = "connected" /\ At(2).op = "update_overflow"
         /\ At(3).op \in {"drained", "send_ringbuffer"}
         /\ \A k \in 1 .. 2 : At(k).op # "reported"
BY DEF Structure, Direct, First, NoDrain, DrainOps, Sends, Drain, NextHead, HeadCalls,
   NoClient, CutShort, Updating

(* The callers of the running call stay what they are.                     *)
LEMMA UnderKept ==
  ASSUME Structure, calls # <<>>, Kept(Depth - 1), NEW j \in 1 .. Depth + 1
  PROVE  /\ Under(j)' \in {0, 1} /\ Under(j) \in {0, 1} /\ Under(Depth) \in {0, 1}
         /\ j <= Depth => Under(j)' = Under(j)
         /\ j = Depth + 1 => Under(j)' >= Under(Depth)
         /\ j = Depth + 1 /\ From(calls', Depth).op = "reported" => Under(j)' = 1
<1>1. Depth \in Nat /\ Depth >= 1
  BY TopPhase
<1>2. \A k \in 1 .. Depth - 1 : From(calls', k) = At(k)
  BY DEF Kept
<1>3. ASSUME j <= Depth PROVE Under(j)' = Under(j)
  <2>1. \A k \in 1 .. j - 1 : From(calls', k) = At(k)
    BY <1>1, <1>2, <1>3
  <2> QED BY <2>1 DEF Under, At
<1>4. ASSUME j = Depth + 1
      PROVE  /\ Under(j)' >= Under(Depth)
             /\ From(calls', Depth).op = "reported" => Under(j)' = 1
  <2>1. /\ \A k \in 1 .. Depth - 1 : k \in 1 .. j - 1
        /\ Depth \in 1 .. j - 1
    BY <1>1, <1>4
  <2>2. Under(j)' = 1 <=> \E k \in 1 .. j - 1 : From(calls', k).op = "reported"
    BY DEF Under, At
  <2>3. Under(Depth) = 1 => \E k \in 1 .. Depth - 1 : At(k).op = "reported"
    BY DEF Under
  <2>4. Under(Depth) = 1 => Under(j)' = 1
    BY <1>2, <2>1, <2>2, <2>3
  <2>5. Under(j)' \in {0, 1} /\ Under(Depth) \in {0, 1}
    BY DEF Under
  <2> QED BY <2>1, <2>2, <2>4, <2>5
<1>5. Under(j)' \in {0, 1} /\ Under(j) \in {0, 1} /\ Under(Depth) \in {0, 1}
  BY DEF Under
<1> QED BY <1>3, <1>4, <1>5

(* A closed socket only raises the bounds of the calls that wait.          *)
LEMMA LowKept ==
  ASSUME Structure, Structure', calls # <<>>, Kept(Depth - 1),
         pfd' = pfd \/ Len(pfd') = Len(pfd) - 1,
         NEW j \in 1 .. Depth - 1, LowEnough(j)
  PROVE  LowEnough(j)'
<1>1. /\ Depth \in Nat /\ Depth >= 1 /\ j \in 1 .. Depth + 1 /\ j <= Depth
  BY TopPhase
<1>2. /\ Under(j)' = Under(j) /\ Under(j) \in {0, 1} /\ From(calls', j) = At(j)
  BY <1>1, UnderKept DEF Kept
<1>3. /\ Len(pfd) \in Nat /\ Len(pfd') \in Nat
      /\ Free \in Nat /\ Free' \in Nat /\ Cardinality(Client) \in Nat
      /\ Free = Cardinality(Client) - Len(pfd)
      /\ Free' = Cardinality(Client) - Len(pfd')
  <2>1. /\ pfd \in Seq(Client) /\ IsInjective(pfd)
        /\ pfd' \in Seq(Client) /\ IsInjective(pfd')
    BY DEF Structure, Types
  <2> QED BY <2>1, PollTableBound DEF Free
<1>4. CASE pfd' = pfd
  <2>1. Free' = Free
    BY <1>4 DEF Free
  <2> QED BY <1>2, <1>4, <2>1 DEF LowEnough, At
<1>5. CASE Len(pfd') = Len(pfd) - 1
  <2>1. Free' = Free + 1 /\ pfd # <<>>
    BY <1>3, <1>5, EmptySeq
  <2>0. /\ 3 * Free \in Nat /\ 3 * Free' = 3 * Free + 3
        /\ j \in Nat /\ Under(j) \in {0, 1}
    BY <1>1, <1>2, <1>3, <2>1
  <2>2. At(j).op = "send_all" =>
          j <= (IF pfd' = <<>> THEN 1 ELSE 4) + Under(j) + 3 * Free'
    <3>1. At(j).op = "send_all" => j <= 4 + Under(j) + 3 * Free
      BY <2>1 DEF LowEnough
    <3>2. CASE pfd' = <<>>
      BY <2>0, <3>1, <3>2
    <3>3. CASE pfd' # <<>>
      BY <2>0, <3>1, <3>3
    <3> QED BY <3>2, <3>3
  <2>3. /\ At(j).op \in Sends => j <= 3 + Under(j) + 3 * Free'
        /\ At(j).op = "close_socket" => j <= 5 + Under(j) + 3 * Free'
        /\ At(j).op = "reported" => j <= 3 + 3 * Free'
    BY <2>0 DEF LowEnough
  <2> QED BY <1>2, <2>2, <2>3 DEF LowEnough, At
<1> QED BY <1>4, <1>5

(* During a drain, and when it ends.                                       *)
LEMMA DrainBounded ==
  ASSUME Structure, Bounded, ~NoDrain, Step
  PROVE  Bounded'
<1>0. /\ Depth \in 3 .. 7 /\ At(1).op = "connected" /\ At(2).op = "update_overflow"
      /\ At(3).op \in {"drained", "send_ringbuffer"} /\ calls # <<>> /\ Top = At(Depth)
  <2>1. Depth \in 3 .. 7 /\ calls # <<>>
    BY DrainBottom, EmptySeq DEF Depth
  <2> QED BY <2>1, DrainBottom, TopPhase
<1>1. Client # {}
  BY DEF Bounded
<1>2. CASE Depth > 3
  <2>1. Kept(Depth - 1) /\ Depth' \in Nat /\ Depth' >= Depth - 1
    <3>1. ~UserOverflow /\ ~FirstClient /\ ~UpdateOverflow /\ ~UpdateReported /\ ~Connected
          /\ ~SendRingbuffer /\ ~Drained
      BY <1>0, <1>2, CallsAfter
    <3>2. CASE SendOne
      BY <3>2, SendOneCalls
    <3>3. CASE CloseSocket \/ ClientSend \/ SendEnd \/ StorePush \/ StoreDiscard
               \/ StoreDirect \/ ForceGivesUp \/ Reported
      BY <1>0, <3>3, CallsAfter DEF Called, Continued, Returned
    <3> QED BY <3>1, <3>2, <3>3 DEF Step
  <2>2. From(calls', 3) = At(3) /\ 3 \in 1 .. Depth'
    BY <1>0, <1>2, <2>1 DEF Kept
  <2>3. ~NoDrain'
    BY <1>0, <2>2 DEF NoDrain, DrainOps, At
  <2> QED BY <1>1, <2>3 DEF Bounded
<1>3. CASE Depth = 3
  <2>1. SendRingbuffer \/ Drained
    BY <1>0, <1>3, CallsAfter DEF Step, UserOverflow, FirstClient, UpdateOverflow,
       UpdateReported, Connected, CloseSocket, ClientSend, SendOne, SendEnd, StorePush,
       StoreDiscard, StoreDirect, ForceGivesUp, Reported, Sending, Forced, Running
  <2>2. \/ Depth' = 2 /\ From(calls', 1) = At(1) /\ From(calls', 2) = At(2)
        \/ Depth' = 3 /\ From(calls', 3).op = "send_ringbuffer"
        \/ Depth' = 5 /\ From(calls', 3).op = "drained"
    BY <1>0, <1>3, <2>1, CallsAfter, NewFrames
    DEF Returned, CalledTwo, Continued, Kept, Ops
  <2>3. CASE Depth' = 2 /\ From(calls', 1) = At(1) /\ From(calls', 2) = At(2)
    <3>1. \A j \in 1 .. Depth' : LowEnough(j)'
      BY <1>0, <2>3 DEF LowEnough, At, Sends
    <3>2. NoDrain'
      BY <1>0, <2>3 DEF NoDrain, DrainOps, At
    <3> QED BY <3>1, <3>2 DEF Bounded
  <2>4. CASE Depth' >= 3 /\ From(calls', 3).op \in DrainOps
    <3>1. ~NoDrain'
      BY <1>0, <2>2, <2>4 DEF NoDrain, At
    <3> QED BY <1>1, <3>1 DEF Bounded
  <2> QED BY <2>2, <2>3, <2>4 DEF DrainOps
<1> QED BY <1>0, <1>2, <1>3

(* The bounds as natural numbers.                                          *)
LEMMA Bounds ==
  ASSUME Structure
  PROVE  /\ 3 * Free \in Nat
         /\ Structure' /\ Len(pfd') = Len(pfd) - 1 => 3 * Free' = 3 * Free + 3
         /\ pfd' = pfd => Free' = Free
<1>1. Free \in Nat /\ Cardinality(Client) \in Nat /\ Len(pfd) \in Nat
  BY PollTableBound DEF Structure, Types, Free
<1>2. ASSUME Structure', Len(pfd') = Len(pfd) - 1
      PROVE  3 * Free' = 3 * Free + 3
  <2>1. Free' = Free + 1
    BY <1>1, <1>2 DEF Free
  <2> QED BY <1>1, <2>1
<1>3. pfd' = pfd => Free' = Free
  BY DEF Free
<1> QED BY <1>1, <1>2, <1>3

(* Outside a drain, when the calls that are made stay low enough.          *)
LEMMA StackBounded ==
  ASSUME Structure, Structure', calls # <<>>, NoDrain, Bounded,
         Kept(Depth - 1), Depth' \in Nat, Depth' >= Depth - 1,
         pfd' = pfd \/ Len(pfd') = Len(pfd) - 1,
         \A k \in Depth .. Depth' : From(calls', k).op \notin DrainOps /\ LowEnough(k)'
  PROVE  Bounded'
<1>1. Depth \in Nat /\ Depth >= 1
  BY TopPhase
<1>2. \A j \in 1 .. Depth - 1 : LowEnough(j)'
  BY <1>1, LowKept DEF Bounded
<1>3. \A j \in 1 .. Depth' : LowEnough(j)'
  BY <1>1, <1>2
<1>4. NoDrain'
  <2> SUFFICES ASSUME NEW k \in 1 .. Depth' PROVE From(calls', k).op \notin DrainOps
    BY DEF NoDrain, At
  <2>1. CASE k < Depth
    BY <1>1, <2>1 DEF NoDrain, Kept
  <2>2. CASE k >= Depth
    BY <1>1, <2>2
  <2> QED BY <1>1, <2>1, <2>2
<1> QED BY <1>3, <1>4 DEF Bounded

(* Outside a drain.                                                        *)
LEMMA DirectBounded ==
  ASSUME Structure, Bounded, NoDrain, calls # <<>>, Step
  PROVE  Bounded'
<1>0. /\ Depth \in Nat /\ Depth >= 1 /\ Top = At(Depth) /\ At(Depth) \in Frame
      /\ Placed(Depth) /\ At(Depth).op \notin DrainOps /\ LowEnough(Depth)
      /\ Structure' /\ Phase
  <2>1. Depth \in Nat /\ Depth >= 1 /\ Depth \in 1 .. Depth
    BY TopPhase
  <2> QED BY <2>1, TopPhase, StructureStep DEF NoDrain, Bounded, Next
<1>1. /\ Overflow(overflow_counter) \in Message /\ Internal \in Message
  BY Messages DEF Structure, Types
<1>2. 3 * Free \in Nat /\ Under(Depth) \in {0, 1}
  BY Bounds DEF Under
<1>3. ASSUME Returned, pfd' = pfd
      PROVE  Bounded'
  <2>1. Depth' \in Nat /\ Depth' >= Depth - 1 /\ Depth .. Depth' = {}
    BY <1>0, <1>3 DEF Returned
  <2> QED BY <1>0, <1>3, <2>1, StackBounded DEF Returned
<1>4. CASE UserOverflow \/ UpdateReported \/ Connected \/ SendEnd \/ StorePush
           \/ StoreDiscard \/ Reported
  BY <1>3, <1>4, CallsAfter DEF UserOverflow, UpdateReported, Connected, SendEnd, StorePush,
     StoreDiscard, Reported, daemon
<1>5. CASE FirstClient
  <2>1. CASE IsFirstClient
    <3>1. /\ Depth' = 3 /\ From(calls', 3).op = "send_ringbuffer"
      BY <1>5, <2>1, CallsAfter, NewFrames DEF CalledTwo, Ops
    <3>2. pfd[1] \in Client
      <4>1. 1 \in 1 .. Len(pfd) /\ pfd \in Seq(Client)
        BY <2>1 DEF IsFirstClient, client_connections, Structure, Types
      <4> QED BY <4>1, ElementOfSeq
    <3>3. ~NoDrain'
      BY <3>1 DEF NoDrain, DrainOps, At
    <3> QED BY <3>2, <3>3 DEF Bounded
  <2>2. CASE ~IsFirstClient
    BY <1>3, <1>5, <2>2, CallsAfter DEF FirstClient
  <2> QED BY <2>1, <2>2
<1>6. CASE UpdateOverflow
  <2>1. CASE UpdateDue
    <3>1. /\ Depth = 2 /\ Depth' = 3 /\ Kept(1)
          /\ From(calls', 2).op = "update_reported"
          /\ From(calls', 3).op = "client_send" /\ pfd' = pfd
      BY <1>1, <1>6, <2>1, CallsAfter, NewFrames DEF Called, Ops, UpdateOverflow, daemon
    <3>2. 3 * Free' \in Nat /\ Under(3)' \in {0, 1}
      BY <1>2, <3>1, Bounds DEF Under
    <3>3. LowEnough(2)' /\ LowEnough(3)'
      BY <3>1, <3>2 DEF LowEnough, Sends, At
    <3> QED BY <1>0, <3>1, <3>3, StackBounded DEF DrainOps
  <2>2. CASE ~UpdateDue
    BY <1>3, <1>6, <2>2, CallsAfter DEF UpdateOverflow, daemon
  <2> QED BY <2>1, <2>2
<1>7. CASE CloseSocket
  <2>1. /\ Depth' = Depth + 1 /\ Kept(Depth - 1)
        /\ From(calls', Depth).op = "client_send"
        /\ From(calls', Depth + 1).op = "client_send"
    BY <1>1, <1>7, CallsAfter, NewFrames DEF Called
  <2>2. Top.op = "close_socket"
    BY <1>7 DEF CloseSocket, Running
  <2>3. Len(pfd') = Len(pfd) - 1
    BY <1>0, <1>7, <2>2, WithoutClient DEF Placed, CloseSocket, Structure, Types
  <2>4. 3 * Free' = 3 * Free + 3
    BY <1>0, <2>3, Bounds
  <2>5. Depth <= 5 + Under(Depth) + 3 * Free
    BY <1>0, <2>2 DEF LowEnough
  <2>6. ASSUME NEW k \in Depth .. Depth'
        PROVE  From(calls', k).op \notin DrainOps /\ LowEnough(k)'
    <3>1. k \in 1 .. Depth + 1 /\ From(calls', k).op = "client_send"
      BY <1>0, <2>1
    <3>2. Under(k)' \in {0, 1} /\ Under(k)' >= Under(Depth)
      BY <1>0, <2>1, <3>1, UnderKept
    <3>3. k <= 3 + Under(k)' + 3 * Free'
      BY <1>0, <1>2, <2>1, <2>4, <2>5, <3>1, <3>2
    <3> QED BY <3>1, <3>3 DEF LowEnough, DrainOps, At
  <2>7. Depth' \in Nat /\ Depth' >= Depth - 1
    BY <1>0, <2>1
  <2> QED BY <1>0, <2>1, <2>3, <2>6, <2>7, StackBounded
<1>8. CASE ClientSend
  <2>1. Top.op = "client_send" /\ Top.msg \in Message /\ pfd' = pfd
    BY <1>0, <1>8 DEF ClientSend, Running, Frame, daemon
  <2>2. /\ Kept(Depth - 1) /\ From(calls', Depth).op = "store"
        /\ \/ Depth' = Depth
           \/ /\ Depth' = Depth + 1 /\ state = "SEND_DIRECT"
              /\ From(calls', Depth + 1).op = "send_all"
    BY <1>8, <2>1, CallsAfter, NewFrames DEF Called, Continued
  <2>3. Depth <= 3 + Under(Depth) + 3 * Free /\ Free' = Free
    BY <1>0, <2>1, Bounds DEF LowEnough, Sends
  <2>4. ASSUME NEW k \in Depth .. Depth'
        PROVE  From(calls', k).op \notin DrainOps /\ LowEnough(k)'
    <3>1. k \in 1 .. Depth + 1 /\ (k = Depth \/ k = Depth + 1)
      BY <1>0, <2>2
    <3>2. Under(k)' \in {0, 1} /\ Under(k)' >= Under(Depth)
      BY <1>0, <1>2, <2>2, <3>1, UnderKept
    <3>3. CASE k = Depth
      BY <1>0, <1>2, <2>2, <2>3, <3>2, <3>3 DEF LowEnough, DrainOps, At
    <3>4. CASE k = Depth + 1
      <4>1. pfd # <<>> /\ From(calls', k).op = "send_all"
        BY <1>0, <2>2, <3>4, DirectState DEF Direct
      <4>2. k <= 4 + Under(k)' + 3 * Free'
        BY <1>0, <1>2, <2>3, <3>2, <3>4
      <4> QED BY <2>1, <4>1, <4>2 DEF LowEnough, DrainOps, Sends, At
    <3> QED BY <3>1, <3>3, <3>4
  <2>5. Depth' \in Nat /\ Depth' >= Depth - 1
    BY <1>0, <2>2
  <2> QED BY <1>0, <2>1, <2>2, <2>4, <2>5, StackBounded
<1>9. CASE SendOne
  <2>1. PICK g \in Frame :
           /\ Kept(Depth - 1) /\ At(Depth).op \in {"send_all", "send_force"}
           /\ Top.i \in 1 .. Len(pfd) /\ pfd[Top.i] \in Client
           /\ From(calls', Depth) = g /\ g.op = At(Depth).op
           /\ \/ Depth' = Depth
              \/ Depth' = Depth + 1 /\ From(calls', Depth + 1) = Close(pfd[Top.i])
    BY <1>0, <1>9, SendOneCalls
  <2>2. /\ At(Depth).op = "send_all" /\ pfd' = pfd /\ pfd # <<>>
        /\ From(calls', Depth).op = "send_all"
    BY <1>0, <1>9, <2>1, EmptySeq DEF DrainOps, SendOne, daemon
  <2>3. Depth <= 4 + Under(Depth) + 3 * Free /\ Free' = Free
    BY <1>0, <2>2, Bounds DEF LowEnough
  <2>4. ASSUME NEW k \in Depth .. Depth'
        PROVE  From(calls', k).op \notin DrainOps /\ LowEnough(k)'
    <3>1. k \in 1 .. Depth + 1 /\ (k = Depth \/ k = Depth + 1)
      BY <1>0, <2>1
    <3>2. Under(k)' \in {0, 1} /\ Under(k)' >= Under(Depth)
      BY <1>0, <1>2, <2>1, <3>1, UnderKept
    <3>3. CASE k = Depth
      <4>1. k <= 4 + Under(k)' + 3 * Free'
        BY <1>0, <1>2, <2>3, <3>2, <3>3
      <4> QED BY <2>2, <3>3, <4>1 DEF LowEnough, DrainOps, Sends, At
    <3>4. CASE k = Depth + 1
      <4>1. From(calls', k).op = "close_socket"
        BY <1>0, <2>1, <3>4, NewFrames
      <4>2. k <= 5 + Under(k)' + 3 * Free'
        BY <1>0, <1>2, <2>3, <3>2, <3>4
      <4> QED BY <4>1, <4>2 DEF LowEnough, DrainOps, Sends, At
    <3> QED BY <3>1, <3>3, <3>4
  <2>5. Depth' \in Nat /\ Depth' >= Depth - 1
    BY <1>0, <2>1
  <2> QED BY <1>0, <2>1, <2>2, <2>4, <2>5, StackBounded
<1>10. CASE StoreDirect
  <2>1. CASE ReportDue
    <3>1. /\ Depth' = Depth + 1 /\ Kept(Depth - 1) /\ pfd' = pfd
          /\ From(calls', Depth).op = "reported"
          /\ From(calls', Depth + 1).op = "client_send"
      BY <1>1, <1>10, <2>1, CallsAfter, NewFrames DEF Called, Ops, StoreDirect
    <3>2. Top.op = "store" /\ overflow_cnt = 0
      BY <1>0, <1>10, <2>1 DEF StoreDirect, Forced, Running, DrainOps, ReportDue
    <3>3. Under(Depth) = 0
      BY <1>0, <3>2 DEF Under, Structure, Places, Placed
    <3>4. Depth <= 3 + 3 * Free /\ Free' = Free
      BY <1>0, <1>2, <3>1, <3>2, <3>3, Bounds DEF LowEnough, Sends
    <3>5. ASSUME NEW k \in Depth .. Depth'
          PROVE  From(calls', k).op \notin DrainOps /\ LowEnough(k)'
      <4>1. k \in 1 .. Depth + 1 /\ (k = Depth \/ k = Depth + 1)
        BY <1>0, <3>1
      <4>2. CASE k = Depth
        BY <1>0, <3>1, <3>4, <4>2 DEF LowEnough, DrainOps, Sends, At
      <4>3. CASE k = Depth + 1
        <5>1. Under(k)' = 1
          BY <3>1, <4>1, <4>3, UnderKept
        <5>2. k <= 3 + Under(k)' + 3 * Free'
          BY <1>0, <1>2, <3>4, <4>3, <5>1
        <5> QED BY <3>1, <4>3, <5>2 DEF LowEnough, DrainOps, Sends, At
      <4> QED BY <4>1, <4>2, <4>3
    <3>6. Depth' \in Nat /\ Depth' >= Depth - 1
      BY <1>0, <3>1
    <3> QED BY <1>0, <3>1, <3>5, <3>6, StackBounded
  <2>2. CASE ~ReportDue
    BY <1>3, <1>10, <2>2, CallsAfter DEF StoreDirect
  <2> QED BY <2>1, <2>2
<1>11. ~ForceGivesUp /\ ~SendRingbuffer /\ ~Drained
  BY <1>0 DEF ForceGivesUp, SendRingbuffer, Drained, Running, DrainOps
<1> QED BY <1>4, <1>5, <1>6, <1>7, <1>8, <1>9, <1>10, <1>11 DEF Step

LEMMA BoundedStep ==
  ASSUME Structure, Bounded, [Next]_vars
  PROVE  Bounded'
<1>1. CASE UNCHANGED vars \/ PollTimeout \/ \E c \in Client : Break(c)
  BY <1>1 DEF Bounded, NoDrain, LowEnough, Under, Free, At, Depth, vars, daemon, PollTimeout,
     Break
<1>2. CASE AppLog \/ AppOverflow \/ \E c \in Client : Connect(c) \/ ClientGone(c)
  <2>1. /\ Log(events + 1) \in Message /\ Overflow(1) \in Message /\ Internal \in Message
    BY Messages DEF Structure, Types
  <2>2. /\ Depth' \in {1, 2}
        /\ \A k \in 1 .. 2 : k <= Depth' =>
             From(calls', k).op \in {"client_send", "close_socket", "user_overflow",
                                     "first_client"}
    <3>1. CASE AppLog
      BY <3>1, <2>1, StackNew, NewFrames DEF AppLog
    <3>2. CASE AppOverflow
      <4>1. calls' = <<Send(Overflow(1)), Call("user_overflow")>>
        BY <3>2 DEF AppOverflow
      <4> QED BY <4>1, <2>1, StackNew, NewFrames DEF Ops
    <3>3. ASSUME NEW c \in Client, Connect(c)
          PROVE  /\ Depth' = 2 /\ From(calls', 1).op = "first_client"
                 /\ From(calls', 2).op = "client_send"
      <4>1. calls' = <<Send(Internal), Call("first_client")>>
        BY <3>3 DEF Connect
      <4> QED BY <4>1, <2>1, StackNew, NewFrames DEF Ops
    <3>4. ASSUME NEW c \in Client, ClientGone(c)
          PROVE  Depth' = 1 /\ From(calls', 1).op = "close_socket"
      BY <3>4, StackNew, NewFrames DEF ClientGone
    <3> QED BY <1>2, <3>1, <3>2, <3>3, <3>4
  <2>3. 3 * Free' \in Nat
    <3>1. Free' \in Nat
      BY StructureStep, PollTableBound DEF Structure, Types, Free
    <3>2. \A n \in Nat : 3 * n \in Nat
      OBVIOUS
    <3> QED BY <3>1, <3>2
  <2>4. ASSUME NEW k \in 1 .. Depth' PROVE LowEnough(k)' /\ At(k)'.op \notin DrainOps
    <3>1. k \in {1, 2} /\ Under(k)' \in {0, 1}
      BY <2>2 DEF Under
    <3> QED BY <2>2, <2>3, <3>1 DEF LowEnough, Sends, DrainOps, At
  <2> QED BY <2>4 DEF Bounded, NoDrain
<1>3. CASE Step
  <2>1. calls # <<>>
    BY <1>3 DEF Step, UserOverflow, FirstClient, UpdateOverflow, UpdateReported, Connected,
       CloseSocket, ClientSend, SendOne, SendEnd, StorePush, StoreDiscard, StoreDirect,
       ForceGivesUp, Reported, SendRingbuffer, Drained, Sending, Forced, Running
  <2> QED BY <1>3, <2>1, DrainBounded, DirectBounded
<1> QED BY <1>1, <1>2, <1>3 DEF Next

(* However many clients break while something is sent, the handlers'       *)
(* recursion stays within MaxDepth.                                        *)
THEOREM BoundedRecursionCorrect == Spec => []BoundedRecursion
<1>1. Init => Structure /\ Bounded
  <2> SUFFICES ASSUME Init PROVE Structure /\ Bounded
    OBVIOUS
  <2>1. Structure /\ calls = <<>>
    BY InitStructure DEF Init
  <2> QED BY <2>1, IdlePhase DEF Bounded
<1>2. Structure /\ Bounded /\ [Next]_vars => (Structure /\ Bounded)'
  BY StructureStep, BoundedStep
<1>3. Structure /\ Bounded => BoundedRecursion
  <2> SUFFICES ASSUME Structure, Bounded, calls # <<>> PROVE Depth <= MaxDepth
    <3>1. ASSUME Structure, calls = <<>> PROVE Depth <= MaxDepth
      <4>1. Cardinality(Client) \in Nat /\ Depth = 0
        BY <3>1, IdlePhase, PollTableBound DEF Structure, Types
      <4> QED BY <4>1 DEF MaxDepth
    <3> QED BY <3>1 DEF BoundedRecursion, Depth
  <2>1. /\ Depth \in Nat /\ Depth >= 1 /\ Depth \in 1 .. Depth /\ Placed(Depth)
        /\ At(Depth).op \in Ops
    BY TopPhase DEF Frame
  <2>2. /\ Cardinality(Client) \in Nat /\ Len(pfd) \in Nat /\ Free \in Nat
        /\ Free = Cardinality(Client) - Len(pfd)
    BY PollTableBound DEF Structure, Types, Free
  <2>3. CASE ~NoDrain
    <3>1. Client # {} /\ Depth <= 7
      BY <2>3, DrainBottom DEF Bounded
    <3>2. Cardinality(Client) >= 1
      BY <2>2, <3>1, RoutingAssumption, FS_EmptySet
    <3> QED BY <2>1, <2>2, <3>1, <3>2 DEF MaxDepth
  <2>4. CASE NoDrain
    <3>1. LowEnough(Depth) /\ At(Depth).op \notin DrainOps /\ Under(Depth) \in {0, 1}
      BY <2>1, <2>4 DEF Bounded, NoDrain, Under
    <3>2. pfd # <<>> => Len(pfd) >= 1
      BY EmptySeq DEF Structure, Types
    <3>3. CASE At(Depth).op = "close_socket"
      <4>1. pfd # <<>>
        BY <2>1, <3>3, EmptySeq DEF Placed, Range
      <4> QED BY <2>1, <2>2, <3>1, <3>2, <3>3, <4>1 DEF LowEnough, MaxDepth
    <3>4. CASE At(Depth).op = "send_all"
      <4>1. CASE pfd = <<>>
        BY <2>1, <2>2, <3>1, <3>4, <4>1 DEF LowEnough, MaxDepth
      <4>2. CASE pfd # <<>>
        BY <2>1, <2>2, <3>1, <3>2, <3>4, <4>2 DEF LowEnough, MaxDepth
      <4> QED BY <4>1, <4>2
    <3>5. CASE At(Depth).op \in Sends \cup {"reported"}
      BY <2>1, <2>2, <3>1, <3>5 DEF LowEnough, MaxDepth
    <3>6. CASE At(Depth).op \notin Sends \cup {"reported", "close_socket", "send_all"}
      BY <2>1, <2>2, <3>1, <3>6 DEF Placed, Ops, Sends, DrainOps, MaxDepth
    <3> QED BY <3>3, <3>4, <3>5, <3>6
  <2> QED BY <2>3, <2>4
<1> QED BY <1>1, <1>2, <1>3, PTL DEF Spec
=============================================================================
