---------------------- MODULE DaemonRoutingLogProofs ----------------------
(***************************************************************************)
(* Log messages on their way through the daemon, for every set of clients, *)
(* every capacity of the ring buffer and any number of messages: none      *)
(* overtakes another, and none is lost without being counted.              *)
(*                                                                         *)
(* One message of an application is on its way at a time: its number is    *)
(* "events", and it is at the bottom of the call stack.  Everything that   *)
(* clients were sent, and everything in the ring buffer, is older.         *)
(***************************************************************************)
EXTENDS DaemonRoutingProofs, FoldProofs

IsLog(m) == m.kind = "log"
LogsIn(s) == {s[k].n : k \in {j \in 1 .. Len(s) : s[j].kind = "log"}}
Got == UNION {Range(received[c]) : c \in Client}

(* The call at position j sends or stores a log message, or runs the loop  *)
(* over the poll table for one.                                            *)
LogSend(j) == At(j).op \in Sends /\ IsLog(At(j).msg)
LogLoop(j) == At(j).op = "send_all" /\ IsLog(At(j).msg)

(* While the ring buffer is drained: its head has been sent.               *)
HeadSent ==
  /\ Depth >= 3 /\ At(3).op = "drained" /\ pfd # <<>>
  /\ ~(Depth >= 5 /\ At(5).op = "send_force" /\ ~At(5).sent)

(* The message on its way.  A client that is still to come in the loop has *)
(* only older ones; a message that is neither stored nor sent any more has *)
(* been sent, or one of its sends closed a socket.                         *)
OnItsWay ==
  /\ At(1).msg.n = events /\ events >= 1
  /\ \A x \in InRing : x < events
  /\ At(1).op = "client_send" => Depth = 1 /\ \A x \in Got : x < events
  /\ At(1).op = "store" /\ Depth >= 2 => LogLoop(2)
  /\ At(1).op = "store" /\ Depth = 1 =>
       IF state = "SEND_DIRECT" THEN events \in hit \cup Got
       ELSE events \in hit \/ events \notin Got
InLoop ==
  /\ \A k \in 1 .. Len(pfd) :
       k >= At(2).i => \A x \in Range(received[pfd[k]]) : x < events
  /\ \/ At(2).i = 1 /\ Depth = 2 /\ state = "SEND_DIRECT"
     \/ events \in hit \cup Got
  /\ Depth > 2 \/ state # "SEND_DIRECT" => events \in hit
Flights ==
  /\ \A j \in 1 .. Depth : (LogSend(j) => j = 1) /\ (LogLoop(j) => j = 2)
  /\ Depth >= 1 /\ LogSend(1) => OnItsWay
  /\ Depth >= 2 /\ LogLoop(2) => InLoop

(* The ring buffer is in order, and what clients were sent is older: but   *)
(* for the head that is being drained, and a message that was stored after *)
(* its own send had closed the last socket.                                *)
Older(x, k) ==
  \/ x < ring[k].n
  \/ x = ring[k].n /\ (x \in hit \/ (k = 1 /\ HeadSent))
Queue ==
  /\ \A x \in InRing \cup Got : x \in Nat /\ x <= events
  /\ \A k, l \in 1 .. Len(ring) :
       k < l /\ IsLog(ring[k]) /\ IsLog(ring[l]) => ring[k].n < ring[l].n
  /\ \A k \in 1 .. Len(ring) : IsLog(ring[k]) => \A x \in Got : Older(x, k)

(* Every message is accounted for, or on its way.                          *)
Pending == IF Depth >= 1 /\ LogSend(1) THEN {events} ELSE {}
Accounts ==
  /\ 1 .. events \subseteq hit \cup Accounted \cup Pending
  /\ HeadSent /\ IsLog(Head(ring)) => Head(ring).n \in Got

-----------------------------------------------------------------------------
(* The ring buffer and the received messages.                              *)

LEMMA LogsAppended ==
  ASSUME NEW s \in Seq(Message), NEW m \in Message
  PROVE  LogsIn(Append(s, m)) = LogsIn(s) \cup (IF IsLog(m) THEN {m.n} ELSE {})
<1> DEFINE t == Append(s, m)
<1>1. /\ t \in Seq(Message) /\ Len(t) = Len(s) + 1 /\ t[Len(s) + 1] = m
      /\ \A k \in 1 .. Len(s) : t[k] = s[k]
      /\ Len(s) \in Nat
  BY AppendProperties, LenProperties
<1> HIDE DEF t
<1>2. \A k \in 1 .. Len(t) : k \in 1 .. Len(s) \/ k = Len(s) + 1
  BY <1>1
<1>3. Len(s) + 1 \in 1 .. Len(t) /\ \A k \in 1 .. Len(s) : k \in 1 .. Len(t)
  BY <1>1
<1>4. ASSUME NEW x \in LogsIn(t)
      PROVE  x \in LogsIn(s) \cup (IF IsLog(m) THEN {m.n} ELSE {})
  <2>1. PICK k \in 1 .. Len(t) : t[k].kind = "log" /\ x = t[k].n
    BY <1>4 DEF LogsIn
  <2> QED BY <1>1, <1>2, <2>1 DEF LogsIn, IsLog
<1>5. ASSUME NEW x \in LogsIn(s) PROVE x \in LogsIn(t)
  BY <1>1, <1>3, <1>5 DEF LogsIn
<1>6. IsLog(m) => m.n \in LogsIn(t)
  BY <1>1, <1>3 DEF LogsIn, IsLog
<1> QED BY <1>4, <1>5, <1>6 DEF t

LEMMA LogsRemoved ==
  ASSUME NEW s \in Seq(Message), s # <<>>
  PROVE  /\ LogsIn(Tail(s)) \subseteq LogsIn(s)
         /\ LogsIn(s) \subseteq LogsIn(Tail(s)) \cup (IF IsLog(Head(s)) THEN {Head(s).n} ELSE {})
<1> DEFINE t == Tail(s)
<1>1. /\ t \in Seq(Message) /\ Len(t) = Len(s) - 1 /\ Head(s) = s[1]
      /\ \A k \in 1 .. Len(s) - 1 : t[k] = s[k + 1]
      /\ Len(s) \in Nat /\ Len(s) >= 1
  BY HeadTailProperties, LenProperties, EmptySeq
<1> HIDE DEF t
<1>2. ASSUME NEW x \in LogsIn(t) PROVE x \in LogsIn(s)
  <2>1. PICK k \in 1 .. Len(t) : t[k].kind = "log" /\ x = t[k].n
    BY <1>2 DEF LogsIn
  <2>2. k + 1 \in 1 .. Len(s) /\ t[k] = s[k + 1]
    BY <1>1
  <2> QED BY <2>1, <2>2 DEF LogsIn
<1>3. ASSUME NEW x \in LogsIn(s)
      PROVE  x \in LogsIn(t) \cup (IF IsLog(Head(s)) THEN {Head(s).n} ELSE {})
  <2>1. PICK k \in 1 .. Len(s) : s[k].kind = "log" /\ x = s[k].n
    BY <1>3 DEF LogsIn
  <2>2. CASE k = 1
    BY <1>1, <2>1, <2>2 DEF IsLog
  <2>3. CASE k # 1
    <3>1. k - 1 \in 1 .. Len(t) /\ t[k - 1] = s[k]
      BY <1>1, <2>3
    <3> QED BY <2>1, <3>1 DEF LogsIn
  <2> QED BY <2>2, <2>3
<1> QED BY <1>2, <1>3 DEF t

LEMMA RingLogs ==
  /\ InRing = LogsIn(ring)
  /\ \A k \in 1 .. Len(ring) : IsLog(ring[k]) => ring[k].n \in InRing
BY DEF InRing, LogsIn, IsLog

(* A client that was sent a message has received one more.                 *)
LEMMA Sent ==
  ASSUME received \in [Client -> Seq(Nat)], NEW c \in Client, NEW n \in Nat,
         received' = [received EXCEPT ![c] = Append(@, n)]
  PROVE  /\ received'[c] = Append(received[c], n)
         /\ \A d \in Client \ {c} : received'[d] = received[d]
         /\ Range(received'[c]) = Range(received[c]) \cup {n}
         /\ Got' = Got \cup {n}
<1>1. /\ received[c] \in Seq(Nat) /\ received'[c] = Append(received[c], n)
      /\ \A d \in Client \ {c} : received'[d] = received[d]
  OBVIOUS
<1>2. Range(Append(received[c], n)) = Range(received[c]) \cup {n}
  <2> DEFINE s == received[c]
             t == Append(s, n)
  <2>1. /\ Len(t) = Len(s) + 1 /\ t[Len(s) + 1] = n /\ Len(s) \in Nat
        /\ \A k \in 1 .. Len(s) : t[k] = s[k]
        /\ DOMAIN t = 1 .. Len(t) /\ DOMAIN s = 1 .. Len(s)
    BY <1>1, AppendProperties, LenProperties
  <2> HIDE DEF s, t
  <2>2. /\ \A k \in 1 .. Len(t) : k \in 1 .. Len(s) \/ k = Len(s) + 1
        /\ Len(s) + 1 \in 1 .. Len(t) /\ \A k \in 1 .. Len(s) : k \in 1 .. Len(t)
    BY <2>1
  <2>3. Range(t) = Range(s) \cup {n}
    BY <2>1, <2>2 DEF Range
  <2> QED BY <2>3 DEF s, t
<1> QED BY <1>1, <1>2 DEF Got

-----------------------------------------------------------------------------
(* The calls that a step makes.                                            *)

LEMMA StepRuns ==
  ASSUME Structure, Step
  PROVE  /\ calls # <<>> /\ Depth \in Nat /\ Depth >= 1 /\ Top = At(Depth)
         /\ At(Depth) \in Frame /\ Placed(Depth) /\ Phase /\ Structure'
<1>1. calls # <<>>
  BY DEF Step, UserOverflow, FirstClient, UpdateOverflow, UpdateReported, Connected,
     CloseSocket, ClientSend, SendOne, SendEnd, StorePush, StoreDiscard, StoreDirect,
     ForceGivesUp, Reported, SendRingbuffer, Drained, Sending, Forced, Running
<1> QED BY <1>1, TopPhase, StructureStep DEF Next

(* The calls above the callers of the running one are sent a message that  *)
(* is no log message, or the message of the running call.                  *)
NewCall(f) ==
  /\ f.op \in Ops
  /\ f.op \in Sends \cup {"send_all"} /\ IsLog(f.msg) =>
       Top.op \in Sends \cup {"send_all"} /\ Top.msg = f.msg
  /\ f.op = "drained" => SendRingbuffer
  /\ f.op = "send_force" => SendRingbuffer \/ SendOne
LEMMA NewCalls ==
  ASSUME Structure, Step
  PROVE  /\ Kept(Depth - 1) /\ Depth' \in Nat /\ Depth' >= Depth - 1 /\ Depth' <= Depth + 2
         /\ \A k \in Depth .. Depth' : NewCall(From(calls', k))
<1>0. /\ calls # <<>> /\ Depth \in Nat /\ Depth >= 1 /\ Top = At(Depth) /\ Top \in Frame
      /\ Depth - 1 \in Nat /\ ~(Depth <= Depth - 1)
  BY StepRuns
<1>1. /\ Overflow(overflow_counter) \in Message /\ ~IsLog(Overflow(overflow_counter))
      /\ Internal \in Message /\ ~IsLog(Internal)
      /\ ring # <<>> => Head(ring) \in Message
  BY Messages, HeadTailProperties DEF IsLog, Structure, Types
<1>2. ASSUME Returned
      PROVE  /\ Kept(Depth - 1) /\ Depth' \in Nat /\ Depth' >= Depth - 1 /\ Depth' <= Depth + 2
             /\ \A k \in Depth .. Depth' : NewCall(From(calls', k))
  BY <1>0, <1>2 DEF Returned
<1>3. ASSUME NEW f, Continued(f), NewCall(f)
      PROVE  /\ Kept(Depth - 1) /\ Depth' \in Nat /\ Depth' >= Depth - 1 /\ Depth' <= Depth + 2
             /\ \A k \in Depth .. Depth' : NewCall(From(calls', k))
  BY <1>0, <1>3 DEF Continued
<1>4. ASSUME NEW f, NEW g, Called(f, g), NewCall(f), NewCall(g)
      PROVE  /\ Kept(Depth - 1) /\ Depth' \in Nat /\ Depth' >= Depth - 1 /\ Depth' <= Depth + 2
             /\ \A k \in Depth .. Depth' : NewCall(From(calls', k))
  <2>1. \A k \in Depth .. Depth' : k = Depth \/ k = Depth + 1
    BY <1>0, <1>4 DEF Called
  <2> QED BY <1>0, <1>4, <2>1 DEF Called
<1>5. ASSUME NEW f, NEW g, NEW h, CalledTwo(f, g, h), NewCall(f), NewCall(g), NewCall(h)
      PROVE  /\ Kept(Depth - 1) /\ Depth' \in Nat /\ Depth' >= Depth - 1 /\ Depth' <= Depth + 2
             /\ \A k \in Depth .. Depth' : NewCall(From(calls', k))
  <2>1. \A k \in Depth .. Depth' : k = Depth \/ k = Depth + 1 \/ k = Depth + 2
    BY <1>0, <1>5 DEF CalledTwo
  <2> QED BY <1>0, <1>5, <2>1 DEF CalledTwo
<1>6. /\ \A op \in {"send_ringbuffer", "update_overflow", "connected",
                    "update_reported", "reported", "forced"} : NewCall(Call(op))
      /\ NewCall(Send(Internal)) /\ NewCall(Send(Overflow(overflow_counter)))
  BY <1>1, NewFrames DEF NewCall, Ops, Sends
<1>7. CASE UserOverflow \/ UpdateReported \/ Connected \/ SendEnd \/ StorePush \/ StoreDiscard
           \/ ForceGivesUp \/ Reported
  BY <1>0, <1>2, <1>7, CallsAfter
<1>8. CASE FirstClient
  BY <1>0, <1>2, <1>5, <1>6, <1>8, CallsAfter
<1>9. CASE UpdateOverflow
  BY <1>0, <1>2, <1>4, <1>6, <1>9, CallsAfter
<1>10. CASE CloseSocket
  BY <1>0, <1>4, <1>6, <1>10, CallsAfter
<1>11. CASE ClientSend
  <2>1. Top.op = "client_send" /\ Top.msg \in Message
    BY <1>0, <1>11 DEF ClientSend, Running, Frame
  <2>2. NewCall(Store(Top.msg)) /\ NewCall(SendAll(Top.msg, "send_all"))
    BY <2>1, NewFrames DEF NewCall, Ops, Sends
  <2>3. CASE state = "SEND_DIRECT"
    BY <1>0, <1>4, <1>11, <2>2, <2>3, CallsAfter
  <2>4. CASE state # "SEND_DIRECT"
    BY <1>0, <1>3, <1>11, <2>2, <2>4, CallsAfter
  <2> QED BY <2>3, <2>4
<1>12. CASE SendOne
  <2>1. PICK g \in Frame :
           /\ Kept(Depth - 1)
           /\ Top.op \in {"send_all", "send_force"} /\ pfd[Top.i] \in Client
           /\ From(calls', Depth) = g /\ g.op = Top.op /\ g.msg = Top.msg
           /\ \/ Depth' = Depth
              \/ Depth' = Depth + 1 /\ From(calls', Depth + 1) = Close(pfd[Top.i])
    BY <1>12, SendOneCalls
  <2>2. NewCall(g) /\ NewCall(Close(pfd[Top.i]))
    BY <1>12, <2>1, NewFrames DEF NewCall, Sends, Ops
  <2>3. CASE Depth' = Depth
    BY <1>3, <2>1, <2>2, <2>3 DEF Continued
  <2>4. CASE Depth' = Depth + 1
    BY <1>0, <1>4, <2>1, <2>2, <2>4 DEF Called
  <2> QED BY <2>1, <2>3, <2>4
<1>13. CASE StoreDirect
  BY <1>0, <1>2, <1>4, <1>6, <1>13, CallsAfter
<1>14. CASE SendRingbuffer
  <2>1. CASE ring # <<>>
    <3>1. NewCall(SendAll(Head(ring), "send_force")) /\ NewCall(Call("forced"))
          /\ NewCall(Call("drained"))
      BY <1>1, <1>6, <1>14, <2>1, NewFrames DEF NewCall, Sends, Ops
    <3> QED BY <1>0, <1>5, <1>14, <2>1, <3>1, CallsAfter
  <2>2. CASE ring = <<>>
    BY <1>0, <1>2, <1>14, <2>2, CallsAfter
  <2> QED BY <2>1, <2>2
<1>15. CASE Drained
  BY <1>0, <1>2, <1>3, <1>6, <1>15, CallsAfter
<1> QED BY <1>7, <1>8, <1>9, <1>10, <1>11, <1>12, <1>13, <1>14, <1>15 DEF Step

(* What a step does to the poll table: only a closed socket leaves it.     *)
LEMMA PollTableAfter ==
  ASSUME Structure, Step
  PROVE  /\ ~CloseSocket => pfd' = pfd
         /\ CloseSocket => Len(pfd') = Len(pfd) - 1
         /\ pfd' # <<>> => pfd # <<>>
         /\ \A k \in 1 .. Len(pfd') : \E l \in k .. Len(pfd) : pfd'[k] = pfd[l]
<1>1. /\ pfd \in Seq(Client) /\ IsInjective(pfd) /\ Len(pfd) \in Nat
      /\ Top = At(Depth) /\ Placed(Depth)
  BY StepRuns, LenProperties DEF Structure, Types
<1>2. CASE CloseSocket
  <2>1. pfd' = RemoveFirst(pfd, Top.msg) /\ Top.msg \in Range(pfd)
    BY <1>1, <1>2 DEF CloseSocket, Running, Placed
  <2>2. /\ Len(pfd') = Len(pfd) - 1 /\ pfd' \in Seq(Client)
        /\ \A k \in 1 .. Len(pfd') : pfd'[k] = pfd[k] \/ pfd'[k] = pfd[k + 1]
    BY <1>1, <2>1, WithoutClient
  <2>3. pfd' # <<>> => pfd # <<>>
    BY <1>1, <2>2, EmptySeq
  <2>4. ASSUME NEW k \in 1 .. Len(pfd')
        PROVE  \E l \in k .. Len(pfd) : pfd'[k] = pfd[l]
    <3>1. k \in k .. Len(pfd) /\ k + 1 \in k .. Len(pfd)
      BY <1>1, <2>2
    <3> QED BY <2>2, <3>1
  <2> QED BY <1>2, <2>2, <2>3, <2>4
<1>3. CASE ~CloseSocket
  <2>1. pfd' = pfd
    BY <1>3 DEF Step, UserOverflow, FirstClient, UpdateOverflow, UpdateReported, Connected,
       ClientSend, SendOne, SendEnd, StorePush, StoreDiscard, StoreDirect,
       ForceGivesUp, Reported, SendRingbuffer, Drained, daemon
  <2>2. \A k \in 1 .. Len(pfd) : k \in k .. Len(pfd)
    BY <1>1
  <2> QED BY <1>3, <2>1, <2>2
<1> QED BY <1>2, <1>3

(* While the ring buffer is drained and its head has been sent.            *)
LEMMA HeadState ==
  ASSUME Structure, HeadSent
  PROVE  /\ Len(pfd) = 1 /\ state # "SEND_DIRECT" /\ ring # <<>> /\ Depth \in 3 .. 5
         /\ Depth = 3 => ret = "OK"
         /\ Depth = 4 => At(4).op \in {"forced", "reported"}
         /\ Depth = 4 /\ At(4).op = "forced" => ret = "OK"
         /\ Depth = 5 => At(5).op \in Sends \/ (At(5).op = "send_force" /\ At(5).i = 2)
<1>1. Depth >= 3 /\ At(3).op = "drained" /\ pfd # <<>> /\ Depth \in Nat
  BY LenProperties DEF HeadSent, Structure, Types, Depth
<1>2. ~NoDrain
  BY <1>1 DEF NoDrain, DrainOps
<1>3. Drain /\ ring # <<>> /\ HeadCalls
  BY <1>1, <1>2 DEF Structure, Direct, First, Sends, NoClient, Drain, NextHead
<1> QED BY <1>1, <1>3 DEF Drain, HeadCalls, HeadSent

(* The head stays sent until it is removed.                                *)
LEMMA HeadStaysSent ==
  ASSUME Structure, Step, ~Drained, HeadSent
  PROVE  HeadSent'
<1>1. /\ Depth \in Nat /\ Depth >= 1 /\ Top = At(Depth) /\ calls # <<>>
      /\ Kept(Depth - 1) /\ Depth' \in Nat /\ Depth' >= Depth - 1
      /\ \A k \in Depth .. Depth' : NewCall(From(calls', k))
  BY StepRuns, NewCalls
<1>2. /\ Len(pfd) = 1 /\ state # "SEND_DIRECT" /\ Depth \in 3 .. 5 /\ At(3).op = "drained"
      /\ Depth = 4 => At(4).op \in {"forced", "reported"}
      /\ Depth = 5 => At(5).op \in Sends \/ (At(5).op = "send_force" /\ At(5).i = 2)
  BY HeadState DEF HeadSent
<1>3. Depth # 3
  <2> SUFFICES ASSUME Depth = 3 PROVE FALSE
    OBVIOUS
  <2>1. Top.op = "drained"
    BY <1>1, <1>2
  <2> QED BY <2>1 DEF Step, UserOverflow, FirstClient, UpdateOverflow, UpdateReported,
       Connected, CloseSocket, ClientSend, SendOne, SendEnd, StorePush, StoreDiscard,
       StoreDirect, ForceGivesUp, Reported, SendRingbuffer, Sending, Forced, Running
<1>4. Depth' >= 3 /\ From(calls', 3).op = "drained"
  BY <1>1, <1>2, <1>3 DEF Kept
<1>5. Top.op \in {"forced", "reported", "client_send", "store", "send_force"}
  BY <1>1, <1>2, <1>3 DEF Sends
<1>6. pfd' = pfd
  BY <1>5, PollTableAfter DEF CloseSocket, Running
<1>7. ~SendRingbuffer /\ ~SendOne
  <2>1. ~SendRingbuffer
    BY <1>5 DEF SendRingbuffer, Running
  <2>2. ASSUME SendOne PROVE FALSE
    <3>1. Top.op = "send_force" /\ Top.i <= Len(pfd)
      BY <1>5, <2>2 DEF SendOne, Sending, Running
    <3> QED BY <1>1, <1>2, <1>3, <3>1 DEF Sends
  <2> QED BY <2>1, <2>2
<1>8. ASSUME Depth' >= 5 PROVE From(calls', 5).op # "send_force"
  <2>1. 5 \in Depth .. Depth'
    BY <1>1, <1>2, <1>8
  <2> QED BY <1>1, <1>7, <2>1 DEF NewCall
<1>9. pfd' # <<>>
  BY <1>2, <1>6, EmptySeq
<1> QED BY <1>4, <1>8, <1>9 DEF HeadSent, At

(* The head is sent by an iteration of the loop over the poll table.       *)
LEMMA HeadIsSent ==
  ASSUME Structure, Step, HeadSent'
  PROVE  \/ HeadSent
         \/ /\ SendOne /\ Top.op = "send_force" /\ pfd[Top.i] \notin broken
            /\ Depth = 5 /\ Top.i = 1
<1> SUFFICES ASSUME ~HeadSent
             PROVE  /\ SendOne /\ Top.op = "send_force" /\ pfd[Top.i] \notin broken
                    /\ Depth = 5 /\ Top.i = 1
  OBVIOUS
<1>1. /\ Depth \in Nat /\ Depth >= 1 /\ Top = At(Depth) /\ calls # <<>> /\ Phase
      /\ Kept(Depth - 1) /\ Depth' \in Nat /\ Depth' >= Depth - 1
      /\ \A k \in Depth .. Depth' : NewCall(From(calls', k))
  BY StepRuns, NewCalls
<1>2. /\ Depth' >= 3 /\ From(calls', 3).op = "drained" /\ pfd' # <<>> /\ pfd # <<>>
      /\ ~(Depth' >= 5 /\ From(calls', 5).op = "send_force" /\ ~From(calls', 5).sent)
  BY PollTableAfter DEF HeadSent, At
<1>3. Depth > 3
  <2> SUFFICES ASSUME Depth <= 3 PROVE FALSE
    BY <1>1
  <2>1. 3 \in Depth .. Depth'
    BY <1>1, <1>2
  <2>2. SendRingbuffer
    BY <1>1, <1>2, <2>1 DEF NewCall
  <2>3. Depth = 3 /\ ring # <<>>
    BY <1>1, <1>2, <2>2, CallsAfter DEF Returned
  <2>4. Head(ring) \in Message
    BY <2>3, HeadTailProperties DEF Structure, Types
  <2>5. /\ Depth' = 5 /\ From(calls', 5).op = "send_force" /\ ~From(calls', 5).sent
    BY <1>1, <2>2, <2>3, <2>4, CallsAfter, NewFrames DEF CalledTwo
  <2> QED BY <1>2, <2>5
<1>4. At(3).op = "drained"
  BY <1>1, <1>2, <1>3 DEF Kept
<1>5. Depth >= 5 /\ At(5).op = "send_force" /\ ~At(5).sent
  BY <1>1, <1>2, <1>3, <1>4 DEF HeadSent
<1>6. Drain /\ HeadCalls
  <2>1. ~NoDrain
    BY <1>1, <1>3, <1>4 DEF NoDrain, DrainOps
  <2> QED BY <1>1, <1>2, <1>3, <1>4, <2>1 DEF Phase, Direct, First, NoClient, Drain, NextHead
<1>7. CASE Depth = 6
  <2>1. Top.op = "close_socket"
    BY <1>1, <1>5, <1>6, <1>7 DEF HeadCalls
  <2>2. CloseSocket
    BY <2>1 DEF Step, UserOverflow, FirstClient, UpdateOverflow, UpdateReported,
       Connected, ClientSend, SendOne, SendEnd, StorePush, StoreDiscard,
       StoreDirect, ForceGivesUp, Reported, SendRingbuffer, Drained, Sending, Forced, Running
  <2>3. Len(pfd') = 0
    BY <1>6, <2>2, PollTableAfter DEF Drain
  <2>4. pfd' \in Seq(Client)
    BY StructureStep DEF Structure, Types, Next
  <2> QED BY <1>2, <2>3, <2>4, EmptySeq
<1>8. CASE Depth = 5
  <2>1. Top.op = "send_force" /\ Top.i = 1 /\ Len(pfd) = 1
    BY <1>1, <1>5, <1>6, <1>8 DEF HeadCalls, Drain, Sends
  <2>2. SendOne
    BY <2>1 DEF Step, UserOverflow, FirstClient, UpdateOverflow, UpdateReported,
       Connected, CloseSocket, ClientSend, SendEnd, StorePush, StoreDiscard,
       StoreDirect, ForceGivesUp, Reported, SendRingbuffer, Drained, Sending, Forced, Running
  <2>3. pfd[Top.i] \notin broken
    <3> SUFFICES ASSUME pfd[Top.i] \in broken PROVE FALSE
      OBVIOUS
    <3>1. /\ Depth' = 6 /\ From(calls', 5).op = "send_force" /\ ~From(calls', 5).sent
      BY <1>1, <1>5, <1>8, <2>2, SendOneCalls
    <3> QED BY <1>2, <3>1
  <2> QED BY <1>8, <2>1, <2>2, <2>3
<1>9. Depth \in {5, 6}
  BY <1>5, <1>6 DEF HeadCalls
<1> QED BY <1>7, <1>8, <1>9

-----------------------------------------------------------------------------
(* The message on its way.                                                 *)

LEMMA NoFlight ==
  ASSUME Structure, Flights, calls = <<>>
  PROVE  Pending = {} /\ ~HeadSent
BY IdlePhase DEF Pending, HeadSent

(* A loop over the poll table for a log message is run by the call that    *)
(* stores it.                                                              *)
LEMMA LoopIsStored ==
  ASSUME Structure, Flights, Depth >= 2, LogLoop(2)
  PROVE  LogSend(1) /\ At(1).op = "store" /\ At(1).msg = At(2).msg
<1>1. Depth \in Nat /\ 2 \in 1 .. Depth
  BY LenProperties DEF Structure, Types, Depth
<1> QED BY <1>1 DEF Structure, Places, Placed, LogLoop, LogSend, Sends

(* The calls that carry a log message are not disturbed by those above     *)
(* them, which do not.                                                     *)
LEMMA FlightsKept ==
  ASSUME Structure, Flights, calls # <<>>,
         Kept(Depth - 1), Depth' \in Nat, Depth' >= Depth - 1,
         ~LogSend(Depth), ~LogLoop(Depth),
         \A k \in Depth .. Depth' :
           ~(From(calls', k).op \in Sends \cup {"send_all"} /\ IsLog(From(calls', k).msg)),
         events' = events, hit \subseteq hit', InRing' \subseteq InRing,
         received' = received \/ ~LogSend(1),
         \A k \in 1 .. Len(pfd') : \E l \in k .. Len(pfd) : pfd'[k] = pfd[l]
  PROVE  Flights'
<1>1. Depth \in Nat /\ Depth >= 1
  BY TopPhase
<1>2. \A k \in 1 .. Depth - 1 : From(calls', k) = At(k)
  BY DEF Kept
<1>3. ASSUME NEW j \in 1 .. Depth'
      PROVE  /\ LogSend(j)' => LogSend(j) /\ j < Depth
             /\ LogLoop(j)' => LogLoop(j) /\ j < Depth
  <2>1. CASE j < Depth
    BY <1>1, <1>2, <2>1 DEF LogSend, LogLoop, At
  <2>2. CASE j >= Depth
    <3>1. j \in Depth .. Depth'
      BY <1>1, <2>2
    <3> QED BY <3>1 DEF LogSend, LogLoop, At
  <2> QED BY <1>1, <2>1, <2>2
<1>4. ASSUME NEW j \in 1 .. Depth'
      PROVE  (LogSend(j)' => j = 1) /\ (LogLoop(j)' => j = 2)
  BY <1>1, <1>3 DEF Flights
<1>5. ASSUME Depth' >= 1, LogSend(1)'
      PROVE  OnItsWay'
  <2>1. LogSend(1) /\ 1 < Depth
    BY <1>3, <1>5
  <2>2. OnItsWay /\ At(1).op = "store" /\ LogLoop(2) /\ received' = received
    BY <1>1, <2>1 DEF Flights, OnItsWay, LogSend, Sends
  <2>3. Depth > 2
    BY <1>1, <2>1, <2>2
  <2>4. From(calls', 1) = At(1) /\ From(calls', 2) = At(2) /\ Depth' >= 2
    BY <1>1, <1>2, <2>3
  <2>5. LogLoop(2)'
    BY <2>2, <2>4 DEF LogLoop, At
  <2> QED BY <2>2, <2>4, <2>5 DEF OnItsWay, At
<1>6. ASSUME Depth' >= 2, LogLoop(2)'
      PROVE  InLoop'
  <2>1. LogLoop(2) /\ 2 < Depth
    BY <1>3, <1>6
  <2>2. LogSend(1) /\ InLoop /\ events \in hit /\ received' = received
    BY <1>1, <2>1, LoopIsStored DEF Flights, InLoop
  <2>3. From(calls', 2) = At(2) /\ At(2).i \in Nat
    <3>1. At(2) \in Frame
      BY <1>1, <2>1, StackSteps DEF Structure, Types
    <3> QED BY <1>1, <1>2, <2>1, <3>1 DEF Frame
  <2>4. ASSUME NEW k \in 1 .. Len(pfd'), k >= At(2).i,
               NEW x \in Range(received[pfd'[k]])
        PROVE  x < events
    <3>1. PICK l \in k .. Len(pfd) : pfd'[k] = pfd[l]
      OBVIOUS
    <3>2. l \in 1 .. Len(pfd) /\ l >= At(2).i
      BY <2>3, <2>4, LenProperties DEF Structure, Types
    <3> QED BY <2>2, <2>4, <3>1, <3>2 DEF InLoop
  <2> QED BY <2>2, <2>3, <2>4 DEF InLoop, At
<1> QED BY <1>4, <1>5, <1>6 DEF Flights

(* The same message is all that is in the calls.                           *)
LEMMA OneFlight ==
  ASSUME Structure, Flights, calls # <<>>, LogSend(Depth) \/ LogLoop(Depth)
  PROVE  /\ LogSend(1) /\ OnItsWay /\ Top.msg.n = events /\ IsLog(Top.msg)
         /\ LogSend(Depth) => Depth = 1
         /\ LogLoop(Depth) => Depth = 2 /\ At(1).op = "store" /\ InLoop
         /\ ~HeadSent
<1>1. Depth \in Nat /\ Depth >= 1 /\ Depth \in 1 .. Depth /\ Top = At(Depth)
  BY TopPhase
<1>2. /\ LogSend(Depth) => Depth = 1
      /\ LogLoop(Depth) => Depth = 2
  BY <1>1 DEF Flights
<1> QED BY <1>1, <1>2, LoopIsStored DEF Flights, OnItsWay, LogSend, LogLoop, HeadSent

(* What a step does to the history.                                        *)
LEMMA HistoryAfter ==
  ASSUME Structure, Step
  PROVE  /\ events' = events /\ hit \subseteq hit' /\ discarded \subseteq discarded'
         /\ StorePush \/ Drained \/ ring' = ring
         /\ SendOne \/ received' = received
         /\ SendOne \/ hit' = hit
         /\ StorePush => InRing' = InRing \cup (IF IsLog(Top.msg) THEN {Top.msg.n} ELSE {})
         /\ Drained => InRing' \subseteq InRing
         /\ ~StorePush /\ ~Drained => InRing' = InRing
<1>1. /\ events' = events /\ hit \subseteq hit' /\ discarded \subseteq discarded'
      /\ StorePush \/ Drained \/ ring' = ring
      /\ SendOne \/ received' = received
      /\ SendOne \/ hit' = hit
  BY DEF Step, UserOverflow, FirstClient, UpdateOverflow, UpdateReported, Connected,
     CloseSocket, ClientSend, SendOne, SendEnd, StorePush, StoreDiscard, StoreDirect,
     ForceGivesUp, Reported, SendRingbuffer, Drained, daemon, history
<1>2. ring \in Seq(Message) /\ Top \in Frame
  BY StepRuns DEF Structure, Types
<1>3. StorePush => InRing' = InRing \cup (IF IsLog(Top.msg) THEN {Top.msg.n} ELSE {})
  <2>1. StorePush => ring' = Append(ring, Top.msg) /\ Top.msg \in Message
    BY <1>2 DEF StorePush, Running, Frame
  <2>2. InRing = LogsIn(ring) /\ InRing' = LogsIn(ring')
    BY DEF InRing, LogsIn
  <2> QED BY <1>2, <2>1, <2>2, LogsAppended
<1>4. Drained => InRing' \subseteq InRing
  <2> SUFFICES ASSUME Drained PROVE InRing' \subseteq InRing
    OBVIOUS
  <2>1. CASE ret = "OK"
    <3>1. Drain /\ ring # <<>>
      <4>1. Depth = 3 /\ Top.op = "drained" /\ Top = At(Depth) /\ Phase
        BY StepRuns, CallsAfter DEF Drained, Running
      <4>2. ~NoDrain
        BY <4>1 DEF NoDrain, DrainOps
      <4> QED BY <2>1, <4>1, <4>2 DEF Phase, Direct, First, NoClient, CutShort, Sends,
                  Drain, NextHead
    <3>2. InRing = LogsIn(ring) /\ InRing' = LogsIn(ring')
      BY DEF InRing, LogsIn
    <3> QED BY <1>2, <2>1, <3>1, <3>2, LogsRemoved DEF Drained, AfterRemove
  <2>2. CASE ret # "OK"
    BY <2>2 DEF Drained, InRing
  <2> QED BY <2>1, <2>2
<1>5. ~StorePush /\ ~Drained => InRing' = InRing
  BY <1>1 DEF InRing
<1> QED BY <1>1, <1>3, <1>4, <1>5

(* Steps of a call that carries a log message.                             *)
LEMMA FlightsOn ==
  ASSUME Structure, Flights, Queue, Step, LogSend(Depth) \/ LogLoop(Depth)
  PROVE  Flights'
<1>1. /\ calls # <<>> /\ Depth \in Nat /\ Depth >= 1 /\ Top = At(Depth) /\ Top \in Frame
      /\ Kept(Depth - 1) /\ events' = events /\ hit \subseteq hit' /\ Phase
  BY StepRuns, NewCalls, HistoryAfter
<1>2. /\ LogSend(1) /\ OnItsWay /\ Top.msg.n = events /\ IsLog(Top.msg)
      /\ LogSend(Depth) => Depth = 1
      /\ LogLoop(Depth) => Depth = 2 /\ At(1).op = "store" /\ InLoop
      /\ \A x \in InRing : x < events
      /\ Top.op \in Sends \cup {"send_all"} /\ Top.msg \in Message
  BY <1>1, OneFlight DEF OnItsWay, LogSend, LogLoop, Sends, Frame
<1>3. CASE ClientSend
  <2>1. Top.op = "client_send" /\ Depth = 1
    BY <1>1, <1>2, <1>3 DEF ClientSend, Running, LogLoop, LogSend
  <2>2. /\ \A x \in Got : x < events
        /\ UNCHANGED <<state, pfd, ring, received, hit>>
    BY <1>1, <1>2, <1>3, <2>1 DEF OnItsWay, ClientSend, daemon, history
  <2>3. /\ Store(Top.msg).op = "store" /\ Store(Top.msg).msg = Top.msg
        /\ SendAll(Top.msg, "send_all").op = "send_all"
        /\ SendAll(Top.msg, "send_all").msg = Top.msg
        /\ SendAll(Top.msg, "send_all").i = 1
    BY <1>2, NewFrames
  <2>4. InRing' = InRing /\ Got' = Got
    BY <2>2 DEF InRing, Got
  <2>5. events \in Nat /\ events >= 1 /\ events \notin Got
    BY <1>2, <2>2 DEF OnItsWay, Structure, Types
  <2>6. CASE state = "SEND_DIRECT"
    <3>1. /\ Depth' = 2
          /\ From(calls', 1).op = "store" /\ From(calls', 1).msg = Top.msg
          /\ From(calls', 2).op = "send_all" /\ From(calls', 2).msg = Top.msg
          /\ From(calls', 2).i = 1
      BY <1>1, <1>3, <2>1, <2>3, <2>6, CallsAfter DEF Called
    <3>2. LogSend(1)' /\ LogLoop(2)' /\ ~LogSend(2)' /\ ~LogLoop(1)'
      BY <1>2, <3>1 DEF LogSend, LogLoop, Sends, At
    <3>3. OnItsWay'
      BY <1>1, <1>2, <2>4, <2>5, <3>1, <3>2 DEF OnItsWay, At
    <3>4. InLoop'
      <4>1. ASSUME NEW k \in 1 .. Len(pfd), NEW x \in Range(received[pfd[k]])
            PROVE  x < events
        <5>1. pfd[k] \in Client
          BY ElementOfSeq DEF Structure, Types
        <5> QED BY <2>2, <5>1 DEF Got
      <4> QED BY <1>1, <2>2, <2>6, <3>1, <4>1 DEF InLoop, At
    <3> QED BY <3>1, <3>2, <3>3, <3>4 DEF Flights
  <2>7. CASE state # "SEND_DIRECT"
    <3>1. Depth' = 1 /\ From(calls', 1).op = "store" /\ From(calls', 1).msg = Top.msg
      BY <1>1, <1>3, <2>1, <2>3, <2>7, CallsAfter DEF Continued
    <3>2. LogSend(1)' /\ ~LogLoop(1)'
      BY <1>2, <3>1 DEF LogSend, LogLoop, Sends, At
    <3>3. OnItsWay'
      BY <1>1, <1>2, <2>2, <2>4, <2>5, <2>7, <3>1 DEF OnItsWay, At
    <3> QED BY <3>1, <3>2, <3>3 DEF Flights
  <2> QED BY <2>6, <2>7
<1>4. CASE SendOne
  <2>1. PICK g \in Frame :
           /\ Top.op \in {"send_all", "send_force"}
           /\ Top.i \in 1 .. Len(pfd) /\ pfd[Top.i] \in Client
           /\ From(calls', Depth) = g /\ g.op = Top.op /\ g.msg = Top.msg
           /\ g.i = Top.i + 1
           /\ IF pfd[Top.i] \in broken
              THEN /\ Depth' = Depth + 1
                   /\ From(calls', Depth + 1) = Close(pfd[Top.i])
              ELSE Depth' = Depth
    BY <1>4, SendOneCalls
  <2>2. Top.op = "send_all" /\ Depth = 2 /\ At(1).op = "store" /\ InLoop
    BY <1>1, <1>2, <2>1 DEF Sends, LogSend, LogLoop
  <2>3. From(calls', 1) = At(1) /\ IsLog(At(1).msg) /\ At(1).msg.n = events
    BY <1>1, <1>2, <2>2 DEF Kept, OnItsWay, LogSend
  <2>4. UNCHANGED <<state, pfd>> /\ InRing' = InRing
    BY <1>4 DEF SendOne, daemon, InRing
  <2>5. LogSend(1)' /\ LogLoop(2)' /\ ~LogSend(2)' /\ ~LogLoop(1)'
    BY <1>2, <2>1, <2>2, <2>3 DEF LogSend, LogLoop, Sends, At
  <2>6. Depth' \in {2, 3} /\ OnItsWay'
    BY <1>1, <1>2, <2>1, <2>2, <2>3, <2>4, <2>5 DEF OnItsWay, At
  <2>7. InLoop'
    <3>1. CASE pfd[Top.i] \in broken
      <4>1. received' = received /\ events \in hit'
        BY <1>2, <1>4, <3>1 DEF SendOne, Counts, IsLog
      <4> QED BY <1>1, <2>1, <2>2, <2>4, <4>1 DEF InLoop, At
    <3>2. CASE pfd[Top.i] \notin broken
      <4> DEFINE c == pfd[Top.i]
      <4>1. received' = [received EXCEPT ![c] = Append(@, events)] /\ Depth' = 2
        BY <1>2, <1>4, <2>1, <2>2, <3>2 DEF SendOne, Delivered, IsLog
      <4>2. /\ \A d \in Client \ {c} : received'[d] = received[d]
            /\ events \in Got'
        <5>1. events \in Nat /\ c \in Client /\ received \in [Client -> Seq(Nat)]
          BY <2>1 DEF Structure, Types
        <5> HIDE DEF c
        <5>2. received' = [received EXCEPT ![c] = Append(@, events)]
          BY <4>1
        <5>3. (\A d \in Client \ {c} : received'[d] = received[d]) /\ Got' = Got \cup {events}
          BY ONLY <5>1, <5>2, Sent
        <5> QED BY <5>3
      <4>3. state = "SEND_DIRECT"
        <5>1. pfd # <<>>
          BY <2>1, EmptySeq
        <5> QED BY <1>1, <2>2, <5>1 DEF Phase, Direct, First, Drain, NextHead, HeadCalls,
                   Updating, NoClient, Sends
      <4>4. ASSUME NEW k \in 1 .. Len(pfd), k >= Top.i + 1,
                   NEW x \in Range(received'[pfd[k]])
            PROVE  x < events
        <5>1. pfd[k] \in Client \ {c} /\ k # Top.i
          <6>1. pfd[k] \in Client /\ k # Top.i
            BY <2>1, <4>4, ElementOfSeq DEF Structure, Types
          <6> QED BY <2>1, <6>1, LenProperties DEF IsInjective, Structure, Types
        <5> QED BY <1>1, <2>1, <2>2, <4>2, <4>4, <5>1 DEF InLoop
      <4> QED BY <1>1, <2>1, <2>2, <2>4, <4>1, <4>2, <4>3, <4>4 DEF InLoop, At
    <3> QED BY <3>1, <3>2
  <2>8. \A j \in 1 .. Depth' : (LogSend(j)' => j = 1) /\ (LogLoop(j)' => j = 2)
    <3>1. Depth' = 3 => ~LogSend(3)' /\ ~LogLoop(3)'
      BY <2>1, <2>2, NewFrames DEF LogSend, LogLoop, Sends, At
    <3> QED BY <2>5, <2>6, <3>1
  <2> QED BY <2>5, <2>6, <2>7, <2>8 DEF Flights
<1>5. CASE SendEnd
  <2>1. Top.op = "send_all" /\ Depth = 2 /\ At(1).op = "store" /\ InLoop
    BY <1>1, <1>2, <1>5 DEF Sends, LogSend, LogLoop, SendEnd, Sending, Running
  <2>2. Depth' = 1 /\ From(calls', 1) = At(1)
    BY <1>1, <1>5, <2>1, CallsAfter DEF Returned, Kept
  <2>3. UNCHANGED <<state, pfd, ring, received, hit>> /\ Top.i > Len(pfd)
    BY <1>5 DEF SendEnd, daemon, history
  <2>4. InRing' = InRing /\ Got' = Got
    BY <2>3 DEF InRing, Got
  <2>5. IF state = "SEND_DIRECT" THEN events \in hit \cup Got
        ELSE events \in hit \/ events \notin Got
    <3>1. state = "SEND_DIRECT" => Len(pfd) >= 1
      BY DirectState, EmptySeq DEF Direct, Structure, Types
    <3>2. Top.i = 1 => state # "SEND_DIRECT"
      BY <2>3, <3>1
    <3> QED BY <1>1, <2>1, <3>2 DEF InLoop
  <2>6. OnItsWay'
    BY <1>1, <1>2, <2>1, <2>2, <2>3, <2>4, <2>5 DEF OnItsWay, At
  <2>7. LogSend(1)' /\ ~LogLoop(1)'
    BY <1>2, <2>1, <2>2 DEF LogSend, LogLoop, Sends, At
  <2> QED BY <2>2, <2>6, <2>7 DEF Flights
<1>6. CASE StorePush \/ StoreDiscard
  <2>1. Depth' = 0
    BY <1>1, <1>2, <1>6, CallsAfter
    DEF Returned, StorePush, StoreDiscard, Running, LogLoop
  <2> QED BY <2>1 DEF Flights
<1>7. CASE StoreDirect
  <2>1. Depth = 1
    BY <1>1, <1>2, <1>7 DEF StoreDirect, Forced, Running, LogLoop
  <2>2. CASE ReportDue
    <3>1. Overflow(overflow_counter) \in Message /\ ~IsLog(Overflow(overflow_counter))
      BY Messages DEF IsLog, Structure, Types
    <3>2. /\ Depth' = 2 /\ From(calls', 1).op = "reported"
          /\ From(calls', 2).op = "client_send" /\ ~IsLog(From(calls', 2).msg)
      BY <1>1, <1>7, <2>1, <2>2, <3>1, CallsAfter, NewFrames DEF Called, Ops
    <3>3. ~LogSend(1)' /\ ~LogLoop(1)' /\ ~LogSend(2)' /\ ~LogLoop(2)'
      BY <3>2 DEF LogSend, LogLoop, Sends, At
    <3> QED BY <3>2, <3>3 DEF Flights
  <2>3. CASE ~ReportDue
    <3>1. Depth' = 0
      BY <1>1, <1>7, <2>1, <2>3, CallsAfter DEF Returned
    <3> QED BY <3>1 DEF Flights
  <2> QED BY <2>2, <2>3
<1> QED BY <1>1, <1>2, <1>3, <1>4, <1>5, <1>6, <1>7
        DEF Step, UserOverflow, FirstClient, UpdateOverflow, UpdateReported,
            Connected, CloseSocket, ForceGivesUp, Reported, SendRingbuffer, Drained, Running,
            Sends

(* The head of the ring buffer is sent by the loop of the drain.           *)
LEMMA ForcedHead ==
  ASSUME Structure, SendOne, Top.op = "send_force"
  PROVE  /\ Depth = 5 /\ Top = At(5) /\ Top.i = 1 /\ ~Top.sent /\ ~HeadSent
         /\ ring # <<>> /\ Top.msg = Head(ring) /\ pfd # <<>>
         /\ At(1).op = "connected" /\ At(3).op = "drained"
<1>1. /\ Depth \in Nat /\ Depth >= 1 /\ Top = At(Depth) /\ Phase
      /\ Top.i \in 1 .. Len(pfd)
  <2>1. Step
    BY DEF Step
  <2> QED BY <2>1, StepRuns, SendOneCalls
<1>2. ~NoDrain /\ pfd # <<>>
  BY <1>1, EmptySeq DEF NoDrain, DrainOps
<1>3. Drain
  BY <1>1, <1>2 DEF Phase, Direct, First, Sends, NoClient
<1>4. /\ Depth = 5 /\ Top.i = 1 /\ ~Top.sent /\ ring # <<>> /\ Top.msg = Head(ring)
      /\ At(1).op = "connected" /\ At(3).op = "drained"
  BY <1>1, <1>3 DEF Drain, NextHead, HeadCalls, Sends, Updating
<1> QED BY <1>1, <1>2, <1>4 DEF HeadSent

LEMMA FlightsStep ==
  ASSUME Structure, Flights, Queue, [Next]_vars
  PROVE  Flights'
<1>1. CASE UNCHANGED vars \/ PollTimeout \/ \E c \in Client : Break(c)
  BY <1>1 DEF Flights, OnItsWay, InLoop, LogSend, LogLoop, Got, InRing, At, Depth, vars,
     daemon, history, PollTimeout, Break
<1>2. CASE AppLog
  <2>1. events + 1 \in Nat /\ events + 1 >= 1 /\ events \in Nat
    BY DEF Structure, Types
  <2>2. /\ Log(events + 1) \in Message /\ IsLog(Log(events + 1))
        /\ Log(events + 1).n = events + 1
    BY <2>1, Messages DEF IsLog
  <2>3. /\ Depth' = 1 /\ From(calls', 1).op = "client_send"
        /\ From(calls', 1).msg = Log(events + 1)
    BY <1>2, <2>2, StackNew, NewFrames DEF AppLog
  <2>4. InRing' = InRing /\ Got' = Got /\ events' = events + 1
    BY <1>2 DEF AppLog, daemon, history, InRing, Got
  <2>5. \A x \in InRing \cup Got : x < events + 1
    BY <2>1 DEF Queue
  <2>6. OnItsWay'
    BY <2>1, <2>2, <2>3, <2>4, <2>5 DEF OnItsWay, At
  <2>7. ~LogLoop(1)'
    BY <2>3 DEF LogLoop, At
  <2> QED BY <2>3, <2>6, <2>7 DEF Flights
<1>3. CASE AppOverflow \/ \E c \in Client : Connect(c) \/ ClientGone(c)
  <2>1. /\ Overflow(1) \in Message /\ ~IsLog(Overflow(1))
        /\ Internal \in Message /\ ~IsLog(Internal)
    BY Messages DEF IsLog
  <2>2. /\ Depth' \in {1, 2}
        /\ \A k \in 1 .. 2 : k <= Depth' =>
             /\ From(calls', k).op \in {"client_send", "close_socket", "user_overflow",
                                        "first_client"}
             /\ From(calls', k).op = "client_send" => ~IsLog(From(calls', k).msg)
    <3>1. CASE AppOverflow
      <4>1. calls' = <<Send(Overflow(1)), Call("user_overflow")>>
        BY <3>1 DEF AppOverflow
      <4> QED BY <4>1, <2>1, StackNew, NewFrames DEF Ops
    <3>2. ASSUME NEW c \in Client, Connect(c)
          PROVE  /\ Depth' = 2 /\ From(calls', 1).op = "first_client"
                 /\ From(calls', 2).op = "client_send" /\ ~IsLog(From(calls', 2).msg)
      <4>1. calls' = <<Send(Internal), Call("first_client")>>
        BY <3>2 DEF Connect
      <4> QED BY <4>1, <2>1, StackNew, NewFrames DEF Ops
    <3>3. ASSUME NEW c \in Client, ClientGone(c)
          PROVE  Depth' = 1 /\ From(calls', 1).op = "close_socket"
      BY <3>3, StackNew, NewFrames DEF ClientGone
    <3> QED BY <1>3, <3>1, <3>2, <3>3
  <2>3. \A j \in 1 .. Depth' : ~LogSend(j)' /\ ~LogLoop(j)'
    BY <2>2 DEF LogSend, LogLoop, Sends, At
  <2> QED BY <2>2, <2>3 DEF Flights
<1>4. CASE Step
  <2>1. CASE LogSend(Depth) \/ LogLoop(Depth)
    BY <1>4, <2>1, FlightsOn
  <2>2. CASE ~LogSend(Depth) /\ ~LogLoop(Depth)
    <3>1. /\ calls # <<>> /\ Kept(Depth - 1) /\ Depth' \in Nat /\ Depth' >= Depth - 1
          /\ events' = events /\ hit \subseteq hit' /\ Top = At(Depth)
          /\ \A k \in 1 .. Len(pfd') : \E l \in k .. Len(pfd) : pfd'[k] = pfd[l]
      BY <1>4, StepRuns, NewCalls, HistoryAfter, PollTableAfter
    <3>2. \A k \in Depth .. Depth' :
            ~(From(calls', k).op \in Sends \cup {"send_all"} /\ IsLog(From(calls', k).msg))
      BY <1>4, <2>2, <3>1, NewCalls DEF NewCall, LogSend, LogLoop
    <3>3. InRing' \subseteq InRing
      <4>1. StorePush => ~IsLog(Top.msg)
        BY <2>2, <3>1 DEF StorePush, Running, LogSend, Sends
      <4> QED BY <1>4, <4>1, HistoryAfter
    <3>4. received' = received \/ ~LogSend(1)
      <4>1. CASE SendOne /\ Top.op = "send_force"
        BY <4>1, ForcedHead DEF LogSend, Sends
      <4>2. CASE SendOne /\ Top.op # "send_force"
        BY <2>2, <3>1, <4>2 DEF SendOne, Sending, Running, Delivered, LogLoop, IsLog
      <4>3. CASE ~SendOne
        BY <1>4, <4>3, HistoryAfter
      <4> QED BY <4>1, <4>2, <4>3
    <3> QED BY <2>2, <3>1, <3>2, <3>3, <3>4, FlightsKept
  <2> QED BY <2>1, <2>2
<1> QED BY <1>1, <1>2, <1>3, <1>4 DEF Next

(* A log message that a client is sent is younger than all that it has     *)
(* been sent before.                                                       *)
LEMMA Delivery ==
  ASSUME Structure, Flights, Queue, SendOne, pfd[Top.i] \notin broken, IsLog(Top.msg)
  PROVE  /\ pfd[Top.i] \in Client /\ Top.msg.n \in Nat /\ Top.msg.n <= events
         /\ received' = [received EXCEPT ![pfd[Top.i]] = Append(@, Top.msg.n)]
         /\ ring' = ring /\ hit' = hit /\ events' = events
         /\ \A x \in Range(received[pfd[Top.i]]) :
              x < Top.msg.n \/ (x = Top.msg.n /\ x \in hit)
         /\ Top.op = "send_all" => ring = <<>>
         /\ Top.op = "send_force" => HeadSent' /\ ring # <<>> /\ Top.msg = ring[1]
<1> DEFINE c == pfd[Top.i]
<1>1. Step
  BY DEF Step
<1>2. /\ Depth \in Nat /\ Depth >= 1 /\ Top = At(Depth) /\ Phase
      /\ Top.i \in 1 .. Len(pfd) /\ c \in Client /\ Top.msg \in Message
      /\ Top.op \in {"send_all", "send_force"} /\ calls # <<>>
  BY <1>1, StepRuns, SendOneCalls
<1>3. /\ received' = [received EXCEPT ![c] = Append(@, Top.msg.n)]
      /\ ring' = ring /\ hit' = hit /\ events' = events /\ pfd' = pfd
  BY DEF SendOne, Delivered, IsLog, daemon
<1>4. CASE Top.op = "send_all"
  <2>1. /\ Depth = 2 /\ InLoop /\ Top.msg.n = events /\ events \in Nat
    BY <1>2, <1>4, OneFlight DEF LogLoop, LogSend, Sends, Structure, Types
  <2>2. \A x \in Range(received[c]) : x < events
    BY <1>2, <2>1 DEF InLoop
  <2>3. ring = <<>>
    <3>1. pfd # <<>>
      BY <1>2, EmptySeq
    <3> QED BY <1>2, <1>4, <2>1, <3>1 DEF Phase, Direct, First, Drain, NextHead, HeadCalls,
               NoClient, Sends
  <2> QED BY <1>2, <1>3, <1>4, <2>1, <2>2, <2>3
<1>5. CASE Top.op = "send_force"
  <2>1. /\ Depth = 5 /\ Top = At(5) /\ ring # <<>> /\ Top.msg = Head(ring) /\ ~HeadSent
        /\ pfd # <<>> /\ At(3).op = "drained"
    BY <1>5, ForcedHead
  <2>2. Head(ring) = ring[1] /\ 1 \in 1 .. Len(ring)
    BY <2>1, EmptySeq, LenProperties DEF Structure, Types
  <2>3. Top.msg.n \in InRing
    BY <2>1, <2>2, RingLogs
  <2>4. Top.msg.n \in Nat /\ Top.msg.n <= events
    BY <2>3 DEF Queue
  <2>5. ASSUME NEW x \in Range(received[c])
        PROVE  x < Top.msg.n \/ (x = Top.msg.n /\ x \in hit)
    <3>1. x \in Got
      BY <1>2 DEF Got
    <3> QED BY <2>1, <2>2, <3>1 DEF Queue, Older
  <2>6. HeadSent'
    <3>1. /\ Depth' = 5 /\ From(calls', 5).sent /\ Kept(4)
      BY <1>2, <2>1, SendOneCalls
    <3> QED BY <1>3, <2>1, <3>1 DEF HeadSent, At, Kept
  <2> QED BY <1>2, <1>3, <1>5, <2>1, <2>2, <2>4, <2>5, <2>6
<1> QED BY <1>2, <1>4, <1>5

(* A step that neither sends a log message nor moves the ring buffer.      *)
LEMMA QueueKept ==
  ASSUME Queue, ring' = ring, received' = received, hit \subseteq hit',
         events \in Nat, events' \in Nat, events <= events', HeadSent => HeadSent'
  PROVE  Queue'
<1>1. InRing' = InRing /\ Got' = Got
  BY DEF InRing, Got
<1>2. \A x \in InRing \cup Got : x \in Nat /\ x <= events'
  BY DEF Queue
<1>3. \A k \in 1 .. Len(ring) : \A x \in Got : Older(x, k) => Older(x, k)'
  BY DEF Older
<1> QED BY <1>1, <1>2, <1>3 DEF Queue

LEMMA StorePushQueue ==
  ASSUME Structure, Flights, Queue, StorePush
  PROVE  Queue'
<1>1. /\ Step /\ calls # <<>> /\ Depth \in Nat /\ Depth >= 1 /\ Top = At(Depth)
      /\ Top \in Frame /\ Top.op = "store" /\ Top.msg \in Message
      /\ events' = events /\ events \in Nat /\ state # "SEND_DIRECT"
      /\ received' = received /\ hit' = hit
  <2>1. Step /\ Top.op = "store" /\ state # "SEND_DIRECT" /\ received' = received /\ hit' = hit
    BY DEF Step, StorePush, Running, Buffering, history
  <2> QED BY <2>1, StepRuns, HistoryAfter DEF Frame, Structure, Types
<1>2. InRing' = InRing \cup (IF IsLog(Top.msg) THEN {Top.msg.n} ELSE {}) /\ Got' = Got
  BY <1>1, HistoryAfter DEF Got
<1>3. /\ Len(ring) \in Nat /\ Len(ring') = Len(ring) + 1 /\ ring'[Len(ring) + 1] = Top.msg
      /\ \A k \in 1 .. Len(ring) : ring'[k] = ring[k]
  BY <1>1, AppendProperties, LenProperties DEF StorePush, Structure, Types
<1>4. \A k \in 1 .. Len(ring') : k \in 1 .. Len(ring) \/ k = Len(ring) + 1
  BY <1>3
<1>5. HeadSent => HeadSent'
  <2>1. ~Drained
    BY <1>1 DEF Drained, Running
  <2> QED BY <1>1, <2>1, HeadStaysSent
<1>6. ASSUME IsLog(Top.msg)
      PROVE  /\ Depth = 1 /\ Top.msg.n = events /\ (events \in hit \/ events \notin Got)
             /\ \A x \in InRing : x < events
  BY <1>1, <1>6, OneFlight DEF LogSend, Sends, OnItsWay
<1>7. \A x \in InRing' \cup Got' : x \in Nat /\ x <= events'
  BY <1>1, <1>2, <1>6 DEF Queue
<1>8. ASSUME NEW k \in 1 .. Len(ring'), NEW l \in 1 .. Len(ring'),
             k < l, IsLog(ring'[k]), IsLog(ring'[l])
      PROVE  ring'[k].n < ring'[l].n
  <2>1. k \in 1 .. Len(ring)
    BY <1>3, <1>8
  <2>2. CASE l \in 1 .. Len(ring)
    BY <1>3, <1>8, <2>1, <2>2 DEF Queue
  <2>3. CASE l = Len(ring) + 1
    BY <1>3, <1>6, <1>8, <2>1, <2>3, RingLogs
  <2> QED BY <1>4, <2>2, <2>3
<1>9. ASSUME NEW k \in 1 .. Len(ring'), IsLog(ring'[k]), NEW x \in Got'
      PROVE  Older(x, k)'
  <2>1. CASE k \in 1 .. Len(ring)
    <3>1. Older(x, k)
      BY <1>2, <1>3, <1>9, <2>1 DEF Queue
    <3> QED BY <1>1, <1>3, <1>5, <2>1, <3>1 DEF Older
  <2>2. CASE k = Len(ring) + 1
    <3>1. x \in Nat /\ x <= events
      BY <1>2, <1>9 DEF Queue
    <3> QED BY <1>1, <1>2, <1>3, <1>6, <1>9, <2>2, <3>1 DEF Older
  <2> QED BY <1>4, <2>1, <2>2
<1> QED BY <1>7, <1>8, <1>9 DEF Queue

LEMMA DrainedQueue ==
  ASSUME Structure, Flights, Queue, Drained
  PROVE  Queue'
<1>1. /\ Step /\ calls # <<>> /\ Depth = 3 /\ Top = At(3) /\ Top.op = "drained"
      /\ events' = events /\ events \in Nat /\ received' = received /\ hit' = hit
      /\ InRing' \subseteq InRing
  <2>1. Step /\ Top.op = "drained" /\ received' = received /\ hit' = hit
    BY DEF Step, Drained, Running, history
  <2> QED BY <2>1, StepRuns, CallsAfter, HistoryAfter DEF Structure, Types
<1>2. CASE ret # "OK"
  <2>1. ~HeadSent /\ ring' = ring
    BY <1>1, <1>2, HeadState DEF Drained
  <2> QED BY <1>1, <2>1, QueueKept
<1>3. CASE ret = "OK"
  <2>1. ring' = Tail(ring) /\ ring # <<>>
    <3>1. ~NoDrain /\ Phase
      BY <1>1, StepRuns DEF NoDrain, DrainOps
    <3> QED BY <1>1, <1>3, <3>1 DEF Drained, AfterRemove, Phase, Direct, First, NoClient,
            CutShort, Sends, Drain, NextHead
  <2>2. /\ Len(ring) \in Nat /\ Len(ring') = Len(ring) - 1
        /\ \A k \in 1 .. Len(ring') : ring'[k] = ring[k + 1]
    BY <2>1, HeadTailProperties, LenProperties DEF Structure, Types
  <2>3. Got' = Got
    BY <1>1 DEF Got
  <2>4. \A k \in 1 .. Len(ring') : k + 1 \in 1 .. Len(ring) /\ k + 1 # 1
    BY <2>2
  <2>5. \A k, l \in 1 .. Len(ring') : k < l => k + 1 < l + 1
    OBVIOUS
  <2>6. ASSUME NEW k \in 1 .. Len(ring'), IsLog(ring'[k]), NEW x \in Got
        PROVE  Older(x, k)'
    <3>1. Older(x, k + 1)
      BY <2>2, <2>4, <2>6 DEF Queue
    <3> QED BY <1>1, <2>2, <2>4, <3>1 DEF Older
  <2>7. ASSUME NEW k \in 1 .. Len(ring'), NEW l \in 1 .. Len(ring'),
               k < l, IsLog(ring'[k]), IsLog(ring'[l])
        PROVE  ring'[k].n < ring'[l].n
    BY <2>2, <2>4, <2>5, <2>7 DEF Queue
  <2>8. \A x \in InRing' \cup Got' : x \in Nat /\ x <= events'
    BY <1>1, <2>3 DEF Queue
  <2> QED BY <2>3, <2>6, <2>7, <2>8 DEF Queue
<1> QED BY <1>2, <1>3

LEMMA SendOneQueue ==
  ASSUME Structure, Flights, Queue, SendOne
  PROVE  Queue'
<1>1. /\ Step /\ events' = events /\ events \in Nat /\ ring' = ring /\ hit \subseteq hit'
      /\ ~Drained /\ Top.op \in {"send_all", "send_force"}
  <2>1. Step /\ ~Drained /\ ~StorePush /\ Top.op \in {"send_all", "send_force"}
    BY DEF Step, SendOne, Sending, Drained, StorePush, Running
  <2> QED BY <2>1, HistoryAfter DEF Structure, Types
<1>2. HeadSent => HeadSent'
  BY <1>1, HeadStaysSent
<1>3. CASE pfd[Top.i] \in broken \/ ~IsLog(Top.msg)
  <2>1. received' = received
    BY <1>3 DEF SendOne, Delivered, IsLog
  <2> QED BY <1>1, <1>2, <2>1, QueueKept
<1>4. CASE pfd[Top.i] \notin broken /\ IsLog(Top.msg)
  <2> DEFINE c == pfd[Top.i]
             n == Top.msg.n
  <2>1. /\ c \in Client /\ n \in Nat /\ n <= events
        /\ received' = [received EXCEPT ![c] = Append(@, n)] /\ hit' = hit
        /\ Top.op = "send_all" => ring = <<>>
        /\ Top.op = "send_force" => HeadSent' /\ ring # <<>> /\ Top.msg = ring[1]
    BY <1>4, Delivery
  <2> HIDE DEF c, n
  <2>2. Got' = Got \cup {n}
    BY ONLY Structure, <2>1, Sent DEF Structure, Types
  <2>3. InRing' = InRing
    BY <1>1 DEF InRing
  <2>4. \A x \in InRing' \cup Got' : x \in Nat /\ x <= events'
    BY <1>1, <2>1, <2>2, <2>3 DEF Queue
  <2>5. ASSUME NEW k \in 1 .. Len(ring), IsLog(ring[k]), NEW x \in Got'
        PROVE  Older(x, k)'
    <3>1. CASE x \in Got
      <4>1. Older(x, k)
        BY <2>5, <3>1 DEF Queue
      <4> QED BY <1>1, <1>2, <4>1 DEF Older
    <3>2. CASE x = n
      <4>1. HeadSent' /\ n = ring[1].n /\ IsLog(ring[1])
        <5>1. ring # <<>>
          BY <2>5, EmptySeq
        <5> QED BY <1>1, <1>4, <2>1, <5>1 DEF n
      <4>2. CASE k = 1
        BY <1>1, <3>2, <4>1, <4>2 DEF Older
      <4>3. CASE k # 1
        <5>1. 1 \in 1 .. Len(ring) /\ 1 < k
          BY <2>5, <4>3, LenProperties DEF Structure, Types
        <5>2. ring[1].n < ring[k].n
          BY <2>5, <4>1, <5>1 DEF Queue
        <5> QED BY <1>1, <3>2, <4>1, <5>2 DEF Older
      <4> QED BY <4>2, <4>3
    <3> QED BY <2>2, <3>1, <3>2
  <2> QED BY <1>1, <2>4, <2>5 DEF Queue
<1> QED BY <1>3, <1>4

LEMMA QueueStep ==
  ASSUME Structure, Flights, Queue, [Next]_vars
  PROVE  Queue'
<1>0. events \in Nat
  BY DEF Structure, Types
<1>1. CASE UNCHANGED vars \/ PollTimeout \/ \E c \in Client : Break(c)
  <2>1. ring' = ring /\ received' = received /\ hit' = hit /\ events' = events
        /\ (HeadSent => HeadSent')
    BY <1>1 DEF HeadSent, At, Depth, vars, daemon, history, PollTimeout, Break
  <2> QED BY <1>0, <2>1, QueueKept
<1>2. CASE AppLog \/ AppOverflow \/ \E c \in Client : Connect(c) \/ ClientGone(c)
  <2>1. /\ ring' = ring /\ received' = received /\ hit' = hit
        /\ events' \in {events, events + 1} /\ ~HeadSent
    BY <1>2, NoFlight DEF AppLog, AppOverflow, Connect, ClientGone, daemon, history
  <2> QED BY <1>0, <2>1, QueueKept
<1>3. CASE Step
  <2>1. CASE StorePush \/ Drained \/ SendOne
    BY <2>1, StorePushQueue, DrainedQueue, SendOneQueue
  <2>2. CASE ~StorePush /\ ~Drained /\ ~SendOne
    BY <1>0, <1>3, <2>2, HistoryAfter, HeadStaysSent, QueueKept
  <2> QED BY <2>1, <2>2
<1> QED BY <1>1, <1>2, <1>3 DEF Next

-----------------------------------------------------------------------------
(* No message overtakes another.                                           *)

LEMMA InOrderStep ==
  ASSUME Structure, Flights, Queue, InOrder, [Next]_vars
  PROVE  InOrder'
<1>1. CASE received' = received /\ hit \subseteq hit'
  BY <1>1 DEF InOrder
<1>2. CASE SendOne /\ pfd[Top.i] \notin broken /\ IsLog(Top.msg)
  <2> DEFINE c == pfd[Top.i]
             n == Top.msg.n
             s == received[c]
  <2>1. /\ c \in Client /\ n \in Nat /\ received \in [Client -> Seq(Nat)]
        /\ received' = [received EXCEPT ![c] = Append(@, n)] /\ hit' = hit
        /\ \A x \in Range(s) : x < n \/ (x = n /\ x \in hit)
    BY <1>2, Delivery DEF Structure, Types
  <2>2. s \in Seq(Nat)
    BY <2>1
  <2>3. /\ Len(Append(s, n)) = Len(s) + 1 /\ Append(s, n)[Len(s) + 1] = n
        /\ \A i \in 1 .. Len(s) : Append(s, n)[i] = s[i]
        /\ Len(s) \in Nat
    BY <2>1, <2>2, AppendProperties, LenProperties
  <2>4. received'[c] = Append(s, n) /\ \A d \in Client \ {c} : received'[d] = received[d]
    BY <2>1
  <2>5. ASSUME NEW i \in 1 .. Len(s)
        PROVE  \/ Append(s, n)[i] < Append(s, n)[i + 1]
               \/ /\ Append(s, n)[i] = Append(s, n)[i + 1]
                  /\ Append(s, n)[i] \in hit
    <3>1. CASE i < Len(s)
      <4>1. i \in 1 .. Len(s) - 1 /\ i + 1 \in 1 .. Len(s)
        BY <2>3, <3>1
      <4>2. s[i] < s[i + 1] \/ (s[i] = s[i + 1] /\ s[i] \in hit)
        BY <2>1, <4>1 DEF InOrder
      <4> QED BY <2>3, <4>1, <4>2
    <3>2. CASE i = Len(s)
      <4>1. s[i] \in Range(s)
        BY <2>2, LenProperties DEF Range
      <4> QED BY <2>1, <2>3, <3>2, <4>1
    <3> QED BY <2>3, <3>1, <3>2
  <2>6. ASSUME NEW d \in Client, NEW i \in 1 .. Len(received'[d]) - 1
        PROVE  \/ received'[d][i] < received'[d][i + 1]
               \/ received'[d][i] = received'[d][i + 1] /\ received'[d][i] \in hit'
    <3>1. CASE d = c
      <4>1. i \in 1 .. Len(s)
        BY <2>3, <2>4, <2>6, <3>1
      <4> QED BY <2>1, <2>4, <2>5, <3>1, <4>1
    <3>2. CASE d # c
      BY <2>1, <2>4, <2>6, <3>2 DEF InOrder
    <3> QED BY <3>1, <3>2
  <2> QED BY <2>6 DEF InOrder
<1>3. \/ received' = received /\ hit \subseteq hit'
      \/ SendOne /\ pfd[Top.i] \notin broken /\ IsLog(Top.msg)
  <2>1. CASE Step
    <3>1. CASE SendOne
      BY <3>1 DEF SendOne, Delivered, IsLog
    <3>2. CASE ~SendOne
      BY <2>1, <3>2, HistoryAfter
    <3> QED BY <3>1, <3>2
  <2>2. CASE ~Step
    BY <2>2 DEF Next, AppLog, AppOverflow, Connect, ClientGone, Break, PollTimeout, vars,
       history
  <2> QED BY <2>1, <2>2
<1> QED BY <1>1, <1>2, <1>3

-----------------------------------------------------------------------------
(* No message is lost.                                                     *)

(* What was accounted for stays accounted for; the ring buffer only gives  *)
(* up a head that has been sent.                                           *)
LEMMA AccountedKept ==
  ASSUME Structure, Flights, Queue, Accounts, Step
  PROVE  Got \subseteq Got' /\ hit \cup Accounted \subseteq hit' \cup Accounted'
<1>1. hit \subseteq hit' /\ discarded \subseteq discarded'
  BY HistoryAfter
<1>2. Got \subseteq Got'
  <2>1. CASE received' = received
    BY <2>1 DEF Got
  <2>2. CASE received' # received
    <3>1. SendOne /\ pfd[Top.i] \notin broken /\ IsLog(Top.msg)
      BY <2>2, HistoryAfter DEF SendOne, Delivered, IsLog
    <3> DEFINE c == pfd[Top.i]
               n == Top.msg.n
    <3>2. /\ c \in Client /\ n \in Nat
          /\ received' = [received EXCEPT ![c] = Append(@, n)]
      BY <3>1, Delivery
    <3> HIDE DEF c, n
    <3> QED BY ONLY Structure, <3>2, Sent DEF Structure, Types
  <2> QED BY <2>1, <2>2
<1>3. InRing \subseteq InRing' \cup Got
  <2>1. CASE Drained
    <3>1. /\ calls # <<>> /\ Depth = 3 /\ Top = At(3) /\ Top.op = "drained" /\ Phase
      BY <2>1, StepRuns, CallsAfter DEF Drained, Running
    <3>2. CASE ret # "OK"
      BY <2>1, <3>2 DEF Drained, InRing
    <3>3. CASE ret = "OK"
      <4>1. ~NoDrain
        BY <3>1 DEF NoDrain, DrainOps
      <4>2. Drain /\ ring # <<>>
        BY <3>1, <3>3, <4>1 DEF Phase, Direct, First, NoClient, CutShort, Sends, Drain, NextHead
      <4>3. HeadSent
        <5>1. pfd # <<>>
          BY <4>2, EmptySeq DEF Drain
        <5> QED BY <3>1, <5>1 DEF HeadSent
      <4>4. IsLog(Head(ring)) => Head(ring).n \in Got
        BY <4>3 DEF Accounts
      <4>5. InRing = LogsIn(ring) /\ InRing' = LogsIn(Tail(ring)) /\ ring \in Seq(Message)
        <5>1. ring' = Tail(ring)
          BY <2>1, <3>3 DEF Drained, AfterRemove
        <5>2. InRing' = LogsIn(ring')
          BY DEF InRing, LogsIn
        <5> QED BY <5>1, <5>2, RingLogs DEF Structure, Types
      <4> QED BY <4>2, <4>4, <4>5, LogsRemoved
    <3> QED BY <3>2, <3>3
  <2>2. CASE ~Drained
    BY <2>2, HistoryAfter
  <2> QED BY <2>1, <2>2
<1>4. Accounted = InRing \cup discarded \cup Got
      /\ Accounted' = InRing' \cup discarded' \cup Got'
  BY DEF Accounted, Got
<1> QED BY <1>1, <1>2, <1>3, <1>4

(* The message on its way stays on its way until it is accounted for.      *)
LEMMA PendingKept ==
  ASSUME Structure, Flights, Queue, Accounts, Step, LogSend(1), Depth >= 1
  PROVE  events \in hit' \cup Accounted' \cup Pending'
<1>1. /\ calls # <<>> /\ Depth \in Nat /\ Top = At(Depth) /\ Top \in Frame
      /\ Kept(Depth - 1) /\ Depth' \in Nat /\ Depth' >= Depth - 1 /\ events' = events
  BY StepRuns, NewCalls, HistoryAfter
<1>2. CASE Depth > 1
  <2>1. From(calls', 1) = At(1) /\ Depth' >= 1
    BY <1>1, <1>2 DEF Kept
  <2>2. LogSend(1)'
    BY <2>1 DEF LogSend, At
  <2> QED BY <1>1, <2>1, <2>2 DEF Pending
<1>3. CASE Depth = 1
  <2>1. /\ OnItsWay /\ Top.msg.n = events /\ IsLog(Top.msg) /\ Top.msg \in Message
        /\ Top.op \in {"client_send", "store"}
    BY <1>1, <1>3, OneFlight DEF LogSend, Sends, Frame
  <2>2. ClientSend \/ StorePush \/ StoreDiscard \/ StoreDirect
    BY <2>1 DEF Step, UserOverflow, FirstClient, UpdateOverflow, UpdateReported,
       Connected, CloseSocket, SendOne, SendEnd, ForceGivesUp, Reported, SendRingbuffer,
       Drained, Sending, Running
  <2>3. CASE ClientSend
    <3>1. Depth' \in {1, 2} /\ From(calls', 1) = Store(Top.msg)
      BY <1>1, <1>3, <2>3, CallsAfter DEF Called, Continued
    <3>2. LogSend(1)'
      BY <2>1, <3>1, NewFrames DEF LogSend, At, Sends
    <3> QED BY <1>1, <3>1, <3>2 DEF Pending
  <2>4. CASE StorePush
    BY <2>1, <2>4, HistoryAfter DEF Accounted
  <2>5. CASE StoreDiscard
    BY <2>1, <2>5 DEF StoreDiscard, Accounted, IsLog
  <2>6. CASE StoreDirect
    <3>1. Top.op = "store" /\ state = "SEND_DIRECT"
      BY <1>1, <1>3, <2>1, <2>6 DEF StoreDirect, Forced, Running, Buffering
    <3>2. events \in hit \cup Got
      BY <1>1, <1>3, <2>1, <3>1 DEF OnItsWay
    <3> QED BY <3>2, AccountedKept, HistoryAfter DEF Accounted, Got
  <2> QED BY <2>2, <2>3, <2>4, <2>5, <2>6
<1> QED BY <1>1, <1>2, <1>3

(* A head that counts as sent has been received.                           *)
LEMMA HeadReceived ==
  ASSUME Structure, Flights, Queue, Accounts, Step, HeadSent', IsLog(Head(ring'))
  PROVE  Head(ring').n \in Got'
<1>1. ~Drained
  <2> SUFFICES ASSUME Drained PROVE FALSE
    OBVIOUS
  <2>1. /\ Depth = 3 /\ Depth' >= 3 /\ From(calls', 3).op = "drained"
        /\ Top.op = "drained" /\ Depth' \in Nat
    BY StepRuns, NewCalls, CallsAfter DEF Drained, Running, HeadSent, At
  <2>2. NewCall(From(calls', 3))
    BY <2>1, NewCalls
  <2> QED BY <2>1, <2>2 DEF NewCall, SendRingbuffer, Running
<1>2. CASE HeadSent
  <2>1. ring # <<>> /\ (IsLog(Head(ring)) => Head(ring).n \in Got)
    BY <1>2, HeadState DEF Accounts
  <2>2. Head(ring') = Head(ring)
    <3>1. CASE StorePush
      <4>1. Top.msg \in Message /\ ring' = Append(ring, Top.msg)
        BY <3>1, StepRuns DEF StorePush, Running, Frame
      <4> QED BY <2>1, <4>1, HeadTailAppend DEF Structure, Types
    <3>2. CASE ~StorePush
      BY <1>1, <3>2, HistoryAfter
    <3> QED BY <3>1, <3>2
  <2> QED BY <2>1, <2>2, AccountedKept
<1>3. CASE ~HeadSent
  <2>1. SendOne /\ Top.op = "send_force" /\ pfd[Top.i] \notin broken
    BY <1>3, HeadIsSent
  <2>2. Top.msg = Head(ring) /\ ring' = ring
    BY <2>1, ForcedHead DEF SendOne, daemon
  <2> DEFINE c == pfd[Top.i]
             n == Top.msg.n
  <2>3. /\ c \in Client /\ n \in Nat
        /\ received' = [received EXCEPT ![c] = Append(@, n)]
    BY <2>1, <2>2, Delivery
  <2>4. n = Head(ring').n
    BY <2>2
  <2> HIDE DEF c, n
  <2>5. Got' = Got \cup {n}
    BY ONLY Structure, <2>3, Sent DEF Structure, Types
  <2> QED BY <2>4, <2>5
<1> QED BY <1>2, <1>3

LEMMA AccountsStep ==
  ASSUME Structure, Flights, Queue, Accounts, [Next]_vars
  PROVE  Accounts'
<1>0. events \in Nat
  BY DEF Structure, Types
<1>1. CASE UNCHANGED vars \/ PollTimeout \/ \E c \in Client : Break(c)
  BY <1>1 DEF Accounts, Accounted, InRing, Got, Pending, LogSend, HeadSent, At, Depth, vars,
     daemon, history, PollTimeout, Break
<1>2. CASE AppLog \/ AppOverflow \/ \E c \in Client : Connect(c) \/ ClientGone(c)
  <2>1. /\ Pending = {} /\ ring' = ring /\ received' = received /\ hit' = hit
        /\ discarded \subseteq discarded'
    BY <1>2, NoFlight DEF AppLog, AppOverflow, Connect, ClientGone, daemon, history
  <2>2. Accounted \subseteq Accounted'
    BY <2>1 DEF Accounted, InRing
  <2>3. Depth' \in {1, 2}
    <3>1. /\ Log(events + 1) \in Message /\ Overflow(1) \in Message /\ Internal \in Message
      BY <1>0, Messages
    <3>2. Call("user_overflow") \in Frame /\ Call("first_client") \in Frame
      BY NewFrames DEF Ops
    <3> QED BY <1>2, <3>1, <3>2, NewFrames, StackNew DEF AppLog, AppOverflow, Connect, ClientGone
  <2>4. ~HeadSent'
    BY <2>3 DEF HeadSent
  <2>5. \/ events' = events
        \/ events' = events + 1 /\ events + 1 \in discarded' \cup Pending'
    <3>1. CASE AppLog
      <4>1. Log(events + 1) \in Message /\ IsLog(Log(events + 1))
        BY <1>0, Messages DEF IsLog
      <4>2. /\ Depth' = 1 /\ From(calls', 1).op = "client_send"
            /\ IsLog(From(calls', 1).msg)
        BY <3>1, <4>1, NewFrames, StackNew DEF AppLog
      <4> QED BY <3>1, <4>2 DEF AppLog, Pending, LogSend, Sends, At
    <3>2. CASE AppOverflow
      BY <3>2 DEF AppOverflow
    <3>3. CASE \E c \in Client : Connect(c) \/ ClientGone(c)
      BY <3>3 DEF Connect, ClientGone
    <3> QED BY <1>2, <3>1, <3>2, <3>3
  <2>6. 1 .. events \subseteq hit' \cup Accounted'
    BY <2>1, <2>2 DEF Accounts
  <2>7. 1 .. events + 1 = 1 .. events \cup {events + 1}
    BY <1>0
  <2>8. discarded' \subseteq Accounted'
    BY DEF Accounted
  <2> QED BY <2>4, <2>5, <2>6, <2>7, <2>8 DEF Accounts
<1>3. CASE Step
  <2>1. events' = events /\ Depth \in Nat
    BY <1>3, HistoryAfter, StepRuns
  <2>2. hit \cup Accounted \subseteq hit' \cup Accounted'
    BY <1>3, AccountedKept
  <2>3. Pending \subseteq hit' \cup Accounted' \cup Pending'
    BY <1>3, PendingKept DEF Pending
  <2>4. 1 .. events' \subseteq hit' \cup Accounted' \cup Pending'
    BY <2>1, <2>2, <2>3 DEF Accounts
  <2>5. (HeadSent /\ IsLog(Head(ring)) => Head(ring).n \in Got)'
    BY <1>3, HeadReceived DEF IsLog
  <2> QED BY <2>4, <2>5 DEF Accounts
<1> QED BY <1>1, <1>2, <1>3 DEF Next

-----------------------------------------------------------------------------
(* The log messages through all the daemon's handlers.                     *)
Logs == Flights /\ Queue /\ InOrder /\ Accounts

LEMMA LogsCorrect == Spec => [](Structure /\ Logs)
<1>1. Init => Structure /\ Logs
  <2> SUFFICES ASSUME Init PROVE Structure /\ Logs
    OBVIOUS
  <2>1. Structure /\ calls = <<>>
    BY InitStructure DEF Init
  <2>2. /\ Depth = 0 /\ events = 0 /\ ring = <<>> /\ Len(ring) = 0 /\ InRing = {}
        /\ \A c \in Client : received[c] = <<>>
    BY <2>1, IdlePhase, EmptySeq DEF Init, InRing
  <2>3. Got = {}
    <3>1. Range(<<>>) = {}
      BY DEF Range
    <3> QED BY <2>2, <3>1 DEF Got
  <2>4. \A c \in Client : 1 .. Len(received[c]) - 1 = {}
    BY <2>2
  <2> QED BY <2>1, <2>2, <2>3, <2>4 DEF Logs, Flights, Queue, InOrder, Accounts, HeadSent
<1>2. Structure /\ Logs /\ [Next]_vars => (Structure /\ Logs)'
  BY StructureStep, FlightsStep, QueueStep, InOrderStep, AccountsStep DEF Logs
<1> QED BY <1>1, <1>2, PTL DEF Spec

(* Whatever breaks while something is sent, and however often clients come *)
(* and go: no client is sent a log message after a younger one, and one    *)
(* message twice only when its own send has closed a socket.               *)
THEOREM InOrderCorrect == Spec => []InOrder
<1>1. Structure /\ Logs => InOrder
  BY DEF Logs
<1> QED BY <1>1, LogsCorrect, PTL

(* Every log message that the daemon has taken is sent, is in the ring     *)
(* buffer, or has been discarded and counted, unless one of its sends has  *)
(* closed a socket.                                                        *)
THEOREM NoSilentLossCorrect == Spec => []NoSilentLoss
<1>1. Structure /\ Logs => NoSilentLoss
  <2> SUFFICES ASSUME Structure, Logs, Idle PROVE (1 .. events) \ hit \subseteq Accounted
    BY DEF NoSilentLoss
  <2>1. Pending = {}
    BY NoFlight DEF Logs, Idle
  <2> QED BY <2>1 DEF Logs, Accounts
<1> QED BY <1>1, LogsCorrect, PTL

-----------------------------------------------------------------------------
(***************************************************************************)
(* Every lost message is known: to the clients, by a report that waits in  *)
(* the ring buffer, or in the overflow counter.  The balance holds at any  *)
(* moment of a handler when a report that is under way is booked from the  *)
(* call that sends it to the call that waits for its result.               *)
(***************************************************************************)

IsOverflow(m) == m.kind = "overflow"
Waits == {"user_overflow", "update_reported", "reported"}

(* The calls that wait for the result of a report, and the report itself.  *)
ForReport(f) ==
  \/ f.op \in Waits
  \/ f.op \in Sends \cup {"send_all"} /\ IsOverflow(f.msg)
ReportCall(j) == ForReport(At(j))
NoReport(n) == \A j \in 1 .. n : ~ReportCall(j)

(* The innermost call that waits.  Storing or sending a report may start   *)
(* another report, but only while the clients are sent to directly.        *)
Nested(b) ==
  /\ b >= 2 /\ At(b).op = "reported" /\ state = "SEND_DIRECT"
  /\ At(b - 1).op \in {"user_overflow", "update_reported"} /\ NoReport(b - 2)
Waiting(b) == b >= 1 /\ At(b).op \in Waits /\ (NoReport(b - 1) \/ Nested(b))

(* What the overflow counter has to cover when that call waits: once the   *)
(* report is made, nothing of what it counted; until then all of it, if no *)
(* other caller reports it too.                                            *)
Settled(b) == IF At(b).op = "user_overflow" THEN overflow_counter ELSE 0
Unsettled(b) ==
  IF At(b).op = "user_overflow" THEN overflow_counter + 1
  ELSE IF b >= 2 /\ At(b - 1).op = "update_reported" THEN 0
  ELSE overflow_counter
Owed(b, made) == IF made THEN Settled(b) ELSE Unsettled(b)

(* What the report says, as long as it is not made.                        *)
Amount(b) == IF At(b).op = "user_overflow" THEN 1 ELSE overflow_counter

(* The head of the ring buffer is in there until it has been sent.         *)
HeadCount == IF HeadSent /\ IsOverflow(Head(ring)) THEN Head(ring).n ELSE 0
Balance(x) == lost + HeadCount <= reported + ReportsInRing + x

(* No report is under way; its result is there; it waits to be sent or     *)
(* stored; it is being sent in the loop over the poll table.               *)
Quiet == NoReport(Depth) /\ Balance(overflow_counter)
Returns == Waiting(Depth) /\ Balance(Owed(Depth, ret = "OK"))
Directly == At(Depth).op = "store" /\ state = "SEND_DIRECT"
Hands ==
  /\ Waiting(Depth - 1) /\ At(Depth).op \in Sends /\ IsOverflow(At(Depth).msg)
  /\ Directly \/ At(Depth).msg.n = Amount(Depth - 1)
  /\ Balance(Owed(Depth - 1, Directly))
Loops ==
  /\ Waiting(Depth - 2) /\ state = "SEND_DIRECT"
  /\ At(Depth - 1).op = "store" /\ IsOverflow(At(Depth - 1).msg)
  /\ At(Depth).op = "send_all" /\ At(Depth).msg = At(Depth - 1).msg
  /\ At(Depth).sent \/ (At(Depth).i = 1 /\ At(Depth).msg.n = Amount(Depth - 2))
  /\ Balance(Owed(Depth - 2, At(Depth).sent))

Ledger == Report \notin hit => Quiet \/ Returns \/ Hands \/ Loops

-----------------------------------------------------------------------------
(* What the reports in the ring buffer add up to.                          *)

ToldBy(m) == IF m.kind = "overflow" THEN m.n ELSE 0
ReportsIn(q) == Sum([i \in 1 .. Len(q) |-> ToldBy(q[i])], 1 .. Len(q))

LEMMA ReportsInRingIs ==
  ASSUME ring \in Seq(Message)
  PROVE  ReportsInRing = ReportsIn(ring)
<1> DEFINE S == 1 .. Len(ring)
           w == [i \in S |-> ToldBy(ring[i])]
<1>1. IsFiniteSet(S) /\ w \in [S -> Int]
  <2>1. Len(ring) \in Nat /\ \A i \in S : ring[i] \in Message
    BY LenProperties, ElementOfSeq
  <2>2. IsFiniteSet(S)
    BY <2>1, 1 \in Int, Len(ring) \in Int, FS_Interval
  <2>3. \A i \in S : ToldBy(ring[i]) \in Int
    BY <2>1 DEF ToldBy, Message
  <2> QED BY <2>2, <2>3
<1>2. \A i \in S : w[i] = IF ring[i].kind = "overflow" THEN ring[i].n ELSE 0
  BY DEF ToldBy
<1> HIDE DEF w
<1>3. \E g : RawSum(g, w, S)
  BY <1>1, SumExists, RawSumIsSum
<1>4. PICK g : RawSum(g, w, S) /\ Sum(w, S) = g[S]
  BY <1>1, SumValue, RawSumIsSum
<1>5. \A A \in SUBSET S : A # {} => Pick(A) \in S
  BY DEF Pick
<1> DEFINE Folded(h) ==
             h = [A \in SUBSET S |-> IF A = {} THEN 0 ELSE
                    (IF ring[Pick(A)].kind = "overflow" THEN ring[Pick(A)].n ELSE 0)
                    + h[A \ {Pick(A)}]]
<1>6. \A h : RawSum(h, w, S) <=> Folded(h)
  BY <1>2, <1>5 DEF RawSum
<1>7. \E h : RawSum(h, w, S) /\ ReportsInRing = h[S]
  <2>1. \E h : Folded(h)
    BY <1>3, <1>6
  <2>2. ReportsInRing = (CHOOSE h : Folded(h))[S]
    BY DEF Pick, ReportsInRing, MapThenSumSet, MapThenFoldSet
  <2> HIDE DEF Folded
  <2> QED BY <1>6, <2>1, <2>2
<1>8. ASSUME NEW h, RawSum(h, w, S) PROVE h[S] = g[S]
  <2>1. SumsTo(h, w, S) /\ SumsTo(g, w, S)
    BY <1>1, <1>4, <1>8, RawSumIsSum
  <2>2. \A A \in SUBSET S : h[A] = g[A]
    <3> HIDE DEF S
    <3> QED BY <1>1, <2>1, SumAgrees
  <2> QED BY <2>2
<1> QED BY <1>4, <1>7, <1>8 DEF ReportsIn, w

LEMMA ReportsAppended ==
  ASSUME NEW q \in Seq(Message), NEW m \in Message
  PROVE  ReportsIn(Append(q, m)) = ReportsIn(q) + ToldBy(m) /\ ReportsIn(q) \in Nat
<1> DEFINE n == Len(q)
           t == Append(q, m)
           v == [i \in 1 .. n |-> ToldBy(q[i])]
           w == [i \in 1 .. n + 1 |-> ToldBy(t[i])]
<1>1. /\ Len(t) = n + 1 /\ t[n + 1] = m /\ n \in Nat
      /\ \A i \in 1 .. n : t[i] = q[i] /\ q[i] \in Message
  BY AppendProperties, LenProperties, ElementOfSeq
<1>2. \A x \in Message : ToldBy(x) \in Nat
  BY DEF ToldBy, Message
<1> HIDE DEF t, n
<1>3. \A i \in 1 .. n + 1 : t[i] \in Message
  <2>1. \A i \in 1 .. n + 1 : i \in 1 .. n \/ i = n + 1
    BY <1>1
  <2> QED BY <1>1, <2>1
<1>4. v \in [1 .. n -> Nat] /\ w \in [1 .. n + 1 -> Int] /\ v \in [1 .. n -> Int]
  BY <1>1, <1>2, <1>3
<1>5. w[n + 1] = ToldBy(m) /\ \A i \in 1 .. n : v[i] = w[i]
  BY <1>1
<1> HIDE DEF v, w
<1>6. Sum(w, 1 .. n + 1) = w[n + 1] + Sum(v, 1 .. n)
  BY <1>1, <1>4, <1>5, SumLonger
<1>7. Sum(v, 1 .. n) \in Nat
  <2>1. IsFiniteSet(1 .. n)
    BY <1>1, 1 \in Int, n \in Int, FS_Interval
  <2> QED BY <1>4, <2>1, SumTypes
<1>8. ReportsIn(q) = Sum(v, 1 .. n) /\ ReportsIn(t) = Sum(w, 1 .. n + 1)
  BY <1>1 DEF ReportsIn, v, w, n
<1>9. ToldBy(m) \in Nat
  BY <1>2
<1> QED BY <1>5, <1>6, <1>7, <1>8, <1>9 DEF t

LEMMA ReportsRemoved ==
  ASSUME NEW q \in Seq(Message), q # <<>>
  PROVE  /\ ReportsIn(q) = ToldBy(Head(q)) + ReportsIn(Tail(q))
         /\ ReportsIn(Tail(q)) \in Nat
<1> DEFINE n == Len(q) - 1
           t == Tail(q)
           w == [i \in 1 .. n + 1 |-> ToldBy(q[i])]
           v == [i \in 1 .. n |-> ToldBy(t[i])]
<1>1. /\ Len(q) = n + 1 /\ Len(t) = n /\ n \in Nat /\ Head(q) = q[1]
      /\ t \in Seq(Message)
      /\ \A i \in 1 .. n : t[i] = q[i + 1]
      /\ \A i \in 1 .. n + 1 : q[i] \in Message
  BY HeadTailProperties, LenProperties, ElementOfSeq, EmptySeq
<1>2. \A x \in Message : ToldBy(x) \in Nat
  BY DEF ToldBy, Message
<1> HIDE DEF t, n
<1>3. /\ v \in [1 .. n -> Nat] /\ w \in [1 .. n + 1 -> Int] /\ v \in [1 .. n -> Int]
      /\ w[1] = ToldBy(q[1]) /\ \A i \in 1 .. n : v[i] = w[i + 1]
  <2>1. \A i \in 1 .. n : i + 1 \in 1 .. n + 1 /\ t[i] \in Message
    BY <1>1
  <2> QED BY <1>1, <1>2, <2>1
<1> HIDE DEF v, w
<1>4. Sum(w, 1 .. n + 1) = w[1] + Sum(v, 1 .. n)
  BY <1>1, <1>3, SumShifted
<1>5. Sum(v, 1 .. n) \in Nat
  <2>1. IsFiniteSet(1 .. n)
    BY <1>1, 1 \in Int, n \in Int, FS_Interval
  <2> QED BY <1>3, <2>1, SumTypes
<1>6. ReportsIn(q) = Sum(w, 1 .. n + 1) /\ ReportsIn(t) = Sum(v, 1 .. n)
  BY <1>1 DEF ReportsIn, v, w
<1> QED BY <1>1, <1>3, <1>4, <1>5, <1>6 DEF t

(* The ring buffer after a push and after a removal.                       *)
LEMMA SumAfter ==
  /\ ring \in Seq(Message) => ReportsInRing = ReportsIn(ring)
  /\ ring' \in Seq(Message) => ReportsInRing' = ReportsIn(ring')
<1>1. ring \in Seq(Message) => ReportsInRing = ReportsIn(ring)
  BY ReportsInRingIs
<1>2. (ring \in Seq(Message) => ReportsInRing = ReportsIn(ring))'
  BY <1>1, PTL
<1> QED BY <1>1, <1>2

LEMMA ReportsSame ==
  ASSUME ring \in Seq(Message), ring' = ring
  PROVE  ReportsInRing' = ReportsInRing
BY SumAfter

LEMMA ReportsPushed ==
  ASSUME ring \in Seq(Message), NEW m \in Message, ring' = Append(ring, m)
  PROVE  /\ ReportsInRing' = ReportsInRing + ToldBy(m)
         /\ ring # <<>> => Head(ring') = Head(ring)
<1>1. ring' \in Seq(Message)
  BY AppendProperties
<1>2. ReportsIn(ring') = ReportsIn(ring) + ToldBy(m)
  BY ReportsAppended
<1>3. ring # <<>> => Head(ring') = Head(ring)
  BY HeadTailProperties, AppendProperties, LenProperties, EmptySeq
<1> QED BY <1>1, <1>2, <1>3, SumAfter

LEMMA ReportsTaken ==
  ASSUME ring \in Seq(Message), ring # <<>>, ring' = Tail(ring)
  PROVE  ReportsInRing = ToldBy(Head(ring)) + ReportsInRing'
<1>1. ring' \in Seq(Message)
  BY HeadTailProperties
<1>2. ReportsIn(ring) = ToldBy(Head(ring)) + ReportsIn(ring')
  BY ReportsRemoved
<1> QED BY <1>1, <1>2, SumAfter

-----------------------------------------------------------------------------
(* What a step leaves alone.                                               *)

Natural ==
  /\ lost \in Nat /\ reported \in Nat /\ overflow_counter \in Nat
  /\ HeadCount \in Nat /\ ReportsInRing \in Nat
  /\ HeadCount = IF HeadSent THEN ToldBy(Head(ring)) ELSE 0
LEMMA Numbers == Structure => Natural
<1> SUFFICES ASSUME Structure PROVE Natural
  OBVIOUS
<1>1. ring \in Seq(Message) /\ Internal \in Message
  BY Messages DEF Structure, Types
<1>2. ReportsInRing \in Nat
  BY <1>1, ReportsInRingIs, ReportsAppended
<1>3. HeadSent => Head(ring) \in Message
  BY <1>1, HeadState, HeadTailProperties
<1> QED BY <1>2, <1>3 DEF Natural, Structure, Types, HeadCount, IsOverflow, ToldBy, Message

LEMMA NumbersAfter == (Structure => Natural) /\ (Structure' => Natural')
BY Numbers, PTL

(* The head is newly sent only by the loop of the drain.                   *)
LEMMA HeadCountAfter ==
  ASSUME Structure, Step, ~Drained, ~(SendOne /\ Top.op = "send_force"),
         ring # <<>> => Head(ring') = Head(ring)
  PROVE  HeadCount' <= HeadCount /\ HeadCount' \in Nat
<1>1. Structure'
  BY StepRuns
<1>2. HeadSent' => HeadSent
  BY HeadIsSent
<1>3. HeadCount \in Nat /\ HeadCount' \in Nat
  BY <1>1, NumbersAfter DEF Natural
<1>4. CASE HeadSent'
  <2>1. ring # <<>>
    BY <1>2, <1>4, HeadState
  <2> QED BY <1>2, <1>3, <1>4, <2>1 DEF HeadCount, IsOverflow
<1>5. CASE ~HeadSent'
  BY <1>3, <1>5 DEF HeadCount
<1> QED BY <1>3, <1>4, <1>5

(* Which part of the ledger applies is seen from the running call.         *)
LEMMA LedgerTop ==
  ASSUME Structure, Step, Ledger, Report \notin hit
  PROVE  /\ At(Depth).op \in Waits => Returns
         /\ At(Depth).op \in Sends /\ IsOverflow(At(Depth).msg) => Hands
         /\ At(Depth).op = "send_all" /\ IsOverflow(At(Depth).msg) => Loops
         /\ ~ReportCall(Depth) => Quiet
<1>1. Depth \in Nat /\ Depth >= 1
  BY StepRuns
<1>2. Quiet => ~ReportCall(Depth)
  BY <1>1 DEF Quiet, NoReport
<1>3. Returns => At(Depth).op \in Waits
  BY DEF Returns, Waiting
<1>4. Hands => At(Depth).op \in Sends /\ IsOverflow(At(Depth).msg)
  BY DEF Hands
<1>5. Loops => At(Depth).op = "send_all" /\ IsOverflow(At(Depth).msg)
  BY DEF Loops
<1> QED BY <1>2, <1>3, <1>4, <1>5 DEF Ledger, ReportCall, ForReport, Waits, Sends

(* The callers stay as they are.                                           *)
LEMMA ReportsKept ==
  ASSUME Structure, Step
  PROVE  /\ \A n \in Int : n <= Depth - 1 /\ NoReport(n) => NoReport(n)'
         /\ \A b \in 1 .. Depth - 1 :
              Waiting(b) /\ (state' = state \/ NoReport(b - 1)) => Waiting(b)'
<1>1. /\ Depth \in Nat /\ Depth >= 1 /\ Kept(Depth - 1)
  BY StepRuns, NewCalls
<1>2. \A j \in 1 .. Depth - 1 : From(calls', j) = At(j)
  BY <1>1 DEF Kept
<1>3. \A j \in 1 .. Depth - 1 : ReportCall(j)' <=> ReportCall(j)
  BY <1>2 DEF ReportCall, At
<1>4. ASSUME NEW n \in Int, n <= Depth - 1, NoReport(n) PROVE NoReport(n)'
  <2>1. \A j \in 1 .. n : j \in 1 .. Depth - 1
    BY <1>1, <1>4
  <2> QED BY <1>3, <1>4, <2>1 DEF NoReport
<1>5. ASSUME NEW b \in 1 .. Depth - 1, Waiting(b), state' = state \/ NoReport(b - 1)
      PROVE  Waiting(b)'
  <2>1. /\ b \in Int /\ b - 1 \in Int /\ b - 2 \in Int
        /\ b - 1 <= Depth - 1 /\ b - 2 <= Depth - 1
    BY <1>1
  <2>2. From(calls', b) = At(b) /\ (b >= 2 => From(calls', b - 1) = At(b - 1))
    BY <1>1, <1>2
  <2>3. NoReport(b - 1) => NoReport(b - 1)'
    BY <1>4, <2>1
  <2>4. NoReport(b - 2) => NoReport(b - 2)'
    BY <1>4, <2>1
  <2>5. CASE NoReport(b - 1)
    BY <1>5, <2>2, <2>3, <2>5 DEF Waiting, At
  <2>6. CASE ~NoReport(b - 1)
    BY <1>5, <2>2, <2>4, <2>6 DEF Waiting, Nested, At
  <2> QED BY <2>5, <2>6
<1> QED BY <1>4, <1>5

(* A handler that does not report goes on without a report.                *)
LEMMA StaysQuiet ==
  ASSUME Structure, Step, NoReport(Depth - 1),
         \A k \in Depth .. Depth' : ~ReportCall(k)'
  PROVE  NoReport(Depth)'
<1>1. /\ Depth \in Nat /\ Depth >= 1 /\ Depth' \in Nat /\ Depth' >= Depth - 1
  BY StepRuns, NewCalls
<1>2. \A k \in 1 .. Depth - 1 : ~ReportCall(k)'
  <2>1. \A n \in Int : n <= Depth - 1 /\ NoReport(n) => NoReport(n)'
    BY ReportsKept
  <2>2. PICK n \in Int : n = Depth - 1
    BY <1>1
  <2>3. NoReport(n)'
    BY <2>1, <2>2
  <2> QED BY <2>2, <2>3 DEF NoReport
<1>3. \A k \in 1 .. Depth' : k \in 1 .. Depth - 1 \/ k \in Depth .. Depth'
  BY <1>1
<1> QED BY <1>2, <1>3 DEF NoReport

-----------------------------------------------------------------------------
(* Steps of calls that have nothing to do with a report.                   *)

LEMMA PlainFrames ==
  /\ \A op \in {"send_ringbuffer", "update_overflow", "connected", "forced", "drained"} :
       ~ForReport(Call(op))
  /\ ~ForReport(Send(Internal))
  /\ \A m \in Message : ~ForReport(SendAll(m, "send_force"))
  /\ \A m \in Message :
       ~IsOverflow(m) => ~ForReport(Store(m)) /\ ~ForReport(SendAll(m, "send_all"))
  /\ \A c \in Client : ~ForReport(Close(c))
BY Messages, NewFrames DEF ForReport, Waits, Sends, Ops, IsOverflow

LEMMA PlainCalls ==
  ASSUME Structure, Step, ~ReportCall(Depth),
         ~(UpdateOverflow /\ UpdateDue), ~(StoreDirect /\ ReportDue)
  PROVE  \A k \in Depth .. Depth' : ~ReportCall(k)'
<1>0. /\ calls # <<>> /\ Depth \in Nat /\ Depth >= 1 /\ Top = At(Depth) /\ Top \in Frame
      /\ ~ForReport(Top)
  BY StepRuns DEF ReportCall
<1>1. ring # <<>> => Head(ring) \in Message
  BY HeadTailProperties DEF Structure, Types
<1>2. ASSUME Returned PROVE \A k \in Depth .. Depth' : ~ForReport(From(calls', k))
  BY <1>0, <1>2 DEF Returned
<1>3. ASSUME NEW f, Continued(f), ~ForReport(f)
      PROVE  \A k \in Depth .. Depth' : ~ForReport(From(calls', k))
  BY <1>0, <1>3 DEF Continued
<1>4. ASSUME NEW f, NEW g, Called(f, g), ~ForReport(f), ~ForReport(g)
      PROVE  \A k \in Depth .. Depth' : ~ForReport(From(calls', k))
  <2>1. \A k \in Depth .. Depth' : k = Depth \/ k = Depth + 1
    BY <1>0, <1>4 DEF Called
  <2> QED BY <1>4, <2>1 DEF Called
<1>5. ASSUME NEW f, NEW g, NEW h, CalledTwo(f, g, h),
             ~ForReport(f), ~ForReport(g), ~ForReport(h)
      PROVE  \A k \in Depth .. Depth' : ~ForReport(From(calls', k))
  <2>1. \A k \in Depth .. Depth' : k = Depth \/ k = Depth + 1 \/ k = Depth + 2
    BY <1>0, <1>5 DEF CalledTwo
  <2> QED BY <1>5, <2>1 DEF CalledTwo
<1>6. \A k \in Depth .. Depth' : ~ForReport(From(calls', k))
  <2>1. CASE UserOverflow \/ UpdateReported \/ Connected \/ SendEnd \/ StorePush
             \/ StoreDiscard \/ ForceGivesUp \/ Reported
    BY <1>0, <1>2, <2>1, CallsAfter
  <2>2. CASE FirstClient
    BY <1>0, <1>2, <1>5, <2>2, CallsAfter, PlainFrames
  <2>3. CASE UpdateOverflow \/ StoreDirect
    BY <1>0, <1>2, <2>3, CallsAfter
  <2>4. CASE CloseSocket
    BY <1>0, <1>4, <2>4, CallsAfter, PlainFrames
  <2>5. CASE ClientSend
    <3>1. Top.msg \in Message /\ ~IsOverflow(Top.msg)
      BY <1>0, <2>5 DEF ClientSend, Running, Frame, ForReport, Sends
    <3>2. ~ForReport(Store(Top.msg)) /\ ~ForReport(SendAll(Top.msg, "send_all"))
      BY <3>1, PlainFrames
    <3> QED BY <1>0, <1>3, <1>4, <2>5, <3>2, CallsAfter
  <2>6. CASE SendOne
    <3>1. PICK g \in Frame :
             /\ pfd[Top.i] \in Client
             /\ From(calls', Depth) = g /\ g.op = Top.op /\ g.msg = Top.msg
             /\ \/ Depth' = Depth
                \/ Depth' = Depth + 1 /\ From(calls', Depth + 1) = Close(pfd[Top.i])
      BY <2>6, SendOneCalls
    <3>2. ~ForReport(g) /\ ~ForReport(Close(pfd[Top.i]))
      BY <1>0, <3>1, PlainFrames DEF ForReport
    <3>3. \A k \in Depth .. Depth' : k = Depth \/ (k = Depth + 1 /\ Depth' = Depth + 1)
      BY <1>0, <3>1
    <3> QED BY <1>0, <3>1, <3>2, <3>3
  <2>7. CASE SendRingbuffer
    BY <1>0, <1>1, <1>2, <1>5, <2>7, CallsAfter, PlainFrames
  <2>8. CASE Drained
    BY <1>0, <1>2, <1>3, <2>8, CallsAfter, PlainFrames
  <2> QED BY <2>1, <2>2, <2>3, <2>4, <2>5, <2>6, <2>7, <2>8 DEF Step
<1> QED BY <1>6 DEF ReportCall, At

(* While the head has been sent nothing is sent in a loop.                 *)
LEMMA HeadSentEnds ==
  ASSUME Structure, HeadSent, Step
  PROVE  ~SendOne
<1>1. Top = At(Depth)
  BY StepRuns
<1>2. SendOne => Top.op \in {"send_all", "send_force"} /\ Top.i <= Len(pfd)
  BY DEF SendOne, Sending, Running
<1>3. Depth = 3 => At(3).op = "drained"
  BY DEF HeadSent
<1>4. /\ Len(pfd) = 1 /\ (Depth = 3 \/ Depth = 4 \/ Depth = 5)
      /\ Depth = 4 => At(4).op \in {"forced", "reported"}
      /\ Depth = 5 => At(5).op \in Sends \/ (At(5).op = "send_force" /\ At(5).i = 2)
  BY HeadState
<1>5. Depth = 4 => At(4).op \notin {"send_all", "send_force"}
  BY <1>4
<1>6. Depth = 5 => At(5).op \notin {"send_all", "send_force"} \/ At(5).i = 2
  BY <1>4 DEF Sends
<1> QED BY <1>1, <1>2, <1>3, <1>4, <1>5, <1>6

(* Sending the head to the first client is what reports it.                *)
LEMMA HeadReported ==
  ASSUME Structure, Step, SendOne, HeadSent'
  PROVE  /\ Top.op = "send_force" /\ Top.msg = Head(ring) /\ ~Top.sent
         /\ pfd[Top.i] \notin broken /\ ring' = ring
<1>1. /\ ~HeadSent /\ Top.op = "send_force" /\ pfd[Top.i] \notin broken
      /\ Depth = 5 /\ Top.i = 1 /\ Top = At(Depth)
  BY HeadSentEnds, HeadIsSent, StepRuns
<1>2. ~NoDrain /\ pfd # <<>>
  <2>1. 5 \in 1 .. Depth /\ At(5).op = "send_force"
    BY <1>1
  <2>2. Len(pfd) >= 1
    BY <1>1 DEF SendOne
  <2>3. ~NoDrain
    BY <2>1 DEF NoDrain, DrainOps
  <2>4. pfd # <<>>
    BY <2>2
  <2> QED BY <2>3, <2>4
<1>3. Drain /\ HeadCalls
  BY <1>1, <1>2, StepRuns DEF Phase, Direct, First, NoClient, Drain, NextHead
<1>4. Top.msg = Head(ring) /\ ~Top.sent
  BY <1>1, <1>3 DEF HeadCalls, Sends
<1> QED BY <1>1, <1>4 DEF SendOne, daemon

LEMMA QuietStep ==
  ASSUME Structure, Step, Ledger, Report \notin hit, ~ReportCall(Depth),
         ~(UpdateOverflow /\ UpdateDue), ~(StoreDirect /\ ReportDue)
  PROVE  Quiet'
<1>0. /\ Depth \in Nat /\ Depth >= 1 /\ Top = At(Depth) /\ Top \in Frame /\ Structure'
      /\ Quiet /\ ~ForReport(Top)
  BY StepRuns, LedgerTop DEF ReportCall
<1>1. NoReport(Depth)'
  <2>1. NoReport(Depth - 1)
    BY <1>0 DEF Quiet, NoReport
  <2> QED BY <2>1, PlainCalls, StaysQuiet
<1>2. Natural /\ Natural'
  BY <1>0, NumbersAfter
<1>3. lost + HeadCount <= reported + ReportsInRing + overflow_counter
  BY <1>0 DEF Quiet, Balance
<1>4. ring \in Seq(Message) /\ ring' \in Seq(Message)
  BY <1>0 DEF Structure, Types
<1> DEFINE Balanced == lost' + HeadCount' <= reported' + ReportsInRing' + overflow_counter'
<1>5. ASSUME SendOne PROVE Balanced
  <2>1. UNCHANGED <<ring, overflow_counter, lost, ReportsInRing>>
    BY <1>4, <1>5, ReportsSame DEF SendOne, daemon
  <2>2. reported' >= reported
    BY <1>0, <1>2, <1>5 DEF SendOne, Delivered, Natural, Frame, Message, Sending, Running
  <2>3. CASE HeadSent'
    <3>1. /\ Top.op = "send_force" /\ Top.msg = Head(ring) /\ ~Top.sent
          /\ pfd[Top.i] \notin broken
      BY <1>5, <2>3, HeadReported
    <3>2. HeadCount' = ToldBy(Head(ring))
      BY <1>2, <2>1, <2>3 DEF Natural
    <3>3. reported' = reported + ToldBy(Head(ring))
      BY <1>2, <1>5, <3>1 DEF SendOne, Delivered, ToldBy, Natural
    <3>4. ToldBy(Head(ring)) = HeadCount' /\ HeadCount' \in Nat
      BY <1>2, <3>2 DEF Natural
    <3> QED BY <1>2, <1>3, <2>1, <3>3, <3>4 DEF Natural
  <2>4. CASE ~HeadSent'
    <3>1. HeadCount' = 0
      BY <2>4 DEF HeadCount
    <3> QED BY <1>2, <1>3, <2>1, <2>2, <3>1 DEF Natural
  <2> QED BY <2>3, <2>4
<1>6. ASSUME Drained PROVE Balanced
  <2>1. UNCHANGED <<overflow_counter, lost, reported>> /\ Depth = 3 /\ Top.op = "drained"
    BY <1>0, <1>6, CallsAfter, StepRuns DEF Drained, history, Running
  <2>2. CASE ret = "OK"
    <3>1. ring # <<>> /\ HeadSent
      BY <1>0, <1>6, <2>1, <2>2, StepRuns DEF Phase, Direct, First, NoClient, Drain, NextHead,
         NoDrain, DrainOps, CutShort, HeadSent
    <3>2. ring' = Tail(ring)
      BY <1>6, <2>2 DEF Drained, AfterRemove
    <3>3. ReportsInRing = ToldBy(Head(ring)) + ReportsInRing'
      BY <1>4, <3>1, <3>2, ReportsTaken
    <3>4. HeadCount = ToldBy(Head(ring))
      BY <1>2, <3>1 DEF Natural
    <3>5. HeadCount' = 0
      <4>1. Depth' = 3 /\ From(calls', 3) = Call("send_ringbuffer")
        BY <1>6, <2>1, <2>2, StepRuns, CallsAfter DEF Continued
      <4>2. From(calls', 3).op # "drained"
        BY <4>1 DEF Call
      <4> QED BY <4>2 DEF HeadCount, HeadSent, At
    <3>6. ToldBy(Head(ring)) = HeadCount
      BY <3>4
    <3> QED BY <1>2, <1>3, <2>1, <3>3, <3>5, <3>6 DEF Natural
  <2>3. CASE ret # "OK"
    <3>1. Depth' = 2 /\ ring' = ring
      BY <1>6, <2>1, <2>3, StepRuns, CallsAfter DEF Returned, Drained
    <3>2. HeadCount' = 0 /\ ReportsInRing' = ReportsInRing
      BY <1>4, <3>1, ReportsSame DEF HeadCount, HeadSent
    <3> QED BY <1>2, <1>3, <2>1, <3>2 DEF Natural
  <2> QED BY <2>2, <2>3
<1>7. ASSUME StorePush PROVE Balanced
  <2>1. /\ UNCHANGED <<overflow_counter, lost, reported>> /\ ring' = Append(ring, Top.msg)
        /\ Top.msg \in Message /\ Top.op = "store"
    BY <1>0, <1>7 DEF StorePush, history, Running, Frame
  <2>2. ToldBy(Top.msg) = 0
    BY <1>0, <2>1 DEF ForReport, Sends, ToldBy, IsOverflow
  <2>3. ReportsInRing' = ReportsInRing
    BY <1>2, <1>4, <2>1, <2>2, ReportsPushed DEF Natural
  <2>4. HeadCount' <= HeadCount
    <3>1. ring # <<>> => Head(ring') = Head(ring)
      BY <1>4, <2>1, ReportsPushed
    <3>2. ~Drained /\ ~SendOne
      BY <2>1 DEF Drained, SendOne, Sending, Running
    <3> QED BY <3>1, <3>2, HeadCountAfter
  <2> QED BY <1>2, <1>3, <2>1, <2>3, <2>4 DEF Natural
<1>8. ASSUME ~SendOne, ~Drained, ~StorePush PROVE Balanced
  <2>1. /\ ring' = ring /\ reported' = reported
        /\ \/ overflow_counter' = overflow_counter /\ lost' = lost
           \/ overflow_counter' = overflow_counter + 1 /\ lost' = lost + 1
    <3>1. ~UserOverflow /\ ~UpdateReported /\ ~Reported
      BY <1>0 DEF UserOverflow, UpdateReported, Reported, Running, ForReport, Waits
    <3> QED BY <1>8, <3>1 DEF Step, FirstClient, UpdateOverflow, Connected,
         CloseSocket, ClientSend, SendEnd, StoreDiscard, StoreDirect,
         ForceGivesUp, SendRingbuffer, daemon, history
  <2>2. HeadCount' <= HeadCount /\ ReportsInRing' = ReportsInRing
    BY <1>4, <1>8, <2>1, HeadCountAfter, ReportsSame
  <2> QED BY <1>2, <1>3, <2>1, <2>2 DEF Natural
<1>9. Balanced
  BY <1>5, <1>6, <1>7, <1>8
<1> QED BY <1>1, <1>9 DEF Quiet, Balance

-----------------------------------------------------------------------------
(* Steps of a report and of the calls that wait for it.                    *)

LEMMA WaitingAt ==
  ASSUME NEW b \in Int, Depth' \in Nat
  PROVE  /\ b = Depth' => (Waiting(b)' <=> Waiting(Depth)')
         /\ b = Depth' - 1 => (Waiting(b)' <=> Waiting(Depth - 1)')
         /\ b = Depth' - 2 => (Waiting(b)' <=> Waiting(Depth - 2)')
         /\ b = Depth' => (NoReport(b)' <=> NoReport(Depth)')
BY DEF Waiting, Nested, NoReport, ReportCall, At

(* The result of a report comes back to the call that waits for it.        *)
LEMMA ReturnStep ==
  ASSUME Structure, Step, Ledger, Report \notin hit, At(Depth).op \in Waits
  PROVE  Quiet' \/ Returns'
<1>0. /\ Depth \in Nat /\ Depth >= 1 /\ Top = At(Depth) /\ Structure' /\ Placed(Depth)
      /\ calls # <<>> /\ Depth - 1 \in Int /\ Depth - 2 \in Int
  BY StepRuns
<1>1. UserOverflow \/ UpdateReported \/ Reported
  BY <1>0 DEF Step, FirstClient, UpdateOverflow, Connected, CloseSocket, ClientSend,
     SendOne, SendEnd, StorePush, StoreDiscard, StoreDirect, ForceGivesUp,
     SendRingbuffer, Drained, Sending, Forced, Running, Waits
<1>2. /\ UNCHANGED <<state, ring, lost, reported>>
      /\ Reported => ret' = "OK"
      /\ Top.op = "user_overflow" => UserOverflow
      /\ Top.op = "update_reported" => UpdateReported
      /\ Top.op = "reported" => Reported
      /\ ~SendOne /\ ~Drained
  BY <1>1 DEF UserOverflow, UpdateReported, Reported, history, SendOne, Drained, Sending, Running
<1>3. Depth' = Depth - 1 /\ \A j \in 1 .. Depth - 1 : From(calls', j) = At(j)
  BY <1>0, <1>1, CallsAfter DEF Returned, Kept
<1>4. Natural /\ Natural' /\ HeadCount' <= HeadCount /\ ReportsInRing' = ReportsInRing
  BY <1>0, <1>2, NumbersAfter, HeadCountAfter, ReportsSame DEF Structure, Types
<1>5. Waiting(Depth) /\ lost + HeadCount <= reported + ReportsInRing + Owed(Depth, ret = "OK")
  BY LedgerTop DEF Returns, Balance
<1>6. CASE NoReport(Depth - 1)
  <2>1. Depth >= 2 => At(Depth - 1).op \notin Waits
    BY <1>0, <1>6 DEF NoReport, ReportCall, ForReport
  <2>2. Owed(Depth, ret = "OK") = overflow_counter'
    <3>1. CASE Top.op = "user_overflow"
      BY <1>0, <1>2, <1>4, <3>1 DEF Owed, Settled, Unsettled, UserOverflow, Natural
    <3>2. CASE Top.op # "user_overflow"
      BY <1>0, <1>1, <1>2, <2>1, <3>2 DEF Owed, Settled, Unsettled, UpdateReported,
         Reported, ReportMade, Waits,
         UserOverflow, Running
    <3> QED BY <3>1, <3>2
  <2>3. NoReport(Depth)'
    <3>1. PICK n \in Int : n = Depth - 1
      BY <1>0
    <3>2. NoReport(n)'
      BY <1>6, <3>1, ReportsKept
    <3> QED BY <1>0, <1>3, <3>1, <3>2, WaitingAt
  <2> QED BY <1>2, <1>4, <1>5, <2>2, <2>3 DEF Quiet, Balance, Natural
<1>7. CASE Nested(Depth)
  <2>1. /\ Reported /\ Depth >= 2
        /\ At(Depth - 1).op \in {"user_overflow", "update_reported"}
        /\ NoReport(Depth - 2)
    BY <1>0, <1>2, <1>7 DEF Nested
  <2>2. Waiting(Depth)'
    <3>1. PICK b \in Int : b = Depth - 1
      BY <1>0
    <3>2. Waiting(b) /\ b \in 1 .. Depth - 1 /\ state' = state
      BY <1>0, <1>2, <2>1, <3>1 DEF Waiting, Waits
    <3>3. Waiting(b)'
      BY <3>2, ReportsKept
    <3> QED BY <1>0, <1>3, <3>1, <3>3, WaitingAt
  <2>3. Owed(Depth, ret = "OK")' = Owed(Depth, ret = "OK")
    <3>1. From(calls', Depth') = At(Depth - 1) /\ At(Depth).op = "reported"
      BY <1>0, <1>3, <1>7, <2>1 DEF Nested
    <3>2. CASE At(Depth - 1).op = "user_overflow"
      <4>1. Owed(Depth, ret = "OK") = IF ret = "OK" THEN 0 ELSE overflow_counter
        BY <2>1, <3>1, <3>2 DEF Owed, Settled, Unsettled
      <4>2. /\ ret' = "OK" /\ From(calls', Depth').op = "user_overflow"
            /\ overflow_counter' = IF ret = "OK" THEN 0 ELSE overflow_counter
        BY <1>2, <2>1, <3>1, <3>2 DEF Reported, ReportMade
      <4>3. Owed(Depth, ret = "OK")' = overflow_counter'
        BY <1>4, <4>2 DEF Owed, Settled, Unsettled, At, Natural
      <4> QED BY <4>1, <4>2, <4>3
    <3>3. CASE At(Depth - 1).op = "update_reported"
      <4>1. Owed(Depth, ret = "OK") = 0
        BY <2>1, <3>1, <3>3 DEF Owed, Settled, Unsettled
      <4>2. ret' = "OK" /\ From(calls', Depth').op = "update_reported"
        BY <1>2, <2>1, <3>1, <3>3
      <4>3. Owed(Depth, ret = "OK")' = 0
        BY <4>2 DEF Owed, Settled, Unsettled, At
      <4> QED BY <4>1, <4>3
    <3> QED BY <2>1, <3>2, <3>3
  <2>4. Owed(Depth, ret = "OK") \in Nat
    BY <1>4 DEF Owed, Settled, Unsettled, Natural
  <2>5. lost' + HeadCount' <= reported' + ReportsInRing' + Owed(Depth, ret = "OK")'
    BY <1>2, <1>4, <1>5, <2>3, <2>4 DEF Natural
  <2> QED BY <2>2, <2>5 DEF Returns, Balance
<1> QED BY <1>5, <1>6, <1>7 DEF Waiting

(* A report starts: the counter is what it carries.                        *)
LEMMA StartStep ==
  ASSUME Structure, Step, Ledger, Report \notin hit, ~ReportCall(Depth),
         (UpdateOverflow /\ UpdateDue) \/ (StoreDirect /\ ReportDue)
  PROVE  Hands'
<1>0. /\ Depth \in Nat /\ Depth >= 1 /\ Top = At(Depth) /\ Structure' /\ calls # <<>>
      /\ Quiet /\ Overflow(overflow_counter) \in Message
  BY StepRuns, LedgerTop, Messages DEF Structure, Types
<1>1. PICK op \in {"update_reported", "reported"} :
         Called(Send(Overflow(overflow_counter)), Call(op))
  BY <1>0, CallsAfter
<1>2. /\ Depth' = Depth + 1 /\ From(calls', Depth) = Call(op)
      /\ From(calls', Depth') = Send(Overflow(overflow_counter))
  BY <1>1 DEF Called
<1>3. /\ Call(op).op = op
      /\ Send(Overflow(overflow_counter)).op = "client_send"
      /\ Send(Overflow(overflow_counter)).msg.kind = "overflow"
      /\ Send(Overflow(overflow_counter)).msg.n = overflow_counter
  BY DEF Call, Send, Overflow
<1>4. /\ UNCHANGED <<ring, lost, reported, overflow_counter>>
      /\ ~SendOne /\ ~Drained
  BY DEF UpdateOverflow, StoreDirect, daemon, history, SendOne, Drained, Sending, Running, Forced
<1>5. Natural /\ Natural' /\ HeadCount' <= HeadCount /\ ReportsInRing' = ReportsInRing
  BY <1>0, <1>4, NumbersAfter, HeadCountAfter, ReportsSame DEF Structure, Types
<1>6. /\ NoReport(Depth)
      /\ lost + HeadCount <= reported + ReportsInRing + overflow_counter
  BY <1>0 DEF Quiet, Balance
<1>7. Waiting(Depth - 1)'
  <2>1. PICK b \in Int : b = Depth
    BY <1>0
  <2>2. PICK n \in Int : n = Depth - 1
    BY <1>0
  <2>3. NoReport(n)
    BY <1>0, <1>6, <2>2 DEF NoReport
  <2>4. NoReport(n)'
    BY <1>0, <2>2, <2>3, ReportsKept
  <2>5. Waiting(b)'
    BY <1>0, <1>2, <1>3, <2>1, <2>2, <2>4 DEF Waiting, Waits, At
  <2> QED BY <1>0, <1>2, <2>1, <2>5, WaitingAt
<1>8. Depth >= 2 => From(calls', Depth - 1).op \notin Waits
  <2>1. Depth >= 2 => /\ Depth - 1 \in 1 .. Depth - 1 /\ Depth - 1 \in 1 .. Depth
                      /\ From(calls', Depth - 1) = At(Depth - 1)
    BY <1>0, <1>1 DEF Called, Kept
  <2> QED BY <1>6, <2>1 DEF NoReport, ReportCall, ForReport
<1>9. Directly' = FALSE
  BY <1>2, <1>3 DEF Directly, At
<1>10. Owed(Depth - 1, Directly)' = overflow_counter /\ Amount(Depth - 1)' = overflow_counter
  <2>1. Depth' - 1 = Depth /\ From(calls', Depth' - 1).op = op
        /\ (Depth >= 2 => From(calls', Depth' - 1 - 1).op # "update_reported")
    BY <1>0, <1>2, <1>3, <1>8 DEF Waits
  <2> QED BY <1>4, <1>9, <2>1 DEF Owed, Settled, Unsettled, Amount, At
<1>11. /\ At(Depth)'.op \in Sends /\ IsOverflow(At(Depth)'.msg)
       /\ At(Depth)'.msg.n = Amount(Depth - 1)'
  BY <1>2, <1>3, <1>10 DEF At, Sends, IsOverflow
<1>12. Balance(Owed(Depth - 1, Directly))'
  BY <1>4, <1>5, <1>6, <1>10 DEF Balance, Natural
<1> QED BY <1>7, <1>11, <1>12 DEF Hands

(* What a call that waits is owed, seen from any position.                 *)
LEMMA OwedAfter ==
  ASSUME NEW b \in Int, b >= 1, Depth' \in Nat, From(calls', b) = At(b),
         b >= 2 => From(calls', b - 1) = At(b - 1)
  PROVE  /\ overflow_counter' = overflow_counter =>
              /\ Settled(b)' = Settled(b) /\ Unsettled(b)' = Unsettled(b)
              /\ Amount(b)' = Amount(b)
         /\ b = Depth' =>
              Owed(Depth, ret = "OK")' = IF ret' = "OK" THEN Settled(b)' ELSE Unsettled(b)'
         /\ b = Depth' - 1 =>
              /\ Owed(Depth - 1, Directly)' = IF Directly' THEN Settled(b)' ELSE Unsettled(b)'
              /\ Amount(Depth - 1)' = Amount(b)'
         /\ b = Depth' - 2 =>
              /\ Owed(Depth - 2, At(Depth).sent)' =
                   IF At(Depth)'.sent THEN Settled(b)' ELSE Unsettled(b)'
              /\ Amount(Depth - 2)' = Amount(b)'
<1>1. ASSUME overflow_counter' = overflow_counter
      PROVE  /\ Settled(b)' = Settled(b) /\ Unsettled(b)' = Unsettled(b)
             /\ Amount(b)' = Amount(b)
  BY <1>1 DEF Owed, Settled, Unsettled, Amount, At
<1>2. ASSUME b = Depth'
      PROVE  Owed(Depth, ret = "OK")' = IF ret' = "OK" THEN Settled(b)' ELSE Unsettled(b)'
  BY <1>2 DEF Owed, Settled, Unsettled, At
<1>3. ASSUME b = Depth' - 1
      PROVE  /\ Owed(Depth - 1, Directly)' = IF Directly' THEN Settled(b)' ELSE Unsettled(b)'
             /\ Amount(Depth - 1)' = Amount(b)'
  BY <1>3 DEF Owed, Settled, Unsettled, Amount, At
<1>4. ASSUME b = Depth' - 2
      PROVE  /\ Owed(Depth - 2, At(Depth).sent)' =
                   IF At(Depth)'.sent THEN Settled(b)' ELSE Unsettled(b)'
             /\ Amount(Depth - 2)' = Amount(b)'
  BY <1>4 DEF Owed, Settled, Unsettled, Amount, At
<1> QED BY <1>1, <1>2, <1>3, <1>4

(* The report is on its way: sent to the clients, stored, or discarded.    *)
LEMMA ClientSendReport ==
  ASSUME Structure, Hands, ClientSend, Step
  PROVE  Hands' \/ Loops'
<1>0. /\ Depth \in Nat /\ Depth >= 1 /\ Top = At(Depth) /\ Structure' /\ calls # <<>>
      /\ Depth - 1 \in Int /\ Top \in Frame
  BY StepRuns
<1>1. /\ Waiting(Depth - 1) /\ IsOverflow(Top.msg) /\ Top.op = "client_send"
      /\ Top.msg.n = Amount(Depth - 1) /\ ~Directly /\ Top.msg \in Message
      /\ lost + HeadCount <= reported + ReportsInRing + Owed(Depth - 1, Directly)
  BY <1>0 DEF Hands, Directly, Balance, ClientSend, Running, Frame
<1>2. /\ UNCHANGED <<state, ring, lost, reported, overflow_counter>>
      /\ ~SendOne /\ ~Drained
  BY <1>1 DEF ClientSend, daemon, history, SendOne, Drained, Sending, Running
<1>3. Natural /\ Natural' /\ HeadCount' <= HeadCount /\ ReportsInRing' = ReportsInRing
  BY <1>0, <1>2, NumbersAfter, HeadCountAfter, ReportsSame DEF Structure, Types
<1>4. PICK b \in Int : b = Depth - 1
  BY <1>0
<1>5. b \in 1 .. Depth - 1 /\ b >= 1
  BY <1>0, <1>1, <1>4 DEF Waiting
<1>6. Waiting(b)'
  BY <1>1, <1>2, <1>4, <1>5, ReportsKept
<1>7. /\ Kept(Depth - 1) /\ From(calls', Depth) = Store(Top.msg)
      /\ IF state = "SEND_DIRECT"
         THEN Depth' = Depth + 1 /\ From(calls', Depth') = SendAll(Top.msg, "send_all")
         ELSE Depth' = Depth
  BY <1>0, CallsAfter DEF Called, Continued
<1>8. From(calls', b) = At(b) /\ (b >= 2 => From(calls', b - 1) = At(b - 1)) /\ Depth' \in Nat
  BY <1>0, <1>4, <1>5, <1>7 DEF Kept
<1>9. Unsettled(b)' = Unsettled(b) /\ Amount(b)' = Amount(b) /\ Unsettled(b) \in Nat
  <2>1. Unsettled(b)' = Unsettled(b) /\ Amount(b)' = Amount(b)
    BY <1>2, <1>5, <1>8, OwedAfter
  <2>2. Unsettled(b) \in Nat
    BY <1>3 DEF Unsettled, Natural
  <2> QED BY <2>1, <2>2
<1>10. lost' + HeadCount' <= reported' + ReportsInRing' + Unsettled(b)'
  <2>1. Owed(Depth - 1, Directly) = Unsettled(b)
    BY <1>1, <1>4 DEF Owed
  <2> QED BY <1>1, <1>2, <1>3, <1>9, <2>1 DEF Natural
<1>11. CASE state = "SEND_DIRECT"
  <2>1. /\ Store(Top.msg).op = "store" /\ Store(Top.msg).msg = Top.msg
        /\ SendAll(Top.msg, "send_all").op = "send_all"
        /\ SendAll(Top.msg, "send_all").msg = Top.msg
        /\ SendAll(Top.msg, "send_all").i = 1
        /\ SendAll(Top.msg, "send_all").sent = FALSE
    BY DEF Store, SendAll, Call
  <2>2. Depth' = Depth + 1 /\ Depth' - 1 = Depth /\ b = Depth' - 2
    BY <1>0, <1>4, <1>7, <1>11
  <2>3. /\ Waiting(Depth - 2)' /\ Amount(Depth - 2)' = Amount(b)
        /\ Owed(Depth - 2, At(Depth).sent)' = Unsettled(b)'
    <3>1. FALSE = At(Depth)'.sent
      BY <1>7, <1>11, <2>1, <2>2 DEF At
    <3>2. Waiting(Depth - 2)'
      BY <1>6, <1>8, <2>2, WaitingAt
    <3> QED BY <1>5, <1>8, <1>9, <2>2, <3>1, <3>2, OwedAfter
  <2>4. /\ At(Depth - 1)'.op = "store" /\ At(Depth - 1)'.msg = Top.msg
        /\ At(Depth)'.op = "send_all" /\ At(Depth)'.msg = Top.msg /\ At(Depth)'.i = 1
    BY <1>7, <1>11, <2>1, <2>2 DEF At
  <2>5. Balance(Owed(Depth - 2, At(Depth).sent))'
    BY <1>10, <2>3 DEF Balance
  <2> QED BY <1>1, <1>2, <1>4, <1>11, <2>3, <2>4, <2>5 DEF Loops, IsOverflow
<1>12. CASE state # "SEND_DIRECT"
  <2>1. Store(Top.msg).op = "store" /\ Store(Top.msg).msg = Top.msg
    BY DEF Store, Call
  <2>2. Depth' = Depth /\ b = Depth' - 1
    BY <1>4, <1>7, <1>12
  <2>3. Directly' = FALSE
    BY <1>2, <1>12 DEF Directly
  <2>4. /\ Waiting(Depth - 1)' /\ Amount(Depth - 1)' = Amount(b)
        /\ Owed(Depth - 1, Directly)' = Unsettled(b)'
    <3>1. Waiting(Depth - 1)'
      BY <1>6, <1>8, <2>2, WaitingAt
    <3> QED BY <1>5, <1>8, <1>9, <2>2, <2>3, <3>1, OwedAfter
  <2>5. At(Depth)'.op = "store" /\ At(Depth)'.msg = Top.msg
    BY <1>7, <2>1, <2>2 DEF At
  <2>6. Balance(Owed(Depth - 1, Directly))'
    BY <1>10, <2>4 DEF Balance
  <2> QED BY <1>1, <1>4, <2>4, <2>5, <2>6 DEF Hands, IsOverflow, Sends
<1> QED BY <1>11, <1>12

LEMMA StoreReport ==
  ASSUME Structure, Hands, StorePush \/ StoreDiscard, Step
  PROVE  Returns'
<1>0. /\ Depth \in Nat /\ Depth >= 1 /\ Top = At(Depth) /\ Structure' /\ calls # <<>>
      /\ Depth - 1 \in Int /\ Top \in Frame /\ ring \in Seq(Message) /\ ring' \in Seq(Message)
  BY StepRuns DEF Structure, Types
<1>1. /\ Waiting(Depth - 1) /\ IsOverflow(Top.msg) /\ Top.op = "store"
      /\ state # "SEND_DIRECT" /\ ~Directly
      /\ Top.msg.n = Amount(Depth - 1) /\ Top.msg \in Message
      /\ lost + HeadCount <= reported + ReportsInRing + Owed(Depth - 1, Directly)
  BY <1>0 DEF Hands, Directly, Balance, StorePush, StoreDiscard, Buffering, Running, Frame
<1>2. PICK b \in Int : b = Depth - 1
  BY <1>0
<1>3. b \in 1 .. Depth - 1 /\ b >= 1 /\ NoReport(b - 1) /\ At(b).op \in Waits
  BY <1>0, <1>1, <1>2 DEF Waiting, Nested
<1>4. Depth' = b /\ Kept(Depth - 1) /\ Depth' \in Nat
  BY <1>0, <1>2, <1>3, CallsAfter DEF Returned
<1>5. From(calls', b) = At(b) /\ (b >= 2 => From(calls', b - 1) = At(b - 1))
  BY <1>0, <1>2, <1>3, <1>4 DEF Kept
<1>6. Waiting(Depth)'
  <2>1. Waiting(b)'
    BY <1>1, <1>2, <1>3, ReportsKept
  <2> QED BY <1>4, <2>1, WaitingAt
<1>7. Natural /\ Natural'
  BY <1>0, NumbersAfter
<1>8. HeadCount' <= HeadCount
  <2>1. ~SendOne /\ ~Drained
    BY <1>1 DEF SendOne, Drained, Sending, Running
  <2>2. ring # <<>> => Head(ring') = Head(ring)
    BY <1>0, <1>1, ReportsPushed DEF StorePush, StoreDiscard
  <2> QED BY <2>1, <2>2, HeadCountAfter
<1>9. lost + HeadCount <= reported + ReportsInRing + Unsettled(b)
  BY <1>1, <1>2 DEF Owed
<1>10. (b >= 2 => At(b - 1).op # "update_reported") /\ (b >= 2 => At(b - 1).op \notin Waits)
  BY <1>2, <1>3 DEF NoReport, ReportCall, ForReport, Waits
<1>11. Owed(Depth, ret = "OK")' = IF ret' = "OK" THEN Settled(b)' ELSE Unsettled(b)'
  BY <1>3, <1>4, <1>5, OwedAfter
<1>12. CASE StorePush
  <2>1. /\ UNCHANGED <<overflow_counter, lost, reported>> /\ ring' = Append(ring, Top.msg)
        /\ ret' = "OK"
    BY <1>12 DEF StorePush, history
  <2>2. ReportsInRing' = ReportsInRing + Amount(b)
    <3>1. ToldBy(Top.msg) = Amount(b)
      BY <1>1, <1>2 DEF ToldBy, IsOverflow
    <3> QED BY <1>0, <1>1, <2>1, <3>1, ReportsPushed
  <2>3. Settled(b)' + Amount(b) = Unsettled(b) /\ Settled(b)' \in Nat /\ Amount(b) \in Nat
    BY <1>5, <1>7, <1>10, <2>1 DEF Settled, Unsettled, Amount, Natural, At
  <2>4. Owed(Depth, ret = "OK")' = Settled(b)'
    BY <1>11, <2>1
  <2>5. lost' + HeadCount' <= reported' + ReportsInRing' + Settled(b)'
    <3>1. /\ Settled(b)' \in Nat /\ Amount(b) \in Nat
          /\ lost + HeadCount <= reported + ReportsInRing + (Settled(b)' + Amount(b))
      BY <1>9, <2>3
    <3>2. /\ lost \in Nat /\ reported \in Nat /\ HeadCount \in Nat /\ ReportsInRing \in Nat
          /\ HeadCount' \in Nat /\ ReportsInRing' \in Nat
          /\ lost' = lost /\ reported' = reported
      BY <1>7, <2>1 DEF Natural
    <3> QED BY <1>8, <2>2, <3>1, <3>2
  <2>6. Balance(Owed(Depth, ret = "OK"))'
    BY <2>4, <2>5 DEF Balance
  <2> QED BY <1>6, <2>6 DEF Returns
<1>13. CASE StoreDiscard
  <2>1. /\ overflow_counter' = overflow_counter + 1 /\ lost' = lost + 1
        /\ UNCHANGED <<ring, reported>> /\ ret' # "OK"
    BY <1>13 DEF StoreDiscard
  <2>2. Unsettled(b)' = Unsettled(b) + 1 /\ Unsettled(b) \in Nat
    BY <1>5, <1>7, <1>10, <2>1 DEF Unsettled, Natural, At
  <2>3. ReportsInRing' = ReportsInRing
    BY <1>0, <2>1, ReportsSame
  <2>4. Balance(Owed(Depth, ret = "OK"))'
    BY <1>7, <1>8, <1>9, <1>11, <2>1, <2>2, <2>3 DEF Balance, Natural
  <2> QED BY <1>6, <2>4 DEF Returns
<1> QED BY <1>12, <1>13

(* A report that was sent directly may be followed by another one.         *)
LEMMA DirectReport ==
  ASSUME Structure, Hands, StoreDirect, Step
  PROVE  Returns' \/ Hands'
<1>0. /\ Depth \in Nat /\ Depth >= 1 /\ Top = At(Depth) /\ Structure' /\ calls # <<>>
      /\ Depth - 1 \in Int /\ Top \in Frame /\ Overflow(overflow_counter) \in Message
      /\ \A j \in 1 .. Depth : Placed(j)
  BY StepRuns, Messages DEF Structure, Types, Places
<1>1. /\ Waiting(Depth - 1) /\ Top.op = "store" /\ state = "SEND_DIRECT" /\ Directly
      /\ lost + HeadCount <= reported + ReportsInRing + Owed(Depth - 1, Directly)
  BY <1>0 DEF Hands, Directly, Balance, StoreDirect, Buffering, Forced, Running, Sends
<1>2. /\ UNCHANGED <<state, ring, lost, reported, overflow_counter>> /\ ret' = "OK"
      /\ ~SendOne /\ ~Drained
  BY <1>1 DEF StoreDirect, history, SendOne, Drained, Sending, Running
<1>3. Natural /\ Natural' /\ HeadCount' <= HeadCount /\ ReportsInRing' = ReportsInRing
  BY <1>0, <1>2, NumbersAfter, HeadCountAfter, ReportsSame DEF Structure, Types
<1>4. PICK b \in Int : b = Depth - 1
  BY <1>0
<1>5. b \in 1 .. Depth - 1 /\ b >= 1 /\ At(b).op \in Waits
  BY <1>0, <1>1, <1>4 DEF Waiting
<1>6. Waiting(b)'
  BY <1>1, <1>2, <1>4, <1>5, ReportsKept
<1>7. /\ Kept(Depth - 1) /\ Depth' \in Nat
      /\ IF ReportDue
         THEN /\ Depth' = Depth + 1 /\ From(calls', Depth) = Call("reported")
              /\ From(calls', Depth') = Send(Overflow(overflow_counter))
         ELSE Depth' = Depth - 1
  BY <1>0, <1>4, <1>5, CallsAfter DEF Called, Returned
<1>8. From(calls', b) = At(b) /\ (b >= 2 => From(calls', b - 1) = At(b - 1))
  BY <1>0, <1>4, <1>5, <1>7 DEF Kept
<1>9. Settled(b)' = Settled(b) /\ Settled(b) \in Nat
  <2>1. Settled(b)' = Settled(b)
    BY <1>2, <1>5, <1>7, <1>8, OwedAfter
  <2> QED BY <1>3, <2>1 DEF Settled, Natural
<1>10. lost' + HeadCount' <= reported' + ReportsInRing' + Settled(b)
  <2>1. lost + HeadCount <= reported + ReportsInRing + Settled(b)
    BY <1>1, <1>4 DEF Owed
  <2> QED BY <1>2, <1>3, <1>9, <2>1 DEF Natural
<1>11. CASE ~ReportDue
  <2>1. Depth' = b
    BY <1>4, <1>7, <1>11
  <2>2. Waiting(Depth)' /\ Owed(Depth, ret = "OK")' = Settled(b)'
    BY <1>2, <1>5, <1>6, <1>7, <1>8, <2>1, WaitingAt, OwedAfter
  <2>3. Balance(Owed(Depth, ret = "OK"))'
    BY <1>9, <1>10, <2>2 DEF Balance
  <2> QED BY <2>2, <2>3 DEF Returns
<1>12. CASE ReportDue
  <2>1. At(b).op \in {"user_overflow", "update_reported"} /\ NoReport(b - 1)
    <3>1. At(b).op # "reported"
      BY <1>0, <1>5, <1>12 DEF ReportDue, Placed
    <3> QED BY <1>1, <1>4, <1>5, <3>1 DEF Waits, Waiting, Nested
  <2>2. PICK d \in Int : d = Depth
    BY <1>0
  <2>3. PICK n \in Int : n = b - 1
    OBVIOUS
  <2>4. NoReport(n)' /\ d - 1 = b /\ d - 2 = n /\ d >= 2
    <3>1. n <= Depth - 1 /\ NoReport(n)
      BY <1>4, <1>5, <2>1, <2>3
    <3>2. NoReport(n)'
      BY <3>1, ReportsKept
    <3> QED BY <1>4, <1>5, <2>2, <2>3, <3>2
  <2>5. /\ Call("reported").op = "reported"
        /\ Send(Overflow(overflow_counter)).op = "client_send"
        /\ Send(Overflow(overflow_counter)).msg.kind = "overflow"
        /\ Send(Overflow(overflow_counter)).msg.n = overflow_counter
    BY DEF Call, Send, Overflow
  <2>6. From(calls', d).op = "reported" /\ Depth' = d + 1 /\ d = Depth' - 1
    BY <1>7, <1>12, <2>2, <2>5
  <2>7. Waiting(d)'
    BY <1>1, <1>2, <1>8, <2>1, <2>4, <2>6 DEF Waiting, Nested, Waits, At
  <2>8. Waiting(Depth - 1)'
    BY <1>7, <2>6, <2>7, WaitingAt
  <2>9. /\ At(Depth)'.op \in Sends /\ IsOverflow(At(Depth)'.msg)
        /\ At(Depth)'.msg.n = overflow_counter /\ Directly' = FALSE
    BY <1>7, <1>12, <2>5 DEF At, Sends, IsOverflow, Directly
  <2>10. Unsettled(d)' = Settled(b) /\ Amount(d)' = overflow_counter
    BY <1>2, <1>8, <2>1, <2>4, <2>6 DEF Unsettled, Settled, Amount, At
  <2>11. Owed(Depth - 1, Directly)' = Unsettled(d)' /\ Amount(Depth - 1)' = Amount(d)'
    BY <2>6, <2>9 DEF Owed, Unsettled, Amount, At
  <2>12. Balance(Owed(Depth - 1, Directly))'
    BY <1>10, <2>10, <2>11 DEF Balance
  <2> QED BY <2>8, <2>9, <2>10, <2>11, <2>12 DEF Hands
<1> QED BY <1>11, <1>12

(* The loop over the poll table makes the report, once.                    *)
LEMMA LoopReport ==
  ASSUME Structure, Loops, Sending, Step, Report \notin hit'
  PROVE  Loops' \/ Hands'
<1>0. /\ Depth \in Nat /\ Depth >= 1 /\ Top = At(Depth) /\ Structure' /\ calls # <<>>
      /\ Depth - 1 \in Int /\ Depth - 2 \in Int /\ Top \in Frame
  BY StepRuns
<1>1. /\ Waiting(Depth - 2) /\ state = "SEND_DIRECT"
      /\ At(Depth - 1).op = "store" /\ IsOverflow(At(Depth - 1).msg)
      /\ Top.op = "send_all" /\ Top.msg = At(Depth - 1).msg
      /\ Top.sent \/ (Top.i = 1 /\ Top.msg.n = Amount(Depth - 2))
      /\ lost + HeadCount <= reported + ReportsInRing + Owed(Depth - 2, Top.sent)
  BY <1>0 DEF Loops, Balance
<1>2. /\ UNCHANGED <<state, ring, lost, overflow_counter>> /\ ~Drained
      /\ SendOne \/ SendEnd
  BY <1>1 DEF Step, UserOverflow, FirstClient, UpdateOverflow, UpdateReported, Connected,
     CloseSocket, ClientSend, SendOne, SendEnd, StorePush, StoreDiscard, StoreDirect,
     ForceGivesUp, Reported, SendRingbuffer, Drained, Sending, Forced, Running, daemon, history
<1>3. Natural /\ Natural' /\ HeadCount' <= HeadCount /\ ReportsInRing' = ReportsInRing
  BY <1>0, <1>1, <1>2, NumbersAfter, HeadCountAfter, ReportsSame DEF Structure, Types
<1>4. PICK b \in Int : b = Depth - 2
  BY <1>0
<1>5. b \in 1 .. Depth - 1 /\ b >= 1 /\ At(b).op \in Waits /\ Depth - 1 \in 1 .. Depth - 1
  BY <1>0, <1>1, <1>4 DEF Waiting
<1>6. Waiting(b)'
  BY <1>1, <1>2, <1>4, <1>5, ReportsKept
<1>7. Kept(Depth - 1) /\ Depth' \in Nat
  BY NewCalls
<1>8. /\ From(calls', b) = At(b) /\ (b >= 2 => From(calls', b - 1) = At(b - 1))
      /\ From(calls', Depth - 1) = At(Depth - 1)
  BY <1>0, <1>4, <1>5, <1>7 DEF Kept
<1>9. /\ Settled(b)' = Settled(b) /\ Settled(b) \in Nat
      /\ Unsettled(b)' = Unsettled(b) /\ Unsettled(b) \in Nat
      /\ Amount(b) \in Nat /\ Unsettled(b) <= Settled(b) + Amount(b)
  <2>1. Settled(b)' = Settled(b) /\ Unsettled(b)' = Unsettled(b)
    BY <1>2, <1>5, <1>7, <1>8, OwedAfter
  <2>2. /\ Settled(b) \in Nat /\ Unsettled(b) \in Nat
        /\ Amount(b) \in Nat /\ Unsettled(b) <= Settled(b) + Amount(b)
    BY <1>3 DEF Settled, Unsettled, Amount, Natural
  <2> QED BY <2>1, <2>2
<1>10. Owed(Depth - 2, Top.sent) = IF Top.sent THEN Settled(b) ELSE Unsettled(b)
  BY <1>4 DEF Owed
<1>11. CASE SendOne
  <2>1. pfd[Top.i] \notin broken
    BY <1>1, <1>11 DEF SendOne, Counts, IsOverflow
  <2>2. PICK g \in Frame :
           /\ From(calls', Depth) = g /\ g.op = Top.op /\ g.msg = Top.msg
           /\ Depth' = Depth /\ g.sent
    BY <1>11, <2>1, SendOneCalls
  <2>3. reported' = IF Top.sent THEN reported ELSE reported + Top.msg.n
    BY <1>1, <1>11, <2>1 DEF SendOne, Delivered, IsOverflow
  <2>4. lost' + HeadCount' <= reported' + ReportsInRing' + Settled(b)
    <3>1. CASE Top.sent
      <4>1. lost + HeadCount <= reported + ReportsInRing + Settled(b)
        BY <1>1, <1>10, <3>1
      <4> QED BY <1>2, <1>3, <1>9, <2>3, <3>1, <4>1 DEF Natural
    <3>2. CASE ~Top.sent
      <4>1. reported' = reported + Amount(b)
        BY <1>1, <1>4, <2>3, <3>2
      <4>2. lost + HeadCount <= reported + ReportsInRing + Unsettled(b)
        BY <1>1, <1>10, <3>2
      <4> QED BY <1>2, <1>3, <1>9, <4>1, <4>2 DEF Natural
    <3> QED BY <3>1, <3>2
  <2>5. Depth' - 2 = b /\ Depth' - 1 = Depth - 1
    BY <1>4, <2>2
  <2>6. /\ At(Depth)'.op = "send_all" /\ At(Depth)'.msg = At(Depth - 1)'.msg /\ At(Depth)'.sent
        /\ At(Depth - 1)'.op = "store" /\ IsOverflow(At(Depth - 1)'.msg)
    BY <1>1, <1>8, <2>2 DEF At, IsOverflow
  <2>7. Waiting(Depth - 2)' /\ Owed(Depth - 2, At(Depth).sent)' = Settled(b)'
    BY <1>5, <1>6, <1>7, <1>8, <2>5, <2>6, WaitingAt, OwedAfter
  <2>8. Balance(Owed(Depth - 2, At(Depth).sent))'
    BY <1>9, <2>4, <2>7 DEF Balance
  <2> QED BY <1>1, <1>2, <2>6, <2>7, <2>8 DEF Loops, IsOverflow
<1>12. CASE SendEnd
  <2>1. Top.sent
    <3>1. pfd # <<>> /\ pfd \in Seq(Client)
      BY <1>1, DirectState DEF Direct, Structure, Types
    <3>2. Len(pfd) >= 1
      BY <3>1, EmptySeq, LenProperties
    <3> QED BY <1>1, <1>12, <3>1, <3>2 DEF SendEnd
  <2>2. Depth' = Depth - 1 /\ reported' = reported
    BY <1>0, <1>12, CallsAfter DEF Returned, SendEnd, history
  <2>3. lost' + HeadCount' <= reported' + ReportsInRing' + Settled(b)
    <3>1. lost + HeadCount <= reported + ReportsInRing + Settled(b)
      BY <1>1, <1>10, <2>1
    <3> QED BY <1>2, <1>3, <1>9, <2>2, <3>1 DEF Natural
  <2>4. /\ At(Depth)'.op \in Sends /\ IsOverflow(At(Depth)'.msg) /\ Directly'
    BY <1>1, <1>2, <1>8, <2>2 DEF At, Sends, Directly, IsOverflow
  <2>5. Waiting(Depth - 1)' /\ Owed(Depth - 1, Directly)' = Settled(b)'
    <3>1. b = Depth' - 1
      BY <1>0, <1>4, <2>2
    <3> QED BY <1>5, <1>6, <1>7, <1>8, <2>4, <3>1, WaitingAt, OwedAfter
  <2>6. Balance(Owed(Depth - 1, Directly))'
    BY <1>9, <2>3, <2>5 DEF Balance
  <2> QED BY <2>4, <2>5, <2>6 DEF Hands
<1> QED BY <1>2, <1>11, <1>12

-----------------------------------------------------------------------------
(* The ledger is kept.                                                     *)

(* A handler of the idle event loop starts.                                *)
LEMMA EventStep ==
  ASSUME Structure, Ledger, Report \notin hit,
         AppLog \/ AppOverflow \/ \E c \in Client : Connect(c) \/ ClientGone(c)
  PROVE  Quiet' \/ Hands'
<1>0. Depth = 0 /\ calls = <<>> /\ ring \in Seq(Message) /\ Structure'
  BY IdlePhase, StructureStep
  DEF AppLog, AppOverflow, Connect, ClientGone, Next, Structure, Types
<1>1. Quiet
  BY <1>0 DEF Ledger, Returns, Hands, Loops, Waiting
<1>2. /\ UNCHANGED <<ring, overflow_counter, reported>>
      /\ lost' = IF AppOverflow THEN lost + 1 ELSE lost
  BY <1>0 DEF AppLog, AppOverflow, Connect, ClientGone, daemon, history, Log
<1>3. Natural /\ Natural' /\ ReportsInRing' = ReportsInRing
  BY <1>0, <1>2, NumbersAfter, ReportsSame
<1>4. lost + HeadCount <= reported + ReportsInRing + overflow_counter /\ HeadCount = 0
  BY <1>0, <1>1 DEF Quiet, Balance, HeadCount, HeadSent
<1>5. /\ Log(events + 1) \in Message /\ Log(events + 1).kind = "log"
      /\ Internal \in Message /\ Internal.kind = "internal" /\ Overflow(1) \in Message
      /\ Overflow(1).kind = "overflow" /\ Overflow(1).n = 1
  BY Messages DEF Structure, Types, Overflow
<1>6. CASE ~AppOverflow
  <2>1. /\ Depth' \in 1 .. 2 /\ \A k \in 1 .. Depth' : ~ForReport(From(calls', k))
    <3>1. ASSUME AppLog
          PROVE  Depth' \in 1 .. 2 /\ \A k \in 1 .. Depth' : ~ForReport(From(calls', k))
      <4>1. Depth' = 1 /\ From(calls', 1) = Send(Log(events + 1))
        BY <1>5, <3>1, StackNew, NewFrames DEF AppLog
      <4>2. ~ForReport(Send(Log(events + 1)))
        BY <1>5, NewFrames DEF ForReport, Waits, Sends, IsOverflow
      <4> QED BY <4>1, <4>2
    <3>2. ASSUME NEW c \in Client, Connect(c)
          PROVE  Depth' \in 1 .. 2 /\ \A k \in 1 .. Depth' : ~ForReport(From(calls', k))
      <4>1. /\ Depth' = 2 /\ From(calls', 1) = Call("first_client")
            /\ From(calls', 2) = Send(Internal)
        BY <1>5, <3>2, StackNew, NewFrames DEF Connect, Ops
      <4>2. ~ForReport(Send(Internal)) /\ ~ForReport(Call("first_client"))
        BY PlainFrames, NewFrames DEF ForReport, Waits, Sends, Ops
      <4>3. \A k \in 1 .. Depth' : k = 1 \/ k = 2
        BY <4>1
      <4> QED BY <4>1, <4>2, <4>3
    <3>3. ASSUME NEW c \in Client, ClientGone(c)
          PROVE  Depth' \in 1 .. 2 /\ \A k \in 1 .. Depth' : ~ForReport(From(calls', k))
      <4>1. Depth' = 1 /\ From(calls', 1) = Close(c)
        BY <3>3, StackNew, NewFrames DEF ClientGone
      <4> QED BY <4>1, PlainFrames
    <3> QED BY <1>6, <3>1, <3>2, <3>3
  <2>2. NoReport(Depth)'
    BY <2>1 DEF NoReport, ReportCall, At
  <2>3. HeadCount' = 0
    BY <2>1 DEF HeadCount, HeadSent
  <2> QED BY <1>2, <1>3, <1>4, <1>6, <2>2, <2>3 DEF Quiet, Balance, Natural
<1>7. CASE AppOverflow
  <2>1. /\ Depth' = 2 /\ From(calls', 1) = Call("user_overflow")
        /\ From(calls', 2) = Send(Overflow(1))
    BY <1>5, <1>7, StackNew, NewFrames DEF AppOverflow, Ops
  <2>2. /\ Call("user_overflow").op = "user_overflow"
        /\ Send(Overflow(1)).op = "client_send" /\ Send(Overflow(1)).msg = Overflow(1)
    BY DEF Call, Send
  <2>3. HeadCount' = 0 /\ lost' = lost + 1
    BY <1>2, <1>7, <2>1 DEF HeadCount, HeadSent
  <2>4. Waiting(Depth - 1)'
    BY <2>1, <2>2 DEF Waiting, Waits, NoReport, At
  <2>5. /\ At(Depth)'.op \in Sends /\ IsOverflow(At(Depth)'.msg) /\ ~Directly'
        /\ At(Depth)'.msg.n = Amount(Depth - 1)'
    BY <1>5, <2>1, <2>2 DEF At, Sends, IsOverflow, Amount, Directly
  <2>6. Owed(Depth - 1, Directly)' = overflow_counter + 1
    BY <1>2, <2>1, <2>2, <2>5 DEF Owed, Unsettled, At
  <2>7. Balance(Owed(Depth - 1, Directly))'
    BY <1>2, <1>3, <1>4, <2>3, <2>6 DEF Balance, Natural
  <2> QED BY <2>4, <2>5, <2>7 DEF Hands
<1> QED BY <1>6, <1>7

LEMMA LedgerStep ==
  ASSUME Structure, Ledger, [Next]_vars
  PROVE  Ledger'
<1> SUFFICES ASSUME Report \notin hit' PROVE (Quiet \/ Returns \/ Hands \/ Loops)'
  BY DEF Ledger
<1>1. Report \notin hit
  BY DEF Next, Step, AppLog, AppOverflow, PollTimeout, Connect, ClientGone, Break,
     UserOverflow, FirstClient, UpdateOverflow, UpdateReported, Connected,
     CloseSocket, ClientSend, SendOne, SendEnd, StorePush, StoreDiscard, StoreDirect,
     ForceGivesUp, Reported, SendRingbuffer, Drained, history, vars
<1>2. CASE UNCHANGED vars \/ PollTimeout \/ \E c \in Client : Break(c)
  <2>1. /\ UNCHANGED <<calls, ret, state, pfd, ring, overflow_counter, lost, reported>>
    BY <1>2 DEF vars, daemon, history, PollTimeout, Break
  <2>2. ReportsInRing' = ReportsInRing
    BY <2>1, ReportsSame DEF Structure, Types
  <2>3. HeadCount' = HeadCount
    BY <2>1 DEF HeadCount, HeadSent, Depth, At
  <2>4. Quiet \/ Returns \/ Hands \/ Loops
    BY <1>1 DEF Ledger
  <2> QED BY <2>1, <2>2, <2>3, <2>4 DEF Quiet, Returns, Hands, Loops, Waiting, Nested, NoReport,
       ReportCall, Directly, Owed, Settled, Unsettled, Amount, Balance, Depth, At
<1>3. CASE AppLog \/ AppOverflow \/ \E c \in Client : Connect(c) \/ ClientGone(c)
  BY <1>1, <1>3, EventStep
<1>4. CASE Step
  <2>1. Depth \in Nat /\ Depth >= 1 /\ Top = At(Depth)
    BY <1>4, StepRuns
  <2>2. CASE ~ReportCall(Depth)
    BY <1>1, <1>4, <2>2, QuietStep, StartStep
  <2>3. CASE At(Depth).op \in Waits
    BY <1>1, <1>4, <2>3, ReturnStep
  <2>4. CASE At(Depth).op \in Sends /\ IsOverflow(At(Depth).msg)
    <3>1. Hands
      BY <1>1, <1>4, <2>4, LedgerTop
    <3>2. ClientSend \/ StorePush \/ StoreDiscard \/ StoreDirect
      BY <1>4, <2>1, <2>4 DEF Step, UserOverflow, FirstClient, UpdateOverflow, UpdateReported,
         Connected, CloseSocket, SendOne, SendEnd, ForceGivesUp, Reported, SendRingbuffer,
         Drained, Sending, Running, Sends
    <3> QED BY <1>4, <3>1, <3>2, ClientSendReport, StoreReport, DirectReport
  <2>5. CASE At(Depth).op = "send_all" /\ IsOverflow(At(Depth).msg)
    <3>1. Loops
      BY <1>1, <1>4, <2>5, LedgerTop
    <3>2. Sending
      BY <1>4, <2>1, <2>5 DEF Step, UserOverflow, FirstClient, UpdateOverflow, UpdateReported,
         Connected, CloseSocket, ClientSend, SendOne, SendEnd, StorePush, StoreDiscard,
         StoreDirect, ForceGivesUp, Reported, SendRingbuffer, Drained, Running, Forced
    <3> QED BY <1>4, <3>1, <3>2, LoopReport
  <2> QED BY <2>2, <2>3, <2>4, <2>5 DEF ReportCall, ForReport
<1> QED BY <1>2, <1>3, <1>4 DEF Next

LEMMA LedgerCorrect == Spec => [](Structure /\ Ledger)
<1>1. Init => Structure /\ Ledger
  <2> SUFFICES ASSUME Init PROVE Structure /\ Ledger
    OBVIOUS
  <2>1. Structure /\ calls = <<>>
    BY InitStructure DEF Init
  <2>2. Depth = 0 /\ Natural
    BY <2>1, IdlePhase, Numbers
  <2>3. HeadCount = 0
    BY <2>2 DEF HeadCount, HeadSent
  <2>4. Quiet
    BY <2>2, <2>3 DEF Init, Quiet, NoReport, Balance, Natural
  <2> QED BY <2>1, <2>4 DEF Ledger
<1>2. Structure /\ Ledger /\ [Next]_vars => (Structure /\ Ledger)'
  BY StructureStep, LedgerStep
<1> QED BY <1>1, <1>2, PTL DEF Spec

(* Between two handlers no loss is unknown: the clients have been told of  *)
(* it, a report of it waits in the ring buffer, or the overflow counter    *)
(* still has it, whatever failed while it was being reported.              *)
THEOREM LossIsReportedCorrect == Spec => []LossIsReported
<1>1. Structure /\ Ledger => LossIsReported
  <2> SUFFICES ASSUME Structure, Ledger, Idle, Report \notin hit
               PROVE  lost <= reported + overflow_counter + ReportsInRing
    BY DEF LossIsReported
  <2>1. Depth = 0 /\ Natural
    BY IdlePhase, Numbers DEF Idle
  <2>2. Quiet
    BY <2>1 DEF Ledger, Returns, Hands, Loops, Waiting
  <2> QED BY <2>1, <2>2 DEF Quiet, Balance, Natural
<1> QED BY <1>1, LedgerCorrect, PTL
=============================================================================
