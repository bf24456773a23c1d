--------------------------- MODULE DaemonRouting ---------------------------
(***************************************************************************)
(* How the daemon routes messages to its TCP clients: the state machine    *)
(* BUFFER / BUFFER_FULL / SEND_BUFFER / SEND_DIRECT, the client ring       *)
(* buffer, the overflow counter, and what happens when a client goes away  *)
(* while something is being sent to it.                                    *)
(*                                                                         *)
(* The daemon is one thread; a handler of its event loop runs to the end.  *)
(* Sending may close a socket, closing a socket sends messages, and those  *)
(* sends may close sockets: the handlers recurse.  "calls" is the call     *)
(* stack, innermost call first, so that a client may break between any two *)
(* sends of one handler.  "ret" is the result of the call that returned    *)
(* last.  The ring buffer is the queue that MctBuffer implements, with     *)
(* room for Capacity messages.                                             *)
(*                                                                         *)
(* Left out: the serial client (flag -y keeps the state at SEND_DIRECT),   *)
(* the version and time zone messages of a new connection (off by default),*)
(* offline trace and log storage, and the one-second timer, which the      *)
(* connection layer never creates.                                         *)
(***************************************************************************)
EXTENDS Integers, Sequences, FiniteSets, SequencesExt, FiniteSetsExt

CONSTANTS Client,       \* client sockets
          Capacity,     \* messages the client ring buffer has room for
          MaxEvents,    \* bound: messages that applications send
          MaxConnects   \* bound: connections that are accepted

ASSUME RoutingAssumption ==
  /\ IsFiniteSet(Client)
  /\ Capacity \in Nat \ {0} /\ MaxEvents \in Nat /\ MaxConnects \in Nat

VARIABLES
  state,              \* daemon->state
  pfd,                \* pEvent->pfd: the client sockets, in poll order
  ring,               \* daemon->client_ringbuffer
  overflow_counter,   \* daemon->overflow_counter
  overflow_cnt,       \* static sent_message_overflow_cnt
  connectionState,    \* daemon->connectionState, as told to applications
  broken,             \* client sockets whose peer is gone
  calls, ret,         \* the call stack and the last result
  events, connects,   \* how much of the two bounds is used up
  received,           \* auxiliary: the log messages each client was sent
  discarded,          \* auxiliary: log messages dropped by a full buffer,
                      \* the daemon's or the application's
  hit,                \* auxiliary: log messages whose send closed a socket,
                      \* and Report when the send of a report did
  lost, reported      \* auxiliary: messages dropped, and how many of these
                      \* clients have been told of

daemon == <<state, pfd, ring, overflow_counter, overflow_cnt, connectionState>>
history == <<received, discarded, hit, lost, reported>>
vars == <<daemon, broken, calls, ret, events, connects, history>>

-----------------------------------------------------------------------------
(* Messages and calls.                                                     *)

Log(n)      == [kind |-> "log", n |-> n]
Overflow(n) == [kind |-> "overflow", n |-> n]
Internal    == [kind |-> "internal", n |-> 0]
   \* connection info, "New client connection", "Client connection closed"
Report == 0
Counts(m) == IF m.kind = "log" THEN {m.n}
             ELSE IF m.kind = "overflow" THEN {Report} ELSE {}

Call(op)        == [op |-> op, msg |-> Internal, i |-> 0, sent |-> FALSE]
Send(m)         == [Call("client_send") EXCEPT !.msg = m]
Store(m)        == [Call("store") EXCEPT !.msg = m]
SendAll(m, op)  == [Call(op) EXCEPT !.msg = m, !.i = 1]
Close(c)        == [Call("close_socket") EXCEPT !.msg = c]

Top     == Head(calls)
Running(op) == calls # <<>> /\ Top.op = op
Return  == calls' = Tail(calls)
Do(cs)  == calls' = cs \o Tail(calls)   \* the top call continues as cs

client_connections == Len(pfd)

-----------------------------------------------------------------------------
Init ==
  /\ state = "BUFFER" /\ pfd = <<>> /\ ring = <<>>
  /\ overflow_counter = 0 /\ overflow_cnt = 0 /\ connectionState = 0
  /\ broken = {} /\ calls = <<>> /\ ret = "OK"
  /\ events = 0 /\ connects = 0
  /\ received = [c \in Client |-> <<>>]
  /\ discarded = {} /\ hit = {} /\ lost = 0 /\ reported = 0

-----------------------------------------------------------------------------
(* Events: the handlers that the idle event loop may call.                 *)

(* mct_daemon_process_user_message_log                                     *)
AppLog ==
  /\ calls = <<>> /\ events < MaxEvents
  /\ events' = events + 1
  /\ calls' = <<Send(Log(events + 1))>>
  /\ UNCHANGED <<daemon, broken, ret, connects, history>>

(* mct_daemon_process_user_message_overflow: an application has lost a     *)
(* message of its own.                                                     *)
AppOverflow ==
  /\ calls = <<>> /\ events < MaxEvents
  /\ events' = events + 1
  /\ lost' = lost + 1
  /\ discarded' = discarded \cup {events + 1}
  /\ calls' = <<Send(Overflow(1)), Call("user_overflow")>>
  /\ UNCHANGED <<daemon, broken, ret, connects, received, hit, reported>>

UserOverflow ==
  /\ Running("user_overflow")
  /\ overflow_counter' = IF ret = "OK" THEN overflow_counter
                         ELSE overflow_counter + 1
  /\ Return
  /\ UNCHANGED <<state, pfd, ring, overflow_cnt, connectionState, broken, ret,
                 events, connects, history>>

(* mct_daemon_process_client_connect                                       *)
Connect(c) ==
  /\ calls = <<>> /\ connects < MaxConnects
  /\ c \notin Range(pfd)
  /\ connects' = connects + 1
  /\ pfd' = Append(pfd, c)
  /\ calls' = <<Send(Internal), Call("first_client")>>
  /\ UNCHANGED <<state, ring, overflow_counter, overflow_cnt, connectionState,
                 broken, ret, events, history>>

IsFirstClient == client_connections = 1

(* ... which ends by draining the buffer to the first client:              *)
(* mct_daemon_client_update, and connectionState once more after it.       *)
FirstClient ==
  /\ Running("first_client")
  /\ IF IsFirstClient
     THEN /\ state' = "SEND_BUFFER"
          /\ connectionState' = 1
          /\ Do(<<Call("send_ringbuffer"), Call("update_overflow"),
                  Call("connected")>>)
     ELSE /\ Return
          /\ UNCHANGED <<state, connectionState>>
  /\ UNCHANGED <<pfd, ring, overflow_counter, overflow_cnt, broken, ret, events,
                 connects, history>>

(* Mutant: a single lost message is not reported.                          *)
UpdateDueAboveOne == ret = "OK" /\ overflow_counter > 1
UpdateDue == ret = "OK" /\ overflow_counter > 0

UpdateOverflow ==
  /\ Running("update_overflow")
  /\ IF UpdateDue
     THEN Do(<<Send(Overflow(overflow_counter)), Call("update_reported")>>)
     ELSE Return
  /\ UNCHANGED <<daemon, broken, ret, events, connects, history>>

(* Mutant: a report that failed counts as made.                            *)
ReportNeverFails == TRUE
ReportMade == ret = "OK"

UpdateReported ==
  /\ Running("update_reported")
  /\ overflow_counter' = IF ReportMade THEN 0 ELSE overflow_counter
  /\ Return
  /\ UNCHANGED <<state, pfd, ring, overflow_cnt, connectionState, broken, ret,
                 events, connects, history>>

Connected ==
  /\ Running("connected")
  /\ connectionState' = 1
  /\ Return
  /\ UNCHANGED <<state, pfd, ring, overflow_counter, overflow_cnt, broken, ret,
                 events, connects, history>>

(* The poll reports the end of a client's connection.                      *)
ClientGone(c) ==
  /\ calls = <<>> /\ c \in broken
  /\ calls' = <<Close(c)>>
  /\ UNCHANGED <<daemon, broken, ret, events, connects, history>>

(* mct_daemon_handle_event when poll times out                             *)
PollTimeout == calls = <<>> /\ UNCHANGED vars

(* The environment: the peer of a client goes away, at any moment.         *)
Break(c) ==
  /\ c \in Range(pfd) \ broken
  /\ broken' = broken \cup {c}
  /\ UNCHANGED <<daemon, calls, ret, events, connects, history>>

-----------------------------------------------------------------------------
(* Mutants: every closed socket counts as the last one; none does.         *)
AnySocketIsLast == TRUE
NoSocketIsLast  == FALSE
LastSocket == client_connections = 1

(* mct_daemon_close_socket                                                 *)
CloseSocket ==
  /\ Running("close_socket")
  /\ pfd' = RemoveFirst(pfd, Top.msg)
  /\ broken' = broken \ {Top.msg}
  /\ IF LastSocket
     THEN connectionState' = 0 /\ state' = "BUFFER"
     ELSE UNCHANGED <<connectionState, state>>
  /\ Do(<<Send(Internal), Send(Internal)>>)
  /\ UNCHANGED <<ring, overflow_counter, overflow_cnt, ret, events, connects,
                 history>>

(* mct_daemon_client_send to all clients                                   *)
ClientSend ==
  /\ Running("client_send")
  /\ IF state = "SEND_DIRECT"
     THEN Do(<<SendAll(Top.msg, "send_all"), Store(Top.msg)>>)
     ELSE Do(<<Store(Top.msg)>>)
  /\ UNCHANGED <<daemon, broken, ret, events, connects, history>>

(* mct_daemon_client_send_all_multiple: one iteration of its loop over the *)
(* poll table.  A failing send closes the socket, which compresses the     *)
(* table under the loop.                                                   *)
Sending == Running("send_all") \/ Running("send_force")
Delivered(c) ==
  /\ received' = IF Top.msg.kind = "log"
                 THEN [received EXCEPT ![c] = Append(@, Top.msg.n)]
                 ELSE received
  /\ reported' = IF Top.msg.kind = "overflow" /\ ~Top.sent
                 THEN reported + Top.msg.n ELSE reported

SendOne ==
  /\ Sending /\ Top.i <= Len(pfd)
  /\ LET c == pfd[Top.i] IN
       IF c \in broken
       THEN /\ Do(<<Close(c), [Top EXCEPT !.i = @ + 1]>>)
            /\ hit' = hit \cup Counts(Top.msg)
            /\ UNCHANGED <<received, reported>>
       ELSE /\ Do(<<[Top EXCEPT !.i = @ + 1, !.sent = TRUE]>>)
            /\ Delivered(c)
            /\ UNCHANGED hit
  /\ UNCHANGED <<daemon, broken, ret, events, connects, discarded, lost>>

(* Mutant: a failing send to the clients is not noticed.                   *)
ForceNeverFails == FALSE
ForceFailed == Top.op = "send_force" /\ ~Top.sent

SendEnd ==
  /\ Sending /\ Top.i > Len(pfd)
  /\ ret' = IF ForceFailed THEN "SEND_FAILED" ELSE "OK"
  /\ Return
  /\ UNCHANGED <<daemon, broken, events, connects, history>>

(* The end of mct_daemon_client_send: in a buffering state (read after the *)
(* send) the message goes into the ring buffer or is discarded; otherwise  *)
(* a pending overflow is reported.                                         *)
Buffering == state # "SEND_DIRECT"

(* What mct_buffer_push3 promises: messages differ in size, so a push may  *)
(* be refused as soon as the buffer is not empty.                          *)
Room == Len(ring) < Capacity
MayRefuse == ring # <<>>

StorePush ==
  /\ Running("store") /\ Buffering
  /\ state # "BUFFER_FULL" /\ Room
  /\ ring' = Append(ring, Top.msg)
  /\ ret' = "OK"
  /\ Return
  /\ UNCHANGED <<state, pfd, overflow_counter, overflow_cnt, connectionState,
                 broken, events, connects, history>>

StoreDiscard ==
  /\ Running("store") /\ Buffering
  /\ state = "BUFFER_FULL" \/ MayRefuse
  /\ state' = "BUFFER_FULL"
  /\ overflow_counter' = overflow_counter + 1
  /\ lost' = lost + 1
  /\ discarded' = IF Top.msg.kind = "log" THEN discarded \cup {Top.msg.n}
                  ELSE discarded
  /\ ret' = "BUFFER_FULL"
  /\ Return
  /\ UNCHANGED <<pfd, ring, overflow_cnt, connectionState, broken, events,
                 connects, received, hit, reported>>

(* Mutant: without the static guard of the overflow report.                *)
ReportDueAgain == overflow_counter > 0 /\ client_connections > 0
ReportDue == overflow_counter > 0 /\ client_connections > 0 /\ overflow_cnt = 0

(* A message that was forced out of the ring buffer takes the second way   *)
(* in every state.                                                         *)
Forced == Running("forced") /\ ret = "OK"

StoreDirect ==
  /\ (Running("store") /\ ~Buffering) \/ Forced
  /\ ret' = "OK"
  /\ IF ReportDue
     THEN /\ overflow_cnt' = 1
          /\ Do(<<Send(Overflow(overflow_counter)), Call("reported")>>)
     ELSE /\ Return
          /\ UNCHANGED overflow_cnt
  /\ UNCHANGED <<state, pfd, ring, overflow_counter, connectionState, broken,
                 events, connects, history>>

ForceGivesUp ==
  /\ Running("forced") /\ ret # "OK"
  /\ Return
  /\ UNCHANGED <<daemon, broken, ret, events, connects, history>>

Reported ==
  /\ Running("reported")
  /\ IF ReportMade
     THEN overflow_counter' = 0 /\ overflow_cnt' = overflow_cnt - 1
     ELSE UNCHANGED <<overflow_counter, overflow_cnt>>
  /\ ret' = "OK"
  /\ Return
  /\ UNCHANGED <<state, pfd, ring, connectionState, broken, events, connects,
                 history>>

(* mct_daemon_send_ringbuffer_to_client: the head is copied, sent to every *)
(* client, and removed once a client has taken it.                         *)
SendRingbuffer ==
  /\ Running("send_ringbuffer")
  /\ IF ring = <<>>
     THEN /\ state' = "SEND_DIRECT" /\ ret' = "OK"
          /\ Return
     ELSE /\ Do(<<SendAll(Head(ring), "send_force"), Call("forced"),
                  Call("drained")>>)
          /\ UNCHANGED <<state, ret>>
  /\ UNCHANGED <<pfd, ring, overflow_counter, overflow_cnt, connectionState,
                 broken, events, connects, history>>

(* Mutant: the head is sent but not removed.                               *)
KeepHead == ring
AfterRemove == Tail(ring)

(* Mutant: a message that could not be sent is tried again at once.        *)
DrainedOrRetried ==
  /\ Running("drained")
  /\ Do(<<Call("send_ringbuffer")>>)
  /\ ring' = IF ret = "OK" THEN AfterRemove ELSE ring
  /\ UNCHANGED <<state, pfd, overflow_counter, overflow_cnt, connectionState,
                 broken, ret, events, connects, history>>

Drained ==
  /\ Running("drained")
  /\ IF ret = "OK"
     THEN /\ ring' = AfterRemove
          /\ state' = "SEND_BUFFER"
          /\ Do(<<Call("send_ringbuffer")>>)
     ELSE /\ Return
          /\ UNCHANGED <<ring, state>>
  /\ UNCHANGED <<pfd, overflow_counter, overflow_cnt, connectionState, broken,
                 ret, events, connects, history>>

-----------------------------------------------------------------------------
Step ==
  \/ UserOverflow \/ FirstClient \/ UpdateOverflow \/ UpdateReported
  \/ Connected \/ CloseSocket \/ ClientSend \/ SendOne \/ SendEnd
  \/ StorePush \/ StoreDiscard \/ StoreDirect \/ ForceGivesUp \/ Reported
  \/ SendRingbuffer \/ Drained

Next ==
  \/ AppLog \/ AppOverflow \/ PollTimeout
  \/ \E c \in Client : Connect(c) \/ ClientGone(c) \/ Break(c)
  \/ Step

(* A handler that runs is never abandoned, and the event loop takes up the *)
(* end of a connection that poll keeps reporting.  Nothing makes a client  *)
(* connect or an application log.                                          *)
Fairness == WF_vars(Step) /\ \A c \in Client : WF_vars(ClientGone(c))
Spec == Init /\ [][Next]_vars /\ Fairness

-----------------------------------------------------------------------------
(* Properties.                                                             *)

States  == {"BUFFER", "BUFFER_FULL", "SEND_BUFFER", "SEND_DIRECT"}
Results == {"OK", "SEND_FAILED", "BUFFER_FULL"}
Message == [kind : {"log", "overflow", "internal"}, n : Nat]

(* The counters are bounded by what can be lost, the poll table holds each *)
(* client once, and the static guard of the overflow report is 0 or 1.     *)
TypeOK ==
  /\ state \in States /\ ret \in Results
  /\ pfd \in Seq(Client) /\ IsInjective(pfd)
  /\ ring \in Seq(Message) /\ Len(ring) <= Capacity
  /\ overflow_counter \in 0 .. lost /\ overflow_cnt \in {0, 1}
  /\ connectionState \in {0, 1}
  /\ broken \subseteq Range(pfd)
  /\ events \in 0 .. MaxEvents /\ connects \in 0 .. MaxConnects

Idle == calls = <<>>

(* Between two handlers the state says what the daemon is doing: without a *)
(* client it buffers; with one it sends directly and nothing is left       *)
(* behind in the ring buffer.                                              *)
StateMatchesClients ==
  Idle => IF pfd = <<>> THEN state \in {"BUFFER", "BUFFER_FULL"}
          ELSE state = "SEND_DIRECT" /\ ring = <<>>

(* While a client is connected, applications have been told so.            *)
ConnectedIsTold == Idle /\ pfd # <<>> => connectionState = 1

(* No client gets a log message after a younger one, or twice: not through *)
(* the ring buffer, not around it, not when draining it was cut short.     *)
(* The one repetition: a message that clients were sent is stored as well  *)
(* when its own send has closed the last socket.                           *)
InOrder ==
  \A c \in Client : \A i \in 1 .. Len(received[c]) - 1 :
    \/ received[c][i] < received[c][i + 1]
    \/ received[c][i] = received[c][i + 1] /\ received[c][i] \in hit

(* A log message that the daemon has taken from an application has been    *)
(* sent, waits in the ring buffer, or was counted as discarded.            *)
InRing == {ring[i].n : i \in {j \in 1 .. Len(ring) : ring[j].kind = "log"}}
Accounted == InRing \cup discarded \cup UNION {Range(received[c]) : c \in Client}

(* The one exception: the send loop that closes a socket skips the client  *)
(* next to it, and takes the message for sent or gives it up.              *)
NoSilentLoss == Idle => (1 .. events) \ hit \subseteq Accounted

(* A lost message is known: clients have been told of it, a report of it   *)
(* waits in the ring buffer, or it is still counted, through reports that  *)
(* fail, reports about reports, and losses while reporting.  (A report can *)
(* be skipped like any other message, and is excepted like it.)            *)
ReportsInRing ==
  MapThenSumSet(LAMBDA i : IF ring[i].kind = "overflow" THEN ring[i].n ELSE 0,
                1 .. Len(ring))
LossIsReported ==
  Idle /\ Report \notin hit => lost <= reported + overflow_counter + ReportsInRing

(* No loss is kept from a connected client.                                *)
LossIsTold == Idle /\ pfd # <<>> => overflow_counter = 0

(* The handlers recurse through send, close and overflow report, but not   *)
(* without bound: every client is closed at most once, and the report of   *)
(* an overflow does not start another one.                                 *)
MaxDepth == 4 + 3 * Cardinality(Client)
BoundedRecursion == Len(calls) <= MaxDepth

(* Every handler comes back to the event loop.                             *)
HandlerReturns == []<>Idle
=============================================================================
