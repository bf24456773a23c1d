---------------------------- MODULE MessagePath ----------------------------
(***************************************************************************)
(* The path of a message: an application builds it, writes it to the FIFO, *)
(* the daemon finds it in what one read returns and passes it on, and a    *)
(* client finds it in what its connection returns and prints it.           *)
(*                                                                         *)
(* All sizes are the program's own.  A process writes the messages it has  *)
(* built in any order: which one is sent first, and which ones wait in the *)
(* startup buffer, is MctUserLib.  The daemon's table of applications is   *)
(* Registry, the choice of the clients that receive a message              *)
(* DaemonRouting; here one client receives all, and the daemon's own       *)
(* messages are left out.                                                  *)
(***************************************************************************)
EXTENDS Receiver

(* The configurations.  Of one of them, script[p] is what process p does,  *)
(* a sequence of items                                                     *)
(*   [op |-> "log", id, verbose, args], a log message begun by             *)
(*      mct_user_log_write_start (verbose) or _start_id,                   *)
(*   [op |-> "given", fields, args], one begun with a given buffer,        *)
(*   [op |-> kind, desc], another user message with a description of desc  *)
(*      bytes (0 where the kind has none).                                 *)
(* toggles bounds the calls of mct_verbose_mode and mct_nonverbose_mode,   *)
(* opts are the header options a log message may meet, bufLen is           *)
(* MCT_LOG_MSG_BUF_LEN, pipe the capacity of the FIFO, cuts the numbers of *)
(* bytes the kernel may take of a message it has no room for, msbf says    *)
(* that the applications run on a machine of other byte order than the     *)
(* client, serial that the daemon sends serial headers, resync that the    *)
(* client looks for them, noise is the number of bytes of noise on both    *)
(* directions of the connection before the first message, requests the     *)
(* lengths of the client's control messages and chunks the numbers of      *)
(* bytes a read of the connection may return.                              *)
CONSTANTS Configurations, None

PipeBuf    == 4096      \* what the kernel writes whole or not at all
DaemonSize == 10024     \* MCT_DAEMON_RCVBUFSIZE, _RCVBUFSIZESOCK
ClientSize == 65535     \* MCT_RECEIVE_BUFSIZE
DescSize   == 256       \* MCT_DAEMON_DESCSIZE
TypeBytes  == 7         \* user header bytes the search for one asks for

(* Bytes behind the user header, the description not counted; the daemon   *)
(* expects one byte more of a marker than the library sends.               *)
FixedSize(kind) ==
  CASE kind = "REGISTER_APPLICATION" -> 12
    [] kind = "REGISTER_CONTEXT"     -> 22
    [] kind \in {"UNREGISTER_APPLICATION", "UNREGISTER_CONTEXT", "OVERFLOW"} -> 8
    [] kind = "MARKER" -> 0
Expected(kind) == IF kind = "MARKER" THEN 1 ELSE FixedSize(kind)
Registration == {"REGISTER_APPLICATION", "REGISTER_CONTEXT"}

VARIABLES
  conf, mode, toggles,
  next,       \* per process: the item it is at
  log,        \* per process: the log message being written, or None
  out,        \* per process: the messages built and not yet written
  fifo,       \* what is in the FIFO
  rcv,        \* the daemon's receiver of the FIFO
  taken,      \* ghost: what the daemon has handled, in order
  stream,     \* what is on its way to the client and to the daemon
  conn,       \* the receivers of the two
  got,        \* ghost: what the client and the daemon read from there
  sent,       \* ghost: all messages built
  written,    \* ghost: those written to the FIFO, in order
  split,      \* ghost: those a read of the daemon has cut in two
  cut         \* ghost: those the FIFO took only a part of

appVars    == <<mode, toggles, next, log>>
daemonVars == <<rcv, taken, split>>
connVars   == <<conn, got>>
vars == <<conf, appVars, out, fifo, daemonVars, stream, connVars, sent,
          written, cut>>

Processes == DOMAIN conf.script
Total(m) == sent[m].size
Whole(m) == <<Segment(m, UserHeader, Total(m))>>
RequestWhole(m) == <<Segment(m, UserHeader, UserHeader + conf.requests[m])>>
WithSerial(s) == IF conf.serial THEN <<Serial>> \o s ELSE s
Noise == IF conf.noise = 0 THEN <<>> ELSE <<Segment(-1, 1, 1 + conf.noise)>>

Init ==
  /\ conf \in Configurations
  /\ mode = [p \in Processes |-> 1] /\ toggles = 0
  /\ next = [p \in Processes |-> 1]
  /\ log = [p \in Processes |-> None]
  /\ out = [p \in Processes |-> {}]
  /\ fifo = <<>> /\ rcv = NewReceiver /\ taken = <<>>
  /\ stream = [client |-> Noise,
               daemon |-> FoldLeft(LAMBDA s, m : s \o WithSerial(RequestWhole(m)),
                                   Noise, [m \in DOMAIN conf.requests |-> m])]
  /\ conn = [client |-> NewReceiver, daemon |-> NewReceiver]
  /\ got = [client |-> <<>>, daemon |-> <<>>]
  /\ sent = <<>> /\ written = <<>> /\ split = {} /\ cut = {}

-----------------------------------------------------------------------------
(* The application.                                                        *)

Item(p) == conf.script[p][next[p]]
Ready(p) == next[p] <= Len(conf.script[p]) /\ log[p] = None

(* mct_user_log_write_start, _start_id and _start_w_given_buffer           *)
Writing(l, id, todo, given) ==
  [log |-> l, id |-> id, todo |-> todo, given |-> given, mixed |-> FALSE]
LogStart(p) ==
  /\ Ready(p) /\ Item(p).op = "log"
  /\ log' = [log EXCEPT ![p] =
       Writing(StartLog(mode[p], conf.bufLen, Item(p).verbose, Item(p).id),
               Item(p).id, Item(p).args, <<>>)]
  /\ next' = [next EXCEPT ![p] = @ + 1]
  /\ UNCHANGED <<conf, mode, toggles, out, fifo, daemonVars, stream, connVars,
                 sent, written, cut>>
LogStartGiven(p) ==
  /\ Ready(p) /\ Item(p).op = "given"
  /\ LET given == [fields |-> Item(p).fields, noar |-> Len(Item(p).args)]
     IN log' = [log EXCEPT ![p] =
          IF GivenAccepted(mode[p], conf.bufLen, given)
          THEN Writing(StartGiven(conf.bufLen, given), 0, <<>>, Item(p).args)
          ELSE None]
  /\ next' = [next EXCEPT ![p] = @ + 1]
  /\ UNCHANGED <<conf, mode, toggles, out, fifo, daemonVars, stream, connVars,
                 sent, written, cut>>

(* mct_user_log_write_int and its like, one argument at a time.            *)
LogWrite(p) ==
  /\ log[p] # None /\ log[p].todo # <<>>
  /\ \E w \in Written(mode[p], log[p].log, Head(log[p].todo)) :
       log' = [log EXCEPT ![p] =
                 [@ EXCEPT !.log = w.log, !.todo = Tail(@),
                    !.given = IF w.log.noar > log[p].log.noar
                              THEN Append(@, Last(w.log.fields).v) ELSE @]]
  /\ UNCHANGED <<conf, mode, toggles, next, out, fifo, daemonVars, stream,
                 connVars, sent, written, cut>>

(* mct_user_log_write_finish, mct_user_log_send_log                        *)
Built(p, message) ==
  /\ sent' = Append(sent, message)
  /\ out' = [out EXCEPT ![p] = @ \cup {Len(sent) + 1}]
LogFinish(p, opt) ==
  /\ log[p] # None /\ log[p].todo = <<>>
  /\ LET m == LogMessage(mode[p], log[p].log, opt, conf.msbf)
     IN IF Huge(m) THEN UNCHANGED <<sent, out>>
        ELSE Built(p, [kind |-> "LOG", size |-> UserHeader + m.head + m.size,
                       desc |-> 0, m |-> m, id |-> log[p].id,
                       given |-> log[p].given, mixed |-> log[p].mixed])
  /\ log' = [log EXCEPT ![p] = None]
  /\ UNCHANGED <<conf, mode, toggles, next, fifo, daemonVars, stream, connVars,
                 written, cut>>

(* mct_register_app, mct_register_context, the unregister functions,       *)
(* mct_log_marker and the report of an overflow                            *)
Other(p) ==
  /\ Ready(p) /\ Item(p).op \notin {"log", "given"}
  /\ Built(p, [kind |-> Item(p).op, desc |-> Item(p).desc, m |-> None,
               size |-> UserHeader + FixedSize(Item(p).op) + Item(p).desc])
  /\ next' = [next EXCEPT ![p] = @ + 1]
  /\ UNCHANGED <<conf, mode, toggles, log, fifo, daemonVars, stream, connVars,
                 written, cut>>

(* mct_verbose_mode, mct_nonverbose_mode; another thread of the process    *)
(* may call it while a log message is being written.                       *)
SetMode(p) ==
  /\ toggles < conf.toggles
  /\ toggles' = toggles + 1
  /\ mode' = [mode EXCEPT ![p] = 1 - @]
  /\ log' = [log EXCEPT ![p] = IF @ = None THEN None
                               ELSE [@ EXCEPT !.mixed = TRUE]]
  /\ UNCHANGED <<conf, next, out, fifo, daemonVars, stream, connVars, sent,
                 written, cut>>

-----------------------------------------------------------------------------
(* mct_user_log_out3: writev on a FIFO that does not block.  A message is  *)
(* kept until it is written as a whole; the part of it that was written    *)
(* stays in the FIFO.                                                      *)
FifoRoom == conf.pipe - Bytes(fifo)
Write(p, m) ==
  /\ m \in out[p] /\ Total(m) <= FifoRoom
  /\ fifo' = Append(fifo, Segment(m, 0, Total(m)))
  /\ out' = [out EXCEPT ![p] = @ \ {m}]
  /\ written' = Append(written, m)
  /\ UNCHANGED <<conf, appVars, daemonVars, stream, connVars, sent, cut>>
WritePart(p, m, k) ==
  /\ m \in out[p] \ cut
  /\ Total(m) > PipeBuf /\ Total(m) > FifoRoom /\ k <= FifoRoom
  /\ fifo' = Append(fifo, Segment(m, 0, k))
  /\ cut' = cut \cup {m}
  /\ UNCHANGED <<conf, appVars, out, daemonVars, stream, connVars, sent,
                 written>>

-----------------------------------------------------------------------------
(* The daemon: mct_daemon_process_user_messages.                           *)

LogLens == [m \in DOMAIN sent |-> Total(m) - UserHeader]
Handled(m, content, complete) ==
  [m |-> m, content |-> content, complete |-> complete]
Result(r, done, goOn) == [r |-> r, done |-> done, goOn |-> goOn]

(* mct_daemon_process_user_message_log                                     *)
LogResult(r, m, read) ==
  IF read.st = "OK"
  THEN Result(Removed(r, UserHeader + read.size),
              <<Handled(m, read.content, TRUE)>>, TRUE)
  ELSE Result(Removed(r, r.n), <<>>, FALSE)
LogHandler(r, m) ==
  LogResult(r, m,
            MessageRead(Slice(Content(r), UserHeader, r.n), FALSE, LogLens))

(* The message is handled with the bytes up to size, which are removed.    *)
Completed(r, m, size, complete) ==
  Result(Removed(r, size),
         <<Handled(m, Slice(Content(r), UserHeader, size), complete)>>, TRUE)

(* mct_daemon_process_user_message_unregister_application,                 *)
(* _unregister_context, _overflow, _marker                                 *)
(* Mutant: a message that has not arrived as a whole is dropped.           *)
FixedHandlerDrops(r, m, expected) ==
  IF Gettable(r, expected) THEN Completed(r, m, UserHeader + expected, TRUE)
  ELSE Result(Removed(r, r.n), <<>>, FALSE)
FixedHandler(r, m, expected) ==
  IF Gettable(r, expected) THEN Completed(r, m, UserHeader + expected, TRUE)
  ELSE Result(r, <<>>, FALSE)

(* mct_daemon_process_user_message_register_application,                   *)
(* _register_context: the test for the description counts the bytes before *)
(* it.                                                                     *)
DescriptionHandler(r, m, fixed, len) ==
  LET size == UserHeader + fixed + IF r.n >= len THEN len ELSE 0
  IN IF ~Gettable(r, fixed) THEN Result(r, <<>>, FALSE)
     ELSE IF ~Removable(r, size) THEN Result(Removed(r, size), <<>>, FALSE)
     ELSE Completed(r, m, size, r.n >= len)

(* mct_daemon_process_user_message_not_sup                                 *)
UnknownHandler(r) == Result(Removed(r, UserHeader), <<>>, FALSE)

Handler(r, m) ==
  IF r.n < UserHeader THEN UnknownHandler(r)
  ELSE CASE sent[m].kind = "LOG" -> LogHandler(r, m)
         [] sent[m].kind \in Registration ->
              DescriptionHandler(r, m, FixedSize(sent[m].kind),
                                 Min({sent[m].desc, DescSize}))
         [] OTHER -> FixedHandler(r, m, Expected(sent[m].kind))

(* Where the search finds user headers; a last byte of its type that has   *)
(* not arrived is taken to make it an unknown one.                         *)
Headers(s) ==
  {i \in DOMAIN s : s[i].a = 0 /\ s[i].m > 0
                    /\ Bytes(SubSeq(s, i, Len(s))) >= TypeBytes}
AtHeader(r, s, i) ==
  Handler(IF i = 1 THEN r ELSE Removed(r, Bytes(SubSeq(s, 1, i - 1))), s[i].m)
RECURSIVE ProcessLoop(_, _)
GoOn(res, done) ==
  IF res.goOn THEN ProcessLoop(res.r, done \o res.done)
  ELSE [res EXCEPT !.done = done \o @]
Search(r, s, done) ==
  IF r.n < UserHeader \/ Headers(s) = {} THEN Result(r, done, FALSE)
  ELSE GoOn(AtHeader(r, s, Min(Headers(s))), done)
ProcessLoop(r, done) == Search(r, Content(r), done)

(* mct_daemon_client_send_message_to_all_client for one client.            *)
ToClient(done) ==
  FoldLeft(LAMBDA s, h : IF sent[h.m].kind = "LOG" THEN s \o WithSerial(h.content)
                         ELSE s, <<>>, done)
DaemonRead ==
  /\ fifo # <<>>
  /\ \E n \in {Min({Bytes(fifo), Room(rcv, DaemonSize)})} :
     \E read \in {Receive(rcv, Slice(fifo, 0, n))} :
     \E end \in {ProcessLoop(read, <<>>)} :
       /\ fifo' = Slice(fifo, n, Bytes(fifo))
       /\ rcv' = MoveToBegin(end.r)
       /\ taken' = taken \o end.done
       /\ stream' = [stream EXCEPT !.client = @ \o ToClient(end.done)]
       /\ split' = split \cup {m \in DOMAIN sent :
                               /\ n > 0 /\ Last(read.buffer).m = m
                               /\ Last(read.buffer).b < Total(m)}
  /\ UNCHANGED <<conf, appVars, out, connVars, sent, written, cut>>

-----------------------------------------------------------------------------
(* The connection: mct_client_main_loop reads what the daemon sends, the   *)
(* daemon's mct_daemon_process_client_messages or _serial what the client  *)
(* sends.  The client does not remove the bytes that resynchronising has   *)
(* passed over.                                                            *)
Ends == {"client", "daemon"}
ConnLens(e) == IF e = "client" THEN LogLens ELSE conf.requests
RECURSIVE ReadLoop(_, _, _)
ReadNext(e, r, done, read, passed) ==
  IF read.st = "OK"
  THEN ReadLoop(e, Removed(r, read.size + passed), Append(done, read.content))
  ELSE Result(r, done, FALSE)
ReadLoop(e, r, done) ==
  ReadNext(e, r, done, MessageRead(Content(r), conf.resync, ConnLens(e)),
           IF e = "daemon" THEN SerialAt(Content(r), conf.resync) ELSE 0)
ConnRead(e, k) ==
  /\ stream[e] # <<>>
  /\ \E n \in {Min({k, Bytes(stream[e]),
                   Room(conn[e], IF e = "client" THEN ClientSize ELSE DaemonSize)})} :
     \E end \in {ReadLoop(e, Receive(conn[e], Slice(stream[e], 0, n)), <<>>)} :
       /\ stream' = [stream EXCEPT ![e] = Slice(@, n, Bytes(@))]
       /\ conn' = [conn EXCEPT ![e] = MoveToBegin(end.r)]
       /\ got' = [got EXCEPT ![e] = @ \o end.done]
  /\ UNCHANGED <<conf, appVars, out, fifo, daemonVars, sent, written, cut>>

Next ==
  \/ \E p \in Processes :
       \/ LogStart(p) \/ LogStartGiven(p) \/ LogWrite(p) \/ Other(p) \/ SetMode(p)
       \/ \E opt \in conf.opts : LogFinish(p, opt)
       \/ \E m \in out[p] : Write(p, m) \/ \E k \in conf.cuts : WritePart(p, m, k)
  \/ DaemonRead
  \/ \E e \in Ends, k \in conf.chunks : ConnRead(e, k)

Spec == Init /\ [][Next]_vars

-----------------------------------------------------------------------------
(* Properties.                                                             *)

HandledMessages == {taken[i].m : i \in DOMAIN taken}
KindOf(m) == sent[m].kind

(* What the daemon takes for the content of message m is all of it, except *)
(* for a marker, of which it expects more than there is.                   *)
CompleteContent(m) ==
  <<Segment(m, UserHeader,
            IF KindOf(m) = "LOG" THEN Total(m)
            ELSE UserHeader + FixedSize(KindOf(m)) + Min({sent[m].desc, DescSize}))>>

(* The daemon handles each message with its own bytes and all of them,     *)
(* except that a registration that a read has cut in two may be handled    *)
(* without its description, and a message the FIFO took only a part of     *)
(* with the beginning of the next one as its end.  As long as the FIFO has *)
(* taken every message as a whole, messages are handled in the order they  *)
(* were written in, and none twice.                                        *)
HandledAsWritten ==
  /\ cut = {} => [i \in DOMAIN taken |-> taken[i].m]
                   = SelectSeq(written, LAMBDA m : m \in HandledMessages)
  /\ \A i \in DOMAIN taken :
       LET m == taken[i].m IN
         \/ KindOf(m) = "MARKER"
         \/ taken[i].complete /\ taken[i].content = CompleteContent(m)
         \/ KindOf(m) \in Registration /\ m \in split
         \/ m \in cut

(* What may be lost although it was written as a whole: a log message or a *)
(* registration that a read has cut in two, and the message behind a       *)
(* marker.  A marker that nothing follows is not handled yet.              *)
Excused(i) ==
  \/ written[i] \in split /\ KindOf(written[i]) \in Registration \cup {"LOG"}
  \/ i > 1 /\ KindOf(written[i - 1]) = "MARKER"
  \/ i = Len(written) /\ KindOf(written[i]) = "MARKER"

(* Nothing else is lost, and when the FIFO is empty nothing else waits in  *)
(* the receiver: everything that was written has been handled.             *)
NothingElseLost ==
  fifo = <<>> /\ cut = {} =>
    \A i \in DOMAIN written : written[i] \in HandledMessages \/ Excused(i)

(* However the connection cuts its stream, and whatever noise the serial   *)
(* line began with, each end reads exactly the messages that the other end *)
(* has sent, in their order, and has them all when nothing is on the way.  *)
ConnectionDelivers ==
  LET logs == SelectSeq(taken, LAMBDA h : KindOf(h.m) = "LOG")
      due(e) == IF e = "client" THEN [i \in DOMAIN logs |-> logs[i].content]
                ELSE [m \in DOMAIN conf.requests |-> RequestWhole(m)]
  IN \A e \in Ends : /\ IsPrefix(got[e], due(e))
                     /\ stream[e] = <<>> => got[e] = due(e)

(* Values the reader of a payload knows how to print.                      *)
Readable(v) ==
  ~("fmt" \in DOMAIN v /\ v.t \notin {"RAWD"} /\ Scod(v.fmt) = "BIN" /\ v.w > 2)
Formatted(v) == "fmt" \in DOMAIN v /\ Scod(v.fmt) # "NONE"

(* A text in UTF-8 that did not fit is cut between two of its characters,  *)
(* provided three of its bytes fit.                                        *)
WholeCharacters(v) ==
  "cut" \in DOMAIN v /\ v.arg.utf8 /\ v.cut >= 3
  => v.cut + 1 \in Starts(v.arg.text) \cup {TextLen(v.arg.text) + 1}

(* What a client prints of a log message that reached it as a whole is     *)
(* what the application has written, value by value: the arguments of a    *)
(* verbose message, texts in whole characters and numbers converted to its *)
(* byte order unless they are printed in hexadecimal or binary, or the id  *)
(* of a non-verbose one.  Left out are messages in whose midst the mode    *)
(* was changed, more arguments than their 8-bit number can tell, and       *)
(* binary formats the reader does not know.                                *)
PrintedAsWritten ==
  \A i \in DOMAIN got.client :
    LET m == sent[got.client[i][1].m]
        printed == Payload(m.m)
        values == [j \in DOMAIN printed.out |-> printed.out[j].v]
    IN (/\ got.client[i] = Whole(got.client[i][1].m) /\ ~m.mixed
        /\ Len(m.given) < 256 /\ \A j \in DOMAIN m.given : Readable(m.given[j]))
       => /\ printed.st = "ok"
          /\ \A j \in DOMAIN m.given : WholeCharacters(m.given[j])
          /\ values = IF m.m.verbose THEN m.given ELSE <<m.id>>
          /\ \A j \in DOMAIN values :
               printed.out[j].converted \/ Formatted(values[j])

(* A log message that is not complete at the end of what a read returned   *)
(* is completed with the next read: the daemon handles every log message   *)
(* that was written, unless it is longer than a read can be or follows a   *)
(* marker.                                                                 *)
CompletedByNextRead ==
  fifo = <<>> /\ cut = {} =>
    \A i \in DOMAIN written :
      \/ written[i] \in HandledMessages
      \/ KindOf(written[i]) # "LOG" \/ Total(written[i]) > DaemonSize
      \/ i > 1 /\ KindOf(written[i - 1]) = "MARKER"
=============================================================================
