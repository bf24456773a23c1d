----------------------------- MODULE EventLoop -----------------------------
(***************************************************************************)
(* The single thread of the daemon: the list of connections, the table     *)
(* that poll() watches, the loop over the events it reports, the callback  *)
(* of each type of connection, and the message filter, whose level opens   *)
(* and closes the sockets that clients connect to.                         *)
(*                                                                         *)
(* The daemon's structures and the descriptors the kernel keeps for it are *)
(* one record, d, so that the operations below compose as the calls do:    *)
(*   conns    MctEventHandler.connections: type, descriptor, ACTIVE or not *)
(*   pfd      MctEventHandler.pfd: descriptor and revents                  *)
(*   clients  client_connections                                           *)
(*   current  pFilter.current, as an index                                 *)
(*   fds      what each descriptor is: kind, input not yet read, peer      *)
(*   leave    the loop ends: "exit" (g_exit), or "failed" when a callback  *)
(*            returned an error or the daemon could not start              *)
(* What a callback sends is left out (DaemonRouting) but for one effect: a *)
(* send to all clients may close any client whose peer is gone.            *)
(***************************************************************************)
EXTENDS MessageFilter, FiniteSetsExt

CONSTANTS
  Conf,       \* daemon configurations: file, number of addresses, serial line,
              \* and the bound on the events that come from outside
  MaxFd,      \* number of descriptors
  Levels      \* levels that may be asked for

(* Without addresses of its own the daemon has one for all of them.  The   *)
(* injections of a filter are a list of names, or all.                     *)
ASSUME EventLoopAssumption ==
  /\ MaxFd \in Nat /\ Levels \subseteq Nat
  /\ \A c \in Conf :
       /\ c.addresses \in Nat \ {0} /\ c.lines \in Seq(Range(c.lines))
       /\ \A l \in Range(c.lines) : l.k = "data" /\ l.key = "Injections" =>
            l.data = Star \/ l.data \in Seq(Range(l.data))

VARIABLES
  conf,       \* the configuration in use
  mf,         \* the message filter read from its file
  d,          \* the daemon, see above
  idx,        \* entry of the poll table being handled, 0 outside the loop
  events      \* events so far

vars == <<conf, mf, d, idx, events>>

None == -1
Fd == 1..MaxFd
(* Input of a descriptor: nothing, something without effect here, or a     *)
(* request to set the filter level.                                        *)
Nothing == [k |-> "nothing"]
Data == [k |-> "data"]
SetLevel(l) == [k |-> "level", level |-> l]

-----------------------------------------------------------------------------
(* The kernel.                                                             *)

Free == [k |-> "free", in |-> Nothing, peer |-> "none", addr |-> 0]
Object(k, addr) == [k |-> k, in |-> Nothing, peer |-> "there", addr |-> addr]
LowestFree(s) ==
  IF \A f \in Fd : s.fds[f].k # "free" THEN None
  ELSE Min({f \in Fd : s.fds[f].k = "free"})
CloseFd(s, f) == IF f \in Fd THEN [s EXCEPT !.fds[f] = Free] ELSE s

(* What poll() reports (MCT_EV_MASK_REJECTED is POLLERR or POLLNVAL).      *)
Revents(o) ==
  CASE o.k = "free" \/ o.peer = "reset" -> "rejected"
    [] o.k # "free" /\ o.peer # "reset" /\ (o.in # Nothing \/ o.peer = "gone") -> "in"
    [] OTHER -> "none"

-----------------------------------------------------------------------------
(* mct_daemon_event_handler.c                                              *)

(* mct_event_handler_enable_fd, mct_event_handler_disable_fd (the table is *)
(* compressed with the events it holds; no descriptor is in it twice).     *)
EnableFd(s, f) == [s EXCEPT !.pfd = Append(@, [fd |-> f, ev |-> "none"])]
EntryOf(s, f) == SelectInSeq(s.pfd, LAMBDA e : e.fd = f)
DisableFd(s, f) ==
  IF EntryOf(s, f) = 0 THEN s
  ELSE [s EXCEPT !.pfd = RemoveAt(@, EntryOf(s, f))]

(* mct_event_handler_find_connection, mct_connection_get_next: an index, 0 *)
(* when there is none.                                                     *)
FindConnection(s, f) == SelectInSeq(s.conns, LAMBDA c : c.fd = f)
NextOfType(s, type) == SelectInSeq(s.conns, LAMBDA c : c.type = type)

Current(s) == mf.configs[s.current]
Allowed(s, type) == IsConnectionAllowed(Current(s), type)

(* mct_connection_check_activate                                           *)
Deactivate(s, c) ==
  LET t == DisableFd(s, s.conns[c].fd)
  IN [t EXCEPT !.conns[c].active = FALSE,
               !.conns[c].fd = IF s.conns[c].type = "client_connect" THEN None ELSE @]
Activate(s, c) == [EnableFd(s, s.conns[c].fd) EXCEPT !.conns[c].active = TRUE]
CheckActivate(s, c, activation) ==
  LET con == s.conns[c]
      allowed == Allowed(s, con.type)
  IN CASE con.active /\ (~allowed \/ activation = "deactivate") -> Deactivate(s, c)
       [] ~con.active /\ allowed /\ activation = "activate" -> Activate(s, c)
       [] OTHER -> s

(* mct_event_handler_register_connection, mct_daemon_add_connection        *)
Counted == {"tcp", "serial"}
Register(s, f, type) ==
  LET t == [s EXCEPT !.conns = Append(@, [type |-> type, fd |-> f, active |-> FALSE]),
                     !.clients = IF type \in Counted THEN @ + 1 ELSE @]
  IN CheckActivate(t, Len(t.conns), "activate")

(* mct_daemon_remove_connection, mct_connection_destroy: the descriptor    *)
(* the connection still has is closed.                                     *)
RemoveConnection(s, c) ==
  LET t == CloseFd(s, s.conns[c].fd)
  IN [t EXCEPT !.conns = RemoveAt(@, c)]

(* mct_event_handler_unregister_connection                                 *)
CountDown(s, c) ==
  [s EXCEPT !.clients = IF s.conns[c].type \in Counted /\ @ > 0 THEN @ - 1 ELSE @]
\* Mutant: an unregistered client is still counted.
UnregisterStillCounts(s, f) ==
  LET c == FindConnection(s, f)
  IN IF c = 0 THEN s ELSE RemoveConnection(CheckActivate(s, c, "deactivate"), c)
Unregister(s, f) ==
  LET c == FindConnection(s, f)
  IN IF c = 0 THEN s
     ELSE RemoveConnection(CheckActivate(CountDown(s, c), c, "deactivate"), c)

(* mct_connection_get_receiver: the timers and the listening socket of the *)
(* UNIX socket build have no receiver, so that creating one fails.         *)
HasReceiver == {"control_connect", "control", "client_connect", "filter",
                "tcp", "serial", "app"}

(* mct_connection_create                                                   *)
ConnectionCreate(s, f, type) ==
  IF f = None \/ FindConnection(s, f) # 0 \/ type \notin HasReceiver THEN s
  ELSE Register(s, f, type)
OpenAndCreate(s, type, kind, addr, failure) ==
  LET f == LowestFree(s)
  IN IF f = None THEN [s EXCEPT !.leave = failure]
     ELSE ConnectionCreate([s EXCEPT !.fds[f] = Object(kind, addr)], f, type)

-----------------------------------------------------------------------------
(* Sockets for clients.                                                    *)

(* mct_daemon_socket_open: an address that is in use cannot be bound.      *)
AddressInUse(s, addr) == \E f \in Fd : s.fds[f].k = "client_connect" /\ s.fds[f].addr = addr
SocketOpen(s, addr) ==
  IF AddressInUse(s, addr) \/ LowestFree(s) = None THEN None ELSE LowestFree(s)

(* mct_daemon_filter_change_filter_level when there is a connection of     *)
(* type CLIENT_CONNECT: the socket of every address is opened, the         *)
(* connection keeps the last one.  The mask that the code passes for a     *)
(* type names the bit of the type TCP; a filter has both bits or none.     *)
Reopen(r, c, addr) ==
  LET f == SocketOpen(r.s, addr)
  IN IF ~r.ok \/ f = None THEN [r EXCEPT !.ok = FALSE]
     ELSE [r EXCEPT !.s.fds[f] = Object("client_connect", addr), !.s.conns[c].fd = f]
ReopenAll(s, c) ==
  FoldLeft(LAMBDA r, addr : Reopen(r, c, addr), [s |-> s, ok |-> TRUE],
           [i \in 1..conf.addresses |-> i])
\* Mutant: the socket is left open when clients are no longer allowed.
ChangeKnownKeepsSocket(s, c) ==
  IF Allowed(s, "tcp") /\ s.conns[c].fd = None THEN ReopenAll(s, c)
  ELSE [s |-> s, ok |-> TRUE]
ChangeKnown(s, c) ==
  CASE Allowed(s, "tcp") /\ s.conns[c].fd = None -> ReopenAll(s, c)
    [] Allowed(s, "tcp") /\ s.conns[c].fd # None -> [s |-> s, ok |-> TRUE]
    [] OTHER -> [s |-> CloseFd(s, s.conns[c].fd), ok |-> TRUE]

(* mct_daemon_filter_change_filter_level: without such a connection, one   *)
(* is made for the first address only; a socket that cannot be opened ends *)
(* the daemon.                                                             *)
FirstSocket(s) ==
  IF Allowed(s, "client_connect")
  THEN OpenAndCreate(s, "client_connect", "client_connect", 1, "exit") ELSE s
KnownSocket(s, c) ==
  LET r == ChangeKnown(s, c)
  IN IF r.ok THEN CheckActivate(r.s, c, "activate") ELSE [r.s EXCEPT !.leave = "exit"]
ChangeFilterLevel(s, level) ==
  LET t == [s EXCEPT !.current = Covering(mf.configs, level)]
      c == NextOfType(s, "client_connect")
  IN CASE level > LevelMax -> s
       [] level <= LevelMax /\ c = 0 -> FirstSocket(t)
       [] OTHER -> KnownSocket(t, c)

(* mct_daemon_filter_backend_level_changed                                 *)
BackendLevelChanged(s, level) ==
  IF Current(s).min <= level /\ level <= Current(s).max THEN s
  ELSE ChangeFilterLevel(s, level)

-----------------------------------------------------------------------------
(* The callbacks.  Each yields the set of outcomes it may have.            *)

(* mct_daemon_close_socket closes the connection and sends to all; any     *)
(* send to all closes, in turn, clients whose peer is gone.                *)
BrokenClients(s) ==
  {c.fd : c \in {s.conns[i] : i \in {j \in DOMAIN s.conns :
     /\ s.conns[j].type = "tcp" /\ s.conns[j].active /\ Allowed(s, "tcp")
     /\ s.fds[s.conns[j].fd].peer # "there"}}}
SendToAll(s) ==
  {FoldSet(LAMBDA f, t : Unregister(t, f), s, fs) : fs \in SUBSET BrokenClients(s)}
CloseSocket(s, f) == SendToAll(Unregister(s, f))

Consume(s, f) == [s EXCEPT !.fds[f].in = Nothing]
Leave(s) == [s EXCEPT !.leave = "failed"]

(* mct_daemon_process_client_connect, mct_daemon_process_control_connect:  *)
(* accept() fails when no descriptor is left, and the loop ends.           *)
Accepted(s, f, type) == OpenAndCreate(Consume(s, f), type, type, 0, "failed")
ClientConnect(s, f) ==
  IF LowestFree(s) = None THEN {Leave(s)} ELSE SendToAll(Accepted(s, f, "tcp"))
ControlConnect(s, f) ==
  IF LowestFree(s) = None THEN {Leave(s)} ELSE {Accepted(s, f, "control")}

(* mct_daemon_client_process_control, mct_daemon_control_set_filter_level  *)
MaySetLevel(s, type) ==
  \/ IsControlAllowed(Current(s), "set_filter_level")
  \/ type = "control" /\ ~mf.backend
ProcessControl(s, type, in) ==
  IF in.k = "level" /\ MaySetLevel(s, type) THEN ChangeFilterLevel(s, in.level) ELSE s

(* mct_daemon_process_client_messages, mct_daemon_process_control_messages:*)
(* both close at the end of the stream; the first also at an error, which  *)
(* a reset that comes after poll() causes, and then the loop ends.         *)
\* Mutant: the end of a connection is not noticed.
MessagesIgnoreEnd(s, f, type) ==
  LET in == s.fds[f].in
  IN IF in = Nothing THEN {s} ELSE {ProcessControl(Consume(s, f), type, in)}
Messages(s, f, type) ==
  LET in == s.fds[f].in
      error == type = "tcp" /\ s.fds[f].peer = "reset"
  IN CASE in # Nothing -> {ProcessControl(Consume(s, f), type, in)}
       [] in = Nothing /\ ~error -> CloseSocket(s, f)
       [] OTHER -> {Leave(t) : t \in CloseSocket(s, f)}

(* mct_daemon_process_client_messages_serial                               *)
SerialMessages(s, f) ==
  LET in == s.fds[f].in
  IN IF in = Nothing THEN {Leave(s)}
     ELSE {ProcessControl(Consume(s, f), "serial", in)}

(* mct_daemon_process_user_messages                                        *)
UserMessages(s, f) == SendToAll(Consume(s, f))

(* mct_daemon_filter_process_filter_control_messages: the backend's        *)
(* library calls back with the level it was told.                          *)
FilterMessages(s, f) ==
  LET in == s.fds[f].in
  IN {IF in.k = "level" THEN BackendLevelChanged(Consume(s, f), in.level)
      ELSE Consume(s, f)}

(* mct_connection_get_callback                                             *)
Callback(s, f, type) ==
  CASE type = "client_connect" -> ClientConnect(s, f)
    [] type \in {"tcp", "control"} -> Messages(s, f, type)
    [] type = "serial" -> SerialMessages(s, f)
    [] type = "app" -> UserMessages(s, f)
    [] type = "control_connect" -> ControlConnect(s, f)
    [] type = "filter" -> FilterMessages(s, f)

-----------------------------------------------------------------------------
(* main, mct_daemon_prepare_message_filter, mct_daemon_filter_backend_init *)
(* and mct_daemon_local_connection_init: in this order the backend, the    *)
(* FIFO, the sockets for clients if they are allowed, the control socket,  *)
(* the serial line.  The one-second timer gets a descriptor but no         *)
(* connection, and main does not mind when it gets none.                   *)
StartWith(current) ==
  [conns |-> <<>>, pfd |-> <<>>, clients |-> 0, current |-> current,
   fds |-> [f \in Fd |-> Free], leave |-> "no"]
InitBackend(s) == IF mf.backend THEN OpenAndCreate(s, "filter", "filter", 0, "failed") ELSE s
InitClientSockets(s) ==
  IF Allowed(s, "client_connect")
  THEN FoldLeft(LAMBDA t, a : OpenAndCreate(t, "client_connect", "client_connect", a, "failed"),
                s, [i \in 1..conf.addresses |-> i])
  ELSE s
InitSerial(s) == IF conf.serial THEN OpenAndCreate(s, "serial", "serial", 0, "failed") ELSE s
InitFifo(s) == [OpenAndCreate(s, "app", "app", 0, "failed") EXCEPT !.clients = 0]
InitControl(s) == OpenAndCreate(s, "control_connect", "control_connect", 0, "failed")
CreateTimer(s) == OpenAndCreate(s, "one_s", "timer", 0, s.leave)
Started ==
  CreateTimer(InitSerial(InitControl(InitClientSockets(InitFifo(InitBackend(
    StartWith(Covering(mf.configs, mf.default))))))))

(* A daemon whose filter configuration is refused does not start.          *)
Init == /\ conf \in Conf
        /\ mf = PrepareMessageFilter(conf.lines)
        /\ d = IF mf.ok THEN Started ELSE Leave(StartWith(1))
        /\ idx = 0
        /\ events = 0

-----------------------------------------------------------------------------
(* The world.                                                              *)

(* The daemon runs until the loop over the table it is in has ended.       *)
Running == d.leave = "no" \/ idx # 0
Event(f, o) == /\ Running /\ events < conf.events
               /\ d' = [d EXCEPT !.fds[f] = o]
               /\ events' = events + 1
               /\ UNCHANGED <<conf, mf, idx>>
Waiting(o) == o.in = Nothing /\ o.peer = "there"

(* A client or a control client dials, an application writes.              *)
Dial == \E f \in Fd : /\ d.fds[f].k \in {"client_connect", "control_connect", "app"}
                      /\ Waiting(d.fds[f])
                      /\ Event(f, [d.fds[f] EXCEPT !.in = Data])

(* A peer sends a request; the backend tells a level.                      *)
Ask == \E f \in Fd, l \in Levels :
         /\ d.fds[f].k \in {"tcp", "control", "serial", "filter"}
         /\ Waiting(d.fds[f])
         /\ Event(f, [d.fds[f] EXCEPT !.in = SetLevel(l)])

(* A peer closes its end, before or after what it sent was read, or with   *)
(* data of the daemon unread, which resets the connection.                 *)
HangUp == \E f \in Fd, how \in {"gone", "reset"} :
            /\ d.fds[f].k \in {"tcp", "control"}
            /\ d.fds[f].peer = "there"
            /\ Event(f, [d.fds[f] EXCEPT !.peer = how])

(* The serial device goes away.                                            *)
Unplug == \E f \in Fd : /\ d.fds[f].k = "serial" /\ Waiting(d.fds[f])
                        /\ Event(f, [d.fds[f] EXCEPT !.peer = "gone"])

(* mct_daemon_signal_handler                                               *)
Signal == /\ d.leave = "no" /\ events < conf.events
          /\ d' = [d EXCEPT !.leave = "exit"]
          /\ events' = events + 1
          /\ UNCHANGED <<conf, mf, idx>>

-----------------------------------------------------------------------------
(* mct_daemon_handle_event                                                 *)

FirstReady(pfd, from) ==
  LET ready == {i \in from..Len(pfd) : pfd[i].ev # "none"}
  IN IF ready = {} THEN 0 ELSE Min(ready)

(* poll() returns; entries without an event are passed over.               *)
Poll == /\ idx = 0 /\ d.leave = "no"
        /\ LET pfd == [i \in DOMAIN d.pfd |->
                        [d.pfd[i] EXCEPT !.ev = Revents(d.fds[d.pfd[i].fd])]]
           IN /\ FirstReady(pfd, 1) # 0
              /\ d' = [d EXCEPT !.pfd = pfd]
              /\ idx' = FirstReady(pfd, 1)
        /\ UNCHANGED <<conf, mf, events>>

(* One turn of the loop over the table: the next entry is whatever stands  *)
(* at the next position now.  A callback that fails ends the loop, and the *)
(* daemon, at once; after exit_trigger the loop over the table goes on.    *)
Turn(s) == /\ d' = s
           /\ idx' = IF s.leave = "failed" THEN 0 ELSE FirstReady(s.pfd, idx + 1)
           /\ UNCHANGED <<conf, mf, events>>

Entry == d.pfd[idx]
Found == FindConnection(d, Entry.fd)
EntryType == d.conns[Found].type

(* An entry whose connection is gone (PollTableOk: there is none) or whose *)
(* connection is broken.                                                   *)
Rejected == Found = 0 \/ Entry.ev = "rejected"
CleanUp ==
  CASE Found = 0 -> {DisableFd(d, Entry.fd)}
    [] Found # 0 /\ EntryType = "tcp" -> CloseSocket(d, Entry.fd)
    [] OTHER -> {Unregister(d, Entry.fd)}
HandleRejected == /\ idx # 0
                  /\ Rejected
                  /\ \E s \in CleanUp : Turn(s)
HandleInput == /\ idx # 0
               /\ ~Rejected
               /\ \E s \in Callback(d, Entry.fd, EntryType) : Turn(s)

World == Dial \/ Ask \/ HangUp \/ Unplug \/ Signal
Loop == Poll \/ HandleRejected \/ HandleInput
Next == World \/ Loop

(* The thread runs: WF_vars(Loop), written out.  LoopReady is ENABLED      *)
(* <<Loop>>_vars, and the steps of the loop are those that are no event.   *)
LoopReady == \/ idx # 0
             \/ /\ d.leave = "no"
                /\ \E i \in DOMAIN d.pfd : Revents(d.fds[d.pfd[i].fd]) # "none"
Fairness == []<>(~LoopReady) \/ []<><<events' = events>>_vars
Spec == Init /\ [][Next]_vars /\ Fairness

-----------------------------------------------------------------------------
(* Properties                                                              *)

Connected(types) == {i \in DOMAIN d.conns : d.conns[i].type \in types}
FdsOf(S) == {d.conns[i].fd : i \in S}
ActiveConnections == {i \in DOMAIN d.conns : d.conns[i].active}
WatchedFds == {d.pfd[i].fd : i \in DOMAIN d.pfd}

(* Through every callback that adds, closes, switches off and on while the *)
(* loop walks over the table: poll() watches exactly the active            *)
(* connections, each once, every connection has an open descriptor of its  *)
(* own and kind, and client_connections counts the clients there are       *)
(* (enable_fd, disable_fd, check_activate, register, unregister).  A loop  *)
(* that goes on after exit_trigger may meet a listening socket that was    *)
(* closed when opening all of them had failed.                             *)
PollTableOk ==
  d.leave = "no" =>
    /\ WatchedFds = FdsOf(ActiveConnections)
    /\ Len(d.pfd) = Cardinality(ActiveConnections)
    /\ \A i \in DOMAIN d.conns :
         \/ d.conns[i].fd = None /\ d.conns[i].type = "client_connect"
         \/ d.conns[i].fd \in Fd /\ d.fds[d.conns[i].fd].k = d.conns[i].type
    /\ Cardinality(FdsOf(DOMAIN d.conns) \ {None})
         = Cardinality({i \in DOMAIN d.conns : d.conns[i].fd # None})
    /\ d.clients = Cardinality(Connected(Counted))

(* With one address, clients can connect exactly while the filter of the   *)
(* current level allows it, however the level came to be                   *)
(* (mct_daemon_local_connection_init, mct_daemon_filter_change_filter_     *)
(* level); a daemon that finds no descriptor for the socket is leaving.    *)
LevelIsEnforced ==
  d.leave = "no" /\ conf.addresses = 1 =>
    /\ AddressInUse(d, 1) <=> Allowed(d, "client_connect")
    /\ Allowed(d, "client_connect") <=>
         \E f \in WatchedFds : d.fds[f].k = "client_connect"

(* Whatever the order of the sections, the filters divide the levels among *)
(* them (mct_daemon_insert_filter), and an injection passes only when one  *)
(* of the entries that the current filter names lists it (mct_daemon_      *)
(* filter_is_injection_allowed).  A filter also names the entries whose    *)
(* name is the beginning of one it gives.                                  *)
LevelsDivided ==
  LET c == mf.configs
  IN /\ c[1].min = 0 /\ Last(c).max = LevelMax
     /\ \A i \in DOMAIN c : c[i].min <= c[i].max
     /\ \A i \in 1..(Len(c) - 1) : c[i + 1].min = c[i].max + 1
ListedUnder(name, m) ==
  \E i \in DOMAIN mf.injections :
     LET inj == mf.injections[i]
     IN /\ IsPrefix(inj.name, name) /\ m.id \in inj.ids
        /\ IsPrefix(inj.apid, m.apid)
        /\ IsPrefix(inj.ctid, m.ctid)
        /\ IsPrefix(inj.ecuid, m.ecuid)
FilterIsSound ==
  Running =>
    /\ LevelsDivided
    /\ \A m \in conf.injections :
         LET names == Current(d).injections
         IN IsInjectionAllowed(Current(d), mf.injections, m) =>
              names = Star \/ \E i \in DOMAIN names : ListedUnder(names[i], m)

(* A request, a dial or a hang-up on a descriptor that poll() watches is   *)
(* dealt with, although the loop passes over the entry after one that is   *)
(* removed (mct_daemon_handle_event, mct_event_handler_disable_fd).        *)
Pending(f) == Running /\ f \in WatchedFds /\ Revents(d.fds[f]) # "none"
EventsServed == \A f \in Fd : Pending(f) ~> ~Pending(f)
=============================================================================
