----------------------------- MODULE Registry ------------------------------
(***************************************************************************)
(* Who is registered, at which level: the daemon's tables of applications  *)
(* and contexts, the context table of every application's user library,    *)
(* and the messages between them (FIFO build, one ECU).                    *)
(*                                                                         *)
(* A step is one message that the daemon or an application handles, one    *)
(* call of an application into its library, or one request of a control    *)
(* client: daemon and library handle each of them without interruption.    *)
(* The tables are sorted arrays in the code; here they are functions, and  *)
(* an index is a position in the order of their keys.  Identifiers are     *)
(* numbers, compared as numbers.  The daemon is the record d, and its      *)
(* functions map one such record to the next, as they call each other in   *)
(* the code.                                                               *)
(*                                                                         *)
(* Left out: descriptions, the ECU of a passive node, allocation failures, *)
(* the replies to control clients and log state messages that succeed.     *)
(***************************************************************************)
EXTENDS Integers, Sequences, FiniteSets, SequencesExt, FiniteSetsExt

CONSTANTS Proc,         \* process identifiers
          AppOf,        \* the application identifier of each process
          Ctid,         \* context identifiers: numbers
          Fd,           \* file descriptors: numbers from MCT_FD_MINIMUM on
          Dev,          \* log storage devices
          Filter,       \* the filters of each device: see Match
          BlockingDev,  \* devices whose configuration asks for blocking mode
          Force,        \* ForceContextLogLevelAndTraceStatus
          AppRoom,      \* messages an application's FIFO has room for
          DaemonRoom,   \* messages the daemon's FIFO has room for
          MaxSlots,     \* bound: contexts one process registers
          Budget        \* bounds: how many processes start, and how many calls
                        \* into the library, requests of control clients, events
                        \* of devices and clients, and crashes come together

Default == -1                        \* MCT_LOG_DEFAULT, MCT_TRACE_STATUS_DEFAULT
NotSet == -2                         \* MCT_USER_LOG_LEVEL_NOT_SET
Wild == 0                             \* an empty identifier in a pattern
Free == 0                            \* a file descriptor that is not open
Socket == -1                         \* ... and one open on a client's socket
Attr == {"ll", "ts"}                 \* log level, trace status
Initial == [ll |-> 0, ts |-> 0]      \* ContextLogLevel, ContextTraceStatus
Level == 0 .. 1
Asked == {1}                         \* the levels that requests set
Unset == [x \in Attr |-> NotSet]
Full == [x \in Attr |-> 1]
Apid == {AppOf[p] : p \in Proc}
Key == Apid \X Ctid
Kind == {"start", "call", "request", "device", "crash"}

ASSUME RegistryAssumption ==
  /\ {Free, Socket} \cap Proc = {} /\ AppOf \in [Proc -> Nat \ {0}]
  /\ Ctid \subseteq Nat \ {0} /\ Fd \subseteq Nat /\ \A f \in Fd : f >= 3
  /\ BlockingDev \subseteq Dev
  /\ Force \in BOOLEAN
  /\ {AppRoom, DaemonRoom} \subseteq Nat \ {0}
  /\ MaxSlots \in Nat /\ Budget \subseteq [Kind -> Nat]

VARIABLES
  d,        \* the daemon: see Init
  toD,      \* the daemon's FIFO
  proc,     \* the user library in each process
  gone,     \* processes that ended
  used      \* how many events of each kind have happened
vars == <<d, toD, proc, gone, used>>

-----------------------------------------------------------------------------
(* A process before it starts, and an empty daemon.                        *)

Library == [registered |-> FALSE, att |-> "none", slots |-> <<>>, buf |-> <<>>]

Empty ==
  [up |-> TRUE, apps |-> <<>>, ctxs |-> <<>>, fds |-> [f \in Fd |-> Free],
   default |-> Initial, blockMode |-> FALSE, loaded |-> FALSE,
   saved |-> [apps |-> {}, ctxs |-> <<>>], devices |-> {}, internal |-> 0,
   live |-> {}, q |-> [p \in Proc |-> <<>>],
   excused |-> {}, wrong |-> FALSE, torn |-> FALSE]
   \* the last three are auxiliary: see LevelsAgree, HandleOwned, SliceIsOwn;
   \* so are a slot's "overtook" (AllKnown) and a message's "waited"

Init ==
  /\ d \in {[Empty EXCEPT !.up = u] : u \in BOOLEAN}
  /\ toD = <<>> /\ gone = {}
  /\ proc = [p \in Proc |-> Library]
  /\ used = [k \in Kind |-> 0]

-----------------------------------------------------------------------------
(* Tables: the order of their keys, and what a pattern matches.            *)

Before(k, l) == k[1] < l[1] \/ (k[1] = l[1] /\ k[2] < l[2])
Keys(D) == SetToSortSeq(DOMAIN D.ctxs, Before)
Apps(D) == SetToSortSeq(DOMAIN D.apps, <)
Match(pat, k) == pat.a \in {Wild, k[1]} /\ pat.c \in {Wild, k[2]}

With(f, x, v) == [y \in DOMAIN f \cup {x} |-> IF y = x THEN v ELSE f[y]]
Without(f, S) == [y \in DOMAIN f \ S |-> f[y]]
Higher(a, b) == IF a > b THEN a ELSE b
Lower(a, b) == IF a < b THEN a ELSE b
EachKey(D, op(_, _)) == FoldLeft(op, D, Keys(D))

(* mct_daemon_application_reset_user_handle                                *)
\* Mutant: the contexts of the application keep the closed handle.
ResetHandleOnly(D, a) ==
  IF D.apps[a].handle = -1 THEN D
  ELSE [D EXCEPT !.fds[D.apps[a].handle] = Free, !.apps[a].handle = -1]
ResetHandle(D, a) ==
  LET h == D.apps[a].handle
  IN IF h = -1 THEN D
     ELSE [D EXCEPT !.ctxs = [k \in DOMAIN @ |->
                        IF @[k].handle = h THEN [@[k] EXCEPT !.handle = -1]
                        ELSE @[k]],
                    !.fds[h] = Free, !.apps[a].handle = -1]

-----------------------------------------------------------------------------
(* Writing to an application.  A message for a file descriptor that was    *)
(* closed goes to whoever has it now.                                      *)

Result(D, h) ==
  CASE h < 3 -> "ERROR"
    [] h >= 3 /\ D.fds[h] = Free -> "ERROR"
    [] h >= 3 /\ D.fds[h] = Socket -> "OK"
    [] h >= 3 /\ D.fds[h] \in Proc ->
         IF D.fds[h] \notin D.live THEN "EPIPE"
         ELSE IF Len(D.q[D.fds[h]]) >= AppRoom THEN "FULL" ELSE "OK"

Put(D, h, m) ==
  IF D.fds[h] = Socket THEN [D EXCEPT !.wrong = TRUE]
  ELSE [D EXCEPT !.q[D.fds[h]] = Append(@, m)]

Effective(D, k) ==
  LET c == D.ctxs[k]
      own(x) == IF c.lv[x] = Default THEN D.default[x] ELSE c.lv[x]
  IN [ts |-> own("ts"),
      ll |-> IF c.storage # Default THEN Higher(c.lv.ll, c.storage)
             ELSE own("ll")]

Excuse(D, k) == [D EXCEPT !.excused = @ \cup {k}]

(* mct_daemon_user_send_log_level                                          *)
SendLogLevel(D, k) ==
  LET c == D.ctxs[k]
  IN CASE Result(D, c.handle) = "OK" ->
            [Put(D, c.handle, [op |-> "level", pos |-> c.pos, ctid |-> k[2],
                               lv |-> Effective(D, k)])
              EXCEPT !.excused = @ \ {k}]
       [] Result(D, c.handle) = "EPIPE" /\ k[1] \in DOMAIN D.apps ->
            ResetHandle(Excuse(D, k), k[1])
       [] OTHER -> Excuse(D, k)

Reachable(D, k) == D.ctxs[k].handle >= 3
Sends(D, k) == Reachable(D, k) /\ Result(D, D.ctxs[k].handle) = "OK"

(* mct_daemon_user_send_log_state, for one application and for all         *)
SendLogState(D, a) ==
  IF Result(D, D.apps[a].handle) = "EPIPE" THEN ResetHandle(D, a) ELSE D
SendAllLogState(D) == FoldLeft(SendLogState, D, Apps(D))

-----------------------------------------------------------------------------
(* Block mode.  err says whether errno is EPIPE: a write that fails        *)
(* without a system call leaves it as it was.                              *)

ApplicationDel(D, a) ==
  LET R == ResetHandle(D, a) IN [R EXCEPT !.apps = Without(@, {a})]

SendBlockmode(S, a, mode) ==
  LET h == S.D.apps[a].handle
      r == Result(S.D, h)
      pipe == r = "EPIPE" \/ (S.err /\ h < 3)
  IN CASE S.D.apps[a].block = mode -> S
       [] S.D.apps[a].block # mode /\ r = "OK" ->
            [S EXCEPT !.D = [Put(S.D, h, [op |-> "block", mode |-> mode])
                               EXCEPT !.apps[a].block = mode]]
       [] S.D.apps[a].block # mode /\ r # "OK" ->
            [D |-> IF pipe THEN [ApplicationDel(S.D, a) EXCEPT !.torn = TRUE]
                   ELSE S.D,
             err |-> pipe \/ (S.err /\ r # "FULL")]

UpdateBlockmode(D, mode, err) ==
  LET ith(S, i) == IF i > Cardinality(DOMAIN S.D.apps) THEN S
                   ELSE SendBlockmode(S, Apps(S.D)[i], mode)
      n == Cardinality(DOMAIN D.apps)
  IN [FoldLeft(ith, [D |-> D, err |-> err], [i \in 1 .. n |-> i]).D
        EXCEPT !.blockMode = mode]

-----------------------------------------------------------------------------
(* The tables.                                                             *)

Cut(T, h) == [x \in DOMAIN T |-> IF T[x].handle = h
                                 THEN [T[x] EXCEPT !.handle = -1] ELSE T[x]]
CutContexts(D, h) == [D EXCEPT !.ctxs = Cut(@, h)]
InvalidateFd(D, h) == [CutContexts(D, h) EXCEPT !.apps = Cut(@, h)]

\* The lowest free descriptor for the FIFO of process p; none when nobody
\* reads that FIFO.
Open(D, p) ==
  LET free == {f \in Fd : D.fds[f] = Free}
  IN IF p \in D.live /\ free # {} THEN Min(free) ELSE -1

\* Mutant: a new process of an application does not end the old one's handle.
OldHandleKept(D, a, pid) == D.apps[a].pid = 0 /\ pid # 0
IsOther(D, a, pid) == D.apps[a].pid # pid

ApplicationAdd(D, a, pid) ==   \* mct_daemon_application_add
  LET new == [pid |-> 0, handle |-> -1, num |-> 0, block |-> FALSE]
      D1 == IF a \in DOMAIN D.apps THEN D
            ELSE [D EXCEPT !.apps = With(@, a, new)]
      D2 == IF IsOther(D1, a, pid)
            THEN [ResetHandle(D1, a) EXCEPT !.apps[a].pid = 0] ELSE D1
      h == Open(D2, pid)
  IN IF D2.apps[a].handle # -1 \/ pid = 0 THEN D2
     ELSE LET D3 == [InvalidateFd(D2, h) EXCEPT !.apps[a].handle = h,
                                                 !.apps[a].pid = pid]
          IN IF h = -1 THEN D3 ELSE [D3 EXCEPT !.fds[h] = pid]

Forced(D, x, v) == IF Force THEN Lower(v, D.default[x]) ELSE v

\* Mutant: a context that registers again is counted again.
CountedAgain(D, k) == 1
CountedAs(D, k) == IF k \in DOMAIN D.ctxs THEN 0 ELSE 1

ContextAdd(D, k, lv, pos, handle) ==   \* mct_daemon_context_add
  LET known == k \in DOMAIN D.ctxs
      kept == known /\ D.loaded
      c == [lv |-> IF kept THEN D.ctxs[k].lv
                   ELSE [x \in Attr |-> Forced(D, x, lv[x])],
            pos |-> pos, handle |-> handle, predef |-> (handle = 0),
            storage |-> IF known THEN D.ctxs[k].storage ELSE 0]
  IN [D EXCEPT !.ctxs = With(@, k, c), !.apps[k[1]].num = @ + CountedAs(D, k)]

ContextDel(D, k) ==   \* mct_daemon_context_del
  LET D1 == [D EXCEPT !.ctxs = Without(@, {k}), !.excused = @ \ {k}]
  IN IF k[1] \in DOMAIN D.apps THEN [D1 EXCEPT !.apps[k[1]].num = @ - 1] ELSE D1

\* The contexts of an application are found by position: after as many as
\* the applications before it have.
\* Mutant: an application's own contexts are skipped as well.
OffsetBehind(D, a) == MapThenSumSet(LAMBDA b : D.apps[b].num,
                                    {b \in DOMAIN D.apps : b <= a})
Offset(D, a) == MapThenSumSet(LAMBDA b : D.apps[b].num,
                              {b \in DOMAIN D.apps : b < a})
Slice(D, a) ==
  LET o == Offset(D, a)
      n == Min({o + D.apps[a].num, Cardinality(DOMAIN D.ctxs)})
  IN SubSeq(Keys(D), o + 1, n)

-----------------------------------------------------------------------------
(* What the daemon does with the messages of applications.                 *)

RegisterApplication(D, m) ==
  LET D1 == ApplicationAdd(D, m.a, m.p)
      err == Result(D1, D1.apps[m.a].handle) = "EPIPE"
      D2 == SendLogState(D1, m.a)
  IN SendBlockmode([D |-> D2, err |-> err], m.a, D2.blockMode).D

\* mct_daemon_logstorage_get_loglevel
Filters(D) == UNION {Range(Filter[v]) : v \in D.devices}
StorageLevel(D, k) ==
  Max({Default} \cup {f.ll : f \in {g \in Filters(D) : Match(g, k)}})

Wanted(v) == IF v = NotSet THEN Default ELSE v
Answered(lv) == \E x \in Attr : lv[x] = Default

RegisterContext(D, m) ==
  LET k == <<m.a, m.c>>
      lv == [x \in Attr |-> Wanted(m.lv[x])]
      D1 == [ContextAdd(D, k, lv, m.pos, D.apps[m.a].handle)
               EXCEPT !.ctxs[k].storage = StorageLevel(D, k)]
      told == Reachable(D1, k) /\ Answered(lv)
  IN CASE m.a \notin DOMAIN D.apps -> D
       [] m.a \in DOMAIN D.apps /\ told -> SendLogLevel(D1, k)
       [] m.a \in DOMAIN D.apps /\ ~told ->
            IF ~m.waited /\ Effective(D1, k) = lv
            THEN [D1 EXCEPT !.excused = @ \ {k}] ELSE Excuse(D1, k)

UnregisterApplication(D, m) ==
  IF m.a \notin DOMAIN D.apps THEN D
  ELSE ApplicationDel(FoldLeft(ContextDel, D, Reverse(Slice(D, m.a))), m.a)

UnregisterContext(D, m) ==
  LET k == <<m.a, m.c>>
  IN IF k \in DOMAIN D.ctxs /\ ~D.ctxs[k].predef THEN ContextDel(D, k) ELSE D

PutBack(D, E, k) == [E EXCEPT !.ctxs[k].lv = D.ctxs[k].lv]

SetAppLevels(D, m) ==   \* mct_daemon_process_user_message_set_app_ll_ts
  LET one(E, k) ==
        LET E1 == [E EXCEPT !.ctxs[k].lv = m.lv]
        IN CASE ~Reachable(E, k) -> E1
             [] Reachable(E, k) /\ Sends(E1, k) -> SendLogLevel(E1, k)
             [] Reachable(E, k) /\ ~Sends(E1, k) ->
                  PutBack(E, SendLogLevel(E1, k), k)
  IN IF m.a \in DOMAIN D.apps THEN FoldLeft(one, D, Slice(D, m.a)) ELSE D

Handled(D, m) ==
  CASE m.op = "app" -> RegisterApplication(D, m)
    [] m.op = "ctx" -> RegisterContext(D, m)
    [] m.op = "unapp" -> UnregisterApplication(D, m)
    [] m.op = "unctx" -> UnregisterContext(D, m)
    [] m.op = "limit" -> SetAppLevels(D, m)

HandleMessage ==
  /\ d.up /\ toD # <<>>
  /\ d' = Handled(d, Head(toD)) /\ toD' = Tail(toD)
  /\ UNCHANGED <<proc, gone, used>>

-----------------------------------------------------------------------------
(* Requests of control clients.  A pattern names one context, all contexts *)
(* of an application, or all contexts with a context identifier.           *)

Pattern == {[a |-> a, c |-> c] : a \in Apid \cup {Wild}, c \in Ctid \cup {Wild}}
             \ {[a |-> Wild, c |-> Wild]}

\* getStatus: the default level is compared as an unsigned number.
Allowed(x, v) == IF Force /\ (v = Default \/ v > Initial[x]) THEN Initial[x] ELSE v

\* mct_daemon_send_log_level, mct_daemon_send_trace_status
SetOne(D, k, x, v) ==
  LET D1 == [D EXCEPT !.ctxs[k].lv[x] = v]
  IN CASE ~Reachable(D, k) -> D
       [] Reachable(D, k) /\ Sends(D1, k) -> SendLogLevel(D1, k)
       [] Reachable(D, k) /\ ~Sends(D1, k) -> PutBack(D, SendLogLevel(D1, k), k)

SetLevel(D, x, pat, v) ==
  LET one(E, k) == IF Match(pat, k) THEN SetOne(E, k, x, Allowed(x, v)) ELSE E
  IN EachKey(D, one)

\* Mutant: only a default log level counts as default.
DefaultLevelOnly(c) == c.lv.ll = Default
HasDefault(c) == \E x \in Attr : c.lv[x] = Default

SendDefaultUpdate(D) ==
  LET one(E, k) == IF HasDefault(E.ctxs[k]) /\ Reachable(E, k)
                   THEN SendLogLevel(E, k) ELSE E
  IN EachKey(D, one)

SetDefault(D, x, v) ==
  SendDefaultUpdate([D EXCEPT !.default[x] = Allowed(x, v)])

SetLogLevel(D, pat, v) == SetLevel(D, "ll", pat, v)
SetTraceStatus(D, pat, v) == SetLevel(D, "ts", pat, v)
SetDefaultLogLevel(D, v) == SetDefault(D, "ll", v)
SetDefaultTraceStatus(D, v) == SetDefault(D, "ts", v)

SetAll(D, x, v) ==
  LET one(E, k) ==
        IF Reachable(E, k)
        THEN SendLogLevel([E EXCEPT !.ctxs[k].lv[x] = Allowed(x, v)], k) ELSE E
  IN EachKey(D, one)
SetAllLogLevel(D, v) == SetAll(D, "ll", v)
SetAllTraceStatus(D, v) == SetAll(D, "ts", v)

\* No file is written for an empty table.
SaveApps(D) ==
  [D EXCEPT !.saved.apps = IF DOMAIN D.apps = {} THEN @ ELSE DOMAIN D.apps]
SaveContexts(D) ==
  [D EXCEPT !.saved.ctxs = IF DOMAIN D.ctxs = {} THEN @
                           ELSE [k \in DOMAIN D.ctxs |-> D.ctxs[k].lv]]
Store(D) == SaveContexts(SaveApps(D))

ResetToFactoryDefault(D) ==
  SendDefaultUpdate([D EXCEPT !.saved = Empty.saved, !.default = Initial])

Inject(D, k) ==   \* mct_daemon_control_callsw_cinjection
  LET c == D.ctxs[k]
  IN CASE Result(D, c.handle) = "OK" ->
            Put(D, c.handle, [op |-> "inject", pos |-> c.pos, ctid |-> k[2]])
       [] Result(D, c.handle) = "EPIPE" ->
            [D EXCEPT !.fds[c.handle] = Free, !.ctxs[k].handle = -1, !.torn = TRUE]
       [] OTHER -> D

Event(kind) ==
  /\ used' = [used EXCEPT ![kind] = @ + 1]
  /\ \E b \in Budget : \A k \in Kind : used'[k] <= b[k]

Request ==
  /\ d.up /\ Event("request")
  /\ \/ \E pat \in Pattern, v \in Asked :
          d' \in {SetLogLevel(d, pat, v), SetTraceStatus(d, pat, v)}
     \/ \E v \in Asked :
          d' \in {SetDefaultLogLevel(d, v), SetDefaultTraceStatus(d, v)}
     \/ \E v \in Asked \cup {Default} :
          d' \in {SetAllLogLevel(d, v), SetAllTraceStatus(d, v)}
     \/ \E k \in DOMAIN d.ctxs : d' = Inject(d, k)
     \/ d' = Store(d)
     \/ d' = ResetToFactoryDefault(d)
  /\ UNCHANGED <<toD, proc, gone>>

-----------------------------------------------------------------------------
(* Log storage devices, and clients of the daemon's sockets.               *)

\* mct_daemon_logstorage_send_log_level, for every context that f matches
Raise(D, f) ==
  LET one(E, k) ==
        LET old == E.ctxs[k].storage
            E1 == [E EXCEPT !.ctxs[k].storage = Higher(f.ll, old)]
        IN CASE ~Match(f, k) -> E
             [] Match(f, k) /\ f.ll > old -> SendLogLevel(E1, k)
             [] Match(f, k) /\ f.ll <= old -> E1
  IN EachKey(D, one)
UpdateLevels(D, dev) == FoldLeft(Raise, D, Filter[dev])

\* mct_daemon_logstorage_reset_log_level with RESET_LOGLEVEL: the
\* application is not told.
Drop(D, f) ==
  LET one(E, k) ==
        LET E1 == [E EXCEPT !.ctxs[k].storage = Default]
        IN IF ~Match(f, k) THEN E
           ELSE IF Effective(E1, k) = Effective(E, k) THEN E1 ELSE Excuse(E1, k)
  IN EachKey(D, one)

Others(D, dev) == SetToSeq(D.devices \ {dev})

ResetLevels(D, dev) ==   \* mct_daemon_logstorage_reset_application_loglevel
  IF dev \notin D.devices THEN D
  ELSE FoldLeft(UpdateLevels, FoldLeft(Drop, D, Filter[dev]), Others(D, dev))

Sockets(D) == {f \in Fd : D.fds[f] = Socket}

Connect(dev) ==   \* errno may be EPIPE since an earlier write
  /\ dev \notin d.devices
  /\ \E err \in BOOLEAN :
       LET D1 == IF dev \in BlockingDev THEN UpdateBlockmode(d, TRUE, err) ELSE d
       IN d' = UpdateLevels([D1 EXCEPT !.devices = @ \cup {dev},
                                        !.internal = @ + 1], dev)

\* Also a device that is not connected: the counter goes down all the same.
Disconnect(dev) ==
  LET D1 == [ResetLevels(d, dev) EXCEPT !.devices = @ \ {dev}, !.internal = @ - 1]
  IN \E err \in BOOLEAN :
       d' = IF Sockets(D1) = {} /\ D1.internal = 0
            THEN UpdateBlockmode(D1, FALSE, err) ELSE D1

\* mct_daemon_logstorage_write gives up a device whose writes fail.
WriteFails(dev) == dev \in d.devices /\ d' = [d EXCEPT !.devices = @ \ {dev}]

Device ==
  /\ d.up /\ Event("device")
  /\ \E dev \in Dev : Connect(dev) \/ Disconnect(dev) \/ WriteFails(dev)
  /\ UNCHANGED <<toD, proc, gone>>

\* A client of a socket takes the lowest free descriptor.  The first one is
\* announced to the applications, and so is the end of the last one.
ClientConnects ==   \* mct_daemon_process_client_connect
  LET free == {f \in Fd : d.fds[f] = Free}
  IN /\ d.up /\ free # {} /\ Event("device")
     /\ LET D1 == [InvalidateFd(d, Min(free)) EXCEPT !.fds[Min(free)] = Socket]
        IN d' = IF Sockets(d) = {} THEN SendAllLogState(D1) ELSE D1
     /\ UNCHANGED <<toD, proc, gone>>

ClientLeaves ==   \* mct_daemon_close_socket
  /\ d.up
  /\ \E f \in Sockets(d), err \in BOOLEAN :
       LET D1 == [d EXCEPT !.fds[f] = Free]
           D2 == SendAllLogState(D1)
       IN d' = CASE Sockets(D1) # {} -> D1
                 [] Sockets(D1) = {} /\ D1.internal # 0 -> D2
                 [] Sockets(D1) = {} /\ D1.internal = 0 ->
                      UpdateBlockmode(D2, FALSE, err)
  /\ UNCHANGED <<toD, proc, gone, used>>

-----------------------------------------------------------------------------
(* The daemon stops, losing what its FIFO held, and starts again with the  *)
(* tables that were stored.                                                *)

LoadApps(D) == FoldLeft(LAMBDA E, a : ApplicationAdd(E, a, 0), D,
                        SetToSortSeq(D.saved.apps, <))
LoadContexts(D) ==   \* a context of an application not in the file ends it
  LET s == D.saved
      keys == SetToSortSeq(DOMAIN s.ctxs, Before)
      n == Min({i \in DOMAIN keys : keys[i][1] \notin s.apps} \cup {Len(keys) + 1})
  IN [FoldLeft(LAMBDA E, k : ContextAdd(E, k, s.ctxs[k], 0, 0), D,
               SubSeq(keys, 1, n - 1))
        EXCEPT !.loaded = (s.apps # {} /\ keys # <<>> /\ n > Len(keys))]
Load == LoadContexts(LoadApps([Empty EXCEPT !.live = d.live, !.q = d.q,
                                            !.saved = d.saved]))

DaemonStarts == ~d.up /\ d' = Load /\ UNCHANGED <<toD, proc, gone, used>>

DaemonStops ==
  /\ d.up /\ Event("crash")
  /\ d' = [Empty EXCEPT !.up = FALSE, !.live = d.live, !.q = d.q, !.saved = d.saved]
  /\ toD' = <<>>
  /\ proc' = [p \in Proc |-> IF proc[p].att = "open"
                             THEN [proc[p] EXCEPT !.att = "stale"] ELSE proc[p]]
  /\ UNCHANGED gone

-----------------------------------------------------------------------------
(* The user library in process p.  A message that cannot be written goes   *)
(* to the startup buffer.                                                  *)

Writable(L, fifo) == L.att = "open" /\ Len(fifo) < DaemonRoom

\* A message that is written goes past those in the startup buffer.  For a
\* registration of a context that matters when they hold the application's
\* own, which is not on its way as well, or older messages on the context.
Overtakes(S, m) ==
  /\ Writable(S.L, S.fifo)
  /\ \A i \in DOMAIN S.L.buf : S.L.buf[i].op = "ctx" => S.L.buf[i].pos # m.pos
  /\ \E i \in DOMAIN S.L.buf :
       \/ S.L.buf[i].op = "app" /\ S.L.buf[i] \notin Range(S.fifo)
       \/ S.L.buf[i].op \in {"ctx", "unctx"} /\ S.L.buf[i].c = m.c

Write(S, m) ==   \* S: a library L and the daemon's FIFO
  IF Writable(S.L, S.fifo) THEN [S EXCEPT !.fifo = Append(@, m)]
  ELSE [S EXCEPT !.L.buf = Append(@, m)]
Send(S, m) ==
  IF m.op # "ctx" THEN Write(S, m)
  ELSE [Write(S, m) EXCEPT !.L.slots[m.pos].overtook = Overtakes(S, m)]

Calls(p, L, ms) ==   \* what the library is left with, and what it sends
  LET S == FoldLeft(Send, [L |-> L, fifo |-> toD], ms)
  IN /\ proc' = [proc EXCEPT ![p] = S.L] /\ toD' = S.fifo
     /\ UNCHANGED <<gone>>

AppMsg(p) == [op |-> "app", p |-> p, a |-> AppOf[p]]
CtxMsg(p, s, i, lv) ==
  [op |-> "ctx", p |-> p, a |-> AppOf[p], c |-> s[i].c, pos |-> i, lv |-> lv,
   waited |-> FALSE]
Live(L) == {i \in DOMAIN L.slots : L.slots[i].live}

\* A process starts and registers its application.  No two processes of
\* one application live at the same time.
Register(p) ==
  /\ p \notin d.live \cup gone
  /\ \A q \in d.live : AppOf[q] # AppOf[p]
  /\ d' = [d EXCEPT !.live = @ \cup {p}]
  /\ Calls(p, [Library EXCEPT !.registered = TRUE,
                              !.att = IF d.up THEN "open" ELSE "none"],
           <<AppMsg(p)>>)
  /\ Event("start")

\* mct_register_context_ll_ts.  A context is not registered twice.
RegisterCtx(p) ==
  LET L == proc[p]
  IN /\ p \in d.live /\ L.registered /\ Len(L.slots) < MaxSlots
     /\ \E c \in Ctid \ {L.slots[i].c : i \in Live(L)}, lv \in {Unset, Full} :
          LET slot == [c |-> c, live |-> TRUE, overtook |-> FALSE,
                       val |-> [ll |-> Higher(lv.ll, Initial.ll), ts |-> lv.ts]]
              L1 == [L EXCEPT !.slots = Append(@, slot)]
          IN Calls(p, L1, <<CtxMsg(p, L1.slots, Len(L1.slots), lv)>>)
     /\ Event("call") /\ UNCHANGED d

UnregisterCtx(p) ==   \* mct_unregister_context
  LET L == proc[p]
  IN /\ p \in d.live /\ L.registered
     /\ \E i \in Live(L) :
          Calls(p, [L EXCEPT !.slots[i] = [@ EXCEPT !.live = FALSE, !.val = Initial,
                                                 !.overtook = FALSE]],
                <<[op |-> "unctx", p |-> p, a |-> AppOf[p], c |-> L.slots[i].c]>>)
     /\ Event("call") /\ UNCHANGED d

SetLimit(p) ==   \* mct_set_application_ll_ts_limit
  LET L == proc[p]
  IN /\ p \in d.live /\ L.registered /\ L.slots # <<>>
     /\ Event("call")
     /\ Calls(p, [L EXCEPT !.slots = [i \in DOMAIN @ |-> [@[i] EXCEPT !.val = Full]]],
              <<[op |-> "limit", p |-> p, a |-> AppOf[p], lv |-> Full]>>)
     /\ UNCHANGED d

UnregisterApp(p) ==   \* mct_unregister_app
  LET L == proc[p]
  IN /\ p \in d.live /\ L.registered
     /\ Calls(p, [L EXCEPT !.registered = FALSE],
              <<[op |-> "unapp", p |-> p, a |-> AppOf[p]]>>)
     /\ Event("call") /\ UNCHANGED d

\* A process ends, after it unregistered or before.
Exit(p) ==
  /\ p \in d.live
  /\ d' = [d EXCEPT !.live = @ \ {p}, !.q[p] = <<>>]
  /\ gone' = gone \cup {p} /\ proc' = [proc EXCEPT ![p] = Library]
  /\ UNCHANGED <<toD, used>>

\* A log message meets the FIFO of a daemon that is gone.
Detach(p) ==
  /\ p \in d.live /\ proc[p].att = "stale"
  /\ proc' = [proc EXCEPT ![p].att = "none"]
  /\ UNCHANGED <<d, toD, gone, used>>

Again(p, L) ==
  LET order == SetToSortSeq(Live(L), <)
  IN [j \in DOMAIN order |-> CtxMsg(p, L.slots, order[j], Unset)]

Reattach(p) ==   \* mct_user_log_reattach_to_daemon
  LET L == proc[p]
  IN /\ p \in d.live /\ d.up /\ L.att = "none"
     /\ Calls(p, [L EXCEPT !.att = "open"],
              IF L.registered THEN <<AppMsg(p)>> \o Again(p, L) ELSE <<>>)
     /\ UNCHANGED <<d, used>>

Flush(p) ==   \* mct_user_log_resend_buffer
  LET L == proc[p]
  IN /\ p \in d.live /\ L.registered /\ L.buf # <<>> /\ Writable(L, toD)
     /\ toD' = Append(toD, LET m == Head(L.buf) IN
                          IF m.op = "ctx" THEN [m EXCEPT !.waited = TRUE] ELSE m)
     /\ proc' = [proc EXCEPT ![p].buf = Tail(@)]
     /\ UNCHANGED <<d, gone, used>>

HandleUser(p) ==   \* mct_user_log_check_user_message
  /\ p \in d.live /\ d.q[p] # <<>> /\ proc[p].att # "none"
  /\ d' = [d EXCEPT !.q[p] = Tail(@)]
  /\ LET m == Head(d.q[p])
     IN proc' = IF m.op = "level" /\ m.pos \in DOMAIN proc[p].slots
                THEN [proc EXCEPT ![p].slots[m.pos].val = m.lv] ELSE proc
  /\ UNCHANGED <<toD, gone, used>>

Next ==
  \/ HandleMessage \/ Request \/ Device \/ ClientConnects \/ ClientLeaves
  \/ DaemonStarts \/ DaemonStops
  \/ \E p \in Proc :
       \/ Register(p) \/ RegisterCtx(p) \/ UnregisterCtx(p) \/ SetLimit(p)
       \/ UnregisterApp(p) \/ Exit(p) \/ Detach(p) \/ Reattach(p) \/ Flush(p)
       \/ HandleUser(p)

Spec == Init /\ [][Next]_vars

-----------------------------------------------------------------------------
(* Properties.                                                             *)

(* The contexts that an application's position and count lead to are its   *)
(* own, all of them: unregistering it, limiting it and telling clients     *)
(* about it (mct_daemon_control_get_log_info) rely on that.  It ends when  *)
(* a block mode or an injection meets a dead reader: the application is    *)
(* then deleted without its contexts, or its handle closed but kept.       *)
Contiguous ==
  \A a \in DOMAIN d.apps :
    LET s == Slice(d, a)
    IN Range(s) = {k \in DOMAIN d.ctxs : k[1] = a} /\ Len(s) = d.apps[a].num
SliceIsOwn == d.torn \/ Contiguous

(* An open handle leads to the process that registered it, whatever closed *)
(* descriptors were used again for, and no message was ever written to a   *)
(* client's socket instead.                                                *)
HandleOwned == d.torn \/
  /\ ~d.wrong
  /\ \A a \in DOMAIN d.apps :
       d.apps[a].handle >= 3 => d.fds[d.apps[a].handle] = d.apps[a].pid
  /\ \A k \in DOMAIN d.ctxs :
       Reachable(d, k) => /\ k[1] \in DOMAIN d.apps
                          /\ d.ctxs[k].handle = d.apps[k[1]].handle

Quiet(p) ==
  /\ p \in d.live /\ d.up /\ proc[p].att = "open" /\ proc[p].registered
  /\ d.q[p] = <<>> /\ proc[p].buf = <<>>
  /\ \A i \in DOMAIN toD : toD[i].p # p

Settled(p) == {i \in Live(proc[p]) : ~proc[p].slots[i].overtook}

(* When nothing is on its way, the daemon knows every context of a running *)
(* application under its position: after any buffering, overtaking and     *)
(* restart of either side.  Only a registration that overtook its          *)
(* application's, or older messages on the same context, in the startup    *)
(* buffer may be dropped or undone, until the application attaches again.  *)
AllKnown == d.torn \/
  \A p \in Proc : Quiet(p) => \A i \in Settled(p) :
    LET k == <<AppOf[p], proc[p].slots[i].c>>
    IN k \in DOMAIN d.ctxs /\ d.ctxs[k].pos = i /\ Reachable(d, k)

(* When nothing is on its way, a context logs at the level and trace       *)
(* status of the daemon's table, unless a write to it failed since, a log  *)
(* storage device went, or the daemon did not answer its registration and  *)
(* took other levels, or asked-for levels that had waited in the startup   *)
(* buffer while the library's changed.                                     *)
LevelsAgree == d.torn \/
  \A p \in Proc : Quiet(p) => \A i \in Settled(p) :
    LET k == <<AppOf[p], proc[p].slots[i].c>>
    IN k \in d.excused \/ proc[p].slots[i].val = Effective(d, k)

(* Unregistering an application removes its contexts and no other's.       *)
UnregisterForgets ==
  [][\A a \in Apid :
       d.up /\ d'.up /\ ~d'.torn /\ a \in DOMAIN d.apps /\ a \notin DOMAIN d'.apps
         => DOMAIN d'.ctxs = {k \in DOMAIN d.ctxs : k[1] # a}]_vars
=============================================================================
