# MCT daemon: a verification project

TLA+ models of the MCT daemon (`src/src/…`, C), the TLC runs that check them on small instances
and the TLAPS proofs of what holds for every size. `PROJECT.json` ties every definition to the
lines it stands for.

## 1. The system

Applications link a **user library** (`lib/mct_user.c`) and write log messages to the
**daemon's** FIFO. The daemon (`daemon/`) is one thread around a `poll` loop. It passes messages
on to TCP clients, buffers them while there is none, writes them to trace and log storage files,
and answers control requests of the clients, some of which it forwards to applications (log
levels, injections, block mode).

| component | state it keeps | operations | hard because | correct when | module |
|---|---|---|---|---|---|
| Ring buffer (`shared/mct_common.c` 2213-2878) | memory, size, read, write, count | push, copy, pull, remove, reset; grows and shrinks | pointers wrap lazily, growing relocates, checks that fail drop everything | a queue of whole messages | `MctBuffer` |
| Client routing (`daemon/mct-daemon.c`, `mct_daemon_client.c`) | state BUFFER / BUFFER_FULL / SEND_BUFFER / SEND_DIRECT, poll table, ring buffer, overflow counter, state told to applications | connect, close, send, drain, overflow report | sending closes sockets and closing sends: recursion over a table that changes underneath | order, every loss counted and reported, state fits the clients | `DaemonRouting` |
| User library (`lib/mct_user.c`, `shared/mct_user_shared.c`) | startup buffer, empty/full flags, handle, overflow counter, block mode | log, register, resend, reattach, flush at exit | threads and housekeeper, two locks, a condition variable, a daemon that restarts | no message lost uncounted or doubled, every call returns | `MctUserLib` |
| Registry (`daemon/mct_daemon_common.c` and the handlers of `mct-daemon.c`, `mct_daemon_client.c` that change it) | sorted tables of applications and contexts, addressed by position; the context table of each application | register, unregister, find, block mode, levels, save and load | counts must match another table, handles are numbers the kernel reuses, both sides keep levels | each context belongs to its application, handles lead to its process, both sides agree | `Registry` |
| Event handler, connections (`mct_daemon_event_handler.c`, `mct_daemon_connection.c`) | poll table, list of connections, descriptors | register, unregister, enable, disable, dispatch | callbacks change the table that is being walked | each event is served, table and connections in step | `EventLoop` |
| Filter (`mct_daemon_filter.c`) | level, configurations, permissions | read, change level, is-allowed queries | levels open and close connections | open connections are the allowed ones | `MessageFilter`, `EventLoop` |
| Receiver (`mct_common.c` 1924-2152) and messages | buffer, backup, byte counts; payloads | receive, remove, move to begin, read; write and print arguments | reads end anywhere in a message, buffers of fixed sizes | bytes arrive once and in order, values are those written | `Receiver`, `Message`, `MessagePath` |
| Log storage (`offlinelogstorage/`, `mct_daemon_offline_logstorage.c`), offline trace | file ring, message cache, numbers | configure, write, rotate, synchronise, connect, disconnect | wrap by number and by count, restarts that guess, cache borders, crashes | the last whole messages, once, in order, within the limits | `ConfigFile`, `LogStorageConfig`, `LogStorage`, `OfflineTrace`, `DaemonFiles` |
| Client library, options, sockets, console tools | little | sequential | – | – | the receiving loop in `MessagePath` |

How they interact: an application's `send_log` pushes to its own ring buffer when the FIFO
refuses the message; the daemon's FIFO handler calls `client_send`, which sends to the sockets
in the event handler's poll table, or pushes to the daemon's ring buffer; a socket that fails is
closed from within the send, which tells the clients (more sends) and the applications (log
state, block mode; a broken application FIFO there deletes the application). The two ring
buffers are the same code. A device of log storage that comes or goes changes the levels of
contexts; a filter level opens and closes the sockets for clients.

The hazards that follow from this are listed at their lines in `PROJECT.json` ("hazards"), each
with the properties that watch it.

## 2. Plan

| order | module | status |
|---|---|---|
| 1 | `BoundedFifo` (abstract), `MctBuffer` refines it, `MctBufferProofs` | done |
| 2 | `DaemonRouting`, on the queue that `MctBuffer` implements, `DaemonRoutingProofs`, `DaemonRoutingLogProofs` with `FoldProofs` | done |
| 3 | `MctUserLib`: threads that log, register and unregister, housekeeper, exit handler, a FIFO that fills and breaks; `MctUserLibProofs` | done |
| 4 | `Registry`: both ends of the tables; theorem: without a deletion on a broken pipe the positions are right | modelled; theorem open |
| 5 | `LogStorage` with its configuration and cache, `OfflineTrace`, composed in `DaemonFiles`; `DaemonFilesProofs` with `ConfigFileProofs` and `FoldProofs` for the trace and the lookup of filters | modelled; theorems on the files of log storage open |
| 6 | `EventLoop` with `MessageFilter`, `EventLoopProofs` with `ConfigFileProofs` and `FoldProofs` | done |
| 7 | `Message`, `Receiver`, composed in `MessagePath` | modelled; reading of log files (`mct_file_*`) open |

Everything to be proved about is written without RECURSIVE operators.

## 3. The modules

### `BoundedFifo`
What callers of the ring buffer rely on: a queue of whole messages. A push appends or fails and
changes nothing, and does not fail on an empty buffer; a read returns the oldest message, and
fails exactly when there is none.

### `MctBuffer`
One variable per field of `MctBuffer`/`MctBufferHead`; the memory is a function from cells to
"i-th cell of message m", so that overwriting, shifting and mixing are visible. One step is one
call, since every caller holds its lock or is the daemon's only thread. `Push` is
`mct_buffer_push3` with its growth loop: `k` is how often the loop grew, and leaving the loop
early stands for a `malloc` that fails (`oom` remembers it). `Get(delete)` is `mct_buffer_get`:
`copy` without and `pull`/`remove` with deletion. Every check and reset of the code is there.
Left out: the head at the start of the allocation (a constant offset), the header pattern bytes
other than as "a header lies here", the caller's `max_size`, and a message broken into its three
parts. `blocks`, `last`, `oom` are auxiliary: they record what was accepted and returned.

### `DaemonRouting`
`state`, `pfd`, `ring`, `overflow_counter`, `overflow_cnt` (the static
`sent_message_overflow_cnt`), `connectionState`: the code's variables. The handlers of the
daemon recurse, and a client may break between any two sends, so a handler is not one step:
`calls` is the call stack, with one frame per function that has still something to do after a
call it made, and each step is the code between two calls. The environment (`AppLog`,
`AppOverflow`, `Connect`, `Break`) and the poll loop (`ClientGone`) start handlers on an empty
stack; only `Break` may happen at any time. The ring buffer is the queue of `BoundedFifo`: a
push may fail whenever it is not empty, because messages differ in size, and must fail at
`Capacity`. Left out: the serial client, optional version and time zone messages, trace and log
storage, filter masks, and the one-second timer (the connection layer has no receiver for it, so
its creation always fails).

### `MctUserLib`
The variables are the library's globals and fields of `mct_user`; `th` holds where each thread
is and its local variables. There may be any number of threads: a budget (`Bounds`) says which
ones use the library and how often each logs and registers. `mct_mutex` needs no variable: a
section under it waits for nothing, so it is one step. `flush_mutex` matters only while the
housekeeper holds it across calls (`locked`). `waiting` is the set of threads in
`pthread_cond_wait`; `Signal` takes one out of it. `handle` is "stale" when it is open on the
FIFO of a daemon that is gone. `SendLog` … `Stored` are `mct_user_log_send_log`, whose two looks
at the application id are steps of their own (`SendNew` before the write, `Sent` after it),
because another thread may register or unregister the application in between; `RegisterRefused`
is what a thread meets when that happens to its own registration. `CheckSize` … `Flag`
`mct_user_log_out_error_handling`, which looks at the size of the buffer and at the mode in two
sections; `Resend` … `ResendDone` `mct_user_log_resend_buffer`,
`Attach` … `ContextsDone` `mct_user_log_reattach_to_daemon`, `Register` … `Forget` the
registration of the application and its end. `SendOverflow`, the error handling and the
resending return to the step that called them (`back`). `Exit` … `Stop` are the exit handler: it
tries to flush until the time is over, reconnects meanwhile, reports the overflow counter when
there was no connection, counts what is left (`lost`), unregisters, and cancels the housekeeper;
no other call starts after it (`MayCall`), and none is under way when it starts: the code does
not see to that, but a thread that is inside a call when another one exits goes on with a startup
buffer that `mct_free` frees and a semaphore that it destroys, and what it stores after the exit
handler counted is in no count. The startup buffer is the queue of `BoundedFifo` with
messages of one size: `at_max` says that it has grown to its maximal size, which is what
`mct_buffer_check_size` asks, and it stays there until it is empty. `written`, `discarded`,
`reported`, `doubled` and `skipped` are auxiliary: the bag of the log messages written, those
refused, the sum of the reports, and the messages that the two looks treated differently. Left
out: contexts (their re-registration excepted), log files, Unix sockets, fork, log levels and
injections; `mct_unregister_app_flush_buffered_logs`; messages longer than what a FIFO writes
atomically (`MessagePath`); spurious wake-ups; the torn increment of the overflow counter. Other
applications share the daemon's FIFO: they make it full sooner, which a small `PipeRoom` covers.

### `Registry`
The daemon is one record `d`: its tables (`apps`, `ctxs`), what each descriptor number is open
on (`fds`), the FIFO of each application (`q`), default levels, saved tables, devices, clients;
every function of the daemon maps one such record to the next, and they call each other as in
the code, so that a handler is one step whatever it calls. `proc[p]` is the user library of
process `p`: its slots with the level each context logs at, whether it is attached, and its
startup buffer. `toD` is the daemon's FIFO. `HandleMessage` is the dispatcher of the daemon's
FIFO with registration, unregistration, log level limits; `Request` the control requests that
change levels, trace status, defaults, injections, store and factory reset; `Device` log storage
devices; `ClientConnects`, `ClientLeaves` the effect of the first and last client;
`DaemonStarts`, `DaemonStops` loading and saving, also after a crash. A position in a sorted
array is the rank of a key. A registration may be taken up when its process has already ended,
and another process under the same identifier may follow. A call of the library writes to the
FIFO when it can, whatever waits in the startup buffer, and so may overtake it. `torn`, `wrong`,
`excused`, `overtook` and `waited` are auxiliary: an application was deleted or cut off on a
broken pipe; a message was written to a client's socket; keys whose level may differ because a
write failed or a registration got no answer; the registration of a slot went past its
application's or past older messages on the same context; a registration lay in the startup
buffer.

### `ConfigFile`, `LogStorageConfig`, `LogStorage`, `OfflineTrace`, `DaemonFiles`
`ConfigFile` is the parser, from lines that are already classified; `LogStorageConfig` turns
sections into filters, enters each under its keys and finds the filters of a message.
`LogStorage` is the writing: `h` is the storage handle with one record per filter (working file,
newest file, cache with offset and `last_sync_offset`, wrap number), `disk[n]` the files of a
name in the order they were begun, each with the parts of messages in it. `Message` is
`mct_logstorage_write` with the choice between direct writing and each synchronisation strategy,
opening, rotating and removing files; `Connect`, `Disconnect`, `SyncCaches`, `Exit`, `Crash`,
`CrashRotating`, `Unplug` and `Plug` are the rest of a device's life. `OfflineTrace` is the
trace as functions on its files, by index or by time. `DaemonFiles` composes both: one message
goes to both, and a restart begins both. `gap`, `mixed`, `due`, `torn`, `kept`, `miscut` are
auxiliary: the ring misses a message in its midst; the numbers of the files may mislead (see
section 4); what a filter accepted and has not written (of a cache that wraps, what is still whole
in it); files left by crashes; a cache that wraps was synchronised and kept a message that it had
not written; a part of it was measured from the middle of a message.

### `MessageFilter`, `EventLoop`
`MessageFilter` is the configuration of the message filter with the names compared by prefix as
in the code, its ranges of levels, masks, injection entries and queries. `EventLoop` is the
daemon's only loop: `d.conns` and `d.pfd` are the list of connections and the poll table,
`d.fds` what the kernel has open. `Poll` fills in the events; `HandleRejected` and `HandleInput`
handle one entry each, with the callback of its type and with what `disable_fd` does to the
entries behind. A send to all clients may close any of them whose peer is gone. `Dial`, `Ask`,
`HangUp`, `Unplug` and `Signal` are the outside. Not what is sent (`DaemonRouting`), but which
sockets open and close.

### `Message`, `Receiver`, `MessagePath`
`Message` is what the functions `mct_user_log_write_*` put into a log message, field by field
with sizes, and `mct_message_payload` that reads it back by taking bytes from the front.
`Receiver` is `MctReceiver` and `mct_message_read` on a stream of segments (bytes `a` to `b` of
message `m`). `MessagePath` composes the way of a message with the sizes the program has:
application, FIFO (whole up to `PIPE_BUF`, else possibly in part), the daemon's search and its
handlers of each kind of message, a connection that cuts the stream anywhere, with serial
headers and noise, and the client's loop. Left out: headers cut in two, payloads that imitate a
header, UNIX sockets with their shared buffer, control replies. A user header of which seven
bytes are there is taken as of unknown type.

### The modules of proofs
`MctBufferProofs`, `DaemonRoutingProofs`, `DaemonRoutingLogProofs`, `MctUserLibProofs`,
`EventLoopProofs`, `DaemonFilesProofs`, `ConfigFileProofs` and `FoldProofs` hold the proofs about
`MctBuffer`, `DaemonRouting`, `MctUserLib`, `EventLoop` with `MessageFilter`, the trace and the
lookup of filters in `DaemonFiles`, and the lemmas on configuration files, induction and folds that
they share, see section 5.

## 4. The runs

| run | bounds | shows |
|---|---|---|
| `buffer_fits` | messages of 3 and 4 cells (header 2), memory 5 → 7 → 9 | every message fits the minimal size: type, `Layout`, `RefusedOnlyWhenFull`, `EmptyIsMinimal`, and refinement of `BoundedFifo` |
| `buffer_recovers` | 2 and 5 cells (header 1), memory 4 → 10 | with a message longer than the minimal size the buffer loses messages, but never mixes two |
| `buffer_long_message` | the same | violated, see Findings |
| `routing` | 2 clients, ring of 5, 2 application messages, 3 connects | order, accounting and reporting of losses, state and termination of the recursing handlers |
| `user_lib` | FIFO of 1, startup buffer of 1 → 2, 1 context; four budgets of one thread: up to 3 messages, 1 crash, 2 block mode messages, 1 registration, exit or none; one of two threads: one logs, the other registers and unregisters | no message is lost uncounted or written twice; every call returns |
| `user_lib_reattach` | 3 messages, 1 crash, 2 block mode messages, 1 registration | violated, see Findings |
| `registry` | 3 processes of 2 applications, 1 context identifier, 2 slots, descriptors 3 to 5, 1 device, FIFOs of 1 and 2, 7 budgets of 3 to 5 events | the tables of both sides |
| `registry_torn` | the same | violated, see Findings |
| `storage` | 14 configurations of a ring of 2 files of size 3, of 1 file of size 5 with a cache that wraps, or of a trace; up to 4 events each | files, caches, trace |
| `loop` | 9 filter files, 8 descriptors, levels 10, 60 and 101, 4 or 5 events | poll table, filter, service of events |
| `path` | 36 configurations with the program's own sizes | messages from the arguments to what is printed |
| `path_split` | two long log messages and registrations, 10024 bytes per read | violated, see Findings |

### Why these bounds are enough

**Ring buffer.** The state space is finite, so the runs are complete for their constants: the
two lengths and sizes are coprime enough to meet every relation of the pointers (wrapped, equal
and full, equal and empty, one at the end and one at 0), to grow by one and by two steps, and to
fill the memory exactly.

**Routing.** `MaxEvents` and `MaxConnects` bound the environment. A push may be refused whenever
the ring is not empty (`MayRefuse`), so that losses, several of them, happen at any `Capacity`;
a ring of 5 lets the two application messages lie between the daemon's own messages about
connections, which go through it as well. Two clients can break one after the other within one
handler, and three connects let a client come back. The theorems hold without the bounds.

**User library.** Three messages fill the startup buffer, one more is refused or blocks, and
(with the messages that register and unregister in the buffer as well) a later one reports the
loss; a FIFO of one message makes every write that follows another one fail until the daemon
reads. A second block mode message is what signals a blocked thread without making room. The
second thread registers and unregisters at any point of the first one's `send_log`. A process
that exits has fewer messages: it can exit with a full or half-full buffer, without a daemon,
while one comes back and while the housekeeper is in the middle of a flush.

**Registry.** The first application is run by two processes in turn, so that its second process
registers before or after the daemon has noticed the end of the first; two applications have
positions that depend on each other; two slots for one identifier make a context register twice;
three descriptor numbers are few enough to be used again by a client or the other application
(a fourth adds no state). FIFOs of one and two messages make both sides' writes fail, and let a
registration be written while its application's still waits in the startup buffer. A budget says
how many processes start, and how many calls of the library, requests of control clients, events
of devices and clients, and crashes of the daemon come in one behaviour: with three processes a
call and an event, with two up to three calls, or one or two and a crash and a request, with one
process also the mixtures of four or five. The two processes of the first application are
interchangeable (`SYMMETRY`; the run has no liveness property).

**Log storage.** Files of 3 with messages of 1, 2 and 4 hold one or several messages, exactly
full or not, and a message longer than a file; the highest number is 3 for two files, so that
the numbers start again within three messages, or 9, when they do not. A cache that is
written when it is full is as large as a file, or 2, and full with the second or third message.
One that is not (`Ring`: under ON_DEMAND, ON_DAEMON_EXIT or ON_DEVICE_DISCONNECT alone) has 5, the
smallest size at which it is full once, or more often, between two synchronisations with a
message of 1 or 2 across its end or exactly at it, and a part written before or not; messages are
not bounded, and a serial number is not used again while it is in a cache (`Serials`).
Shared files have a direct writer and a cache.

**Event loop.** Eight descriptors let accept fail; the nine files have levels in and out of
order, names that are prefixes of each other, a backend, a serial line, two addresses, a default
level out of range and two filters that claim one level.

**Message path.** Each configuration has the sizes at which its case happens: two log messages
that together are longer than a read, descriptions around the maximum of 256, messages longer
than a read and than 65535 bytes, a FIFO of 16384 bytes that takes 4096 of a message, a text at
every place at the end of the buffer, every kind of argument while the mode changes, and
connections cut into single bytes, at a header or not at all, with and without noise.

### What the properties say

*Routing.* `StateMatchesClients` (between two handlers the state fits the poll table and nothing
is left behind in the ring buffer), `ConnectedIsTold`, `InOrder` (no client gets a message after
a younger one or twice; the exception is a message whose own send closed the last socket, see
below), `NoSilentLoss` (each accepted message is sent, stored or counted; the
exception is a message whose send closed a socket: the send loop skips the next client),
`LossIsReported` (a loss was told, waits in the ring to be told or is still counted; a report
whose send closed a socket is excepted), `LossIsTold`, `BoundedRecursion`, `HandlerReturns`. That
a buffered message does not stay behind follows from the first and the last.

*User library.* `InOnePlace` (each log message is written, stored, refused or in its thread's
hands: exactly one of these, whoever resends and whenever the daemon goes; the exceptions are
messages during which another thread registers or unregisters the application: `skipped` ones
are nowhere and `doubled` ones in two places, and a thread that is alone has none),
`LossIsCounted` (with one thread, reports and counter add up to what was refused; with any
number, the exit handler has counted what it leaves), `BlockingKeeps` (with one thread, waiting
for room loses nothing once the application is registered; before, the code does lose messages,
because `mct_user_log_resend_buffer` reports success without an application id), `CallsReturn`
(from any call there comes a time when no thread is in one, which is every call's return since
calls are bounded, and exit ends; unless the housekeeper has locked itself out, see Findings).
Messages that are stored when exit begins are lost at once with the default timeout of 0, and
counted.

*Registry.* `SliceIsOwn` (the position and count of an application lead to its contexts, all and
only), `HandleOwned` (a descriptor number kept in a table is open on the FIFO of the process
that registered it, and no message went to a client's socket), `AllKnown` and `LevelsAgree`
(when nothing is on the way, the daemon knows every context, and both sides have the same level.
`AllKnown` excepts a registration that overtook its application's, which the daemon drops, or
older messages on the same context, which undo it, until the application attaches again.
`LevelsAgree` excepts the same, and `excused` keys: a write failed, a device went, or a
registration got no answer and the daemon took other levels than those asked for, or the levels
asked for had waited in the startup buffer while the library's may have changed),
`UnregisterForgets`. They end with the deletion of an application on a broken pipe (`torn`),
which `registry_torn` shows to break them.

*Log storage and trace.* `RingIsSuffix` (the files hold the last messages without a gap, in
order), `WholeMessages`, `RingIsBounded`, `CacheIsQueue` (accepted is written, or waits in the
cache, once, unless the cache wraps), `RingCacheWritten` (a synchronisation of a cache that wraps
writes every message that is still whole in it and was not written before; excepted, there and in
`WholeMessages`, is a part that starts in the middle of a message and does not fit in the open
file, see below), `KeepsOld` (nothing is removed under DISCARD_NEW), `StoredAsConfigured` (a message
goes once to each filter that names it, whatever keys lead there), `TraceFits`. After the
numbers started again three things mislead the code about which file is the newest (`mixed`): a
crash between the creation of a file and the removal of the oldest, a synchronisation that a
control client asks for, and a file that could not be opened on a device that is gone.
`RingIsSuffix` and `CacheIsQueue` are not claimed for them.

*Event loop and filter.* `PollTableOk` and `LevelIsEnforced` (with one address, clients can
connect exactly while the level allows it), both while the daemon has not been told to leave:
the rest of that round of the loop is excepted, see below. `FilterIsSound` (the filters divide
the levels; an injection that passes is listed under a name which the filter has, or which begins
one that it has). `EventsServed` (what poll reports is dealt with, although the entry behind a
removed one is passed over).

*Message path.* `HandledAsWritten` (each message the daemon handles has its own bytes, all of
them, once and in order), `NothingElseLost` (only split log messages and registrations and what
follows a marker may be lost), `ConnectionDelivers` (each end reads what the other has sent,
however it is cut), `PrintedAsWritten` (what is printed is what the application wrote). The
exceptions are written in the properties; each is a thing the code really does (see below).

### Fairness

`DaemonRouting`: `WF(Step)`: the daemon thread goes on with the handler it is in; no handler
blocks (the sockets are non-blocking or have a send timeout). `WF(ClientGone(c))`: poll is
level-triggered and reports a closed connection until it is handled. Nothing is assumed of
applications and clients.

`MctUserLib`: `WF(Continues(t))` and `WF(Housekeeper)`: threads are scheduled, and the
housekeeper sleeps outside the lock, so that weak fairness is enough to get it;
`WF(DaemonReads)` and `WF(DaemonStarts)` are what the blocking mode presupposes: a daemon that
is started again and reads; `SF(ExitTimeout(t))`: time passes, and the loop of the exit handler
looks at the clock in every round, although it is in other calls in between.

`EventLoop`: weak fairness of the loop, with its enabling condition written out (`LoopReady`).

### Deadlock

It is checked in the runs of the ring buffer and of the routing; the routing model's
`PollTimeout` is the loop's idle round. The others may stop: the bounds of their environment
end, the daemon may exit, a thread of the user library may have nothing left to do, and the
housekeeper may lock itself out. `CallsReturn`, `NoSelfDeadlock`, `EventsServed`,
`NothingElseLost` and `ConnectionDelivers` say what is wanted instead.

### Findings

* `buffer_long_message`: a push of a message longer than the minimal size into an *empty* buffer
  brings back a message that was removed: `mct_buffer_increase_size` takes equal pointers for a
  full buffer. The daemon's minimum is 500 000 bytes by default, so it is not met there, but the
  sizes are options and environment variables.
* `user_lib_reattach`: `mct_user_log_reattach_to_daemon` runs with `flush_mutex` held; a
  registration that the FIFO refuses ends in `mct_user_log_out_error_handling`, which locks it
  again. The housekeeper hangs, then every thread that logs, and exit. All applications register
  at once in one FIFO when the daemon comes back, so that a full FIFO is likely just then.
* `registry_torn`: a block mode message that meets a dead reader deletes the application without
  its contexts; the counts of contexts no longer lead to an application's own.
* `path_split`: a log message that the end of a read cuts in two is thrown away, where the
  comment says that it is completed with the next read.

### Other behaviour worth knowing

What the models follow, and the properties state as exceptions or not at all.

Routing: when the only client goes while the buffer is drained to it, applications stay told
that one is connected. A message may be delivered twice, although the comment at
`mct_daemon_client.c:132` says that a message sent to at least one client is not stored: the
first client takes it, the second turns out to be broken, the messages about its end find the
first one broken too, the state is BUFFER when `mct_daemon_client_send` looks at it after the
loop, and the message is stored; the first client gets it again when it comes back.

User library: buffered messages can be overtaken by new ones (`g_mct_buffer_empty` is set
without a look at the buffer); the overflow counter is reported at exit only if there was no
connection. With several threads, a message that finds no application id before the write
(`mct_user.c:3516`) and one after it (`:3531`), because another thread has just registered, is
neither written nor stored, and `send_log` reports success; one that is written while another
thread unregisters is stored as well and sent again after the next registration. A
thread that waits in blocking mode loses its message, which is counted, when another one
registers the application or fills the buffer between the housekeeper's flush and its waking
up: the condition it checks is the full flag, not the buffer.

Registry: the library registers by writing directly whenever it can, whatever waits in its startup
buffer (`mct_user.c:3621`, `:3722`). A context whose registration goes past its application's is
dropped (`mct-daemon.c:2453`) and stays unknown until the application attaches again, although it
logs; one that goes past its own older unregistration is deleted when that is flushed. A context
registered with a level while the daemon is away waits in the buffer; the library, once it is
attached, registers it again without a level and is answered with the default, and the flushed
registration then sets the daemon's table without an answer, so that the two sides disagree.

Event loop and filter: a client that resets its connection between `poll` and `recv` ends the daemon
(`mct-daemon.c:1816`); a change of the filter level is answered with an error although it is in
force, when no socket for clients exists and the new level does not allow TCP; with several
addresses a level change closes only the first listener, and opening again ends the daemon; the
round in which that happens goes on, and a further level request in it closes the descriptor that
the inactive connection still names, which stays in the connection; a failed `accept` and a serial
hang-up end it too; a filter that names injections nobody defined uses those of the first entry
whose name begins that name; the backend's connection stays inactive unless the default filter
allows all; the white list of injections stops at the first entry that does not match; `*` is not
understood as a list of injection identifiers; the creation of the one-second timer always fails and
leaks its descriptor.

Log storage: the names are only known to the handle after a first synchronisation, so that
`ON_DEVICE_DISCONNECT` writes a file without a number before it; the total size of the caches is
never given back; preparation errors are never reset; a crash in a rotation leaves one file too
many for good; when the highest number is the number of files, a restart may remove the newest
one; an unknown strategy makes a filter refused, although its comment announces the default; a
trace that could not open a file is never continued. A cache that wraps, exactly full and written
out, is written again with the next synchronisation (a cache of 3: a message of 2, synchronised,
one of 1, synchronised). When its older part starts in the middle of a message and does not fit in
the open file, `mct_logstorage_sync_to_file` compares an offset in that part with one from its
first message: the part is written up to the middle of a message, or not at all. When the new
messages have overwritten all of the older part, it has a negative size, and the search for its
first header runs beyond the cache, which is undefined; the model takes it to find nothing. Under
ON_DEVICE_DISCONNECT alone the rounds are not counted, and only the last one is written.

Message path: a split registration loses its description or itself; the message behind a marker
is lost, because the daemon takes one byte more than the library sends; a message of which the
FIFO took a part is filled up with the beginning of the next one, when both are in one read; log
messages longer than 10016 bytes never arrive; the number of arguments wraps at 256; binary
formats of 4 and 8 bytes are not read, and hexadecimal and binary ones not converted; a UTF-8
text is cut within a character, and read before its start, when less than 3 of its bytes fit; a
message whose mode is toggled while it is written has a payload of both modes.

## 5. Proofs

**Ring buffer.** TLAPS proves for every set of messages, every length, size and step
(assumptions `SizeAssumption`, the checks of `mct_buffer_init_dynamic`; `BlockAssumption`: a
block is longer than its header; `NamesAssumption`):

* `TypeCorrect`: `Spec => []TypeOK`. `TypeOK` is inductive as it stands. The heart is that the
  growth loop never passes `MaxSize` (`GrownSizeBound`), that what it moves fits (`MovedRange`,
  `GrownTyped`), that a block is only written where `push3` saw room (`AcceptTypeOK`), and that
  `get` only passes over a block its size check bounded (`GetTypeOK`). It holds also for
  messages too long for the minimal size, where `Layout` does not.

* `NeverMangledCorrect`: `Spec => []NeverMangled`, also for messages longer than the minimal
  size, when pointers and messages part company. The invariant `WholeBlocks` then cannot say
  where the messages are, only what no operation may break: a cell that holds a byte of a message
  and is not its last one is followed, around the end of the memory if need be, by the cell with
  the next byte, and the write pointer never stands inside a message. Every push keeps the second
  half by writing whole blocks up to the pointer it leaves; every growth keeps the first by
  moving what is in front of the write pointer behind the old end (`GrownWhole`).

* With the further condition `EveryBlockFits` (no message is longer than the minimal size, which
  is what the default sizes see to), TLAPS proves everything that the run `buffer_fits` checks:
  `LayoutCorrect` (`Spec => []Layout`), `RefusedCorrect`, `EmptyCorrect` and `FifoCorrect` (`Spec => FifoSpec`, the refinement of `BoundedFifo`).

  The inductive invariant is `TypeOK /\ Layout`. The other properties need it: whether a header
  lies at the read pointer, whether free and used size are what the pointers say and whether a
  growing buffer is empty all depend on the messages lying where `blocks` says
  (`SizesFromPointers`). `BehindWrite`, `IndexAdvanced` and `AdvanceTwice` hold the arithmetic
  of the wrap; `GrownLayout`, `WriteLayout` and `RemoveLayout` say what growing, writing and
  removing do to the layout; `GetFindsOldest` that no check of `mct_buffer_get` fails;
  `StepCases` sums up a step, and each theorem is one case distinction over it. `EveryBlockFits`
  is used where it must be: an empty buffer never grows. The run `buffer_long_message` shows
  what happens without it.

**Routing.** For every finite set of clients, every capacity and all bounds
(`RoutingAssumption`; a poll table has finitely many entries), TLAPS proves every invariant of
the run `routing`.

* `StructureCorrect`: `Spec => []Structure`, the inductive invariant on which all others rest.
  The properties speak of the moment between two handlers, but a handler is up to dozens of
  steps long, so the invariant has to say what is true in the middle of each: `Types`; `Places`,
  which call may stand where in the stack (one overflow report at most, a loop over the poll
  table always above the call that stores or reports after it, a socket to be closed still in
  the table); and one of four situations. `Direct`: clients are connected, the ring buffer is
  empty, nothing is being drained. `First`: the first client is accepted, the daemon still
  buffers. `Drain`: the ring buffer is being drained, with the shapes that the stack has while a
  message of it is sent. `NoClient`: nobody is connected, and a drain, if there was one, has
  been cut short and gives up without touching anything. `StateMatchesClientsCorrect` and
  `ConnectedIsToldCorrect` are what it says of an empty stack.
* `LossIsToldCorrect` adds `Told` (in the state SEND_DIRECT a loss is only pending while
  the first client is told of it, and what a report waits for succeeds); `TypeCorrect` adds
  `CountedOnce` (the loss that an application has reported is counted at the end of its
  handler), which bounds the counter by the losses there were.
* `BoundedRecursionCorrect` adds `Bounded`: the height at which each kind of call may stand, by
  the number of clients that are not connected. Each closed socket makes one more of those and
  three more calls; a report is one more level, and `Places` says that there is only one.
* `InOrderCorrect` and `NoSilentLossCorrect` share the invariant `Logs`: `Flights` (the one
  message on its way is at the bottom of the stack, and no client behind the place of the loop
  has it), `Queue` (the ring buffer is in order, and what clients were sent is older, but for the
  head that is being drained and for the one repetition named above) and `Accounts` (every other
  message is sent, stored, discarded, or excepted). A first form of `InOrder` without the
  repetition was not inductive, and the counterexample is the behaviour of the code described
  in section 4.
* `LossIsReportedCorrect` adds `Ledger`, an account of the losses in the middle of a handler: what
  clients were told, what the reports in the ring buffer say and what is still owed cover what
  was lost (`Balance`). What is owed depends on the call that waits for a report to be made
  (`Owed`): all that is counted while the report is not made, and what was counted since when it
  is; the ledger says for each shape of the stack which of the two it is (`Quiet`, `Returns`,
  `Hands`, `Loops`). The reports in the ring buffer are added up by a fold over a sequence;
  taking the head off and adding at the tail are lemmas about sums.

**Induction.** `FoldProofs` proves what the others need of data of any size. The library's
induction rules take an operator as a parameter, but well-foundedness of the natural numbers
does not: a property that fails somewhere fails at a least number (`LeastElement`), which gives
induction over numbers and finite sets for properties given as sets (`NumberInduction`,
`SubsetInduction`). From these follow that the function `MapThenFoldSet` is defined by exists and
is unique (`FoldExists`, `FoldUnique`), that what holds of the start of a fold and survives each
of its steps holds of its end (`FoldStays`), and the laws of sums over sequences.

**User library.** For any set of threads, any budgets, any sizes of the FIFO and the startup
buffer and any number of contexts (`UserLibAssumption`: the housekeeper is not an application
thread, `None` is not a number, and the buffer can grow):

* `TypeCorrect`: `Spec => [](TypeOK /\ Flow /\ Exiting)`. `Flow` is the missing call stack:
  error handling, resending and the overflow report return to a function that has called them
  (`back`), the housekeeper only to its own loop, and a thread has its last message at hand
  while it is in `send_log` and else none. `Exiting`: the steps of the exit handler happen only
  after `exit()`, and then no thread is in `send_log`.
* `InOnePlaceCorrect`: `Spec => []InOnePlace`. The invariant adds `Located`: `Accounted` counts,
  for every message, those to come included, the times it was written, its copies in the startup
  buffer, whether it was refused and whether it is in its thread's hands; `Raced` says that only
  a message that has been started is `doubled` or `skipped`; `Unraced` that a thread that is
  alone finds the application id as it was. `Copies` in a sequence are counted by cardinality,
  so that the lemmas on appending and removing need no induction.
* `LossIsCountedCorrect`: `Spec => []LossIsCounted`. It adds `Loss`: `Counted` (with one thread
  reports, counter and the refusal that has not been counted yet add up to what was refused),
  `NoMoreThanLost` (after `exit()` the startup buffer holds no more log messages than were
  counted) and `EndsAtExit`.
* `BlockingKeepsCorrect`: `Spec => BlockingKeeps`, an action property. It adds `Blocking`:
  `Locks` (`flush_mutex` is held across steps exactly while the housekeeper is busy, which
  therefore never waits for room itself) and `Waits` (while a thread that is alone waits, the
  buffer holds no more than the housekeeper still means to send; when the full flag is cleared
  the buffer is empty, and the housekeeper has nothing to do until the thread goes on). With a
  second thread the property does not hold, see section 4.

**Event loop and filter.** For any set of configurations, that is any filter files, numbers of
addresses and bounds on events, any number of descriptors and any levels (`EventLoopAssumption`:
a file is a sequence of lines, there is an address, and a value of `Injections` is a list or `*`;
the limits of the parser are numbers), TLAPS proves every invariant of the run `loop`.

* `Invariance`: `Spec => []IndInv`. The operations on the daemon's record compose as the calls
  do, so that the invariant is one predicate of such a record, `Good`, and there is one lemma for
  each operation: it leads from a good record to a good one (`UnregisterGood`, `SendToAllGood`,
  `ChangeFilterLevelGood`, `AcceptedGood`, ..., `CallbackGood`). Sending to all clients and opening
  the sockets of all addresses are folds, over whichever clients turn out to be broken and over
  the addresses (`UnregisterAll`, `ReopenAllIs`, `InitClientSocketsGood`).
  `Good` says, of a daemon that is not leaving: `Tables` (the poll table lists the descriptors of
  the active connections, each once), `Descriptors` (each connection has a descriptor of its own
  and kind; only a socket for clients that is switched off has none), `Counts`
  (`client_connections`), `Rejects` (poll rejects no listening socket: handling its entry would
  close it behind the filter's back), and, with one address, `Enforced` (at most one connection
  listens, it is active exactly while the filter allows clients, and no listening socket is left
  without a connection). A daemon that is leaving is excepted because its last round goes on
  after opening the sockets has failed, see section 4; of it `Good` keeps the types and that the
  filter in use is one of the file's.
* `PollTableOkCorrect`, `LevelIsEnforcedCorrect` and `FilterIsSoundCorrect` follow.
  `PollTableOk` counts connections and descriptors, for which the entries of the table are mapped
  one to one to the active connections (`TableMatches`). `FilterIsSound` does not depend on the
  steps of the daemon but on the reading of the file: `ReadFileIs` and `GetValueIs` say what any
  sequence of lines becomes, `InsertFilterIs` that a filter inserted at the end or before another
  one leaves the levels divided, `PrepareIs` that what any file is read into, a refused one
  included, covers all levels, and `InjectionsListed` what an allowed injection implies.

**Offline trace.** For any configurations of which a file's size is not more than the trace's
(`FileFitsTrace`; the code does not check it, and a trace configured otherwise exceeds its size
with its first full file), any sizes of messages, any number of files and restarts, and whatever
log storage does at the same time (`DaemonFilesAssumption`: sizes are numbers), TLAPS proves
`TraceFitsCorrect`: `SpecFiles => []TraceFits`. The property bounds all files, but what the code
ensures is the room beside the open one: it is made before a file is begun, and nothing but the
open file grows until the next one is begun. So the invariant says that the other files leave
room for one (`LeavesRoom`), that the open file is the newest (`Writes`), and that names are
unique and no time lies ahead (`Orderly`). Files named by time need one more fact: in the same
second the same file is opened again, also in a directory that cannot be written, where no room
is made; the file named after this second must still have it. There is one lemma for each operation
(`CreatedTrace`, `RenewedTrace`, `PutTrace`, `AddMessageTrace`, `RestartedTrace`, `TickedTrace`,
`ProtectedTrace`); `TotalIsSum` ties the size of a set of files to the sums of `FoldProofs`.

**Filters of log storage.** For any configuration files, with any number of sections and filters,
and any messages, TLAPS proves `StoredAsConfiguredCorrect`: `SpecFiles => []StoredAsConfigured`.
`ConfAssumption` says what a configuration is: a file is a sequence of lines; what `LogAppName` and
`ContextName` give is refused, or a list of identifiers, or the wild card, as the comment on
`mct_logstorage_create_keys` says (`mct_offline_logstorage.c:662-665`); a message has an ECU, and an
application and a context or neither, and neither is named like the wild card. (A list that mixes
both is not a configuration of the comment; such a filter has two keys for one message, and the
message would be stored twice.) The conclusion is not about single steps, for the table never
changes, but about three loops and what their results have in common. `StoredFilters`: every filter
that the reading of any lines enters in the table has lists of names and a key (`Entered`).
`GetConfigIs`: the search under one key after the other lists the filters it finds, each once,
although it ends as soon as it has found as many as there are; that needs the keys to find
different filters. `OnlyKeyFor` is why they do: of the keys a filter may have, at most one
(`KeyFor`) is among those a message is looked up under. `FoundByKey`: it is among them exactly if
the filter wants the message. Sequences that list a set once (`Once`) connect the loops.

TLC has checked each of these inductive invariants on small instances: those of the runs, and
for the user library two threads that log.

**Only model-checked.** Of the ring buffer: `ReadsOldest`, which is violated with messages
longer than the minimal size. Liveness under fairness (`HandlerReturns`, `CallsReturn`,
`EventsServed`) and what depends on ENABLED are out of the prover's reach. The
properties of the registry, of the message path and, but for `StoredAsConfigured`, of log storage
are left to TLC: `Registry` and `LogStorage` compute a whole handler with folds over sorted tables,
files and filters whose every function would need the invariant of its own loop; several operators
of `LogStorage` use `SelectSeq`, of which the provers know nothing; and the loops of `MessagePath`
over a buffer are recursive operators.

## 6. Not modelled

* Reading, indexing and filtering of log files (`mct_file_*`) and the texts of headers, the
  console tools, converter and log reader: sequential code on complete data that one caller
  uses.
* User library environment and header preparation, option parsing and start: conversions and
  one-time set-up without shared state.
* Thin wrappers around system calls (sockets, serial line, UNIX sockets).
* Control requests that only answer, client requests that only send, and opening a client's
  connection: no state to go wrong.
* In the daemon: levels forwarded to passive nodes, the watchdog, the forced reset of levels by
  a storage configuration. In the registry's run `ForceContextLogLevelAndTraceStatus` is off.
* In the user library: `mct_unregister_app_flush_buffered_logs`, fork, injections and log files,
  and a process that exits while another of its threads is inside a call.
  The run has no two threads that log (several waiters for one signal, the racing overflow
  counter), for which the state space is out of TLC's reach; the theorems hold for any number.
* Left-out parts of modelled components are named with each module in section 3 and in the notes
  of `PROJECT.json`.
