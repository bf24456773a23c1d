---------------------------- MODULE MctUserLib -----------------------------
(***************************************************************************)
(* The user library: application threads that log, and the housekeeper     *)
(* thread that flushes what they had to buffer and reconnects to a daemon  *)
(* that was restarted.                                                     *)
(*                                                                         *)
(* A step is the code between two points where another thread matters: a   *)
(* section under the semaphore mct_mutex is one step (no section waits for *)
(* anything), a section under flush_mutex is one step except in the        *)
(* housekeeper, which calls functions while it holds that lock ("locked"). *)
(* Reading mct_log_handle and writing to it are one step, and so are an    *)
(* increment of the overflow counter, and a look at the application id     *)
(* with the registration that is written because of it.                    *)
(*                                                                         *)
(* Messages have one size: the startup buffer holds MinRoom of them at its *)
(* minimal size, Capacity when it has grown to its maximal one, and is     *)
(* back at its minimal size whenever it becomes empty.  A write of one     *)
(* message to the FIFO is atomic.  Left out: Unix sockets, log files,      *)
(* fork, log levels and injections.                                        *)
(***************************************************************************)
EXTENDS Integers, Sequences, FiniteSets, SequencesExt

CONSTANTS Thread,        \* application threads
          HK,            \* the housekeeper thread
          None,
          PipeRoom,      \* messages the daemon's FIFO has room for
          MinRoom,       \* messages startup_buffer holds at its minimal size
          Capacity,      \* ... and at its maximal size
          Contexts,      \* contexts to register again, mct_ll_ts_num_entries
          ForceBlocking, \* force_blocking: the environment variable is set
          Bounds         \* how much may happen, each
                         \*  [threads: the threads that use the library,
                         \*   logs: log messages of each thread,
                         \*   crashes: crashes of the daemon,
                         \*   modes: block mode messages of the daemon,
                         \*   regs: registrations by each thread,
                         \*   exits: whether the process may exit]

ASSUME UserLibAssumption ==
  /\ HK \notin Thread /\ None \notin Nat /\ PipeRoom \in Nat \ {0}
  /\ MinRoom \in Nat \ {0} /\ Capacity \in Nat /\ MinRoom < Capacity
  /\ Contexts \in Nat /\ ForceBlocking \in BOOLEAN
  /\ Bounds \subseteq [threads : SUBSET Thread, logs : [Thread -> Nat],
                      crashes : Nat, modes : Nat, regs : [Thread -> Nat],
                      exits : BOOLEAN]

VARIABLES
  daemon,            \* "up" or "down"
  pipe,              \* number of messages in the daemon's FIFO
  handle,            \* mct_log_handle: "none" (-1), "open", or "stale": open
                     \* on the FIFO of a daemon that is gone
  registered,        \* appID is not empty
  startup_buffer,    \* the messages in the startup buffer
  at_max,            \* its size cannot grow any more
  buffer_empty,      \* g_mct_buffer_empty
  buffer_full,       \* g_mct_buffer_full
  block_mode,        \* block_mode is MCT_MODE_BLOCKING
  overflow_counter,
  locked,            \* the housekeeper holds flush_mutex across steps
  waiting,           \* threads in pthread_cond_wait(&cond_free)
  lost,              \* what the exit handler has counted as lost, None as
                     \* long as exit() has not been called
  th,                \* what each thread is doing: see Thread state
  bound,             \* one of Bounds
  logs, crashes, modes, regs,   \* how much of it is used up
  written,           \* auxiliary: the log messages written to the FIFO, a bag
  discarded,         \* auxiliary: log messages the full buffer refused
  reported,          \* auxiliary: sum of the reports of lost messages
  doubled,           \* auxiliary: log messages stored although written,
  skipped            \* auxiliary: ... neither written nor stored: the
                     \* application id changed while they were sent

limits == <<bound, crashes, modes, regs, logs>>
external == <<daemon, limits, lost>>
shared == <<pipe, handle, registered, startup_buffer, at_max, buffer_empty,
            buffer_full, block_mode, overflow_counter, locked, waiting>>
races == <<doubled, skipped>>
history == <<written, discarded, reported, races>>
vars == <<external, shared, th, history>>

-----------------------------------------------------------------------------
(* Thread state: where it is, its message, the results it has seen, how    *)
(* many messages it has still to resend, and where the function it is in   *)
(* returns to.                                                             *)

All == Thread \cup {HK}

Log(t, n)   == [op |-> "log", from |-> t, n |-> n]
Control(op) == [op |-> op, from |-> HK, n |-> 0]

Idle == [pc |-> "idle", msg |-> Control("none"), ret |-> "OK", res |-> "OK",
         count |-> 0, back |-> "idle"]

At(t, pc) == th[t].pc = pc
Goto(t, pc) == th' = [th EXCEPT ![t].pc = pc]
Enter(t, pc) == th' = [th EXCEPT ![t] = [Idle EXCEPT !.pc = pc]]
Finish(t) == Enter(t, "idle")
Return(t, r) == th' = [th EXCEPT ![t].pc = th[t].back, ![t].res = r]

CallResend(t, back) == th' = [th EXCEPT ![t].pc = "resend", ![t].back = back]
CallStore(t, m, r, back) ==    \* mct_user_log_out_error_handling
  th' = [th EXCEPT ![t].pc = "check", ![t].msg = m, ![t].ret = r,
                   ![t].back = back]

LockFree == ~locked    \* flush_mutex can be taken
SelfDeadlock == locked /\ th[HK].pc \in {"block", "flag"}
MayCall(t) == t \in bound.threads /\ At(t, "idle") /\ lost = None

-----------------------------------------------------------------------------
Init ==
  /\ daemon \in {"up", "down"} /\ pipe = 0
  /\ handle = IF daemon = "up" THEN "open" ELSE "none"
  /\ registered = FALSE
  /\ startup_buffer = <<>> /\ at_max = FALSE
  /\ buffer_empty = 1 /\ buffer_full = 0
  /\ block_mode = ForceBlocking /\ overflow_counter = 0
  /\ locked = FALSE /\ waiting = {}
  /\ th = [t \in All |-> Idle]
  /\ bound \in Bounds
  /\ lost = None /\ logs = [t \in Thread |-> 0] /\ crashes = 0 /\ modes = 0
  /\ regs = [t \in Thread |-> 0]
  /\ written = [m \in {} |-> 0] /\ discarded = {} /\ reported = 0
  /\ doubled = {} /\ skipped = {}

-----------------------------------------------------------------------------
(* The FIFO.  out3 tells its errors apart, out2 does not.                  *)

out3 == CASE handle = "none" -> "ERROR"
          [] handle = "stale" -> "PIPE_ERROR"
          [] handle = "open" /\ pipe < PipeRoom -> "OK"
          [] handle = "open" /\ pipe >= PipeRoom -> "PIPE_FULL"
out2 == IF out3 = "OK" THEN "OK" ELSE "ERROR"

Once(P) == IF P THEN 1 ELSE 0
Written(m) == m \in DOMAIN written
TimesWritten(m) == IF Written(m) THEN written[m] ELSE 0

Write(m) ==
  /\ pipe' = IF out3 = "OK" THEN pipe + 1 ELSE pipe
  /\ written' = IF out3 = "OK" /\ m.op = "log"
                THEN [x \in DOMAIN written \cup {m} |->
                        TimesWritten(x) + Once(x = m)]
                ELSE written

(* The startup buffer.                                                     *)
Full == Len(startup_buffer) = Capacity
Push(m) ==
  IF Full
  THEN /\ discarded' = IF m.op = "log" THEN discarded \cup {m} ELSE discarded
       /\ UNCHANGED <<startup_buffer, at_max>>
  ELSE /\ startup_buffer' = Append(startup_buffer, m)
       /\ at_max' = (at_max \/ Len(startup_buffer) >= MinRoom)
       /\ UNCHANGED discarded
\* Mutant: a refusal is not told to the caller.
PushResultLost(r) == r
PushResult(r) == IF Full THEN "BUFFER_FULL" ELSE r

-----------------------------------------------------------------------------
(* mct_user_log_send_log                                                   *)
SendLog(t) ==
  /\ MayCall(t) /\ logs[t] < bound.logs[t]
  /\ logs' = [logs EXCEPT ![t] = @ + 1]
  /\ th' = [th EXCEPT ![t].msg = Log(t, logs[t] + 1),
                      ![t].back = "old",
                      ![t].pc = IF overflow_counter > 0 THEN "overflow"
                                ELSE "old"]
  /\ UNCHANGED <<daemon, bound, crashes, modes, regs, lost, shared, history>>

SendOverflow(t) ==
  /\ At(t, "overflow")
  /\ Write(Control("overflow"))
  /\ reported' = IF out2 = "OK" THEN reported + overflow_counter ELSE reported
  /\ Goto(t, IF out2 = "OK" THEN "overflow_reset" ELSE th[t].back)
  /\ UNCHANGED <<external, handle, registered, startup_buffer, at_max,
                 buffer_empty, buffer_full, block_mode, overflow_counter,
                 locked, waiting, discarded, races>>

OverflowReset(t) ==
  /\ At(t, "overflow_reset")
  /\ overflow_counter' = 0
  /\ Goto(t, th[t].back)
  /\ UNCHANGED <<external, pipe, handle, registered, startup_buffer, at_max,
                 buffer_empty, buffer_full, block_mode, locked, waiting,
                 history>>

(* ... old messages first, if there are any and somebody to send them to   *)
SendOld(t) ==
  /\ At(t, "old")
  /\ IF handle # "none" /\ registered /\ buffer_empty = 0
     THEN CallResend(t, "new")
     ELSE th' = [th EXCEPT ![t].pc = "new", ![t].res = "OK"]
  /\ UNCHANGED <<external, shared, history>>

(* ... then the new one, if that went well and there is an application id *)
SendNew(t) ==
  /\ At(t, "new")
  /\ Goto(t, IF th[t].res = "OK" /\ registered THEN "mark" ELSE "sent")
  /\ UNCHANGED <<external, shared, history>>

MarkEmpty(t) ==
  /\ At(t, "mark") /\ LockFree
  /\ buffer_empty' = 1
  /\ Goto(t, "out")
  /\ UNCHANGED <<external, pipe, handle, registered, startup_buffer, at_max,
                 buffer_full, block_mode, overflow_counter, locked, waiting,
                 history>>

OutNew(t) ==
  /\ At(t, "out")
  /\ Write(th[t].msg)
  /\ th' = [th EXCEPT ![t].pc = "sent", ![t].res = out3]
  /\ UNCHANGED <<external, handle, registered, startup_buffer, at_max,
                 buffer_empty, buffer_full, block_mode, overflow_counter,
                 locked, waiting, discarded, reported, races>>

(* ... and store it if that failed or there is none: it looks again.       *)
ToBeStored(t) == th[t].res # "OK" \/ ~registered
Sent(t) ==
  /\ At(t, "sent")
  /\ IF ToBeStored(t) THEN CallStore(t, th[t].msg, th[t].res, "stored")
                      ELSE Finish(t)
  /\ doubled' = IF ToBeStored(t) /\ Written(th[t].msg)
                THEN doubled \cup {th[t].msg} ELSE doubled
  /\ skipped' = IF ~ToBeStored(t) /\ ~Written(th[t].msg)
                THEN skipped \cup {th[t].msg} ELSE skipped
  /\ UNCHANGED <<external, shared, written, discarded, reported>>

(* ... and what is left to do when it was stored or lost instead.          *)
Stored(t) ==
  /\ At(t, "stored")
  /\ overflow_counter' = IF th[t].res = "BUFFER_FULL"
                         THEN overflow_counter + 1 ELSE overflow_counter
  /\ handle' = IF th[t].res = "ERROR" /\ th[t].ret = "PIPE_ERROR" THEN "none"
               ELSE handle
  /\ Finish(t)
  /\ UNCHANGED <<external, pipe, registered, startup_buffer, at_max,
                 buffer_empty, buffer_full, block_mode, locked, waiting,
                 history>>

-----------------------------------------------------------------------------
(* mct_user_log_out_error_handling: store a message that was not written.  *)
(* It looks at the size and at the mode under mct_mutex, one after the     *)
(* other.                                                                  *)
CheckSize(t) ==
  /\ \/ /\ At(t, "check")
        /\ th' = [th EXCEPT ![t].res = IF at_max THEN "ERROR" ELSE "OK",
                            ![t].pc = IF at_max THEN "mode" ELSE "push"]
     \/ /\ At(t, "mode")
        /\ Goto(t, IF block_mode THEN "block" ELSE "push")
  /\ UNCHANGED <<external, shared, history>>

(* Blocking mode: wait until the housekeeper has flushed the buffer.       *)
Block(t) ==
  /\ At(t, "block") /\ LockFree
  /\ buffer_empty' = 0 /\ buffer_full' = 1
  /\ waiting' = waiting \cup {t}
  /\ Goto(t, "wait")
  /\ UNCHANGED <<external, pipe, handle, registered, startup_buffer, at_max,
                 block_mode, overflow_counter, locked, history>>

(* Mutant: one wait, not a loop of waits.                                  *)
StillFullUnchecked == FALSE
StillFull == buffer_full = 1

Wake(t) ==
  /\ At(t, "wait") /\ t \notin waiting /\ LockFree
  /\ IF StillFull
     THEN /\ waiting' = waiting \cup {t}
          /\ UNCHANGED <<startup_buffer, at_max, discarded, th>>
     ELSE /\ Push(th[t].msg)
          /\ Return(t, PushResult(th[t].res))
          /\ UNCHANGED waiting
  /\ UNCHANGED <<external, pipe, handle, registered, buffer_empty, buffer_full,
                 block_mode, overflow_counter, locked, written, reported,
                 races>>

(* Otherwise: store it and tell the housekeeper.                           *)
Store(t) ==
  /\ At(t, "push")
  /\ Push(th[t].msg)
  /\ th' = [th EXCEPT ![t].pc = "flag", ![t].res = PushResult(@)]
  /\ UNCHANGED <<external, pipe, handle, registered, buffer_empty, buffer_full,
                 block_mode, overflow_counter, locked, waiting, written,
                 reported, races>>

Flag(t) ==
  /\ At(t, "flag") /\ LockFree
  /\ buffer_empty' = 0
  /\ Goto(t, th[t].back)
  /\ UNCHANGED <<external, pipe, handle, registered, startup_buffer, at_max,
                 buffer_full, block_mode, overflow_counter, locked, waiting,
                 history>>

-----------------------------------------------------------------------------
(* mct_user_log_resend_buffer                                              *)
Resend(t) ==
  /\ At(t, "resend")
  /\ IF registered
     THEN th' = [th EXCEPT ![t].pc = "resend_next",
                           ![t].count = Len(startup_buffer)]
     ELSE Return(t, "OK")
  /\ UNCHANGED <<external, shared, history>>

(* Mutant: a message that was resent stays in the buffer.                  *)
SentKept(b) == b
AfterSend(b) == IF out3 = "OK" THEN Tail(b) ELSE b

ResendNext(t) ==
  /\ At(t, "resend_next") /\ th[t].count > 0 /\ startup_buffer # <<>>
  /\ Write(Head(startup_buffer))
  /\ startup_buffer' = AfterSend(startup_buffer)
  /\ at_max' = (at_max /\ startup_buffer' # <<>>)
  /\ handle' = IF out3 = "PIPE_ERROR" THEN "none" ELSE handle
  /\ IF out3 = "OK" THEN th' = [th EXCEPT ![t].count = @ - 1]
                    ELSE Return(t, out3)
  /\ UNCHANGED <<external, registered, buffer_empty, buffer_full, block_mode,
                 overflow_counter, locked, waiting, discarded, reported, races>>

ResendDone(t) ==
  /\ At(t, "resend_next") /\ (th[t].count = 0 \/ startup_buffer = <<>>)
  /\ Return(t, "OK")
  /\ UNCHANGED <<external, shared, history>>

-----------------------------------------------------------------------------
(* mct_register_app                                                        *)
Register(t) ==
  /\ MayCall(t) /\ ~registered /\ regs[t] < bound.regs[t]
  /\ regs' = [regs EXCEPT ![t] = @ + 1]
  /\ registered' = TRUE
  /\ Goto(t, "register")
  /\ UNCHANGED <<daemon, bound, crashes, modes, logs, lost, pipe, handle, startup_buffer,
                 at_max, buffer_empty, buffer_full, block_mode,
                 overflow_counter, locked, waiting, history>>

SendRegister(t) ==
  /\ At(t, "register") /\ registered
  /\ Write(Control("register"))
  /\ IF out3 # "OK" THEN CallStore(t, Control("register"), out3, "registered")
     ELSE th' = [th EXCEPT ![t].pc = "registered", ![t].res = "OK"]
  /\ UNCHANGED <<external, handle, registered, startup_buffer, at_max,
                 buffer_empty, buffer_full, block_mode, overflow_counter,
                 locked, waiting, discarded, reported, races>>

RegisterRefused(t) ==    \* another thread has unregistered the application
  /\ At(t, "register") /\ ~registered
  /\ Finish(t)
  /\ UNCHANGED <<external, shared, history>>

Registered(t) ==
  /\ At(t, "registered")
  /\ IF th[t].res = "OK" /\ handle # "none" THEN CallResend(t, "done")
                                            ELSE Finish(t)
  /\ UNCHANGED <<external, shared, history>>

RegisterDone(t) ==
  /\ At(t, "done")
  /\ Finish(t)
  /\ UNCHANGED <<external, shared, history>>

(* mct_unregister_app                                                      *)
SendUnregister(t) ==
  /\ IF registered
     THEN /\ Write(Control("unregister"))
          /\ IF out2 # "OK"
             THEN CallStore(t, Control("unregister"), out2, "forget")
             ELSE Goto(t, "forget")
     ELSE /\ Goto(t, "forget")
          /\ UNCHANGED <<pipe, written>>
  /\ UNCHANGED <<external, handle, registered, startup_buffer, at_max,
                 buffer_empty, buffer_full, block_mode, overflow_counter,
                 locked, waiting, discarded, reported, races>>
Unregister(t) == MayCall(t) /\ registered /\ SendUnregister(t)

Forget(t) ==
  /\ At(t, "forget")
  /\ registered' = FALSE
  /\ Enter(t, IF lost = None THEN "idle" ELSE "stop")
  /\ UNCHANGED <<external, pipe, handle, startup_buffer, at_max, buffer_empty,
                 buffer_full, block_mode, overflow_counter, locked, waiting,
                 history>>

-----------------------------------------------------------------------------
(* The housekeeper: the daemon's messages, then what is to be flushed.     *)

(* Mutant: nobody is told that the buffer is free.                         *)
SignalNobody == UNCHANGED waiting
Signal ==    \* pthread_cond_signal(&cond_free): one waiting thread, if any
  IF waiting = {} THEN UNCHANGED waiting
  ELSE \E t \in waiting : waiting' = waiting \ {t}

(* MCT_USER_MESSAGE_SET_BLOCK_MODE                                         *)
SetBlockMode(b) ==
  /\ At(HK, "idle") /\ handle # "none" /\ modes < bound.modes
  /\ modes' = modes + 1
  /\ IF ForceBlocking THEN UNCHANGED <<block_mode, waiting>>
     ELSE block_mode' = b /\ Signal
  /\ UNCHANGED <<daemon, bound, crashes, regs, logs, lost, pipe, handle, registered,
                 startup_buffer, at_max, buffer_empty, buffer_full,
                 overflow_counter, locked, th, history>>

Housekeep ==
  /\ At(HK, "idle") /\ buffer_empty = 0
  /\ locked' = TRUE
  /\ Goto(HK, "attach")
  /\ UNCHANGED <<external, pipe, handle, registered, startup_buffer, at_max,
                 buffer_empty, buffer_full, block_mode, overflow_counter,
                 waiting, history>>

(* mct_user_log_reattach_to_daemon, called by the housekeeper and by the   *)
(* exit handler; it ends when a message to be stored is refused.           *)
Attached(t) == IF t = HK THEN "try" ELSE "exit_overflow"
Attach(t) ==
  /\ At(t, "attach")
  /\ IF handle = "none" /\ daemon = "up"
     THEN /\ handle' = "open"
          /\ th' = [th EXCEPT ![t].pc = "again", ![t].res = "OK",
                              ![t].count = Contexts]
     ELSE /\ UNCHANGED handle
          /\ Goto(t, Attached(t))
  /\ UNCHANGED <<external, pipe, registered, startup_buffer, at_max,
                 buffer_empty, buffer_full, block_mode, overflow_counter,
                 locked, waiting, history>>

RegisterAgain(t) ==
  /\ At(t, "again")
  /\ IF registered
     THEN /\ Write(Control("register"))
          /\ IF out3 # "OK"
             THEN CallStore(t, Control("register"), out3, "contexts")
             ELSE Goto(t, "contexts")
     ELSE /\ Goto(t, "contexts")
          /\ UNCHANGED <<pipe, written>>
  /\ UNCHANGED <<external, handle, registered, startup_buffer, at_max,
                 buffer_empty, buffer_full, block_mode, overflow_counter,
                 locked, waiting, discarded, reported, races>>

MoreContexts(t) ==
  th[t].count > 0 /\ registered /\ th[t].res # "BUFFER_FULL"
ContextAgain(t) ==
  /\ At(t, "contexts") /\ MoreContexts(t)
  /\ Write(Control("context"))
  /\ th' = [th EXCEPT ![t].count = @ - 1,
               ![t].pc = IF out3 = "OK" THEN @ ELSE "check",
               ![t].msg = Control("context"), ![t].ret = out3,
               ![t].back = "contexts"]
  /\ UNCHANGED <<external, handle, registered, startup_buffer, at_max,
                 buffer_empty, buffer_full, block_mode, overflow_counter,
                 locked, waiting, discarded, reported, races>>

ContextsDone(t) ==
  /\ At(t, "contexts") /\ ~MoreContexts(t)
  /\ Goto(t, Attached(t))
  /\ UNCHANGED <<external, shared, history>>

TryFlush ==
  /\ At(HK, "try")
  /\ IF handle # "none"
     THEN CallResend(HK, "flushed") /\ UNCHANGED locked
     ELSE Finish(HK) /\ locked' = FALSE
  /\ UNCHANGED <<external, pipe, handle, registered, startup_buffer, at_max,
                 buffer_empty, buffer_full, block_mode, overflow_counter,
                 waiting, history>>

Flushed ==
  /\ At(HK, "flushed")
  /\ IF th[HK].res = "OK"
     THEN buffer_empty' = 1 /\ buffer_full' = 0 /\ Signal
     ELSE UNCHANGED <<buffer_empty, buffer_full, waiting>>
  /\ locked' = FALSE
  /\ Finish(HK)
  /\ UNCHANGED <<external, pipe, handle, registered, startup_buffer, at_max,
                 block_mode, overflow_counter, history>>

-----------------------------------------------------------------------------
(* mct_user_atexit_handler.  The code takes no notice of other threads; a  *)
(* process is taken to exit while no other thread is in a call, for        *)
(* mct_free frees the startup buffer and destroys mct_mutex whoever uses   *)
(* them, and what happens then is undefined.                               *)
LeftOver == Len(startup_buffer)
Exit(t) ==
  /\ bound.exits /\ MayCall(t) /\ \A u \in Thread : At(u, "idle")
  /\ lost' = LeftOver
  /\ Goto(t, IF LeftOver > 0 THEN "exit" ELSE "exit_unregister")
  /\ UNCHANGED <<daemon, limits, shared, history>>

(* mct_user_atexit_blow_out_user_buffer, as long as its time lasts         *)
ExitTries(t) ==
  /\ At(t, "exit")
  /\ Enter(t, IF handle = "none" THEN "attach" ELSE "exit_resend")
  /\ UNCHANGED <<external, shared, history>>
ExitTimeout(t) ==
  /\ At(t, "exit")
  /\ lost' = LeftOver
  /\ Enter(t, "exit_unregister")
  /\ UNCHANGED <<daemon, limits, shared, history>>
ExitOverflow(t) ==
  /\ At(t, "exit_overflow")
  /\ th' = [th EXCEPT ![t].back = "exit_resend",
               ![t].pc = IF handle # "none" /\ overflow_counter > 0
                         THEN "overflow" ELSE "exit_resend"]
  /\ UNCHANGED <<external, shared, history>>
ExitResend(t) ==
  /\ At(t, "exit_resend")
  /\ IF handle = "none" THEN Enter(t, "exit") ELSE CallResend(t, "exit_resent")
  /\ UNCHANGED <<external, shared, history>>
ExitResent(t) ==
  /\ At(t, "exit_resent")
  /\ lost' = IF th[t].res = "OK" THEN LeftOver ELSE lost
  /\ Enter(t, IF th[t].res = "OK" THEN "exit_unregister" ELSE "exit")
  /\ UNCHANGED <<daemon, limits, shared, history>>
ExitUnregister(t) ==
  /\ At(t, "exit_unregister")
  /\ SendUnregister(t)

(* mct_free: the housekeeper is cancelled, wherever it is, unless it waits *)
(* for a lock.                                                             *)
Stop(t) ==
  /\ At(t, "stop") /\ ~SelfDeadlock
  /\ th' = [u \in All |-> [Idle EXCEPT !.pc = "ended"]]
  /\ locked' = FALSE /\ handle' = "none"
  /\ UNCHANGED <<external, pipe, registered, startup_buffer, at_max,
                 buffer_empty, buffer_full, block_mode, overflow_counter,
                 waiting, history>>

-----------------------------------------------------------------------------
(* The daemon: reads its FIFO, may crash, and makes a new FIFO when it is  *)
(* started again.                                                          *)
DaemonReads ==
  /\ daemon = "up" /\ pipe > 0
  /\ pipe' = pipe - 1
  /\ UNCHANGED <<external, handle, registered, startup_buffer, at_max,
                 buffer_empty, buffer_full, block_mode, overflow_counter,
                 locked, waiting, th, history>>

DaemonCrashes ==
  /\ daemon = "up" /\ crashes < bound.crashes
  /\ crashes' = crashes + 1
  /\ daemon' = "down" /\ pipe' = 0
  /\ handle' = IF handle = "open" THEN "stale" ELSE handle
  /\ UNCHANGED <<bound, modes, regs, logs, lost, registered, startup_buffer, at_max,
                 buffer_empty, buffer_full, block_mode, overflow_counter,
                 locked, waiting, th, history>>

DaemonStarts ==
  /\ daemon = "down"
  /\ daemon' = "up"
  /\ UNCHANGED <<limits, lost, shared, th, history>>

-----------------------------------------------------------------------------
ApplicationCalls(t) == SendLog(t) \/ Register(t) \/ Unregister(t) \/ Exit(t)

Continues(t) ==    \* a thread goes on with the call it is in
  \/ SendOverflow(t) \/ OverflowReset(t) \/ SendOld(t) \/ SendNew(t)
  \/ MarkEmpty(t) \/ OutNew(t) \/ Sent(t) \/ Stored(t)
  \/ SendRegister(t) \/ RegisterRefused(t) \/ Registered(t)
  \/ RegisterDone(t) \/ Forget(t)
  \/ CheckSize(t) \/ Block(t) \/ Wake(t) \/ Store(t) \/ Flag(t)
  \/ Resend(t) \/ ResendNext(t) \/ ResendDone(t)
  \/ Attach(t) \/ RegisterAgain(t) \/ ContextAgain(t) \/ ContextsDone(t)
  \/ ExitTries(t) \/ ExitTimeout(t) \/ ExitOverflow(t) \/ ExitResend(t)
  \/ ExitResent(t) \/ ExitUnregister(t) \/ Stop(t)

Housekeeper ==
  Housekeep \/ TryFlush \/ Flushed \/ Continues(HK)

Next ==
  \/ \E t \in Thread : ApplicationCalls(t) \/ Continues(t)
  \/ Housekeeper
  \/ \E b \in BOOLEAN : SetBlockMode(b)
  \/ DaemonReads \/ DaemonCrashes \/ DaemonStarts

Fairness ==
  /\ \A t \in Thread : WF_vars(Continues(t)) /\ SF_vars(ExitTimeout(t))
  /\ WF_vars(Housekeeper) /\ WF_vars(DaemonReads) /\ WF_vars(DaemonStarts)

Spec == Init /\ [][Next]_vars /\ Fairness

-----------------------------------------------------------------------------
(* Every variable has its type.                                            *)
Message == [op : {"log"}, from : Thread, n : Nat] \cup
           {Control(op) : op \in {"none", "register", "context", "unregister",
                                  "overflow"}}
Result == {"OK", "ERROR", "PIPE_ERROR", "PIPE_FULL", "BUFFER_FULL"}
Step == {"idle", "overflow", "overflow_reset", "old", "new", "mark", "out", "sent", "stored",
         "check", "mode", "block", "wait", "push", "flag", "resend", "resend_next",
         "register", "registered", "done", "forget", "attach", "again", "contexts",
         "try", "flushed", "exit", "exit_overflow", "exit_resend", "exit_resent",
         "exit_unregister", "stop", "ended"}
TypeOK ==
  /\ daemon \in {"up", "down"} /\ pipe \in 0 .. PipeRoom
  /\ handle \in {"none", "open", "stale"}
  /\ startup_buffer \in Seq(Message) /\ Len(startup_buffer) <= Capacity
  /\ {buffer_empty, buffer_full} \subseteq {0, 1}
  /\ {registered, at_max, block_mode, locked} \subseteq BOOLEAN
  /\ overflow_counter \in Nat /\ reported \in Nat /\ lost \in Nat \cup {None}
  /\ waiting \subseteq All
  /\ th \in [All -> [pc : Step, msg : Message, ret : Result, res : Result,
                     count : Nat, back : Step]]
  /\ written \in [DOMAIN written -> Nat \ {0}]
  /\ DOMAIN written \cup discarded \subseteq Message
  /\ doubled \cup skipped \subseteq Message

(* Every log message is in exactly one place: written, stored, refused, or *)
(* in the hands of the thread that logs it.  Two threads that resend the   *)
(* same buffer (mct_user_log_resend_buffer from send_log and from the      *)
(* housekeeper) do not send it twice, and no message is dropped when a     *)
(* write fails or the handle changes under it.  The exceptions are the     *)
(* messages during which another thread registers or unregisters the       *)
(* application: mct_user_log_send_log looks at appID twice.                *)
Logged == UNION {{Log(t, n) : n \in 1 .. logs[t]} : t \in Thread}
InHand(m) == /\ th[m.from].msg = m
             /\ th[m.from].pc \notin {"idle", "stored", "flag"}
             /\ ~(th[m.from].pc = "sent" /\ Written(m))
Copies(q, m) == Cardinality({i \in DOMAIN q : q[i] = m})
Places(m) == TimesWritten(m) + Copies(startup_buffer, m)
               + Once(m \in discarded) + Once(InHand(m))
Alone(t) == bound.threads = {t}
InOnePlace ==
  /\ \A m \in Logged \ (doubled \cup skipped) : Places(m) = 1
  /\ \A m \in doubled : Places(m) = 2
  /\ \A m \in skipped : Places(m) = 0
  /\ \A t \in Thread : Alone(t) => doubled \cup skipped = {}

(* With one application thread, the reports the daemon got and the counter *)
(* add up to what the full buffer refused (send_log, send_overflow).  What *)
(* the startup buffer still holds when the process has ended is not more   *)
(* than what the exit handler has counted as lost.                         *)
LossIsCounted ==
  /\ \A t \in Thread : Alone(t) /\ At(t, "idle")
       => reported + overflow_counter = Cardinality(discarded)
  /\ At(HK, "ended")
       => Cardinality({m \in Logged : Copies(startup_buffer, m) > 0}) <= lost

(* The housekeeper never waits for the lock that it holds itself.  It does *)
(* when a registration that it sends in mct_user_log_reattach_to_daemon is *)
(* refused by the FIFO: out_error_handling takes flush_mutex again.        *)
NoSelfDeadlock == ~SelfDeadlock

(* With one application thread, a registered application that was made to  *)
(* wait for room in blocking mode loses no message: the buffer has room    *)
(* when the wait of mct_user_log_out_error_handling ends.  (Not so if it   *)
(* is not registered, because then resend_buffer reports success without   *)
(* sending anything; nor if another thread registers it, or fills the      *)
(* buffer, between the flush and the end of the wait.)                     *)
BlockingKeeps ==
  [][\A t \in Thread :
       Alone(t) /\ At(t, "wait") /\ registered
         => th[t].msg \notin discarded']_vars

(* Every call of the library returns, and exit() ends the process, if the  *)
(* daemon comes back and reads and the time of the exit handler passes:    *)
(* also a call that waits for room in mct_user_log_out_error_handling, and *)
(* mct_free joining the housekeeper.  Not so when the housekeeper has      *)
(* locked itself out.  (The calls are bounded: if each one returns, there  *)
(* comes a time when no thread is in one.)                                 *)
Returned(t) == At(t, "idle") \/ At(t, "ended")
CallsReturn ==
  (\E t \in Thread : ~Returned(t))
    ~> (\A t \in Thread : Returned(t)) \/ SelfDeadlock
=============================================================================
