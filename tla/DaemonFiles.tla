---------------------------- MODULE DaemonFiles ----------------------------
(***************************************************************************)
(* The daemon writes every message that it routes to the offline trace and *)
(* to the log storage device, whichever of them is configured; both go on  *)
(* in their directories after a restart.                                   *)
(***************************************************************************)
EXTENDS LogStorage, OfflineTrace

CONSTANTS
  TraceConf,      \* for every configuration, the trace's, or Absent
  MaxTraceFiles   \* bound: names of trace files

(* The sizes of messages and the values of a trace are numbers.            *)
ASSUME DaemonFilesAssumption ==
  \A n \in DOMAIN Conf :
    /\ \A m \in Conf[n].messages : m.size \in Nat
    /\ TraceConf[n] # Absent =>
         TraceConf[n] \in [file_size : Nat, max_size : Nat, by_time : BOOLEAN]

VARIABLE trace
allvars == <<vars, trace>>

Traced == TraceConf[conf.n] # Absent
TraceNext(next) == IF Traced THEN trace' \in next ELSE UNCHANGED trace

InitFiles ==
  /\ Init
  /\ IF Traced THEN trace \in Begin(TraceConf[conf.n], TraceOff)
     ELSE trace = TraceOff

(* mct_daemon_client_send, for a log message that is not from the buffer:  *)
(* first the trace, then the device if one is connected.                   *)
Send(m) ==
  /\ trace.open < MaxTraceFiles
  /\ h.done \/ Traced
  /\ IF h.done THEN Message(m) ELSE UNCHANGED vars
  /\ TraceNext(AddMessage(TraceConf[conf.n], trace, m.size))

(* The daemon ends or dies, and starts again: not without its trace.       *)
Restart ==
  /\ Exit \/ Crash
  /\ trace.open < MaxTraceFiles
  /\ TraceNext({t \in Begin(TraceConf[conf.n], [trace EXCEPT !.open = Closed]) :
                t.open # Closed})

(* What happens to the device only.                                        *)
Device ==
  /\ \/ Connect \/ Disconnect \/ SyncCaches \/ Unplug \/ Plug
     \/ \E m \in DOMAIN conf.found : CrashRotating(m)
  /\ UNCHANGED trace

(* The clock goes on, and the directory of the trace may become read only. *)
Tick ==
  /\ Traced /\ Event
  /\ trace' = [trace EXCEPT !.now = @ + 1]
  /\ UNCHANGED <<conf, h, disk, total>>
Protect ==
  /\ Traced /\ Event
  /\ trace' = [trace EXCEPT !.writable = ~@]
  /\ UNCHANGED <<conf, h, disk, total>>

NextFiles ==
  Restart \/ Device \/ Tick \/ Protect \/ \E m \in DOMAIN conf.found : Send(m)

SpecFiles == InitFiles /\ [][NextFiles]_allvars

-----------------------------------------------------------------------------
(* Properties.                                                             *)

(* The trace stays within OfflineTraceMaxSize, but for one message that is *)
(* longer than a file, and the file that is open is one of the newest that *)
(* are left: making room never takes it away.                              *)
TraceFits ==
  LET c == TraceConf[conf.n]
      current == {x \in trace.files : x.name = trace.open}
  IN Traced /\ trace.open # Closed =>
       /\ current # {}
       /\ \A x \in current :
            /\ \A y \in trace.files : y.time <= x.time
            /\ TotalSize(trace.files) <= c.max_size \/ x.size > c.file_size
=============================================================================
