------------------------- MODULE MctUserLibProofs --------------------------
(***************************************************************************)
(* Proofs about MctUserLib, for every number of application threads, every *)
(* budget and every size of the startup buffer and the FIFO: every log     *)
(* message is in one place, whatever the threads, the housekeeper and the  *)
(* daemon do; what is lost has been counted; and a thread that was made to *)
(* wait for room gets it.                                                  *)
(***************************************************************************)
EXTENDS MctUserLib, FiniteSetTheorems, FunctionTheorems, TLAPS

-----------------------------------------------------------------------------
(* Where a thread is with a log message of its own: in send_log itself, or *)
(* in a function that returns to it.                                       *)

Sending == {"old", "new", "mark", "out", "sent"}
Reporting == {"overflow", "overflow_reset"}
Storing == {"check", "mode", "block", "wait", "push", "flag"}
Resending == {"resend", "resend_next"}

BeforeStore(t) ==
  \/ th[t].pc \in Sending
  \/ th[t].pc \in Reporting /\ th[t].back = "old"
  \/ th[t].pc \in Resending /\ th[t].back = "new"
AfterSent(t) ==
  \/ th[t].pc \in Storing /\ th[t].back = "stored"
  \/ th[t].pc = "stored"
InLog(t) == BeforeStore(t) \/ AfterSent(t)

(* A thread returns to the function that called, and the housekeeper to    *)
(* its own loop.                                                           *)
Returns(t) ==
  /\ th[t].pc \in Reporting => th[t].back \in {"old", "exit_resend"}
  /\ th[t].pc \in Storing =>
       th[t].back \in {"stored", "registered", "forget", "contexts"}
  /\ th[t].pc \in Resending =>
       th[t].back \in {"new", "done", "exit_resent", "flushed"}
HousekeeperFlow ==
  /\ th[HK].pc \in {"idle", "attach", "again", "contexts", "try", "flushed",
                    "ended"} \cup Storing \cup Resending
  /\ th[HK].pc \in Storing => th[HK].back = "contexts"
  /\ th[HK].pc \in Resending => th[HK].back = "flushed"
  /\ th[HK].msg.op # "log"

(* A thread has its last log message at hand while it is in send_log, and  *)
(* else none.                                                              *)
ThreadFlow(t) ==
  /\ Returns(t)
  /\ InLog(t) => th[t].msg = Log(t, logs[t]) /\ logs[t] > 0
  /\ ~InLog(t) => th[t].msg.op # "log"
  /\ t \notin bound.threads => th[t].pc \in {"idle", "ended"}
Flow == (\A t \in Thread : ThreadFlow(t)) /\ HousekeeperFlow

(* Only after exit() has been called a thread is in the exit handler, and  *)
(* then no thread is in send_log.                                          *)
ExitStep(t) ==
  \/ th[t].pc \in {"attach", "again", "contexts", "exit", "exit_overflow",
                   "exit_resend", "exit_resent", "exit_unregister", "stop"}
  \/ th[t].pc \in Reporting /\ th[t].back = "exit_resend"
  \/ th[t].pc \in Resending /\ th[t].back = "exit_resent"
  \/ th[t].pc \in Storing /\ th[t].back = "contexts"
Exits(t) ==
  /\ ExitStep(t) => lost # None
  /\ lost # None => ~InLog(t)
Exiting == \A t \in Thread : Exits(t)

(* Every variable that the flow depends on has its type.                   *)
Typed ==
  /\ TypeOK
  /\ bound \in Bounds /\ logs \in [Thread -> Nat] /\ regs \in [Thread -> Nat]
  /\ DOMAIN written \cup discarded \subseteq {m \in Message : m.op = "log"}

-----------------------------------------------------------------------------
(* Every variable keeps its type.                                          *)

(* The result of a write is one of the library's.                          *)
LEMMA OutResult ==
  ASSUME TypeOK
  PROVE  out3 \in Result /\ out2 \in Result
<1>1. out3 \in Result
  <2>1. PipeRoom \in Nat /\ pipe \in Nat /\ handle \in {"none", "open", "stale"}
    BY UserLibAssumption DEF TypeOK
  <2>. QED BY <2>1 DEF out3, Result
<1>. QED BY <1>1 DEF out2, Result

(* What a write does to the log messages that are written.                 *)
LEMMA WriteEffect ==
  ASSUME Typed, NEW m \in Message, Write(m)
  PROVE  /\ written' \in [DOMAIN written' -> Nat \ {0}]
         /\ DOMAIN written' \subseteq {x \in Message : x.op = "log"}
         /\ ~(out3 = "OK" /\ m.op = "log") => written' = written
         /\ out3 = "OK" /\ m.op = "log" =>
              /\ DOMAIN written' = DOMAIN written \cup {m}
              /\ \A x : TimesWritten(x)' = TimesWritten(x) + Once(x = m)
<1>1. /\ written \in [DOMAIN written -> Nat \ {0}]
      /\ DOMAIN written \subseteq {x \in Message : x.op = "log"}
  BY DEF Typed, TypeOK
<1>2. CASE out3 = "OK" /\ m.op = "log"
  <2>. DEFINE w == [x \in DOMAIN written \cup {m} |->
                      TimesWritten(x) + Once(x = m)]
  <2>1. written' = w
    BY <1>2 DEF Write
  <2>2. DOMAIN w = DOMAIN written \cup {m}
    OBVIOUS
  <2>3. \A x \in DOMAIN w : TimesWritten(x) + Once(x = m) \in Nat \ {0}
    BY <1>1 DEF TimesWritten, Written, Once
  <2>4. w \in [DOMAIN w -> Nat \ {0}]
    BY <2>2, <2>3
  <2>5. \A x : TimesWritten(x)' = TimesWritten(x) + Once(x = m)
    <3>1. ASSUME NEW x
          PROVE  TimesWritten(x)' = IF x \in DOMAIN w THEN w[x] ELSE 0
      BY <2>1 DEF TimesWritten, Written
    <3>2. ASSUME NEW x, x \in DOMAIN w
          PROVE  TimesWritten(x)' = TimesWritten(x) + Once(x = m)
      BY <3>1, <3>2
    <3>3. ASSUME NEW x, x \notin DOMAIN w
          PROVE  TimesWritten(x)' = 0 /\ TimesWritten(x) = 0 /\ Once(x = m) = 0
      BY <2>2, <3>1, <3>3 DEF TimesWritten, Written, Once
    <3>. QED BY <3>2, <3>3
  <2>. HIDE DEF w
  <2>. QED BY <1>1, <1>2, <2>1, <2>2, <2>4, <2>5
<1>3. CASE ~(out3 = "OK" /\ m.op = "log")
  BY <1>1, <1>3 DEF Write
<1>. QED BY <1>2, <1>3

LEMMA WriteTyped ==
  ASSUME Typed, NEW m \in Message, Write(m)
  PROVE  /\ pipe' \in 0 .. PipeRoom
         /\ written' \in [DOMAIN written' -> Nat \ {0}]
         /\ DOMAIN written' \subseteq {x \in Message : x.op = "log"}
<1>1. pipe' \in 0 .. PipeRoom
  BY UserLibAssumption DEF Typed, TypeOK, Write, out3
<1>. QED BY <1>1, WriteEffect

LEMMA PushTyped ==
  ASSUME Typed, NEW m \in Message, Push(m)
  PROVE  /\ startup_buffer' \in Seq(Message) /\ Len(startup_buffer') <= Capacity
         /\ at_max' \in BOOLEAN
         /\ discarded' \subseteq {x \in Message : x.op = "log"}
<1>1. CASE Full
  BY <1>1 DEF Typed, TypeOK, Push
<1>2. CASE ~Full
  <2>1. /\ startup_buffer \in Seq(Message) /\ Len(startup_buffer) < Capacity
        /\ startup_buffer' = Append(startup_buffer, m)
    BY <1>2, UserLibAssumption DEF Typed, TypeOK, Push, Full
  <2>2. /\ startup_buffer' \in Seq(Message)
        /\ Len(startup_buffer') = Len(startup_buffer) + 1
    BY <2>1
  <2>3. Len(startup_buffer') <= Capacity
    BY <2>1, <2>2, UserLibAssumption
  <2>4. at_max' \in BOOLEAN /\ UNCHANGED discarded
    BY <1>2 DEF Typed, TypeOK, Push
  <2>. QED BY <2>2, <2>3, <2>4 DEF Typed, TypeOK
<1>. QED BY <1>1, <1>2

(* The messages that are written or stored, and the steps a thread may be  *)
(* sent to, are known.                                                     *)
LEMMA Messages ==
  /\ \A op \in {"none", "register", "context", "unregister", "overflow"} :
       Control(op) \in Message
  /\ \A t \in Thread : \A n \in Nat : Log(t, n) \in Message
BY DEF Message, Control, Log

LEMMA Steps ==
  /\ "idle" \in Step /\ "overflow" \in Step /\ "overflow_reset" \in Step
  /\ "old" \in Step /\ "new" \in Step /\ "mark" \in Step /\ "out" \in Step
  /\ "sent" \in Step /\ "stored" \in Step /\ "check" \in Step /\ "mode" \in Step
  /\ "block" \in Step /\ "wait" \in Step /\ "push" \in Step /\ "flag" \in Step
  /\ "resend" \in Step /\ "resend_next" \in Step /\ "register" \in Step
  /\ "registered" \in Step /\ "done" \in Step /\ "forget" \in Step
  /\ "attach" \in Step /\ "again" \in Step /\ "contexts" \in Step
  /\ "try" \in Step /\ "flushed" \in Step /\ "exit" \in Step
  /\ "exit_overflow" \in Step /\ "exit_resend" \in Step
  /\ "exit_resent" \in Step /\ "exit_unregister" \in Step /\ "stop" \in Step
  /\ "ended" \in Step
BY DEF Step

LEMMA Results ==
  "OK" \in Result /\ "ERROR" \in Result /\ "BUFFER_FULL" \in Result
BY DEF Result

ThreadState == [pc : Step, msg : Message, ret : Result, res : Result,
                count : Nat, back : Step]
LEMMA ThreadTyped == Typed => th \in [All -> ThreadState]
BY DEF Typed, TypeOK, ThreadState

LEMMA IdleTyped ==
  ASSUME NEW pc \in Step
  PROVE  [Idle EXCEPT !.pc = pc] \in ThreadState
<1>1. Control("none") \in Message
  BY Messages
<1>. QED BY <1>1, Steps, Results DEF Idle, ThreadState

(* ... what a thread does within a call ...                                *)
LEMMA ContinuesTyped ==
  ASSUME Typed, NEW t \in All, Continues(t)
  PROVE  Typed'
<1>1. CASE SendOverflow(t)
  <2>1. th' \in [All -> ThreadState]
    BY <1>1, ThreadTyped, Steps, Messages, Results, OutResult
    DEF ThreadState, SendOverflow, At, Goto, out2, Typed
  <2>2. reported' \in Nat
    BY <1>1 DEF Typed, TypeOK, SendOverflow
  <2>3. Write(Control("overflow")) /\ Control("overflow") \in Message
    BY <1>1, Messages DEF SendOverflow
  <2>4. /\ pipe' \in 0 .. PipeRoom /\ written' \in [DOMAIN written' -> Nat \ {0}]
        /\ DOMAIN written' \subseteq {x \in Message : x.op = "log"}
    BY <2>3, WriteTyped
  <2>. QED
    BY <1>1, <2>1, <2>2, <2>4
    DEF Typed, TypeOK, ThreadState, external, limits, shared, races, SendOverflow
<1>2. CASE OverflowReset(t)
  <2>1. th' \in [All -> ThreadState]
    BY <1>2, ThreadTyped, Steps, Results
    DEF ThreadState, OverflowReset, At, Goto
  <2>. QED
    BY <1>2, <2>1, Messages, OutResult, UserLibAssumption
    DEF Typed, TypeOK, ThreadState, external, limits, shared, history, races,
        OverflowReset, At, Goto
<1>3. CASE SendOld(t)
  <2>1. th' \in [All -> ThreadState]
    BY <1>3, ThreadTyped, Steps, Results
    DEF ThreadState, SendOld, At, CallResend
  <2>. QED
    BY <1>3, <2>1, Messages, OutResult, UserLibAssumption
    DEF Typed, TypeOK, ThreadState, external, limits, shared, history, races,
        SendOld, At, CallResend
<1>4. CASE SendNew(t)
  <2>1. th' \in [All -> ThreadState]
    BY <1>4, ThreadTyped, Steps, Results
    DEF ThreadState, SendNew, At, Goto
  <2>. QED
    BY <1>4, <2>1, Messages, OutResult, UserLibAssumption
    DEF Typed, TypeOK, ThreadState, external, limits, shared, history, races,
        SendNew, At, Goto
<1>5. CASE MarkEmpty(t)
  <2>1. th' \in [All -> ThreadState]
    BY <1>5, ThreadTyped, Steps, Results
    DEF ThreadState, MarkEmpty, At, Goto
  <2>. QED
    BY <1>5, <2>1, Messages, OutResult, UserLibAssumption
    DEF Typed, TypeOK, ThreadState, external, limits, shared, history, races,
        MarkEmpty, At, Goto
<1>6. CASE OutNew(t)
  <2>1. th' \in [All -> ThreadState]
    BY <1>6, ThreadTyped, Steps, Results, OutResult
    DEF ThreadState, OutNew, At, Typed
  <2>. QED
    BY <1>6, <2>1, Messages, OutResult, UserLibAssumption, WriteTyped
    DEF Typed, TypeOK, ThreadState, external, limits, shared, history, races,
        OutNew, At
<1>7. CASE Sent(t)
  <2>1. th' \in [All -> ThreadState]
    BY <1>7, ThreadTyped, Steps, Messages, Results, IdleTyped
    DEF ThreadState, Sent, At, CallStore, Finish, Enter, ToBeStored
  <2>. QED
    BY <1>7, <2>1, Messages, OutResult, UserLibAssumption
    DEF Typed, TypeOK, ThreadState, external, limits, shared, history, races,
        Sent, At, CallStore, Finish, Enter, ToBeStored
<1>8. CASE Stored(t)
  <2>1. th' \in [All -> ThreadState]
    BY <1>8, ThreadTyped, Steps, Results, IdleTyped
    DEF ThreadState, Stored, At, Finish, Enter
  <2>. QED
    BY <1>8, <2>1
    DEF Typed, TypeOK, ThreadState, external, limits, shared, history, races,
        Stored, At, Finish, Enter
<1>9. CASE SendRegister(t)
  <2>1. th' \in [All -> ThreadState]
    <3>1. out3 \in Result /\ Control("register") \in Message
      BY OutResult, Messages DEF Typed
    <3>. QED
      BY <1>9, <3>1, ThreadTyped, Steps, Results
      DEF ThreadState, SendRegister, At, CallStore
  <2>. QED
    BY <1>9, <2>1, Messages, OutResult, UserLibAssumption, WriteTyped
    DEF Typed, TypeOK, ThreadState, external, limits, shared, history, races,
        SendRegister, At, CallStore
<1>10. CASE RegisterRefused(t)
  <2>1. th' \in [All -> ThreadState]
    BY <1>10, ThreadTyped, Steps, Results, IdleTyped
    DEF ThreadState, RegisterRefused, At, Finish, Enter
  <2>. QED
    BY <1>10, <2>1, Messages, OutResult, UserLibAssumption
    DEF Typed, TypeOK, ThreadState, external, limits, shared, history, races,
        RegisterRefused, At, Finish, Enter
<1>11. CASE Registered(t)
  <2>1. th' \in [All -> ThreadState]
    BY <1>11, ThreadTyped, Steps, Results, IdleTyped
    DEF ThreadState, Registered, At, CallResend, Finish, Enter
  <2>. QED
    BY <1>11, <2>1, Messages, OutResult, UserLibAssumption
    DEF Typed, TypeOK, ThreadState, external, limits, shared, history, races,
        Registered, At, CallResend, Finish, Enter
<1>12. CASE RegisterDone(t)
  <2>1. th' \in [All -> ThreadState]
    BY <1>12, ThreadTyped, Steps, Results, IdleTyped
    DEF ThreadState, RegisterDone, At, Finish, Enter
  <2>. QED
    BY <1>12, <2>1, Messages, OutResult, UserLibAssumption
    DEF Typed, TypeOK, ThreadState, external, limits, shared, history, races,
        RegisterDone, At, Finish, Enter
<1>13. CASE Forget(t)
  <2>1. th' \in [All -> ThreadState]
    BY <1>13, ThreadTyped, Steps, Results, IdleTyped
    DEF ThreadState, Forget, At, Enter
  <2>. QED
    BY <1>13, <2>1, Messages, OutResult, UserLibAssumption
    DEF Typed, TypeOK, ThreadState, external, limits, shared, history, races,
        Forget, At, Enter
<1>14. CASE CheckSize(t)
  <2>1. th' \in [All -> ThreadState]
    BY <1>14, ThreadTyped, Steps, Results
    DEF ThreadState, CheckSize, At, Goto
  <2>. QED
    BY <1>14, <2>1, Messages, OutResult, UserLibAssumption
    DEF Typed, TypeOK, ThreadState, external, limits, shared, history, races,
        CheckSize, At, Goto
<1>15. CASE Block(t)
  <2>1. th' \in [All -> ThreadState]
    BY <1>15, ThreadTyped, Steps, Results
    DEF ThreadState, Block, At, Goto
  <2>. QED
    BY <1>15, <2>1, Messages, OutResult, UserLibAssumption
    DEF Typed, TypeOK, ThreadState, external, limits, shared, history, races,
        Block, At, Goto
<1>16. CASE Wake(t)
  <2>1. th' \in [All -> ThreadState]
    BY <1>16, ThreadTyped, Steps, Results
    DEF ThreadState, Wake, At, Return, PushResult, Full
  <2>. QED
    BY <1>16, <2>1, Messages, OutResult, UserLibAssumption, PushTyped
    DEF Typed, TypeOK, ThreadState, external, limits, shared, history, races,
        Wake, At, Return, PushResult, Full
<1>17. CASE Store(t)
  <2>1. th' \in [All -> ThreadState]
    BY <1>17, ThreadTyped, Steps, Results
    DEF ThreadState, Store, At, PushResult, Full
  <2>. QED
    BY <1>17, <2>1, Messages, OutResult, UserLibAssumption, PushTyped
    DEF Typed, TypeOK, ThreadState, external, limits, shared, history, races,
        Store, At, PushResult, Full
<1>18. CASE Flag(t)
  <2>1. th' \in [All -> ThreadState]
    BY <1>18, ThreadTyped, Steps, Results
    DEF ThreadState, Flag, At, Goto
  <2>. QED
    BY <1>18, <2>1, Messages, OutResult, UserLibAssumption
    DEF Typed, TypeOK, ThreadState, external, limits, shared, history, races,
        Flag, At, Goto
<1>19. CASE Resend(t)
  <2>1. th' \in [All -> ThreadState]
    <3>1. CASE registered
      <4>1. Len(startup_buffer) \in Nat
        BY DEF Typed, TypeOK
      <4>. QED
        BY <1>19, <3>1, <4>1, ThreadTyped, Steps DEF ThreadState, Resend
    <3>2. CASE ~registered
      BY <1>19, <3>2, ThreadTyped, Results DEF ThreadState, Resend, Return
    <3>. QED BY <3>1, <3>2
  <2>. QED
    BY <1>19, <2>1, Messages, OutResult, UserLibAssumption
    DEF Typed, TypeOK, ThreadState, external, limits, shared, history, races,
        Resend, At, Return
<1>20. CASE ResendNext(t)
  <2>1. /\ startup_buffer \in Seq(Message) /\ startup_buffer # <<>>
        /\ Len(startup_buffer) <= Capacity
    BY <1>20 DEF ResendNext, Typed, TypeOK
  <2>2. /\ Head(startup_buffer) \in Message
        /\ Tail(startup_buffer) \in Seq(Message)
        /\ Len(Tail(startup_buffer)) <= Capacity
    BY <2>1, UserLibAssumption
  <2>3. /\ startup_buffer' \in Seq(Message) /\ Len(startup_buffer') <= Capacity
        /\ at_max' \in BOOLEAN /\ handle' \in {"none", "open", "stale"}
    BY <1>20, <2>1, <2>2 DEF ResendNext, AfterSend, Typed, TypeOK
  <2>4. /\ pipe' \in 0 .. PipeRoom /\ written' \in [DOMAIN written' -> Nat \ {0}]
        /\ DOMAIN written' \subseteq {x \in Message : x.op = "log"}
    BY <1>20, <2>2, WriteTyped DEF ResendNext
  <2>5. th[t] \in ThreadState /\ th[t].count \in Nat /\ th[t].count > 0
    BY <1>20, ThreadTyped DEF ResendNext, ThreadState
  <2>6. th[t].count - 1 \in Nat
    BY <2>5
  <2>7. th' \in [All -> ThreadState]
    <3>1. CASE out3 = "OK"
      <4>1. th' = [th EXCEPT ![t].count = th[t].count - 1]
        BY <1>20, <3>1 DEF ResendNext
      <4>. QED BY <2>6, <4>1, ThreadTyped DEF ThreadState
    <3>2. CASE out3 # "OK"
      <4>1. th' = [th EXCEPT ![t].pc = th[t].back, ![t].res = out3]
        BY <1>20, <3>2 DEF ResendNext, Return
      <4>. QED BY <2>5, <4>1, ThreadTyped, OutResult DEF ThreadState, Typed
    <3>. QED BY <3>1, <3>2
  <2>. QED
    BY <1>20, <2>3, <2>4, <2>7
    DEF Typed, TypeOK, ThreadState, external, limits, races, ResendNext
<1>21. CASE ResendDone(t)
  <2>1. th' \in [All -> ThreadState]
    BY <1>21, ThreadTyped, Steps, Results
    DEF ThreadState, ResendDone, At, Return
  <2>. QED
    BY <1>21, <2>1, Messages, OutResult, UserLibAssumption
    DEF Typed, TypeOK, ThreadState, external, limits, shared, history, races,
        ResendDone, At, Return
<1>22. CASE Attach(t)
  <2>1. th' \in [All -> ThreadState]
    BY <1>22, ThreadTyped, Steps, Results
    DEF ThreadState, Attach, At, Goto, Attached
  <2>. QED
    BY <1>22, <2>1, Messages, OutResult, UserLibAssumption
    DEF Typed, TypeOK, ThreadState, external, limits, shared, history, races,
        Attach, At, Goto, Attached
<1>23. CASE RegisterAgain(t)
  <2>1. th' \in [All -> ThreadState]
    BY <1>23, ThreadTyped, Steps, Messages, Results, OutResult
    DEF ThreadState, RegisterAgain, At, CallStore, Goto, Typed
  <2>. QED
    BY <1>23, <2>1, Messages, OutResult, UserLibAssumption, WriteTyped
    DEF Typed, TypeOK, ThreadState, external, limits, shared, history, races,
        RegisterAgain, At, CallStore, Goto
<1>24. CASE ContextAgain(t)
  <2>1. th' \in [All -> ThreadState]
    <3>1. out3 \in Result /\ Control("context") \in Message
      BY OutResult, Messages DEF Typed
    <3>2. th[t].count \in Nat /\ th[t].count > 0
      BY <1>24, ThreadTyped DEF ThreadState, ContextAgain, MoreContexts
    <3>3. th[t].count - 1 \in Nat
      BY <3>2
    <3>4. th[t] \in ThreadState /\ th' = [th EXCEPT ![t] = th'[t]]
      BY <1>24, ThreadTyped DEF ContextAgain
    <3>5. th'[t] = [th[t] EXCEPT !.count = @ - 1,
                      !.pc = IF out3 = "OK" THEN th[t].pc ELSE "check",
                      !.msg = Control("context"), !.ret = out3,
                      !.back = "contexts"]
      BY <1>24, ThreadTyped DEF ContextAgain
    <3>6. th'[t] \in ThreadState
      BY <3>1, <3>3, <3>4, <3>5, Steps DEF ThreadState
    <3>. QED
      BY <3>4, <3>6, ThreadTyped
  <2>. QED
    BY <1>24, <2>1, Messages, OutResult, UserLibAssumption, WriteTyped
    DEF Typed, TypeOK, ThreadState, external, limits, shared, history, races,
        ContextAgain, At, MoreContexts
<1>25. CASE ContextsDone(t)
  <2>1. th' \in [All -> ThreadState]
    BY <1>25, ThreadTyped, Steps, Results
    DEF ThreadState, ContextsDone, At, Goto, Attached
  <2>. QED
    BY <1>25, <2>1, Messages, OutResult, UserLibAssumption
    DEF Typed, TypeOK, ThreadState, external, limits, shared, history, races,
        ContextsDone, At, Goto, Attached
<1>26. CASE ExitTries(t)
  <2>1. th' \in [All -> ThreadState]
    BY <1>26, ThreadTyped, Steps, Results, IdleTyped
    DEF ThreadState, ExitTries, At, Enter
  <2>. QED
    BY <1>26, <2>1, Messages, OutResult, UserLibAssumption
    DEF Typed, TypeOK, ThreadState, external, limits, shared, history, races,
        ExitTries, At, Enter
<1>27. CASE ExitTimeout(t)
  <2>1. th' \in [All -> ThreadState]
    BY <1>27, ThreadTyped, Steps, Results, IdleTyped
    DEF ThreadState, ExitTimeout, At, Enter
  <2>. QED
    BY <1>27, <2>1, Messages, OutResult, UserLibAssumption
    DEF Typed, TypeOK, ThreadState, external, limits, shared, history, races,
        ExitTimeout, At, Enter, LeftOver
<1>28. CASE ExitOverflow(t)
  <2>1. th' \in [All -> ThreadState]
    BY <1>28, ThreadTyped, Steps, Results
    DEF ThreadState, ExitOverflow, At
  <2>. QED
    BY <1>28, <2>1, Messages, OutResult, UserLibAssumption
    DEF Typed, TypeOK, ThreadState, external, limits, shared, history, races,
        ExitOverflow, At
<1>29. CASE ExitResend(t)
  <2>1. th' \in [All -> ThreadState]
    BY <1>29, ThreadTyped, Steps, Results, IdleTyped
    DEF ThreadState, ExitResend, At, Enter, CallResend
  <2>. QED
    BY <1>29, <2>1, Messages, OutResult, UserLibAssumption
    DEF Typed, TypeOK, ThreadState, external, limits, shared, history, races,
        ExitResend, At, Enter, CallResend
<1>30. CASE ExitResent(t)
  <2>1. th' \in [All -> ThreadState]
    BY <1>30, ThreadTyped, Steps, Results, IdleTyped
    DEF ThreadState, ExitResent, At, Enter
  <2>2. lost' \in Nat \cup {None}
    BY <1>30 DEF Typed, TypeOK, ExitResent, LeftOver
  <2>. QED
    BY <1>30, <2>1, <2>2, Messages, OutResult, UserLibAssumption
    DEF Typed, TypeOK, ThreadState, external, limits, shared, history, races,
        ExitResent, At, Enter
<1>31. CASE ExitUnregister(t)
  <2>1. th' \in [All -> ThreadState]
    BY <1>31, ThreadTyped, Steps, Messages, Results, OutResult
    DEF ThreadState, ExitUnregister, At, SendUnregister, out2, CallStore, Goto, Typed
  <2>. QED
    BY <1>31, <2>1, Messages, OutResult, UserLibAssumption, WriteTyped
    DEF Typed, TypeOK, ThreadState, external, limits, shared, history, races,
        ExitUnregister, At, SendUnregister, out2, CallStore, Goto
<1>32. CASE Stop(t)
  <2>1. th' \in [All -> ThreadState]
    BY <1>32, ThreadTyped, Steps, Results, IdleTyped
    DEF ThreadState, Stop, At
  <2>. QED
    BY <1>32, <2>1, Messages, OutResult, UserLibAssumption
    DEF Typed, TypeOK, ThreadState, external, limits, shared, history, races,
        Stop, At
<1>. QED BY <1>1, <1>2, <1>3, <1>4, <1>5, <1>6, <1>7, <1>8, <1>9, <1>10, <1>11, <1>12, <1>13, <1>14, <1>15, <1>16, <1>17, <1>18, <1>19, <1>20, <1>21, <1>22, <1>23, <1>24, <1>25, <1>26, <1>27, <1>28, <1>29, <1>30, <1>31, <1>32 DEF Continues

(* ... the calls ...                                                       *)
LEMMA CallsTyped ==
  ASSUME Typed, NEW t \in Thread, ApplicationCalls(t)
  PROVE  Typed'
<1>1. CASE SendLog(t)
  <2>1. th' \in [All -> ThreadState]
    <3>1. Log(t, logs[t] + 1) \in Message
      BY Messages DEF Typed
    <3>. QED
      BY <1>1, <3>1, ThreadTyped, Steps DEF ThreadState, SendLog
  <2>2. logs' \in [Thread -> Nat]
    BY <1>1 DEF Typed, TypeOK, SendLog
  <2>. QED
    BY <1>1, <2>1, <2>2
    DEF Typed, TypeOK, ThreadState, external, limits, shared, history, races,
        SendLog
<1>2. CASE Register(t)
  <2>1. th' \in [All -> ThreadState]
    BY <1>2, ThreadTyped, Steps, Results
    DEF ThreadState, Register, MayCall, At, Goto
  <2>2. regs' \in [Thread -> Nat] /\ registered' = TRUE
    BY <1>2 DEF Typed, TypeOK, Register
  <2>. QED
    BY <1>2, <2>1, <2>2
    DEF Typed, TypeOK, ThreadState, external, limits, shared, history, races,
        Register
<1>3. CASE Unregister(t)
  <2>1. th' \in [All -> ThreadState]
    <3>1. out2 \in Result /\ Control("unregister") \in Message
      BY OutResult, Messages DEF Typed
    <3>. QED
      BY <1>3, <3>1, ThreadTyped, Steps, Results
      DEF ThreadState, Unregister, SendUnregister, CallStore, Goto, All
  <2>. QED
    BY <1>3, <2>1, Messages, OutResult, UserLibAssumption, WriteTyped
    DEF Typed, TypeOK, ThreadState, external, limits, shared, history, races,
        Unregister, MayCall, At, SendUnregister, out2, CallStore, Goto
<1>4. CASE Exit(t)
  <2>1. th' \in [All -> ThreadState]
    BY <1>4, ThreadTyped, Steps, Results
    DEF ThreadState, Exit, MayCall, At, Goto
  <2>2. lost' \in Nat
    BY <1>4 DEF Typed, TypeOK, Exit, LeftOver
  <2>. QED
    BY <1>4, <2>1, <2>2
    DEF Typed, TypeOK, ThreadState, external, limits, shared, history, races,
        Exit
<1>. QED BY <1>1, <1>2, <1>3, <1>4 DEF ApplicationCalls

(* ... the housekeeper, the daemon, and everything together.               *)
LEMMA NextTyped ==
  ASSUME Typed, [Next]_vars
  PROVE  Typed'
<1>1. CASE Housekeep
  <2>1. th' \in [All -> ThreadState]
    BY <1>1, ThreadTyped, Steps, Results
    DEF ThreadState, All, Housekeep, At, Goto
  <2>. QED
    BY <1>1, <2>1, Messages, OutResult, UserLibAssumption
    DEF Typed, TypeOK, ThreadState, external, limits, shared, history, races,
        Housekeep, At, Goto
<1>2. CASE TryFlush
  <2>1. th' \in [All -> ThreadState]
    BY <1>2, ThreadTyped, Steps, Results, IdleTyped
    DEF ThreadState, All, TryFlush, At, CallResend, Finish, Enter
  <2>. QED
    BY <1>2, <2>1, Messages, OutResult, UserLibAssumption
    DEF Typed, TypeOK, ThreadState, external, limits, shared, history, races,
        TryFlush, At, CallResend, Finish, Enter
<1>3. CASE Flushed
  <2>1. th' \in [All -> ThreadState]
    BY <1>3, ThreadTyped, Steps, Results, IdleTyped
    DEF ThreadState, All, Flushed, At, Finish, Enter
  <2>. QED
    BY <1>3, <2>1, Messages, OutResult, UserLibAssumption
    DEF Typed, TypeOK, ThreadState, external, limits, shared, history, races,
        Flushed, At, Finish, Enter, Signal
<1>4. ASSUME NEW b \in BOOLEAN, SetBlockMode(b)
      PROVE  Typed'
  BY <1>4 DEF Typed, TypeOK, external, limits, shared, history, races,
     SetBlockMode, Signal
<1>5. CASE DaemonReads
  BY <1>5, UserLibAssumption
  DEF Typed, TypeOK, external, limits, shared, history, races, DaemonReads
<1>6. CASE DaemonCrashes
  BY <1>6, UserLibAssumption
  DEF Typed, TypeOK, external, limits, shared, history, races, DaemonCrashes
<1>7. CASE DaemonStarts
  BY <1>7 DEF Typed, TypeOK, external, limits, shared, history, races,
     DaemonStarts
<1>8. CASE UNCHANGED vars
  BY <1>8 DEF Typed, TypeOK, external, limits, shared, history, races, vars
<1>9. ASSUME NEW t \in All, Continues(t)
      PROVE  Typed'
  BY <1>9, ContinuesTyped
<1>10. ASSUME NEW t \in Thread, ApplicationCalls(t)
       PROVE  Typed'
  BY <1>10, CallsTyped
<1>. QED
  BY <1>1, <1>2, <1>3, <1>4, <1>5, <1>6, <1>7, <1>8, <1>9, <1>10
  DEF Next, Housekeeper, All

-----------------------------------------------------------------------------
(* A thread goes from step to step as Flow says, and no other thread moves *)
(* it.                                                                     *)

LEMMA FlowKept ==
  ASSUME Flow, NEW u \in All, UNCHANGED bound,
         \A v \in All \ {u} : th'[v] = th[v],
         \A v \in Thread \ {u} : logs'[v] = logs[v],
         u \in Thread => ThreadFlow(u)',
         u = HK => HousekeeperFlow'
  PROVE  Flow'
<1>1. ASSUME NEW v \in Thread, v # u
      PROVE  ThreadFlow(v)'
  BY <1>1 DEF Flow, All, ThreadFlow, InLog, BeforeStore, AfterSent, Returns
<1>2. u # HK => HousekeeperFlow'
  BY DEF Flow, All, HousekeeperFlow
<1>. QED BY <1>1, <1>2 DEF Flow

LEMMA Kinds ==
  /\ \A t, n : Log(t, n).op = "log"
  /\ \A op : Control(op).op = op /\ Idle.msg = Control("none")
  /\ HK \notin Thread /\ HK \in All /\ Thread \subseteq All
BY UserLibAssumption DEF Log, Control, Idle, All

LEMMA ContinuesFlow ==
  ASSUME Typed, Flow, NEW t \in All, Continues(t)
  PROVE  Flow'
<1>1. CASE SendOverflow(t)
  <2>1. \A v \in All \ {t} : th'[v] = th[v]
    BY <1>1, ThreadTyped DEF ThreadState, SendOverflow, At, Goto
  <2>2. t \in Thread => ThreadFlow(t)'
    BY <1>1, ThreadTyped, Kinds
    DEF ThreadState, Flow, ThreadFlow, Returns, InLog, BeforeStore, AfterSent,
        Sending, Reporting, Storing, Resending,
        limits, external, SendOverflow, At, Goto
  <2>3. t = HK => HousekeeperFlow'
    BY <1>1, ThreadTyped, Kinds
    DEF ThreadState, Flow, HousekeeperFlow, Storing, Resending,
        SendOverflow, At, Goto
  <2>. QED
    BY <1>1, <2>1, <2>2, <2>3, FlowKept DEF external, limits, SendOverflow
<1>2. CASE OverflowReset(t)
  <2>1. \A v \in All \ {t} : th'[v] = th[v]
    BY <1>2, ThreadTyped DEF ThreadState, OverflowReset, At, Goto
  <2>2. t \in Thread => ThreadFlow(t)'
    BY <1>2, ThreadTyped, Kinds
    DEF ThreadState, Flow, ThreadFlow, Returns, InLog, BeforeStore, AfterSent,
        Sending, Reporting, Storing, Resending,
        limits, external, OverflowReset, At, Goto
  <2>3. t = HK => HousekeeperFlow'
    BY <1>2, ThreadTyped, Kinds
    DEF ThreadState, Flow, HousekeeperFlow, Storing, Resending,
        OverflowReset, At, Goto
  <2>. QED
    BY <1>2, <2>1, <2>2, <2>3, FlowKept DEF external, limits, OverflowReset
<1>3. CASE SendOld(t)
  <2>1. \A v \in All \ {t} : th'[v] = th[v]
    BY <1>3, ThreadTyped DEF ThreadState, SendOld, At, CallResend
  <2>2. t \in Thread => ThreadFlow(t)'
    BY <1>3, ThreadTyped, Kinds
    DEF ThreadState, Flow, ThreadFlow, Returns, InLog, BeforeStore, AfterSent,
        Sending, Reporting, Storing, Resending,
        limits, external, SendOld, At, CallResend
  <2>3. t = HK => HousekeeperFlow'
    BY <1>3, ThreadTyped, Kinds
    DEF ThreadState, Flow, HousekeeperFlow, Storing, Resending,
        SendOld, At, CallResend
  <2>. QED
    BY <1>3, <2>1, <2>2, <2>3, FlowKept DEF external, limits, SendOld
<1>4. CASE SendNew(t)
  <2>1. \A v \in All \ {t} : th'[v] = th[v]
    BY <1>4, ThreadTyped DEF ThreadState, SendNew, At, Goto
  <2>2. t \in Thread => ThreadFlow(t)'
    BY <1>4, ThreadTyped, Kinds
    DEF ThreadState, Flow, ThreadFlow, Returns, InLog, BeforeStore, AfterSent,
        Sending, Reporting, Storing, Resending,
        limits, external, SendNew, At, Goto
  <2>3. t = HK => HousekeeperFlow'
    BY <1>4, ThreadTyped, Kinds
    DEF ThreadState, Flow, HousekeeperFlow, Storing, Resending,
        SendNew, At, Goto
  <2>. QED
    BY <1>4, <2>1, <2>2, <2>3, FlowKept DEF external, limits, SendNew
<1>5. CASE MarkEmpty(t)
  <2>1. \A v \in All \ {t} : th'[v] = th[v]
    BY <1>5, ThreadTyped DEF ThreadState, MarkEmpty, At, Goto
  <2>2. t \in Thread => ThreadFlow(t)'
    BY <1>5, ThreadTyped, Kinds
    DEF ThreadState, Flow, ThreadFlow, Returns, InLog, BeforeStore, AfterSent,
        Sending, Reporting, Storing, Resending,
        limits, external, MarkEmpty, At, Goto
  <2>3. t = HK => HousekeeperFlow'
    BY <1>5, ThreadTyped, Kinds
    DEF ThreadState, Flow, HousekeeperFlow, Storing, Resending,
        MarkEmpty, At, Goto
  <2>. QED
    BY <1>5, <2>1, <2>2, <2>3, FlowKept DEF external, limits, MarkEmpty
<1>6. CASE OutNew(t)
  <2>1. \A v \in All \ {t} : th'[v] = th[v]
    BY <1>6, ThreadTyped DEF ThreadState, OutNew, At
  <2>2. t \in Thread => ThreadFlow(t)'
    BY <1>6, ThreadTyped, Kinds
    DEF ThreadState, Flow, ThreadFlow, Returns, InLog, BeforeStore, AfterSent,
        Sending, Reporting, Storing, Resending,
        limits, external, OutNew, At
  <2>3. t = HK => HousekeeperFlow'
    BY <1>6, ThreadTyped, Kinds
    DEF ThreadState, Flow, HousekeeperFlow, Storing, Resending,
        OutNew, At
  <2>. QED
    BY <1>6, <2>1, <2>2, <2>3, FlowKept DEF external, limits, OutNew
<1>7. CASE Sent(t)
  <2>1. \A v \in All \ {t} : th'[v] = th[v]
    BY <1>7, ThreadTyped DEF ThreadState, Sent, At, CallStore, Finish, Enter, Idle
  <2>2. t \in Thread => ThreadFlow(t)'
    BY <1>7, ThreadTyped, Kinds
    DEF ThreadState, Flow, ThreadFlow, Returns, InLog, BeforeStore, AfterSent,
        Sending, Reporting, Storing, Resending,
        limits, external, Sent, At, CallStore, Finish, Enter, Idle
  <2>3. t = HK => HousekeeperFlow'
    BY <1>7, ThreadTyped, Kinds
    DEF ThreadState, Flow, HousekeeperFlow, Storing, Resending,
        Sent, At, CallStore, Finish, Enter, Idle
  <2>. QED
    BY <1>7, <2>1, <2>2, <2>3, FlowKept DEF external, limits, Sent
<1>8. CASE Stored(t)
  <2>1. \A v \in All \ {t} : th'[v] = th[v]
    BY <1>8, ThreadTyped DEF ThreadState, Stored, At, Finish, Enter, Idle
  <2>2. t \in Thread => ThreadFlow(t)'
    BY <1>8, ThreadTyped, Kinds
    DEF ThreadState, Flow, ThreadFlow, Returns, InLog, BeforeStore, AfterSent,
        Sending, Reporting, Storing, Resending,
        limits, external, Stored, At, Finish, Enter, Idle
  <2>3. t = HK => HousekeeperFlow'
    BY <1>8, ThreadTyped, Kinds
    DEF ThreadState, Flow, HousekeeperFlow, Storing, Resending,
        Stored, At, Finish, Enter, Idle
  <2>. QED
    BY <1>8, <2>1, <2>2, <2>3, FlowKept DEF external, limits, Stored
<1>9. CASE SendRegister(t)
  <2>1. \A v \in All \ {t} : th'[v] = th[v]
    BY <1>9, ThreadTyped DEF ThreadState, SendRegister, At, CallStore
  <2>2. t \in Thread => ThreadFlow(t)'
    BY <1>9, ThreadTyped, Kinds
    DEF ThreadState, Flow, ThreadFlow, Returns, InLog, BeforeStore, AfterSent,
        Sending, Reporting, Storing, Resending,
        limits, external, SendRegister, At, CallStore
  <2>3. t = HK => HousekeeperFlow'
    BY <1>9, ThreadTyped, Kinds
    DEF ThreadState, Flow, HousekeeperFlow, Storing, Resending,
        SendRegister, At, CallStore
  <2>. QED
    BY <1>9, <2>1, <2>2, <2>3, FlowKept DEF external, limits, SendRegister
<1>10. CASE RegisterRefused(t)
  <2>1. \A v \in All \ {t} : th'[v] = th[v]
    BY <1>10, ThreadTyped DEF ThreadState, RegisterRefused, At, Finish, Enter, Idle
  <2>2. t \in Thread => ThreadFlow(t)'
    BY <1>10, ThreadTyped, Kinds
    DEF ThreadState, Flow, ThreadFlow, Returns, InLog, BeforeStore, AfterSent,
        Sending, Reporting, Storing, Resending,
        limits, external, RegisterRefused, At, Finish, Enter, Idle
  <2>3. t = HK => HousekeeperFlow'
    BY <1>10, ThreadTyped, Kinds
    DEF ThreadState, Flow, HousekeeperFlow, Storing, Resending,
        RegisterRefused, At, Finish, Enter, Idle
  <2>. QED
    BY <1>10, <2>1, <2>2, <2>3, FlowKept DEF external, limits, RegisterRefused
<1>11. CASE Registered(t)
  <2>1. \A v \in All \ {t} : th'[v] = th[v]
    BY <1>11, ThreadTyped DEF ThreadState, Registered, At, CallResend, Finish, Enter, Idle
  <2>2. t \in Thread => ThreadFlow(t)'
    BY <1>11, ThreadTyped, Kinds
    DEF ThreadState, Flow, ThreadFlow, Returns, InLog, BeforeStore, AfterSent,
        Sending, Reporting, Storing, Resending,
        limits, external, Registered, At, CallResend, Finish, Enter, Idle
  <2>3. t = HK => HousekeeperFlow'
    BY <1>11, ThreadTyped, Kinds
    DEF ThreadState, Flow, HousekeeperFlow, Storing, Resending,
        Registered, At, CallResend, Finish, Enter, Idle
  <2>. QED
    BY <1>11, <2>1, <2>2, <2>3, FlowKept DEF external, limits, Registered
<1>12. CASE RegisterDone(t)
  <2>1. \A v \in All \ {t} : th'[v] = th[v]
    BY <1>12, ThreadTyped DEF ThreadState, RegisterDone, At, Finish, Enter, Idle
  <2>2. t \in Thread => ThreadFlow(t)'
    BY <1>12, ThreadTyped, Kinds
    DEF ThreadState, Flow, ThreadFlow, Returns, InLog, BeforeStore, AfterSent,
        Sending, Reporting, Storing, Resending,
        limits, external, RegisterDone, At, Finish, Enter, Idle
  <2>3. t = HK => HousekeeperFlow'
    BY <1>12, ThreadTyped, Kinds
    DEF ThreadState, Flow, HousekeeperFlow, Storing, Resending,
        RegisterDone, At, Finish, Enter, Idle
  <2>. QED
    BY <1>12, <2>1, <2>2, <2>3, FlowKept DEF external, limits, RegisterDone
<1>13. CASE Forget(t)
  <2>1. \A v \in All \ {t} : th'[v] = th[v]
    BY <1>13, ThreadTyped DEF ThreadState, Forget, At, Enter, Idle
  <2>2. t \in Thread => ThreadFlow(t)'
    BY <1>13, ThreadTyped, Kinds
    DEF ThreadState, Flow, ThreadFlow, Returns, InLog, BeforeStore, AfterSent,
        Sending, Reporting, Storing, Resending,
        limits, external, Forget, At, Enter, Idle
  <2>3. t = HK => HousekeeperFlow'
    BY <1>13, ThreadTyped, Kinds
    DEF ThreadState, Flow, HousekeeperFlow, Storing, Resending,
        Forget, At, Enter, Idle
  <2>. QED
    BY <1>13, <2>1, <2>2, <2>3, FlowKept DEF external, limits, Forget
<1>14. CASE CheckSize(t)
  <2>1. \A v \in All \ {t} : th'[v] = th[v]
    BY <1>14, ThreadTyped DEF ThreadState, CheckSize, At, Goto
  <2>2. t \in Thread => ThreadFlow(t)'
    BY <1>14, ThreadTyped, Kinds
    DEF ThreadState, Flow, ThreadFlow, Returns, InLog, BeforeStore, AfterSent,
        Sending, Reporting, Storing, Resending,
        limits, external, CheckSize, At, Goto
  <2>3. t = HK => HousekeeperFlow'
    BY <1>14, ThreadTyped, Kinds
    DEF ThreadState, Flow, HousekeeperFlow, Storing, Resending,
        CheckSize, At, Goto
  <2>. QED
    BY <1>14, <2>1, <2>2, <2>3, FlowKept DEF external, limits, CheckSize
<1>15. CASE Block(t)
  <2>1. \A v \in All \ {t} : th'[v] = th[v]
    BY <1>15, ThreadTyped DEF ThreadState, Block, At, Goto
  <2>2. t \in Thread => ThreadFlow(t)'
    BY <1>15, ThreadTyped, Kinds
    DEF ThreadState, Flow, ThreadFlow, Returns, InLog, BeforeStore, AfterSent,
        Sending, Reporting, Storing, Resending,
        limits, external, Block, At, Goto
  <2>3. t = HK => HousekeeperFlow'
    BY <1>15, ThreadTyped, Kinds
    DEF ThreadState, Flow, HousekeeperFlow, Storing, Resending,
        Block, At, Goto
  <2>. QED
    BY <1>15, <2>1, <2>2, <2>3, FlowKept DEF external, limits, Block
<1>16. CASE Wake(t)
  <2>1. \A v \in All \ {t} : th'[v] = th[v]
    BY <1>16, ThreadTyped DEF ThreadState, Wake, At, Return
  <2>2. t \in Thread => ThreadFlow(t)'
    BY <1>16, ThreadTyped, Kinds
    DEF ThreadState, Flow, ThreadFlow, Returns, InLog, BeforeStore, AfterSent,
        Sending, Reporting, Storing, Resending,
        limits, external, Wake, At, Return
  <2>3. t = HK => HousekeeperFlow'
    BY <1>16, ThreadTyped, Kinds
    DEF ThreadState, Flow, HousekeeperFlow, Storing, Resending,
        Wake, At, Return
  <2>. QED
    BY <1>16, <2>1, <2>2, <2>3, FlowKept DEF external, limits, Wake
<1>17. CASE Store(t)
  <2>1. \A v \in All \ {t} : th'[v] = th[v]
    BY <1>17, ThreadTyped DEF ThreadState, Store, At
  <2>2. t \in Thread => ThreadFlow(t)'
    BY <1>17, ThreadTyped, Kinds
    DEF ThreadState, Flow, ThreadFlow, Returns, InLog, BeforeStore, AfterSent,
        Sending, Reporting, Storing, Resending,
        limits, external, Store, At
  <2>3. t = HK => HousekeeperFlow'
    BY <1>17, ThreadTyped, Kinds
    DEF ThreadState, Flow, HousekeeperFlow, Storing, Resending,
        Store, At
  <2>. QED
    BY <1>17, <2>1, <2>2, <2>3, FlowKept DEF external, limits, Store
<1>18. CASE Flag(t)
  <2>1. \A v \in All \ {t} : th'[v] = th[v]
    BY <1>18, ThreadTyped DEF ThreadState, Flag, At, Goto
  <2>2. t \in Thread => ThreadFlow(t)'
    BY <1>18, ThreadTyped, Kinds
    DEF ThreadState, Flow, ThreadFlow, Returns, InLog, BeforeStore, AfterSent,
        Sending, Reporting, Storing, Resending,
        limits, external, Flag, At, Goto
  <2>3. t = HK => HousekeeperFlow'
    BY <1>18, ThreadTyped, Kinds
    DEF ThreadState, Flow, HousekeeperFlow, Storing, Resending,
        Flag, At, Goto
  <2>. QED
    BY <1>18, <2>1, <2>2, <2>3, FlowKept DEF external, limits, Flag
<1>19. CASE Resend(t)
  <2>1. \A v \in All \ {t} : th'[v] = th[v]
    BY <1>19, ThreadTyped DEF ThreadState, Resend, At, Return
  <2>2. t \in Thread => ThreadFlow(t)'
    BY <1>19, ThreadTyped, Kinds
    DEF ThreadState, Flow, ThreadFlow, Returns, InLog, BeforeStore, AfterSent,
        Sending, Reporting, Storing, Resending,
        limits, external, Resend, At, Return
  <2>3. t = HK => HousekeeperFlow'
    BY <1>19, ThreadTyped, Kinds
    DEF ThreadState, Flow, HousekeeperFlow, Storing, Resending,
        Resend, At, Return
  <2>. QED
    BY <1>19, <2>1, <2>2, <2>3, FlowKept DEF external, limits, Resend
<1>20. CASE ResendNext(t)
  <2>1. \A v \in All \ {t} : th'[v] = th[v]
    BY <1>20, ThreadTyped DEF ThreadState, ResendNext, At, Return
  <2>2. t \in Thread => ThreadFlow(t)'
    BY <1>20, ThreadTyped, Kinds
    DEF ThreadState, Flow, ThreadFlow, Returns, InLog, BeforeStore, AfterSent,
        Sending, Reporting, Storing, Resending,
        limits, external, ResendNext, At, Return
  <2>3. t = HK => HousekeeperFlow'
    BY <1>20, ThreadTyped, Kinds
    DEF ThreadState, Flow, HousekeeperFlow, Storing, Resending,
        ResendNext, At, Return
  <2>. QED
    BY <1>20, <2>1, <2>2, <2>3, FlowKept DEF external, limits, ResendNext
<1>21. CASE ResendDone(t)
  <2>1. \A v \in All \ {t} : th'[v] = th[v]
    BY <1>21, ThreadTyped DEF ThreadState, ResendDone, At, Return
  <2>2. t \in Thread => ThreadFlow(t)'
    BY <1>21, ThreadTyped, Kinds
    DEF ThreadState, Flow, ThreadFlow, Returns, InLog, BeforeStore, AfterSent,
        Sending, Reporting, Storing, Resending,
        limits, external, ResendDone, At, Return
  <2>3. t = HK => HousekeeperFlow'
    BY <1>21, ThreadTyped, Kinds
    DEF ThreadState, Flow, HousekeeperFlow, Storing, Resending,
        ResendDone, At, Return
  <2>. QED
    BY <1>21, <2>1, <2>2, <2>3, FlowKept DEF external, limits, ResendDone
<1>22. CASE Attach(t)
  <2>1. \A v \in All \ {t} : th'[v] = th[v]
    BY <1>22, ThreadTyped DEF ThreadState, Attach, At, Goto, Attached
  <2>2. t \in Thread => ThreadFlow(t)'
    BY <1>22, ThreadTyped, Kinds
    DEF ThreadState, Flow, ThreadFlow, Returns, InLog, BeforeStore, AfterSent,
        Sending, Reporting, Storing, Resending,
        limits, external, Attach, At, Goto, Attached
  <2>3. t = HK => HousekeeperFlow'
    BY <1>22, ThreadTyped, Kinds
    DEF ThreadState, Flow, HousekeeperFlow, Storing, Resending,
        Attach, At, Goto, Attached
  <2>. QED
    BY <1>22, <2>1, <2>2, <2>3, FlowKept DEF external, limits, Attach
<1>23. CASE RegisterAgain(t)
  <2>1. \A v \in All \ {t} : th'[v] = th[v]
    BY <1>23, ThreadTyped DEF ThreadState, RegisterAgain, At, CallStore, Goto
  <2>2. t \in Thread => ThreadFlow(t)'
    BY <1>23, ThreadTyped, Kinds
    DEF ThreadState, Flow, ThreadFlow, Returns, InLog, BeforeStore, AfterSent,
        Sending, Reporting, Storing, Resending,
        limits, external, RegisterAgain, At, CallStore, Goto
  <2>3. t = HK => HousekeeperFlow'
    BY <1>23, ThreadTyped, Kinds
    DEF ThreadState, Flow, HousekeeperFlow, Storing, Resending,
        RegisterAgain, At, CallStore, Goto
  <2>. QED
    BY <1>23, <2>1, <2>2, <2>3, FlowKept DEF external, limits, RegisterAgain
<1>24. CASE ContextAgain(t)
  <2>1. \A v \in All \ {t} : th'[v] = th[v]
    BY <1>24, ThreadTyped DEF ThreadState, ContextAgain, At
  <2>2. t \in Thread => ThreadFlow(t)'
    BY <1>24, ThreadTyped, Kinds
    DEF ThreadState, Flow, ThreadFlow, Returns, InLog, BeforeStore, AfterSent,
        Sending, Reporting, Storing, Resending,
        limits, external, ContextAgain, At
  <2>3. t = HK => HousekeeperFlow'
    BY <1>24, ThreadTyped, Kinds
    DEF ThreadState, Flow, HousekeeperFlow, Storing, Resending,
        ContextAgain, At
  <2>. QED
    BY <1>24, <2>1, <2>2, <2>3, FlowKept DEF external, limits, ContextAgain
<1>25. CASE ContextsDone(t)
  <2>1. \A v \in All \ {t} : th'[v] = th[v]
    BY <1>25, ThreadTyped DEF ThreadState, ContextsDone, At, Goto, Attached
  <2>2. t \in Thread => ThreadFlow(t)'
    BY <1>25, ThreadTyped, Kinds
    DEF ThreadState, Flow, ThreadFlow, Returns, InLog, BeforeStore, AfterSent,
        Sending, Reporting, Storing, Resending,
        limits, external, ContextsDone, At, Goto, Attached
  <2>3. t = HK => HousekeeperFlow'
    BY <1>25, ThreadTyped, Kinds
    DEF ThreadState, Flow, HousekeeperFlow, Storing, Resending,
        ContextsDone, At, Goto, Attached
  <2>. QED
    BY <1>25, <2>1, <2>2, <2>3, FlowKept DEF external, limits, ContextsDone
<1>26. CASE ExitTries(t)
  <2>1. \A v \in All \ {t} : th'[v] = th[v]
    BY <1>26, ThreadTyped DEF ThreadState, ExitTries, At, Enter, Idle
  <2>2. t \in Thread => ThreadFlow(t)'
    BY <1>26, ThreadTyped, Kinds
    DEF ThreadState, Flow, ThreadFlow, Returns, InLog, BeforeStore, AfterSent,
        Sending, Reporting, Storing, Resending,
        limits, external, ExitTries, At, Enter, Idle
  <2>3. t = HK => HousekeeperFlow'
    BY <1>26, ThreadTyped, Kinds
    DEF ThreadState, Flow, HousekeeperFlow, Storing, Resending,
        ExitTries, At, Enter, Idle
  <2>. QED
    BY <1>26, <2>1, <2>2, <2>3, FlowKept DEF external, limits, ExitTries
<1>27. CASE ExitTimeout(t)
  <2>1. \A v \in All \ {t} : th'[v] = th[v]
    BY <1>27, ThreadTyped DEF ThreadState, ExitTimeout, At, Enter, Idle
  <2>2. t \in Thread => ThreadFlow(t)'
    BY <1>27, ThreadTyped, Kinds
    DEF ThreadState, Flow, ThreadFlow, Returns, InLog, BeforeStore, AfterSent,
        Sending, Reporting, Storing, Resending,
        limits, external, ExitTimeout, At, Enter, Idle
  <2>3. t = HK => HousekeeperFlow'
    BY <1>27, ThreadTyped, Kinds
    DEF ThreadState, Flow, HousekeeperFlow, Storing, Resending,
        ExitTimeout, At, Enter, Idle
  <2>. QED
    BY <1>27, <2>1, <2>2, <2>3, FlowKept DEF external, limits, ExitTimeout
<1>28. CASE ExitOverflow(t)
  <2>1. \A v \in All \ {t} : th'[v] = th[v]
    BY <1>28, ThreadTyped DEF ThreadState, ExitOverflow, At
  <2>2. t \in Thread => ThreadFlow(t)'
    BY <1>28, ThreadTyped, Kinds
    DEF ThreadState, Flow, ThreadFlow, Returns, InLog, BeforeStore, AfterSent,
        Sending, Reporting, Storing, Resending,
        limits, external, ExitOverflow, At
  <2>3. t = HK => HousekeeperFlow'
    BY <1>28, ThreadTyped, Kinds
    DEF ThreadState, Flow, HousekeeperFlow, Storing, Resending,
        ExitOverflow, At
  <2>. QED
    BY <1>28, <2>1, <2>2, <2>3, FlowKept DEF external, limits, ExitOverflow
<1>29. CASE ExitResend(t)
  <2>1. \A v \in All \ {t} : th'[v] = th[v]
    BY <1>29, ThreadTyped DEF ThreadState, ExitResend, At, Enter, Idle, CallResend
  <2>2. t \in Thread => ThreadFlow(t)'
    BY <1>29, ThreadTyped, Kinds
    DEF ThreadState, Flow, ThreadFlow, Returns, InLog, BeforeStore, AfterSent,
        Sending, Reporting, Storing, Resending,
        limits, external, ExitResend, At, Enter, Idle, CallResend
  <2>3. t = HK => HousekeeperFlow'
    BY <1>29, ThreadTyped, Kinds
    DEF ThreadState, Flow, HousekeeperFlow, Storing, Resending,
        ExitResend, At, Enter, Idle, CallResend
  <2>. QED
    BY <1>29, <2>1, <2>2, <2>3, FlowKept DEF external, limits, ExitResend
<1>30. CASE ExitResent(t)
  <2>1. \A v \in All \ {t} : th'[v] = th[v]
    BY <1>30, ThreadTyped DEF ThreadState, ExitResent, At, Enter, Idle
  <2>2. t \in Thread => ThreadFlow(t)'
    BY <1>30, ThreadTyped, Kinds
    DEF ThreadState, Flow, ThreadFlow, Returns, InLog, BeforeStore, AfterSent,
        Sending, Reporting, Storing, Resending,
        limits, external, ExitResent, At, Enter, Idle
  <2>3. t = HK => HousekeeperFlow'
    BY <1>30, ThreadTyped, Kinds
    DEF ThreadState, Flow, HousekeeperFlow, Storing, Resending,
        ExitResent, At, Enter, Idle
  <2>. QED
    BY <1>30, <2>1, <2>2, <2>3, FlowKept DEF external, limits, ExitResent
<1>31. CASE ExitUnregister(t)
  <2>1. \A v \in All \ {t} : th'[v] = th[v]
    BY <1>31, ThreadTyped DEF ThreadState, ExitUnregister, At, SendUnregister, CallStore, Goto
  <2>2. t \in Thread => ThreadFlow(t)'
    BY <1>31, ThreadTyped, Kinds
    DEF ThreadState, Flow, ThreadFlow, Returns, InLog, BeforeStore, AfterSent,
        Sending, Reporting, Storing, Resending,
        limits, external, ExitUnregister, At, SendUnregister, CallStore, Goto
  <2>3. t = HK => HousekeeperFlow'
    BY <1>31, ThreadTyped, Kinds
    DEF ThreadState, Flow, HousekeeperFlow, Storing, Resending,
        ExitUnregister, At, SendUnregister, CallStore, Goto
  <2>. QED
    BY <1>31, <2>1, <2>2, <2>3, FlowKept
    DEF external, limits, ExitUnregister, SendUnregister
<1>32. CASE Stop(t)
  <2>1. \A v \in All : th'[v].pc = "ended" /\ th'[v].msg = Control("none")
    BY <1>32, Kinds DEF Stop, Idle
  <2>. QED
    BY <1>32, <2>1, Kinds
    DEF Flow, ThreadFlow, Returns, InLog, BeforeStore, AfterSent,
        Sending, Reporting, Storing, Resending, HousekeeperFlow
<1>. QED BY <1>1, <1>2, <1>3, <1>4, <1>5, <1>6, <1>7, <1>8, <1>9, <1>10, <1>11, <1>12, <1>13, <1>14, <1>15, <1>16, <1>17, <1>18, <1>19, <1>20, <1>21, <1>22, <1>23, <1>24, <1>25, <1>26, <1>27, <1>28, <1>29, <1>30, <1>31, <1>32 DEF Continues

LEMMA CallsFlow ==
  ASSUME Typed, Flow, NEW t \in Thread, ApplicationCalls(t)
  PROVE  Flow'
<1>1. CASE SendLog(t)
  <2>1. \A v \in All \ {t} : th'[v] = th[v]
    BY <1>1, ThreadTyped DEF ThreadState, SendLog, MayCall, At
  <2>2. t \in Thread => ThreadFlow(t)'
    BY <1>1, ThreadTyped, Kinds
    DEF ThreadState, Flow, ThreadFlow, Returns, InLog, BeforeStore, AfterSent,
        Sending, Reporting, Storing, Resending,
        limits, external, SendLog, MayCall, At
  <2>3. t = HK => HousekeeperFlow'
    BY <1>1, ThreadTyped, Kinds
    DEF ThreadState, Flow, HousekeeperFlow, Storing, Resending,
        SendLog, MayCall, At
  <2>. QED
    BY <1>1, <2>1, <2>2, <2>3, FlowKept, Kinds DEF external, limits, SendLog, Typed
<1>2. CASE Register(t)
  <2>1. \A v \in All \ {t} : th'[v] = th[v]
    BY <1>2, ThreadTyped DEF ThreadState, Register, MayCall, At, Goto
  <2>2. t \in Thread => ThreadFlow(t)'
    BY <1>2, ThreadTyped, Kinds
    DEF ThreadState, Flow, ThreadFlow, Returns, InLog, BeforeStore, AfterSent,
        Sending, Reporting, Storing, Resending,
        limits, external, Register, MayCall, At, Goto
  <2>3. t = HK => HousekeeperFlow'
    BY <1>2, ThreadTyped, Kinds
    DEF ThreadState, Flow, HousekeeperFlow, Storing, Resending,
        Register, MayCall, At, Goto
  <2>. QED
    BY <1>2, <2>1, <2>2, <2>3, FlowKept, Kinds DEF external, limits, Register
<1>3. CASE Unregister(t)
  <2>1. \A v \in All \ {t} : th'[v] = th[v]
    BY <1>3, ThreadTyped DEF ThreadState, Unregister, MayCall, At, SendUnregister, CallStore, Goto
  <2>2. t \in Thread => ThreadFlow(t)'
    BY <1>3, ThreadTyped, Kinds
    DEF ThreadState, Flow, ThreadFlow, Returns, InLog, BeforeStore, AfterSent,
        Sending, Reporting, Storing, Resending,
        limits, external, Unregister, MayCall, At, SendUnregister, CallStore, Goto
  <2>3. t = HK => HousekeeperFlow'
    BY <1>3, ThreadTyped, Kinds
    DEF ThreadState, Flow, HousekeeperFlow, Storing, Resending,
        Unregister, MayCall, At, SendUnregister, CallStore, Goto
  <2>. QED
    BY <1>3, <2>1, <2>2, <2>3, FlowKept, Kinds
    DEF external, limits, Unregister, SendUnregister
<1>4. CASE Exit(t)
  <2>1. \A v \in All \ {t} : th'[v] = th[v]
    BY <1>4, ThreadTyped DEF ThreadState, Exit, MayCall, At, Goto
  <2>2. t \in Thread => ThreadFlow(t)'
    BY <1>4, ThreadTyped, Kinds
    DEF ThreadState, Flow, ThreadFlow, Returns, InLog, BeforeStore, AfterSent,
        Sending, Reporting, Storing, Resending,
        limits, external, Exit, MayCall, At, Goto
  <2>3. t = HK => HousekeeperFlow'
    BY <1>4, ThreadTyped, Kinds
    DEF ThreadState, Flow, HousekeeperFlow, Storing, Resending,
        Exit, MayCall, At, Goto
  <2>. QED
    BY <1>4, <2>1, <2>2, <2>3, FlowKept, Kinds DEF external, limits, Exit
<1>. QED BY <1>1, <1>2, <1>3, <1>4 DEF ApplicationCalls

LEMMA NextFlow ==
  ASSUME Typed, Flow, [Next]_vars
  PROVE  Flow'
<1>1. CASE Housekeep
  <2>1. /\ \A v \in All \ {HK} : th'[v] = th[v]
        /\ HousekeeperFlow'
    BY <1>1, ThreadTyped, Kinds
    DEF ThreadState, Flow, HousekeeperFlow, Storing, Resending,
        Housekeep, At, Goto
  <2>. QED
    BY <1>1, <2>1, FlowKept, Kinds DEF external, limits, Housekeep
<1>2. CASE TryFlush
  <2>1. /\ \A v \in All \ {HK} : th'[v] = th[v]
        /\ HousekeeperFlow'
    BY <1>2, ThreadTyped, Kinds
    DEF ThreadState, Flow, HousekeeperFlow, Storing, Resending,
        TryFlush, At, CallResend, Finish, Enter, Idle
  <2>. QED
    BY <1>2, <2>1, FlowKept, Kinds DEF external, limits, TryFlush
<1>3. CASE Flushed
  <2>1. /\ \A v \in All \ {HK} : th'[v] = th[v]
        /\ HousekeeperFlow'
    BY <1>3, ThreadTyped, Kinds
    DEF ThreadState, Flow, HousekeeperFlow, Storing, Resending,
        Flushed, At, Finish, Enter, Idle
  <2>. QED
    BY <1>3, <2>1, FlowKept, Kinds DEF external, limits, Flushed
<1>4. ASSUME UNCHANGED <<th, logs, bound>>
      PROVE  Flow'
  BY <1>4, Kinds
  DEF Flow, ThreadFlow, Returns, InLog, BeforeStore, AfterSent,
        Sending, Reporting, Storing, Resending, HousekeeperFlow
<1>5. ASSUME NEW b \in BOOLEAN, SetBlockMode(b)
      PROVE  Flow'
  BY <1>4, <1>5 DEF SetBlockMode
<1>6. CASE DaemonReads \/ DaemonCrashes \/ DaemonStarts
  BY <1>4, <1>6 DEF DaemonReads, DaemonCrashes, DaemonStarts, external, limits
<1>7. CASE UNCHANGED vars
  BY <1>4, <1>7 DEF vars, external, limits
<1>8. ASSUME NEW t \in All, Continues(t)
      PROVE  Flow'
  BY <1>8, ContinuesFlow
<1>9. ASSUME NEW t \in Thread, ApplicationCalls(t)
      PROVE  Flow'
  BY <1>9, CallsFlow
<1>. QED
  BY <1>1, <1>2, <1>3, <1>5, <1>6, <1>7, <1>8, <1>9, Kinds
  DEF Next, Housekeeper

-----------------------------------------------------------------------------
(* exit() begins when no thread is in send_log, and none is afterwards.    *)

LEMMA ExitingKept ==
  ASSUME Exiting, NEW u \in All, (lost' = None) <=> (lost = None),
         \A v \in All \ {u} : th'[v] = th[v],
         u \in Thread => Exits(u)'
  PROVE  Exiting'
<1>1. ASSUME NEW v \in Thread, v # u
      PROVE  Exits(v)'
  BY <1>1 DEF Exiting, Exits, ExitStep, All, InLog, BeforeStore, AfterSent
<1>. QED BY <1>1 DEF Exiting

LEMMA ContinuesExiting ==
  ASSUME Typed, Flow, Exiting, NEW t \in All, Continues(t)
  PROVE  Exiting'
<1>1. CASE SendOverflow(t)
  <2>1. \A v \in All \ {t} : th'[v] = th[v]
    BY <1>1, ThreadTyped DEF ThreadState, SendOverflow, At, Goto
  <2>2. (lost' = None) <=> (lost = None)
    BY <1>1 DEF external, SendOverflow
  <2>3. t \in Thread => Exits(t)'
    BY <1>1, <2>2, ThreadTyped, Kinds
    DEF ThreadState, ExitStep, Exits, Exiting,
        Flow, ThreadFlow, Returns, InLog, BeforeStore, AfterSent,
        Sending, Reporting, Storing, Resending,
        SendOverflow, At, Goto
  <2>. QED BY <2>1, <2>2, <2>3, ExitingKept
<1>2. CASE OverflowReset(t)
  <2>1. \A v \in All \ {t} : th'[v] = th[v]
    BY <1>2, ThreadTyped DEF ThreadState, OverflowReset, At, Goto
  <2>2. (lost' = None) <=> (lost = None)
    BY <1>2 DEF external, OverflowReset
  <2>3. t \in Thread => Exits(t)'
    BY <1>2, <2>2, ThreadTyped, Kinds
    DEF ThreadState, ExitStep, Exits, Exiting,
        Flow, ThreadFlow, Returns, InLog, BeforeStore, AfterSent,
        Sending, Reporting, Storing, Resending,
        OverflowReset, At, Goto
  <2>. QED BY <2>1, <2>2, <2>3, ExitingKept
<1>3. CASE SendOld(t)
  <2>1. \A v \in All \ {t} : th'[v] = th[v]
    BY <1>3, ThreadTyped DEF ThreadState, SendOld, At, CallResend
  <2>2. (lost' = None) <=> (lost = None)
    BY <1>3 DEF external, SendOld
  <2>3. t \in Thread => Exits(t)'
    BY <1>3, <2>2, ThreadTyped, Kinds
    DEF ThreadState, ExitStep, Exits, Exiting,
        Flow, ThreadFlow, Returns, InLog, BeforeStore, AfterSent,
        Sending, Reporting, Storing, Resending,
        SendOld, At, CallResend
  <2>. QED BY <2>1, <2>2, <2>3, ExitingKept
<1>4. CASE SendNew(t)
  <2>1. \A v \in All \ {t} : th'[v] = th[v]
    BY <1>4, ThreadTyped DEF ThreadState, SendNew, At, Goto
  <2>2. (lost' = None) <=> (lost = None)
    BY <1>4 DEF external, SendNew
  <2>3. t \in Thread => Exits(t)'
    BY <1>4, <2>2, ThreadTyped, Kinds
    DEF ThreadState, ExitStep, Exits, Exiting,
        Flow, ThreadFlow, Returns, InLog, BeforeStore, AfterSent,
        Sending, Reporting, Storing, Resending,
        SendNew, At, Goto
  <2>. QED BY <2>1, <2>2, <2>3, ExitingKept
<1>5. CASE MarkEmpty(t)
  <2>1. \A v \in All \ {t} : th'[v] = th[v]
    BY <1>5, ThreadTyped DEF ThreadState, MarkEmpty, At, Goto
  <2>2. (lost' = None) <=> (lost = None)
    BY <1>5 DEF external, MarkEmpty
  <2>3. t \in Thread => Exits(t)'
    BY <1>5, <2>2, ThreadTyped, Kinds
    DEF ThreadState, ExitStep, Exits, Exiting,
        Flow, ThreadFlow, Returns, InLog, BeforeStore, AfterSent,
        Sending, Reporting, Storing, Resending,
        MarkEmpty, At, Goto
  <2>. QED BY <2>1, <2>2, <2>3, ExitingKept
<1>6. CASE OutNew(t)
  <2>1. \A v \in All \ {t} : th'[v] = th[v]
    BY <1>6, ThreadTyped DEF ThreadState, OutNew, At
  <2>2. (lost' = None) <=> (lost = None)
    BY <1>6 DEF external, OutNew
  <2>3. t \in Thread => Exits(t)'
    BY <1>6, <2>2, ThreadTyped, Kinds
    DEF ThreadState, ExitStep, Exits, Exiting,
        Flow, ThreadFlow, Returns, InLog, BeforeStore, AfterSent,
        Sending, Reporting, Storing, Resending,
        OutNew, At
  <2>. QED BY <2>1, <2>2, <2>3, ExitingKept
<1>7. CASE Sent(t)
  <2>1. \A v \in All \ {t} : th'[v] = th[v]
    BY <1>7, ThreadTyped DEF ThreadState, Sent, At, CallStore, Finish, Enter, Idle
  <2>2. (lost' = None) <=> (lost = None)
    BY <1>7 DEF external, Sent
  <2>3. t \in Thread => Exits(t)'
    BY <1>7, <2>2, ThreadTyped, Kinds
    DEF ThreadState, ExitStep, Exits, Exiting,
        Flow, ThreadFlow, Returns, InLog, BeforeStore, AfterSent,
        Sending, Reporting, Storing, Resending,
        Sent, At, CallStore, Finish, Enter, Idle
  <2>. QED BY <2>1, <2>2, <2>3, ExitingKept
<1>8. CASE Stored(t)
  <2>1. \A v \in All \ {t} : th'[v] = th[v]
    BY <1>8, ThreadTyped DEF ThreadState, Stored, At, Finish, Enter, Idle
  <2>2. (lost' = None) <=> (lost = None)
    BY <1>8 DEF external, Stored
  <2>3. t \in Thread => Exits(t)'
    BY <1>8, <2>2, ThreadTyped, Kinds
    DEF ThreadState, ExitStep, Exits, Exiting,
        Flow, ThreadFlow, Returns, InLog, BeforeStore, AfterSent,
        Sending, Reporting, Storing, Resending,
        Stored, At, Finish, Enter, Idle
  <2>. QED BY <2>1, <2>2, <2>3, ExitingKept
<1>9. CASE SendRegister(t)
  <2>1. \A v \in All \ {t} : th'[v] = th[v]
    BY <1>9, ThreadTyped DEF ThreadState, SendRegister, At, CallStore
  <2>2. (lost' = None) <=> (lost = None)
    BY <1>9 DEF external, SendRegister
  <2>3. t \in Thread => Exits(t)'
    BY <1>9, <2>2, ThreadTyped, Kinds
    DEF ThreadState, ExitStep, Exits, Exiting,
        Flow, ThreadFlow, Returns, InLog, BeforeStore, AfterSent,
        Sending, Reporting, Storing, Resending,
        SendRegister, At, CallStore
  <2>. QED BY <2>1, <2>2, <2>3, ExitingKept
<1>10. CASE RegisterRefused(t)
  <2>1. \A v \in All \ {t} : th'[v] = th[v]
    BY <1>10, ThreadTyped DEF ThreadState, RegisterRefused, At, Finish, Enter, Idle
  <2>2. (lost' = None) <=> (lost = None)
    BY <1>10 DEF external, RegisterRefused
  <2>3. t \in Thread => Exits(t)'
    BY <1>10, <2>2, ThreadTyped, Kinds
    DEF ThreadState, ExitStep, Exits, Exiting,
        Flow, ThreadFlow, Returns, InLog, BeforeStore, AfterSent,
        Sending, Reporting, Storing, Resending,
        RegisterRefused, At, Finish, Enter, Idle
  <2>. QED BY <2>1, <2>2, <2>3, ExitingKept
<1>11. CASE Registered(t)
  <2>1. \A v \in All \ {t} : th'[v] = th[v]
    BY <1>11, ThreadTyped DEF ThreadState, Registered, At, CallResend, Finish, Enter, Idle
  <2>2. (lost' = None) <=> (lost = None)
    BY <1>11 DEF external, Registered
  <2>3. t \in Thread => Exits(t)'
    BY <1>11, <2>2, ThreadTyped, Kinds
    DEF ThreadState, ExitStep, Exits, Exiting,
        Flow, ThreadFlow, Returns, InLog, BeforeStore, AfterSent,
        Sending, Reporting, Storing, Resending,
        Registered, At, CallResend, Finish, Enter, Idle
  <2>. QED BY <2>1, <2>2, <2>3, ExitingKept
<1>12. CASE RegisterDone(t)
  <2>1. \A v \in All \ {t} : th'[v] = th[v]
    BY <1>12, ThreadTyped DEF ThreadState, RegisterDone, At, Finish, Enter, Idle
  <2>2. (lost' = None) <=> (lost = None)
    BY <1>12 DEF external, RegisterDone
  <2>3. t \in Thread => Exits(t)'
    BY <1>12, <2>2, ThreadTyped, Kinds
    DEF ThreadState, ExitStep, Exits, Exiting,
        Flow, ThreadFlow, Returns, InLog, BeforeStore, AfterSent,
        Sending, Reporting, Storing, Resending,
        RegisterDone, At, Finish, Enter, Idle
  <2>. QED BY <2>1, <2>2, <2>3, ExitingKept
<1>13. CASE Forget(t)
  <2>1. \A v \in All \ {t} : th'[v] = th[v]
    BY <1>13, ThreadTyped DEF ThreadState, Forget, At, Enter, Idle
  <2>2. (lost' = None) <=> (lost = None)
    BY <1>13 DEF external, Forget
  <2>3. t \in Thread => Exits(t)'
    BY <1>13, <2>2, ThreadTyped, Kinds
    DEF ThreadState, ExitStep, Exits, Exiting,
        Flow, ThreadFlow, Returns, InLog, BeforeStore, AfterSent,
        Sending, Reporting, Storing, Resending,
        Forget, At, Enter, Idle
  <2>. QED BY <2>1, <2>2, <2>3, ExitingKept
<1>14. CASE CheckSize(t)
  <2>1. \A v \in All \ {t} : th'[v] = th[v]
    BY <1>14, ThreadTyped DEF ThreadState, CheckSize, At, Goto
  <2>2. (lost' = None) <=> (lost = None)
    BY <1>14 DEF external, CheckSize
  <2>3. t \in Thread => Exits(t)'
    BY <1>14, <2>2, ThreadTyped, Kinds
    DEF ThreadState, ExitStep, Exits, Exiting,
        Flow, ThreadFlow, Returns, InLog, BeforeStore, AfterSent,
        Sending, Reporting, Storing, Resending,
        CheckSize, At, Goto
  <2>. QED BY <2>1, <2>2, <2>3, ExitingKept
<1>15. CASE Block(t)
  <2>1. \A v \in All \ {t} : th'[v] = th[v]
    BY <1>15, ThreadTyped DEF ThreadState, Block, At, Goto
  <2>2. (lost' = None) <=> (lost = None)
    BY <1>15 DEF external, Block
  <2>3. t \in Thread => Exits(t)'
    BY <1>15, <2>2, ThreadTyped, Kinds
    DEF ThreadState, ExitStep, Exits, Exiting,
        Flow, ThreadFlow, Returns, InLog, BeforeStore, AfterSent,
        Sending, Reporting, Storing, Resending,
        Block, At, Goto
  <2>. QED BY <2>1, <2>2, <2>3, ExitingKept
<1>16. CASE Wake(t)
  <2>1. \A v \in All \ {t} : th'[v] = th[v]
    BY <1>16, ThreadTyped DEF ThreadState, Wake, At, Return
  <2>2. (lost' = None) <=> (lost = None)
    BY <1>16 DEF external, Wake
  <2>3. t \in Thread => Exits(t)'
    BY <1>16, <2>2, ThreadTyped, Kinds
    DEF ThreadState, ExitStep, Exits, Exiting,
        Flow, ThreadFlow, Returns, InLog, BeforeStore, AfterSent,
        Sending, Reporting, Storing, Resending,
        Wake, At, Return
  <2>. QED BY <2>1, <2>2, <2>3, ExitingKept
<1>17. CASE Store(t)
  <2>1. \A v \in All \ {t} : th'[v] = th[v]
    BY <1>17, ThreadTyped DEF ThreadState, Store, At
  <2>2. (lost' = None) <=> (lost = None)
    BY <1>17 DEF external, Store
  <2>3. t \in Thread => Exits(t)'
    BY <1>17, <2>2, ThreadTyped, Kinds
    DEF ThreadState, ExitStep, Exits, Exiting,
        Flow, ThreadFlow, Returns, InLog, BeforeStore, AfterSent,
        Sending, Reporting, Storing, Resending,
        Store, At
  <2>. QED BY <2>1, <2>2, <2>3, ExitingKept
<1>18. CASE Flag(t)
  <2>1. \A v \in All \ {t} : th'[v] = th[v]
    BY <1>18, ThreadTyped DEF ThreadState, Flag, At, Goto
  <2>2. (lost' = None) <=> (lost = None)
    BY <1>18 DEF external, Flag
  <2>3. t \in Thread => Exits(t)'
    BY <1>18, <2>2, ThreadTyped, Kinds
    DEF ThreadState, ExitStep, Exits, Exiting,
        Flow, ThreadFlow, Returns, InLog, BeforeStore, AfterSent,
        Sending, Reporting, Storing, Resending,
        Flag, At, Goto
  <2>. QED BY <2>1, <2>2, <2>3, ExitingKept
<1>19. CASE Resend(t)
  <2>1. \A v \in All \ {t} : th'[v] = th[v]
    BY <1>19, ThreadTyped DEF ThreadState, Resend, At, Return
  <2>2. (lost' = None) <=> (lost = None)
    BY <1>19 DEF external, Resend
  <2>3. t \in Thread => Exits(t)'
    BY <1>19, <2>2, ThreadTyped, Kinds
    DEF ThreadState, ExitStep, Exits, Exiting,
        Flow, ThreadFlow, Returns, InLog, BeforeStore, AfterSent,
        Sending, Reporting, Storing, Resending,
        Resend, At, Return
  <2>. QED BY <2>1, <2>2, <2>3, ExitingKept
<1>20. CASE ResendNext(t)
  <2>1. \A v \in All \ {t} : th'[v] = th[v]
    BY <1>20, ThreadTyped DEF ThreadState, ResendNext, At, Return
  <2>2. (lost' = None) <=> (lost = None)
    BY <1>20 DEF external, ResendNext
  <2>3. t \in Thread => Exits(t)'
    BY <1>20, <2>2, ThreadTyped, Kinds
    DEF ThreadState, ExitStep, Exits, Exiting,
        Flow, ThreadFlow, Returns, InLog, BeforeStore, AfterSent,
        Sending, Reporting, Storing, Resending,
        ResendNext, At, Return
  <2>. QED BY <2>1, <2>2, <2>3, ExitingKept
<1>21. CASE ResendDone(t)
  <2>1. \A v \in All \ {t} : th'[v] = th[v]
    BY <1>21, ThreadTyped DEF ThreadState, ResendDone, At, Return
  <2>2. (lost' = None) <=> (lost = None)
    BY <1>21 DEF external, ResendDone
  <2>3. t \in Thread => Exits(t)'
    BY <1>21, <2>2, ThreadTyped, Kinds
    DEF ThreadState, ExitStep, Exits, Exiting,
        Flow, ThreadFlow, Returns, InLog, BeforeStore, AfterSent,
        Sending, Reporting, Storing, Resending,
        ResendDone, At, Return
  <2>. QED BY <2>1, <2>2, <2>3, ExitingKept
<1>22. CASE Attach(t)
  <2>1. \A v \in All \ {t} : th'[v] = th[v]
    BY <1>22, ThreadTyped DEF ThreadState, Attach, At, Goto, Attached
  <2>2. (lost' = None) <=> (lost = None)
    BY <1>22 DEF external, Attach
  <2>3. t \in Thread => Exits(t)'
    BY <1>22, <2>2, ThreadTyped, Kinds
    DEF ThreadState, ExitStep, Exits, Exiting,
        Flow, ThreadFlow, Returns, InLog, BeforeStore, AfterSent,
        Sending, Reporting, Storing, Resending,
        Attach, At, Goto, Attached
  <2>. QED BY <2>1, <2>2, <2>3, ExitingKept
<1>23. CASE RegisterAgain(t)
  <2>1. \A v \in All \ {t} : th'[v] = th[v]
    BY <1>23, ThreadTyped DEF ThreadState, RegisterAgain, At, CallStore, Goto
  <2>2. (lost' = None) <=> (lost = None)
    BY <1>23 DEF external, RegisterAgain
  <2>3. t \in Thread => Exits(t)'
    BY <1>23, <2>2, ThreadTyped, Kinds
    DEF ThreadState, ExitStep, Exits, Exiting,
        Flow, ThreadFlow, Returns, InLog, BeforeStore, AfterSent,
        Sending, Reporting, Storing, Resending,
        RegisterAgain, At, CallStore, Goto
  <2>. QED BY <2>1, <2>2, <2>3, ExitingKept
<1>24. CASE ContextAgain(t)
  <2>1. \A v \in All \ {t} : th'[v] = th[v]
    BY <1>24, ThreadTyped DEF ThreadState, ContextAgain, At
  <2>2. (lost' = None) <=> (lost = None)
    BY <1>24 DEF external, ContextAgain
  <2>3. t \in Thread => Exits(t)'
    BY <1>24, <2>2, ThreadTyped, Kinds
    DEF ThreadState, ExitStep, Exits, Exiting,
        Flow, ThreadFlow, Returns, InLog, BeforeStore, AfterSent,
        Sending, Reporting, Storing, Resending,
        ContextAgain, At
  <2>. QED BY <2>1, <2>2, <2>3, ExitingKept
<1>25. CASE ContextsDone(t)
  <2>1. \A v \in All \ {t} : th'[v] = th[v]
    BY <1>25, ThreadTyped DEF ThreadState, ContextsDone, At, Goto, Attached
  <2>2. (lost' = None) <=> (lost = None)
    BY <1>25 DEF external, ContextsDone
  <2>3. t \in Thread => Exits(t)'
    BY <1>25, <2>2, ThreadTyped, Kinds
    DEF ThreadState, ExitStep, Exits, Exiting,
        Flow, ThreadFlow, Returns, InLog, BeforeStore, AfterSent,
        Sending, Reporting, Storing, Resending,
        ContextsDone, At, Goto, Attached
  <2>. QED BY <2>1, <2>2, <2>3, ExitingKept
<1>26. CASE ExitTries(t)
  <2>1. \A v \in All \ {t} : th'[v] = th[v]
    BY <1>26, ThreadTyped DEF ThreadState, ExitTries, At, Enter, Idle
  <2>2. (lost' = None) <=> (lost = None)
    BY <1>26 DEF external, ExitTries
  <2>3. t \in Thread => Exits(t)'
    BY <1>26, <2>2, ThreadTyped, Kinds
    DEF ThreadState, ExitStep, Exits, Exiting,
        Flow, ThreadFlow, Returns, InLog, BeforeStore, AfterSent,
        Sending, Reporting, Storing, Resending,
        ExitTries, At, Enter, Idle
  <2>. QED BY <2>1, <2>2, <2>3, ExitingKept
<1>27. CASE ExitTimeout(t)
  <2>1. \A v \in All \ {t} : th'[v] = th[v]
    BY <1>27, ThreadTyped DEF ThreadState, ExitTimeout, At, Enter, Idle
  <2>2. (lost' = None) <=> (lost = None)
    BY <1>27, UserLibAssumption, Kinds
    DEF Exiting, Exits, ExitStep, ExitTimeout, LeftOver, Typed, TypeOK, Flow,
        HousekeeperFlow, All, Storing, Resending, At
  <2>3. t \in Thread => Exits(t)'
    BY <1>27, <2>2, ThreadTyped, Kinds
    DEF ThreadState, ExitStep, Exits, Exiting,
        Flow, ThreadFlow, Returns, InLog, BeforeStore, AfterSent,
        Sending, Reporting, Storing, Resending,
        ExitTimeout, At, Enter, Idle
  <2>. QED BY <2>1, <2>2, <2>3, ExitingKept
<1>28. CASE ExitOverflow(t)
  <2>1. \A v \in All \ {t} : th'[v] = th[v]
    BY <1>28, ThreadTyped DEF ThreadState, ExitOverflow, At
  <2>2. (lost' = None) <=> (lost = None)
    BY <1>28 DEF external, ExitOverflow
  <2>3. t \in Thread => Exits(t)'
    BY <1>28, <2>2, ThreadTyped, Kinds
    DEF ThreadState, ExitStep, Exits, Exiting,
        Flow, ThreadFlow, Returns, InLog, BeforeStore, AfterSent,
        Sending, Reporting, Storing, Resending,
        ExitOverflow, At
  <2>. QED BY <2>1, <2>2, <2>3, ExitingKept
<1>29. CASE ExitResend(t)
  <2>1. \A v \in All \ {t} : th'[v] = th[v]
    BY <1>29, ThreadTyped DEF ThreadState, ExitResend, At, Enter, Idle, CallResend
  <2>2. (lost' = None) <=> (lost = None)
    BY <1>29 DEF external, ExitResend
  <2>3. t \in Thread => Exits(t)'
    BY <1>29, <2>2, ThreadTyped, Kinds
    DEF ThreadState, ExitStep, Exits, Exiting,
        Flow, ThreadFlow, Returns, InLog, BeforeStore, AfterSent,
        Sending, Reporting, Storing, Resending,
        ExitResend, At, Enter, Idle, CallResend
  <2>. QED BY <2>1, <2>2, <2>3, ExitingKept
<1>30. CASE ExitResent(t)
  <2>1. \A v \in All \ {t} : th'[v] = th[v]
    BY <1>30, ThreadTyped DEF ThreadState, ExitResent, At, Enter, Idle
  <2>2. (lost' = None) <=> (lost = None)
    BY <1>30, UserLibAssumption, Kinds
    DEF Exiting, Exits, ExitStep, ExitResent, LeftOver, Typed, TypeOK, Flow,
        HousekeeperFlow, All, Storing, Resending, At
  <2>3. t \in Thread => Exits(t)'
    BY <1>30, <2>2, ThreadTyped, Kinds
    DEF ThreadState, ExitStep, Exits, Exiting,
        Flow, ThreadFlow, Returns, InLog, BeforeStore, AfterSent,
        Sending, Reporting, Storing, Resending,
        ExitResent, At, Enter, Idle
  <2>. QED BY <2>1, <2>2, <2>3, ExitingKept
<1>31. CASE ExitUnregister(t)
  <2>1. \A v \in All \ {t} : th'[v] = th[v]
    BY <1>31, ThreadTyped DEF ThreadState, ExitUnregister, At, SendUnregister, CallStore, Goto
  <2>2. (lost' = None) <=> (lost = None)
    BY <1>31 DEF external, ExitUnregister, SendUnregister
  <2>3. t \in Thread => Exits(t)'
    BY <1>31, <2>2, ThreadTyped, Kinds
    DEF ThreadState, ExitStep, Exits, Exiting,
        Flow, ThreadFlow, Returns, InLog, BeforeStore, AfterSent,
        Sending, Reporting, Storing, Resending,
        ExitUnregister, At, SendUnregister, CallStore, Goto
  <2>. QED BY <2>1, <2>2, <2>3, ExitingKept
<1>32. CASE Stop(t)
  <2>1. \A v \in All : th'[v].pc = "ended"
    BY <1>32 DEF Stop, Idle
  <2>. QED
    BY <2>1, Kinds
    DEF ExitStep, Exits, Exiting,
        Flow, ThreadFlow, Returns, InLog, BeforeStore, AfterSent,
        Sending, Reporting, Storing, Resending
<1>. QED BY <1>1, <1>2, <1>3, <1>4, <1>5, <1>6, <1>7, <1>8, <1>9, <1>10, <1>11, <1>12, <1>13, <1>14, <1>15, <1>16, <1>17, <1>18, <1>19, <1>20, <1>21, <1>22, <1>23, <1>24, <1>25, <1>26, <1>27, <1>28, <1>29, <1>30, <1>31, <1>32 DEF Continues

LEMMA CallsExiting ==
  ASSUME Typed, Flow, Exiting, NEW t \in Thread, ApplicationCalls(t)
  PROVE  Exiting'
<1>1. CASE SendLog(t)
  <2>1. \A v \in All \ {t} : th'[v] = th[v]
    BY <1>1, ThreadTyped DEF ThreadState, SendLog, MayCall, At
  <2>2. (lost' = None) <=> (lost = None)
    BY <1>1 DEF external, SendLog
  <2>3. t \in Thread => Exits(t)'
    BY <1>1, <2>2, ThreadTyped, Kinds
    DEF ThreadState, ExitStep, Exits, Exiting,
        Flow, ThreadFlow, Returns, InLog, BeforeStore, AfterSent,
        Sending, Reporting, Storing, Resending,
        SendLog, MayCall, At
  <2>. QED BY <2>1, <2>2, <2>3, ExitingKept, Kinds
<1>2. CASE Register(t)
  <2>1. \A v \in All \ {t} : th'[v] = th[v]
    BY <1>2, ThreadTyped DEF ThreadState, Register, MayCall, At, Goto
  <2>2. (lost' = None) <=> (lost = None)
    BY <1>2 DEF external, Register
  <2>3. t \in Thread => Exits(t)'
    BY <1>2, <2>2, ThreadTyped, Kinds
    DEF ThreadState, ExitStep, Exits, Exiting,
        Flow, ThreadFlow, Returns, InLog, BeforeStore, AfterSent,
        Sending, Reporting, Storing, Resending,
        Register, MayCall, At, Goto
  <2>. QED BY <2>1, <2>2, <2>3, ExitingKept, Kinds
<1>3. CASE Unregister(t)
  <2>1. \A v \in All \ {t} : th'[v] = th[v]
    BY <1>3, ThreadTyped DEF ThreadState, Unregister, MayCall, At, SendUnregister, CallStore, Goto
  <2>2. (lost' = None) <=> (lost = None)
    BY <1>3 DEF external, Unregister, SendUnregister
  <2>3. t \in Thread => Exits(t)'
    BY <1>3, <2>2, ThreadTyped, Kinds
    DEF ThreadState, ExitStep, Exits, Exiting,
        Flow, ThreadFlow, Returns, InLog, BeforeStore, AfterSent,
        Sending, Reporting, Storing, Resending,
        Unregister, MayCall, At, SendUnregister, CallStore, Goto
  <2>. QED BY <2>1, <2>2, <2>3, ExitingKept, Kinds
<1>4. CASE Exit(t)
  <2>1. \A v \in Thread : th'[v].pc \in {"idle", "exit", "exit_unregister"}
    BY <1>4, ThreadTyped, Kinds DEF ThreadState, Exit, Goto, At
  <2>2. lost' # None
    BY <1>4, UserLibAssumption DEF Exit, LeftOver, Typed, TypeOK
  <2>. QED
    BY <2>1, <2>2
    DEF ExitStep, Exits, Exiting,
        Flow, ThreadFlow, Returns, InLog, BeforeStore, AfterSent,
        Sending, Reporting, Storing, Resending
<1>. QED BY <1>1, <1>2, <1>3, <1>4 DEF ApplicationCalls

LEMMA NextExiting ==
  ASSUME Typed, Flow, Exiting, [Next]_vars
  PROVE  Exiting'
<1>1. CASE Housekeep
  <2>1. \A v \in All \ {HK} : th'[v] = th[v]
    BY <1>1, ThreadTyped, Kinds DEF ThreadState, Housekeep, At, Goto
  <2>. QED
    BY <1>1, <2>1, ExitingKept, Kinds DEF external, Housekeep
<1>2. CASE TryFlush
  <2>1. \A v \in All \ {HK} : th'[v] = th[v]
    BY <1>2, ThreadTyped, Kinds DEF ThreadState, TryFlush, At, CallResend, Finish, Enter, Idle
  <2>. QED
    BY <1>2, <2>1, ExitingKept, Kinds DEF external, TryFlush
<1>3. CASE Flushed
  <2>1. \A v \in All \ {HK} : th'[v] = th[v]
    BY <1>3, ThreadTyped, Kinds DEF ThreadState, Flushed, At, Finish, Enter, Idle
  <2>. QED
    BY <1>3, <2>1, ExitingKept, Kinds DEF external, Flushed
<1>4. ASSUME UNCHANGED <<th, lost>>
      PROVE  Exiting'
  BY <1>4
  DEF ExitStep, Exits, Exiting,
        Flow, ThreadFlow, Returns, InLog, BeforeStore, AfterSent,
        Sending, Reporting, Storing, Resending
<1>5. ASSUME NEW b \in BOOLEAN, SetBlockMode(b)
      PROVE  Exiting'
  BY <1>4, <1>5 DEF SetBlockMode
<1>6. CASE DaemonReads \/ DaemonCrashes \/ DaemonStarts
  BY <1>4, <1>6 DEF DaemonReads, DaemonCrashes, DaemonStarts, external, limits
<1>7. CASE UNCHANGED vars
  BY <1>4, <1>7 DEF vars, external
<1>8. ASSUME NEW t \in All, Continues(t)
      PROVE  Exiting'
  BY <1>8, ContinuesExiting
<1>9. ASSUME NEW t \in Thread, ApplicationCalls(t)
      PROVE  Exiting'
  BY <1>9, CallsExiting
<1>. QED
  BY <1>1, <1>2, <1>3, <1>5, <1>6, <1>7, <1>8, <1>9, Kinds
  DEF Next, Housekeeper

-----------------------------------------------------------------------------
LEMMA FirstTyped ==
  ASSUME Init
  PROVE  Typed /\ Flow /\ Exiting
<1>1. /\ logs \in [Thread -> Nat] /\ regs \in [Thread -> Nat] /\ bound \in Bounds
      /\ \A t \in Thread : logs[t] = 0
  BY DEF Init
<1>2. th = [t \in All |-> Idle] /\ Idle \in ThreadState /\ Idle.pc = "idle"
  <2>1. Control("none") \in Message
    BY Messages
  <2>. QED BY <2>1, Steps, Results DEF Init, Idle, ThreadState
<1>3. th \in [All -> ThreadState] /\ \A t \in All : th[t] = Idle
  BY <1>2
<1>4. written \in [DOMAIN written -> Nat \ {0}] /\ DOMAIN written = {}
  BY DEF Init
<1>5. startup_buffer \in Seq(Message) /\ Len(startup_buffer) <= Capacity
  BY UserLibAssumption DEF Init
<1>6. Typed
  <2>1. /\ daemon \in {"up", "down"} /\ pipe = 0 /\ handle \in {"open", "none"}
        /\ {buffer_empty, buffer_full} \subseteq {0, 1}
        /\ {registered, at_max, block_mode, locked} \subseteq BOOLEAN
        /\ overflow_counter = 0 /\ reported = 0 /\ lost = None
        /\ waiting = {} /\ discarded = {} /\ doubled = {} /\ skipped = {}
    BY UserLibAssumption DEF Init
  <2>2. TypeOK
    BY <1>3, <1>4, <1>5, <2>1, UserLibAssumption DEF TypeOK, ThreadState
  <2>. QED BY <1>1, <1>4, <2>1, <2>2 DEF Typed
<1>7. Flow
  BY <1>1, <1>2, <1>3, Kinds
  DEF Flow, ThreadFlow, HousekeeperFlow, Returns, InLog, BeforeStore, AfterSent,
      Sending, Reporting, Storing, Resending
<1>8. Exiting
  BY <1>2, <1>3, Kinds
  DEF Init, Exiting, Exits, ExitStep, InLog, BeforeStore, AfterSent, Sending,
      Reporting, Storing, Resending
<1>. QED BY <1>6, <1>7, <1>8

(* The state of the library has its type: a position in the startup buffer *)
(* never exceeds its capacity, the FIFO its room, and the housekeeper and  *)
(* the threads are always at a step of a function they called.             *)
THEOREM TypeCorrect == Spec => [](TypeOK /\ Flow /\ Exiting)
<1>. DEFINE I == Typed /\ Flow /\ Exiting
<1>1. Init => I
  BY FirstTyped
<1>2. I /\ [Next]_vars => I'
  BY NextTyped, NextFlow, NextExiting
<1>3. I => TypeOK /\ Flow /\ Exiting
  BY DEF Typed
<1>. QED BY <1>1, <1>2, <1>3, PTL DEF Spec

-----------------------------------------------------------------------------
(* Where every log message is, those to come included.                     *)
LogMessage == [op : {"log"}, from : Thread, n : Nat \ {0}]
Expected(m) ==
  IF m.n > logs[m.from] \/ m \in skipped THEN 0
  ELSE IF m \in doubled THEN 2 ELSE 1
Accounted == \A m \in LogMessage : Places(m) = Expected(m)

(* The messages whose sending met another thread's registration.           *)
Raced ==
  /\ doubled \cup skipped \subseteq LogMessage
  /\ \A m \in doubled \cup skipped : m.n <= logs[m.from]
  /\ \A m \in doubled : Written(m) /\ m \notin skipped
  /\ \A t \in Thread :
       BeforeStore(t) => Log(t, logs[t]) \notin doubled \cup skipped

(* A thread that is alone finds the application id as it was.              *)
Undisturbed(t) ==
  /\ th[t].pc \in {"mark", "out"} => registered
  /\ At(t, "sent") /\ Written(th[t].msg) => registered /\ th[t].res = "OK"
  /\ At(t, "sent") /\ ~Written(th[t].msg) /\ th[t].res = "OK" => ~registered
Unraced ==
  \A t \in Thread : Alone(t) => doubled \cup skipped = {} /\ Undisturbed(t)

Located == Accounted /\ Raced /\ Unraced
IInv == Typed /\ Flow /\ Exiting /\ Located

-----------------------------------------------------------------------------
(* Counting the copies of a message in the startup buffer.                 *)

LEMMA CopiesNat ==
  ASSUME NEW S, NEW q \in Seq(S), NEW m
  PROVE  /\ IsFiniteSet({i \in DOMAIN q : q[i] = m})
         /\ Copies(q, m) \in Nat
<1>1. IsFiniteSet(1 .. Len(q))
  BY FS_Interval
<1>2. {i \in DOMAIN q : q[i] = m} \in SUBSET (1 .. Len(q))
  OBVIOUS
<1>3. IsFiniteSet({i \in DOMAIN q : q[i] = m})
  BY <1>1, <1>2, FS_Subset
<1>. QED BY <1>3, FS_CardinalityType DEF Copies

LEMMA CopiesEmpty ==
  ASSUME NEW m
  PROVE  Copies(<<>>, m) = 0
<1>1. {i \in DOMAIN <<>> : <<>>[i] = m} = {}
  OBVIOUS
<1>. QED BY <1>1, FS_EmptySet DEF Copies

LEMMA CopiesAppend ==
  ASSUME NEW S, NEW q \in Seq(S), NEW e \in S, NEW m
  PROVE  Copies(Append(q, e), m) = Copies(q, m) + Once(m = e)
<1>. DEFINE A == {i \in DOMAIN q : q[i] = m}
            B == {i \in DOMAIN Append(q, e) : Append(q, e)[i] = m}
<1>1. IsFiniteSet(A) /\ Cardinality(A) \in Nat
  BY CopiesNat DEF Copies
<1>2. CASE m = e
  <2>1. B = A \cup {Len(q) + 1}
    BY <1>2
  <2>2. Len(q) + 1 \notin A
    OBVIOUS
  <2>3. Cardinality(B) = Cardinality(A) + 1
    BY <1>1, <2>1, <2>2, FS_AddElement
  <2>. QED BY <1>2, <2>3 DEF Copies, Once
<1>3. CASE m # e
  <2>1. B = A
    BY <1>3
  <2>2. Copies(Append(q, e), m) = Copies(q, m) /\ Copies(q, m) \in Nat
    BY <1>1, <2>1 DEF Copies
  <2>3. Once(m = e) = 0
    BY <1>3 DEF Once
  <2>. QED BY <2>2, <2>3
<1>. QED BY <1>2, <1>3

LEMMA CopiesTail ==
  ASSUME NEW S, NEW q \in Seq(S), q # <<>>, NEW m
  PROVE  Copies(q, m) = Copies(Tail(q), m) + Once(m = Head(q))
<1>. DEFINE A == {i \in DOMAIN q : q[i] = m}
            R == A \ {1}
            B == {i \in DOMAIN Tail(q) : Tail(q)[i] = m}
            f == [i \in B |-> i + 1]
<1>1. IsFiniteSet(A) /\ Cardinality(A) \in Nat
  BY CopiesNat DEF Copies
<1>2. Tail(q) \in Seq(S) /\ Len(q) \in Nat \ {0} /\ Len(Tail(q)) = Len(q) - 1
  OBVIOUS
<1>3. \A i \in 1 .. Len(q) - 1 : Tail(q)[i] = q[i + 1]
  OBVIOUS
<1>4. IsFiniteSet(B)
  BY <1>2, CopiesNat
<1>5. f \in Bijection(B, R)
  <2>1. f \in [B -> R]
    BY <1>2, <1>3
  <2>2. \A i, j \in B : f[i] = f[j] => i = j
    BY <1>2
  <2>3. \A k \in R : \E i \in B : f[i] = k
    <3>1. SUFFICES ASSUME NEW k \in R
                   PROVE  k - 1 \in B /\ f[k - 1] = k
      OBVIOUS
    <3>2. k \in 2 .. Len(q) /\ q[k] = m
      OBVIOUS
    <3>3. k - 1 \in 1 .. Len(q) - 1 /\ k = (k - 1) + 1
      BY <1>2, <3>2
    <3>4. Tail(q)[k - 1] = m
      BY <1>3, <3>2, <3>3
    <3>. QED BY <1>2, <3>3, <3>4
  <2>. QED BY <2>1, <2>2, <2>3 DEF Bijection, Injection, IsInjective, Surjection
<1>6. Cardinality(R) = Cardinality(B)
  BY <1>4, <1>5, FS_Bijection DEF ExistsBijection
<1>7. 1 \in A <=> m = Head(q)
  BY <1>2
<1>8. Cardinality(R) = IF m = Head(q) THEN Cardinality(A) - 1 ELSE Cardinality(A)
  BY <1>1, <1>7, FS_RemoveElement
<1>9. /\ Copies(q, m) \in Nat /\ Copies(Tail(q), m) = Cardinality(R)
      /\ Copies(q, m) = Cardinality(A)
  BY <1>1, <1>6 DEF Copies
<1>10. Once(m = Head(q)) = IF m = Head(q) THEN 1 ELSE 0
  BY DEF Once
<1>. HIDE DEF A, R
<1>. QED BY <1>8, <1>9, <1>10

-----------------------------------------------------------------------------
(* The number of a message's places, and the message that a thread holds.  *)

LEMMA Counts ==
  ASSUME Typed, NEW m
  PROVE  /\ TimesWritten(m) \in Nat /\ (TimesWritten(m) > 0 <=> Written(m))
         /\ Copies(startup_buffer, m) \in Nat
         /\ \A P : Once(P) \in {0, 1} /\ (Once(P) = 1 <=> P)
<1>1. TimesWritten(m) \in Nat /\ (TimesWritten(m) > 0 <=> Written(m))
  BY DEF Typed, TypeOK, TimesWritten, Written
<1>2. Copies(startup_buffer, m) \in Nat
  BY CopiesNat DEF Typed, TypeOK
<1>. QED BY <1>1, <1>2 DEF Once

(* A thread holds its last message until it is written or pushed.          *)
Holds(t) ==
  /\ InLog(t)
  /\ th[t].pc \notin {"stored", "flag"}
  /\ ~(th[t].pc = "sent" /\ Written(Log(t, logs[t])))

LEMMA InHandIs ==
  ASSUME Typed, Flow, NEW t \in Thread, NEW n \in Nat
  PROVE  InHand(Log(t, n)) <=> Holds(t) /\ n = logs[t]
<1>1. Log(t, n).from = t /\ Log(t, n).op = "log" /\ Log(t, n).n = n
  BY DEF Log
<1>2. CASE InLog(t)
  <2>1. th[t].msg = Log(t, logs[t]) /\ logs[t] \in Nat
    BY <1>2 DEF Flow, ThreadFlow, Typed
  <2>2. th[t].pc # "idle"
    BY <1>2 DEF InLog, BeforeStore, AfterSent, Sending, Reporting, Storing,
            Resending
  <2>3. th[t].msg = Log(t, n) <=> n = logs[t]
    BY <2>1 DEF Log
  <2>. QED BY <1>1, <1>2, <2>1, <2>2, <2>3 DEF InHand, Holds
<1>3. CASE ~InLog(t)
  BY <1>1, <1>3 DEF Flow, ThreadFlow, InHand, Holds
<1>. QED BY <1>2, <1>3

LEMMA LogMessages ==
  /\ \A m \in LogMessage : /\ m.from \in Thread /\ m.n \in Nat \ {0}
                           /\ m = Log(m.from, m.n) /\ m.op = "log"
  /\ \A t \in Thread, n \in Nat \ {0} : Log(t, n) \in LogMessage
  /\ \A t \in Thread, n \in Nat : Log(t, n).from = t /\ Log(t, n).n = n
  /\ \A t, u \in Thread : \A n, k \in Nat : Log(t, n) = Log(u, k) <=> t = u /\ n = k
BY DEF LogMessage, Log

LEMMA PlacesAre ==
  (Typed /\ Flow) =>
    \A t \in Thread, n \in Nat :
      Places(Log(t, n)) =
        TimesWritten(Log(t, n)) + Copies(startup_buffer, Log(t, n))
          + Once(Log(t, n) \in discarded) + Once(Holds(t) /\ n = logs[t])
<1>1. SUFFICES ASSUME Typed, Flow, NEW t \in Thread, NEW n \in Nat
      PROVE Once(InHand(Log(t, n))) = Once(Holds(t) /\ n = logs[t])
  BY DEF Places
<1>2. InHand(Log(t, n)) <=> Holds(t) /\ n = logs[t]
  BY <1>1, InHandIs
<1>3. CASE InHand(Log(t, n))
  BY <1>2, <1>3 DEF Once
<1>4. CASE ~InHand(Log(t, n))
  BY <1>2, <1>4 DEF Once
<1>. QED BY <1>3, <1>4

LEMMA PlacesWillBe ==
  (Typed' /\ Flow') =>
    \A t \in Thread, n \in Nat :
      Places(Log(t, n))' =
        TimesWritten(Log(t, n))' + Copies(startup_buffer', Log(t, n))
          + Once(Log(t, n) \in discarded') + Once(Holds(t)' /\ n = logs'[t])
<1>1. (Typed /\ Flow) =>
    \A t \in Thread, n \in Nat :
      Places(Log(t, n)) =
        TimesWritten(Log(t, n)) + Copies(startup_buffer, Log(t, n))
          + Once(Log(t, n) \in discarded) + Once(Holds(t) /\ n = logs[t])
  BY PlacesAre
<1>2. ((Typed /\ Flow) =>
    \A t \in Thread, n \in Nat :
      Places(Log(t, n)) =
        TimesWritten(Log(t, n)) + Copies(startup_buffer, Log(t, n))
          + Once(Log(t, n) \in discarded) + Once(Holds(t) /\ n = logs[t]))'
  BY <1>1, PTL
<1>. QED BY <1>2 DEF Copies, Once

(* A message that a thread has at hand and that met no race is nowhere     *)
(* else, one that did is in one place more.                                *)
LEMMA HeldOnce ==
  ASSUME Typed, Flow, Accounted, NEW t \in Thread, InLog(t)
  PROVE  LET m == Log(t, logs[t])
         IN  /\ m \in LogMessage /\ m \in Message
             /\ Expected(m) = IF m \in skipped THEN 0
                              ELSE IF m \in doubled THEN 2 ELSE 1
             /\ Holds(t) => /\ m \notin skipped
                            /\ TimesWritten(m) + Copies(startup_buffer, m)
                                 + Once(m \in discarded) + 1 = Expected(m)
             /\ ~Holds(t) => TimesWritten(m) + Copies(startup_buffer, m)
                               + Once(m \in discarded) = Expected(m)
<1>. DEFINE m == Log(t, logs[t])
<1>1. logs[t] \in Nat \ {0}
  BY DEF Flow, ThreadFlow, Typed
<1>2. m \in LogMessage /\ m.from = t /\ m.n = logs[t] /\ m \in Message
  BY <1>1, LogMessages, Messages
<1>3. Expected(m) = IF m \in skipped THEN 0 ELSE IF m \in doubled THEN 2 ELSE 1
  BY <1>1, <1>2 DEF Expected
<1>4. Places(m) = TimesWritten(m) + Copies(startup_buffer, m)
                    + Once(m \in discarded) + Once(Holds(t))
  <2>1. Places(m) = TimesWritten(m) + Copies(startup_buffer, m)
          + Once(m \in discarded) + Once(Holds(t) /\ logs[t] = logs[t])
    BY <1>1, PlacesAre
  <2>. QED BY <2>1 DEF Once
<1>5. Places(m) = Expected(m)
  BY <1>2 DEF Accounted
<1>6. /\ TimesWritten(m) \in Nat /\ Copies(startup_buffer, m) \in Nat
      /\ Once(m \in discarded) \in {0, 1}
  BY Counts
<1>7. ASSUME Holds(t)
      PROVE  /\ m \notin skipped
             /\ TimesWritten(m) + Copies(startup_buffer, m)
                  + Once(m \in discarded) + 1 = Expected(m)
  <2>1. Once(Holds(t)) = 1
    BY <1>7 DEF Once
  <2>2. TimesWritten(m) + Copies(startup_buffer, m)
          + Once(m \in discarded) + 1 = Expected(m)
    BY <1>4, <1>5, <2>1
  <2>3. Expected(m) # 0
    BY <1>6, <2>2
  <2>. QED BY <1>3, <2>2, <2>3
<1>8. ASSUME ~Holds(t)
      PROVE  TimesWritten(m) + Copies(startup_buffer, m)
               + Once(m \in discarded) = Expected(m)
  <2>1. Once(Holds(t)) = 0
    BY <1>8 DEF Once
  <2>. QED BY <1>4, <1>5, <1>6, <2>1
<1>. QED BY <1>2, <1>3, <1>7, <1>8

(* Before it is stored, a message that is not written is nowhere.          *)
LEMMA HeldBeforeStore ==
  ASSUME Typed, Flow, Accounted, Raced, NEW t \in Thread, BeforeStore(t)
  PROVE  LET m == Log(t, logs[t])
         IN  /\ th[t].msg = m
             /\ Holds(t) <=> ~(th[t].pc = "sent" /\ Written(m))
             /\ Holds(t) => /\ ~Written(m) /\ Copies(startup_buffer, m) = 0
                            /\ m \notin discarded
<1>. DEFINE m == Log(t, logs[t])
<1>1. InLog(t) /\ th[t].msg = m /\ th[t].pc \notin {"stored", "flag"}
  BY DEF InLog, Flow, ThreadFlow, BeforeStore, Sending, Reporting, Resending
<1>2. Holds(t) <=> ~(th[t].pc = "sent" /\ Written(m))
  BY <1>1 DEF Holds
<1>3. m \notin doubled \cup skipped
  BY DEF Raced
<1>4. ASSUME Holds(t)
      PROVE  ~Written(m) /\ Copies(startup_buffer, m) = 0 /\ m \notin discarded
  <2>1. TimesWritten(m) + Copies(startup_buffer, m)
          + Once(m \in discarded) + 1 = 1
    BY <1>1, <1>3, <1>4, HeldOnce
  <2>2. /\ TimesWritten(m) \in Nat /\ (TimesWritten(m) > 0 <=> Written(m))
        /\ Copies(startup_buffer, m) \in Nat
        /\ Once(m \in discarded) \in {0, 1}
        /\ (Once(m \in discarded) = 1 <=> m \in discarded)
    BY Counts DEF Once
  <2>. QED BY <2>1, <2>2
<1>. QED BY <1>1, <1>2, <1>4

-----------------------------------------------------------------------------
(* A step that moves no log message: most are.                             *)

Calm(u) ==
  /\ \A v \in All \ {u} : th'[v] = th[v]
  /\ UNCHANGED <<written, discarded, logs, doubled, skipped, bound>>
  /\ \A m \in LogMessage : Copies(startup_buffer', m) = Copies(startup_buffer, m)
  /\ u \in Thread => /\ Holds(u)' <=> Holds(u)
                     /\ BeforeStore(u)' => BeforeStore(u)

LEMMA QuietAccounted ==
  ASSUME Typed, Flow, Typed', Flow', Accounted, Raced,
         UNCHANGED <<written, discarded, logs, doubled, skipped>>,
         \A m \in LogMessage : Copies(startup_buffer', m) = Copies(startup_buffer, m),
         \A t \in Thread : /\ Holds(t)' <=> Holds(t)
                           /\ BeforeStore(t)' => BeforeStore(t)
  PROVE  Accounted' /\ Raced'
<1>1. ASSUME NEW m \in LogMessage
      PROVE  Places(m)' = Expected(m)'
  <2>1. /\ m.from \in Thread /\ m.n \in Nat /\ m = Log(m.from, m.n)
    BY LogMessages
  <2>2. /\ TimesWritten(m)' = TimesWritten(m) /\ (m \in discarded' <=> m \in discarded)
        /\ Copies(startup_buffer', m) = Copies(startup_buffer, m)
        /\ Expected(m)' = Expected(m) /\ logs' = logs
    BY DEF TimesWritten, Written, Expected
  <2>3. (Holds(m.from)' /\ m.n = logs'[m.from]) <=> Holds(m.from) /\ m.n = logs[m.from]
    BY <2>1, <2>2
  <2>4. /\ Places(m) =
             TimesWritten(m) + Copies(startup_buffer, m)
               + Once(m \in discarded) + Once(Holds(m.from) /\ m.n = logs[m.from])
        /\ Places(m)' =
             TimesWritten(m)' + Copies(startup_buffer', m)
               + Once(m \in discarded') + Once(Holds(m.from)' /\ m.n = logs'[m.from])
    BY <2>1, PlacesAre, PlacesWillBe
  <2>5. /\ Once(m \in discarded') = Once(m \in discarded)
        /\ Once(Holds(m.from)' /\ m.n = logs'[m.from])
             = Once(Holds(m.from) /\ m.n = logs[m.from])
    BY <2>2, <2>3 DEF Once
  <2>6. Places(m) = Expected(m)
    BY DEF Accounted
  <2>. QED BY <2>2, <2>4, <2>5, <2>6
<1>2. Raced'
  BY DEF Raced, Written
<1>. QED BY <1>1, <1>2 DEF Accounted

LEMMA CalmAccounted ==
  ASSUME Typed, Flow, Typed', Flow', Accounted, Raced, NEW u \in All, Calm(u)
  PROVE  Accounted' /\ Raced'
<1>1. ASSUME NEW t \in Thread
      PROVE  (Holds(t)' <=> Holds(t)) /\ (BeforeStore(t)' => BeforeStore(t))
  <2>1. CASE t = u
    BY <2>1 DEF Calm
  <2>2. CASE t # u
    <3>1. th'[t] = th[t] /\ UNCHANGED <<written, logs>>
      BY <2>2 DEF Calm, All
    <3>. QED BY <3>1 DEF Holds, InLog, BeforeStore, AfterSent, Written
  <2>. QED BY <2>1, <2>2
<1>. QED BY <1>1, QuietAccounted DEF Calm

(* Where a thread is between the two looks at the application id.          *)
Racing == {"mark", "out", "sent"}

LEMMA CalmUnraced ==
  ASSUME Typed, Flow, Unraced, NEW u \in All,
         \A v \in All \ {u} : th'[v] = th[v],
         UNCHANGED <<bound, doubled, skipped>>,
         \A v \in Thread \ {u} :
           At(v, "sent") => (Written(th[v].msg)' <=> Written(th[v].msg)),
         u \in Thread => th'[u].pc \notin Racing \/ (Alone(u) => Undisturbed(u)'),
         UNCHANGED registered \/ u \in bound.threads
  PROVE  Unraced'
<1>1. SUFFICES ASSUME NEW t \in Thread, Alone(t)
               PROVE  Undisturbed(t)'
  BY DEF Unraced, Alone
<1>2. CASE t = u
  BY <1>1, <1>2 DEF At, Racing, Undisturbed
<1>3. CASE t # u
  <2>1. th'[t] = th[t] /\ registered' = registered
    BY <1>1, <1>3 DEF All, Alone
  <2>2. At(t, "sent") => (Written(th[t].msg)' <=> Written(th[t].msg))
    BY <1>3
  <2>3. Undisturbed(t)
    BY <1>1 DEF Unraced
  <2>. QED BY <2>1, <2>2, <2>3 DEF Undisturbed, At
<1>. QED BY <1>2, <1>3

LEMMA CalmLocated ==
  ASSUME Typed, Flow, Typed', Flow', Located, NEW u \in All, Calm(u),
         u \in Thread => th'[u].pc \notin Racing \/ (Alone(u) => Undisturbed(u)'),
         UNCHANGED registered \/ u \in bound.threads
  PROVE  Located'
<1>1. Accounted' /\ Raced'
  BY CalmAccounted DEF Located
<1>2. \A v \in Thread \ {u} :
        At(v, "sent") => (Written(th[v].msg)' <=> Written(th[v].msg))
  BY DEF Calm, Written, All
<1>3. Unraced'
  BY <1>2, CalmUnraced DEF Located, Calm
<1>. QED BY <1>1, <1>3 DEF Located

LEMMA ControlWrite ==
  ASSUME NEW op, op # "log", Write(Control(op))
  PROVE  written' = written
BY Kinds DEF Write

(* Most steps within a call move no log message.                           *)
StillCalm(t) ==
  \/ SendOverflow(t) \/ OverflowReset(t) \/ SendOld(t) \/ Stored(t)
  \/ SendRegister(t) \/ RegisterRefused(t) \/ Registered(t) \/ RegisterDone(t)
  \/ Forget(t) \/ CheckSize(t) \/ Block(t) \/ Flag(t)
  \/ Resend(t) \/ ResendDone(t) \/ Attach(t) \/ RegisterAgain(t)
  \/ ContextAgain(t) \/ ContextsDone(t) \/ ExitTries(t) \/ ExitTimeout(t)
  \/ ExitOverflow(t) \/ ExitResend(t) \/ ExitResent(t) \/ ExitUnregister(t)

LEMMA CalmSteps ==
  ASSUME Typed, Flow, Typed', Flow', Located, NEW t \in All, StillCalm(t)
  PROVE  Located'
<1>1. CASE SendOverflow(t)
  <2>1. /\ written' = written /\ UNCHANGED <<discarded, logs, startup_buffer, bound>>
        /\ UNCHANGED <<doubled, skipped>>
        /\ UNCHANGED registered
    BY <1>1, ControlWrite
    DEF external, limits, shared, history, races, SendOverflow
  <2>2. \A v \in All \ {t} : th'[v] = th[v]
    BY <1>1, ThreadTyped DEF ThreadState, SendOverflow, At, Goto, out2
  <2>3. t \in Thread => /\ Holds(t)' <=> Holds(t)
                        /\ BeforeStore(t)' => BeforeStore(t)
                        /\ th'[t].pc \notin Racing
    BY <1>1, <2>1, ThreadTyped, Kinds
    DEF ThreadState, Flow, ThreadFlow, Returns, Holds, InLog, BeforeStore,
        AfterSent, Sending, Reporting, Storing, Resending, Racing,
        SendOverflow, At, Goto, out2
  <2>. QED BY <2>1, <2>2, <2>3, Kinds, CalmLocated DEF Calm
<1>2. CASE OverflowReset(t)
  <2>1. /\ written' = written /\ UNCHANGED <<discarded, logs, startup_buffer, bound>>
        /\ UNCHANGED <<doubled, skipped>>
        /\ UNCHANGED registered
    BY <1>2
    DEF external, limits, shared, history, races, OverflowReset
  <2>2. \A v \in All \ {t} : th'[v] = th[v]
    BY <1>2, ThreadTyped DEF ThreadState, OverflowReset, At, Goto
  <2>3. t \in Thread => /\ Holds(t)' <=> Holds(t)
                        /\ BeforeStore(t)' => BeforeStore(t)
                        /\ th'[t].pc \notin Racing
    BY <1>2, <2>1, ThreadTyped, Kinds
    DEF ThreadState, Flow, ThreadFlow, Returns, Holds, InLog, BeforeStore,
        AfterSent, Sending, Reporting, Storing, Resending, Racing,
        OverflowReset, At, Goto
  <2>. QED BY <2>1, <2>2, <2>3, Kinds, CalmLocated DEF Calm
<1>3. CASE SendOld(t)
  <2>1. /\ written' = written /\ UNCHANGED <<discarded, logs, startup_buffer, bound>>
        /\ UNCHANGED <<doubled, skipped>>
        /\ UNCHANGED registered
    BY <1>3
    DEF external, limits, shared, history, races, SendOld
  <2>2. \A v \in All \ {t} : th'[v] = th[v]
    BY <1>3, ThreadTyped DEF ThreadState, SendOld, At, CallResend
  <2>3. t \in Thread => /\ Holds(t)' <=> Holds(t)
                        /\ BeforeStore(t)' => BeforeStore(t)
                        /\ th'[t].pc \notin Racing
    BY <1>3, <2>1, ThreadTyped, Kinds
    DEF ThreadState, Flow, ThreadFlow, Returns, Holds, InLog, BeforeStore,
        AfterSent, Sending, Reporting, Storing, Resending, Racing,
        SendOld, At, CallResend
  <2>. QED BY <2>1, <2>2, <2>3, Kinds, CalmLocated DEF Calm
<1>4. CASE Stored(t)
  <2>1. /\ written' = written /\ UNCHANGED <<discarded, logs, startup_buffer, bound>>
        /\ UNCHANGED <<doubled, skipped>>
        /\ UNCHANGED registered
    BY <1>4
    DEF external, limits, shared, history, races, Stored
  <2>2. \A v \in All \ {t} : th'[v] = th[v]
    BY <1>4, ThreadTyped DEF ThreadState, Stored, At, Finish, Enter, Idle
  <2>3. t \in Thread => /\ Holds(t)' <=> Holds(t)
                        /\ BeforeStore(t)' => BeforeStore(t)
                        /\ th'[t].pc \notin Racing
    BY <1>4, <2>1, ThreadTyped, Kinds
    DEF ThreadState, Flow, ThreadFlow, Returns, Holds, InLog, BeforeStore,
        AfterSent, Sending, Reporting, Storing, Resending, Racing,
        Stored, At, Finish, Enter, Idle
  <2>. QED BY <2>1, <2>2, <2>3, Kinds, CalmLocated DEF Calm
<1>5. CASE SendRegister(t)
  <2>1. /\ written' = written /\ UNCHANGED <<discarded, logs, startup_buffer, bound>>
        /\ UNCHANGED <<doubled, skipped>>
        /\ UNCHANGED registered
    BY <1>5, ControlWrite
    DEF external, limits, shared, history, races, SendRegister
  <2>2. \A v \in All \ {t} : th'[v] = th[v]
    BY <1>5, ThreadTyped DEF ThreadState, SendRegister, At, CallStore
  <2>3. t \in Thread => /\ Holds(t)' <=> Holds(t)
                        /\ BeforeStore(t)' => BeforeStore(t)
                        /\ th'[t].pc \notin Racing
    BY <1>5, <2>1, ThreadTyped, Kinds
    DEF ThreadState, Flow, ThreadFlow, Returns, Holds, InLog, BeforeStore,
        AfterSent, Sending, Reporting, Storing, Resending, Racing,
        SendRegister, At, CallStore
  <2>. QED BY <2>1, <2>2, <2>3, Kinds, CalmLocated DEF Calm
<1>6. CASE RegisterRefused(t)
  <2>1. /\ written' = written /\ UNCHANGED <<discarded, logs, startup_buffer, bound>>
        /\ UNCHANGED <<doubled, skipped>>
        /\ UNCHANGED registered
    BY <1>6
    DEF external, limits, shared, history, races, RegisterRefused
  <2>2. \A v \in All \ {t} : th'[v] = th[v]
    BY <1>6, ThreadTyped DEF ThreadState, RegisterRefused, At, Finish, Enter, Idle
  <2>3. t \in Thread => /\ Holds(t)' <=> Holds(t)
                        /\ BeforeStore(t)' => BeforeStore(t)
                        /\ th'[t].pc \notin Racing
    BY <1>6, <2>1, ThreadTyped, Kinds
    DEF ThreadState, Flow, ThreadFlow, Returns, Holds, InLog, BeforeStore,
        AfterSent, Sending, Reporting, Storing, Resending, Racing,
        RegisterRefused, At, Finish, Enter, Idle
  <2>. QED BY <2>1, <2>2, <2>3, Kinds, CalmLocated DEF Calm
<1>7. CASE Registered(t)
  <2>1. /\ written' = written /\ UNCHANGED <<discarded, logs, startup_buffer, bound>>
        /\ UNCHANGED <<doubled, skipped>>
        /\ UNCHANGED registered
    BY <1>7
    DEF external, limits, shared, history, races, Registered
  <2>2. \A v \in All \ {t} : th'[v] = th[v]
    BY <1>7, ThreadTyped DEF ThreadState, Registered, At, CallResend, Finish, Enter, Idle
  <2>3. t \in Thread => /\ Holds(t)' <=> Holds(t)
                        /\ BeforeStore(t)' => BeforeStore(t)
                        /\ th'[t].pc \notin Racing
    BY <1>7, <2>1, ThreadTyped, Kinds
    DEF ThreadState, Flow, ThreadFlow, Returns, Holds, InLog, BeforeStore,
        AfterSent, Sending, Reporting, Storing, Resending, Racing,
        Registered, At, CallResend, Finish, Enter, Idle
  <2>. QED BY <2>1, <2>2, <2>3, Kinds, CalmLocated DEF Calm
<1>8. CASE RegisterDone(t)
  <2>1. /\ written' = written /\ UNCHANGED <<discarded, logs, startup_buffer, bound>>
        /\ UNCHANGED <<doubled, skipped>>
        /\ UNCHANGED registered
    BY <1>8
    DEF external, limits, shared, history, races, RegisterDone
  <2>2. \A v \in All \ {t} : th'[v] = th[v]
    BY <1>8, ThreadTyped DEF ThreadState, RegisterDone, At, Finish, Enter, Idle
  <2>3. t \in Thread => /\ Holds(t)' <=> Holds(t)
                        /\ BeforeStore(t)' => BeforeStore(t)
                        /\ th'[t].pc \notin Racing
    BY <1>8, <2>1, ThreadTyped, Kinds
    DEF ThreadState, Flow, ThreadFlow, Returns, Holds, InLog, BeforeStore,
        AfterSent, Sending, Reporting, Storing, Resending, Racing,
        RegisterDone, At, Finish, Enter, Idle
  <2>. QED BY <2>1, <2>2, <2>3, Kinds, CalmLocated DEF Calm
<1>9. CASE Forget(t)
  <2>1. /\ written' = written /\ UNCHANGED <<discarded, logs, startup_buffer, bound>>
        /\ UNCHANGED <<doubled, skipped>>
    BY <1>9
    DEF external, limits, shared, history, races, Forget
  <2>2. \A v \in All \ {t} : th'[v] = th[v]
    BY <1>9, ThreadTyped DEF ThreadState, Forget, At, Enter, Idle
  <2>3. t \in Thread => /\ Holds(t)' <=> Holds(t)
                        /\ BeforeStore(t)' => BeforeStore(t)
                        /\ th'[t].pc \notin Racing
    BY <1>9, <2>1, ThreadTyped, Kinds
    DEF ThreadState, Flow, ThreadFlow, Returns, Holds, InLog, BeforeStore,
        AfterSent, Sending, Reporting, Storing, Resending, Racing,
        Forget, At, Enter, Idle
  <2>4. t \in bound.threads
    BY <1>9, Kinds
    DEF Flow, ThreadFlow, HousekeeperFlow, Storing, Resending, All, Forget, At
  <2>. QED BY <2>1, <2>2, <2>3, <2>4, Kinds, CalmLocated DEF Calm
<1>10. CASE CheckSize(t)
  <2>1. /\ written' = written /\ UNCHANGED <<discarded, logs, startup_buffer, bound>>
        /\ UNCHANGED <<doubled, skipped>>
        /\ UNCHANGED registered
    BY <1>10
    DEF external, limits, shared, history, races, CheckSize
  <2>2. \A v \in All \ {t} : th'[v] = th[v]
    BY <1>10, ThreadTyped DEF ThreadState, CheckSize, At, Goto
  <2>3. t \in Thread => /\ Holds(t)' <=> Holds(t)
                        /\ BeforeStore(t)' => BeforeStore(t)
                        /\ th'[t].pc \notin Racing
    BY <1>10, <2>1, ThreadTyped, Kinds
    DEF ThreadState, Flow, ThreadFlow, Returns, Holds, InLog, BeforeStore,
        AfterSent, Sending, Reporting, Storing, Resending, Racing,
        CheckSize, At, Goto
  <2>. QED BY <2>1, <2>2, <2>3, Kinds, CalmLocated DEF Calm
<1>11. CASE Block(t)
  <2>1. /\ written' = written /\ UNCHANGED <<discarded, logs, startup_buffer, bound>>
        /\ UNCHANGED <<doubled, skipped>>
        /\ UNCHANGED registered
    BY <1>11
    DEF external, limits, shared, history, races, Block
  <2>2. \A v \in All \ {t} : th'[v] = th[v]
    BY <1>11, ThreadTyped DEF ThreadState, Block, At, Goto
  <2>3. t \in Thread => /\ Holds(t)' <=> Holds(t)
                        /\ BeforeStore(t)' => BeforeStore(t)
                        /\ th'[t].pc \notin Racing
    BY <1>11, <2>1, ThreadTyped, Kinds
    DEF ThreadState, Flow, ThreadFlow, Returns, Holds, InLog, BeforeStore,
        AfterSent, Sending, Reporting, Storing, Resending, Racing,
        Block, At, Goto
  <2>. QED BY <2>1, <2>2, <2>3, Kinds, CalmLocated DEF Calm
<1>12. CASE Flag(t)
  <2>1. /\ written' = written /\ UNCHANGED <<discarded, logs, startup_buffer, bound>>
        /\ UNCHANGED <<doubled, skipped>>
        /\ UNCHANGED registered
    BY <1>12
    DEF external, limits, shared, history, races, Flag
  <2>2. \A v \in All \ {t} : th'[v] = th[v]
    BY <1>12, ThreadTyped DEF ThreadState, Flag, At, Goto
  <2>3. t \in Thread => /\ Holds(t)' <=> Holds(t)
                        /\ BeforeStore(t)' => BeforeStore(t)
                        /\ th'[t].pc \notin Racing
    BY <1>12, <2>1, ThreadTyped, Kinds
    DEF ThreadState, Flow, ThreadFlow, Returns, Holds, InLog, BeforeStore,
        AfterSent, Sending, Reporting, Storing, Resending, Racing,
        Flag, At, Goto
  <2>. QED BY <2>1, <2>2, <2>3, Kinds, CalmLocated DEF Calm
<1>13. CASE Resend(t)
  <2>1. /\ written' = written /\ UNCHANGED <<discarded, logs, startup_buffer, bound>>
        /\ UNCHANGED <<doubled, skipped>>
        /\ UNCHANGED registered
    BY <1>13
    DEF external, limits, shared, history, races, Resend
  <2>2. \A v \in All \ {t} : th'[v] = th[v]
    BY <1>13, ThreadTyped DEF ThreadState, Resend, At, Return
  <2>3. t \in Thread => /\ Holds(t)' <=> Holds(t)
                        /\ BeforeStore(t)' => BeforeStore(t)
                        /\ th'[t].pc \notin Racing
    BY <1>13, <2>1, ThreadTyped, Kinds
    DEF ThreadState, Flow, ThreadFlow, Returns, Holds, InLog, BeforeStore,
        AfterSent, Sending, Reporting, Storing, Resending, Racing,
        Resend, At, Return
  <2>. QED BY <2>1, <2>2, <2>3, Kinds, CalmLocated DEF Calm
<1>14. CASE ResendDone(t)
  <2>1. /\ written' = written /\ UNCHANGED <<discarded, logs, startup_buffer, bound>>
        /\ UNCHANGED <<doubled, skipped>>
        /\ UNCHANGED registered
    BY <1>14
    DEF external, limits, shared, history, races, ResendDone
  <2>2. \A v \in All \ {t} : th'[v] = th[v]
    BY <1>14, ThreadTyped DEF ThreadState, ResendDone, At, Return
  <2>3. t \in Thread => /\ Holds(t)' <=> Holds(t)
                        /\ BeforeStore(t)' => BeforeStore(t)
                        /\ th'[t].pc \notin Racing
    <3>. SUFFICES ASSUME t \in Thread
                  PROVE  /\ Holds(t)' <=> Holds(t)
                         /\ BeforeStore(t)' => BeforeStore(t)
                         /\ th'[t].pc \notin Racing
      OBVIOUS
    <3>1. /\ th[t].pc = "resend_next"
          /\ th[t].back \in {"new", "done", "exit_resent", "flushed"}
          /\ th'[t].pc = th[t].back
      BY <1>14, ThreadTyped, Kinds
      DEF ThreadState, Flow, ThreadFlow, Returns, Resending, ResendDone, At, Return
    <3>. QED
      BY <3>1
      DEF Holds, InLog, BeforeStore, AfterSent, Sending, Reporting, Storing,
          Resending, Racing
  <2>. QED BY <2>1, <2>2, <2>3, Kinds, CalmLocated DEF Calm
<1>15. CASE Attach(t)
  <2>1. /\ written' = written /\ UNCHANGED <<discarded, logs, startup_buffer, bound>>
        /\ UNCHANGED <<doubled, skipped>>
        /\ UNCHANGED registered
    BY <1>15
    DEF external, limits, shared, history, races, Attach
  <2>2. \A v \in All \ {t} : th'[v] = th[v]
    BY <1>15, ThreadTyped DEF ThreadState, Attach, At, Goto, Attached
  <2>3. t \in Thread => /\ Holds(t)' <=> Holds(t)
                        /\ BeforeStore(t)' => BeforeStore(t)
                        /\ th'[t].pc \notin Racing
    BY <1>15, <2>1, ThreadTyped, Kinds
    DEF ThreadState, Flow, ThreadFlow, Returns, Holds, InLog, BeforeStore,
        AfterSent, Sending, Reporting, Storing, Resending, Racing,
        Attach, At, Goto, Attached
  <2>. QED BY <2>1, <2>2, <2>3, Kinds, CalmLocated DEF Calm
<1>16. CASE RegisterAgain(t)
  <2>1. /\ written' = written /\ UNCHANGED <<discarded, logs, startup_buffer, bound>>
        /\ UNCHANGED <<doubled, skipped>>
        /\ UNCHANGED registered
    BY <1>16, ControlWrite
    DEF external, limits, shared, history, races, RegisterAgain
  <2>2. \A v \in All \ {t} : th'[v] = th[v]
    BY <1>16, ThreadTyped DEF ThreadState, RegisterAgain, At, CallStore, Goto
  <2>3. t \in Thread => /\ Holds(t)' <=> Holds(t)
                        /\ BeforeStore(t)' => BeforeStore(t)
                        /\ th'[t].pc \notin Racing
    BY <1>16, <2>1, ThreadTyped, Kinds
    DEF ThreadState, Flow, ThreadFlow, Returns, Holds, InLog, BeforeStore,
        AfterSent, Sending, Reporting, Storing, Resending, Racing,
        RegisterAgain, At, CallStore, Goto
  <2>. QED BY <2>1, <2>2, <2>3, Kinds, CalmLocated DEF Calm
<1>17. CASE ContextAgain(t)
  <2>1. /\ written' = written /\ UNCHANGED <<discarded, logs, startup_buffer, bound>>
        /\ UNCHANGED <<doubled, skipped>>
        /\ UNCHANGED registered
    BY <1>17, ControlWrite
    DEF external, limits, shared, history, races, ContextAgain
  <2>2. \A v \in All \ {t} : th'[v] = th[v]
    BY <1>17, ThreadTyped DEF ThreadState, ContextAgain, At, MoreContexts
  <2>3. t \in Thread => /\ Holds(t)' <=> Holds(t)
                        /\ BeforeStore(t)' => BeforeStore(t)
                        /\ th'[t].pc \notin Racing
    <3>1. /\ th[t].pc = "contexts" /\ th'[t].pc \in {"contexts", "check"}
          /\ th'[t].back = "contexts"
      BY <1>17, ThreadTyped DEF ThreadState, ContextAgain, At
    <3>. QED
      BY <3>1
      DEF Holds, InLog, BeforeStore, AfterSent, Sending, Reporting, Storing,
          Resending, Racing
  <2>. QED BY <2>1, <2>2, <2>3, Kinds, CalmLocated DEF Calm
<1>18. CASE ContextsDone(t)
  <2>1. /\ written' = written /\ UNCHANGED <<discarded, logs, startup_buffer, bound>>
        /\ UNCHANGED <<doubled, skipped>>
        /\ UNCHANGED registered
    BY <1>18
    DEF external, limits, shared, history, races, ContextsDone
  <2>2. \A v \in All \ {t} : th'[v] = th[v]
    BY <1>18, ThreadTyped DEF ThreadState, ContextsDone, At, Goto, Attached
  <2>3. t \in Thread => /\ Holds(t)' <=> Holds(t)
                        /\ BeforeStore(t)' => BeforeStore(t)
                        /\ th'[t].pc \notin Racing
    BY <1>18, <2>1, ThreadTyped, Kinds
    DEF ThreadState, Flow, ThreadFlow, Returns, Holds, InLog, BeforeStore,
        AfterSent, Sending, Reporting, Storing, Resending, Racing,
        ContextsDone, At, Goto, Attached
  <2>. QED BY <2>1, <2>2, <2>3, Kinds, CalmLocated DEF Calm
<1>19. CASE ExitTries(t)
  <2>1. /\ written' = written /\ UNCHANGED <<discarded, logs, startup_buffer, bound>>
        /\ UNCHANGED <<doubled, skipped>>
        /\ UNCHANGED registered
    BY <1>19
    DEF external, limits, shared, history, races, ExitTries
  <2>2. \A v \in All \ {t} : th'[v] = th[v]
    BY <1>19, ThreadTyped DEF ThreadState, ExitTries, At, Enter, Idle
  <2>3. t \in Thread => /\ Holds(t)' <=> Holds(t)
                        /\ BeforeStore(t)' => BeforeStore(t)
                        /\ th'[t].pc \notin Racing
    BY <1>19, <2>1, ThreadTyped, Kinds
    DEF ThreadState, Flow, ThreadFlow, Returns, Holds, InLog, BeforeStore,
        AfterSent, Sending, Reporting, Storing, Resending, Racing,
        ExitTries, At, Enter, Idle
  <2>. QED BY <2>1, <2>2, <2>3, Kinds, CalmLocated DEF Calm
<1>20. CASE ExitTimeout(t)
  <2>1. /\ written' = written /\ UNCHANGED <<discarded, logs, startup_buffer, bound>>
        /\ UNCHANGED <<doubled, skipped>>
        /\ UNCHANGED registered
    BY <1>20
    DEF external, limits, shared, history, races, ExitTimeout
  <2>2. \A v \in All \ {t} : th'[v] = th[v]
    BY <1>20, ThreadTyped DEF ThreadState, ExitTimeout, At, Enter, Idle
  <2>3. t \in Thread => /\ Holds(t)' <=> Holds(t)
                        /\ BeforeStore(t)' => BeforeStore(t)
                        /\ th'[t].pc \notin Racing
    BY <1>20, <2>1, ThreadTyped, Kinds
    DEF ThreadState, Flow, ThreadFlow, Returns, Holds, InLog, BeforeStore,
        AfterSent, Sending, Reporting, Storing, Resending, Racing,
        ExitTimeout, At, Enter, Idle
  <2>. QED BY <2>1, <2>2, <2>3, Kinds, CalmLocated DEF Calm
<1>21. CASE ExitOverflow(t)
  <2>1. /\ written' = written /\ UNCHANGED <<discarded, logs, startup_buffer, bound>>
        /\ UNCHANGED <<doubled, skipped>>
        /\ UNCHANGED registered
    BY <1>21
    DEF external, limits, shared, history, races, ExitOverflow
  <2>2. \A v \in All \ {t} : th'[v] = th[v]
    BY <1>21, ThreadTyped DEF ThreadState, ExitOverflow, At
  <2>3. t \in Thread => /\ Holds(t)' <=> Holds(t)
                        /\ BeforeStore(t)' => BeforeStore(t)
                        /\ th'[t].pc \notin Racing
    BY <1>21, <2>1, ThreadTyped, Kinds
    DEF ThreadState, Flow, ThreadFlow, Returns, Holds, InLog, BeforeStore,
        AfterSent, Sending, Reporting, Storing, Resending, Racing,
        ExitOverflow, At
  <2>. QED BY <2>1, <2>2, <2>3, Kinds, CalmLocated DEF Calm
<1>22. CASE ExitResend(t)
  <2>1. /\ written' = written /\ UNCHANGED <<discarded, logs, startup_buffer, bound>>
        /\ UNCHANGED <<doubled, skipped>>
        /\ UNCHANGED registered
    BY <1>22
    DEF external, limits, shared, history, races, ExitResend
  <2>2. \A v \in All \ {t} : th'[v] = th[v]
    BY <1>22, ThreadTyped DEF ThreadState, ExitResend, At, Enter, Idle, CallResend
  <2>3. t \in Thread => /\ Holds(t)' <=> Holds(t)
                        /\ BeforeStore(t)' => BeforeStore(t)
                        /\ th'[t].pc \notin Racing
    BY <1>22, <2>1, ThreadTyped, Kinds
    DEF ThreadState, Flow, ThreadFlow, Returns, Holds, InLog, BeforeStore,
        AfterSent, Sending, Reporting, Storing, Resending, Racing,
        ExitResend, At, Enter, Idle, CallResend
  <2>. QED BY <2>1, <2>2, <2>3, Kinds, CalmLocated DEF Calm
<1>23. CASE ExitResent(t)
  <2>1. /\ written' = written /\ UNCHANGED <<discarded, logs, startup_buffer, bound>>
        /\ UNCHANGED <<doubled, skipped>>
        /\ UNCHANGED registered
    BY <1>23
    DEF external, limits, shared, history, races, ExitResent
  <2>2. \A v \in All \ {t} : th'[v] = th[v]
    BY <1>23, ThreadTyped DEF ThreadState, ExitResent, At, Enter, Idle
  <2>3. t \in Thread => /\ Holds(t)' <=> Holds(t)
                        /\ BeforeStore(t)' => BeforeStore(t)
                        /\ th'[t].pc \notin Racing
    BY <1>23, <2>1, ThreadTyped, Kinds
    DEF ThreadState, Flow, ThreadFlow, Returns, Holds, InLog, BeforeStore,
        AfterSent, Sending, Reporting, Storing, Resending, Racing,
        ExitResent, At, Enter, Idle
  <2>. QED BY <2>1, <2>2, <2>3, Kinds, CalmLocated DEF Calm
<1>24. CASE ExitUnregister(t)
  <2>1. /\ written' = written /\ UNCHANGED <<discarded, logs, startup_buffer, bound>>
        /\ UNCHANGED <<doubled, skipped>>
        /\ UNCHANGED registered
    BY <1>24, ControlWrite
    DEF external, limits, shared, history, races, ExitUnregister, SendUnregister
  <2>2. \A v \in All \ {t} : th'[v] = th[v]
    BY <1>24, ThreadTyped DEF ThreadState, ExitUnregister, At, SendUnregister, out2, CallStore, Goto
  <2>3. t \in Thread => /\ Holds(t)' <=> Holds(t)
                        /\ BeforeStore(t)' => BeforeStore(t)
                        /\ th'[t].pc \notin Racing
    BY <1>24, <2>1, ThreadTyped, Kinds
    DEF ThreadState, Flow, ThreadFlow, Returns, Holds, InLog, BeforeStore,
        AfterSent, Sending, Reporting, Storing, Resending, Racing,
        ExitUnregister, At, SendUnregister, out2, CallStore, Goto
  <2>. QED BY <2>1, <2>2, <2>3, Kinds, CalmLocated DEF Calm
<1>. QED BY <1>1, <1>2, <1>3, <1>4, <1>5, <1>6, <1>7, <1>8, <1>9, <1>10, <1>11, <1>12, <1>13, <1>14, <1>15, <1>16, <1>17, <1>18, <1>19, <1>20, <1>21, <1>22, <1>23, <1>24 DEF StillCalm

(* ... nor do the looks at the result, the application id and the flag.    *)
LEMMA LooksCalm ==
  ASSUME Typed, Flow, Typed', Flow', Located, NEW t \in Thread,
         SendNew(t) \/ MarkEmpty(t)
  PROVE  Located'
<1>1. /\ UNCHANGED <<written, discarded, logs, startup_buffer, bound>>
      /\ UNCHANGED <<doubled, skipped, registered>>
  BY DEF external, limits, shared, history, races, SendNew, MarkEmpty
<1>2. /\ \A v \in All \ {t} : th'[v] = th[v]
      /\ th'[t].msg = th[t].msg /\ th'[t].res = th[t].res
  BY ThreadTyped, Kinds DEF ThreadState, SendNew, MarkEmpty, Goto
<1>3. /\ th[t].pc \in {"new", "mark"} /\ th'[t].pc \in Racing
      /\ th'[t].pc = "sent" => th[t].pc = "new" /\ ~(th[t].res = "OK" /\ registered)
      /\ th'[t].pc \in {"mark", "out"} /\ Alone(t) => registered
  BY ThreadTyped, Kinds
  DEF ThreadState, SendNew, MarkEmpty, At, Goto, Racing, Located, Unraced,
      Undisturbed
<1>4. BeforeStore(t) /\ BeforeStore(t)'
  BY <1>3 DEF BeforeStore, Sending, Racing
<1>5. Holds(t) /\ ~Written(th[t].msg)
  <2>1. th[t].pc # "sent"
    BY <1>3
  <2>. QED BY <1>4, <2>1, HeldBeforeStore DEF Located
<1>6. Holds(t)'
  <2>1. InLog(t)' /\ ~Written(Log(t, logs[t]))
    BY <1>4, <1>5, HeldBeforeStore DEF InLog, Located
  <2>2. th'[t].pc \notin {"stored", "flag"} /\ ~Written(Log(t, logs[t]))'
    BY <1>1, <1>3, <2>1 DEF Racing, Written
  <2>. QED BY <1>1, <2>1, <2>2 DEF Holds
<1>7. Alone(t) => Undisturbed(t)'
  BY <1>1, <1>2, <1>3, <1>5 DEF Undisturbed, At, Written
<1>. QED
  BY <1>1, <1>2, <1>4, <1>5, <1>6, <1>7, Kinds, CalmLocated DEF Calm

-----------------------------------------------------------------------------
(* A step that moves one message, from one place to another.               *)

LEMMA StillHolds ==
  ASSUME NEW v \in Thread, th'[v] = th[v], logs'[v] = logs[v],
         At(v, "sent") => (Written(Log(v, logs[v]))' <=> Written(Log(v, logs[v])))
  PROVE  (Holds(v)' <=> Holds(v)) /\ (BeforeStore(v)' <=> BeforeStore(v))
BY DEF Holds, InLog, BeforeStore, AfterSent, At, Written

LEMMA AccountedBut ==
  ASSUME Typed, Flow, Typed', Flow', Accounted, NEW e \in LogMessage,
         Places(e)' = Expected(e)',
         \A m \in LogMessage \ {e} :
           /\ TimesWritten(m)' = TimesWritten(m)
           /\ Copies(startup_buffer', m) = Copies(startup_buffer, m)
           /\ m \in discarded' <=> m \in discarded
           /\ m \in doubled' <=> m \in doubled
           /\ m \in skipped' <=> m \in skipped
           /\ m.n > logs'[m.from] <=> m.n > logs[m.from]
           /\ (Holds(m.from)' /\ m.n = logs'[m.from])
                <=> (Holds(m.from) /\ m.n = logs[m.from])
  PROVE  Accounted'
<1>1. SUFFICES ASSUME NEW m \in LogMessage, m # e
               PROVE  Places(m)' = Expected(m)'
  BY DEF Accounted
<1>2. /\ m.from \in Thread /\ m.n \in Nat /\ m = Log(m.from, m.n)
  BY LogMessages
<1>3. /\ TimesWritten(m)' = TimesWritten(m)
      /\ Copies(startup_buffer', m) = Copies(startup_buffer, m)
      /\ m \in discarded' <=> m \in discarded
      /\ (Holds(m.from)' /\ m.n = logs'[m.from])
           <=> (Holds(m.from) /\ m.n = logs[m.from])
  BY <1>1
<1>4. Expected(m)' = Expected(m)
  BY <1>1 DEF Expected
<1>5. /\ Places(m) =
           TimesWritten(m) + Copies(startup_buffer, m)
             + Once(m \in discarded) + Once(Holds(m.from) /\ m.n = logs[m.from])
      /\ Places(m)' =
           TimesWritten(m)' + Copies(startup_buffer', m)
             + Once(m \in discarded') + Once(Holds(m.from)' /\ m.n = logs'[m.from])
  BY <1>2, PlacesAre, PlacesWillBe
<1>6. /\ Once(m \in discarded') = Once(m \in discarded)
      /\ Once(Holds(m.from)' /\ m.n = logs'[m.from])
           = Once(Holds(m.from) /\ m.n = logs[m.from])
  BY <1>3 DEF Once
<1>7. Places(m) = Expected(m)
  BY DEF Accounted
<1>. QED BY <1>3, <1>4, <1>5, <1>6, <1>7

(* What it takes to show that a thread's last message is accounted for.    *)
LEMMA LastAccounted ==
  ASSUME Typed', Flow', NEW t \in Thread, logs' = logs, logs[t] \in Nat \ {0}
  PROVE  LET m == Log(t, logs[t])
         IN  /\ Places(m)' = TimesWritten(m)' + Copies(startup_buffer', m)
                               + Once(m \in discarded') + Once(Holds(t)')
             /\ Expected(m)' = IF m \in skipped' THEN 0
                               ELSE IF m \in doubled' THEN 2 ELSE 1
<1>. DEFINE m == Log(t, logs[t])
<1>1. m.from = t /\ m.n = logs[t]
  BY LogMessages
<1>2. Places(m)' = TimesWritten(m)' + Copies(startup_buffer', m)
         + Once(m \in discarded') + Once(Holds(t)' /\ logs[t] = logs'[t])
  BY PlacesWillBe
<1>3. Once(Holds(t)' /\ logs[t] = logs'[t]) = Once(Holds(t)')
  BY DEF Once
<1>4. Expected(m)' = IF m \in skipped' THEN 0
                     ELSE IF m \in doubled' THEN 2 ELSE 1
  BY <1>1 DEF Expected
<1>. QED BY <1>2, <1>3, <1>4

(* A step of a thread that moves its own last message only.                *)
LEMMA OwnMove ==
  ASSUME Typed, Flow, Typed', Flow', Accounted, NEW t \in Thread,
         logs' = logs, logs[t] \in Nat \ {0},
         \A v \in All \ {t} : th'[v] = th[v],
         \A m \in LogMessage \ {Log(t, logs[t])} :
           /\ TimesWritten(m)' = TimesWritten(m) /\ (Written(m)' <=> Written(m))
           /\ Copies(startup_buffer', m) = Copies(startup_buffer, m)
           /\ m \in discarded' <=> m \in discarded
           /\ m \in doubled' <=> m \in doubled
           /\ m \in skipped' <=> m \in skipped,
         LET e == Log(t, logs[t])
         IN  TimesWritten(e)' + Copies(startup_buffer', e)
               + Once(e \in discarded') + Once(Holds(t)')
             = IF e \in skipped' THEN 0 ELSE IF e \in doubled' THEN 2 ELSE 1
  PROVE  Accounted'
<1>. PICK e : e = Log(t, logs[t])
  OBVIOUS
<1>1. e \in LogMessage /\ e.from = t /\ e.n = logs[t]
  BY LogMessages
<1>2. Places(e)' = Expected(e)'
  BY LastAccounted
<1>3. ASSUME NEW v \in Thread, v # t
      PROVE  Holds(v)' <=> Holds(v)
  <2>1. th'[v] = th[v] /\ logs'[v] = logs[v]
    BY <1>3, Kinds
  <2>2. ASSUME At(v, "sent")
        PROVE  Written(Log(v, logs[v]))' <=> Written(Log(v, logs[v]))
    <3>1. logs[v] \in Nat \ {0}
      BY <2>2 DEF Flow, ThreadFlow, InLog, BeforeStore, Sending, At, Typed
    <3>2. Log(v, logs[v]) \in LogMessage \ {e}
      BY <1>3, <3>1, LogMessages
    <3>3. \A m \in LogMessage \ {e} :
            (m \in DOMAIN written') <=> (m \in DOMAIN written)
      BY DEF Written
    <3>. QED BY <2>1, <3>2, <3>3 DEF Written
  <2>. QED BY <2>1, <2>2, StillHolds
<1>4. ASSUME NEW m \in LogMessage \ {e}
      PROVE  (Holds(m.from)' /\ m.n = logs'[m.from])
               <=> (Holds(m.from) /\ m.n = logs[m.from])
  <2>1. m.from \in Thread /\ m.n \in Nat /\ m = Log(m.from, m.n)
    BY LogMessages
  <2>2. CASE m.from = t
    BY <1>4, <2>1, <2>2
  <2>3. CASE m.from # t
    BY <1>3, <2>1, <2>3
  <2>. QED BY <2>2, <2>3
<1>5. \A m \in LogMessage \ {e} :
           /\ TimesWritten(m)' = TimesWritten(m)
           /\ Copies(startup_buffer', m) = Copies(startup_buffer, m)
           /\ m \in discarded' <=> m \in discarded
           /\ m \in doubled' <=> m \in doubled
           /\ m \in skipped' <=> m \in skipped
           /\ m.n > logs'[m.from] <=> m.n > logs[m.from]
           /\ (Holds(m.from)' /\ m.n = logs'[m.from])
                <=> (Holds(m.from) /\ m.n = logs[m.from])
  BY <1>4
<1>. QED BY <1>1, <1>2, <1>5, AccountedBut

(* The write of send_log.                                                  *)
LEMMA OutNewLocated ==
  ASSUME Typed, Flow, Typed', Flow', Located, NEW t \in Thread, OutNew(t)
  PROVE  Located'
<1>. PICK e : e = Log(t, logs[t])
  OBVIOUS
<1>1. /\ UNCHANGED <<discarded, logs, startup_buffer, bound>>
      /\ UNCHANGED <<doubled, skipped, registered>>
      /\ \A v \in All \ {t} : th'[v] = th[v]
      /\ Write(th[t].msg)
  BY ThreadTyped, Kinds
  DEF ThreadState, external, limits, shared, history, races, OutNew
<1>2. /\ th'[t].pc = "sent" /\ th'[t].msg = th[t].msg /\ th'[t].res = out3
      /\ th[t].pc = "out"
  BY ThreadTyped, Kinds DEF ThreadState, OutNew, At
<1>3. BeforeStore(t) /\ BeforeStore(t)' /\ InLog(t)'
  BY <1>2 DEF BeforeStore, Sending, InLog
<1>4. /\ th[t].msg = e /\ Holds(t) /\ ~Written(e)
      /\ Copies(startup_buffer, e) = 0 /\ e \notin discarded
      /\ Log(t, logs'[t]) = e
  BY <1>1, <1>2, <1>3, HeldBeforeStore DEF Located
<1>5. /\ logs[t] \in Nat \ {0} /\ e \in LogMessage /\ e \in Message /\ e.op = "log"
      /\ e \notin doubled \cup skipped
  <2>1. logs[t] \in Nat \ {0}
    BY <1>3 DEF Flow, ThreadFlow, InLog, Typed
  <2>. QED BY <1>3, <2>1, LogMessages, Messages DEF Located, Raced
<1>6. Holds(t)' <=> ~Written(e)'
  BY <1>1, <1>2, <1>3, <1>4 DEF Holds, Written
<1>7. Alone(t) => registered
  BY <1>2 DEF Located, Unraced, Undisturbed
<1>8. CASE out3 = "OK"
  <2>1. /\ DOMAIN written' = DOMAIN written \cup {e}
        /\ \A x : TimesWritten(x)' = TimesWritten(x) + Once(x = e)
    <3>1. Write(e) /\ e \in Message /\ e.op = "log"
      BY <1>1, <1>4, <1>5
    <3>2. /\ DOMAIN written' = DOMAIN written \cup {e}
          /\ \A x : TimesWritten(x)' = TimesWritten(x) + Once(x = e)
      BY <1>8, <3>1, WriteEffect
    <3>. QED BY <3>2
  <2>2. Written(e)' /\ \A x : x # e => (Written(x)' <=> Written(x))
    BY <1>4, <2>1 DEF Written
  <2>3. TimesWritten(e)' = 1 /\ ~Holds(t)'
    <3>1. TimesWritten(e) = 0 /\ Once(e = e) = 1
      BY <1>4 DEF TimesWritten, Once
    <3>2. \A x : x = e => TimesWritten(x)' = 1
      BY <2>1, <3>1
    <3>. QED BY <1>4, <1>6, <2>2, <3>2
  <2>4. \A m \in LogMessage \ {e} : TimesWritten(m)' = TimesWritten(m)
    <3>1. ASSUME NEW m \in LogMessage \ {e}
          PROVE  TimesWritten(m)' = TimesWritten(m) + 0
      BY <2>1 DEF Once
    <3>. QED BY <3>1, Counts
  <2>5. TimesWritten(e)' + Copies(startup_buffer', e)
          + Once(e \in discarded') + Once(Holds(t)') = 1
    <3>1. Once(e \in discarded') = 0 /\ Once(Holds(t)') = 0
      BY <1>1, <1>4, <2>3 DEF Once
    <3>. QED BY <1>1, <1>4, <2>3, <3>1
  <2>6. Accounted'
    BY <1>1, <1>5, <2>2, <2>4, <2>5, OwnMove DEF Located
  <2>7. Raced'
    <3>1. \A v \in Thread : BeforeStore(v)' => BeforeStore(v)
      BY <1>1, <1>3, Kinds DEF BeforeStore
    <3>. QED BY <1>1, <2>2, <3>1 DEF Raced, Located
  <2>8. Alone(t) => Undisturbed(t)'
    BY <1>1, <1>2, <1>4, <1>7, <1>8, <2>2 DEF Undisturbed, At, Written
  <2>9. \A v \in Thread \ {t} :
          At(v, "sent") => (Written(th[v].msg)' <=> Written(th[v].msg))
    <3>1. ASSUME NEW v \in Thread, v # t, At(v, "sent")
          PROVE  th[v].msg # e /\ th'[v] = th[v]
      <4>1. th[v].msg = Log(v, logs[v])
        BY <3>1 DEF Flow, ThreadFlow, InLog, BeforeStore, Sending, At
      <4>. QED BY <1>1, <3>1, <4>1, Kinds DEF Log
    <3>. QED BY <2>2, <3>1 DEF Written
  <2>10. Unraced'
    BY <1>1, <2>8, <2>9, Kinds, CalmUnraced DEF Located
  <2>. QED BY <2>6, <2>7, <2>10 DEF Located
<1>9. CASE out3 # "OK"
  <2>1. written' = written
    BY <1>1, <1>9 DEF Write
  <2>2. Alone(t) => Undisturbed(t)'
    BY <1>2, <1>4, <1>9, <2>1 DEF Undisturbed, At, Written
  <2>3. Holds(t)'
    BY <1>1, <1>4, <1>6, <2>1 DEF Written
  <2>. QED
    BY <1>1, <1>3, <1>4, <2>1, <2>2, <2>3, Kinds, CalmLocated DEF Calm
<1>. QED BY <1>8, <1>9

(* The second look at the application id, in send_log.                     *)
LEMMA SentLocated ==
  ASSUME Typed, Flow, Typed', Flow', Located, NEW t \in Thread, Sent(t)
  PROVE  Located'
<1>. PICK e : e = Log(t, logs[t])
  OBVIOUS
<1>1. /\ UNCHANGED <<written, discarded, logs, startup_buffer, bound, registered>>
      /\ \A v \in All \ {t} : th'[v] = th[v]
  BY ThreadTyped, Kinds
  DEF ThreadState, external, limits, shared, history, races, Sent, CallStore,
      Finish, Enter, Idle
<1>2. /\ th[t].pc = "sent"
      /\ th'[t].pc = (IF ToBeStored(t) THEN "check" ELSE "idle")
      /\ ToBeStored(t) => th'[t].back = "stored"
      /\ th'[t].pc \notin Racing
  BY ThreadTyped, Kinds
  DEF ThreadState, Sent, At, CallStore, Finish, Enter, Idle, Racing
<1>3. BeforeStore(t) /\ InLog(t) /\ ~BeforeStore(t)'
  BY <1>2 DEF BeforeStore, Sending, Reporting, Resending, InLog
<1>4. /\ th[t].msg = e /\ Log(t, logs'[t]) = e /\ e \notin doubled \cup skipped
      /\ Holds(t) <=> ~Written(e)
      /\ ~Written(e) => Copies(startup_buffer, e) = 0 /\ e \notin discarded
  <2>1. e \notin doubled \cup skipped
    BY <1>3 DEF Located, Raced
  <2>. QED BY <1>1, <1>2, <1>3, <2>1, HeldBeforeStore DEF Located
<1>5. Holds(t)' <=> ToBeStored(t)
  BY <1>1, <1>2, <1>3, <1>4
  DEF Holds, InLog, BeforeStore, AfterSent, Sending, Reporting, Resending, Storing
<1>6. logs[t] \in Nat \ {0} /\ e \in LogMessage /\ e.n = logs[t] /\ e.from = t
  <2>1. logs[t] \in Nat \ {0}
    BY <1>3 DEF Flow, ThreadFlow, Typed
  <2>. QED BY <2>1, LogMessages
<1>7. /\ doubled' = (IF ToBeStored(t) /\ Written(e) THEN doubled \cup {e} ELSE doubled)
      /\ skipped' = (IF ~ToBeStored(t) /\ ~Written(e) THEN skipped \cup {e} ELSE skipped)
  BY <1>4 DEF Sent
<1>8. \A x : Written(x)' = Written(x) /\ TimesWritten(x)' = TimesWritten(x)
  BY <1>1 DEF Written, TimesWritten
<1>9. CASE ToBeStored(t) <=> ~Written(e)
  <2>1. UNCHANGED <<doubled, skipped>>
    BY <1>7, <1>9
  <2>. QED
    BY <1>1, <1>2, <1>3, <1>4, <1>5, <1>9, <2>1, Kinds, CalmLocated DEF Calm
<1>10. CASE ToBeStored(t) <=> Written(e)
  <2>1. Raced'
    <3>1. ASSUME NEW v \in Thread, BeforeStore(v)'
          PROVE  BeforeStore(v) /\ v # t /\ Log(v, logs'[v]) \notin doubled' \cup skipped'
      <4>1. v # t /\ BeforeStore(v)
        BY <1>1, <1>3, <3>1, Kinds DEF BeforeStore
      <4>2. Log(v, logs[v]) # e
        BY <1>6, <4>1 DEF Log
      <4>3. Log(v, logs[v]) \notin doubled \cup skipped
        BY <4>1 DEF Located, Raced
      <4>. QED BY <1>1, <1>7, <4>1, <4>2, <4>3
    <3>2. \A m \in doubled' : Written(m) /\ m \notin skipped'
      BY <1>4, <1>7, <1>10 DEF Located, Raced
    <3>3. doubled' \cup skipped' \subseteq LogMessage
      BY <1>6, <1>7 DEF Located, Raced
    <3>4. \A m \in doubled' \cup skipped' : m.n <= logs[m.from]
      BY <1>6, <1>7 DEF Located, Raced
    <3>. QED BY <1>1, <1>8, <3>1, <3>2, <3>3, <3>4 DEF Raced
  <2>2. \A v \in Thread : ~Alone(v)
    <3>1. ASSUME NEW v \in Thread, Alone(v) PROVE FALSE
      <4>1. v = t
        BY <1>2, <3>1 DEF Alone, Flow, ThreadFlow
      <4>2. Undisturbed(t)
        BY <3>1, <4>1 DEF Located, Unraced
      <4>. QED BY <1>2, <1>4, <1>10, <4>2 DEF Undisturbed, ToBeStored, At
    <3>. QED BY <3>1
  <2>3. Unraced'
    BY <1>1, <2>2 DEF Unraced, Alone
  <2>4. Accounted'
    <3>1. TimesWritten(e) + Copies(startup_buffer, e) + Once(e \in discarded)
            = Once(Written(e))
      <4>1. Expected(e) = 1
        BY <1>4, <1>6, HeldOnce, <1>3 DEF Located
      <4>2. CASE Written(e)
        <5>1. TimesWritten(e) + Copies(startup_buffer, e) + Once(e \in discarded) = 1
          BY <1>3, <1>4, <4>1, <4>2, HeldOnce DEF Located
        <5>. QED BY <4>2, <5>1 DEF Once
      <4>3. CASE ~Written(e)
        BY <1>4, <4>3 DEF TimesWritten, Once
      <4>. QED BY <4>2, <4>3
    <3>2. TimesWritten(e)' + Copies(startup_buffer', e)
            + Once(e \in discarded') + Once(Holds(t)')
            = IF e \in skipped' THEN 0 ELSE IF e \in doubled' THEN 2 ELSE 1
      <4>1. /\ TimesWritten(e)' = TimesWritten(e) /\ startup_buffer' = startup_buffer
            /\ discarded' = discarded
        BY <1>1, <1>8
      <4>2. CASE Written(e)
        <5>1. Once(Holds(t)') = 1 /\ Once(Written(e)) = 1
          BY <1>5, <1>10, <4>2 DEF Once
        <5>2. e \notin skipped' /\ e \in doubled'
          BY <1>4, <1>7, <1>10, <4>2
        <5>. QED BY <3>1, <4>1, <5>1, <5>2
      <4>3. CASE ~Written(e)
        <5>1. Once(Holds(t)') = 0 /\ Once(Written(e)) = 0
          BY <1>5, <1>10, <4>3 DEF Once
        <5>2. e \in skipped'
          BY <1>4, <1>7, <1>10, <4>3
        <5>. QED BY <3>1, <4>1, <5>1, <5>2
      <4>. QED BY <4>2, <4>3
    <3>3. \A m \in LogMessage \ {e} : /\ m \in doubled' <=> m \in doubled
                                      /\ m \in skipped' <=> m \in skipped
      BY <1>7
    <3>. QED BY <1>1, <1>6, <1>8, <3>2, <3>3, OwnMove DEF Located
  <2>. QED BY <2>1, <2>3, <2>4 DEF Located
<1>. QED BY <1>9, <1>10

(* The startup buffer takes a message, or refuses it.                      *)
LEMMA ControlPush ==
  ASSUME Typed, NEW m \in Message, m.op # "log", Push(m)
  PROVE  /\ UNCHANGED discarded
         /\ \A x \in LogMessage : Copies(startup_buffer', x) = Copies(startup_buffer, x)
<1>1. UNCHANGED discarded
  BY DEF Push
<1>2. CASE Full
  BY <1>2 DEF Push
<1>3. CASE ~Full
  <2>1. startup_buffer \in Seq(Message) /\ startup_buffer' = Append(startup_buffer, m)
    BY <1>3 DEF Push, Typed, TypeOK
  <2>2. ASSUME NEW x \in LogMessage
        PROVE  Copies(startup_buffer', x) = Copies(startup_buffer, x)
    <3>1. Copies(startup_buffer', x) = Copies(startup_buffer, x) + Once(x = m)
      BY <2>1, CopiesAppend
    <3>2. Once(x = m) = 0
      BY LogMessages DEF Once
    <3>3. Copies(startup_buffer, x) \in Nat
      BY Counts
    <3>. QED BY <3>1, <3>2, <3>3
  <2>. QED BY <1>1, <2>2
<1>. QED BY <1>1, <1>2, <1>3

LEMMA LogPush ==
  ASSUME Typed, Flow, Typed', Flow', Located, NEW t \in Thread,
         AfterSent(t), Holds(t), Push(th[t].msg),
         ~Holds(t)', ~BeforeStore(t)', th'[t].pc \notin Racing,
         \A v \in All \ {t} : th'[v] = th[v],
         UNCHANGED <<written, logs, bound, registered, doubled, skipped>>
  PROVE  Located'
<1>. PICK e : e = Log(t, logs[t])
  OBVIOUS
<1>1. /\ InLog(t) /\ th[t].msg = e /\ logs[t] \in Nat \ {0} /\ e.op = "log"
      /\ e \in LogMessage /\ e \in Message
  <2>1. InLog(t) /\ th[t].msg = e /\ logs[t] \in Nat \ {0}
    BY DEF InLog, Flow, ThreadFlow, Typed
  <2>. QED BY <2>1, LogMessages, Messages
<1>2. /\ TimesWritten(e) \in Nat /\ (TimesWritten(e) > 0 <=> Written(e))
      /\ Copies(startup_buffer, e) \in Nat
      /\ Once(e \in discarded) \in {0, 1}
      /\ (Once(e \in discarded) = 1 <=> e \in discarded)
  BY Counts DEF Once
<1>3. /\ e \notin skipped
      /\ TimesWritten(e) + Copies(startup_buffer, e) + Once(e \in discarded) + 1
           = IF e \in doubled THEN 2 ELSE 1
  BY <1>1, HeldOnce DEF Located
<1>4. e \in doubled => Written(e)
  BY DEF Located, Raced
<1>5. e \notin discarded /\ Copies(startup_buffer, e) = 0
  BY <1>2, <1>3, <1>4
<1>6. \A x : TimesWritten(x)' = TimesWritten(x) /\ (Written(x)' <=> Written(x))
  BY DEF TimesWritten, Written
<1>7. /\ Copies(startup_buffer', e) + Once(e \in discarded') = 1
      /\ \A m \in LogMessage \ {e} :
           /\ Copies(startup_buffer', m) = Copies(startup_buffer, m)
           /\ m \in discarded' <=> m \in discarded
  <2>1. CASE Full
    <3>1. discarded' = discarded \cup {e} /\ startup_buffer' = startup_buffer
      BY <1>1, <2>1 DEF Push
    <3>2. Once(e \in discarded') = 1
      BY <3>1 DEF Once
    <3>. QED BY <1>5, <3>1, <3>2
  <2>2. CASE ~Full
    <3>1. /\ startup_buffer \in Seq(Message) /\ discarded' = discarded
          /\ startup_buffer' = Append(startup_buffer, e)
      BY <1>1, <2>2 DEF Push, Typed, TypeOK
    <3>2. \A m : Copies(startup_buffer', m) = Copies(startup_buffer, m) + Once(m = e)
      BY <1>1, <3>1, CopiesAppend
    <3>3. Once(e = e) = 1 /\ Once(e \in discarded') = 0
      BY <1>5, <3>1 DEF Once
    <3>4. Copies(startup_buffer', e) = 1
      BY <1>5, <3>2, <3>3
    <3>5. ASSUME NEW m \in LogMessage \ {e}
          PROVE  Copies(startup_buffer', m) = Copies(startup_buffer, m)
      <4>1. Once(m = e) = 0 /\ Copies(startup_buffer, m) \in Nat
        BY Counts DEF Once
      <4>. QED BY <3>2, <4>1
    <3>. QED BY <3>1, <3>3, <3>4, <3>5
  <2>. QED BY <2>1, <2>2
<1>8. Accounted'
  <2>1. Once(Holds(t)') = 0
    BY DEF Once
  <2>2. /\ Copies(startup_buffer', e) \in Nat
        /\ Once(e \in discarded') \in {0, 1}
    <3>1. startup_buffer' \in Seq(Message)
      BY DEF Typed, TypeOK
    <3>. QED BY <3>1, CopiesNat DEF Once
  <2>3. TimesWritten(e)' + Copies(startup_buffer', e)
          + Once(e \in discarded') + Once(Holds(t)')
          = IF e \in skipped' THEN 0 ELSE IF e \in doubled' THEN 2 ELSE 1
    <3>1. TimesWritten(e) + 1 = IF e \in doubled THEN 2 ELSE 1
      <4>1. Once(e \in discarded) = 0
        BY <1>5 DEF Once
      <4>. QED BY <1>2, <1>3, <1>5, <4>1
    <3>2. TimesWritten(e)' = TimesWritten(e)
      BY <1>6
    <3>. QED BY <1>2, <1>3, <1>7, <2>1, <2>2, <3>1, <3>2
  <2>. QED BY <1>1, <1>6, <1>7, <2>3, OwnMove DEF Located
<1>9. Raced'
  <2>1. \A v \in Thread : BeforeStore(v)' => BeforeStore(v)
    BY Kinds DEF BeforeStore
  <2>. QED BY <1>6, <2>1 DEF Raced, Located
<1>10. Unraced'
  <2>1. \A v \in Thread \ {t} :
          At(v, "sent") => (Written(th[v].msg)' <=> Written(th[v].msg))
    BY Kinds DEF Written
  <2>. QED BY <2>1, Kinds, CalmUnraced DEF Located
<1>. QED BY <1>8, <1>9, <1>10 DEF Located

LEMMA PushLocated ==
  ASSUME Typed, Flow, Typed', Flow', Located, NEW t \in All, Store(t) \/ Wake(t)
  PROVE  Located'
<1>1. /\ UNCHANGED <<written, logs, bound, registered, doubled, skipped>>
      /\ \A v \in All \ {t} : th'[v] = th[v]
  BY ThreadTyped
  DEF ThreadState, external, limits, shared, history, races, Store, Wake, Return
<1>2. th[t].pc \in {"push", "wait"}
  BY DEF Store, Wake, At
<1>3. CASE Wake(t) /\ StillFull
  <2>1. UNCHANGED <<th, startup_buffer, discarded>>
    BY <1>2, <1>3 DEF Wake
  <2>2. t \in Thread => /\ Holds(t)' <=> Holds(t)
                        /\ BeforeStore(t)' => BeforeStore(t)
                        /\ th'[t].pc \notin Racing
    BY <1>1, <1>2, <2>1 DEF Holds, InLog, BeforeStore, AfterSent, Written, Racing
  <2>. QED BY <1>1, <2>1, <2>2, Kinds, CalmLocated DEF Calm
<1>4. CASE ~(Wake(t) /\ StillFull)
  <2>1. Push(th[t].msg) /\ th[t].msg \in Message
    BY <1>2, <1>4, ThreadTyped DEF Store, Wake, ThreadState
  <2>2. /\ th'[t].pc = (IF Store(t) THEN "flag" ELSE th[t].back)
        /\ th'[t].back = th[t].back
    BY <1>2, <1>4, ThreadTyped DEF ThreadState, Store, Wake, Return, At
  <2>3. t \in Thread =>
          /\ th[t].back \in {"stored", "registered", "forget", "contexts"}
          /\ InLog(t) <=> th[t].back = "stored"
          /\ ~Holds(t)' /\ ~BeforeStore(t)' /\ th'[t].pc \notin Racing
          /\ Holds(t) <=> InLog(t)
    BY <1>2, <2>2, ThreadTyped
    DEF ThreadState, Flow, ThreadFlow, Returns, Holds, InLog, BeforeStore,
        AfterSent, Sending, Reporting, Storing, Resending, Racing
  <2>4. CASE t \in Thread /\ InLog(t)
    <3>1. AfterSent(t) /\ Holds(t)
      BY <1>2, <2>3, <2>4 DEF AfterSent, Storing
    <3>. QED BY <1>1, <2>1, <2>3, <2>4, <3>1, LogPush
  <2>5. CASE ~(t \in Thread /\ InLog(t))
    <3>1. th[t].msg.op # "log"
      BY <2>5 DEF Flow, ThreadFlow, HousekeeperFlow, All
    <3>2. /\ UNCHANGED discarded
          /\ \A x \in LogMessage : Copies(startup_buffer', x) = Copies(startup_buffer, x)
      BY <2>1, <3>1, ControlPush
    <3>. QED BY <1>1, <2>3, <2>5, <3>2, Kinds, CalmLocated DEF Calm
  <2>. QED BY <2>4, <2>5
<1>. QED BY <1>3, <1>4

(* The first message of the startup buffer is written.                     *)
LEMMA ResendLocated ==
  ASSUME Typed, Flow, Typed', Flow', Located, NEW t \in All, ResendNext(t)
  PROVE  Located'
<1>. PICK h : h = Head(startup_buffer)
  OBVIOUS
<1>1. /\ startup_buffer \in Seq(Message) /\ startup_buffer # <<>> /\ h \in Message
      /\ Write(h)
      /\ startup_buffer' = (IF out3 = "OK" THEN Tail(startup_buffer) ELSE startup_buffer)
  <2>1. startup_buffer \in Seq(Message) /\ startup_buffer # <<>>
    BY DEF ResendNext, Typed, TypeOK
  <2>2. Head(startup_buffer) \in Message
    BY <2>1
  <2>. QED BY <2>1, <2>2 DEF ResendNext, AfterSend
<1>2. /\ UNCHANGED <<discarded, logs, bound, registered, doubled, skipped>>
      /\ \A v \in All \ {t} : th'[v] = th[v]
      /\ th[t].pc = "resend_next" /\ th'[t].pc \in {"resend_next", th[t].back}
      /\ th'[t].back = th[t].back
  BY ThreadTyped
  DEF ThreadState, external, limits, shared, history, races, ResendNext, Return, At
<1>3. ASSUME t \in Thread
      PROVE  /\ Holds(t)' <=> Holds(t)
             /\ BeforeStore(t)' => BeforeStore(t)
             /\ th'[t].pc \notin Racing
  <2>1. th[t].back \in {"new", "done", "exit_resent", "flushed"}
    BY <1>2, <1>3 DEF Flow, ThreadFlow, Returns, Resending
  <2>. QED
    BY <1>2, <1>3, <2>1
    DEF Holds, InLog, BeforeStore, AfterSent, Sending, Reporting, Storing,
        Resending, Racing
<1>4. \A m : /\ Copies(startup_buffer, m) \in Nat
             /\ Copies(startup_buffer, m) = Copies(Tail(startup_buffer), m) + Once(m = h)
             /\ Copies(Tail(startup_buffer), m) \in Nat
  <2>1. Tail(startup_buffer) \in Seq(Message)
    BY <1>1
  <2>. QED BY <1>1, <2>1, CopiesNat, CopiesTail
<1>5. CASE ~(out3 = "OK" /\ h.op = "log")
  <2>1. written' = written
    BY <1>1, <1>5 DEF Write
  <2>2. ASSUME NEW m \in LogMessage
        PROVE  Copies(startup_buffer', m) = Copies(startup_buffer, m)
    <3>1. CASE out3 = "OK"
      <4>1. Once(m = h) = 0
        BY <1>5, <3>1, LogMessages DEF Once
      <4>. QED BY <1>1, <1>4, <3>1, <4>1
    <3>2. CASE out3 # "OK"
      BY <1>1, <3>2
    <3>. QED BY <3>1, <3>2
  <2>. QED BY <1>2, <1>3, <2>1, <2>2, Kinds, CalmLocated DEF Calm
<1>6. CASE out3 = "OK" /\ h.op = "log"
  <2>1. /\ DOMAIN written' = DOMAIN written \cup {h}
        /\ \A x : TimesWritten(x)' = TimesWritten(x) + Once(x = h)
    BY <1>1, <1>6, WriteEffect
  <2>2. \A m : Copies(startup_buffer', m) + Once(m = h) = Copies(startup_buffer, m)
    BY <1>1, <1>4, <1>6
  <2>3. ASSUME NEW v \in Thread, At(v, "sent")
        PROVE  /\ th[v].msg = Log(v, logs[v])
               /\ Written(Log(v, logs[v]))' <=> Written(Log(v, logs[v]))
    <3>1. BeforeStore(v)
      BY <2>3 DEF At, BeforeStore, Sending
    <3>2. /\ th[v].msg = Log(v, logs[v])
          /\ ~Written(Log(v, logs[v])) => Copies(startup_buffer, Log(v, logs[v])) = 0
      BY <2>3, <3>1, HeldBeforeStore DEF At, Located
    <3>3. Copies(startup_buffer, h) # 0
      <4>1. Once(h = h) = 1
        BY DEF Once
      <4>. QED BY <1>4, <4>1
    <3>4. ~Written(Log(v, logs[v])) => Log(v, logs[v]) # h
      BY <3>2, <3>3
    <3>. QED BY <1>2, <2>1, <3>2, <3>4 DEF Written
  <2>4. ASSUME NEW v \in Thread
        PROVE  (Holds(v)' <=> Holds(v)) /\ (BeforeStore(v)' => BeforeStore(v))
    <3>1. CASE v = t
      BY <1>3, <3>1
    <3>2. CASE v # t
      <4>1. th'[v] = th[v] /\ logs'[v] = logs[v]
        BY <1>2, <3>2, Kinds
      <4>. QED BY <2>3, <4>1, StillHolds
    <3>. QED BY <3>1, <3>2
  <2>5. Accounted'
    <3>1. SUFFICES ASSUME NEW m \in LogMessage
                   PROVE  Places(m)' = Expected(m)'
      BY DEF Accounted
    <3>2. m.from \in Thread /\ m.n \in Nat /\ m = Log(m.from, m.n)
      BY LogMessages
    <3>3. (Holds(m.from)' /\ m.n = logs'[m.from]) <=> Holds(m.from) /\ m.n = logs[m.from]
      BY <1>2, <2>4, <3>2
    <3>4. /\ Places(m) =
               TimesWritten(m) + Copies(startup_buffer, m)
                 + Once(m \in discarded) + Once(Holds(m.from) /\ m.n = logs[m.from])
          /\ Places(m)' =
               TimesWritten(m)' + Copies(startup_buffer', m)
                 + Once(m \in discarded') + Once(Holds(m.from)' /\ m.n = logs'[m.from])
      BY <3>2, PlacesAre, PlacesWillBe
    <3>5. /\ Once(m \in discarded') = Once(m \in discarded)
          /\ Once(Holds(m.from)' /\ m.n = logs'[m.from])
               = Once(Holds(m.from) /\ m.n = logs[m.from])
      BY <1>2, <3>3 DEF Once
    <3>6. /\ TimesWritten(m)' = TimesWritten(m) + Once(m = h)
          /\ Copies(startup_buffer', m) + Once(m = h) = Copies(startup_buffer, m)
          /\ TimesWritten(m) \in Nat /\ Copies(startup_buffer', m) \in Nat
          /\ Once(m = h) \in {0, 1}
      BY <1>1, <1>4, <1>6, <2>1, <2>2, Counts DEF Once
    <3>7. TimesWritten(m)' + Copies(startup_buffer', m)
            = TimesWritten(m) + Copies(startup_buffer, m)
      BY <3>6
    <3>8. Places(m)' = Places(m)
      BY <3>4, <3>5, <3>7
    <3>9. Places(m) = Expected(m) /\ Expected(m)' = Expected(m)
      BY <1>2 DEF Accounted, Located, Expected
    <3>. QED BY <3>8, <3>9
  <2>6. Raced'
    <3>1. \A x : Written(x) => Written(x)'
      BY <2>1 DEF Written
    <3>. QED BY <1>2, <2>4, <3>1 DEF Raced, Located
  <2>7. Unraced'
    <3>1. ASSUME NEW v \in Thread \ {t}, At(v, "sent")
          PROVE  Written(th[v].msg)' <=> Written(th[v].msg)
      <4>1. th'[v] = th[v]
        BY <1>2, Kinds
      <4>. QED BY <1>2, <2>3, <3>1, <4>1 DEF Written
    <3>. QED BY <1>2, <1>3, <3>1, CalmUnraced DEF Located
  <2>. QED BY <2>5, <2>6, <2>7 DEF Located
<1>. QED BY <1>5, <1>6

(* mct_free ends the process; no thread is in send_log any more.           *)
LEMMA StopLocated ==
  ASSUME Typed, Flow, Exiting, Typed', Flow', Located, NEW t \in All, Stop(t)
  PROVE  Located'
<1>1. /\ UNCHANGED <<written, discarded, logs, startup_buffer, bound>>
      /\ UNCHANGED <<doubled, skipped, registered>>
  BY DEF external, limits, history, races, Stop
<1>2. \A u \in Thread : th'[u].pc = "ended"
  BY Kinds DEF Stop, Idle
<1>3. lost # None
  BY DEF Stop, At, Flow, HousekeeperFlow, Storing, Resending, All, Exiting, Exits,
     ExitStep
<1>4. \A u \in Thread : ~InLog(u) /\ ~InLog(u)'
  BY <1>2, <1>3
  DEF Exiting, Exits, InLog, BeforeStore, AfterSent, Sending, Reporting, Storing,
      Resending
<1>5. Accounted' /\ Raced'
  <2>1. \A u \in Thread : /\ Holds(u)' <=> Holds(u)
                          /\ BeforeStore(u)' => BeforeStore(u)
    BY <1>4 DEF Holds, InLog
  <2>. QED BY <1>1, <2>1, QuietAccounted DEF Located
<1>6. Unraced'
  BY <1>1, <1>2 DEF Unraced, Alone, Undisturbed, At, Located
<1>. QED BY <1>5, <1>6 DEF Located

(* A new log message.                                                      *)
LEMMA SendLogLocated ==
  ASSUME Typed, Flow, Typed', Flow', Located, NEW t \in Thread, SendLog(t)
  PROVE  Located'
<1>. PICK e : e = Log(t, logs[t] + 1)
  OBVIOUS
<1>1. /\ UNCHANGED <<written, discarded, startup_buffer, bound>>
      /\ UNCHANGED <<doubled, skipped, registered>>
      /\ \A v \in All \ {t} : th'[v] = th[v]
      /\ logs[t] \in Nat /\ logs' = [logs EXCEPT ![t] = @ + 1]
      /\ logs'[t] = logs[t] + 1 /\ \A v \in Thread \ {t} : logs'[v] = logs[v]
  BY ThreadTyped DEF Typed, ThreadState, shared, history, races, SendLog
<1>2. /\ th[t].pc = "idle" /\ th'[t].pc \in {"old", "overflow"}
      /\ th'[t].back = "old"
  BY ThreadTyped, Kinds DEF ThreadState, SendLog, MayCall, At
<1>3. /\ ~Holds(t) /\ Holds(t)' /\ th'[t].pc \notin Racing
  BY <1>2
  DEF Holds, InLog, BeforeStore, AfterSent, Sending, Reporting, Storing,
      Resending, Racing
<1>4. e \in LogMessage /\ e.from = t /\ e.n = logs[t] + 1 /\ e.n \in Nat \ {0}
  <2>1. logs[t] + 1 \in Nat \ {0}
    BY <1>1
  <2>. QED BY <2>1, LogMessages
<1>5. e \notin doubled \cup skipped
  <2>1. ~(e.n <= logs[e.from])
    BY <1>1, <1>4
  <2>. QED BY <2>1 DEF Located, Raced
<1>6. \A v \in Thread \ {t} : Holds(v)' <=> Holds(v)
  <2>1. ASSUME NEW v \in Thread \ {t}
        PROVE  Holds(v)' <=> Holds(v)
    <3>1. th'[v] = th[v] /\ logs'[v] = logs[v] /\ written' = written
      BY <1>1, Kinds
    <3>. QED BY <3>1, StillHolds DEF Written
  <2>. QED BY <2>1
<1>7. Accounted'
  <2>1. Places(e) = 0
    <3>1. Expected(e) = 0
      BY <1>1, <1>4 DEF Expected
    <3>. QED BY <1>4, <3>1 DEF Accounted, Located
  <2>2. /\ TimesWritten(e) + Copies(startup_buffer, e) + Once(e \in discarded) = 0
        /\ TimesWritten(e) \in Nat /\ Copies(startup_buffer, e) \in Nat
    <3>1. Places(e) = TimesWritten(e) + Copies(startup_buffer, e)
            + Once(e \in discarded) + Once(Holds(t) /\ logs[t] + 1 = logs[t])
      BY <1>1, PlacesAre
    <3>2. Once(Holds(t) /\ logs[t] + 1 = logs[t]) = 0
      BY <1>1, <1>3 DEF Once
    <3>3. /\ TimesWritten(e) \in Nat /\ Copies(startup_buffer, e) \in Nat
          /\ Once(e \in discarded) \in {0, 1}
      BY Counts DEF Once
    <3>. QED BY <2>1, <3>1, <3>2, <3>3
  <2>3. Places(e)' = TimesWritten(e)' + Copies(startup_buffer', e)
          + Once(e \in discarded') + Once(Holds(t)' /\ logs[t] + 1 = logs'[t])
    BY <1>1, PlacesWillBe
  <2>4. Once(Holds(t)' /\ logs[t] + 1 = logs'[t]) = 1
    BY <1>1, <1>3 DEF Once
  <2>5. TimesWritten(e)' = TimesWritten(e) /\ Once(e \in discarded') = Once(e \in discarded)
    BY <1>1 DEF TimesWritten, Written
  <2>6. Places(e)' = 1
    BY <1>1, <2>2, <2>3, <2>4, <2>5
  <2>7. Expected(e)' = 1
    BY <1>1, <1>4, <1>5 DEF Expected
  <2>8. ASSUME NEW m \in LogMessage \ {e}
        PROVE  /\ m.n > logs'[m.from] <=> m.n > logs[m.from]
               /\ (Holds(m.from)' /\ m.n = logs'[m.from])
                    <=> (Holds(m.from) /\ m.n = logs[m.from])
    <3>1. m.from \in Thread /\ m.n \in Nat /\ m = Log(m.from, m.n)
      BY LogMessages
    <3>2. CASE m.from = t
      <4>1. m.n # logs[t] + 1
        BY <2>8, <3>1, <3>2
      <4>. QED BY <1>1, <1>3, <3>1, <3>2, <4>1
    <3>3. CASE m.from # t
      BY <1>1, <1>6, <3>1, <3>3
    <3>. QED BY <3>2, <3>3
  <2>9. \A m \in LogMessage \ {e} :
           /\ TimesWritten(m)' = TimesWritten(m)
           /\ Copies(startup_buffer', m) = Copies(startup_buffer, m)
           /\ m \in discarded' <=> m \in discarded
           /\ m \in doubled' <=> m \in doubled
           /\ m \in skipped' <=> m \in skipped
           /\ m.n > logs'[m.from] <=> m.n > logs[m.from]
           /\ (Holds(m.from)' /\ m.n = logs'[m.from])
                <=> (Holds(m.from) /\ m.n = logs[m.from])
    BY <1>1, <2>8 DEF TimesWritten, Written
  <2>. QED BY <1>4, <2>6, <2>7, <2>9, AccountedBut DEF Located
<1>8. Raced'
  <2>1. ASSUME NEW m \in doubled \cup skipped
        PROVE  m.n <= logs'[m.from]
    <3>1. m.from \in Thread /\ m.n \in Nat /\ m.n <= logs[m.from]
      BY LogMessages DEF Located, Raced
    <3>. QED BY <1>1, <3>1
  <2>2. ASSUME NEW v \in Thread, BeforeStore(v)'
        PROVE  Log(v, logs'[v]) \notin doubled \cup skipped
    <3>1. CASE v = t
      BY <1>1, <1>5, <3>1
    <3>2. CASE v # t
      <4>1. th'[v] = th[v] /\ logs'[v] = logs[v]
        BY <1>1, <3>2, Kinds
      <4>. QED BY <2>2, <4>1 DEF BeforeStore, Located, Raced
    <3>. QED BY <3>1, <3>2
  <2>. QED BY <1>1, <2>1, <2>2 DEF Raced, Located, Written
<1>9. Unraced'
  BY <1>1, <1>3, Kinds, CalmUnraced DEF Located, Written
<1>. QED BY <1>7, <1>8, <1>9 DEF Located

-----------------------------------------------------------------------------
(* Everything together.                                                    *)

LEMMA ContinuesLocated ==
  ASSUME Typed, Flow, Exiting, Typed', Flow', Located, NEW t \in All, Continues(t)
  PROVE  Located'
<1>1. th[t].pc \in {"new", "mark", "out", "sent"} => t \in Thread
  BY DEF Flow, HousekeeperFlow, Storing, Resending, All
<1>2. CASE StillCalm(t)
  BY <1>2, CalmSteps
<1>3. CASE SendNew(t) \/ MarkEmpty(t)
  BY <1>1, <1>3, LooksCalm DEF SendNew, MarkEmpty, At
<1>4. CASE OutNew(t)
  BY <1>1, <1>4, OutNewLocated DEF OutNew, At
<1>5. CASE Sent(t)
  BY <1>1, <1>5, SentLocated DEF Sent, At
<1>6. CASE Store(t) \/ Wake(t)
  BY <1>6, PushLocated
<1>7. CASE ResendNext(t)
  BY <1>7, ResendLocated
<1>8. CASE Stop(t)
  BY <1>8, StopLocated
<1>. QED
  BY <1>2, <1>3, <1>4, <1>5, <1>6, <1>7, <1>8 DEF Continues, StillCalm

LEMMA CallsLocated ==
  ASSUME Typed, Flow, Typed', Flow', Located, NEW t \in Thread, ApplicationCalls(t)
  PROVE  Located'
<1>1. CASE Register(t)
  <2>1. /\ written' = written /\ UNCHANGED <<discarded, logs, startup_buffer, bound>>
        /\ UNCHANGED <<doubled, skipped>>
    BY <1>1
    DEF external, limits, shared, history, races, Register
  <2>2. \A v \in All \ {t} : th'[v] = th[v]
    BY <1>1, ThreadTyped DEF ThreadState, Register, MayCall, At, Goto
  <2>3. t \in Thread => /\ Holds(t)' <=> Holds(t)
                        /\ BeforeStore(t)' => BeforeStore(t)
                        /\ th'[t].pc \notin Racing
    BY <1>1, <2>1, ThreadTyped, Kinds
    DEF ThreadState, Flow, ThreadFlow, Returns, Holds, InLog, BeforeStore,
        AfterSent, Sending, Reporting, Storing, Resending, Racing,
        Register, MayCall, At, Goto
  <2>4. t \in bound.threads
    BY <1>1 DEF Register, MayCall
  <2>. QED BY <2>1, <2>2, <2>3, <2>4, Kinds, CalmLocated DEF Calm
<1>2. CASE Unregister(t)
  <2>1. /\ written' = written /\ UNCHANGED <<discarded, logs, startup_buffer, bound>>
        /\ UNCHANGED <<doubled, skipped>>
        /\ UNCHANGED registered
    BY <1>2, ControlWrite
    DEF external, limits, shared, history, races, Unregister, SendUnregister
  <2>2. \A v \in All \ {t} : th'[v] = th[v]
    BY <1>2, ThreadTyped DEF ThreadState, Unregister, MayCall, At, SendUnregister, out2, CallStore, Goto
  <2>3. t \in Thread => /\ Holds(t)' <=> Holds(t)
                        /\ BeforeStore(t)' => BeforeStore(t)
                        /\ th'[t].pc \notin Racing
    BY <1>2, <2>1, ThreadTyped, Kinds
    DEF ThreadState, Flow, ThreadFlow, Returns, Holds, InLog, BeforeStore,
        AfterSent, Sending, Reporting, Storing, Resending, Racing,
        Unregister, MayCall, At, SendUnregister, out2, CallStore, Goto
  <2>. QED BY <2>1, <2>2, <2>3, Kinds, CalmLocated DEF Calm
<1>3. CASE Exit(t)
  <2>1. /\ written' = written /\ UNCHANGED <<discarded, logs, startup_buffer, bound>>
        /\ UNCHANGED <<doubled, skipped>>
        /\ UNCHANGED registered
    BY <1>3
    DEF external, limits, shared, history, races, Exit
  <2>2. \A v \in All \ {t} : th'[v] = th[v]
    BY <1>3, ThreadTyped DEF ThreadState, Exit, MayCall, At, Goto
  <2>3. t \in Thread => /\ Holds(t)' <=> Holds(t)
                        /\ BeforeStore(t)' => BeforeStore(t)
                        /\ th'[t].pc \notin Racing
    BY <1>3, <2>1, ThreadTyped, Kinds
    DEF ThreadState, Flow, ThreadFlow, Returns, Holds, InLog, BeforeStore,
        AfterSent, Sending, Reporting, Storing, Resending, Racing,
        Exit, MayCall, At, Goto
  <2>. QED BY <2>1, <2>2, <2>3, Kinds, CalmLocated DEF Calm
<1>4. CASE SendLog(t)
  BY <1>4, SendLogLocated
<1>. QED BY <1>1, <1>2, <1>3, <1>4 DEF ApplicationCalls

LEMMA NextLocated ==
  ASSUME Typed, Flow, Exiting, Typed', Flow', Located, [Next]_vars
  PROVE  Located'
<1>1. CASE Housekeep
  <2>1. /\ written' = written /\ UNCHANGED <<discarded, logs, startup_buffer, bound>>
        /\ UNCHANGED <<doubled, skipped>>
        /\ UNCHANGED registered
    BY <1>1
    DEF external, limits, shared, history, races, Housekeep
  <2>2. \A v \in All \ {HK} : th'[v] = th[v]
    BY <1>1, ThreadTyped DEF ThreadState, Housekeep, At, Goto
  <2>. QED BY <2>1, <2>2, Kinds, CalmLocated DEF Calm
<1>2. CASE TryFlush
  <2>1. /\ written' = written /\ UNCHANGED <<discarded, logs, startup_buffer, bound>>
        /\ UNCHANGED <<doubled, skipped>>
        /\ UNCHANGED registered
    BY <1>2
    DEF external, limits, shared, history, races, TryFlush
  <2>2. \A v \in All \ {HK} : th'[v] = th[v]
    BY <1>2, ThreadTyped DEF ThreadState, TryFlush, At, CallResend, Finish, Enter, Idle
  <2>. QED BY <2>1, <2>2, Kinds, CalmLocated DEF Calm
<1>3. CASE Flushed
  <2>1. /\ written' = written /\ UNCHANGED <<discarded, logs, startup_buffer, bound>>
        /\ UNCHANGED <<doubled, skipped>>
        /\ UNCHANGED registered
    BY <1>3
    DEF external, limits, shared, history, races, Flushed
  <2>2. \A v \in All \ {HK} : th'[v] = th[v]
    BY <1>3, ThreadTyped DEF ThreadState, Flushed, At, Finish, Enter, Idle, Signal
  <2>. QED BY <2>1, <2>2, Kinds, CalmLocated DEF Calm
<1>4. ASSUME UNCHANGED <<th, logs, bound, registered, startup_buffer>>,
             UNCHANGED <<written, discarded, doubled, skipped>>
      PROVE  Located'
  BY <1>4, Kinds, CalmLocated DEF Calm
<1>5. ASSUME NEW b \in BOOLEAN, SetBlockMode(b)
      PROVE  Located'
  BY <1>4, <1>5 DEF SetBlockMode, history, races
<1>6. CASE DaemonReads \/ DaemonCrashes \/ DaemonStarts
  BY <1>4, <1>6
  DEF DaemonReads, DaemonCrashes, DaemonStarts, external, limits, shared, history,
      races
<1>7. CASE UNCHANGED vars
  BY <1>4, <1>7 DEF vars, external, limits, shared, history, races
<1>8. ASSUME NEW t \in All, Continues(t)
      PROVE  Located'
  BY <1>8, ContinuesLocated
<1>9. ASSUME NEW t \in Thread, ApplicationCalls(t)
      PROVE  Located'
  BY <1>9, CallsLocated
<1>. QED
  BY <1>1, <1>2, <1>3, <1>5, <1>6, <1>7, <1>8, <1>9, Kinds
  DEF Next, Housekeeper

LEMMA FirstLocated ==
  ASSUME Init, Typed, Flow
  PROVE  Located
<1>1. /\ \A x : ~Written(x) /\ TimesWritten(x) = 0
      /\ startup_buffer = <<>> /\ discarded = {} /\ doubled = {} /\ skipped = {}
      /\ \A t \in Thread : logs[t] = 0 /\ th[t].pc = "idle"
  BY Kinds DEF Init, Written, TimesWritten, Idle
<1>2. \A t \in Thread : ~Holds(t) /\ ~BeforeStore(t)
  BY <1>1
  DEF Holds, InLog, BeforeStore, AfterSent, Sending, Reporting, Storing, Resending
<1>3. ASSUME NEW m \in LogMessage
      PROVE  Places(m) = Expected(m)
  <2>1. m.from \in Thread /\ m.n \in Nat \ {0} /\ m = Log(m.from, m.n)
    BY LogMessages
  <2>2. Places(m) = TimesWritten(m) + Copies(startup_buffer, m)
          + Once(m \in discarded) + Once(Holds(m.from) /\ m.n = logs[m.from])
    BY <2>1, PlacesAre
  <2>3. /\ Copies(startup_buffer, m) = 0 /\ Once(m \in discarded) = 0
        /\ Once(Holds(m.from) /\ m.n = logs[m.from]) = 0
    BY <1>1, <1>2, <2>1, CopiesEmpty DEF Once
  <2>4. Expected(m) = 0
    BY <1>1, <2>1 DEF Expected
  <2>. QED BY <1>1, <2>2, <2>3, <2>4
<1>. QED
  BY <1>1, <1>2, <1>3
  DEF Located, Accounted, Raced, Unraced, Undisturbed, At

(* Every log message is written to the FIFO, stored, refused by the full   *)
(* buffer or in the hands of its thread, and only one of these, unless     *)
(* another thread registers or unregisters the application while           *)
(* mct_user_log_send_log is between its two looks at appID.                *)
THEOREM InOnePlaceCorrect == Spec => []InOnePlace
<1>1. Init => IInv
  BY FirstTyped, FirstLocated DEF IInv
<1>2. IInv /\ [Next]_vars => IInv'
  BY NextTyped, NextFlow, NextExiting, NextLocated DEF IInv
<1>3. IInv => InOnePlace
  <2>1. SUFFICES ASSUME IInv PROVE InOnePlace
    OBVIOUS
  <2>2. ASSUME NEW m \in Logged
        PROVE  m \in LogMessage /\ ~(m.n > logs[m.from])
    <3>1. PICK t \in Thread : \E n \in 1 .. logs[t] : m = Log(t, n)
      BY <2>2 DEF Logged
    <3>2. PICK n \in 1 .. logs[t] : m = Log(t, n)
      BY <3>1
    <3>3. logs[t] \in Nat /\ n \in Nat \ {0} /\ n <= logs[t]
      BY <2>1 DEF IInv, Typed
    <3>. QED BY <3>2, <3>3, LogMessages
  <2>3. ASSUME NEW m \in doubled \cup skipped
        PROVE  m \in LogMessage /\ ~(m.n > logs[m.from])
    <3>1. m \in LogMessage /\ m.n <= logs[m.from]
      BY <2>1 DEF IInv, Located, Raced
    <3>2. m.n \in Nat /\ logs[m.from] \in Nat
      BY <2>1, <3>1, LogMessages DEF IInv, Typed
    <3>. QED BY <3>1, <3>2
  <2>4. \A m \in LogMessage : Places(m) = Expected(m)
    BY <2>1 DEF IInv, Located, Accounted
  <2>5. \A m \in doubled : m \notin skipped
    BY <2>1 DEF IInv, Located, Raced
  <2>6. \A t \in Thread : Alone(t) => doubled \cup skipped = {}
    BY <2>1 DEF IInv, Located, Unraced
  <2>. QED BY <2>2, <2>3, <2>4, <2>5, <2>6 DEF InOnePlace, Expected
<1>. QED BY <1>1, <1>2, <1>3, PTL DEF Spec

-----------------------------------------------------------------------------
(* The loss: what the full buffer refused and what is left at the end.     *)

(* The thread's message was refused, and is not yet counted.               *)
Refused(t) ==
  /\ th[t].res = "BUFFER_FULL"
  /\ At(t, "stored") \/ (At(t, "flag") /\ th[t].back = "stored")
Unrefused(t) == th[t].pc \in {"mode", "block", "wait", "push"} => th[t].res # "BUFFER_FULL"
(* The counter, unless it has been reported and is about to be reset.      *)
Pending(t) == IF At(t, "overflow_reset") THEN 0 ELSE overflow_counter
Counted ==
  /\ \A t \in Thread : Unrefused(t)
  /\ \A t \in Thread : Alone(t) =>
       /\ IsFiniteSet(discarded)
       /\ reported + Pending(t) + Once(Refused(t)) = Cardinality(discarded)

(* No more log messages are stored than the exit handler has counted.      *)
StoredLogs ==
  {m \in LogMessage : \E i \in DOMAIN startup_buffer : startup_buffer[i] = m}
NoMoreThanLost == lost # None => Cardinality(StoredLogs) <= lost

(* The process ends in the exit handler.                                   *)
EndsAtExit == At(HK, "ended") => lost # None

Loss == Counted /\ NoMoreThanLost /\ EndsAtExit

LEMMA LossKept ==
  ASSUME Typed, Flow, Loss, NEW u \in All,
         \A v \in All \ {u} : th'[v] = th[v],
         UNCHANGED <<discarded, reported, overflow_counter, bound>>,
         UNCHANGED <<lost, startup_buffer>>, th'[u].pc # "ended",
         u \in Thread => /\ Refused(u)' <=> Refused(u)
                         /\ th[u].pc # "overflow_reset"
                         /\ th'[u].pc # "overflow_reset"
                         /\ Unrefused(u)'
  PROVE  Loss'
<1>1. NoMoreThanLost'
  BY DEF Loss, NoMoreThanLost, StoredLogs
<1>2. ASSUME NEW v \in Thread
      PROVE  /\ Unrefused(v)' /\ (Refused(v)' <=> Refused(v))
             /\ Pending(v)' = Pending(v)
  BY Kinds DEF Loss, Counted, Unrefused, Refused, Pending, At
<1>3. ASSUME NEW v \in Thread, Alone(v)'
      PROVE  /\ IsFiniteSet(discarded')
             /\ reported' + Pending(v)' + Once(Refused(v)')
                  = Cardinality(discarded')
  <2>1. Alone(v)
    BY <1>3 DEF Alone
  <2>2. Once(Refused(v)') = Once(Refused(v))
    BY <1>2 DEF Once
  <2>. QED BY <1>2, <2>1, <2>2 DEF Loss, Counted
<1>4. Counted'
  BY <1>2, <1>3 DEF Counted, Once
<1>5. EndsAtExit'
  BY Kinds DEF Loss, EndsAtExit, At
<1>. QED BY <1>1, <1>4, <1>5 DEF Loss

(* Most steps within a call neither lose nor report anything.              *)
LosesNothing(t) ==
  \/ SendOld(t) \/ SendNew(t) \/ MarkEmpty(t) \/ OutNew(t)
  \/ Sent(t) \/ SendRegister(t) \/ RegisterRefused(t) \/ Registered(t)
  \/ RegisterDone(t) \/ Forget(t) \/ CheckSize(t) \/ Block(t)
  \/ Flag(t) \/ Resend(t) \/ ResendDone(t) \/ Attach(t)
  \/ RegisterAgain(t) \/ ContextAgain(t) \/ ContextsDone(t) \/ ExitTries(t)
  \/ ExitOverflow(t) \/ ExitResend(t) \/ ExitUnregister(t)

LEMMA LosesNothingSteps ==
  ASSUME Typed, Flow, Loss, NEW t \in All, LosesNothing(t)
  PROVE  Loss'
<1>1. CASE SendOld(t)
  <2>1. /\ UNCHANGED <<discarded, reported, overflow_counter, bound>>
        /\ UNCHANGED <<lost, startup_buffer>>
    BY <1>1
    DEF external, limits, shared, history, SendOld
  <2>2. \A v \in All \ {t} : th'[v] = th[v]
    BY <1>1, ThreadTyped DEF ThreadState, SendOld, At, CallResend
  <2>3. t \in Thread => /\ Refused(t)' <=> Refused(t)
                        /\ th[t].pc # "overflow_reset"
                        /\ th'[t].pc # "overflow_reset"
                        /\ Unrefused(t)'
    BY <1>1, ThreadTyped, Kinds
    DEF ThreadState, Flow, ThreadFlow, Returns, Loss, Counted, Unrefused, Refused, Reporting,
        Storing, Resending, SendOld, At, CallResend
  <2>4. th'[t].pc # "ended"
    BY <1>1, ThreadTyped, Kinds
    DEF ThreadState, Flow, ThreadFlow, Returns, Reporting,
        Storing, Resending, HousekeeperFlow, All,
        SendOld, At, CallResend
  <2>. QED BY <2>1, <2>2, <2>3, <2>4, Kinds, LossKept
<1>2. CASE SendNew(t)
  <2>1. /\ UNCHANGED <<discarded, reported, overflow_counter, bound>>
        /\ UNCHANGED <<lost, startup_buffer>>
    BY <1>2
    DEF external, limits, shared, history, SendNew
  <2>2. \A v \in All \ {t} : th'[v] = th[v]
    BY <1>2, ThreadTyped DEF ThreadState, SendNew, At, Goto
  <2>3. t \in Thread => /\ Refused(t)' <=> Refused(t)
                        /\ th[t].pc # "overflow_reset"
                        /\ th'[t].pc # "overflow_reset"
                        /\ Unrefused(t)'
    BY <1>2, ThreadTyped, Kinds
    DEF ThreadState, Flow, ThreadFlow, Returns, Loss, Counted, Unrefused, Refused, Reporting,
        Storing, Resending, SendNew, At, Goto
  <2>4. th'[t].pc # "ended"
    BY <1>2, ThreadTyped, Kinds
    DEF ThreadState, Flow, ThreadFlow, Returns, Reporting,
        Storing, Resending, HousekeeperFlow, All,
        SendNew, At, Goto
  <2>. QED BY <2>1, <2>2, <2>3, <2>4, Kinds, LossKept
<1>3. CASE MarkEmpty(t)
  <2>1. /\ UNCHANGED <<discarded, reported, overflow_counter, bound>>
        /\ UNCHANGED <<lost, startup_buffer>>
    BY <1>3
    DEF external, limits, shared, history, MarkEmpty
  <2>2. \A v \in All \ {t} : th'[v] = th[v]
    BY <1>3, ThreadTyped DEF ThreadState, MarkEmpty, At, Goto
  <2>3. t \in Thread => /\ Refused(t)' <=> Refused(t)
                        /\ th[t].pc # "overflow_reset"
                        /\ th'[t].pc # "overflow_reset"
                        /\ Unrefused(t)'
    BY <1>3, ThreadTyped, Kinds
    DEF ThreadState, Flow, ThreadFlow, Returns, Loss, Counted, Unrefused, Refused, Reporting,
        Storing, Resending, MarkEmpty, At, Goto
  <2>4. th'[t].pc # "ended"
    BY <1>3, ThreadTyped, Kinds
    DEF ThreadState, Flow, ThreadFlow, Returns, Reporting,
        Storing, Resending, HousekeeperFlow, All,
        MarkEmpty, At, Goto
  <2>. QED BY <2>1, <2>2, <2>3, <2>4, Kinds, LossKept
<1>4. CASE OutNew(t)
  <2>1. /\ UNCHANGED <<discarded, reported, overflow_counter, bound>>
        /\ UNCHANGED <<lost, startup_buffer>>
    BY <1>4
    DEF external, limits, shared, history, OutNew
  <2>2. \A v \in All \ {t} : th'[v] = th[v]
    BY <1>4, ThreadTyped DEF ThreadState, OutNew, At
  <2>3. t \in Thread => /\ Refused(t)' <=> Refused(t)
                        /\ th[t].pc # "overflow_reset"
                        /\ th'[t].pc # "overflow_reset"
                        /\ Unrefused(t)'
    BY <1>4, ThreadTyped, Kinds
    DEF ThreadState, Flow, ThreadFlow, Returns, Loss, Counted, Unrefused, Refused, Reporting,
        Storing, Resending, OutNew, At
  <2>4. th'[t].pc # "ended"
    BY <1>4, ThreadTyped, Kinds
    DEF ThreadState, Flow, ThreadFlow, Returns, Reporting,
        Storing, Resending, HousekeeperFlow, All,
        OutNew, At
  <2>. QED BY <2>1, <2>2, <2>3, <2>4, Kinds, LossKept
<1>5. CASE Sent(t)
  <2>1. /\ UNCHANGED <<discarded, reported, overflow_counter, bound>>
        /\ UNCHANGED <<lost, startup_buffer>>
    BY <1>5
    DEF external, limits, shared, history, Sent
  <2>2. \A v \in All \ {t} : th'[v] = th[v]
    BY <1>5, ThreadTyped DEF ThreadState, Sent, At, CallStore, Finish, Enter, Idle, ToBeStored
  <2>3. t \in Thread => /\ Refused(t)' <=> Refused(t)
                        /\ th[t].pc # "overflow_reset"
                        /\ th'[t].pc # "overflow_reset"
                        /\ Unrefused(t)'
    BY <1>5, ThreadTyped, Kinds
    DEF ThreadState, Flow, ThreadFlow, Returns, Loss, Counted, Unrefused, Refused, Reporting,
        Storing, Resending, Sent, At, CallStore, Finish, Enter, Idle, ToBeStored
  <2>4. th'[t].pc # "ended"
    BY <1>5, ThreadTyped, Kinds
    DEF ThreadState, Flow, ThreadFlow, Returns, Reporting,
        Storing, Resending, HousekeeperFlow, All,
        Sent, At, CallStore, Finish, Enter, Idle, ToBeStored
  <2>. QED BY <2>1, <2>2, <2>3, <2>4, Kinds, LossKept
<1>6. CASE SendRegister(t)
  <2>1. /\ UNCHANGED <<discarded, reported, overflow_counter, bound>>
        /\ UNCHANGED <<lost, startup_buffer>>
    BY <1>6
    DEF external, limits, shared, history, SendRegister
  <2>2. \A v \in All \ {t} : th'[v] = th[v]
    BY <1>6, ThreadTyped DEF ThreadState, SendRegister, At, CallStore
  <2>3. t \in Thread => /\ Refused(t)' <=> Refused(t)
                        /\ th[t].pc # "overflow_reset"
                        /\ th'[t].pc # "overflow_reset"
                        /\ Unrefused(t)'
    BY <1>6, ThreadTyped, Kinds
    DEF ThreadState, Flow, ThreadFlow, Returns, Loss, Counted, Unrefused, Refused, Reporting,
        Storing, Resending, SendRegister, At, CallStore
  <2>4. th'[t].pc # "ended"
    BY <1>6, ThreadTyped, Kinds
    DEF ThreadState, Flow, ThreadFlow, Returns, Reporting,
        Storing, Resending, HousekeeperFlow, All,
        SendRegister, At, CallStore
  <2>. QED BY <2>1, <2>2, <2>3, <2>4, Kinds, LossKept
<1>7. CASE RegisterRefused(t)
  <2>1. /\ UNCHANGED <<discarded, reported, overflow_counter, bound>>
        /\ UNCHANGED <<lost, startup_buffer>>
    BY <1>7
    DEF external, limits, shared, history, RegisterRefused
  <2>2. \A v \in All \ {t} : th'[v] = th[v]
    BY <1>7, ThreadTyped DEF ThreadState, RegisterRefused, At, Finish, Enter, Idle
  <2>3. t \in Thread => /\ Refused(t)' <=> Refused(t)
                        /\ th[t].pc # "overflow_reset"
                        /\ th'[t].pc # "overflow_reset"
                        /\ Unrefused(t)'
    BY <1>7, ThreadTyped, Kinds
    DEF ThreadState, Flow, ThreadFlow, Returns, Loss, Counted, Unrefused, Refused, Reporting,
        Storing, Resending, RegisterRefused, At, Finish, Enter, Idle
  <2>4. th'[t].pc # "ended"
    BY <1>7, ThreadTyped, Kinds
    DEF ThreadState, Flow, ThreadFlow, Returns, Reporting,
        Storing, Resending, HousekeeperFlow, All,
        RegisterRefused, At, Finish, Enter, Idle
  <2>. QED BY <2>1, <2>2, <2>3, <2>4, Kinds, LossKept
<1>8. CASE Registered(t)
  <2>1. /\ UNCHANGED <<discarded, reported, overflow_counter, bound>>
        /\ UNCHANGED <<lost, startup_buffer>>
    BY <1>8
    DEF external, limits, shared, history, Registered
  <2>2. \A v \in All \ {t} : th'[v] = th[v]
    BY <1>8, ThreadTyped DEF ThreadState, Registered, At, CallResend, Finish, Enter, Idle
  <2>3. t \in Thread => /\ Refused(t)' <=> Refused(t)
                        /\ th[t].pc # "overflow_reset"
                        /\ th'[t].pc # "overflow_reset"
                        /\ Unrefused(t)'
    BY <1>8, ThreadTyped, Kinds
    DEF ThreadState, Flow, ThreadFlow, Returns, Loss, Counted, Unrefused, Refused, Reporting,
        Storing, Resending, Registered, At, CallResend, Finish, Enter, Idle
  <2>4. th'[t].pc # "ended"
    BY <1>8, ThreadTyped, Kinds
    DEF ThreadState, Flow, ThreadFlow, Returns, Reporting,
        Storing, Resending, HousekeeperFlow, All,
        Registered, At, CallResend, Finish, Enter, Idle
  <2>. QED BY <2>1, <2>2, <2>3, <2>4, Kinds, LossKept
<1>9. CASE RegisterDone(t)
  <2>1. /\ UNCHANGED <<discarded, reported, overflow_counter, bound>>
        /\ UNCHANGED <<lost, startup_buffer>>
    BY <1>9
    DEF external, limits, shared, history, RegisterDone
  <2>2. \A v \in All \ {t} : th'[v] = th[v]
    BY <1>9, ThreadTyped DEF ThreadState, RegisterDone, At, Finish, Enter, Idle
  <2>3. t \in Thread => /\ Refused(t)' <=> Refused(t)
                        /\ th[t].pc # "overflow_reset"
                        /\ th'[t].pc # "overflow_reset"
                        /\ Unrefused(t)'
    BY <1>9, ThreadTyped, Kinds
    DEF ThreadState, Flow, ThreadFlow, Returns, Loss, Counted, Unrefused, Refused, Reporting,
        Storing, Resending, RegisterDone, At, Finish, Enter, Idle
  <2>4. th'[t].pc # "ended"
    BY <1>9, ThreadTyped, Kinds
    DEF ThreadState, Flow, ThreadFlow, Returns, Reporting,
        Storing, Resending, HousekeeperFlow, All,
        RegisterDone, At, Finish, Enter, Idle
  <2>. QED BY <2>1, <2>2, <2>3, <2>4, Kinds, LossKept
<1>10. CASE Forget(t)
  <2>1. /\ UNCHANGED <<discarded, reported, overflow_counter, bound>>
        /\ UNCHANGED <<lost, startup_buffer>>
    BY <1>10
    DEF external, limits, shared, history, Forget
  <2>2. \A v \in All \ {t} : th'[v] = th[v]
    BY <1>10, ThreadTyped DEF ThreadState, Forget, At, Enter, Idle
  <2>3. t \in Thread => /\ Refused(t)' <=> Refused(t)
                        /\ th[t].pc # "overflow_reset"
                        /\ th'[t].pc # "overflow_reset"
                        /\ Unrefused(t)'
    BY <1>10, ThreadTyped, Kinds
    DEF ThreadState, Flow, ThreadFlow, Returns, Loss, Counted, Unrefused, Refused, Reporting,
        Storing, Resending, Forget, At, Enter, Idle
  <2>4. th'[t].pc # "ended"
    BY <1>10, ThreadTyped, Kinds
    DEF ThreadState, Flow, ThreadFlow, Returns, Reporting,
        Storing, Resending, HousekeeperFlow, All,
        Forget, At, Enter, Idle
  <2>. QED BY <2>1, <2>2, <2>3, <2>4, Kinds, LossKept
<1>11. CASE CheckSize(t)
  <2>1. /\ UNCHANGED <<discarded, reported, overflow_counter, bound>>
        /\ UNCHANGED <<lost, startup_buffer>>
    BY <1>11
    DEF external, limits, shared, history, CheckSize
  <2>2. \A v \in All \ {t} : th'[v] = th[v]
    BY <1>11, ThreadTyped DEF ThreadState, CheckSize, At, Goto
  <2>3. t \in Thread => /\ Refused(t)' <=> Refused(t)
                        /\ th[t].pc # "overflow_reset"
                        /\ th'[t].pc # "overflow_reset"
                        /\ Unrefused(t)'
    BY <1>11, ThreadTyped, Kinds
    DEF ThreadState, Flow, ThreadFlow, Returns, Loss, Counted, Unrefused, Refused, Reporting,
        Storing, Resending, CheckSize, At, Goto
  <2>4. th'[t].pc # "ended"
    BY <1>11, ThreadTyped, Kinds
    DEF ThreadState, Flow, ThreadFlow, Returns, Reporting,
        Storing, Resending, HousekeeperFlow, All,
        CheckSize, At, Goto
  <2>. QED BY <2>1, <2>2, <2>3, <2>4, Kinds, LossKept
<1>12. CASE Block(t)
  <2>1. /\ UNCHANGED <<discarded, reported, overflow_counter, bound>>
        /\ UNCHANGED <<lost, startup_buffer>>
    BY <1>12
    DEF external, limits, shared, history, Block
  <2>2. \A v \in All \ {t} : th'[v] = th[v]
    BY <1>12, ThreadTyped DEF ThreadState, Block, At, Goto
  <2>3. t \in Thread => /\ Refused(t)' <=> Refused(t)
                        /\ th[t].pc # "overflow_reset"
                        /\ th'[t].pc # "overflow_reset"
                        /\ Unrefused(t)'
    BY <1>12, ThreadTyped, Kinds
    DEF ThreadState, Flow, ThreadFlow, Returns, Loss, Counted, Unrefused, Refused, Reporting,
        Storing, Resending, Block, At, Goto
  <2>4. th'[t].pc # "ended"
    BY <1>12, ThreadTyped, Kinds
    DEF ThreadState, Flow, ThreadFlow, Returns, Reporting,
        Storing, Resending, HousekeeperFlow, All,
        Block, At, Goto
  <2>. QED BY <2>1, <2>2, <2>3, <2>4, Kinds, LossKept
<1>13. CASE Flag(t)
  <2>1. /\ UNCHANGED <<discarded, reported, overflow_counter, bound>>
        /\ UNCHANGED <<lost, startup_buffer>>
    BY <1>13
    DEF external, limits, shared, history, Flag
  <2>2. \A v \in All \ {t} : th'[v] = th[v]
    BY <1>13, ThreadTyped DEF ThreadState, Flag, At, Goto
  <2>3. t \in Thread => /\ Refused(t)' <=> Refused(t)
                        /\ th[t].pc # "overflow_reset"
                        /\ th'[t].pc # "overflow_reset"
                        /\ Unrefused(t)'
    BY <1>13, ThreadTyped, Kinds
    DEF ThreadState, Flow, ThreadFlow, Returns, Loss, Counted, Unrefused, Refused, Reporting,
        Storing, Resending, Flag, At, Goto
  <2>4. th'[t].pc # "ended"
    BY <1>13, ThreadTyped, Kinds
    DEF ThreadState, Flow, ThreadFlow, Returns, Reporting,
        Storing, Resending, HousekeeperFlow, All,
        Flag, At, Goto
  <2>. QED BY <2>1, <2>2, <2>3, <2>4, Kinds, LossKept
<1>14. CASE Resend(t)
  <2>1. /\ UNCHANGED <<discarded, reported, overflow_counter, bound>>
        /\ UNCHANGED <<lost, startup_buffer>>
    BY <1>14
    DEF external, limits, shared, history, Resend
  <2>2. \A v \in All \ {t} : th'[v] = th[v]
    BY <1>14, ThreadTyped DEF ThreadState, Resend, At, Return
  <2>3. t \in Thread => /\ Refused(t)' <=> Refused(t)
                        /\ th[t].pc # "overflow_reset"
                        /\ th'[t].pc # "overflow_reset"
                        /\ Unrefused(t)'
    BY <1>14, ThreadTyped, Kinds
    DEF ThreadState, Flow, ThreadFlow, Returns, Loss, Counted, Unrefused, Refused, Reporting,
        Storing, Resending, Resend, At, Return
  <2>4. th'[t].pc # "ended"
    BY <1>14, ThreadTyped, Kinds
    DEF ThreadState, Flow, ThreadFlow, Returns, Reporting,
        Storing, Resending, HousekeeperFlow, All,
        Resend, At, Return
  <2>. QED BY <2>1, <2>2, <2>3, <2>4, Kinds, LossKept
<1>15. CASE ResendDone(t)
  <2>1. /\ UNCHANGED <<discarded, reported, overflow_counter, bound>>
        /\ UNCHANGED <<lost, startup_buffer>>
    BY <1>15
    DEF external, limits, shared, history, ResendDone
  <2>2. \A v \in All \ {t} : th'[v] = th[v]
    BY <1>15, ThreadTyped DEF ThreadState, ResendDone, At, Return
  <2>3. t \in Thread => /\ Refused(t)' <=> Refused(t)
                        /\ th[t].pc # "overflow_reset"
                        /\ th'[t].pc # "overflow_reset"
                        /\ Unrefused(t)'
    BY <1>15, ThreadTyped, Kinds
    DEF ThreadState, Flow, ThreadFlow, Returns, Loss, Counted, Unrefused, Refused, Reporting,
        Storing, Resending, ResendDone, At, Return
  <2>4. th'[t].pc # "ended"
    BY <1>15, ThreadTyped, Kinds
    DEF ThreadState, Flow, ThreadFlow, Returns, Reporting,
        Storing, Resending, HousekeeperFlow, All,
        ResendDone, At, Return
  <2>. QED BY <2>1, <2>2, <2>3, <2>4, Kinds, LossKept
<1>16. CASE Attach(t)
  <2>1. /\ UNCHANGED <<discarded, reported, overflow_counter, bound>>
        /\ UNCHANGED <<lost, startup_buffer>>
    BY <1>16
    DEF external, limits, shared, history, Attach
  <2>2. \A v \in All \ {t} : th'[v] = th[v]
    BY <1>16, ThreadTyped DEF ThreadState, Attach, At, Goto, Attached
  <2>3. t \in Thread => /\ Refused(t)' <=> Refused(t)
                        /\ th[t].pc # "overflow_reset"
                        /\ th'[t].pc # "overflow_reset"
                        /\ Unrefused(t)'
    BY <1>16, ThreadTyped, Kinds
    DEF ThreadState, Flow, ThreadFlow, Returns, Loss, Counted, Unrefused, Refused, Reporting,
        Storing, Resending, Attach, At, Goto, Attached
  <2>4. th'[t].pc # "ended"
    BY <1>16, ThreadTyped, Kinds
    DEF ThreadState, Flow, ThreadFlow, Returns, Reporting,
        Storing, Resending, HousekeeperFlow, All,
        Attach, At, Goto, Attached
  <2>. QED BY <2>1, <2>2, <2>3, <2>4, Kinds, LossKept
<1>17. CASE RegisterAgain(t)
  <2>1. /\ UNCHANGED <<discarded, reported, overflow_counter, bound>>
        /\ UNCHANGED <<lost, startup_buffer>>
    BY <1>17
    DEF external, limits, shared, history, RegisterAgain
  <2>2. \A v \in All \ {t} : th'[v] = th[v]
    BY <1>17, ThreadTyped DEF ThreadState, RegisterAgain, At, CallStore, Goto
  <2>3. t \in Thread => /\ Refused(t)' <=> Refused(t)
                        /\ th[t].pc # "overflow_reset"
                        /\ th'[t].pc # "overflow_reset"
                        /\ Unrefused(t)'
    BY <1>17, ThreadTyped, Kinds
    DEF ThreadState, Flow, ThreadFlow, Returns, Loss, Counted, Unrefused, Refused, Reporting,
        Storing, Resending, RegisterAgain, At, CallStore, Goto
  <2>4. th'[t].pc # "ended"
    BY <1>17, ThreadTyped, Kinds
    DEF ThreadState, Flow, ThreadFlow, Returns, Reporting,
        Storing, Resending, HousekeeperFlow, All,
        RegisterAgain, At, CallStore, Goto
  <2>. QED BY <2>1, <2>2, <2>3, <2>4, Kinds, LossKept
<1>18. CASE ContextAgain(t)
  <2>1. /\ UNCHANGED <<discarded, reported, overflow_counter, bound>>
        /\ UNCHANGED <<lost, startup_buffer>>
    BY <1>18
    DEF external, limits, shared, history, ContextAgain
  <2>2. \A v \in All \ {t} : th'[v] = th[v]
    BY <1>18, ThreadTyped DEF ThreadState, ContextAgain, At, MoreContexts
  <2>3. t \in Thread => /\ Refused(t)' <=> Refused(t)
                        /\ th[t].pc # "overflow_reset"
                        /\ th'[t].pc # "overflow_reset"
                        /\ Unrefused(t)'
    BY <1>18, ThreadTyped, Kinds
    DEF ThreadState, Flow, ThreadFlow, Returns, Loss, Counted, Unrefused, Refused, Reporting,
        Storing, Resending, ContextAgain, At, MoreContexts
  <2>4. th'[t].pc # "ended"
    BY <1>18, ThreadTyped, Kinds
    DEF ThreadState, Flow, ThreadFlow, Returns, Reporting,
        Storing, Resending, HousekeeperFlow, All,
        ContextAgain, At, MoreContexts
  <2>. QED BY <2>1, <2>2, <2>3, <2>4, Kinds, LossKept
<1>19. CASE ContextsDone(t)
  <2>1. /\ UNCHANGED <<discarded, reported, overflow_counter, bound>>
        /\ UNCHANGED <<lost, startup_buffer>>
    BY <1>19
    DEF external, limits, shared, history, ContextsDone
  <2>2. \A v \in All \ {t} : th'[v] = th[v]
    BY <1>19, ThreadTyped DEF ThreadState, ContextsDone, At, Goto, Attached
  <2>3. t \in Thread => /\ Refused(t)' <=> Refused(t)
                        /\ th[t].pc # "overflow_reset"
                        /\ th'[t].pc # "overflow_reset"
                        /\ Unrefused(t)'
    BY <1>19, ThreadTyped, Kinds
    DEF ThreadState, Flow, ThreadFlow, Returns, Loss, Counted, Unrefused, Refused, Reporting,
        Storing, Resending, ContextsDone, At, Goto, Attached
  <2>4. th'[t].pc # "ended"
    BY <1>19, ThreadTyped, Kinds
    DEF ThreadState, Flow, ThreadFlow, Returns, Reporting,
        Storing, Resending, HousekeeperFlow, All,
        ContextsDone, At, Goto, Attached
  <2>. QED BY <2>1, <2>2, <2>3, <2>4, Kinds, LossKept
<1>20. CASE ExitTries(t)
  <2>1. /\ UNCHANGED <<discarded, reported, overflow_counter, bound>>
        /\ UNCHANGED <<lost, startup_buffer>>
    BY <1>20
    DEF external, limits, shared, history, ExitTries
  <2>2. \A v \in All \ {t} : th'[v] = th[v]
    BY <1>20, ThreadTyped DEF ThreadState, ExitTries, At, Enter, Idle
  <2>3. t \in Thread => /\ Refused(t)' <=> Refused(t)
                        /\ th[t].pc # "overflow_reset"
                        /\ th'[t].pc # "overflow_reset"
                        /\ Unrefused(t)'
    BY <1>20, ThreadTyped, Kinds
    DEF ThreadState, Flow, ThreadFlow, Returns, Loss, Counted, Unrefused, Refused, Reporting,
        Storing, Resending, ExitTries, At, Enter, Idle
  <2>4. th'[t].pc # "ended"
    BY <1>20, ThreadTyped, Kinds
    DEF ThreadState, Flow, ThreadFlow, Returns, Reporting,
        Storing, Resending, HousekeeperFlow, All,
        ExitTries, At, Enter, Idle
  <2>. QED BY <2>1, <2>2, <2>3, <2>4, Kinds, LossKept
<1>21. CASE ExitOverflow(t)
  <2>1. /\ UNCHANGED <<discarded, reported, overflow_counter, bound>>
        /\ UNCHANGED <<lost, startup_buffer>>
    BY <1>21
    DEF external, limits, shared, history, ExitOverflow
  <2>2. \A v \in All \ {t} : th'[v] = th[v]
    BY <1>21, ThreadTyped DEF ThreadState, ExitOverflow, At
  <2>3. t \in Thread => /\ Refused(t)' <=> Refused(t)
                        /\ th[t].pc # "overflow_reset"
                        /\ th'[t].pc # "overflow_reset"
                        /\ Unrefused(t)'
    BY <1>21, ThreadTyped, Kinds
    DEF ThreadState, Flow, ThreadFlow, Returns, Loss, Counted, Unrefused, Refused, Reporting,
        Storing, Resending, ExitOverflow, At
  <2>4. th'[t].pc # "ended"
    BY <1>21, ThreadTyped, Kinds
    DEF ThreadState, Flow, ThreadFlow, Returns, Reporting,
        Storing, Resending, HousekeeperFlow, All,
        ExitOverflow, At
  <2>. QED BY <2>1, <2>2, <2>3, <2>4, Kinds, LossKept
<1>22. CASE ExitResend(t)
  <2>1. /\ UNCHANGED <<discarded, reported, overflow_counter, bound>>
        /\ UNCHANGED <<lost, startup_buffer>>
    BY <1>22
    DEF external, limits, shared, history, ExitResend
  <2>2. \A v \in All \ {t} : th'[v] = th[v]
    BY <1>22, ThreadTyped DEF ThreadState, ExitResend, At, Enter, Idle, CallResend
  <2>3. t \in Thread => /\ Refused(t)' <=> Refused(t)
                        /\ th[t].pc # "overflow_reset"
                        /\ th'[t].pc # "overflow_reset"
                        /\ Unrefused(t)'
    BY <1>22, ThreadTyped, Kinds
    DEF ThreadState, Flow, ThreadFlow, Returns, Loss, Counted, Unrefused, Refused, Reporting,
        Storing, Resending, ExitResend, At, Enter, Idle, CallResend
  <2>4. th'[t].pc # "ended"
    BY <1>22, ThreadTyped, Kinds
    DEF ThreadState, Flow, ThreadFlow, Returns, Reporting,
        Storing, Resending, HousekeeperFlow, All,
        ExitResend, At, Enter, Idle, CallResend
  <2>. QED BY <2>1, <2>2, <2>3, <2>4, Kinds, LossKept
<1>23. CASE ExitUnregister(t)
  <2>1. /\ UNCHANGED <<discarded, reported, overflow_counter, bound>>
        /\ UNCHANGED <<lost, startup_buffer>>
    BY <1>23
    DEF external, limits, shared, history, ExitUnregister, SendUnregister
  <2>2. \A v \in All \ {t} : th'[v] = th[v]
    BY <1>23, ThreadTyped DEF ThreadState, ExitUnregister, At, SendUnregister, out2, CallStore, Goto
  <2>3. t \in Thread => /\ Refused(t)' <=> Refused(t)
                        /\ th[t].pc # "overflow_reset"
                        /\ th'[t].pc # "overflow_reset"
                        /\ Unrefused(t)'
    BY <1>23, ThreadTyped, Kinds
    DEF ThreadState, Flow, ThreadFlow, Returns, Loss, Counted, Unrefused, Refused, Reporting,
        Storing, Resending, ExitUnregister, At, SendUnregister, out2, CallStore, Goto
  <2>4. th'[t].pc # "ended"
    BY <1>23, ThreadTyped, Kinds
    DEF ThreadState, Flow, ThreadFlow, Returns, Reporting,
        Storing, Resending, HousekeeperFlow, All,
        ExitUnregister, At, SendUnregister, out2, CallStore, Goto
  <2>. QED BY <2>1, <2>2, <2>3, <2>4, Kinds, LossKept
<1>. QED
  BY <1>1, <1>2, <1>3, <1>4, <1>5, <1>6, <1>7, <1>8, <1>9, <1>10, <1>11, <1>12, <1>13, <1>14, <1>15, <1>16, <1>17, <1>18, <1>19, <1>20, <1>21, <1>22, <1>23
  DEF LosesNothing

LEMMA CountedOwn ==
  ASSUME Typed, Flow, Counted, NEW t \in Thread, th[t].pc \notin {"idle", "ended"},
         \A v \in All \ {t} : th'[v] = th[v], bound' = bound, Unrefused(t)',
         Alone(t) => /\ IsFiniteSet(discarded')
                     /\ reported' + Pending(t)' + Once(Refused(t)')
                          = Cardinality(discarded')
  PROVE  Counted'
<1>1. \A v \in Thread : Unrefused(v)'
  BY Kinds DEF Counted, Unrefused
<1>2. ASSUME NEW v \in Thread, Alone(v)'
      PROVE  v = t /\ Alone(t)
  BY <1>2 DEF Alone, Flow, ThreadFlow
<1>. QED BY <1>1, <1>2 DEF Counted

LEMMA StoredLogsFinite ==
  ASSUME Typed
  PROVE  /\ IsFiniteSet(StoredLogs) /\ Cardinality(StoredLogs) \in Nat
         /\ Cardinality(StoredLogs) <= Len(startup_buffer)
<1>. DEFINE n == Len(startup_buffer)
            T == {startup_buffer[i] : i \in 1 .. n}
            f == [i \in 1 .. n |-> startup_buffer[i]]
<1>1. startup_buffer \in Seq(Message) /\ n \in Nat /\ DOMAIN startup_buffer = 1 .. n
  BY DEF Typed, TypeOK
<1>2. IsFiniteSet(1 .. n) /\ Cardinality(1 .. n) = n
  BY <1>1, FS_Interval
<1>3. f \in Surjection(1 .. n, T)
  BY DEF Surjection
<1>4. IsFiniteSet(T) /\ Cardinality(T) <= n
  BY <1>2, <1>3, FS_Surjection
<1>5. StoredLogs \in SUBSET T
  BY <1>1 DEF StoredLogs
<1>6. Cardinality(T) \in Nat
  BY <1>4, FS_CardinalityType
<1>7. /\ IsFiniteSet(StoredLogs) /\ Cardinality(StoredLogs) \in Nat
      /\ Cardinality(StoredLogs) <= Cardinality(T)
  BY <1>4, <1>5, FS_Subset, FS_CardinalityType
<1>. HIDE DEF T
<1>. QED BY <1>1, <1>4, <1>6, <1>7

LEMMA FewerStored ==
  ASSUME Typed, NoMoreThanLost, lost' = lost,
         lost # None => StoredLogs' \subseteq StoredLogs
  PROVE  NoMoreThanLost'
<1>1. SUFFICES ASSUME lost # None
               PROVE  Cardinality(StoredLogs') <= lost
  BY DEF NoMoreThanLost
<1>2. StoredLogs' \in SUBSET StoredLogs /\ IsFiniteSet(StoredLogs)
  BY <1>1, StoredLogsFinite
<1>3. IsFiniteSet(StoredLogs') /\ Cardinality(StoredLogs') <= Cardinality(StoredLogs)
  BY <1>2, FS_Subset
<1>4. Cardinality(StoredLogs') \in Nat /\ Cardinality(StoredLogs) \in Nat
  BY <1>2, <1>3, FS_CardinalityType
<1>5. Cardinality(StoredLogs) <= lost /\ lost \in Nat
  BY <1>1 DEF NoMoreThanLost, Typed, TypeOK
<1>. QED BY <1>3, <1>4, <1>5

(* The counter of lost messages and its reports.                           *)
LEMMA OverflowLoss ==
  ASSUME Typed, Flow, Loss, NEW t \in All,
         SendOverflow(t) \/ OverflowReset(t) \/ Stored(t)
  PROVE  Loss'
<1>1. /\ UNCHANGED <<discarded, bound, lost, startup_buffer>>
      /\ \A v \in All \ {t} : th'[v] = th[v]
  BY ThreadTyped
  DEF ThreadState, external, limits, shared, history, SendOverflow, OverflowReset,
      Stored, Goto, Finish, Enter
<1>2. t \in Thread /\ th[t].pc \notin {"idle", "ended"}
  BY DEF SendOverflow, OverflowReset, Stored, At, Flow, HousekeeperFlow, All,
     Storing, Resending
<1>3. /\ overflow_counter \in Nat /\ reported \in Nat
      /\ Alone(t) => /\ IsFiniteSet(discarded)
                     /\ reported + Pending(t) + Once(Refused(t))
                          = Cardinality(discarded)
  BY <1>2 DEF Typed, TypeOK, Loss, Counted
<1>4. NoMoreThanLost' /\ EndsAtExit'
  BY <1>1, <1>2, Kinds DEF Loss, NoMoreThanLost, StoredLogs, EndsAtExit, At
<1>5. CASE SendOverflow(t)
  <2>1. /\ th[t].pc = "overflow" /\ overflow_counter' = overflow_counter
        /\ th[t].back \in {"old", "exit_resend"}
        /\ th'[t].pc = (IF out2 = "OK" THEN "overflow_reset" ELSE th[t].back)
        /\ reported' = (IF out2 = "OK" THEN reported + overflow_counter ELSE reported)
    BY <1>2, <1>5, ThreadTyped
    DEF ThreadState, SendOverflow, At, Goto, Flow, ThreadFlow, Returns, Reporting
  <2>2. ~Refused(t) /\ ~Refused(t)' /\ Unrefused(t)'
    BY <2>1 DEF Refused, Unrefused, At
  <2>3. reported' + Pending(t)' = reported + Pending(t)
    BY <1>3, <2>1 DEF Pending, At
  <2>4. Once(Refused(t)) = 0 /\ Once(Refused(t)') = 0
    BY <2>2 DEF Once
  <2>. QED BY <1>1, <1>2, <1>3, <1>4, <2>2, <2>3, <2>4, CountedOwn DEF Loss
<1>6. CASE OverflowReset(t)
  <2>1. /\ th[t].pc = "overflow_reset" /\ overflow_counter' = 0
        /\ th[t].back \in {"old", "exit_resend"} /\ th'[t].pc = th[t].back
        /\ reported' = reported
    BY <1>2, <1>6, ThreadTyped
    DEF ThreadState, OverflowReset, At, Goto, Flow, ThreadFlow, Returns, Reporting,
        history
  <2>2. ~Refused(t) /\ ~Refused(t)' /\ Unrefused(t)'
    BY <2>1 DEF Refused, Unrefused, At
  <2>3. reported' + Pending(t)' = reported + Pending(t)
    BY <1>3, <2>1 DEF Pending, At
  <2>4. Once(Refused(t)) = 0 /\ Once(Refused(t)') = 0
    BY <2>2 DEF Once
  <2>. QED BY <1>1, <1>2, <1>3, <1>4, <2>2, <2>3, <2>4, CountedOwn DEF Loss
<1>7. CASE Stored(t)
  <2>1. /\ th[t].pc = "stored" /\ th'[t].pc = "idle" /\ reported' = reported
        /\ overflow_counter' = (IF th[t].res = "BUFFER_FULL"
                                THEN overflow_counter + 1 ELSE overflow_counter)
    BY <1>7, ThreadTyped DEF ThreadState, Stored, At, Finish, Enter, Idle, history
  <2>2. (Refused(t) <=> th[t].res = "BUFFER_FULL") /\ ~Refused(t)' /\ Unrefused(t)'
    BY <2>1 DEF Refused, Unrefused, At
  <2>3. Pending(t) = overflow_counter /\ Pending(t)' = overflow_counter'
    BY <2>1 DEF Pending, At
  <2>4. /\ Once(Refused(t)) = IF th[t].res = "BUFFER_FULL" THEN 1 ELSE 0
        /\ Once(Refused(t)') = 0
    BY <2>2 DEF Once
  <2>5. reported' + Pending(t)' + Once(Refused(t)')
          = reported + Pending(t) + Once(Refused(t))
    BY <1>3, <2>1, <2>3, <2>4
  <2>. QED BY <1>1, <1>2, <1>3, <1>4, <2>2, <2>5, CountedOwn DEF Loss
<1>. QED BY <1>5, <1>6, <1>7

(* A message that the full buffer refuses is counted by its thread; only   *)
(* control messages are stored when the process exits.                     *)
LEMMA PushLoss ==
  ASSUME Typed, Flow, Exiting, Located, Loss, NEW t \in All, Store(t) \/ Wake(t)
  PROVE  Loss'
<1>1. /\ UNCHANGED <<reported, overflow_counter, bound, lost, logs>>
      /\ \A v \in All \ {t} : th'[v] = th[v]
  BY ThreadTyped
  DEF ThreadState, external, limits, shared, history, races, Store, Wake, Return
<1>2. th[t].pc \in {"push", "wait"}
  BY DEF Store, Wake, At
<1>3. EndsAtExit'
  <2>1. th'[HK].pc = "ended" => th[HK].pc = "ended"
    <3>1. CASE t = HK
      <4>1. th[HK].back = "contexts"
        BY <1>2, <3>1 DEF Flow, HousekeeperFlow, Storing
      <4>2. th'[HK].pc \in {th[HK].pc, "flag", th[HK].back}
        BY <1>2, <3>1, ThreadTyped DEF ThreadState, Store, Wake, Return
      <4>. QED BY <1>2, <3>1, <4>1, <4>2
    <3>2. CASE t # HK
      BY <1>1, <3>2, Kinds
    <3>. QED BY <3>1, <3>2
  <2>. QED BY <1>1, <2>1 DEF Loss, EndsAtExit, At
<1>4. CASE Wake(t) /\ StillFull
  <2>1. UNCHANGED <<th, startup_buffer, discarded>>
    BY <1>2, <1>4 DEF Wake
  <2>2. Counted'
    BY <1>1, <2>1 DEF Loss, Counted, Unrefused, Refused, Pending, At, Alone, Once
  <2>3. NoMoreThanLost'
    BY <1>1, <2>1 DEF Loss, NoMoreThanLost, StoredLogs
  <2>. QED BY <1>3, <2>2, <2>3 DEF Loss
<1>5. CASE ~(Wake(t) /\ StillFull)
  <2>. PICK m : m = th[t].msg
    OBVIOUS
  <2>1. Push(m) /\ m \in Message /\ startup_buffer \in Seq(Message)
    BY <1>2, <1>5, ThreadTyped DEF Store, Wake, ThreadState, Typed, TypeOK
  <2>2. /\ th'[t].pc = (IF th[t].pc = "push" THEN "flag" ELSE th[t].back)
        /\ th'[t].back = th[t].back
        /\ th'[t].res = (IF Full THEN "BUFFER_FULL" ELSE th[t].res)
    BY <1>2, <1>5, ThreadTyped
    DEF ThreadState, Store, Wake, Return, At, PushResult
  <2>3. t \in Thread => th[t].back \in {"stored", "registered", "forget", "contexts"}
    BY <1>2 DEF Flow, ThreadFlow, Returns, Storing
  <2>4. t \in Thread => ~Refused(t) /\ Unrefused(t)' /\ th[t].res # "BUFFER_FULL"
    BY <1>2, <2>2, <2>3 DEF Refused, Unrefused, At, Loss, Counted
  <2>5. t \in Thread => (Refused(t)' <=> th[t].back = "stored" /\ Full)
    BY <1>2, <2>2, <2>3, <2>4 DEF Refused, At
  <2>6. t \in Thread => Pending(t)' = overflow_counter /\ Pending(t) = overflow_counter
    BY <1>1, <1>2, <2>2, <2>3 DEF Pending, At
  <2>7. t \in Thread => (InLog(t) <=> th[t].back = "stored")
    BY <1>2, <2>3
    DEF InLog, BeforeStore, AfterSent, Sending, Reporting, Storing, Resending
  <2>8. m.op = "log" <=> t \in Thread /\ th[t].back = "stored"
    BY <2>7, Kinds DEF Flow, ThreadFlow, HousekeeperFlow, All
  <2>9. NoMoreThanLost'
    <3>1. ASSUME lost # None
          PROVE  StoredLogs' \subseteq StoredLogs
      <4>1. m.op # "log"
        BY <2>7, <2>8, <3>1 DEF Exiting, Exits
      <4>2. CASE Full
        BY <2>1, <4>2 DEF Push, StoredLogs
      <4>3. CASE ~Full
        <5>1. startup_buffer' = Append(startup_buffer, m)
          BY <2>1, <4>3 DEF Push
        <5>2. ASSUME NEW x \in LogMessage, NEW i \in DOMAIN startup_buffer',
                     startup_buffer'[i] = x
              PROVE  i \in DOMAIN startup_buffer /\ startup_buffer[i] = x
          <6>1. i # Len(startup_buffer) + 1
            BY <2>1, <4>1, <5>1, <5>2, LogMessages
          <6>. QED BY <2>1, <5>1, <5>2, <6>1
        <5>. QED BY <5>2 DEF StoredLogs
      <4>. QED BY <4>2, <4>3
    <3>. QED BY <1>1, <3>1, FewerStored DEF Loss
  <2>10. CASE t \in Thread /\ m.op = "log" /\ Full
    <3>1. discarded' = discarded \cup {m}
      BY <2>1, <2>10 DEF Push
    <3>2. m \notin discarded
      <4>1. InLog(t) /\ m = Log(t, logs[t])
        BY <2>7, <2>8, <2>10 DEF Flow, ThreadFlow
      <4>2. Holds(t)
        BY <1>2, <4>1 DEF Holds
      <4>3. TimesWritten(m) + Copies(startup_buffer, m) + Once(m \in discarded) + 1
              = IF m \in doubled THEN 2 ELSE 1
        BY <2>10, <4>1, <4>2, HeldOnce DEF Located
      <4>4. m \in doubled => Written(m)
        BY DEF Located, Raced
      <4>5. /\ TimesWritten(m) \in Nat /\ (TimesWritten(m) > 0 <=> Written(m))
            /\ Copies(startup_buffer, m) \in Nat
            /\ m \in discarded => Once(m \in discarded) = 1
        BY Counts DEF Once
      <4>. QED BY <4>3, <4>4, <4>5
    <3>3. ASSUME Alone(t)
          PROVE  /\ IsFiniteSet(discarded')
                 /\ reported' + Pending(t)' + Once(Refused(t)') = Cardinality(discarded')
      <4>1. /\ IsFiniteSet(discarded)
            /\ reported + Pending(t) + Once(Refused(t)) = Cardinality(discarded)
        BY <2>10, <3>3 DEF Loss, Counted
      <4>2. IsFiniteSet(discarded') /\ Cardinality(discarded') = Cardinality(discarded) + 1
        BY <3>1, <3>2, <4>1, FS_AddElement
      <4>3. Once(Refused(t)) = 0 /\ Once(Refused(t)') = 1
        BY <2>4, <2>5, <2>8, <2>10 DEF Once
      <4>4. reported \in Nat /\ overflow_counter \in Nat
        BY DEF Typed, TypeOK
      <4>. QED BY <1>1, <2>6, <2>10, <4>1, <4>2, <4>3, <4>4
    <3>4. Counted'
      BY <1>1, <1>2, <2>4, <2>10, <3>3, CountedOwn DEF Loss
    <3>. QED BY <1>3, <2>9, <3>4 DEF Loss
  <2>11. CASE ~(t \in Thread /\ m.op = "log" /\ Full)
    <3>1. discarded' = discarded
      BY <2>1, <2>8, <2>11 DEF Push
    <3>2. CASE t \in Thread
      <4>1. ~Refused(t)' /\ ~Refused(t)
        BY <2>4, <2>5, <2>8, <2>11, <3>2
      <4>2. Once(Refused(t)) = 0 /\ Once(Refused(t)') = 0
        BY <4>1 DEF Once
      <4>3. Counted'
        BY <1>1, <1>2, <2>4, <2>6, <3>1, <3>2, <4>2, CountedOwn DEF Loss, Counted
      <4>. QED BY <1>3, <2>9, <4>3 DEF Loss
    <3>3. CASE t = HK
      <4>1. \A v \in Thread : th'[v] = th[v]
        BY <1>1, <3>3, Kinds
      <4>2. Counted'
        BY <1>1, <3>1, <4>1
        DEF Loss, Counted, Unrefused, Refused, Pending, At, Alone, Once
      <4>. QED BY <1>3, <2>9, <4>2 DEF Loss
    <3>. QED BY <3>2, <3>3 DEF All
  <2>. QED BY <2>10, <2>11
<1>. QED BY <1>4, <1>5

LEMMA ResendLoss ==
  ASSUME Typed, Flow, Loss, NEW t \in All, ResendNext(t)
  PROVE  Loss'
<1>1. /\ UNCHANGED <<discarded, reported, overflow_counter, bound, lost>>
      /\ \A v \in All \ {t} : th'[v] = th[v]
      /\ th[t].pc = "resend_next" /\ th'[t].pc \in {"resend_next", th[t].back}
  BY ThreadTyped DEF ThreadState, external, limits, ResendNext, Return, At
<1>2. ASSUME t \in Thread
      PROVE  ~Refused(t) /\ ~Refused(t)' /\ Unrefused(t)' /\ Pending(t)' = Pending(t)
  <2>1. th[t].back \in {"new", "done", "exit_resent", "flushed"}
    BY <1>1, <1>2 DEF Flow, ThreadFlow, Returns, Resending
  <2>. QED BY <1>1, <2>1 DEF Refused, Unrefused, Pending, At
<1>3. Counted'
  <2>1. CASE t \in Thread
    <3>1. Once(Refused(t)) = 0 /\ Once(Refused(t)') = 0
      BY <1>2, <2>1 DEF Once
    <3>. QED BY <1>1, <1>2, <2>1, <3>1, CountedOwn DEF Loss, Counted
  <2>2. CASE t = HK
    <3>1. \A v \in Thread : th'[v] = th[v]
      BY <1>1, <2>2, Kinds
    <3>. QED
      BY <1>1, <3>1 DEF Loss, Counted, Unrefused, Refused, Pending, At, Alone, Once
  <2>. QED BY <2>1, <2>2 DEF All
<1>4. StoredLogs' \subseteq StoredLogs
  <2>1. /\ startup_buffer \in Seq(Message) /\ startup_buffer # <<>>
        /\ startup_buffer' \in {startup_buffer, Tail(startup_buffer)}
    BY DEF ResendNext, AfterSend, Typed, TypeOK
  <2>2. ASSUME NEW x, NEW i \in DOMAIN startup_buffer', startup_buffer'[i] = x
        PROVE  \E j \in DOMAIN startup_buffer : startup_buffer[j] = x
    <3>1. CASE startup_buffer' = startup_buffer
      BY <2>2, <3>1
    <3>2. CASE startup_buffer' = Tail(startup_buffer)
      <4>1. i + 1 \in DOMAIN startup_buffer /\ startup_buffer[i + 1] = x
        BY <2>1, <2>2, <3>2
      <4>. QED BY <4>1
    <3>. QED BY <2>1, <3>1, <3>2
  <2>. QED BY <2>2 DEF StoredLogs
<1>5. NoMoreThanLost'
  BY <1>1, <1>4, FewerStored DEF Loss
<1>6. EndsAtExit'
  <2>1. CASE t = HK
    <3>1. th[HK].back = "flushed"
      BY <1>1, <2>1 DEF Flow, HousekeeperFlow, Resending
    <3>. QED BY <1>1, <2>1, <3>1 DEF EndsAtExit, At
  <2>2. CASE t # HK
    BY <1>1, <2>2, Kinds DEF Loss, EndsAtExit, At
  <2>. QED BY <2>1, <2>2
<1>. QED BY <1>3, <1>5, <1>6 DEF Loss

(* The exit handler counts what is left in the startup buffer.             *)
LEMMA ExitLoss ==
  ASSUME Typed, Flow, Loss, NEW t \in All,
         ExitTimeout(t) \/ ExitResent(t) \/ (t \in Thread /\ Exit(t))
  PROVE  Loss'
<1>1. /\ UNCHANGED <<discarded, reported, overflow_counter, bound, startup_buffer>>
      /\ \A v \in All \ {t} : th'[v] = th[v]
      /\ lost' = lost \/ lost' = Len(startup_buffer)
      /\ th[t].pc \in {"idle", "exit", "exit_resent"}
      /\ th'[t].pc \in {"exit", "exit_unregister"}
  BY ThreadTyped
  DEF ThreadState, limits, shared, history, ExitTimeout, ExitResent, Exit, MayCall,
      At, Goto, Enter, Idle, LeftOver
<1>2. NoMoreThanLost'
  <2>1. Cardinality(StoredLogs) <= Len(startup_buffer)
    BY StoredLogsFinite
  <2>. QED BY <1>1, <2>1 DEF Loss, NoMoreThanLost, StoredLogs
<1>3. Counted'
  <2>1. ASSUME NEW v \in Thread
        PROVE  /\ Unrefused(v)' /\ (Refused(v)' <=> Refused(v))
               /\ Pending(v)' = Pending(v)
    <3>1. CASE v = t
      BY <1>1, <3>1 DEF Refused, Unrefused, Pending, At
    <3>2. CASE v # t
      <4>1. th'[v] = th[v]
        BY <1>1, <3>2, Kinds
      <4>. QED BY <1>1, <4>1 DEF Loss, Counted, Refused, Unrefused, Pending, At
    <3>. QED BY <3>1, <3>2
  <2>2. \A v \in Thread : Once(Refused(v)') = Once(Refused(v))
    BY <2>1 DEF Once
  <2>. QED BY <1>1, <2>1, <2>2 DEF Loss, Counted, Alone, Once
<1>4. EndsAtExit'
  <2>1. Len(startup_buffer) \in Nat /\ Len(startup_buffer) # None
    BY UserLibAssumption DEF Typed, TypeOK
  <2>2. th'[HK].pc = "ended" => th[HK].pc = "ended"
    BY <1>1, Kinds
  <2>. QED BY <1>1, <2>1, <2>2 DEF Loss, EndsAtExit, At
<1>. QED BY <1>2, <1>3, <1>4 DEF Loss

LEMMA StopLoss ==
  ASSUME Typed, Flow, Exiting, Loss, NEW t \in All, Stop(t)
  PROVE  Loss'
<1>1. /\ UNCHANGED <<discarded, reported, overflow_counter, bound>>
      /\ UNCHANGED <<lost, startup_buffer>>
  BY DEF external, limits, history, Stop
<1>2. /\ t \in Thread /\ th[t].pc = "stop"
      /\ \A v \in Thread : th'[v].pc = "ended"
  BY Kinds DEF Stop, At, Idle, Flow, HousekeeperFlow, All, Storing, Resending
<1>3. NoMoreThanLost'
  BY <1>1 DEF Loss, NoMoreThanLost, StoredLogs
<1>4. \A v \in Thread : Unrefused(v)' /\ ~Refused(v)' /\ Pending(v)' = overflow_counter
  BY <1>1, <1>2 DEF Unrefused, Refused, Pending, At
<1>5. ASSUME NEW v \in Thread, Alone(v)'
      PROVE  /\ IsFiniteSet(discarded')
             /\ reported' + Pending(v)' + Once(Refused(v)') = Cardinality(discarded')
  <2>1. v = t /\ Alone(t)
    BY <1>1, <1>2, <1>5 DEF Alone, Flow, ThreadFlow
  <2>2. ~Refused(t) /\ Pending(t) = overflow_counter
    BY <1>2 DEF Refused, Pending, At
  <2>3. Once(Refused(t)) = 0 /\ Once(Refused(v)') = 0
    BY <1>4, <2>2 DEF Once
  <2>. QED BY <1>1, <1>2, <1>4, <2>1, <2>2, <2>3 DEF Loss, Counted
<1>6. EndsAtExit'
  BY <1>1, <1>2 DEF EndsAtExit, Exiting, Exits, ExitStep
<1>. QED BY <1>3, <1>4, <1>5, <1>6 DEF Loss, Counted

LEMMA ContinuesLoss ==
  ASSUME Typed, Flow, Exiting, Located, Loss, NEW t \in All, Continues(t)
  PROVE  Loss'
<1>1. CASE LosesNothing(t)
  BY <1>1, LosesNothingSteps
<1>2. CASE SendOverflow(t) \/ OverflowReset(t) \/ Stored(t)
  BY <1>2, OverflowLoss
<1>3. CASE Store(t) \/ Wake(t)
  BY <1>3, PushLoss
<1>4. CASE ResendNext(t)
  BY <1>4, ResendLoss
<1>5. CASE ExitTimeout(t) \/ ExitResent(t)
  BY <1>5, ExitLoss
<1>6. CASE Stop(t)
  BY <1>6, StopLoss
<1>. QED
  BY <1>1, <1>2, <1>3, <1>4, <1>5, <1>6 DEF Continues, LosesNothing

LEMMA CallsLoss ==
  ASSUME Typed, Flow, Loss, NEW t \in Thread, ApplicationCalls(t)
  PROVE  Loss'
<1>1. CASE Register(t)
  <2>1. /\ UNCHANGED <<discarded, reported, overflow_counter, bound>>
        /\ UNCHANGED <<lost, startup_buffer>>
    BY <1>1
    DEF external, limits, shared, history, Register
  <2>2. \A v \in All \ {t} : th'[v] = th[v]
    BY <1>1, ThreadTyped DEF ThreadState, Register, MayCall, At, Goto
  <2>3. t \in Thread => /\ Refused(t)' <=> Refused(t)
                        /\ th[t].pc # "overflow_reset"
                        /\ th'[t].pc # "overflow_reset"
                        /\ Unrefused(t)'
    BY <1>1, ThreadTyped, Kinds
    DEF ThreadState, Flow, ThreadFlow, Returns, Loss, Counted, Unrefused, Refused, Reporting,
        Storing, Resending, Register, MayCall, At, Goto
  <2>4. th'[t].pc # "ended"
    BY <1>1, ThreadTyped, Kinds
    DEF ThreadState, Flow, ThreadFlow, Returns, Reporting,
        Storing, Resending, HousekeeperFlow, All,
        Register, MayCall, At, Goto
  <2>. QED BY <2>1, <2>2, <2>3, <2>4, Kinds, LossKept
<1>2. CASE Unregister(t)
  <2>1. /\ UNCHANGED <<discarded, reported, overflow_counter, bound>>
        /\ UNCHANGED <<lost, startup_buffer>>
    BY <1>2
    DEF external, limits, shared, history, Unregister, SendUnregister
  <2>2. \A v \in All \ {t} : th'[v] = th[v]
    BY <1>2, ThreadTyped DEF ThreadState, Unregister, MayCall, At, SendUnregister, out2, CallStore, Goto
  <2>3. t \in Thread => /\ Refused(t)' <=> Refused(t)
                        /\ th[t].pc # "overflow_reset"
                        /\ th'[t].pc # "overflow_reset"
                        /\ Unrefused(t)'
    BY <1>2, ThreadTyped, Kinds
    DEF ThreadState, Flow, ThreadFlow, Returns, Loss, Counted, Unrefused, Refused, Reporting,
        Storing, Resending, Unregister, MayCall, At, SendUnregister, out2, CallStore, Goto
  <2>4. th'[t].pc # "ended"
    BY <1>2, ThreadTyped, Kinds
    DEF ThreadState, Flow, ThreadFlow, Returns, Reporting,
        Storing, Resending, HousekeeperFlow, All,
        Unregister, MayCall, At, SendUnregister, out2, CallStore, Goto
  <2>. QED BY <2>1, <2>2, <2>3, <2>4, Kinds, LossKept
<1>3. CASE SendLog(t)
  <2>1. /\ UNCHANGED <<discarded, reported, overflow_counter, bound>>
        /\ UNCHANGED <<lost, startup_buffer>>
    BY <1>3
    DEF external, limits, shared, history, SendLog
  <2>2. \A v \in All \ {t} : th'[v] = th[v]
    BY <1>3, ThreadTyped DEF ThreadState, SendLog, MayCall, At
  <2>3. t \in Thread => /\ Refused(t)' <=> Refused(t)
                        /\ th[t].pc # "overflow_reset"
                        /\ th'[t].pc # "overflow_reset"
                        /\ Unrefused(t)'
    BY <1>3, ThreadTyped, Kinds
    DEF ThreadState, Flow, ThreadFlow, Returns, Loss, Counted, Unrefused, Refused, Reporting,
        Storing, Resending, SendLog, MayCall, At
  <2>4. th'[t].pc # "ended"
    BY <1>3, ThreadTyped, Kinds
    DEF ThreadState, Flow, ThreadFlow, Returns, Reporting,
        Storing, Resending, HousekeeperFlow, All,
        SendLog, MayCall, At
  <2>. QED BY <2>1, <2>2, <2>3, <2>4, Kinds, LossKept
<1>4. CASE Exit(t)
  BY <1>4, ExitLoss, Kinds
<1>. QED BY <1>1, <1>2, <1>3, <1>4 DEF ApplicationCalls

LEMMA NextLoss ==
  ASSUME Typed, Flow, Exiting, Located, Loss, [Next]_vars
  PROVE  Loss'
<1>1. CASE Housekeep
  <2>1. /\ UNCHANGED <<discarded, reported, overflow_counter, bound>>
        /\ UNCHANGED <<lost, startup_buffer>>
    BY <1>1
    DEF external, limits, shared, history, Housekeep
  <2>2. \A v \in All \ {HK} : th'[v] = th[v]
    BY <1>1, ThreadTyped DEF ThreadState, Housekeep, At, Goto
  <2>3. th'[HK].pc # "ended"
    BY <1>1, ThreadTyped, Kinds DEF ThreadState, Housekeep, At, Goto
  <2>. QED BY <2>1, <2>2, <2>3, Kinds, LossKept
<1>2. CASE TryFlush
  <2>1. /\ UNCHANGED <<discarded, reported, overflow_counter, bound>>
        /\ UNCHANGED <<lost, startup_buffer>>
    BY <1>2
    DEF external, limits, shared, history, TryFlush
  <2>2. \A v \in All \ {HK} : th'[v] = th[v]
    BY <1>2, ThreadTyped DEF ThreadState, TryFlush, At, CallResend, Finish, Enter, Idle
  <2>3. th'[HK].pc # "ended"
    BY <1>2, ThreadTyped, Kinds DEF ThreadState, TryFlush, At, CallResend, Finish, Enter, Idle
  <2>. QED BY <2>1, <2>2, <2>3, Kinds, LossKept
<1>3. CASE Flushed
  <2>1. /\ UNCHANGED <<discarded, reported, overflow_counter, bound>>
        /\ UNCHANGED <<lost, startup_buffer>>
    BY <1>3
    DEF external, limits, shared, history, Flushed
  <2>2. \A v \in All \ {HK} : th'[v] = th[v]
    BY <1>3, ThreadTyped DEF ThreadState, Flushed, At, Finish, Enter, Idle, Signal
  <2>3. th'[HK].pc # "ended"
    BY <1>3, ThreadTyped, Kinds DEF ThreadState, Flushed, At, Finish, Enter, Idle, Signal
  <2>. QED BY <2>1, <2>2, <2>3, Kinds, LossKept
<1>4. ASSUME UNCHANGED <<th, lost, bound, startup_buffer>>,
             UNCHANGED <<discarded, reported, overflow_counter>>
      PROVE  Loss'
  <2>1. NoMoreThanLost' /\ EndsAtExit'
    BY <1>4 DEF Loss, NoMoreThanLost, StoredLogs, EndsAtExit, At
  <2>2. Counted'
    BY <1>4 DEF Loss, Counted, Unrefused, Refused, Pending, At, Alone, Once
  <2>. QED BY <2>1, <2>2 DEF Loss
<1>5. ASSUME NEW b \in BOOLEAN, SetBlockMode(b)
      PROVE  Loss'
  BY <1>4, <1>5 DEF SetBlockMode, history
<1>6. CASE DaemonReads \/ DaemonCrashes \/ DaemonStarts
  BY <1>4, <1>6
  DEF DaemonReads, DaemonCrashes, DaemonStarts, external, limits, shared, history
<1>7. CASE UNCHANGED vars
  BY <1>4, <1>7 DEF vars, external, limits, shared, history
<1>8. ASSUME NEW t \in All, Continues(t)
      PROVE  Loss'
  BY <1>8, ContinuesLoss
<1>9. ASSUME NEW t \in Thread, ApplicationCalls(t)
      PROVE  Loss'
  BY <1>9, CallsLoss
<1>. QED
  BY <1>1, <1>2, <1>3, <1>5, <1>6, <1>7, <1>8, <1>9, Kinds
  DEF Next, Housekeeper

LEMMA FirstLoss ==
  ASSUME Init, Typed
  PROVE  Loss
<1>1. /\ discarded = {} /\ reported = 0 /\ overflow_counter = 0 /\ lost = None
      /\ \A t \in All : th[t].pc = "idle"
  BY Kinds DEF Init, Idle
<1>2. \A t \in Thread : Unrefused(t) /\ ~Refused(t) /\ Pending(t) = 0
  BY <1>1, Kinds DEF Unrefused, Refused, Pending, At
<1>3. \A t \in Thread : Once(Refused(t)) = 0
  BY <1>2 DEF Once
<1>4. IsFiniteSet(discarded) /\ Cardinality(discarded) = 0
  BY <1>1, FS_EmptySet
<1>. QED
  BY <1>1, <1>2, <1>3, <1>4, Kinds
  DEF Loss, Counted, NoMoreThanLost, EndsAtExit, At

(* A thread that is alone and in no call: the daemon has been told of, or  *)
(* the counter still holds, exactly the messages that the full buffer      *)
(* refused.  And what the startup buffer still holds when the process has  *)
(* ended is not more than mct_user_atexit_handler has counted as lost.     *)
THEOREM LossIsCountedCorrect == Spec => []LossIsCounted
<1>1. Init => IInv /\ Loss
  BY FirstTyped, FirstLocated, FirstLoss DEF IInv
<1>2. (IInv /\ Loss) /\ [Next]_vars => (IInv /\ Loss)'
  BY NextTyped, NextFlow, NextExiting, NextLocated, NextLoss DEF IInv
<1>3. IInv /\ Loss => LossIsCounted
  <2>1. SUFFICES ASSUME IInv, Loss PROVE LossIsCounted
    OBVIOUS
  <2>2. ASSUME NEW t \in Thread, Alone(t), At(t, "idle")
        PROVE  reported + overflow_counter = Cardinality(discarded)
    <3>1. ~Refused(t) /\ Pending(t) = overflow_counter
      BY <2>2 DEF Refused, Pending, At
    <3>2. Once(Refused(t)) = 0 /\ reported \in Nat /\ overflow_counter \in Nat
      BY <2>1, <3>1 DEF Once, IInv, Typed, TypeOK
    <3>3. reported + Pending(t) + Once(Refused(t)) = Cardinality(discarded)
      BY <2>1, <2>2 DEF Loss, Counted
    <3>. QED BY <3>1, <3>2, <3>3
  <2>3. ASSUME At(HK, "ended")
        PROVE  Cardinality({m \in Logged : Copies(startup_buffer, m) > 0}) <= lost
    <3>. DEFINE L == {m \in Logged : Copies(startup_buffer, m) > 0}
    <3>1. Typed /\ lost # None /\ lost \in Nat /\ Cardinality(StoredLogs) <= lost
      BY <2>1, <2>3 DEF IInv, Loss, EndsAtExit, NoMoreThanLost, Typed, TypeOK
    <3>2. ASSUME NEW m \in L
          PROVE  m \in StoredLogs
      <4>1. PICK t \in Thread : \E n \in 1 .. logs[t] : m = Log(t, n)
        BY DEF Logged
      <4>2. m \in LogMessage
        BY <3>1, <4>1, LogMessages DEF Typed
      <4>3. {i \in DOMAIN startup_buffer : startup_buffer[i] = m} # {}
        BY FS_EmptySet DEF Copies
      <4>. QED BY <4>2, <4>3 DEF StoredLogs
    <3>3. /\ IsFiniteSet(StoredLogs) /\ Cardinality(StoredLogs) \in Nat
          /\ L \in SUBSET StoredLogs
      BY <3>1, <3>2, StoredLogsFinite
    <3>4. IsFiniteSet(L) /\ Cardinality(L) <= Cardinality(StoredLogs)
      BY <3>3, FS_Subset
    <3>5. Cardinality(L) \in Nat
      BY <3>4, FS_CardinalityType
    <3>. HIDE DEF L
    <3>6. Cardinality(L) <= lost
      BY <3>1, <3>3, <3>4, <3>5
    <3>. QED BY <3>6 DEF L
  <2>. QED BY <2>2, <2>3 DEF LossIsCounted
<1>. QED BY <1>1, <1>2, <1>3, PTL DEF Spec


-----------------------------------------------------------------------------
(* Waiting for room in blocking mode.                                      *)

(* flush_mutex is held across steps exactly while the housekeeper is busy, *)
(* which therefore never waits itself.                                     *)
HeldByIt == locked <=> th[HK].pc \notin {"idle", "ended"}
Locks == HeldByIt /\ th[HK].pc # "wait"

(* While a thread that is alone waits, nothing enters the buffer behind    *)
(* the housekeeper's count of what it flushes, and a flush that succeeds   *)
(* leaves the buffer empty, if there is an application id to send with.    *)
Emptied == registered => startup_buffer = <<>>
Flushing ==
  /\ buffer_full = 0 => At(HK, "idle") /\ buffer_empty = 1 /\ Emptied
  /\ At(HK, "resend_next") => Len(startup_buffer) <= th[HK].count
  /\ At(HK, "flushed") /\ th[HK].res = "OK" => Emptied
Waits == \A t \in Thread : Alone(t) /\ At(t, "wait") => Flushing
Blocking == Locks /\ Waits

(* The calls that the housekeeper makes while it holds flush_mutex.        *)
HousekeeperCalls ==
  \/ CheckSize(HK) \/ Store(HK) \/ Resend(HK) \/ ResendNext(HK) \/ ResendDone(HK)
  \/ Attach(HK) \/ RegisterAgain(HK) \/ ContextAgain(HK) \/ ContextsDone(HK)

LEMMA HousekeeperContinues ==
  ASSUME Flow, Locks, Continues(HK)
  PROVE  HousekeeperCalls
<1>1. th[HK].pc \in {"attach", "again", "contexts", "check", "mode", "block", "push", "flag",
                     "resend", "resend_next"} \/ th[HK].pc \in {"idle", "try", "flushed", "ended"}
  BY DEF Flow, HousekeeperFlow, Locks, Storing, Resending
<1>2. ~Block(HK) /\ ~Flag(HK) /\ ~Wake(HK)
  BY DEF Locks, HeldByIt, Block, Flag, Wake, LockFree, At
<1>. QED
  BY <1>1, <1>2
  DEF Continues, HousekeeperCalls, At, SendOverflow, OverflowReset, SendOld, SendNew,
      MarkEmpty, OutNew, Sent, Stored, SendRegister, RegisterRefused, Registered,
      RegisterDone, Forget, ExitTries, ExitTimeout, ExitOverflow, ExitResend,
      ExitResent, ExitUnregister, Stop

(* What they do to the housekeeper, and that it keeps the lock.            *)
LEMMA HousekeeperCallsEffect ==
  ASSUME Typed, Flow, Locks, HousekeeperCalls
  PROVE  /\ UNCHANGED <<locked, registered, buffer_full, buffer_empty, bound>>
         /\ \A t \in Thread : th'[t] = th[t]
         /\ th[HK].pc \notin {"idle", "ended"}
         /\ th'[HK].pc \notin {"idle", "ended", "wait"}
         /\ th'[HK].pc = "resend_next" =>
              \/ Len(startup_buffer') <= th'[HK].count
              \/ /\ ResendNext(HK) /\ out3 = "OK"
                 /\ th'[HK].count = th[HK].count - 1
         /\ th'[HK].pc = "flushed" =>
              \/ th'[HK].res # "OK"
              \/ ~registered
              \/ ResendDone(HK)
<1>1. CASE CheckSize(HK) \/ Store(HK)
  BY <1>1, ThreadTyped, Kinds
  DEF ThreadState, All, CheckSize, Store, At, Goto, external, limits, shared
<1>2. CASE Attach(HK) \/ RegisterAgain(HK) \/ ContextAgain(HK) \/ ContextsDone(HK)
  BY <1>2, ThreadTyped, Kinds
  DEF ThreadState, All, Attach, Attached, RegisterAgain, ContextAgain, ContextsDone,
      CallStore, Goto, At, external, limits, shared
<1>3. CASE Resend(HK) \/ ResendDone(HK)
  BY <1>3, ThreadTyped, Kinds
  DEF ThreadState, All, Flow, HousekeeperFlow, Resending, Resend, ResendDone, Return,
      At, external, limits, shared, Typed, TypeOK
<1>4. CASE ResendNext(HK)
  BY <1>4, ThreadTyped, Kinds
  DEF ThreadState, All, Flow, HousekeeperFlow, Resending, ResendNext, Return,
      At, external, limits
<1>. QED BY <1>1, <1>2, <1>3, <1>4 DEF HousekeeperCalls

(* A call of a thread leaves the housekeeper and its lock alone, unless it *)
(* ends the process.                                                       *)
LEMMA ContinuesLocks ==
  ASSUME Typed, Locks, NEW t \in Thread, Continues(t)
  PROVE  Locks'
<1>. USE ThreadTyped, Kinds
<1>1. CASE \/ SendOverflow(t) \/ OverflowReset(t) \/ SendOld(t) \/ SendNew(t)
           \/ MarkEmpty(t) \/ OutNew(t) \/ Sent(t) \/ Stored(t)
  <2>1. th'[HK] = th[HK] /\ locked' = locked
    BY <1>1
    DEF ThreadState, All, SendOverflow, OverflowReset, SendOld, SendNew, MarkEmpty,
        OutNew, Sent, Stored, CallResend, CallStore, Goto, Finish, Enter, At, shared
  <2>. QED BY <2>1 DEF Locks, HeldByIt
<1>2. CASE \/ SendRegister(t) \/ RegisterRefused(t) \/ Registered(t)
           \/ RegisterDone(t) \/ Forget(t) \/ CheckSize(t) \/ Block(t) \/ Wake(t)
           \/ Store(t) \/ Flag(t)
  <2>1. th'[HK] = th[HK] /\ locked' = locked
    BY <1>2
    DEF ThreadState, All, SendRegister, RegisterRefused, Registered, RegisterDone,
        Forget, CheckSize, Block, Wake, Store, Flag,
        CallResend, CallStore, Goto, Finish, Enter, Return, At, shared
  <2>. QED BY <2>1 DEF Locks, HeldByIt
<1>3. CASE \/ Resend(t) \/ ResendNext(t) \/ ResendDone(t) \/ Attach(t)
           \/ RegisterAgain(t) \/ ContextAgain(t) \/ ContextsDone(t)
  <2>1. th'[HK] = th[HK] /\ locked' = locked
    BY <1>3
    DEF ThreadState, All, Resend, ResendNext, ResendDone, Attach, RegisterAgain,
        ContextAgain, ContextsDone, CallStore, Goto, Return, At, shared
  <2>. QED BY <2>1 DEF Locks, HeldByIt
<1>4. CASE \/ ExitTries(t) \/ ExitTimeout(t) \/ ExitOverflow(t) \/ ExitResend(t)
           \/ ExitResent(t) \/ ExitUnregister(t)
  <2>1. th'[HK] = th[HK] /\ locked' = locked
    BY <1>4
    DEF ThreadState, All, ExitTries, ExitTimeout, ExitOverflow, ExitResend,
        ExitResent, ExitUnregister, SendUnregister, CallResend, CallStore, Goto,
        Enter, At, shared
  <2>. QED BY <2>1 DEF Locks, HeldByIt
<1>5. CASE Stop(t)
  BY <1>5 DEF Stop, Locks, HeldByIt, Idle
<1>. QED BY <1>1, <1>2, <1>3, <1>4, <1>5 DEF Continues

LEMMA NextLocks ==
  ASSUME Typed, Flow, Locks, [Next]_vars
  PROVE  Locks'
<1>1. CASE Housekeep \/ TryFlush \/ Flushed
  BY <1>1, ThreadTyped, Kinds
  DEF ThreadState, All, Locks, HeldByIt, Housekeep, TryFlush, Flushed, CallResend,
      Goto, Finish, Enter, Idle, At
<1>2. CASE Continues(HK)
  BY <1>2, HousekeeperContinues, HousekeeperCallsEffect DEF Locks, HeldByIt
<1>3. ASSUME NEW t \in Thread, Continues(t)
      PROVE  Locks'
  BY <1>3, ContinuesLocks
<1>4. ASSUME NEW t \in Thread, ApplicationCalls(t)
      PROVE  Locks'
  <2>1. th'[HK] = th[HK] /\ locked' = locked
    BY <1>4, ThreadTyped, Kinds
    DEF ThreadState, All, ApplicationCalls, SendLog, Register, Unregister, Exit,
        SendUnregister, CallStore, Goto, MayCall, At, shared
  <2>. QED BY <2>1 DEF Locks, HeldByIt
<1>5. CASE \/ DaemonReads \/ DaemonCrashes \/ DaemonStarts
           \/ \E b \in BOOLEAN : SetBlockMode(b)
  BY <1>5
  DEF DaemonReads, DaemonCrashes, DaemonStarts, SetBlockMode, shared, Locks, HeldByIt
<1>6. CASE UNCHANGED vars
  BY <1>6 DEF vars, shared, Locks, HeldByIt
<1>. QED BY <1>1, <1>2, <1>3, <1>4, <1>5, <1>6 DEF Next, Housekeeper

(* A thread begins to wait in one place only.                              *)
LEMMA BeginsToWait ==
  ASSUME Typed, Flow, NEW t \in Thread, Continues(t), th[t].pc # "wait"
  PROVE  th'[t].pc = "wait" => Block(t)
<1>. USE ThreadTyped, Kinds
<1>1. CASE \/ SendOverflow(t) \/ OverflowReset(t) \/ SendOld(t) \/ SendNew(t)
           \/ MarkEmpty(t) \/ OutNew(t) \/ Sent(t) \/ Stored(t)
  BY <1>1
  DEF ThreadState, All, Flow, ThreadFlow, Returns, Reporting,
      SendOverflow, OverflowReset, SendOld, SendNew, MarkEmpty, OutNew, Sent, Stored,
      CallResend, CallStore, Goto, Finish, Enter, Idle, At
<1>2. CASE \/ SendRegister(t) \/ RegisterRefused(t) \/ Registered(t)
           \/ RegisterDone(t) \/ Forget(t) \/ CheckSize(t) \/ Store(t) \/ Flag(t)
  BY <1>2
  DEF ThreadState, All, Flow, ThreadFlow, Returns, Storing,
      SendRegister, RegisterRefused, Registered, RegisterDone, Forget, CheckSize,
      Store, Flag, CallResend, CallStore, Goto, Finish, Enter, Idle, At
<1>3. CASE \/ Resend(t) \/ ResendNext(t) \/ ResendDone(t) \/ Attach(t)
           \/ RegisterAgain(t) \/ ContextAgain(t) \/ ContextsDone(t)
  BY <1>3
  DEF ThreadState, All, Flow, ThreadFlow, Returns, Resending,
      Resend, ResendNext, ResendDone, Attach, Attached, RegisterAgain, ContextAgain,
      ContextsDone, CallStore, Goto, Return, At
<1>4. CASE \/ ExitTries(t) \/ ExitTimeout(t) \/ ExitOverflow(t) \/ ExitResend(t)
           \/ ExitResent(t) \/ ExitUnregister(t) \/ Stop(t)
  BY <1>4
  DEF ThreadState, All, ExitTries, ExitTimeout, ExitOverflow, ExitResend, ExitResent,
      ExitUnregister, SendUnregister, Stop, CallResend, CallStore, Goto, Enter, Idle, At
<1>5. CASE Wake(t)
  BY <1>5 DEF Wake, At
<1>. QED BY <1>1, <1>2, <1>3, <1>4, <1>5 DEF Continues

(* While it waits, it can only wake up.                                    *)
LEMMA OnlyWakes ==
  ASSUME NEW t \in Thread, Continues(t), th[t].pc = "wait"
  PROVE  Wake(t)
BY DEF Continues, At, SendOverflow, OverflowReset, SendOld, SendNew, MarkEmpty, OutNew,
  Sent, Stored, SendRegister, RegisterRefused, Registered, RegisterDone, Forget,
  CheckSize, Block, Store, Flag, Resend, ResendNext, ResendDone, Attach, RegisterAgain,
  ContextAgain, ContextsDone, ExitTries, ExitTimeout, ExitOverflow, ExitResend,
  ExitResent, ExitUnregister, Stop

(* A thread that is alone is the only one that is in a call.               *)
LEMMA OnlyOne ==
  ASSUME Flow, NEW t \in Thread, Alone(t), NEW u \in Thread, Continues(u)
  PROVE  u = t
<1>1. u # t => th[u].pc \in {"idle", "ended"}
  BY DEF Flow, ThreadFlow, Alone
<1>. QED
  BY <1>1
  DEF Continues, At, SendOverflow, OverflowReset, SendOld, SendNew, MarkEmpty, OutNew,
  Sent, Stored, SendRegister, RegisterRefused, Registered, RegisterDone, Forget,
  CheckSize, Block, Wake, Store, Flag, Resend, ResendNext, ResendDone, Attach, RegisterAgain,
  ContextAgain, ContextsDone, ExitTries, ExitTimeout, ExitOverflow, ExitResend,
  ExitResent, ExitUnregister, Stop

(* The steps of the housekeeper while a thread that is alone waits.        *)
LEMMA HousekeeperFlushing ==
  ASSUME Typed, Flow, Locks, Flushing, Housekeeper
  PROVE  Flushing'
<1>1. CASE Housekeep
  BY <1>1, ThreadTyped, Kinds
  DEF ThreadState, Flushing, Emptied, Housekeep, Goto, At, external, Typed, TypeOK
<1>2. CASE TryFlush
  BY <1>2, ThreadTyped, Kinds
  DEF ThreadState, Flushing, Emptied, TryFlush, CallResend, Finish, Enter, Idle, At
<1>3. CASE Flushed
  <2>1. th'[HK].pc = "idle"
    BY <1>3, ThreadTyped, Kinds DEF ThreadState, Flushed, Finish, Enter, Idle
  <2>2. UNCHANGED <<registered, startup_buffer>> /\ buffer_full # 0
    BY <1>3 DEF Flushed, Flushing, At
  <2>3. CASE th[HK].res = "OK"
    <3>1. buffer_empty' = 1 /\ Emptied'
      BY <1>3, <2>2, <2>3 DEF Flushed, Flushing, Emptied
    <3>. QED BY <2>1, <3>1 DEF Flushing, At
  <2>4. CASE th[HK].res # "OK"
    <3>1. buffer_full' = buffer_full
      BY <1>3, <2>4 DEF Flushed
    <3>. QED BY <2>1, <2>2, <3>1 DEF Flushing, At
  <2>. QED BY <2>3, <2>4
<1>4. CASE Continues(HK)
  <2>1. HousekeeperCalls
    BY <1>4, HousekeeperContinues
  <2>2. /\ buffer_full' # 0 /\ registered' = registered
        /\ Len(startup_buffer) \in Nat /\ th[HK].count \in Nat
    BY <2>1, HousekeeperCallsEffect, ThreadTyped, Kinds
    DEF ThreadState, Flushing, At, Typed, TypeOK
  <2>3. th'[HK].pc = "resend_next" => Len(startup_buffer') <= th'[HK].count
    <3>1. CASE ResendNext(HK) /\ out3 = "OK" /\ th'[HK].count = th[HK].count - 1
      <4>1. startup_buffer' = Tail(startup_buffer) /\ startup_buffer # <<>>
        BY <3>1 DEF ResendNext, AfterSend
      <4>2. Len(startup_buffer') = Len(startup_buffer) - 1
        BY <4>1 DEF Typed, TypeOK
      <4>3. Len(startup_buffer) <= th[HK].count
        BY <3>1 DEF ResendNext, Flushing
      <4>. QED BY <2>2, <3>1, <4>2, <4>3
    <3>. QED BY <2>1, <3>1, HousekeeperCallsEffect
  <2>4. th'[HK].pc = "flushed" /\ th'[HK].res = "OK" => Emptied'
    <3>1. CASE ResendDone(HK)
      <4>1. UNCHANGED startup_buffer /\ At(HK, "resend_next")
        BY <3>1 DEF ResendDone, shared
      <4>2. startup_buffer = <<>>
        <5>1. Len(startup_buffer) <= th[HK].count
          BY <4>1 DEF Flushing
        <5>2. CASE th[HK].count = 0
          <6>1. Len(startup_buffer) = 0
            BY <2>2, <5>1, <5>2
          <6>. QED BY <6>1 DEF Typed, TypeOK
        <5>. QED BY <3>1, <5>2 DEF ResendDone
      <4>. QED BY <4>1, <4>2 DEF Emptied
    <3>2. CASE ~registered
      BY <2>2, <3>2 DEF Emptied
    <3>. QED BY <2>1, <3>1, <3>2, HousekeeperCallsEffect
  <2>. QED BY <2>2, <2>3, <2>4 DEF Flushing, At
<1>. QED BY <1>1, <1>2, <1>3, <1>4 DEF Housekeeper

(* The budget is chosen once.                                              *)
LEMMA BudgetKept ==
  ASSUME [Next]_vars
  PROVE  bound' = bound
<1>1. ASSUME NEW t \in All, Continues(t)
      PROVE  bound' = bound
  <2>. USE DEF external, limits
  <2>1. CASE \/ SendOverflow(t) \/ OverflowReset(t) \/ SendOld(t) \/ SendNew(t)
             \/ MarkEmpty(t) \/ OutNew(t) \/ Sent(t) \/ Stored(t)
    BY <2>1
    DEF SendOverflow, OverflowReset, SendOld, SendNew, MarkEmpty, OutNew, Sent, Stored
  <2>2. CASE \/ SendRegister(t) \/ RegisterRefused(t) \/ Registered(t)
             \/ RegisterDone(t) \/ Forget(t) \/ CheckSize(t) \/ Block(t) \/ Wake(t)
             \/ Store(t) \/ Flag(t)
    BY <2>2
    DEF SendRegister, RegisterRefused, Registered, RegisterDone, Forget, CheckSize,
        Block, Wake, Store, Flag
  <2>3. CASE \/ Resend(t) \/ ResendNext(t) \/ ResendDone(t) \/ Attach(t)
             \/ RegisterAgain(t) \/ ContextAgain(t) \/ ContextsDone(t)
    BY <2>3
    DEF Resend, ResendNext, ResendDone, Attach, RegisterAgain, ContextAgain, ContextsDone
  <2>4. CASE \/ ExitTries(t) \/ ExitTimeout(t) \/ ExitOverflow(t) \/ ExitResend(t)
             \/ ExitResent(t) \/ ExitUnregister(t) \/ Stop(t)
    BY <2>4
    DEF ExitTries, ExitTimeout, ExitOverflow, ExitResend, ExitResent, ExitUnregister,
        SendUnregister, Stop
  <2>. QED BY <1>1, <2>1, <2>2, <2>3, <2>4 DEF Continues
<1>2. CASE Housekeep \/ TryFlush \/ Flushed
  BY <1>2 DEF Housekeep, TryFlush, Flushed, external, limits
<1>3. ASSUME NEW t \in Thread, ApplicationCalls(t)
      PROVE  bound' = bound
  BY <1>3
  DEF ApplicationCalls, SendLog, Register, Unregister, SendUnregister, Exit, external,
      limits
<1>4. CASE DaemonReads \/ DaemonCrashes \/ DaemonStarts \/ \E b \in BOOLEAN : SetBlockMode(b)
  BY <1>4 DEF DaemonReads, DaemonCrashes, DaemonStarts, SetBlockMode, external, limits
<1>5. CASE UNCHANGED vars
  BY <1>5 DEF vars, external, limits
<1>. QED BY <1>1, <1>2, <1>3, <1>4, <1>5, Kinds DEF Next, Housekeeper

LEMMA NextWaits ==
  ASSUME Typed, Flow, Locks, Waits, [Next]_vars
  PROVE  Waits'
<1>. SUFFICES ASSUME NEW t \in Thread, Alone(t)', At(t, "wait")'
     PROVE  Flushing'
  BY DEF Waits
<1>1. Alone(t) /\ bound' = bound
  <2>1. bound' = bound
    BY BudgetKept
  <2>. QED BY <2>1 DEF Alone
<1>2. CASE UNCHANGED <<th, startup_buffer, registered, buffer_full, buffer_empty>>
  BY <1>1, <1>2 DEF Waits, Flushing, Emptied, At
<1>3. CASE \/ DaemonReads \/ DaemonCrashes \/ DaemonStarts
           \/ (\E b \in BOOLEAN : SetBlockMode(b)) \/ UNCHANGED vars
  BY <1>2, <1>3
  DEF DaemonReads, DaemonCrashes, DaemonStarts, SetBlockMode, shared, vars
<1>4. CASE Housekeeper
  <2>1. th'[t] = th[t]
    <3>1. CASE Continues(HK)
      BY <3>1, HousekeeperContinues, HousekeeperCallsEffect
    <3>2. CASE Housekeep \/ TryFlush \/ Flushed
      BY <3>2, ThreadTyped, Kinds
      DEF ThreadState, All, Housekeep, TryFlush, Flushed, CallResend, Goto, Finish, Enter
    <3>. QED BY <1>4, <3>1, <3>2 DEF Housekeeper
  <2>. QED BY <1>1, <1>4, <2>1, HousekeeperFlushing DEF Waits, At
<1>5. ASSUME NEW u \in Thread, Continues(u)
      PROVE  Flushing'
  <2>1. Continues(t)
    BY <1>1, <1>5, OnlyOne
  <2>2. CASE th[t].pc = "wait"
    <3>1. Wake(t) /\ t \in All
      BY <2>1, <2>2, OnlyWakes, Kinds
    <3>2. StillFull
      <4>1. ~StillFull => th'[t].pc = th[t].back
        BY <3>1, ThreadTyped DEF ThreadState, Wake, Return
      <4>2. th[t].back # "wait"
        BY <2>2 DEF Flow, ThreadFlow, Returns, Storing
      <4>. QED BY <4>1, <4>2 DEF At
    <3>. QED BY <1>2, <3>1, <3>2 DEF Wake
  <2>3. CASE th[t].pc # "wait"
    <3>1. Block(t)
      BY <2>1, <2>3, BeginsToWait DEF At
    <3>2. th'[HK] = th[HK]
      BY <3>1, ThreadTyped, Kinds DEF ThreadState, All, Block, Goto
    <3>. QED BY <3>1, <3>2 DEF Block, LockFree, Locks, HeldByIt, Flushing, At
  <2>. QED BY <2>2, <2>3
<1>6. ASSUME NEW u \in Thread, ApplicationCalls(u)
      PROVE  Flushing'
  <2>1. u \in bound.threads /\ th[u].pc = "idle" /\ u = t
    BY <1>1, <1>6
    DEF ApplicationCalls, SendLog, Register, Unregister, Exit, MayCall, At, Alone
  <2>2. th'[t].pc # "wait"
    BY <1>6, <2>1, ThreadTyped, Kinds
    DEF ThreadState, All, ApplicationCalls, SendLog, Register, Unregister, Exit,
        SendUnregister, CallStore, Goto
  <2>. QED BY <2>2 DEF At
<1>. QED BY <1>3, <1>4, <1>5, <1>6 DEF Next

(* The message of a thread that waits has not been refused yet.            *)
LEMMA NotYetRefused ==
  ASSUME IInv, NEW t \in Thread, Alone(t), At(t, "wait")
  PROVE  th[t].msg \notin discarded
<1>. DEFINE m == th[t].msg
<1>1. CASE ~InLog(t)
  BY <1>1 DEF IInv, Typed, Flow, ThreadFlow
<1>2. CASE InLog(t)
  <2>1. m = Log(t, logs[t]) /\ logs[t] \in Nat /\ logs[t] > 0
    BY <1>2 DEF IInv, Typed, Flow, ThreadFlow
  <2>2. m \in LogMessage /\ m.from = t /\ m.n = logs[t]
    BY <2>1 DEF Log, LogMessage
  <2>3. Places(m) = 1 \/ Places(m) = 0
    BY <1>2, <2>1, <2>2 DEF IInv, Located, Accounted, Unraced, Expected
  <2>4. InHand(m)
    BY <2>2 DEF InHand, At
  <2>5. TimesWritten(m) \in Nat /\ Copies(startup_buffer, m) \in Nat
    BY <2>2, CopiesNat DEF IInv, Typed, TypeOK, TimesWritten, Written
  <2>6. Once(InHand(m)) = 1 /\ (m \in discarded => Once(m \in discarded) = 1)
    BY <2>4 DEF Once
  <2>. QED BY <2>3, <2>5, <2>6 DEF Places
<1>. QED BY <1>1, <1>2

(* Only pushing a message can refuse one.                                  *)
LEMMA RefusesWhenPushing ==
  ASSUME [Next]_vars, discarded' # discarded
  PROVE  \E u \in All : Store(u) \/ Wake(u)
<1>1. ASSUME NEW u \in All, Continues(u)
      PROVE  Store(u) \/ Wake(u)
  <2>. USE DEF history
  <2>1. CASE \/ SendOverflow(u) \/ OverflowReset(u) \/ SendOld(u) \/ SendNew(u)
             \/ MarkEmpty(u) \/ OutNew(u) \/ Sent(u) \/ Stored(u)
    BY <2>1
    DEF SendOverflow, OverflowReset, SendOld, SendNew, MarkEmpty, OutNew, Sent, Stored
  <2>2. CASE \/ SendRegister(u) \/ RegisterRefused(u) \/ Registered(u)
             \/ RegisterDone(u) \/ Forget(u) \/ CheckSize(u) \/ Block(u) \/ Flag(u)
    BY <2>2
    DEF SendRegister, RegisterRefused, Registered, RegisterDone, Forget, CheckSize,
        Block, Flag
  <2>3. CASE \/ Resend(u) \/ ResendNext(u) \/ ResendDone(u) \/ Attach(u)
             \/ RegisterAgain(u) \/ ContextAgain(u) \/ ContextsDone(u)
    BY <2>3
    DEF Resend, ResendNext, ResendDone, Attach, RegisterAgain, ContextAgain, ContextsDone
  <2>4. CASE \/ ExitTries(u) \/ ExitTimeout(u) \/ ExitOverflow(u) \/ ExitResend(u)
             \/ ExitResent(u) \/ ExitUnregister(u) \/ Stop(u)
    BY <2>4
    DEF ExitTries, ExitTimeout, ExitOverflow, ExitResend, ExitResent, ExitUnregister,
        SendUnregister, Stop
  <2>. QED BY <1>1, <2>1, <2>2, <2>3, <2>4 DEF Continues
<1>2. ~(Housekeep \/ TryFlush \/ Flushed)
  BY DEF Housekeep, TryFlush, Flushed, history
<1>3. ASSUME NEW u \in Thread
      PROVE  ~ApplicationCalls(u)
  BY DEF ApplicationCalls, SendLog, Register, Unregister, SendUnregister, Exit, history
<1>4. ~(DaemonReads \/ DaemonCrashes \/ DaemonStarts \/ \E b \in BOOLEAN : SetBlockMode(b))
  BY DEF DaemonReads, DaemonCrashes, DaemonStarts, SetBlockMode, history
<1>5. ~UNCHANGED vars
  BY DEF vars, history
<1>. QED BY <1>1, <1>2, <1>3, <1>4, <1>5, Kinds DEF Next, Housekeeper

(* A thread that is alone and waits for room gets it, once the application *)
(* is registered: the housekeeper has emptied the buffer, and nothing has  *)
(* come into it since (mct_user_log_out_error_handling).                   *)
THEOREM BlockingKeepsCorrect == Spec => BlockingKeeps
<1>. DEFINE I == IInv /\ Blocking
            Keeps == \A t \in Thread : Alone(t) /\ At(t, "wait") /\ registered
                                         => th[t].msg \notin discarded'
<1>1. Init => I
  <2>. SUFFICES ASSUME Init PROVE I
    OBVIOUS
  <2>1. IInv
    BY FirstTyped, FirstLocated DEF IInv
  <2>2. \A t \in All : th[t].pc = "idle"
    BY DEF Init, Idle
  <2>3. Blocking
    BY <2>2, Kinds DEF Init, Blocking, Locks, HeldByIt, Waits, At
  <2>. QED BY <2>1, <2>3
<1>2. I /\ [Next]_vars => I'
  BY NextTyped, NextFlow, NextExiting, NextLocated, NextLocks, NextWaits DEF IInv, Blocking
<1>3. I /\ [Next]_vars => Keeps
  <2>. SUFFICES ASSUME I, [Next]_vars, NEW t \in Thread, Alone(t), At(t, "wait"), registered
       PROVE  th[t].msg \notin discarded'
    OBVIOUS
  <2>1. th[t].msg \notin discarded
    BY NotYetRefused
  <2>2. ASSUME discarded' # discarded
        PROVE  FALSE
    <3>1. PICK u \in All : Store(u) \/ Wake(u)
      BY <2>2, RefusesWhenPushing
    <3>2. u # HK
      <4>1. th[HK].msg.op # "log" /\ th[HK].pc # "wait"
        BY DEF IInv, Flow, HousekeeperFlow, Blocking, Locks
      <4>. QED BY <2>2, <3>1, <4>1 DEF Store, Wake, Push, At
    <3>3. u = t
      <4>1. u \in Thread /\ th[u].pc \in {"push", "wait"}
        BY <3>1, <3>2 DEF All, Store, Wake, At
      <4>. QED BY <4>1 DEF IInv, Flow, ThreadFlow, Alone
    <3>4. Wake(t) /\ ~StillFull
      BY <2>2, <3>1, <3>3 DEF Wake, Store, At
    <3>5. buffer_full = 0
      BY <3>4 DEF StillFull, IInv, Typed, TypeOK
    <3>6. startup_buffer = <<>>
      BY <3>5 DEF Blocking, Waits, Flushing, Emptied
    <3>7. ~Full
      BY <3>6, UserLibAssumption DEF Full
    <3>. QED BY <2>2, <3>4, <3>7 DEF Wake, Push
  <2>. QED BY <2>1, <2>2
<1>. QED BY <1>1, <1>2, <1>3, PTL DEF Spec, BlockingKeeps
=============================================================================
