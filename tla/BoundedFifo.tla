---------------------------- MODULE BoundedFifo ----------------------------
(***************************************************************************)
(* What the users of mct_buffer_push3, mct_buffer_copy, mct_buffer_pull    *)
(* and mct_buffer_remove rely on: a queue of whole messages.  A push       *)
(* either appends the message or reports an error and changes nothing, and *)
(* it is never refused by an empty buffer; a get hands out the oldest      *)
(* message, and reports an error exactly when there is none.               *)
(***************************************************************************)
EXTENDS Sequences

CONSTANTS Msg,    \* the messages
          NoMsg   \* what a failed get returns

VARIABLES queue,  \* the accepted messages that have not been removed
          last    \* the last call and what it returned

vars == <<queue, last>>

Result(op, m, ok) == [op |-> op, msg |-> m, ok |-> ok]

Init == /\ queue = <<>>
        /\ last = Result("init", NoMsg, TRUE)

Accept(m) == /\ queue' = Append(queue, m)
             /\ last' = Result("push", m, TRUE)

Refuse(m) == /\ queue # <<>>
             /\ last' = Result("push", m, FALSE)
             /\ UNCHANGED queue

Copy == /\ queue # <<>>
        /\ last' = Result("copy", Head(queue), TRUE)
        /\ UNCHANGED queue

Remove == /\ queue # <<>>
          /\ last' = Result("remove", Head(queue), TRUE)
          /\ queue' = Tail(queue)

Nothing == /\ queue = <<>>
           /\ \E op \in {"copy", "remove"} : last' = Result(op, NoMsg, FALSE)
           /\ UNCHANGED queue

Next == \/ \E m \in Msg : Accept(m) \/ Refuse(m)
        \/ Copy \/ Remove \/ Nothing

Spec == Init /\ [][Next]_vars
=============================================================================
