----------------------------- MODULE Receiver -----------------------------
(***************************************************************************)
(* MctReceiver: the buffer through which the daemon reads the FIFO of its  *)
(* applications and a client reads its connection, and mct_message_read,   *)
(* which finds a log message at the front of it.                           *)
(*                                                                         *)
(* Bytes are followed by where they come from: a stream is a sequence of   *)
(* segments [m, a, b], the bytes a to b - 1 of message number m.  Message  *)
(* 0 is the serial header.  A segment that begins at byte 0 shows the      *)
(* pattern of a user header, one that begins behind the user header shows  *)
(* a standard header; no other bytes look like these.  (Payloads that      *)
(* imitate a header are left out, and so are headers cut in two: the       *)
(* kernel cuts a long write at a page.)                                    *)
(***************************************************************************)
EXTENDS Message

Segment(m, a, b) == [m |-> m, a |-> a, b |-> b]
Serial == Segment(0, 0, SerialHeader)
Bytes(s) == FoldLeft(LAMBDA n, x : n + (x.b - x.a), 0, s)

(* The bytes from .. to - 1 of a stream.                                   *)
Slice(s, from, to) ==
  LET cut(x, first) == Segment(x.m, x.a + Max({0, from - first}),
                               x.b - Max({0, first + (x.b - x.a) - to}))
  IN SelectSeq([i \in 1 .. Len(s) |-> cut(s[i], Bytes(SubSeq(s, 1, i - 1)))],
               LAMBDA x : x.a < x.b)

(* Two streams, one behind the other.                                      *)
Join(s, t) ==
  IF s # <<>> /\ t # <<>> /\ Last(s).m = t[1].m /\ Last(s).b = t[1].a
  THEN Front(s) \o <<[Last(s) EXCEPT !.b = t[1].b]>> \o Tail(t)
  ELSE s \o t

-----------------------------------------------------------------------------
(* r.buffer is the memory as the last read left it, r.off is buf - buffer, *)
(* r.n is bytesRcvd and r.backup is backup_buf, empty for NULL.            *)

(* mct_receiver_init                                                       *)
NewReceiver == [buffer |-> <<>>, off |-> 0, n |-> 0, backup |-> <<>>]
Content(r) == Slice(r.buffer, r.off, r.off + r.n)

(* mct_receiver_receive, when the read returns got; nothing when there was *)
(* no room.                                                                *)
Room(r, size) == size - r.n
(* Mutant: the bytes kept from the last read are overwritten.              *)
ReceiveOverwrites(r, got) ==
  [buffer |-> got, off |-> 0, backup |-> <<>>, n |-> Bytes(got)]
Receive(r, got) ==
  [buffer |-> Join(IF r.n # 0 /\ r.backup # <<>> THEN r.backup
                   ELSE Slice(r.buffer, 0, r.n), got),
   off |-> 0, backup |-> <<>>,
   n |-> IF got = <<>> THEN 0 ELSE r.n + Bytes(got)]

(* mct_receiver_remove                                                     *)
Removable(r, k) == k \in 1 .. r.n
Removed(r, k) ==
  IF Removable(r, k) THEN [r EXCEPT !.off = @ + k, !.n = @ - k]
  ELSE [r EXCEPT !.off = @ + r.n, !.n = 0]

(* mct_receiver_move_to_begin                                              *)
(* Mutant: what is left is taken to be at the start of the buffer.         *)
LeaveInPlace(r) == r
MoveToBegin(r) ==
  IF r.off # 0 /\ r.n # 0 THEN [r EXCEPT !.backup = Content(r)] ELSE r

(* mct_receiver_check_and_get with MCT_RCV_SKIP_HEADER: whether a message  *)
(* with k bytes behind its user header has arrived.                        *)
Gettable(r, k) == r.n >= UserHeader + k

-----------------------------------------------------------------------------
(* mct_message_read.  lens[m] is the number of bytes of message m from its *)
(* standard header on.                                                     *)

(* Where the serial header is looked for: at the front, or in resync mode  *)
(* anywhere.                                                               *)
SerialAt(s, resync) ==
  IF \E i \in DOMAIN s : s[i] = Serial /\ (resync \/ i = 1)
  THEN Bytes(SubSeq(s, 1, SelectInSeq(s, LAMBDA x : x = Serial) - 1))
  ELSE IF resync THEN Bytes(s) - SerialHeader + 1 ELSE 0

Read(st, size, content) == [st |-> st, size |-> size, content |-> content]
(* What is read of a message with len bytes at the front of s, behind      *)
(* serial bytes of a serial header.                                        *)
ReadHere(s, serial, len) ==
  IF Bytes(s) < 4 THEN Read("SIZE", 0, <<>>)
  ELSE IF len = 0 THEN Read("CONTENT", 0, <<>>)
  ELSE IF Bytes(s) < len THEN Read("SIZE", 0, <<>>)
  ELSE Read("OK", serial + len, Slice(s, 0, len))
ReadBehind(s, serial, lens) ==
  ReadHere(s, serial,
           IF s # <<>> /\ s[1].m # 0 /\ s[1].a = UserHeader THEN lens[s[1].m]
           ELSE 0)
ReadFrom(s, lens) ==
  IF s # <<>> /\ s[1] = Serial THEN ReadBehind(Tail(s), SerialHeader, lens)
  ELSE ReadBehind(s, 0, lens)
MessageRead(s, resync, lens) ==
  IF Bytes(s) < SerialHeader THEN Read("SIZE", 0, <<>>)
  ELSE ReadFrom(Slice(s, SerialAt(s, resync), Bytes(s)), lens)
=============================================================================
