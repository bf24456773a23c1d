---------------------------- MODULE OfflineTrace ----------------------------
(***************************************************************************)
(* The offline trace: every message goes to the current file; a new file   *)
(* starts when that one is full, and the oldest ones go until the others   *)
(* leave room for it.                                                      *)
(*                                                                         *)
(* A trace t is a record: its files, with name, time of the last write and *)
(* size; the name of the open one and the position in it; whether the      *)
(* directory can be written; the time in seconds.  c is its configuration  *)
(* [file_size, max_size, by_time].  As files of the same second may go in  *)
(* any order, an operation gives the set of traces that may come next.     *)
(*                                                                         *)
(* Left out: writes that fail in a file that is open.                      *)
(***************************************************************************)
EXTENDS Integers, FiniteSets, FiniteSetsExt

Closed == -1     \* ohandle: no file is open

TraceOff == [files |-> {}, open |-> Closed, pos |-> 0, writable |-> TRUE, now |-> 1]

(* mct_offline_trace_get_total_size                                        *)
TotalSize(files) == MapThenSumSet(LAMBDA x : x.size, files)

(* mct_offline_trace_check_size, with mct_offline_trace_delete_oldest_file *)
(* as often as it takes: what may be left.  With no file left to delete    *)
(* the loop ends too.                                                      *)
\* Mutant: the file that is to come is not allowed for.
RoomForAll(c) == c.max_size
Room(c) == c.max_size - c.file_size
Fit(c, files) == files = {} \/ TotalSize(files) <= Room(c)
Remaining(c, files) ==
  {rest \in SUBSET files :
     LET gone == files \ rest
     IN /\ \A x \in gone, y \in rest : x.time <= y.time
        /\ Fit(c, rest)
        /\ gone # {} => \E x \in gone : /\ \A y \in gone : y.time <= x.time
                                        /\ ~Fit(c, rest \cup {x})}

(* mct_offline_trace_create_new_file: a file of that name keeps what it    *)
(* holds, and is written from its start.                                   *)
NewName(c, t) ==
  IF c.by_time THEN t.now ELSE Max({x.name : x \in t.files} \cup {0}) + 1
CreateNewFile(c, t) ==
  LET n == NewName(c, t)
      known == \E x \in t.files : x.name = n
      new == [name |-> n, time |-> t.now, size |-> 0]
  IN IF ~t.writable /\ ~known THEN [t EXCEPT !.open = Closed]
     ELSE [t EXCEPT !.open = n, !.pos = 0,
                    !.files = IF known THEN @ ELSE @ \cup {new}]

Renewed(c, t) ==
  IF ~t.writable THEN {CreateNewFile(c, t)}
  ELSE {CreateNewFile(c, [t EXCEPT !.files = rest]) : rest \in Remaining(c, t.files)}

(* mct_offline_trace_init, and mct_offline_trace_write of n parts.  Once a *)
(* file could not be opened the trace has ended.                           *)
Begin(c, t) == Renewed(c, t)
Put(t, n) ==
  LET grown(x) == IF x.name # t.open THEN x
                  ELSE [x EXCEPT !.time = t.now, !.size = Max({@, t.pos + n})]
  IN IF t.open = Closed THEN t
     ELSE [t EXCEPT !.files = {grown(x) : x \in @}, !.pos = @ + n]
AddMessage(c, t, n) ==
  CASE t.open = Closed -> {t}
    [] t.open # Closed /\ t.pos + n < c.file_size -> {Put(t, n)}
    [] OTHER -> {Put(u, n) : u \in Renewed(c, t)}
=============================================================================
