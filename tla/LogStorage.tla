----------------------------- MODULE LogStorage -----------------------------
(***************************************************************************)
(* One log storage device of the daemon: filters that write log messages   *)
(* to a ring of numbered files, directly or through a cache.               *)
(*                                                                         *)
(* A step is one message, one request of the control client, or the end    *)
(* or crash of the daemon.  A message is a sequence of parts, the first of *)
(* which is its header; sizes and offsets count parts, a cache is an array *)
(* of parts, and a file is the sequence of the parts written to it.  The   *)
(* functions map one record S = [h, disk, total, mid, ret] to the next, as *)
(* they call each other in the code: the handle with its filters, the log  *)
(* files, the memory taken for caches, the directory as it is in the       *)
(* middle of a rotation, and the last return value.                        *)
(*                                                                         *)
(* Left out: time stamps in file names, the variant with one file and no   *)
(* index, failing allocations, fsync, the flag that keeps a message from   *)
(* the network.                                                            *)
(***************************************************************************)
EXTENDS LogStorageConfig, FiniteSetsExt

CONSTANTS
  Conf,        \* a sequence of [lines, maxcounter, messages, events]: a
               \* configuration file, the wrap around value, the messages to log
               \* under it, and a bound on requests, failures and restarts
  Name,        \* the names of log files
  CacheMax,    \* g_logstorage_cache_max
  MaxErrors,   \* MCT_OFFLINE_LOGSTORAGE_MAX_ERRORS
  Serials,     \* cached messages are numbered modulo this: more than a cache
               \* holds
  MaxWraps     \* bound: how often file numbers start again

ASSUME LogStorageAssumption ==
  {CacheMax, MaxErrors, Serials, MaxWraps} \subseteq Nat

(* A list of names is a list of identifiers or the wild card; a message has *)
(* an ECU, and an application and a context or neither of them.            *)
IsNames(v) == v # Absent /\ Absent \notin v /\ (v = {Wild} \/ Wild \notin v)
IdKeys == {"LogAppName", "ContextName"}
ASSUME ConfAssumption ==
  /\ Bad # Absent
  /\ \A n \in DOMAIN Conf :
       /\ Conf[n].lines \in Seq(Range(Conf[n].lines))
       /\ \A i \in DOMAIN Conf[n].lines :
            LET line == Conf[n].lines[i]
            IN line.k = "data" /\ line.key \in IdKeys =>
                 line.data = Bad \/ IsNames(line.data)
       /\ \A m \in Conf[n].messages :
            /\ m.ecu # Absent /\ (m.apid = Absent <=> m.ctid = Absent)
            /\ Wild \notin {m.apid, m.ctid}

VARIABLES conf, h, disk, total, events
vars == <<conf, h, disk, total, events>>

None == -1      \* no file, no index
Plain == 0      \* the file whose name has no index
Blank == <<0, 0, 0>>
NoCache == <<>>

-----------------------------------------------------------------------------
(* Filters, the handle, and the files of one name.                         *)

(* Auxiliary: serial counts the cached messages, and due are the accepted  *)
(* parts that are still to be written.                                     *)
NewFilter ==
  [working_file |-> None, wrap_id |-> 0, log |-> None, orphan |-> None,
   stream |-> "ok", write_offset |-> 0, skip |-> FALSE, cache |-> NoCache,
   offset |-> 0, wrap_around_cnt |-> 0, last_sync_offset |-> 0,
   end_sync_offset |-> 0, serial |-> 0, due |-> <<>>]

FiltersOf(n) == {f \in DOMAIN conf.list : conf.list[f].file_name = n}

NewestFile == [newest_file |-> None, wrap_id |-> 0]

(* files: numbered files, oldest first.  Auxiliary: gap, whether a file     *)
(* went that was not the oldest or one grew that was not the newest; torn, *)
(* the rotations that a crash cut short; mixed, whether, once the numbers  *)
(* started again, one did, a device that is gone had a filter fail to open *)
(* its file, or a control client made one go on to a file that the others  *)
(* do not know of; kept, whether a ring cache was synchronised and kept an *)
(* unwritten message to itself; miscut, whether a file was to be filled up *)
(* from the middle of a message on.                                        *)
NewDirectory == [files |-> <<>>, plain |-> <<>>, gap |-> FALSE, torn |-> 0,
                 mixed |-> FALSE, kept |-> FALSE, miscut |-> FALSE]

Disconnected ==
  [connected |-> FALSE, done |-> FALSE, reachable |-> TRUE, uconfig |-> FALSE,
   failed |-> FALSE, flt |-> <<>>,
   newest |-> [n \in Name |-> NewestFile],
   prepare_errors |-> 0, write_errors |-> 0]

(* conf: what mct_logstorage_load_config makes of a file, and which of its  *)
(* filters mct_logstorage_get_filter_config finds for a message; neither   *)
(* changes.                                                                *)
Read(c, n) ==
  LET st == StoreFilters(c.lines)
  IN [n |-> n, maxcounter |-> c.maxcounter, events |-> c.events,
      list |-> st.list, done |-> st.valid # -1,
      found |-> [m \in c.messages |-> Found(st.list, m)]]

Init ==
  /\ \E c \in DOMAIN Conf : conf = Read(Conf[c], c)
  /\ h = Disconnected
  /\ disk = [n \in Name |-> NewDirectory]
  /\ total = 0 /\ events = 0

State == [h |-> h, disk |-> disk, total |-> total, mid |-> {}, ret |-> 0]
Ret(S, r) == [S EXCEPT !.ret = r]
NameOf(S, f) == conf.list[f].file_name
Directory(S, f) == S.disk[NameOf(S, f)]

PlaceOf(d, idx) == SelectInSeq(d.files, LAMBDA x : x.idx = idx)
SizeOf(d, idx) ==
  IF idx = Plain THEN Len(d.plain) ELSE Len(d.files[PlaceOf(d, idx)].parts)
HasFile(d, idx) == idx = Plain \/ PlaceOf(d, idx) # 0

-----------------------------------------------------------------------------
(* The files.                                                              *)

MakesGap(files, idx) == Len(files) = 1 \/ Head(files).idx # idx

(* The file idx of a name goes; whoever has it open keeps what is no file. *)
RemoveFile(S, n, idx) ==
  LET size == SizeOf(S.disk[n], idx)
      orphaned(f) == /\ conf.list[f].file_name = n
                     /\ S.h.flt[f].log = idx /\ S.h.flt[f].orphan = None
  IN [S EXCEPT
        !.disk[n].gap = @ \/ MakesGap(S.disk[n].files, idx),
        !.disk[n].files = SelectSeq(@, LAMBDA x : x.idx # idx),
        !.h.flt = [f \in DOMAIN @ |->
                     IF orphaned(f) THEN [@[f] EXCEPT !.orphan = size] ELSE @[f]]]

Opened(S, f, idx) ==
  [S EXCEPT !.h.flt[f].log = idx, !.h.flt[f].orphan = None,
            !.h.flt[f].stream = "ok"]

(* An existing file of that number loses what it holds.                    *)
Create(S, f, idx) ==
  LET n == NameOf(S, f)
      lost == HasFile(S.disk[n], idx) /\ MakesGap(S.disk[n].files, idx)
  IN IF idx = Plain THEN Opened(S, f, idx)
     ELSE Opened([S EXCEPT !.disk[n].gap = @ \/ lost,
                           !.disk[n].files =
                             Append(SelectSeq(@, LAMBDA x : x.idx # idx),
                                    [idx |-> idx, parts |-> <<>>])], f, idx)

Close(S, f) == [S EXCEPT !.h.flt[f].log = None]

OnMsg(c) == c.sync \in {{}, {"ON_MSG"}}
Is(c, strategy) == strategy \in c.sync

(* A cache that is not written when it is full is a ring.                  *)
RingCache(c) ==
  ~OnMsg(c) /\ c.sync \cap {"ON_FILE_SIZE", "ON_SPECIFIC_SIZE"} = {}

(* What fwrite and fflush do.  On a device that is gone the first write    *)
(* fails only when it is flushed, and leaves the stream in error.          *)
Due(c, due, parts) ==
  LET new == IF RingCache(c) THEN SelectSeq(parts, LAMBDA x : x \in Range(due))
             ELSE parts
  IN IF IsPrefix(new, due) THEN SubSeq(due, Len(new) + 1, Len(due)) ELSE <<Blank>>
Write(S, f, parts) ==
  LET n == NameOf(S, f)
      fl == S.h.flt[f]
      S1 == [S EXCEPT !.h.flt[f].due = Due(conf.list[f], @, parts)]
      stored == [j \in DOMAIN parts |-> Tail(parts[j])]
      at == PlaceOf(S.disk[n], fl.log)
  IN CASE fl.stream # "ok" -> [S1 EXCEPT !.h.flt[f].stream = "error"]
       [] fl.stream = "ok" /\ fl.orphan # None ->
            [S EXCEPT !.h.flt[f].orphan = @ + Len(parts), !.disk[n].gap = TRUE]
       [] fl.stream = "ok" /\ fl.orphan = None /\ fl.log = Plain ->
            [S1 EXCEPT !.disk[n].plain = @ \o stored]
       [] OTHER -> [S1 EXCEPT !.disk[n].files[at].parts = @ \o stored,
                              !.disk[n].gap = @ \/ at # Len(S.disk[n].files)]

(* mct_logstorage_sort_file_name and mct_logstorage_rearrange_file_name:   *)
(* in the order of their numbers, or, when the largest number is in use,   *)
(* from behind the first gap on.                                           *)
Rearrange(sorted) ==
  LET gap == {i \in 2 .. Len(sorted) : sorted[i] - sorted[i - 1] # 1}
  IN IF sorted[1] # 1 \/ gap = {} THEN sorted
     ELSE SubSeq(sorted, Min(gap), Len(sorted)) \o SubSeq(sorted, 1, Min(gap) - 1)

(* mct_logstorage_storage_dir_info: u tells whether the caller knows how   *)
(* files are named; without a delimiter no numbered file is found.         *)
\* Mutant: the files are taken in the order of their numbers.
SortedOnly(S, f, u) ==
  IF ~u THEN <<>>
  ELSE SetToSortSeq({x.idx : x \in Range(Directory(S, f).files)}, <)
Records(S, f, u) ==
  LET sorted == SetToSortSeq({x.idx : x \in Range(Directory(S, f).files)}, <)
  IN CASE ~u -> <<>>
       [] u /\ Len(sorted) > 1 /\ Last(sorted) = conf.maxcounter ->
            Rearrange(sorted)
       [] OTHER -> sorted

(* mct_logstorage_open_log_file: a new file, and the oldest goes if there  *)
(* are too many.  In mid, what a crash leaves behind.                      *)
\* Mutant: a file that has reached its size is taken for one with room.
FitsIfFull(c, size, need, sync) ==
  IF sync THEN size <= c.file_size ELSE size <= c.file_size
Fits(c, size, need, sync) ==
  IF sync THEN size < c.file_size ELSE size + need <= c.file_size

\* Mutant: one file more.
NoMoreFilesLater(c, work) == c.overwrite = "DISCARD_NEW" /\ c.num_files < work
NoMoreFiles(c, work) == c.overwrite = "DISCARD_NEW" /\ c.num_files = work

LimitFiles(S, c, recs, count) ==
  LET n == c.file_name
      cut == [S.disk EXCEPT ![n].torn = @ + 1,
                ![n].mixed = @ \/ HasFile(S.disk[n], conf.maxcounter)]
  IN IF count > c.num_files
     THEN RemoveFile([S EXCEPT !.mid = @ \cup {cut}], n, Head(recs)) ELSE S
Kept(S) == [S EXCEPT !.mid = @ \cup {S.disk}]
Rotate(S, f, recs, work, found) ==
  LET c == conf.list[f]
      n == c.file_name
      wraps == work + 1 > conf.maxcounter
      idx == IF wraps THEN 1 ELSE work + 1
      replaces == (wraps \/ S.h.flt[f].wrap_id # 0) /\ HasFile(S.disk[n], idx)
      S1 == [S EXCEPT !.h.flt[f].wrap_id = IF wraps THEN @ + 1 ELSE @,
                      !.h.flt[f].working_file = idx,
                      !.ret = IF found THEN 0 ELSE -1]
  IN LimitFiles(Create(IF replaces THEN Kept(RemoveFile(S1, n, idx)) ELSE S1, f, idx),
                c, recs, IF replaces THEN Len(recs) ELSE Len(recs) + 1)

OpenWorking(S, f, recs, work, need, sync) ==
  LET c == conf.list[f]
      d == Directory(S, f)
      found == HasFile(d, work)
      S1 == [S EXCEPT !.h.flt[f].working_file = work]
  IN IF found /\ Fits(c, SizeOf(d, work), need, sync)
     THEN Ret([Opened(S1, f, work) EXCEPT
                 !.h.flt[f].write_offset = SizeOf(d, work)], 0)
     ELSE IF NoMoreFiles(c, work) THEN Ret([S1 EXCEPT !.h.flt[f].skip = TRUE], 0)
     ELSE Rotate(S, f, recs, work, found)
OpenAmong(S, f, recs, need, sync, first) ==
  LET fl == S.h.flt[f]
  IN IF recs = <<>>
     THEN Ret([Create(S, f, first) EXCEPT !.h.flt[f].working_file = first], 0)
     ELSE OpenWorking(S, f, recs,
                      IF fl.wrap_id = 0 \/ fl.working_file = None
                      THEN Last(recs) ELSE fl.working_file,
                      need, sync)
OpenLogFile(S, f, need, sync, u) ==
  IF S.h.reachable
  THEN OpenAmong(S, f, Records(S, f, u), need, sync, IF u THEN 1 ELSE Plain)
  ELSE Ret(S, -1)

-----------------------------------------------------------------------------
(* Filters that write every message at once.                               *)

(* mct_logstorage_prepare_on_msg: take over the newest file of the name    *)
TakeNewest(S, f) ==
  LET w == S.h.newest[NameOf(S, f)]
  IN [S EXCEPT !.h.flt[f].wrap_id = w.wrap_id,
               !.h.flt[f].working_file = w.newest_file]

OpenSize(S, f) ==
  LET fl == S.h.flt[f]
  IN IF fl.orphan # None THEN fl.orphan ELSE SizeOf(Directory(S, f), fl.log)

\* Mutant: an open file is kept although another filter went on to the next.
MustReopenBySize(S, f, size) == OpenSize(S, f) + size > conf.list[f].file_size
MustReopen(S, f, size) ==
  LET fl == S.h.flt[f]
      w == S.h.newest[NameOf(S, f)]
  IN \/ OpenSize(S, f) + size > conf.list[f].file_size
     \/ fl.working_file # w.newest_file
     \/ fl.wrap_id < w.wrap_id

PrepareOnMsg(S, f, size) ==
  LET w == S.h.newest[NameOf(S, f)]
      closed == S.h.flt[f].log = None
      behind == IF closed THEN S.h.flt[f].wrap_id < w.wrap_id
                ELSE S.h.flt[f].wrap_id <= w.wrap_id
      S1 == IF behind THEN TakeNewest(Close(S, f), f) ELSE Close(S, f)
  IN IF ~closed /\ ~MustReopen(S, f, size) THEN Ret(S, 0)
     ELSE OpenLogFile(S1, f, size, FALSE, TRUE)

(* mct_logstorage_write_on_msg, then mct_logstorage_sync_on_msg            *)
WriteOnMsg(S, f, parts) ==
  Ret(Write(S, f, parts), IF S.h.flt[f].stream = "error" THEN -1 ELSE 0)

-----------------------------------------------------------------------------
(* Filters that write to a cache.                                          *)

CacheSize(c) == IF Is(c, "ON_SPECIFIC_SIZE") THEN c.specific_size
                ELSE c.file_size

\* Mutant: the memory that is taken already is not counted.
HasMemoryAlone(S, c) == CacheSize(c) <= CacheMax
HasMemory(S, c) == S.total + CacheSize(c) <= CacheMax

(* mct_logstorage_prepare_msg_cache.  The total is never reduced: freeing  *)
(* a filter frees its cache only.                                          *)
PrepareMsgCache(S, f) ==
  LET c == conf.list[f]
      w == S.h.newest[c.file_name]
      S1 == IF w.newest_file # None THEN TakeNewest(S, f) ELSE S
  IN CASE {"ON_SPECIFIC_SIZE", "ON_FILE_SIZE"} \subseteq c.sync -> Ret(S1, -1)
       [] Is(c, "ON_SPECIFIC_SIZE") /\ c.specific_size > c.file_size ->
            Ret(S1, -1)
       [] OTHER ->
            IF S.h.flt[f].cache # NoCache THEN Ret(S1, 0)
            ELSE IF ~HasMemory(S, c) THEN Ret(S1, -1)
            ELSE Ret([S1 EXCEPT
                        !.h.flt[f].cache = [i \in 1 .. CacheSize(c) |-> Blank],
                        !.total = @ + CacheSize(c)], 0)

(* mct_logstorage_find_mct_header and mct_logstorage_find_last_mct_header: *)
(* the first header among cnt parts from the offset on; the last one,      *)
(* the very first part aside.  A negative count is a very large one.       *)
IsHeader(cache, pos) == pos + 1 \in DOMAIN cache /\ cache[pos + 1][2] = 1
FindHeader(cache, offset, cnt) ==
  LET upto == IF cnt < 0 THEN Len(cache) ELSE cnt
      hits == {i \in 0 .. upto - 1 : IsHeader(cache, offset + i)}
  IN IF hits = {} THEN -1 ELSE Min(hits)
FindLastHeader(cache, offset, cnt) ==
  LET hits == {i \in 1 .. cnt - 1 : IsHeader(cache, offset + i)}
  IN IF hits = {} THEN -1 ELSE Max(hits)

Part(cache, from, cnt) == SubSeq(cache, from + 1, from + cnt)

CloseLog(S, f) ==
  [S EXCEPT !.h.flt[f].log = None, !.h.flt[f].write_offset = 0]
CloseIfOpen(S, f) == IF S.h.flt[f].log = None THEN S ELSE CloseLog(S, f)

(* mct_logstorage_sync_to_file: first as many whole messages as the open   *)
(* file has room for, the rest to the next file.                           *)
\* Mutant: the open file is filled up, in the middle of a message.
CutToFile(S, f, start, remain, s, e) ==
  IF s >= 0 /\ e > s
  THEN [S |-> [CloseLog(Write(S, f, Part(S.h.flt[f].cache, start + s, remain - s)), f)
                 EXCEPT !.h.flt[f].last_sync_offset = start + remain - s],
        start |-> start + remain - s, cnt |-> remain - s]
  ELSE [S |-> CloseLog(S, f), start |-> start, cnt |-> e - s]
FillFile(S, f, start, remain, s, e) ==
  IF s >= 0 /\ e > s /\ e - s <= remain
  THEN [S |-> [CloseLog(Write(S, f, Part(S.h.flt[f].cache, start + s, e - s)), f)
                 EXCEPT !.h.flt[f].last_sync_offset = start + e - s],
        start |-> start + e - s, cnt |-> e - s]
  ELSE [S |-> CloseLog(S, f), start |-> start, cnt |-> e - s]
Fill(S, f, start, remain, s) ==
  LET S1 == [S EXCEPT !.disk[NameOf(S, f)].miscut = @ \/ s # 0]
  IN FillFile(S1, f, start, remain, s,
              FindLastHeader(S.h.flt[f].cache, start + s, remain - s))

Synced(S, f) == Ret([S EXCEPT !.h.flt[f].wrap_around_cnt = 0], 0)
WritePart(S, f, start, end) ==
  IF S.ret # 0 \/ S.h.flt[f].skip THEN S
  ELSE Synced([Write(S, f, Part(S.h.flt[f].cache, start, end - start)) EXCEPT
                 !.h.flt[f].write_offset = @ + end - start,
                 !.h.flt[f].last_sync_offset = end], f)
WriteFrom(S, f, start, end, s, u) ==
  IF s < 0 \/ start + s >= end THEN Synced(S, f)
  ELSE WritePart(IF S.h.flt[f].log = None
                 THEN OpenLogFile(S, f, end - start - s, FALSE, u) ELSE Ret(S, 0),
                 f, start + s, end)
WriteRest(S, f, start, end, cnt, u) ==
  WriteFrom(S, f, start, end, FindHeader(S.h.flt[f].cache, start, cnt), u)

SyncOpened(S, f, start, end, u) ==
  LET remain == conf.list[f].file_size - S.h.flt[f].write_offset
      filled == Fill(S, f, start, remain, FindHeader(S.h.flt[f].cache, start, remain))
      rest(x) == WriteRest(x.S, f, x.start, end, x.cnt, u)
  IN IF S.ret # 0 \/ S.h.flt[f].skip THEN S
     ELSE rest(IF end - start > remain THEN filled
               ELSE [S |-> S, start |-> start, cnt |-> end - start])
SyncToFile(S, f, start, end, u) ==
  SyncOpened(OpenLogFile(CloseIfOpen(S, f), f, end - start, TRUE, u), f, start, end, u)

(* mct_logstorage_sync_msg_cache                                           *)
ClearCache(S, f) ==
  [S EXCEPT !.h.flt[f] =
     [@ EXCEPT !.cache = [i \in DOMAIN @ |-> Blank], !.offset = 0,
               !.wrap_around_cnt = 0, !.last_sync_offset = 0,
               !.end_sync_offset = 0]]
(* Once the cache started again, the older messages in it come first.      *)
Rewound(S, f) == [S EXCEPT !.h.flt[f].last_sync_offset = 0]
Older(fl) == IF fl.wrap_around_cnt = 1 /\ fl.offset < fl.last_sync_offset
             THEN fl.last_sync_offset ELSE fl.offset
SyncUpTo(S, f, end, u) == SyncToFile(S, f, S.h.flt[f].last_sync_offset, end, u)
SyncRange(S, f, u) ==
  LET fl == S.h.flt[f]
  IN SyncUpTo(IF fl.wrap_around_cnt < 1 THEN S
              ELSE Rewound(SyncToFile(S, f, Older(fl), fl.end_sync_offset, u), f),
              f, fl.offset, u)

\* Mutant: the cache is not emptied after it was written.
SyncKeeps(S, f, status, u) ==
  IF OnMsg(conf.list[f]) \/ status \notin conf.list[f].sync THEN Ret(S, 0)
  ELSE IF S.h.flt[f].cache = NoCache THEN Ret(S, -1)
  ELSE Ret(SyncRange(S, f, u), 0)
(* Auxiliary: whether a ring cache keeps a message to itself.              *)
Checked(S, f) ==
  [S EXCEPT !.disk[NameOf(S, f)].kept =
     @ \/ /\ RingCache(conf.list[f]) /\ ~S.h.failed /\ ~S.h.flt[f].skip
          /\ S.h.flt[f].due # <<>>]
Sync(S, f, status, u) ==
  LET cleared(T) == IF status \in {"ON_SPECIFIC_SIZE", "ON_FILE_SIZE"}
                    THEN ClearCache(T, f) ELSE T
      closed(T) == IF status = "ON_FILE_SIZE" THEN CloseIfOpen(T, f) ELSE T
  IN IF OnMsg(conf.list[f]) \/ status \notin conf.list[f].sync THEN Ret(S, 0)
     ELSE IF S.h.flt[f].cache = NoCache THEN Ret(S, -1)
     ELSE Ret(closed(cleared(Checked(SyncRange(S, f, u), f))), 0)

(* Auxiliary: the messages that are whole in what a ring cache has in use. *)
SerialsInUse(S, f) ==
  LET fl == S.h.flt[f]
      cells == Range(Part(fl.cache, 0, Max({fl.offset, fl.end_sync_offset})))
      whole(x) == \A j \in 1 .. x[3] : <<x[1], j, x[3]>> \in cells
  IN IF ~RingCache(conf.list[f]) THEN S
     ELSE [S EXCEPT !.h.flt[f].due = SelectSeq(@, whole)]

(* mct_logstorage_write_msg_cache: at the current position if the message  *)
(* fits; a cache that is full is written out; what did not fit starts it   *)
(* again.                                                                  *)
Place(S, f, at, parts) ==
  [S EXCEPT !.h.flt[f].cache =
              [i \in DOMAIN @ |-> IF i \in at + 1 .. at + Len(parts)
                                  THEN parts[i - at] ELSE @[i]],
            !.h.flt[f].offset = at + Len(parts)]
AppendToCache(S, f, parts) ==
  LET fl == S.h.flt[f]
      S1 == Place(S, f, fl.offset, parts)
  IN IF fl.wrap_around_cnt < 1
     THEN [S1 EXCEPT !.h.flt[f].end_sync_offset = fl.offset + Len(parts)] ELSE S1
StartCacheAgain(S, f, parts) ==
  Place([S EXCEPT !.h.flt[f].end_sync_offset = S.h.flt[f].offset], f, 0, parts)
(* A ring cache counts how often it was full; more than twice is like twice. *)
\* Mutant: a cache that is written at the end of the daemon counts no rounds.
CountsOnDemand(sync) == "ON_DEMAND" \in sync
CountsRounds(sync) == sync \cap {"ON_DEMAND", "ON_DAEMON_EXIT"} # {}
WhenFull(S, f) ==
  LET sync == conf.list[f].sync
      due == sync \cap {"ON_FILE_SIZE", "ON_SPECIFIC_SIZE"}
  IN IF due # {} THEN Sync(S, f, CHOOSE x \in due : TRUE, TRUE)
     ELSE Ret([S EXCEPT !.h.flt[f].wrap_around_cnt =
                 IF CountsRounds(sync) THEN Min({@ + 1, 2}) ELSE @], 0)

(* Auxiliary: own numbers the parts of an accepted message.                *)
Own(S, f, parts) == [j \in DOMAIN parts |-> <<S.h.flt[f].serial>> \o parts[j]]
Accepted(S, f, own) ==
  [S EXCEPT !.h.flt[f].due = IF S.h.failed THEN <<>> ELSE @ \o own,
            !.h.flt[f].serial = (@ + 1) % Serials]
AppendAccepted(S, f, own) == SerialsInUse(AppendToCache(Accepted(S, f, own), f, own), f)
(* Auxiliary: a cache that is only written when the device goes forgets    *)
(* what it held when it starts again.                                      *)
Forgotten(S, f) ==
  IF conf.list[f].sync = {"ON_DEVICE_DISCONNECT"}
  THEN [S EXCEPT !.h.flt[f].due = <<>>] ELSE S
StartAgain(S, f, own) ==
  IF S.ret # 0 THEN S
  ELSE SerialsInUse(StartCacheAgain(Accepted(Forgotten(S, f), f, own), f, own), f)
WriteMsgCache(S, f, parts) ==
  LET remain == CacheSize(conf.list[f]) - S.h.flt[f].offset
      size == Len(parts)
      own == Own(S, f, parts)
  IN IF size < remain THEN Ret(AppendAccepted(S, f, own), 0)
     ELSE IF size = remain THEN WhenFull(AppendAccepted(S, f, own), f)
     ELSE IF size > CacheSize(conf.list[f]) THEN Ret(S, -1)
     ELSE StartAgain(WhenFull(S, f), f, own)

-----------------------------------------------------------------------------
(* One message.                                                            *)

(* mct_logstorage_write, for one filter that was found                     *)
Prepare(S, f, size) ==
  IF OnMsg(conf.list[f]) THEN PrepareOnMsg(S, f, size) ELSE PrepareMsgCache(S, f)

TellNewest(S, f) ==
  LET fl == S.h.flt[f]
  IN [S EXCEPT !.h.newest[NameOf(S, f)] =
                 [newest_file |-> fl.working_file, wrap_id |-> fl.wrap_id]]

PrepareFailed(S, f) ==
  [S EXCEPT !.disk[NameOf(S, f)].mixed =
              @ \/ (~S.h.reachable /\ S.h.flt[f].wrap_id # 0),
            !.h.prepare_errors = @ + 1,
            !.h.flt[f].skip = @ \/ S.h.prepare_errors + 1 >= MaxErrors]

WriteError(S) == IF S.ret = 0 THEN S ELSE [S EXCEPT !.h.write_errors = @ + 1]
StoreInFile(S, f, parts) ==
  LET own == [j \in DOMAIN parts |-> <<0>> \o parts[j]]
  IN WriteError(WriteOnMsg([TellNewest(S, f) EXCEPT !.h.flt[f].due = own], f, own))

StoredInCache(S, f) ==
  IF S.ret = 0 /\ S.h.flt[f].working_file # None THEN TellNewest(S, f)
  ELSE WriteError(S)
StoreInCache(S, f, parts) == StoredInCache(WriteMsgCache(S, f, parts), f)

StorePrepared(S, f, parts) ==
  CASE S.ret # 0 -> PrepareFailed(S, f)
    [] S.ret = 0 /\ S.h.flt[f].skip -> S
    [] OTHER -> IF OnMsg(conf.list[f]) THEN StoreInFile(S, f, parts)
                ELSE StoreInCache(S, f, parts)
StoreIn(S, f, parts) ==
  IF S.h.flt[f].skip THEN S
  ELSE StorePrepared(Prepare(S, f, Len(parts)), f, parts)

(* mct_logstorage_device_disconnected: every filter may write what it has, *)
(* then all of them are freed.  prepare_errors stays.                      *)
EachFilter(S, op(_, _)) == FoldLeft(op, S, [f \in DOMAIN S.h.flt |-> f])
Release(S) ==
  [S EXCEPT !.h = [@ EXCEPT !.connected = FALSE, !.done = FALSE,
                            !.flt = <<>>, !.write_errors = 0,
                            !.newest = [n \in Name |-> NewestFile]]]
DeviceDisconnected(S, reason) ==
  LET sync(T, f) == Sync(T, f, reason, S.h.uconfig)
  IN Release(IF S.h.done THEN EachFilter(S, sync) ELSE S)

(* mct_daemon_logstorage_write                                             *)
StoreMessage(S, m) ==
  LET parts == [j \in 1 .. m.size |-> <<j, m.size>>]
      store(T, f) == StoreIn(T, f, parts)
      stored(T) == IF /\ T.h.write_errors > S.h.write_errors
                      /\ T.h.write_errors >= MaxErrors
                   THEN DeviceDisconnected(T, "ON_DEVICE_DISCONNECT") ELSE T
  IN stored(FoldLeft(store, S, conf.found[m]))

-----------------------------------------------------------------------------
(* Actions.                                                                *)

Becomes(S) == h' = S.h /\ disk' = S.disk /\ total' = S.total
Event == events < conf.events /\ events' = events + 1

(* mct_logstorage_device_connected, with mct_logstorage_load_config        *)
Connected(S) ==
  [S EXCEPT !.h = [@ EXCEPT !.connected = TRUE, !.done = conf.done,
                        !.write_errors = 0, !.failed = FALSE,
                        !.flt = [f \in DOMAIN conf.list |-> NewFilter]]]
Connect ==
  /\ h.reachable
  /\ Event /\ UNCHANGED conf
  /\ LET reset == DeviceDisconnected(State, "ON_DEVICE_DISCONNECT")
     IN Becomes(Connected(IF h.connected THEN reset ELSE State))

Disconnect ==
  /\ h.connected
  /\ Event /\ UNCHANGED conf
  /\ Becomes(DeviceDisconnected(State, "ON_DEVICE_DISCONNECT"))

(* mct_daemon_logstorage_sync_cache, with mct_logstorage_sync_caches: the  *)
(* newest file of a name is only told to the handle when a message is      *)
(* written.                                                                *)
KnowNames(S) == [S EXCEPT !.h.uconfig = TRUE]
Untold(S, n) ==
  \E f \in FiltersOf(n) \cap DOMAIN S.h.flt :
    S.h.flt[f].wrap_id # 0 /\ S.h.flt[f].working_file # S.h.newest[n].newest_file
Mixing(S) ==
  [S EXCEPT !.disk = [n \in Name |-> [@[n] EXCEPT !.mixed = @ \/ Untold(S, n)]]]
SyncCaches ==
  /\ h.connected
  /\ Event /\ UNCHANGED conf
  /\ LET sync(T, f) == Sync(T, f, "ON_DEMAND", TRUE)
     IN Becomes(Mixing(EachFilter(KnowNames(State), sync)))

(* mct_daemon_logstorage_write, for a message that the daemon routes       *)
Message(m) ==
  /\ h.done
  /\ \A n \in Name : h.newest[n].wrap_id < MaxWraps
  /\ Becomes(StoreMessage(State, m))
  /\ UNCHANGED <<conf, events>>

(* The daemon ends (mct_daemon_logstorage_cleanup), or dies: between two   *)
(* steps, or in the middle of a rotation.                                  *)
Restarted(S) == [S EXCEPT !.h = [Disconnected EXCEPT !.reachable = @ /\ S.h.reachable],
                          !.total = 0]
Exit ==
  /\ Event /\ UNCHANGED conf
  /\ LET stopped == DeviceDisconnected(KnowNames(State), "ON_DAEMON_EXIT")
     IN Becomes(Restarted(IF h.connected THEN stopped ELSE State))
Crash == Event /\ UNCHANGED conf /\ Becomes(Restarted(State))
CrashRotating(m) ==
  /\ h.done
  /\ Event /\ UNCHANGED conf
  /\ \E left \in StoreMessage(State, m).mid :
       Becomes([Restarted(State) EXCEPT !.disk = left])

(* The device is pulled out, and put in again.                             *)
Unplug ==
  /\ h.reachable
  /\ Event /\ UNCHANGED conf
  /\ h' = [h EXCEPT !.reachable = FALSE, !.failed = TRUE,
              !.flt = [f \in DOMAIN @ |-> [@[f] EXCEPT !.due = <<>>, !.stream =
                         IF h.flt[f].log = None THEN @ ELSE "dead"]]]
  /\ UNCHANGED <<disk, total>>
Plug ==
  /\ ~h.reachable
  /\ h' = [h EXCEPT !.reachable = TRUE]
  /\ UNCHANGED <<conf, disk, total, events>>

Next ==
  \/ Connect \/ Disconnect \/ SyncCaches \/ Exit \/ Crash \/ Unplug \/ Plug
  \/ \E m \in DOMAIN conf.found : Message(m) \/ CrashRotating(m)

Spec == Init /\ [][Next]_vars

-----------------------------------------------------------------------------
(* Properties.                                                             *)


DirectoryOK(d) ==
  /\ d.torn \in 0 .. conf.events
  /\ \A j \in DOMAIN d.files :
       /\ d.files[j].idx \in 1 .. conf.maxcounter
       /\ \A i \in DOMAIN d.files : d.files[i].idx = d.files[j].idx => i = j
FilterOK(f) ==
  LET fl == h.flt[f]
  IN /\ fl.working_file \in None .. conf.maxcounter
     /\ fl.log # None /\ fl.orphan = None =>
          HasFile(disk[conf.list[f].file_name], fl.log)
     /\ fl.offset \in 0 .. Len(fl.cache)
     /\ fl.last_sync_offset \in 0 .. Len(fl.cache)

(* Every number in the handle and in a filter is one the code can use: an  *)
(* open file exists, no two files have one number, offsets are inside the  *)
(* cache.                                                                  *)
TypeOK ==
  /\ total \in 0 .. CacheMax
  /\ h.done => h.connected
  /\ \A n \in Name : DirectoryOK(disk[n])
  /\ \A f \in DOMAIN h.flt : FilterOK(f)

(* The numbered files of a name hold the last messages written to it,      *)
(* without a gap and in the order they were written: only the oldest files *)
(* ever go, and only the newest one grows.  Rotation, the numbers starting *)
(* again, filters that share the files, and a restart that has to guess    *)
(* the newest file from the numbers may all go wrong about this.           *)
(* Exempt is what may go wrong after the numbers started again: a crash in *)
(* the middle of a rotation leaves a file too many, a control client that  *)
(* asks for the caches or a device that is gone leaves a filter with a     *)
(* file that is not the newest any more.                                   *)
RingIsSuffix == \A n \in Name : disk[n].gap => disk[n].mixed

(* Messages are never split over files, cut, or mixed, with the exemption  *)
(* of RingCacheWritten.                                                    *)
Whole(parts) ==
  \A j \in DOMAIN parts :
    /\ parts[j][1] > 1 => j > 1 /\ parts[j - 1][1] = parts[j][1] - 1
    /\ parts[j][1] < parts[j][2] => j < Len(parts) /\ parts[j + 1][1] = parts[j][1] + 1
WholeMessages ==
  \A n \in Name : ~disk[n].miscut =>
                  /\ Whole(disk[n].plain)
                  /\ \A j \in DOMAIN disk[n].files : Whole(disk[n].files[j].parts)

(* A ring takes no more room than its filters allow: as many files as      *)
(* NOFiles says, none larger than FileSize unless one message is; every    *)
(* crash in the middle of a rotation adds one file for good.               *)
RingIsBounded ==
  \A n \in Name : \A f \in FiltersOf(n) :
    LET d == disk[n]
    IN /\ Len(d.files) <= conf.list[f].num_files + d.torn
       /\ \A j \in DOMAIN d.files :
            \/ Len(d.files[j].parts) <= conf.list[f].file_size
            \/ Len(d.files[j].parts) = d.files[j].parts[1][2]

(* What a filter accepted is written, or waits in its cache: once, in      *)
(* order, nothing lost.  Exempt: a device that was pulled out, a ring that *)
(* is full under DISCARD_NEW, files that are mixed up as for RingIsSuffix, *)
(* and a cache that is a ring itself, which overwrites what it did not     *)
(* write and, synchronised while it is exactly full, writes messages twice. *)
CacheIsQueue ==
  \A n \in Name : \A f \in FiltersOf(n) \cap DOMAIN h.flt :
    LET fl == h.flt[f]
    IN RingCache(conf.list[f]) \/ h.failed \/ fl.skip \/ disk[n].mixed
       \/ fl.due = Part(fl.cache, fl.last_sync_offset,
                        fl.offset - fl.last_sync_offset)

(* A ring cache that is synchronised writes every message that is still    *)
(* whole in it and was not written yet, whether it never was full, once or *)
(* more often: the rounds, the three offsets and the order of the two      *)
(* writes of mct_logstorage_sync_msg_cache may all lose one.  Exempt is a  *)
(* range that starts in the middle of a message and is larger than the     *)
(* room in the open file: mct_logstorage_sync_to_file then counts from the *)
(* first header what it measured from the start of the range.              *)
RingCacheWritten == \A n \in Name : disk[n].kept => disk[n].miscut

(* Under DISCARD_NEW nothing that was stored is ever removed.              *)
KeepsOld ==
  [][\A n \in Name :
       (\A f \in FiltersOf(n) : conf.list[f].overwrite = "DISCARD_NEW") =>
         /\ Len(disk'[n].files) >= Len(disk[n].files)
         /\ \A j \in DOMAIN disk[n].files :
              IsPrefix(disk[n].files[j].parts, disk'[n].files[j].parts)]_vars

(* A message goes once to every filter that names its application, its     *)
(* context and its ECU, whatever keys lead there.                          *)
Names(ids, id) == ids = {Wild} \/ id \in ids
Wants(f, m) ==
  /\ f.file_name # Absent
  /\ IF m.apid = Absent \/ f.apids = Absent
     THEN f.ecuid = m.ecu /\ \/ Absent \in {f.apids, f.ctids}
                             \/ f.apids = {Wild} /\ f.ctids = {Wild}
     ELSE /\ Names(f.apids, m.apid) /\ Names(f.ctids, m.ctid)
          /\ f.ecuid \in {Absent, m.ecu}
          /\ f.apids = {Wild} /\ f.ctids = {Wild} => f.ecuid # Absent
  /\ Passes(f, m)
StoredAsConfigured ==
  \A m \in DOMAIN conf.found :
    LET found == conf.found[m]
    IN /\ Range(found) = {f \in DOMAIN conf.list : Wants(conf.list[f], m)}
       /\ Len(found) = Cardinality(Range(found))
=============================================================================
