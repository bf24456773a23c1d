-------------------------- MODULE LogStorageConfig --------------------------
(***************************************************************************)
(* The configuration of a log storage device: the sections of its file     *)
(* become filters, every filter is entered under its keys, and a message   *)
(* is looked up under the keys it could match.                             *)
(*                                                                         *)
(* Section names are pairs <<kind, number>>.  A list of names is a set, a  *)
(* wild card the set {Wild}; sync strategies are sets of names, sizes are  *)
(* numbers.  A value that no check understands is Bad.                     *)
(***************************************************************************)
EXTENDS ConfigFile, FiniteSets

CONSTANTS Bad,    \* a value no check understands, a section that is refused
          Wild    \* the wild card in a list of names

VERBOSE == 6      \* MCT_LOG_VERBOSE

Strategy == {"ON_MSG", "ON_DAEMON_EXIT", "ON_DEMAND", "ON_DEVICE_DISCONNECT",
             "ON_SPECIFIC_SIZE", "ON_FILE_SIZE"}

-----------------------------------------------------------------------------
(* Reading a section.                                                      *)

(* filter_cfg_entries, and those of the two non-verbose kinds              *)
Required(kind) ==
  CASE kind = "FILTER" -> {"LogLevel", "File", "FileSize", "NOFiles"}
    [] kind = "NON-VERBOSE-STORAGE-FILTER" ->
         {"File", "FileSize", "NOFiles", "EcuID"}
    [] kind = "NON-VERBOSE-LOGLEVEL-CTRL" ->
         {"LogAppName", "ContextName", "LogLevel", "EcuID"}
Optional(kind) ==
  CASE kind = "FILTER" ->
         {"LogAppName", "ContextName", "ExcludedLogAppName",
          "ExcludedContextName", "SyncBehavior", "OverwriteBehavior", "EcuID",
          "SpecificSize", "DisableNetwork"}
    [] kind = "NON-VERBOSE-STORAGE-FILTER" -> {}
    [] kind = "NON-VERBOSE-LOGLEVEL-CTRL" -> {"ResetLogLevel"}

(* mct_logstorage_check_param: a strategy that is not known is refused     *)
(* like every other value that a check does not understand, although the   *)
(* check also sets the default.                                            *)
Understood(key, v) ==
  CASE v = Absent -> TRUE
    [] v = Bad -> FALSE
    [] key = "SyncBehavior" -> v \cap Strategy # {}
    [] key \in {"FileSize", "NOFiles", "SpecificSize"} -> v > 0
    [] key = "OverwriteBehavior" -> v \in {"DISCARD_OLD", "DISCARD_NEW"}
    [] OTHER -> TRUE

Given(v, default) == IF v = Absent THEN default ELSE v
SyncOf(v) ==
  CASE v = Absent -> {}
    [] v # Absent -> IF "ON_MSG" \in v THEN {"ON_MSG"} ELSE v \cap Strategy

(* mct_daemon_offline_setup_filter_properties, up to the table             *)
ParseFilter(file, n) ==
  LET kind == n[1]
      known == Required(kind) \cup Optional(kind)
      get(key) == IF key \in known THEN GetValue(file, n, key) ELSE Absent
      exa == Given(get("ExcludedLogAppName"), {})
      exc == Given(get("ExcludedContextName"), {})
  IN IF \/ \E key \in Required(kind) : get(key) = Absent
        \/ \E key \in known : ~Understood(key, get(key))
        \/ Cardinality(exa) > 1 /\ Cardinality(exc) > 1
     THEN Bad
     ELSE [apids |-> Given(get("LogAppName"), Absent),
           ctids |-> Given(get("ContextName"), Absent),
           excluded_apids |-> exa, excluded_ctids |-> exc,
           ecuid |-> Given(get("EcuID"), Absent),
           log_level |-> Given(get("LogLevel"), VERBOSE),
           file_name |-> Given(get("File"), Absent),
           file_size |-> Given(get("FileSize"), 0),
           num_files |-> Given(get("NOFiles"), 0),
           sync |-> SyncOf(get("SyncBehavior")),
           overwrite |-> Given(get("OverwriteBehavior"), "DISCARD_OLD"),
           specific_size |-> Given(get("SpecificSize"), 0)]

-----------------------------------------------------------------------------
(* Keys <<ecu, application, context>>, and the table.                      *)

(* mct_logstorage_create_keys; no key: it fails.                           *)
Keys(f) ==
  IF /\ f.ecuid # Absent
     /\ \/ f.apids = Absent /\ f.ctids = Absent
        \/ f.apids = {Wild} /\ f.ctids = {Wild}
  THEN {<<f.ecuid, Absent, Absent>>}
  ELSE IF Absent \in {f.apids, f.ctids} THEN {}
  ELSE {CASE a = Wild -> <<f.ecuid, Absent, c>>
          [] a # Wild /\ c = Wild -> <<f.ecuid, a, Absent>>
          [] OTHER -> <<f.ecuid, a, c>> : a \in f.apids, c \in f.ctids}

(* mct_logstorage_store_filters: a section that is refused is passed over; *)
(* one that yields no key ends the reading.                                *)
FilterKinds == {"FILTER", "NON-VERBOSE-STORAGE-FILTER",
                "NON-VERBOSE-LOGLEVEL-CTRL"}
StoreFilter(file, st, n) ==
  IF st.ended \/ n[1] \notin FilterKinds THEN st
  ELSE LET f == ParseFilter(file, n)
       IN CASE f = Bad -> [st EXCEPT !.valid = 1]
            [] f # Bad ->
                 IF Keys(f) = {} THEN [st EXCEPT !.ended = TRUE]
                 ELSE [st EXCEPT !.list = Append(@, f),
                                 !.valid = IF @ # 1 THEN 0 ELSE @]
StoreFilters(lines) ==
  LET file == ReadFile(lines)
      store(st, s) == StoreFilter(file, st, s.name)
  IN FoldLeft(store, [list |-> <<>>, valid |-> -1, ended |-> FALSE], file)

-----------------------------------------------------------------------------
(* Looking a message up.                                                   *)

(* The keys of mct_logstorage_get_config, in the order it tries them       *)
PossibleKeys(m) ==
  IF m.apid = Absent THEN <<<<m.ecu, Absent, Absent>>>>
  ELSE <<<<Absent, m.apid, Absent>>, <<Absent, Absent, m.ctid>>,
         <<Absent, m.apid, m.ctid>>, <<m.ecu, m.apid, m.ctid>>,
         <<m.ecu, m.apid, Absent>>, <<m.ecu, Absent, m.ctid>>,
         <<m.ecu, Absent, Absent>>>>

(* mct_logstorage_list_find: one after the other, those of the list that   *)
(* are in a set.                                                           *)
Selected(s, T) ==
  FoldLeft(LAMBDA t, x : IF x \in T THEN Append(t, x) ELSE t, <<>>, s)
ListFind(list, key) ==
  Selected([i \in DOMAIN list |-> i], {i \in DOMAIN list : key \in Keys(list[i])})

(* mct_logstorage_get_config: it stops when as many are found as there are *)
\* Mutant: the search ends with the first key that finds something.
GetConfigFirst(list, m) ==
  LET find(found, key) ==
        IF found # <<>> THEN found ELSE found \o ListFind(list, key)
  IN FoldLeft(find, <<>>, PossibleKeys(m))
GetConfig(list, m) ==
  LET find(found, key) == IF Len(found) = Len(list) THEN found
                          ELSE found \o ListFind(list, key)
  IN FoldLeft(find, <<>>, PossibleKeys(m))

(* mct_logstorage_filter; without extended header a message has the level  *)
(* MCT_LOG_VERBOSE.                                                        *)
Excluded(f, m) ==
  /\ m.apid # Absent
  /\ IF f.excluded_apids # {} /\ f.excluded_ctids # {}
     THEN m.apid \in f.excluded_apids /\ m.ctid \in f.excluded_ctids
     ELSE m.apid \in f.excluded_apids \/ m.ctid \in f.excluded_ctids
Passes(f, m) ==
  /\ (IF m.apid = Absent THEN VERBOSE ELSE m.level) <= f.log_level
  /\ f.ecuid \in {Absent, m.ecu}
  /\ ~Excluded(f, m)
Found(list, m) ==
  Selected(GetConfig(list, m),
           {i \in DOMAIN list : Passes(list[i], m) /\ list[i].file_name # Absent})
=============================================================================
