--------------------------- MODULE MCDaemonFiles ---------------------------
(* DaemonFiles for TLC: small rings under every strategy, and two traces.  *)
EXTENDS DaemonFiles

Section(n, pairs) ==
  <<HeaderLine(n)>> \o [i \in DOMAIN pairs |-> DataLine(pairs[i][1], pairs[i][2])]
Filter(i, apids, ctids, size, more) ==
  Section(<<"FILTER", i>>,
          <<<<"LogAppName", apids>>, <<"ContextName", ctids>>, <<"LogLevel", 4>>,
            <<"File", "f">>, <<"FileSize", size>>, <<"NOFiles", 2>>>> \o more)
Msg(a, c, e, l, s) == [apid |-> a, ctid |-> c, ecu |-> e, level |-> l, size |-> s]
Sized(a, c) == {Msg(a, c, "e1", 4, s) : s \in {1, 2}}

(* Two filters share the files: one writes at once, one when its cache is  *)
(* full.  A third section repeats a name and is dropped, a fourth misses a *)
(* required key.                                                           *)
Shared ==
  [lines |-> Filter(1, {"a1"}, {Wild}, 3, <<<<"SyncBehavior", {"ON_MSG"}>>>>)
       \o Filter(2, {Wild}, {"c1", "c2"}, 3,
                 <<<<"SyncBehavior", {"ON_SPECIFIC_SIZE"}>>, <<"SpecificSize", 2>>,
                   <<"SpecificSize", 9>>, <<"ExcludedLogAppName", {"a3"}>>>>)
       \o Filter(2, {"a2"}, {"c1"}, 3, <<>>)
       \o <<Junk>> \o Section(<<"FILTER", 3>>, <<<<"LogAppName", {"a1"}>>>>),
   maxcounter |-> 3, events |-> 3,
   messages |-> {Msg("a1", "c3", "e1", 4, 2), Msg("a2", "c1", "e1", 4, 1),
                 Msg("a1", "c1", "e1", 4, 1), Msg("a3", "c1", "e1", 4, 1),
                 Msg("a1", "c1", "e1", 6, 1)}]
Cached(strategies, more) ==
  [lines |-> Filter(1, {"a1"}, {"c1"}, 3, <<<<"SyncBehavior", strategies>>>> \o more),
   maxcounter |-> 3, events |-> 3, messages |-> Sized("a1", "c1")]
DirectUpTo(n) == [Cached({"ON_MSG"}, <<>>) EXCEPT !.maxcounter = n,
                     !.messages = @ \cup {Msg("a1", "c1", "e1", 4, 4)}]
Old == <<<<"OverwriteBehavior", "DISCARD_NEW">>>>
Small == <<<<"SpecificSize", 2>>>>

(* Non-verbose sections, and a filter that only names an ECU.              *)
NonVerbose ==
  [lines |-> Section(<<"General", 0>>, <<<<"BlockMode", 1>>>>)
       \o Section(<<"NON-VERBOSE-STORAGE-FILTER", 1>>,
               <<<<"File", "f">>, <<"FileSize", 3>>, <<"NOFiles", 2>>, <<"EcuID", "e1">>>>)
       \o Section(<<"NON-VERBOSE-LOGLEVEL-CTRL", 2>>,
               <<<<"LogAppName", {"a1"}>>, <<"ContextName", {"c1"}>>,
                 <<"LogLevel", 5>>, <<"EcuID", "e1">>>>)
       \o Filter(3, {"a1", "a2"}, {"c1"}, 3, <<<<"EcuID", "e2">>, <<"SyncBehavior", {}>>>>)
       \o Filter(4, {Wild}, {Wild}, 3, <<<<"EcuID", "e1">>>>),
   maxcounter |-> 3, events |-> 2,
   messages |-> {Msg(Absent, Absent, "e1", 6, 1), Msg("a1", "c1", "e1", 4, 2),
                 Msg("a2", "c1", "e2", 4, 1)}]

(* A cache that is not written when it is full: it wraps.                  *)
Ring(strategy) ==
  [lines |-> Section(<<"FILTER", 1>>,
          <<<<"LogAppName", {"a1"}>>, <<"ContextName", {"c1"}>>, <<"LogLevel", 4>>,
            <<"File", "f">>, <<"FileSize", 5>>, <<"NOFiles", 1>>,
            <<"SyncBehavior", {strategy}>>>>),
   maxcounter |-> 2, events |-> 3, messages |-> Sized("a1", "c1")]

(* Only the trace is configured.                                           *)
NoDevice == [lines |-> <<>>, maxcounter |-> 3, events |-> 3,
             messages |-> {Msg("a1", "c1", "e1", 4, s) : s \in {1, 2, 4}}]

MCConf ==
  <<Shared, NonVerbose, DirectUpTo(3), DirectUpTo(9),
   Cached({"ON_FILE_SIZE", "ON_DEMAND", "ON_DEVICE_DISCONNECT"}, <<>>),
   Cached({"ON_SPECIFIC_SIZE", "ON_DAEMON_EXIT", "ON_DEMAND"}, Small),
   Cached({"ON_MSG"}, Old),
   Cached({"ON_FILE_SIZE"}, Old),
   [NoDevice EXCEPT !.events = 4], [NoDevice EXCEPT !.events = 4],
   [DirectUpTo(3) EXCEPT !.events = 1],
   Ring("ON_DEMAND"), Ring("ON_DAEMON_EXIT"), Ring("ON_DEVICE_DISCONNECT")>>
MCTraceConf ==
  [c \in 1 .. 14 |->
     CASE c = 9 -> [file_size |-> 3, max_size |-> 7, by_time |-> FALSE]
       [] c = 10 -> [file_size |-> 3, max_size |-> 7, by_time |-> TRUE]
       [] c = 11 -> [file_size |-> 2, max_size |-> 2, by_time |-> FALSE]
       [] OTHER -> Absent]
=============================================================================
