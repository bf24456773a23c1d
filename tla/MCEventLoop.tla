---------------------------- MODULE MCEventLoop ----------------------------
(* EventLoop for TLC: configuration files and the daemon's settings.       *)
EXTENDS EventLoop, TLC

Section(kind, nr, entries) ==
  <<HeaderLine(SectionName(kind, nr))>>
    \o [i \in DOMAIN entries |-> DataLine(entries[i][1], entries[i][2])]

General(level) == Section("General", 1, <<<<"DefaultLevel", level>>>>)
GeneralBackend(level) ==
  Section("General", 1, <<<<"DefaultLevel", level>>, <<"Backend", "ald">>>>)
Filter(nr, name, level, clients, control, injections) ==
  Section("Filter", nr,
    <<<<"Name", name>>, <<"Level", level>>, <<"Clients", clients>>,
      <<"ControlMessages", control>>, <<"Injections", injections>>>>)
InjectionEntry(nr, name, apid, ctid, ids) ==
  Section("Injection", nr,
    <<<<"Name", name>>, <<"LogAppName", apid>>, <<"ContextName", ctid>>,
      <<"ServiceID", ids>>>>)

(* The filters of mct_message_filter.conf.                                 *)
Off == Filter(1, <<"o">>, 24, {}, {}, <<>>)
Internal == Filter(2, <<"i">>, 49, {"Trace", "Logstorage"}, {}, <<<<"a">>, <<"a", "b">>>>)
External == Filter(3, <<"e">>, 99, {"Serial", "TCP"}, Star, Star)
Both == Filter(4, <<"b">>, 100, Star, Star, Star)

(* Two entries, the name of the second a prefix of that of the first.      *)
Entries == InjectionEntry(1, <<"a", "b">>, <<"x">>, <<"y">>, {1})
             \o InjectionEntry(2, <<"a">>, <<"x">>, <<>>, {2, 3})
InjectionMessages ==
  {[apid |-> a, ctid |-> c, ecuid |-> <<"n">>, id |-> i] :
     a \in {<<"x", "1">>, <<"z">>}, c \in {<<"y">>, <<"w">>}, i \in 1..3}

With(lines, addresses, serial, bound) ==
  [lines |-> lines, addresses |-> addresses, serial |-> serial, events |-> bound,
   injections |-> InjectionMessages]
Confs ==
  { With(General(100) \o Off \o Internal \o External \o Both, 1, FALSE, 5),
    With(Both \o External \o General(0) \o Internal \o Off \o Entries, 1, FALSE, 4),
    With(External \o Off \o Internal \o Entries \o General(50), 1, TRUE, 4),
    With(GeneralBackend(100) \o Both \o Off \o External, 1, FALSE, 4),
    With(GeneralBackend(30) \o Both \o Internal \o Off \o Entries, 1, FALSE, 4),
    With(General(60) \o External \o Off, 2, FALSE, 5),
    With(General(200), 1, FALSE, 4),
    With(General(100) \o Both \o Filter(5, <<"x">>, 100, {}, {}, <<>>), 1, FALSE, 4),
    With(Off \o Filter(5, <<"o">>, 100, {}, {}, <<>>), 1, FALSE, 4) }
=============================================================================
