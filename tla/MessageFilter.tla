--------------------------- MODULE MessageFilter ---------------------------
(***************************************************************************)
(* The message filter of the daemon: the configuration file read into a    *)
(* list of filters with the level ranges they cover, and the questions     *)
(* asked of the filter of the current level: is this type of connection,   *)
(* this control message, this injection allowed.                           *)
(*                                                                         *)
(* Names and identifiers are sequences of letters, because the code        *)
(* compares them by prefix.  A list of values is a set or a sequence, "*"  *)
(* is Star and NONE the empty list.                                        *)
(***************************************************************************)
EXTENDS ConfigFile

CONSTANTS LevelMax,      \* MCT_FILTER_LEVEL_MAX
          InjectionMax,  \* MCT_FILTER_INJECTION_CONFIG_MAX
          Star           \* the value "*"

ASSUME MessageFilterAssumption == {LevelMax, InjectionMax} \subseteq Nat

Type == {"client_connect", "tcp", "serial", "app", "app_connect", "one_s",
         "sixty_s", "systemd", "control_connect", "control", "trace",
         "logstorage", "filter"}
DefaultMask == {"app", "app_connect", "one_s", "sixty_s", "systemd",
                "control_connect", "control"}

(* The services a mask has a bit for (set_bit, bit); the others are never  *)
(* allowed by a mask and ignored in a configuration.                       *)
Service == {"set_filter_level", "get_filter_status", "other"}

SectionName(kind, i) == [kind |-> kind, nr |-> i]

-----------------------------------------------------------------------------
(* The handlers of the values of a Filter section.                         *)

(* mct_daemon_filter_client_mask                                           *)
TypesOf(client) ==
  CASE client = "Serial" -> {"serial"}
    [] client = "TCP" -> {"client_connect", "tcp"}
    [] client = "Logstorage" -> {"logstorage"}
    [] client = "Trace" -> {"trace"}
    [] OTHER -> {}
ClientMask(value) ==
  IF value = Star THEN Type
  ELSE DefaultMask \cup UNION {TypesOf(t) : t \in value}

(* mct_daemon_filter_control_mask                                          *)
ControlMask(value) == IF value = Star THEN Service ELSE value \cap Service

(* mct_daemon_filter_name: refused when it is a prefix of a name in use.   *)
NameInUse(configs, name) ==
  \E i \in DOMAIN configs : IsPrefix(name, configs[i].name)

(* mct_daemon_insert_filter, mct_daemon_check_filter_level: the list is    *)
(* sorted by level_max, and each filter begins where the one before ends.  *)
LevelDefined(configs, conf) == \E i \in DOMAIN configs : configs[i].max = conf.max
InsertAtEnd(configs, conf) ==
  Append(configs,
         [conf EXCEPT !.min = IF configs = <<>> THEN @ ELSE Last(configs).max + 1])
\* Mutant: a filter inserted in the middle keeps its own lower bound.
InsertBeforeKeepsMin(configs, conf, i) ==
  InsertAt([configs EXCEPT ![i].min = conf.max + 1], i, conf)
InsertBefore(configs, conf, i) ==
  InsertAt([configs EXCEPT ![i].min = conf.max + 1], i,
           [conf EXCEPT !.min = IF i = 1 THEN @ ELSE configs[i].min])
InsertFilter(configs, conf) ==
  LET i == SelectInSeq(configs, LAMBDA c : conf.max < c.max)
  IN IF i = 0 THEN InsertAtEnd(configs, conf)
     ELSE InsertBefore(configs, conf, i)

(* mct_daemon_setup_filter_section: every value must be there and valid.   *)
FilterKeys == {"Name", "Level", "Clients", "ControlMessages", "Injections"}
Failed(mf) == [mf EXCEPT !.ok = FALSE]
SetupFilter(mf, file, sec) ==
  LET V(key) == GetValue(file, sec, key)
      conf == [name |-> V("Name"), min |-> 0, max |-> V("Level"),
               clients |-> ClientMask(V("Clients")),
               control |-> ControlMask(V("ControlMessages")),
               injections |-> V("Injections")]
  IN IF \/ \E key \in FilterKeys : V(key) = Absent
        \/ NameInUse(mf.configs, V("Name"))
        \/ V("Level") \notin 0..LevelMax
        \/ LevelDefined(mf.configs, conf)
     THEN Failed(mf)
     ELSE [mf EXCEPT !.configs = InsertFilter(@, conf)]

-----------------------------------------------------------------------------
(* The Injection sections.                                                 *)

(* mct_daemon_filter_find_injection_by_name: the first entry whose name is *)
(* a prefix of the one looked for, 0 when there is none.                   *)
FindInjection(injections, name) ==
  SelectInSeq(injections, LAMBDA x : IsPrefix(x.name, name))

(* mct_daemon_set_injection_service_ids: with "*" the number of services   *)
(* is -1, and the loop over them finds none.                               *)
ServiceIds(value) == IF value \in {Star, Absent} THEN {} ELSE value

(* mct_daemon_setup_injection_config: a missing value is read as "".       *)
SetupInjection(mf, file, sec) ==
  LET V(key) == LET v == GetValue(file, sec, key)
                IN IF v = Absent THEN <<>> ELSE v
      inj == [name |-> V("Name"), apid |-> V("LogAppName"),
              ctid |-> V("ContextName"), ecuid |-> V("NodeID"),
              ids |-> ServiceIds(GetValue(file, sec, "ServiceID"))]
  IN IF \/ Len(mf.injections) = InjectionMax
        \/ FindInjection(mf.injections, inj.name) # 0
     THEN Failed(mf)
     ELSE [mf EXCEPT !.injections = Append(@, inj)]

-----------------------------------------------------------------------------
(* mct_daemon_setup_filter_properties: a level that is no level is logged  *)
(* and overlooked, a missing one is an error.                              *)
SetupGeneral(mf, file, sec) ==
  LET level == GetValue(file, sec, "DefaultLevel")
  IN IF level = Absent THEN Failed(mf)
     ELSE [mf EXCEPT !.default = IF level \in 0..LevelMax THEN level ELSE @,
                     !.backend = GetValue(file, sec, "Backend") # Absent]

(* mct_daemon_prepare_message_filter: the loop over the sections ends at   *)
(* the first that fails.                                                   *)
SetupSection(mf, file, sec) ==
  CASE ~mf.ok -> mf
    [] mf.ok /\ sec.kind = "General" -> SetupGeneral(mf, file, sec)
    [] mf.ok /\ sec.kind = "Filter" -> SetupFilter(mf, file, sec)
    [] mf.ok /\ sec.kind = "Injection" -> SetupInjection(mf, file, sec)
    [] OTHER -> mf

(* mct_daemon_check_filter_level_range, mct_daemon_add_closed_filter       *)
ClosedFilter == [name |-> <<>>, min |-> 0, max |-> LevelMax,
                 clients |-> DefaultMask, control |-> {}, injections |-> <<>>]
CoverAllLevels(configs) ==
  IF configs = <<>> THEN <<ClosedFilter>>
  ELSE [configs EXCEPT ![Len(configs)].max = LevelMax]

(* The first filter whose range reaches a level, 0 when there is none.     *)
Covering(configs, level) == SelectInSeq(configs, LAMBDA c : c.max >= level)

(* mct_daemon_prepare_message_filter, mct_daemon_set_default_level         *)
EmptyFilter == [ok |-> TRUE, default |-> 0, backend |-> FALSE,
                configs |-> <<>>, injections |-> <<>>]
PrepareMessageFilter(lines) ==
  LET file == ReadFile(lines)
      mf == FoldLeft(LAMBDA m, s : SetupSection(m, file, s.name),
                     EmptyFilter, file)
  IN [mf EXCEPT !.configs = CoverAllLevels(@)]

-----------------------------------------------------------------------------
(* The questions, asked of the filter that is current.                     *)

(* mct_daemon_filter_is_connection_allowed                                 *)
IsConnectionAllowed(current, type) == type \in current.clients

(* mct_daemon_filter_is_control_allowed                                    *)
IsControlAllowed(current, service) == service \in current.control

(* mct_daemon_filter_is_injection_allowed: the list is left at the first   *)
(* entry that is of another application, context or node.                  *)
\* Mutant: the context is not compared.
SameTargetAnyContext(inj, m) == /\ IsPrefix(inj.apid, m.apid)
                                /\ IsPrefix(inj.ecuid, m.ecuid)
SameTarget(inj, m) == /\ IsPrefix(inj.apid, m.apid)
                      /\ IsPrefix(inj.ctid, m.ctid)
                      /\ IsPrefix(inj.ecuid, m.ecuid)
IsInjectionAllowed(current, injections, m) ==
  LET names == current.injections
      Entry(i) == FindInjection(injections, names[i])
      Reached(i) == \A j \in 1..i : /\ Entry(j) # 0
                                    /\ SameTarget(injections[Entry(j)], m)
  IN \/ names = Star
     \/ /\ names # Star
        /\ \E i \in DOMAIN names :
             Reached(i) /\ m.id \in injections[Entry(i)].ids
=============================================================================
