----------------------------- MODULE ConfigFile -----------------------------
(***************************************************************************)
(* The parser of the configuration files of log storage and of the message *)
(* filter: lines in, sections of keys and values out.                      *)
(*                                                                         *)
(* A line is a record: a section header, a key with a value, or anything   *)
(* that is neither (junk).  How a header or a value is cut out of the text *)
(* of its line is left out.                                                *)
(***************************************************************************)
EXTENDS Integers, Sequences, SequencesExt

CONSTANTS SectionsMax,   \* MCT_CONFIG_FILE_SECTIONS_MAX
          KeysMax,       \* MCT_CONFIG_FILE_KEYS_MAX
          Absent         \* a value that is not given

ASSUME ConfigFileAssumption == {SectionsMax, KeysMax} \subseteq Nat

HeaderLine(n) == [k |-> "section", name |-> n]
DataLine(key, v) == [k |-> "data", key |-> key, data |-> v]
Junk == [k |-> "junk"]

(* mct_config_file_set_section                                             *)
UsedName(file, n) == \E i \in DOMAIN file.sections : file.sections[i].name = n
SetSection(file, n) ==
  IF Len(file.sections) >= SectionsMax \/ UsedName(file, n)
  THEN [file EXCEPT !.valid = FALSE]
  ELSE [sections |-> Append(file.sections, [name |-> n, list |-> <<>>]),
        valid |-> TRUE]

(* mct_config_file_set_section_data                                        *)
SetSectionData(file, key, v) ==
  LET s == Len(file.sections)
  IN IF Len(file.sections[s].list) + 1 >= KeysMax THEN file
     ELSE [file EXCEPT !.sections[s].list =
                         Append(@, [key |-> key, data |-> v])]

(* mct_config_file_read_file: data after a header that was refused belongs *)
(* to no section.                                                          *)
ReadLine(file, line) ==
  CASE line.k = "section" -> SetSection(file, line.name)
    [] line.k = "data" /\ file.valid -> SetSectionData(file, line.key, line.data)
    [] OTHER -> file
ReadFile(lines) ==
  FoldLeft(ReadLine, [sections |-> <<>>, valid |-> FALSE], lines).sections

(* mct_config_file_get_value: the first section of that name, and in it    *)
(* the first entry with that key.                                          *)
FindSection(file, n) == SelectInSeq(file, LAMBDA s : s.name = n)
GetValue(file, n, key) ==
  LET s == FindSection(file, n)
      e == IF s = 0 THEN 0
           ELSE SelectInSeq(file[s].list, LAMBDA x : x.key = key)
  IN IF e = 0 THEN Absent ELSE file[s].list[e].data
=============================================================================
