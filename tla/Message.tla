------------------------------ MODULE Message ------------------------------
(***************************************************************************)
(* The payload of a log message: how the mct_user_log_write_* functions    *)
(* put arguments into the buffer of a log message, and how                 *)
(* mct_message_payload finds them again.                                   *)
(*                                                                         *)
(* A payload is a sequence of fields, each what one memcpy of the library  *)
(* wrote: its number of bytes and what they stand for.  A reader takes     *)
(* bytes from the front; when it takes another number of bytes than the    *)
(* field in front has, it is out of step, and what it prints from there on *)
(* is arbitrary.  Names and units are known by their sizes, terminating    *)
(* NUL included, 0 for none.  The text buffer of the reader is long enough.*)
(*                                                                         *)
(* An argument is                                                          *)
(*   [t |-> "BOOL", "SINT", "UINT" or "FLOA", w |-> bytes, fmt, attr, name,*)
(*    unit], [t |-> "RAWD", len, fmt, attr, name] or                       *)
(*   [t |-> "STRG", text, utf8, constant, attr, name]                      *)
(* where attr says that it was written by an *_attr function, fmt is the   *)
(* MctFormatType ("DEFAULT" unless by a *_formatted function) and text is  *)
(* the sequence of the widths of the characters.                           *)
(***************************************************************************)
EXTENDS Integers, FiniteSetsExt, SequencesExt

TruncatedLen == 36      \* STR_TRUNCATED_MESSAGE and its NUL

Field(size, v) == [size |-> size, v |-> v]
SizeOf(fields) == FoldLeft(LAMBDA n, f : n + f.size, 0, fields)
Present(fields) == SelectSeq(fields, LAMBDA f : f.size > 0)

-----------------------------------------------------------------------------
(* What each function writes: mct_user_log_write_float32 and so on, on a   *)
(* machine with 8-byte pointers.                                           *)
Number(t, w) ==
  [t |-> t, w |-> w, fmt |-> "DEFAULT", attr |-> FALSE, name |-> 0, unit |-> 0]
Named(a, name, unit) == [a EXCEPT !.attr = TRUE, !.name = name, !.unit = unit]
Float(w) == Number("FLOA", w)
FloatAttr(w, name, unit) == Named(Float(w), name, unit)
Uint(w) == Number("UINT", w)
UintAttr(w, name, unit) == Named(Uint(w), name, unit)
UintFormatted(w, fmt) == [Uint(w) EXCEPT !.fmt = fmt]
Pointer == UintFormatted(8, "HEX64")
Sint(w) == Number("SINT", w)
SintAttr(w, name, unit) == Named(Sint(w), name, unit)
Bool == Number("BOOL", 1)
BoolAttr(name) == Named(Bool, name, 0)
Raw(len, fmt) ==
  [t |-> "RAWD", len |-> len, fmt |-> fmt, attr |-> FALSE, name |-> 0]
RawAttr(len, fmt, name) == [Raw(len, fmt) EXCEPT !.attr = TRUE, !.name = name]
Text(widths, utf8) ==
  [t |-> "STRG", text |-> widths, utf8 |-> utf8, constant |-> FALSE,
   attr |-> FALSE, name |-> 0]
TextAttr(widths, utf8, name) ==
  [Text(widths, utf8) EXCEPT !.attr = TRUE, !.name = name]
Constant(a) == [a EXCEPT !.constant = TRUE]

-----------------------------------------------------------------------------
(* The library.  log is a MctContextData: the size of its buffer           *)
(* (mct_user.log_buf_len), verbose_mode, what the buffer holds and         *)
(* args_num; its handle and level are left out.                            *)

(* mct_user_log_write_start_init, mct_user_log_write_start_internal        *)
IsVerbose(mode, log) == mode = 1 \/ log.verbose
Started(max, verbose) ==
  [max |-> max, verbose |-> verbose, fields |-> <<>>, noar |-> 0]
StartLog(mode, max, verbose, id) ==
  LET log == Started(max, verbose)
  IN IF IsVerbose(mode, log) \/ max < 4 THEN log
     ELSE [log EXCEPT !.fields = <<Field(4, id)>>]
(* mct_user_log_write_start_w_given_buffer: the application has encoded    *)
(* the arguments itself; not in non-verbose mode.                          *)
GivenAccepted(mode, max, given) ==
  SizeOf(given.fields) \in 1 .. max /\ given.noar > 0 /\ mode = 1
StartGiven(max, given) ==
  [Started(max, TRUE) EXCEPT !.fields = given.fields, !.noar = given.noar]

Fits(log, n) == SizeOf(log.fields) + n <= log.max
Put(log, fields) ==
  [log EXCEPT !.fields = @ \o Present(fields), !.noar = @ + 1]
Ok(log)   == [ret |-> "OK", log |-> log]
Full(log) == [ret |-> "USER_BUFFER_FULL", log |-> log]

Scod(fmt) ==
  CASE fmt \in {"HEX8", "HEX16", "HEX32", "HEX64"} -> "HEX"
    [] fmt \in {"BIN8", "BIN16"} -> "BIN"
    [] OTHER -> "NONE"
TypeInfo(a, scod) ==
  Field(4, [t |-> a.t, w |-> IF a.t \in {"RAWD", "STRG"} THEN 0 ELSE a.w,
            scod |-> scod, vari |-> a.attr])

(* The lengths of name and unit, and name and unit.                        *)
Attributes(a, withUnit) ==
  IF ~a.attr THEN <<>>
  ELSE IF withUnit
       THEN <<Field(2, a.name), Field(2, a.unit), Field(a.name, a.name),
              Field(a.unit, a.unit)>>
       ELSE <<Field(2, a.name), Field(a.name, a.name)>>

(* mct_user_log_write_generic_attr, mct_user_log_write_generic_formatted   *)
WriteNumber(mode, log, a) ==
  LET value == <<Field(a.w, a)>>
      all == IF IsVerbose(mode, log)
             THEN <<TypeInfo(a, Scod(a.fmt))>> \o Attributes(a, a.t # "BOOL") \o value
             ELSE value
  IN IF Fits(log, SizeOf(all)) THEN {Ok(Put(log, all))} ELSE {Full(log)}

(* mct_user_log_write_raw_internal                                         *)
WriteRaw(mode, log, a) ==
  LET data == Field(a.len, a)
      all == IF IsVerbose(mode, log)
             THEN <<TypeInfo(a, Scod(a.fmt)), Field(2, a.len)>>
                  \o Attributes(a, FALSE) \o <<data>>
             ELSE <<Field(2, a.len), data>>
      needed == a.len + 2 + IF ~IsVerbose(mode, log) THEN 0
                            ELSE 4 + IF a.attr THEN 2 + a.name ELSE 0
  IN IF Fits(log, needed) THEN {Ok(Put(log, all))} ELSE {Full(log)}

TextLen(text) == FoldLeft(LAMBDA n, w : n + w, 0, text)
(* What byte i of a text is: 1 for a character of one byte, 2, 3, 4 for    *)
(* the first byte of a longer one, 0 for a byte that continues one; any of *)
(* these before the text.                                                  *)
Starts(text) == {1 + TextLen(SubSeq(text, 1, j)) : j \in 0 .. Len(text) - 1}
ByteAt(text, i) ==
  IF i < 1 THEN 0 .. 4
  ELSE IF i \in Starts(text)
       THEN {text[1 + Cardinality({s \in Starts(text) : s < i})]} ELSE {0}

(* The bytes to leave out so that a cut after byte keep does not split a   *)
(* character.  (A number greater than keep, read from before the text,     *)
(* would make the copy below fail in any case.)                            *)
Reduction(last, tmp1, tmp0) ==
  CASE last \in {2, 3, 4} -> 1
    [] last = 0 /\ tmp1 \in {3, 4} -> 2
    [] last = 0 /\ tmp1 \notin {3, 4} /\ tmp0 = 4 -> 3
    [] OTHER -> 0
Reductions(a, keep) ==
  IF ~a.utf8 THEN {0}
  ELSE {Reduction(l, t1, t0) : l \in ByteAt(a.text, keep),
          t1 \in ByteAt(a.text, keep - 1), t0 \in ByteAt(a.text, keep - 2)}
       \cap 0 .. keep

(* mct_user_log_write_sized_string_utils_attr: cut is the number of bytes  *)
(* of the text that are kept.                                              *)
String(mode, log, a, size, cut, written) ==
  LET value == Field(written, [arg |-> a, cut |-> cut])
  IN IF IsVerbose(mode, log)
     THEN <<TypeInfo(a, IF a.utf8 THEN "UTF8" ELSE "NONE"), Field(2, size)>>
          \o Attributes(a, FALSE) \o <<value>>
     ELSE <<Field(2, size), value>>
WriteString(mode, log, a) ==
  LET len == TextLen(a.text)
      room == log.max - SizeOf(log.fields) - 2
              - IF ~IsVerbose(mode, log) THEN 0
                ELSE 4 + IF a.attr THEN 2 + a.name ELSE 0
      keep == room - TruncatedLen
  IN IF a.constant /\ ~IsVerbose(mode, log) THEN {Ok(log)}
     ELSE IF len + 1 <= room
     THEN {Ok(Put(log, String(mode, log, a, len + 1, len, len + 1)))}
     ELSE IF keep < 0 THEN {Full(log)}
     ELSE {Full(Put(log, String(mode, log, a, room - r, keep - r,
                                keep - r + TruncatedLen))) :
             r \in Reductions(a, keep)}

(* The results of one mct_user_log_write_* call.                           *)
Written(mode, log, a) ==
  CASE a.t = "RAWD" -> WriteRaw(mode, log, a)
    [] a.t = "STRG" -> WriteString(mode, log, a)
    [] OTHER -> WriteNumber(mode, log, a)

-----------------------------------------------------------------------------
(* The headers of mct_user_log_send_log.  The library's options: opt is    *)
(* the set of "ecu", "seid", "tmsp" and "ext" (extended header for         *)
(* non-verbose messages).                                                  *)

UserHeader == 8
SerialHeader == 4
HeaderLen(verbose, opt) ==
  4 + 4 * Cardinality(opt \cap {"ecu", "seid", "tmsp"})
    + IF verbose \/ "ext" \in opt THEN 10 ELSE 0

(* The message built from log, standing for the bytes of its headers and   *)
(* payload.                                                                *)
LogMessage(mode, log, opt, msbf) ==
  LET verbose == IsVerbose(mode, log)
  IN [head |-> HeaderLen(verbose, opt), size |-> SizeOf(log.fields),
      verbose |-> verbose, noar |-> log.noar % 256, msbf |-> msbf,
      fields |-> log.fields]
Huge(m) == m.head + m.size > 65535

-----------------------------------------------------------------------------
(* The reader of a payload: r is what is left of it, the value read last,  *)
(* what was printed, and whether it goes on ("ok"), the payload was too    *)
(* short ("error") or it is out of step ("misread").                       *)

(* MCT_MSG_READ_VALUE and the skipping of n bytes                          *)
Take(r, n) ==
  IF n = 0 \/ r.st # "ok" THEN r
  ELSE IF r.fields = <<>> THEN [r EXCEPT !.st = "error"]
  ELSE IF Head(r.fields).size # n THEN [r EXCEPT !.st = "misread"]
  ELSE [r EXCEPT !.fields = Tail(@), !.v = Head(r.fields).v]

(* Take the length n that was read last, if the reader is in step.         *)
TakeLength(r) == IF r.st = "ok" THEN Take(r, r.v) ELSE r

(* The names: one length and the name; or two lengths, name and unit.      *)
SkipName(r, ti) == IF ti.vari THEN TakeLength(Take(r, 2)) ELSE r
SkipNameAndUnit(r, ti) ==
  LET name == Take(r, 2)
      unit == Take(name, 2)
  IN IF ~ti.vari THEN r
     ELSE IF unit.st = "ok" THEN Take(Take(unit, name.v), unit.v) ELSE unit

Printed(r, converted) ==
  IF r.st # "ok" THEN r
  ELSE [r EXCEPT !.out = Append(@, [v |-> r.v, converted |-> converted])]
(* Data whose length was read before the name.                             *)
Counted(r, ti) ==
  LET len == Take(r, 2)
      name == SkipName(len, ti)
  IN IF name.st = "ok" THEN Take(name, len.v) ELSE name

(* mct_message_argument_print, for the types the library writes: a number  *)
(* in binary or hexadecimal format is not converted from the byte order of *)
(* the sender; a binary format reads one or two bytes only.                *)
PrintText(r, ti) == Printed(Counted(r, ti), TRUE)
PrintBool(r, ti) == Printed(Take(SkipName(r, ti), 1), TRUE)
PrintBinary(r, ti) ==
  IF ti.w \in {1, 2} THEN Printed(Take(r, ti.w), ti.w = 1)
  ELSE [r EXCEPT !.out = Append(@, [v |-> "nothing", converted |-> TRUE])]
PrintHex(r, ti) == Printed(Take(r, ti.w), ti.w = 1)
(* Mutant: the unit of an integer is not skipped.                          *)
PrintIntegerNoUnit(r, ti) == Printed(Take(SkipName(r, ti), ti.w), TRUE)
PrintInteger(r, ti) == Printed(Take(SkipNameAndUnit(r, ti), ti.w), TRUE)
PrintFloat(r, ti) == Printed(Take(SkipNameAndUnit(r, ti), ti.w), TRUE)
PrintRaw(r, ti) == Printed(Counted(r, ti), TRUE)
ArgumentPrint(r, ti) ==
  CASE ti.t = "STRG" -> PrintText(r, ti)
    [] ti.t = "BOOL" -> PrintBool(r, ti)
    [] ti.t = "UINT" /\ ti.scod = "BIN" -> PrintBinary(r, ti)
    [] ti.t = "UINT" /\ ti.scod = "HEX" -> PrintHex(r, ti)
    [] ti.t \in {"SINT", "UINT"} /\ ti.scod = "NONE" -> PrintInteger(r, ti)
    [] ti.t = "FLOA" -> PrintFloat(r, ti)
    [] ti.t = "RAWD" -> PrintRaw(r, ti)

(* mct_message_payload, ASCII: the message id of a non-verbose message, or *)
(* the arguments of a verbose one.                                         *)
Payload(m) ==
  LET start == [fields |-> m.fields, v |-> 0, out |-> <<>>, st |-> "ok"]
      Argument(r, i) ==
        LET ti == Take(r, 4)
        IN IF ti.st = "ok" THEN ArgumentPrint(ti, ti.v) ELSE ti
  IN IF m.verbose THEN FoldLeft(Argument, start, [i \in 1 .. m.noar |-> i])
     ELSE Printed(Take(start, 4), TRUE)
=============================================================================
