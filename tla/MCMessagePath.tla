--------------------------- MODULE MCMessagePath ---------------------------
(* Configurations of MessagePath for TLC.  Each is small in what it does   *)
(* and has the sizes at which its case happens.                            *)
EXTENDS MessagePath

LogItem(id, verbose, args) ==
  [op |-> "log", id |-> id, verbose |-> verbose, args |-> args]
(* A log message of a given payload size, in one argument.                 *)
LogOf(size) == LogItem(9, TRUE, <<Raw(size - 6, "DEFAULT")>>)
(* An argument as the application encodes it by itself.                    *)
GivenItem(args) ==
  LET w(l, a) == CHOOSE r \in Written(1, l, a) : TRUE
      built == FoldLeft(LAMBDA l, a : w(l, a).log, Started(65535, TRUE), args)
  IN [op |-> "given", args |-> args, fields |-> built.fields]
Item0(kind, desc) == [op |-> kind, desc |-> desc]

Base ==
  [script |-> <<>>, toggles |-> 0, opts |-> {{}}, bufLen |-> 1390,
   pipe |-> 65536, cuts |-> {}, msbf |-> FALSE, serial |-> FALSE,
   resync |-> FALSE, noise |-> 0, requests |-> <<>>, chunks |-> {65535}]

(* Every kind of argument, in verbose and non-verbose mode, with the mode  *)
(* changing at any time.                                                   *)
ArgumentItems ==
  {LogItem(1, TRUE, <<BoolAttr(6), SintAttr(4, 6, 3), UintFormatted(2, "HEX16"),
                      UintFormatted(1, "BIN8"), UintAttr(8, 4, 2), Pointer>>),
   LogItem(2, FALSE, <<FloatAttr(8, 6, 3), UintFormatted(4, "BIN16"), Bool,
                       Constant(Text(<<1, 1, 1>>, FALSE))>>),
   LogItem(3, FALSE, <<RawAttr(7, "HEX8", 5), TextAttr(<<1, 2, 3>>, TRUE, 7),
                       Sint(8), Float(4)>>),
   GivenItem(<<Uint(4), Raw(3, "DEFAULT")>>)}
Arguments ==
  {[Base EXCEPT !.toggles = 2, !.msbf = TRUE,
      !.opts = {{}, {"ecu", "tmsp"}, {"seid", "ext"}},
      !.script = << <<item>> >>] : item \in ArgumentItems}

(* Texts that meet the end of the buffer at every place of a character,    *)
(* and arguments that do not fit at all.                                   *)
Truncated ==
  {[Base EXCEPT !.bufLen = 100,
      !.script = << <<LogItem(1, TRUE,
        <<Raw(n, "DEFAULT"),
          Text(<<1, 4, 1, 3, 2, 1, 3, 4, 2>> \o [j \in 1 .. 30 |-> 1], TRUE),
          Raw(60, "DEFAULT")>>)>> >>] : n \in 29 .. 53}

(* More than one read takes, from two processes.                           *)
Split ==
  [Base EXCEPT !.bufLen = 6000,
     !.script = << <<LogOf(4980), Item0("REGISTER_CONTEXT", 60),
                     Item0("UNREGISTER_CONTEXT", 0)>>,
                   <<LogOf(4900), Item0("REGISTER_APPLICATION", 30)>> >>]

(* Markers, long descriptions and log messages longer than a read.         *)
Others ==
  [Base EXCEPT !.bufLen = 65535,
     !.script = << <<Item0("REGISTER_APPLICATION", 300), Item0("MARKER", 0),
                     LogOf(50), Item0("OVERFLOW", 0)>>,
                   <<LogOf(24000), LogOf(65530)>> >>]

(* Both directions of a connection with serial headers, cut anywhere.      *)
ToClientLine ==
  [Base EXCEPT !.serial = TRUE, !.chunks = {1, 29, 65535},
     !.script = << <<LogOf(20), LogOf(26)>> >>]
ToDaemonLine ==
  [Base EXCEPT !.serial = TRUE, !.requests = <<12, 30, 20>>,
     !.chunks = {1, 13, 40}]
Noisy(line) == [line EXCEPT !.resync = TRUE, !.noise = 6]
Lines == {ToClientLine, Noisy(ToClientLine), ToDaemonLine, Noisy(ToDaemonLine)}

(* A FIFO that takes only a part of a long message.                        *)
FullPipe ==
  [Base EXCEPT !.bufLen = 9500, !.pipe = 16384, !.cuts = {4096},
     !.script = << <<LogOf(6000), LogOf(5000), LogOf(8000)>> >>]

AllConfigurations ==
  Arguments \cup Truncated \cup Lines \cup {Split, Others, FullPipe}
SplitConfigurations == {Split}
=============================================================================
