------------------------------ MODULE LogReader ------------------------------
(***************************************************************************)
(* Log entries between the writer and the reader.  A format string is read *)
(* by three functions of the compiler (mms/log/varadic.h), which fix the   *)
(* argument types of an entry, and by createLogsString (core/src/log.cpp), *)
(* which takes the arguments out of the file again.  readnextstring puts   *)
(* the entries of several threads into order of time.                      *)
(*                                                                         *)
(* A format string is a sequence of characters.  "d" stands for d and i,   *)
(* "u" for u, o, x and X, a lower case custom letter for both cases, "_"   *)
(* for a character without a meaning and "0" for the terminating zero.     *)
(***************************************************************************)
EXTENDS Integers, Sequences, SequencesExt

CONSTANTS Letters,       \* characters of the format strings
          MaxFormat,     \* bound: their length
          Times,         \* timestamps
          buffer_time,   \* buffer_time_in_nanos
          MaxRead        \* bound: entries in the file

ASSUME ReaderAssumption == Times \subseteq Nat /\ buffer_time \in Nat /\ MaxRead \in Nat

VARIABLES fmt,           \* a format string
          seen,          \* timestamps in the order of the file
          priqueue,      \* entries held back: <<timestamp, number>>
          shown          \* timestamps in the order of display
readerVars == <<fmt, seen, priqueue, shown>>

-----------------------------------------------------------------------------
\* Argument types of the conversions: type_list and check_formatstring_helper
\* have the same table.
Signed   == [NONE |-> "int32_t", h |-> "int16_t", hh |-> "int8_t", l |-> "int64_t", ll |-> "int64_t"]
Unsigned == [NONE |-> "uint32_t", h |-> "uint16_t", hh |-> "uint8_t", l |-> "uint64_t", ll |-> "uint64_t"]
Char     == [NONE |-> "int8_t", l |-> "uint16_t"]
Float    == [h |-> "float_t", NONE |-> "double_t", L |-> "longdouble_t"]
Conversion == [d |-> Signed, u |-> Unsigned, c |-> Char, f |-> Float, F |-> Float]
Custom == [n |-> "ipv6_socket_addr_t", i |-> "ipv6_addr_t", p |-> "ipv6_port_t", e |-> "int32_t",
           E |-> "err_t", g |-> "guid_t", v |-> "uint32_t", c |-> "int32_t", m |-> "module_t",
           l |-> "logger_level_t"]
Modified(mod, c) == IF mod # c THEN c ELSE IF c = "h" THEN "hh" ELSE "ll"

\* formatstring_count: the arguments, whatever the modifiers are.
formatstring_count(s) ==
  LET step(a, c) ==
        CASE a.state = "COPY" -> [a EXCEPT !.state = IF c = "%" THEN "SPECIFIER" ELSE @]
          [] a.state = "SPECIFIER" /\ c = "%" -> [a EXCEPT !.state = "COPY"]
          [] a.state = "SPECIFIER" /\ c = "v" -> [a EXCEPT !.state = "CUSTOM"]
          [] \/ a.state = "SPECIFIER" /\ c \in DOMAIN Conversion
             \/ a.state = "CUSTOM" /\ c \in DOMAIN Custom -> [count |-> a.count + 1, state |-> "COPY"]
          [] OTHER -> a
  IN  FoldLeft(step, [state |-> "COPY", count |-> 0], s).count

Start == [state |-> "COPY", mod |-> "NONE", types |-> <<>>]
Enters(a, state) == [state |-> state, mod |-> a.mod, types |-> a.types]
Adds(a, type) == [state |-> a.state, mod |-> a.mod, types |-> Append(a.types, type)]
Takes(a, type) == Adds(Enters(a, "COPY"), type)
Begins(a) == [state |-> "SPECIFIER", mod |-> "NONE", types |-> a.types]
Modifies(a, c) == [state |-> a.state, mod |-> Modified(a.mod, c), types |-> a.types]

\* formatstring_type_list at one character: a bad type for what it does not
\* know; a modifier that the character conversion does not have adds nothing.
TypeConverted(a, c) ==
  IF a.mod \in DOMAIN Conversion[c] THEN Takes(a, Conversion[c][a.mod])
  ELSE IF c \in {"f", "F"} THEN Takes(a, "bad_type") ELSE Enters(a, "COPY")
TypeStep(a, c) ==
  CASE a.state = "COPY" -> IF c = "%" THEN Begins(a) ELSE a
    [] a.state = "CUSTOM" -> Takes(a, IF c \in DOMAIN Custom THEN Custom[c] ELSE "bad_type")
    [] a.state = "SPECIFIER" /\ c = "%" -> Enters(a, "COPY")
    [] a.state = "SPECIFIER" /\ c \in DOMAIN Conversion -> TypeConverted(a, c)
    [] a.state = "SPECIFIER" /\ c = "v" /\ a.mod = "NONE" -> Enters(a, "CUSTOM")
    [] a.state = "SPECIFIER" /\ c \in {"h", "l"} /\ a.mod \in {"NONE", c} -> Modifies(a, c)
    [] OTHER -> Adds(a, "bad_type")

\* The states before and after each character, and the types at the end.
TypeStates(s) ==
  LET after[i \in 0..Len(s)] == IF i = 0 THEN Start ELSE TypeStep(after[i - 1], s[i])
  IN  after
formatstring_type_list(s) ==
  LET end == TypeStates(s)[Len(s)]
  IN  IF end.state = "COPY" THEN end.types ELSE Adds(end, "bad_type").types

type_list_check(types) == \A i \in 1..Len(types) : types[i] # "bad_type"

\* check_formatstring_helper: the arguments against the string; `types` holds
\* the ones it has passed.  It wants an argument left even for a "%%".
check_formatstring_helper(s, args) ==
  LET fits(a, type) == Len(a.types) < Len(args) /\ args[Len(a.types) + 1] = type
      fail(a) == Enters(a, "ERROR")
      step(a, c) ==
        CASE a.state = "ERROR" -> a
          [] a.state = "COPY" -> IF c = "%" THEN Begins(a) ELSE a
          [] a.state = "CUSTOM" ->
               IF c \in DOMAIN Custom /\ fits(a, Custom[c]) THEN Takes(a, Custom[c]) ELSE fail(a)
          [] Len(a.types) = Len(args) -> fail(a)
          [] c = "%" /\ a.mod = "NONE" -> Enters(a, "COPY")
          [] c \in DOMAIN Conversion ->
               IF a.mod \in DOMAIN Conversion[c] /\ fits(a, Conversion[c][a.mod])
               THEN Takes(a, Conversion[c][a.mod]) ELSE fail(a)
          [] c = "v" /\ a.mod = "NONE" -> Enters(a, "CUSTOM")
          [] c \in {"h", "l"} /\ a.mod \in {"NONE", c} -> Modifies(a, c)
          [] c = "L" /\ a.mod = "NONE" -> [a EXCEPT !.mod = "L"]
          [] OTHER -> fail(a)
  IN  FoldLeft(step, Start, s).state # "ERROR"

\* An entry that compiles: the static_asserts of log_description and of
\* logger_logs_entry; without arguments check_formatstring_args is not used.
Compiles(s) ==
  LET z == Append(s, "0")
      types == formatstring_type_list(z)
  IN  /\ type_list_check(types) /\ formatstring_count(z) = Len(types)
      /\ types = <<>> \/ check_formatstring_helper(z, types)

-----------------------------------------------------------------------------
\* Mutated: a second l makes the conversion a plain one again.
ReadsLongAsInt(a, c) ==
  IF a.mod \in DOMAIN Conversion[c]
  THEN Takes(a, Conversion[c][IF a.mod = "ll" THEN "NONE" ELSE a.mod])
  ELSE Enters(a, "COPY")

\* The integer conversions of createLogsString.
ReadsInteger(a, c) ==
  IF a.mod \in DOMAIN Conversion[c] THEN Takes(a, Conversion[c][a.mod])
  ELSE Enters(a, "COPY")

\* createLogsString at one character.  f without l is read as a float; c stays
\* in SPECIFIER; F and L are ignored.
ReadStep(a, c) ==
  CASE a.state = "COPY" -> IF c = "%" THEN Begins(a) ELSE a
    [] a.state = "CUSTOM" -> IF c \in DOMAIN Custom THEN Takes(a, Custom[c])
                             ELSE Enters(a, "COPY")
    [] a.state = "SPECIFIER" /\ c \in {"d", "u"} -> ReadsInteger(a, c)
    [] a.state = "SPECIFIER" /\ c = "f" -> Takes(a, IF a.mod = "l" THEN "double_t" ELSE "float_t")
    [] a.state = "SPECIFIER" /\ c = "c" -> Adds(a, "int8_t")
    [] a.state = "SPECIFIER" /\ c = "v" -> Enters(a, "CUSTOM")
    [] a.state = "SPECIFIER" /\ c \in {"h", "l"} -> Modifies(a, c)
    [] OTHER -> Enters(a, "COPY")

ReadStates(s) ==
  LET after[i \in 0..Len(s)] == IF i = 0 THEN Start ELSE ReadStep(after[i - 1], s[i])
  IN  after

\* The types it takes out of the arguments.
createLogsString(s) == ReadStates(s)[Len(s)].types

-----------------------------------------------------------------------------
(***************************************************************************)
(* readnextstring on a complete file.                                      *)
(***************************************************************************)
ReaderInit == fmt = <<>> /\ seen = <<>> /\ priqueue = {} /\ shown = <<>>

\* Another character of a format string.
Letter ==
  /\ seen = <<>> /\ Len(fmt) < MaxFormat
  /\ \E c \in Letters : fmt' = Append(fmt, c)
  /\ UNCHANGED <<seen, priqueue, shown>>

Top(q) == CHOOSE e \in q : \A x \in q : e[1] < x[1] \/ (e[1] = x[1] /\ e[2] <= x[2])
Distance(a, b) == IF a < b THEN b - a ELSE a - b

\* readnext finds an entry: it is queued, and the oldest one is shown once the
\* new one is buffer_time away from the one that was on top.
ReadEntry ==
  /\ fmt = <<>> /\ Len(seen) < MaxRead
  /\ \E t \in Times :
       LET q == priqueue \cup {<<t, Len(seen)>>}
           away == priqueue # {} /\ Distance(Top(priqueue)[1], t) >= buffer_time
       IN  /\ seen' = Append(seen, t)
           /\ priqueue' = (IF away THEN q \ {Top(q)} ELSE q)
           /\ shown' = (IF away THEN Append(shown, Top(q)[1]) ELSE shown)
  /\ UNCHANGED fmt

\* The end of the file: every further call shows the oldest entry.
ReadEnd ==
  /\ priqueue # {} /\ Len(seen) = MaxRead
  /\ priqueue' = priqueue \ {Top(priqueue)} /\ shown' = Append(shown, Top(priqueue)[1])
  /\ UNCHANGED <<fmt, seen>>

ReaderNext == Letter \/ ReadEntry \/ ReadEnd
ReaderSpec == ReaderInit /\ [][ReaderNext]_readerVars

-----------------------------------------------------------------------------
\* The reader takes the arguments of an entry out as the writer stored them: a
\* format string that compiles, and has no %c, %f or %F, gives both the same
\* types (log.cpp:374-513, varadic.h:131-330, 381-600).  And entries that are
\* less than buffer_time out of order in the file are shown in order of time
\* (log.cpp:553-597).
ReaderFaithful ==
  /\ (Compiles(fmt) /\ ~\E i \in 1..Len(fmt) : fmt[i] \in {"f", "F", "c"}) =>
       createLogsString(fmt) = formatstring_type_list(Append(fmt, "0"))
  /\ (\A i, j \in 1..Len(seen) : i < j => seen[i] - seen[j] < buffer_time) =>
       \A i, j \in 1..Len(shown) : i < j => shown[i] <= shown[j]
=============================================================================
