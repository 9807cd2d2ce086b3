----------------------------- MODULE HpackTable -----------------------------
(***************************************************************************)
(* The header tables of HTTP/2 (http/hpack.h: map_table_t, dynamic_table_t,*)
(* static_table) and their use by the encoder (http2.h:                    *)
(* copy_http_header_response) and the decoder (header_request::            *)
(* parse_header).                                                          *)
(*                                                                         *)
(* A header line is <<field, value>>.  Strings on the wire are those the   *)
(* reader obtains (HpackCodec models how it obtains them); a               *)
(* representation is a record.  Indices are the code's, from 0.            *)
(***************************************************************************)
EXTENDS Integers, Sequences, FiniteSets

CONSTANTS StaticTable,  \* the lines of HTTP2_STATIC_TABLE_LIST (62 in the code)
          NoValue       \* the empty string

StaticSize == Len(StaticTable)

\* entries; entry_value_map; entry_map (index, count); max_size.
NewTable(max) ==
  [entries |-> <<>>, values |-> <<>>, fields |-> <<>>, max_size |-> max]

size(t) == Len(t.entries)
Line(t, index) == t.entries[index + 1]

\* The functions below are unordered_map::insert (keeps a present key) and erase.
MapInsert(f, k, v) ==
  [x \in DOMAIN f \cup {k} |-> IF x \in DOMAIN f THEN f[x] ELSE v]
MapErase(f, k) == [x \in DOMAIN f \ {k} |-> f[x]]

\* The count of a field that is there.
Counted(fields, f, n) == [fields EXCEPT ![f].count = @ + n]

push_back(t, e) ==
  [t EXCEPT
    !.entries = Append(@, e),
    !.values  = IF e[2] = NoValue THEN @ ELSE MapInsert(@, e, size(t)),
    !.fields  = IF e[1] \in DOMAIN @
                THEN Counted(@, e[1], 1)
                ELSE MapInsert(@, e[1], [index |-> size(t), count |-> 1])]

\* Mutated: the field's count is not maintained.
PopBackKeepsField(t) ==
  LET e == t.entries[size(t)] IN
  [t EXCEPT
    !.entries = SubSeq(@, 1, size(t) - 1),
    !.values  = IF e[2] = NoValue THEN @ ELSE MapErase(@, e)]

pop_back(t) ==
  LET e == t.entries[size(t)] IN
  [t EXCEPT
    !.entries = SubSeq(@, 1, size(t) - 1),
    !.values  = IF e[2] = NoValue THEN @ ELSE MapErase(@, e),
    !.fields  = IF @[e[1]].count = 1 THEN MapErase(@, e[1])
                ELSE Counted(@, e[1], -1)]

clear(t) == [t EXCEPT !.entries = <<>>, !.values = <<>>, !.fields = <<>>]

\* The table after k times pop_back.
Shrunk(t) == LET f[k \in 0..size(t)] == IF k = 0 THEN t ELSE pop_back(f[k - 1]) IN f

\* Pop until new_size entries are left.
update_size(t, new_size) ==
  LET excess == IF size(t) > new_size THEN size(t) - new_size ELSE 0
  IN  IF t.max_size = new_size THEN t
      ELSE [Shrunk(t)[excess] EXCEPT !.max_size = new_size]

insert(t, e) == push_back(IF size(t) >= t.max_size THEN clear(t) ELSE t, e)

-----------------------------------------------------------------------------
(***************************************************************************)
(* The encoder.  static_table is filled through the initializer list, which*)
(* leaves its two maps empty: static_table.contains() is always false, and *)
(* the branches that use a static index are never taken.                   *)
(***************************************************************************)
Indexed(i)       == [kind |-> "indexed", index |-> i]
Literal(i, e, a) == [kind |-> "literal", index |-> i, line |-> e, add |-> a]
ByName           == -1  \* the name is spelled out
ResizeTo(n)      == [kind |-> "size", index |-> n]

copy_http_header_response(t, e, add_index) ==
  IF e \in DOMAIN t.values THEN [rep |-> Indexed(t.values[e]), table |-> t]
  ELSE IF e[1] \in DOMAIN t.fields
    THEN [rep |-> Literal(t.fields[e[1]].index, e, add_index), table |-> t]
  ELSE [rep   |-> Literal(ByName, e, add_index),
        table |-> IF add_index THEN insert(t, e) ELSE t]

(***************************************************************************)
(* The decoder: one representation.  "throws" is HPACKException.           *)
(***************************************************************************)
InRange(t, index) == index < StaticSize \/ index - StaticSize < size(t)
LineAt(t, index) ==
  IF index < StaticSize THEN StaticTable[index + 1] ELSE Line(t, index - StaticSize)

Decoded(t, rep) ==
  CASE rep.kind = "size" ->
         [throws |-> FALSE, lines |-> <<>>, table |-> update_size(t, rep.index)]
    [] rep.kind = "indexed" ->
         IF InRange(t, rep.index)
         THEN [throws |-> FALSE, lines |-> <<LineAt(t, rep.index)>>, table |-> t]
         ELSE [throws |-> TRUE, lines |-> <<>>, table |-> t]
    [] rep.kind = "literal" ->
         IF rep.index = ByName \/ InRange(t, rep.index)
         THEN LET f == IF rep.index = ByName THEN rep.line[1]
                       ELSE LineAt(t, rep.index)[1]
                  e == <<f, rep.line[2]>>
              IN  [throws |-> FALSE, lines |-> <<e>>,
                   table |-> IF rep.add THEN insert(t, e) ELSE t]
         ELSE [throws |-> TRUE, lines |-> <<>>, table |-> t]

-----------------------------------------------------------------------------
(***************************************************************************)
(* What the two maps promise to the encoder: every index they hold is one  *)
(* of the table's, at a line equal to the key (map_table_t::operator[]);   *)
(* the count that pop_back uses to forget a field is the number of lines   *)
(* with that field, and no field with a line is forgotten.  The table never*)
(* outgrows its limit, except that insert with max_size = 0 keeps one line.*)
(***************************************************************************)
TableSound(t) ==
  /\ \A e \in DOMAIN t.values : t.values[e] < size(t) /\ Line(t, t.values[e]) = e
  /\ \A f \in DOMAIN t.fields :
       /\ t.fields[f].index < size(t) /\ Line(t, t.fields[f].index)[1] = f
       /\ \A i \in 0..(t.fields[f].index - 1) : Line(t, i)[1] # f
  /\ \A i \in 1..size(t) :
       LET f == t.entries[i][1] IN
       /\ f \in DOMAIN t.fields
       /\ t.fields[f].count = Cardinality({j \in 1..size(t) : t.entries[j][1] = f})
  /\ size(t) <= (IF t.max_size = 0 THEN 1 ELSE t.max_size)
=============================================================================
