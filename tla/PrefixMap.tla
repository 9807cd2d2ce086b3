------------------------------ MODULE PrefixMap ------------------------------
(***************************************************************************)
(* prefixmap (mms/ds/prefixmap.h): the tree in which a configuration looks *)
(* up the handler of a path.  An entry is named by the whole string from   *)
(* the root to the end of its match, so the tree is a function from such   *)
(* strings to values: an entry's parent is the longest one that is a       *)
(* proper prefix, its child character and match are what follows.  The     *)
(* root is the shortest one.                                               *)
(***************************************************************************)
EXTENDS Integers, Sequences, SequencesExt

CONSTANTS Characters,
          Paths,      \* keys that are inserted
          Requests,   \* keys that are searched
          emptyvalue,
          MaxPaths    \* bound: insertions

ASSUME PrefixAssumption ==
  Paths \subseteq Seq(Characters) /\ Requests \subseteq Seq(Characters) /\ emptyvalue \notin Nat \ {0}

VARIABLES tree,       \* the entries
          inserted    \* keys and values in the order of insertion
prefixVars == <<tree, inserted>>

\* No entry has a match or a child: the root alone, with or without a value.
NoTree == [p \in {<<>>} |-> emptyvalue]
Bare(t) == DOMAIN t = {<<>>}

Longest(S) == CHOOSE s \in S : \A p \in S : Len(p) <= Len(s)

\* The walk of insert stops where the key leaves the strings of the tree.
Common(t, key) == Longest(Prefixes(key) \cap UNION {Prefixes(p) : p \in DOMAIN t})

\* breakmatch: the value goes down with the rest of the match, the entry that
\* stays has none.
breakmatch(t, at) == [p \in DOMAIN t \cup {at} |-> IF p \in DOMAIN t THEN t[p] ELSE emptyvalue]

\* insert.  Into a bare tree the key becomes the root's match, and a value the root had
\* is overwritten.
insert_path(t, key, value) ==
  LET u == breakmatch(t, Common(t, key))
  IN  IF Bare(t) THEN [p \in {key} |-> value]
      ELSE [p \in DOMAIN u \cup {key} |-> IF p = key THEN value ELSE u[p]]

\* Mutated: the child is entered without comparing the rest of its match.
SearchSkipsMatch(t, key) ==
  LET on == {p \in DOMAIN t : p \in Prefixes(key) \/ (key # <<>> /\ Len(p) > 0 /\ p[1] = key[1])}
  IN  IF on = {} THEN [value |-> emptyvalue, newkey |-> <<>>]
      ELSE [value |-> t[Longest(on)], newkey |-> SubSeq(key, Len(Longest(on)) + 1, Len(key))]

\* search: the value of the last entry the key passes completely, with a value
\* or without, and the rest of the key.
search(t, key) ==
  LET on == DOMAIN t \cap Prefixes(key)
  IN  IF on = {} THEN [value |-> emptyvalue, newkey |-> <<>>]
      ELSE [value |-> t[Longest(on)], newkey |-> SubSeq(key, Len(Longest(on)) + 1, Len(key))]

PrefixInit == tree = NoTree /\ inserted = <<>>

\* configuration_t::AddHandler, once for each path of the configuration.
AddHandler ==
  \E key \in Paths :
    /\ Len(inserted) < MaxPaths
    /\ \A i \in 1..Len(inserted) : inserted[i] # key
    /\ inserted' = Append(inserted, key)
    /\ tree' = insert_path(tree, key, Len(inserted) + 1)

PrefixSpec == PrefixInit /\ [][AddHandler]_prefixVars

-----------------------------------------------------------------------------
Value(key) == CHOOSE i \in 1..Len(inserted) : inserted[i] = key
Registered == {inserted[i] : i \in 1..Len(inserted)}

\* Whatever the order of the insertions: a path that was inserted is found with
\* its own value, and what any search returns is the value of an inserted prefix
\* of the path, together with the rest of the path (prefixmap.h:62-139).  The
\* empty path is excepted: the next insertion overwrites it.
PrefixSound ==
  /\ \A key \in Registered \ {<<>>} : search(tree, key) = [value |-> Value(key), newkey |-> <<>>]
  /\ Registered # {} => \A key \in Requests :
       LET r == search(tree, key) IN
       r.value # emptyvalue =>
         \E p \in Registered : p \o r.newkey = key /\ r.value = Value(p)
=============================================================================
