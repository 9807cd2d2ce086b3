---------------------------- MODULE CacheService ----------------------------
(***************************************************************************)
(* The cache service (library/cache/src/cache.cpp) on SplitOrderMap        *)
(* (library/lockfree): maps of strings by name, shared by all loop threads.*)
(* Every operation of a SplitOrderMap is one step, it runs under its       *)
(* bucket's lock; between two operations a request holds references the    *)
(* lock no longer protects.                                                *)
(*                                                                         *)
(* A map is a function from keys to nodes with its atomic size.  Bodies    *)
(* that are JSON objects are refused (cache.cpp:28); for the others the    *)
(* JSON library, which is external, yields some name, key and value or     *)
(* throws.                                                                 *)
(***************************************************************************)
EXTENDS Integers, Sequences, FiniteSets

CONSTANTS Threads, Names, Keys, Items,  \* loop threads, map names, keys, values
          MaxMaps, MaxNodes, MaxCalls   \* bounds

VARIABLES
  string_maps,  \* name -> number of a map
  maps,         \* the maps created: [node: key -> number of a node, size]
  nodes,        \* the nodes created: their values
  freedMaps, freedNodes,
  call,         \* per thread: the request under way
  acked,        \* <<name, key>> of the PUTs answered Created or OK
  removed,      \* a DELETE removed something
  again,        \* a PUT found its key
  fault,        \* freed or torn memory was used
  calls
cacheVars == <<string_maps, maps, nodes, freedMaps, freedNodes, call, acked, removed, again, fault, calls>>
store == <<string_maps, maps, nodes, freedMaps, freedNodes>>
ghosts == <<removed, again>>

None == [op |-> "none", pc |-> "idle", name |-> 0, key |-> 0, value |-> 0, map |-> 0, node |-> 0]
EmptyMap == [node |-> <<>>, size |-> 0]

CacheInit ==
  /\ string_maps = <<>> /\ maps = <<>> /\ nodes = <<>> /\ freedMaps = {} /\ freedNodes = {}
  /\ call = [t \in Threads |-> None]
  /\ acked = {} /\ removed = FALSE /\ again = FALSE /\ fault = FALSE /\ calls = 0

-----------------------------------------------------------------------------
\* Mutated: a key that is already there is linked a second time.
InsertAlways(f, k, v) == [x \in DOMAIN f \cup {k} |-> IF x = k THEN v ELSE f[x]]
\* SplitOrderMap::insert: refused when the key is there; remove.
insert(f, k, v) == [x \in DOMAIN f \cup {k} |-> IF x \in DOMAIN f THEN f[x] ELSE v]
remove(f, k) == [x \in DOMAIN f \ {k} |-> f[x]]
contains(f, k) == k \in DOMAIN f

Running(t, pc) == ~fault /\ call[t].pc = pc
Set(t, c) == call' = [call EXCEPT ![t] = c]
Goto(t, pc) == Set(t, [call[t] EXCEPT !.pc = pc])
Answered(t) == Set(t, None)

\* A request: another api and an unsupported method are not found, an object is
\* a bad gateway, and rohit::json::Parse and the accessors may throw.
Refused(t) ==
  /\ Running(t, "idle") /\ calls < MaxCalls /\ calls' = calls + 1
  /\ UNCHANGED <<store, call, acked, ghosts, fault>>

First == [POST |-> "contains", DELETE |-> "remove", DELETEKEY |-> "find", PUT |-> "find", GET |-> "find"]

\* A body that is no object.  The response is written into the caller's stream
\* before the map is changed; the REST handler's stream has no capacity, and
\* the thread does not come back from it (stream.h:219-230).
CallAPI(t) ==
  /\ Running(t, "idle") /\ calls < MaxCalls /\ calls' = calls + 1
  /\ \E op \in DOMAIN First, n \in Names, k \in Keys, v \in Items :
       Set(t, [None EXCEPT !.op = op, !.pc = First[op], !.name = n, !.key = k, !.value = v])
  /\ UNCHANGED <<store, acked, ghosts, fault>>

\* responsedata.Write on FullStreamAutoAlloc{}: the doubling of zero never ends.
Hang(t) ==
  /\ ~fault
  /\ \/ call[t].op \in {"POST", "DELETE"} /\ call[t].pc \in {"contains", "remove"}
     \/ call[t].pc \in {"removeKey", "insertKey", "swap", "read"}
  /\ Goto(t, "hung")
  /\ UNCHANGED <<store, acked, ghosts, fault, calls>>

\* POST: contains, then insert of an empty map, whose result is not looked at.
PostContains(t) ==
  /\ Running(t, "contains")
  /\ IF contains(string_maps, call[t].name) THEN Answered(t) ELSE Goto(t, "insert")
  /\ UNCHANGED <<store, acked, ghosts, fault, calls>>
PostInsert(t) ==
  /\ Running(t, "insert") /\ Len(maps) < MaxMaps
  /\ maps' = Append(maps, EmptyMap)
  /\ string_maps' = insert(string_maps, call[t].name, Len(maps) + 1)
  /\ Answered(t)
  /\ UNCHANGED <<nodes, freedMaps, freedNodes, acked, ghosts, fault, calls>>

\* DELETE of a map: its node is freed; the nodes of its keys are leaked.
DeleteMap(t) ==
  /\ Running(t, "remove")
  /\ freedMaps' = freedMaps \cup (IF contains(string_maps, call[t].name)
                                  THEN {string_maps[call[t].name]} ELSE {})
  /\ string_maps' = remove(string_maps, call[t].name)
  /\ removed' = (removed \/ freedMaps' # freedMaps)
  /\ Answered(t)
  /\ UNCHANGED <<maps, nodes, freedNodes, acked, again, fault, calls>>

\* string_maps.find: the reference outlives the lock.
FindMap(t) ==
  /\ Running(t, "find")
  /\ IF contains(string_maps, call[t].name)
     THEN Set(t, [call[t] EXCEPT !.map = string_maps[call[t].name],
                                 !.pc = IF call[t].op = "DELETEKEY" THEN "removeKey" ELSE "findKey"])
     ELSE Answered(t)
  /\ UNCHANGED <<store, acked, ghosts, fault, calls>>

\* The reference is used: a map that was freed in between is a fault.
Uses(t, pc) == Running(t, pc) /\ fault' = (call[t].map \in freedMaps)

DeleteKey(t) ==
  LET c == call[t]
      there == contains(maps[c.map].node, c.key)
  IN  /\ Uses(t, "removeKey")
      /\ freedNodes' = freedNodes \cup (IF there THEN {maps[c.map].node[c.key]} ELSE {})
      /\ maps' = [maps EXCEPT ![c.map] = [node |-> remove(@.node, c.key),
                                          size |-> IF there THEN @.size - 1 ELSE @.size]]
      /\ removed' = (removed \/ there)
      /\ Answered(t)
      /\ UNCHANGED <<string_maps, nodes, freedMaps, acked, again, calls>>

\* GET answers Not_Found for an absent key.
FindKey(t) ==
  LET c == call[t]
      there == contains(maps[c.map].node, c.key)
  IN  /\ Uses(t, "findKey")
      /\ \/ there /\ Set(t, [c EXCEPT !.node = maps[c.map].node[c.key],
                                      !.pc = IF c.op = "PUT" THEN "swap" ELSE "read"])
         \/ ~there /\ c.op = "PUT" /\ Goto(t, "insertKey")
         \/ ~there /\ c.op = "GET" /\ Answered(t)
      /\ again' = (again \/ (there /\ c.op = "PUT"))
      /\ UNCHANGED <<store, acked, removed, calls>>

\* PUT of a new key: Created, also when another PUT was first and insert
\* deletes the new node.
InsertKey(t) ==
  LET c == call[t]
      m == insert(maps[c.map].node, c.key, Len(nodes) + 1)
  IN  /\ Uses(t, "insertKey") /\ Len(nodes) < MaxNodes
      /\ nodes' = Append(nodes, c.value)
      /\ maps' = [maps EXCEPT ![c.map] =
           [node |-> m, size |-> IF m = @.node THEN @.size ELSE @.size + 1]]
      /\ acked' = acked \cup {<<c.name, c.key>>}
      /\ Answered(t)
      /\ UNCHANGED <<string_maps, freedMaps, freedNodes, ghosts, calls>>

\* std::swap into the node, and the copy of its value into the response, both
\* without a lock: begun in one step and ended in another.
Writes(t) == call[t].pc \in {"swap", "swapping"}
Access(t) ==
  LET c == call[t] IN
  /\ ~fault /\ c.pc \in {"swap", "read"}
  /\ Goto(t, IF c.pc = "swap" THEN "swapping" ELSE "reading")
  /\ fault' = (\/ c.node \in freedNodes
               \/ \E u \in Threads \ {t} : /\ call[u].pc \in {"swapping", "reading"}
                                           /\ call[u].node = c.node /\ (Writes(t) \/ Writes(u)))
  /\ UNCHANGED <<store, acked, ghosts, calls>>
AccessEnds(t) ==
  LET c == call[t] IN
  /\ ~fault /\ c.pc \in {"swapping", "reading"}
  /\ fault' = (c.node \in freedNodes)
  /\ nodes' = (IF c.pc = "swapping" THEN [nodes EXCEPT ![c.node] = c.value] ELSE nodes)
  /\ acked' = (IF c.pc = "swapping" THEN acked \cup {<<c.name, c.key>>} ELSE acked)
  /\ Answered(t)
  /\ UNCHANGED <<string_maps, maps, freedMaps, freedNodes, ghosts, calls>>

CacheNext == \E t \in Threads :
  \/ Refused(t) \/ CallAPI(t) \/ Hang(t) \/ PostContains(t) \/ PostInsert(t) \/ DeleteMap(t)
  \/ FindMap(t) \/ DeleteKey(t) \/ FindKey(t) \/ InsertKey(t) \/ Access(t) \/ AccessEnds(t)

CacheSpec == CacheInit /\ [][CacheNext]_cacheVars

-----------------------------------------------------------------------------
\* Requests that only create maps, set keys that are new and read never touch
\* freed or half-written memory, although every reference is used after its lock
\* was released; until something is deleted a PUT that was answered can be found
\* under its name and key, whatever other threads created in between; and the
\* size of a map is the number of its keys (cache.cpp:31-109,
\* SplitOrderList.h:69-166).
CacheSound ==
  /\ fault => removed \/ again
  /\ ~removed => \A a \in acked : /\ contains(string_maps, a[1])
                                  /\ contains(maps[string_maps[a[1]]].node, a[2])
  /\ \A m \in 1..Len(maps) : maps[m].size = Cardinality(DOMAIN maps[m].node)
=============================================================================
