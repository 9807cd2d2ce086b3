--------------------------- MODULE ServicesProofs ---------------------------
(***************************************************************************)
(* CacheSound, UdpServerLives, ConfigResolved, FileCacheSound and          *)
(* PrefixSound for every value of the constants.  None of them is          *)
(* inductive.                                                              *)
(*   - The cache needs to know what a request holds between two operations *)
(*     (Held): while nothing was removed, the map and the node it found    *)
(*     are still the ones of its name and key, because maps and keys only  *)
(*     become more (Grows); and a request about to write through a node    *)
(*     found its key, which is what `again' records.                       *)
(*   - The UDP server needs the queue as the end of what arrived           *)
(*     (QueueOK), to know which datagram was received last, and that the   *)
(*     buffer holds no more than the event received (BufferOK), to know    *)
(*     why it is full when it is.                                          *)
(*   - The configuration needs that sections not yet read are empty        *)
(*     (Unread): so reading one changes nothing that an object made before *)
(*     refers to, and Resolved stays.                                      *)
(*   - The file cache needs, while no file changed under a load, that      *)
(*     loads, entries and the clients' copies are all versions the disk    *)
(*     held (Untorn); and that a list which matches named the tag          *)
(*     (MatchNames), which rests on the function that match_etag's loop    *)
(*     computes (MatchesDef, TurnFacts).                                   *)
(*   - The prefix map needs that values and insertions name each other     *)
(*     (TreeOK), so that breakmatch and the bare root lose nothing.        *)
(***************************************************************************)
EXTENDS CacheService, UdpServer, Repository, FileCache, PrefixMap,
        SequenceTheorems, FiniteSetTheorems, WellFoundedInduction, TLAPS

\* The nodes of a map, and a map.
KeyMaps == UNION {[D -> Nat] : D \in SUBSET Keys}
Maps == [node : KeyMaps, size : Nat]

\* Where a request can be, and what it holds there.
BeforeFind == {"idle", "hung", "contains", "insert", "remove", "find"}
HoldsMap == {"removeKey", "findKey", "insertKey"}
HoldsNode == {"swap", "swapping", "read", "reading"}

\* Types of the store and of the threads.
CacheTypes ==
  /\ DOMAIN string_maps \subseteq Names
  /\ \A n \in DOMAIN string_maps : string_maps[n] \in 1..Len(maps)
  /\ maps \in Seq(Maps) /\ nodes \in Seq(Items)
  /\ DOMAIN call = Threads
  /\ fault \in BOOLEAN

\* Types of a request, by where it is.
CallTypes(t) ==
  /\ DOMAIN call[t] = {"op", "pc", "name", "key", "value", "map", "node"}
  /\ call[t].pc \in BeforeFind \cup HoldsMap \cup HoldsNode
  /\ call[t].pc \notin {"idle", "hung"} =>
       call[t].name \in Names /\ call[t].key \in Keys /\ call[t].value \in Items
  /\ call[t].pc \in HoldsMap \cup HoldsNode => call[t].map \in 1..Len(maps)

\* While nothing is removed, what a request found is still there; a PUT writes
\* to a node only when its key was there before.
Held(t) ==
  /\ ~removed /\ call[t].pc \in HoldsMap \cup HoldsNode =>
       contains(string_maps, call[t].name) /\ string_maps[call[t].name] = call[t].map
  /\ ~removed /\ call[t].pc \in HoldsNode => contains(maps[call[t].map].node, call[t].key)
  /\ call[t].pc \in {"swap", "swapping"} => again

\* The atomic size of a map counts its nodes.
SizeOK(m) == IsFiniteSet(DOMAIN maps[m].node) /\ maps[m].size = Cardinality(DOMAIN maps[m].node)

\* What a PUT was answered for is there.
Acked(a) == contains(string_maps, a[1]) /\ contains(maps[string_maps[a[1]]].node, a[2])

\* The invariant; the last conjunct bounds what can go wrong.
CacheInv ==
  /\ CacheTypes
  /\ \A t \in Threads : CallTypes(t) /\ Held(t)
  /\ \A m \in 1..Len(maps) : SizeOK(m)
  /\ ~removed => freedMaps = {} /\ freedNodes = {} /\ \A a \in acked : Acked(a)
  /\ fault => removed \/ again

\* The store starts empty and no request is under way.
LEMMA CacheInitInv == ASSUME CacheInit PROVE CacheInv
<1>1. CacheTypes
  <2>1. DOMAIN string_maps = {} /\ maps \in Seq(Maps) /\ nodes \in Seq(Items) /\ DOMAIN call = Threads
    BY DEF CacheInit
  <2> QED BY <2>1 DEF CacheInit, CacheTypes
<1>2. ASSUME NEW t \in Threads PROVE CallTypes(t) /\ Held(t)
  BY DEF CacheInit, None, CallTypes, Held, BeforeFind, HoldsMap, HoldsNode
<1> QED BY <1>1, <1>2 DEF CacheInit, CacheInv

\* Until something is removed, maps and their keys only become more.
Grows ==
  ~removed' =>
    /\ ~removed /\ freedMaps' = {} /\ freedNodes' = {}
    /\ \A n \in DOMAIN string_maps : n \in DOMAIN string_maps' /\ string_maps'[n] = string_maps[n]
    /\ \A m \in 1..Len(maps) : DOMAIN maps[m].node \subseteq DOMAIN maps'[m].node

\* Then the requests of the other threads keep what they hold, and what was
\* answered stays.
LEMMA OthersKeep ==
  ASSUME CacheInv, NEW u \in Threads, call'[u] = call[u], Grows, again => again',
         Len(maps') \in Nat, Len(maps') >= Len(maps)
  PROVE  CallTypes(u)' /\ Held(u)'
<1>1. CallTypes(u) /\ Held(u) /\ Len(maps) \in Nat /\ CacheTypes
  BY DEF CacheInv, CacheTypes
<1>2. CallTypes(u)'
  BY <1>1 DEF CallTypes
<1>3. Held(u)'
  BY <1>1 DEF CallTypes, Held, Grows, contains
<1> QED BY <1>2, <1>3

\* While nothing was removed, a PUT that was answered is still in its map.
LEMMA AckedKept ==
  ASSUME CacheInv, Grows, ~removed', NEW a \in acked
  PROVE  Acked(a)'
<1>1. Acked(a) /\ CacheTypes
  BY DEF CacheInv, Grows
<1>2. string_maps[a[1]] \in 1..Len(maps)
  BY <1>1 DEF Acked, CacheTypes, contains
<1> QED BY <1>1, <1>2 DEF Acked, Grows, contains

\* What a step has to show beyond that.
LEMMA CacheStepInv ==
  ASSUME CacheInv, NEW t \in Threads, CacheTypes', Grows, again => again', Len(maps') >= Len(maps),
         \A u \in Threads : u # t => call'[u] = call[u],
         CallTypes(t)', Held(t)', \A m \in 1..Len(maps') : SizeOK(m)',
         ~removed' => \A a \in acked' : a \in acked \/ Acked(a)',
         fault' => removed' \/ again'
  PROVE  CacheInv'
<1>1. Len(maps') \in Nat
  BY DEF CacheTypes
<1>2. ASSUME NEW u \in Threads PROVE CallTypes(u)' /\ Held(u)'
  BY <1>1, OthersKeep
<1>3. ~removed' => freedMaps' = {} /\ freedNodes' = {} /\ \A a \in acked' : Acked(a)'
  BY AckedKept DEF Grows
<1> QED BY <1>2, <1>3 DEF CacheInv

\* A step that changes no map.
LEMMA QuietStep ==
  ASSUME CacheInv, NEW t \in Threads, NEW c,
         UNCHANGED <<string_maps, maps, freedMaps, freedNodes, removed>>, nodes' \in Seq(Items),
         call' = [call EXCEPT ![t] = c], CallTypes(t)', Held(t)', again => again',
         ~removed => \A a \in acked' : a \in acked \/ Acked(a)',
         fault' \in BOOLEAN, fault' => removed \/ again'
  PROVE  CacheInv'
<1>1. DOMAIN call = Threads /\ CacheTypes /\ Len(maps) \in Nat
  BY DEF CacheInv, CacheTypes
<1>2. CacheTypes'
  BY <1>1 DEF CacheTypes
<1>3. Grows
  BY DEF CacheInv, Grows
<1>4. \A u \in Threads : u # t => call'[u] = call[u]
  BY <1>1
<1>5. \A m \in 1..Len(maps') : SizeOK(m)'
  BY DEF CacheInv, SizeOK
<1> QED BY <1>1, <1>2, <1>3, <1>4, <1>5, CacheStepInv

\* A request that is refused touches nothing.
LEMMA RefusedInv ==
  ASSUME CacheInv, NEW t \in Threads, Refused(t)
  PROVE  CacheInv'
<1>1. UNCHANGED <<string_maps, maps, nodes, freedMaps, freedNodes, call, acked, removed, again, fault>>
  BY DEF Refused, store, ghosts
<1> QED BY <1>1 DEF CacheInv, CacheTypes, CallTypes, Held, SizeOK, Acked

\* A request starts at the first step of its operation and holds nothing yet.
LEMMA CallAPIInv ==
  ASSUME CacheInv, NEW t \in Threads, CallAPI(t)
  PROVE  CacheInv'
<1>1. PICK op \in DOMAIN First, n \in Names, k \in Keys, v \in Items :
        call' = [call EXCEPT ![t] =
                   [None EXCEPT !.op = op, !.pc = First[op], !.name = n, !.key = k, !.value = v]]
  BY DEF CallAPI, Set
<1> DEFINE c == [None EXCEPT !.op = op, !.pc = First[op], !.name = n, !.key = k, !.value = v]
<1>2. /\ UNCHANGED <<string_maps, maps, nodes, freedMaps, freedNodes, acked, removed, again, fault>>
      /\ ~fault
  BY DEF CallAPI, Running, store, ghosts
<1>3. First[op] \in {"contains", "remove", "find"}
  BY DEF First
<1>4. /\ DOMAIN c = {"op", "pc", "name", "key", "value", "map", "node"}
      /\ c.pc = First[op] /\ c.name = n /\ c.key = k /\ c.value = v
  BY DEF None
<1> HIDE DEF c
<1>5. call'[t] = c /\ call' = [call EXCEPT ![t] = c]
  BY <1>1 DEF c, CacheInv, CacheTypes
<1>6. CallTypes(t)' /\ Held(t)'
  BY <1>3, <1>4, <1>5 DEF CallTypes, Held, BeforeFind, HoldsMap, HoldsNode
<1>7. nodes' \in Seq(Items) /\ fault' \in BOOLEAN
  BY <1>2 DEF CacheInv, CacheTypes
<1> QED BY <1>2, <1>5, <1>6, <1>7, QuietStep

\* A thread caught in a cycle of nodes holds nothing.
LEMMA HangInv ==
  ASSUME CacheInv, NEW t \in Threads, Hang(t)
  PROVE  CacheInv'
<1> DEFINE c == [call[t] EXCEPT !.pc = "hung"]
<1>1. /\ UNCHANGED <<string_maps, maps, nodes, freedMaps, freedNodes, acked, removed, again, fault>>
      /\ ~fault /\ call' = [call EXCEPT ![t] = c]
  BY DEF Hang, Goto, Set, store, ghosts
<1>2. CallTypes(t) /\ DOMAIN call = Threads
  BY DEF CacheInv, CacheTypes
<1>3. DOMAIN c = {"op", "pc", "name", "key", "value", "map", "node"} /\ c.pc = "hung"
  BY <1>2 DEF CallTypes
<1> HIDE DEF c
<1>4. call'[t] = c
  BY <1>1, <1>2
<1>5. CallTypes(t)' /\ Held(t)'
  BY <1>3, <1>4 DEF CallTypes, Held, BeforeFind, HoldsMap, HoldsNode
<1>6. nodes' \in Seq(Items) /\ fault' \in BOOLEAN
  BY <1>1 DEF CacheInv, CacheTypes
<1> QED BY <1>1, <1>5, <1>6, QuietStep

\* A request that was answered holds nothing.
LEMMA AnsweredHoldsNothing ==
  ASSUME CacheInv, NEW t \in Threads, Answered(t)
  PROVE  CallTypes(t)' /\ Held(t)' /\ call' = [call EXCEPT ![t] = None]
<1>1. call'[t] = None /\ call' = [call EXCEPT ![t] = None]
  BY DEF Answered, Set, CacheInv, CacheTypes
<1>2. DOMAIN None = {"op", "pc", "name", "key", "value", "map", "node"} /\ None.pc = "idle"
  BY DEF None
<1> QED BY <1>1, <1>2 DEF CallTypes, Held, BeforeFind, HoldsMap, HoldsNode

\* POST looks whether the name is taken.
LEMMA PostContainsInv ==
  ASSUME CacheInv, NEW t \in Threads, PostContains(t)
  PROVE  CacheInv'
<1>1. /\ UNCHANGED <<string_maps, maps, nodes, freedMaps, freedNodes, acked, removed, again, fault>>
      /\ ~fault /\ call[t].pc = "contains"
      /\ Answered(t) \/ call' = [call EXCEPT ![t] = [call[t] EXCEPT !.pc = "insert"]]
  BY DEF PostContains, Running, Goto, Set, store, ghosts
<1>2. nodes' \in Seq(Items) /\ fault' \in BOOLEAN
  BY <1>1 DEF CacheInv, CacheTypes
<1>3. CASE Answered(t)
  BY <1>1, <1>2, <1>3, AnsweredHoldsNothing, QuietStep
<1>4. CASE call' = [call EXCEPT ![t] = [call[t] EXCEPT !.pc = "insert"]]
  <2> DEFINE c == [call[t] EXCEPT !.pc = "insert"]
  <2>1. CallTypes(t) /\ DOMAIN call = Threads
    BY DEF CacheInv, CacheTypes
  <2>2. /\ DOMAIN c = {"op", "pc", "name", "key", "value", "map", "node"} /\ c.pc = "insert"
        /\ c.name \in Names /\ c.key \in Keys /\ c.value \in Items
    BY <1>1, <2>1 DEF CallTypes
  <2> HIDE DEF c
  <2>3. call'[t] = c /\ call' = [call EXCEPT ![t] = c]
    BY <1>4, <2>1 DEF c
  <2>4. CallTypes(t)' /\ Held(t)'
    BY <2>2, <2>3 DEF CallTypes, Held, BeforeFind, HoldsMap, HoldsNode
  <2> QED BY <1>1, <1>2, <2>3, <2>4, QuietStep
<1> QED BY <1>1, <1>3, <1>4

\* Every operation on a key first takes a reference to the map.
LEMMA FindMapInv ==
  ASSUME CacheInv, NEW t \in Threads, FindMap(t)
  PROVE  CacheInv'
<1> DEFINE next == IF call[t].op = "DELETEKEY" THEN "removeKey" ELSE "findKey"
<1> DEFINE c == [call[t] EXCEPT !.map = string_maps[call[t].name], !.pc = next]
<1>1. /\ UNCHANGED <<string_maps, maps, nodes, freedMaps, freedNodes, acked, removed, again, fault>>
      /\ ~fault /\ call[t].pc = "find"
      /\ \/ contains(string_maps, call[t].name) /\ call' = [call EXCEPT ![t] = c]
         \/ Answered(t)
  BY DEF FindMap, Running, Set, store, ghosts
<1>2. nodes' \in Seq(Items) /\ fault' \in BOOLEAN
  BY <1>1 DEF CacheInv, CacheTypes
<1>3. CASE Answered(t)
  BY <1>1, <1>2, <1>3, AnsweredHoldsNothing, QuietStep
<1>4. CASE contains(string_maps, call[t].name) /\ call' = [call EXCEPT ![t] = c]
  <2>1. CallTypes(t) /\ DOMAIN call = Threads /\ next \in HoldsMap
    BY DEF CacheInv, CacheTypes, HoldsMap
  <2>2. /\ DOMAIN c = {"op", "pc", "name", "key", "value", "map", "node"} /\ c.pc = next
        /\ c.map = string_maps[call[t].name] /\ c.name = call[t].name /\ c.key = call[t].key
      /\ c.value = call[t].value
    BY <2>1 DEF CallTypes
  <2>3. c.name \in Names /\ c.key \in Keys /\ c.value \in Items /\ c.name \in DOMAIN string_maps
    BY <1>1, <1>4, <2>1, <2>2 DEF CallTypes, contains
  <2>4. c.map \in 1..Len(maps)
    BY <2>2, <2>3 DEF CacheInv, CacheTypes
  <2> HIDE DEF c, next
  <2>5. call'[t] = c
    BY <1>4, <2>1
  <2>6. CallTypes(t)'
    BY <1>1, <2>1, <2>2, <2>3, <2>4, <2>5 DEF CallTypes
  <2>7. Held(t)'
    BY <1>1, <2>1, <2>2, <2>3, <2>5 DEF Held, contains, HoldsMap, HoldsNode
  <2> QED BY <1>1, <1>2, <1>4, <2>6, <2>7, QuietStep
<1> QED BY <1>1, <1>3, <1>4

\* GET and PUT take a reference to the node of the key; that of a PUT is only
\* written through when it was there before.
LEMMA FindKeyInv ==
  ASSUME CacheInv, NEW t \in Threads, FindKey(t)
  PROVE  CacheInv'
<1> DEFINE there == contains(maps[call[t].map].node, call[t].key)
<1> DEFINE to == IF call[t].op = "PUT" THEN "swap" ELSE "read"
<1> DEFINE c == [call[t] EXCEPT !.node = maps[call[t].map].node[call[t].key], !.pc = to]
<1> DEFINE d == [call[t] EXCEPT !.pc = "insertKey"]
<1>1. /\ UNCHANGED <<string_maps, maps, nodes, freedMaps, freedNodes, acked, removed>>
      /\ ~fault /\ call[t].pc = "findKey" /\ fault' = (call[t].map \in freedMaps)
      /\ again' = (again \/ (there /\ call[t].op = "PUT"))
      /\ \/ there /\ call' = [call EXCEPT ![t] = c]
         \/ call' = [call EXCEPT ![t] = d]
         \/ Answered(t)
  BY DEF FindKey, Uses, Running, Goto, Set, store
<1>2. nodes' \in Seq(Items) /\ fault' \in BOOLEAN /\ (fault' => removed \/ again')
  BY <1>1 DEF CacheInv, CacheTypes
<1>3. again => again'
  BY <1>1
<1>4. CallTypes(t) /\ Held(t) /\ DOMAIN call = Threads
  BY DEF CacheInv, CacheTypes
<1>5. CASE Answered(t)
  BY <1>1, <1>2, <1>3, <1>5, AnsweredHoldsNothing, QuietStep
<1>6. CASE there /\ call' = [call EXCEPT ![t] = c]
  <2>1. /\ DOMAIN c = {"op", "pc", "name", "key", "value", "map", "node"} /\ c.pc = to
        /\ c.map = call[t].map /\ c.name = call[t].name /\ c.key = call[t].key
      /\ c.value = call[t].value
    BY <1>4 DEF CallTypes
  <2>2. to \in {"swap", "read"} /\ (to = "swap" => again')
    BY <1>1, <1>6
  <2>3. contains(maps[c.map].node, c.key)
    BY <1>6, <2>1
  <2> HIDE DEF c, to, there
  <2>4. call'[t] = c
    BY <1>4, <1>6
  <2>5. CallTypes(t)'
    BY <1>1, <1>4, <2>1, <2>2, <2>4 DEF CallTypes, HoldsMap, HoldsNode
  <2>6. Held(t)'
    BY <1>1, <1>4, <2>1, <2>2, <2>3, <2>4 DEF Held, HoldsMap, HoldsNode
  <2> QED BY <1>1, <1>2, <1>3, <1>6, <2>5, <2>6, QuietStep
<1>7. CASE call' = [call EXCEPT ![t] = d]
  <2>1. /\ DOMAIN d = {"op", "pc", "name", "key", "value", "map", "node"} /\ d.pc = "insertKey"
        /\ d.map = call[t].map /\ d.name = call[t].name /\ d.key = call[t].key
        /\ d.value = call[t].value
    BY <1>4 DEF CallTypes
  <2> HIDE DEF c, d, to, there
  <2>2. call'[t] = d
    BY <1>4, <1>7
  <2>3. CallTypes(t)'
    BY <1>1, <1>4, <2>1, <2>2 DEF CallTypes, HoldsMap, HoldsNode
  <2>4. Held(t)'
    BY <1>1, <1>4, <2>1, <2>2 DEF Held, HoldsMap, HoldsNode
  <2> QED BY <1>1, <1>2, <1>3, <1>7, <2>3, <2>4, QuietStep
<1> QED BY <1>1, <1>5, <1>6, <1>7

\* Two threads at one node are a fault only when one of them writes, and none
\* writes unless a PUT found its key.
LEMMA AccessInv ==
  ASSUME CacheInv, NEW t \in Threads, Access(t)
  PROVE  CacheInv'
<1> DEFINE to == IF call[t].pc = "swap" THEN "swapping" ELSE "reading"
<1> DEFINE c == [call[t] EXCEPT !.pc = to]
<1>1. /\ UNCHANGED <<string_maps, maps, nodes, freedMaps, freedNodes, acked, removed, again>>
      /\ call[t].pc \in {"swap", "read"} /\ call' = [call EXCEPT ![t] = c]
      /\ fault' = (\/ call[t].node \in freedNodes
                   \/ \E u \in Threads \ {t} : /\ call[u].pc \in {"swapping", "reading"}
                                               /\ call[u].node = call[t].node
                                               /\ (Writes(t) \/ Writes(u)))
  BY DEF Access, Goto, Set, store, ghosts
<1>2. \A u \in Threads : Writes(u) => again
  BY DEF CacheInv, Held, Writes
<1>3. nodes' \in Seq(Items) /\ fault' \in BOOLEAN /\ (fault' => removed \/ again)
  BY <1>1, <1>2 DEF CacheInv, CacheTypes
<1>4. CallTypes(t) /\ Held(t) /\ DOMAIN call = Threads
  BY DEF CacheInv, CacheTypes
<1>5. /\ DOMAIN c = {"op", "pc", "name", "key", "value", "map", "node"} /\ c.pc = to
      /\ c.map = call[t].map /\ c.name = call[t].name /\ c.key = call[t].key
      /\ c.value = call[t].value
  BY <1>4 DEF CallTypes
<1>6. to \in {"swapping", "reading"} /\ (to = "swapping" => call[t].pc = "swap")
  OBVIOUS
<1> HIDE DEF c, to
<1>7. call'[t] = c
  BY <1>1, <1>4
<1>8. CallTypes(t)'
  BY <1>1, <1>4, <1>5, <1>6, <1>7 DEF CallTypes, HoldsMap, HoldsNode
<1>9. Held(t)'
  BY <1>1, <1>4, <1>5, <1>6, <1>7 DEF Held, HoldsMap, HoldsNode
<1> QED BY <1>1, <1>3, <1>8, <1>9, QuietStep

\* The read or the swap ends, and the request is answered.
LEMMA AccessEndsInv ==
  ASSUME CacheInv, NEW t \in Threads, AccessEnds(t)
  PROVE  CacheInv'
<1>1. /\ UNCHANGED <<string_maps, maps, freedMaps, freedNodes, removed, again>>
      /\ call[t].pc \in {"swapping", "reading"} /\ fault' = (call[t].node \in freedNodes)
      /\ nodes' = nodes \/ nodes' = [nodes EXCEPT ![call[t].node] = call[t].value]
      /\ acked' = acked \/ acked' = acked \cup {<<call[t].name, call[t].key>>}
      /\ Answered(t)
  BY DEF AccessEnds, ghosts
<1>2. fault' \in BOOLEAN /\ (fault' => removed \/ again')
  <2>1. fault' = (call[t].node \in freedNodes) /\ again' = again
    BY <1>1
  <2>2. ~removed => freedNodes = {}
    BY DEF CacheInv
  <2>3. fault' \in BOOLEAN
    BY <2>1
  <2>4. fault' => removed
    BY <2>1, <2>2, Zenon
  <2> QED BY <2>3, <2>4
<1>3. nodes' \in Seq(Items)
  <2>1. nodes \in Seq(Items) /\ CallTypes(t)
    BY DEF CacheInv, CacheTypes
  <2>2. call[t].value \in Items
    BY <1>1, <2>1 DEF CallTypes
  <2>3. PICK n \in Nat : n = Len(nodes) /\ nodes \in [1..n -> Items]
    BY <2>1
  <2>4. nodes' \in [1..n -> Items]
    BY <1>1, <2>2, <2>3
  <2> QED BY <2>4
<1>4. ~removed => \A a \in acked' : a \in acked \/ Acked(a)'
  <2>1. PICK a : a = <<call[t].name, call[t].key>>
    OBVIOUS
  <2>2. ASSUME ~removed PROVE Acked(a)'
    <3>1. /\ contains(string_maps, call[t].name) /\ string_maps[call[t].name] = call[t].map
          /\ contains(maps[call[t].map].node, call[t].key)
      BY <1>1, <2>2 DEF CacheInv, Held, HoldsMap, HoldsNode
    <3>2. a[1] = call[t].name /\ a[2] = call[t].key
      BY <2>1
    <3>3. Acked(a)
      BY <3>1, <3>2 DEF Acked
    <3> QED BY <1>1, <3>3 DEF Acked
  <2>3. acked' = acked \/ acked' = acked \cup {a}
    BY <1>1, <2>1
  <2> QED BY <2>2, <2>3
<1> QED BY <1>1, <1>2, <1>3, <1>4, AnsweredHoldsNothing, QuietStep

\* insert and remove on the nodes of a map.
LEMMA InsertFacts ==
  ASSUME NEW f \in KeyMaps, NEW k \in Keys, NEW v \in Nat, NEW g, g = insert(f, k, v)
  PROVE  /\ g \in KeyMaps /\ DOMAIN g = DOMAIN f \cup {k}
         /\ k \in DOMAIN f => g = f
<1>1. PICK D \in SUBSET Keys : f \in [D -> Nat]
  BY DEF KeyMaps
<1>2. g = [x \in D \cup {k} |-> IF x \in D THEN f[x] ELSE v]
  BY <1>1 DEF insert
<1>3. g \in [D \cup {k} -> Nat] /\ D \cup {k} \in SUBSET Keys
  BY <1>1, <1>2
<1>4. k \in D => g = f
  BY <1>1, <1>2
<1> QED BY <1>1, <1>3, <1>4 DEF KeyMaps

\* The same of remove.
LEMMA RemoveFacts ==
  ASSUME NEW f \in KeyMaps, NEW k \in Keys, NEW g, g = remove(f, k)
  PROVE  g \in KeyMaps /\ DOMAIN g = DOMAIN f \ {k}
<1>1. PICK D \in SUBSET Keys : f \in [D -> Nat]
  BY DEF KeyMaps
<1>2. g = [x \in D \ {k} |-> f[x]]
  BY <1>1 DEF remove
<1>3. g \in [D \ {k} -> Nat] /\ D \ {k} \in SUBSET Keys
  BY <1>1, <1>2
<1> QED BY <1>1, <1>3 DEF KeyMaps

\* A POST creates a map under a name that is not taken.
LEMMA PostInsertInv ==
  ASSUME CacheInv, NEW t \in Threads, PostInsert(t)
  PROVE  CacheInv'
<1> DEFINE n == call[t].name
<1>1. /\ UNCHANGED <<nodes, freedMaps, freedNodes, acked, removed, again, fault>>
      /\ call[t].pc = "insert" /\ ~fault
      /\ maps' = Append(maps, EmptyMap)
      /\ string_maps' = insert(string_maps, n, Len(maps) + 1)
      /\ Answered(t)
  BY DEF PostInsert, Running, ghosts
<1>2. CacheTypes /\ CallTypes(t) /\ n \in Names
  BY <1>1 DEF CacheInv, CallTypes
<1>3. EmptyMap \in Maps
  <2>1. <<>> \in [{} -> Nat]
    OBVIOUS
  <2>2. <<>> \in KeyMaps
    BY <2>1 DEF KeyMaps
  <2> QED BY <2>2 DEF Maps, EmptyMap
<1>4. PICK k \in Nat : k = Len(maps)
  BY <1>2 DEF CacheTypes
<1>5. /\ maps' \in Seq(Maps) /\ Len(maps') = k + 1 /\ maps'[k + 1] = EmptyMap
      /\ \A m \in 1..k : maps'[m] = maps[m]
  BY <1>1, <1>2, <1>3, <1>4 DEF CacheTypes
<1>6. /\ DOMAIN string_maps' = DOMAIN string_maps \cup {n}
      /\ \A x \in DOMAIN string_maps : string_maps'[x] = string_maps[x]
      /\ \A x \in DOMAIN string_maps' : string_maps'[x] \in 1..(k + 1)
  <2>1. string_maps' = [x \in DOMAIN string_maps \cup {n} |->
                          IF x \in DOMAIN string_maps THEN string_maps[x] ELSE k + 1]
    BY <1>1, <1>4 DEF insert
  <2>2. \A x \in DOMAIN string_maps : string_maps[x] \in 1..k
    BY <1>2, <1>4 DEF CacheTypes
  <2> QED BY <1>4, <2>1, <2>2
<1>7. CacheTypes'
  <2>1. DOMAIN call' = Threads /\ fault' \in BOOLEAN /\ nodes' \in Seq(Items)
    BY <1>1, <1>2, AnsweredHoldsNothing DEF CacheTypes
  <2> QED BY <1>2, <1>5, <1>6, <2>1 DEF CacheTypes
<1>8. Grows
  BY <1>1, <1>4, <1>5, <1>6 DEF Grows, CacheInv
<1>9. \A m \in 1..Len(maps') : SizeOK(m)'
  <2>1. SizeOK(k + 1)'
    <3>1. DOMAIN EmptyMap.node = {} /\ EmptyMap.size = 0
      BY DEF EmptyMap
    <3> QED BY <1>5, <3>1, FS_EmptySet DEF SizeOK
  <2>2. \A m \in 1..k : SizeOK(m)'
    BY <1>4, <1>5 DEF CacheInv, SizeOK
  <2>3. \A m \in 1..(k + 1) : m = k + 1 \/ m \in 1..k
    BY <1>4
  <2> QED BY <1>5, <2>1, <2>2, <2>3
<1>10. \A u \in Threads : u # t => call'[u] = call[u]
  BY <1>1, <1>2, AnsweredHoldsNothing DEF CacheTypes
<1>11. Len(maps') >= Len(maps)
  BY <1>4, <1>5
<1>12. CallTypes(t)' /\ Held(t)'
  BY <1>1, AnsweredHoldsNothing
<1> QED BY <1>1, <1>7, <1>8, <1>9, <1>10, <1>11, <1>12, CacheStepInv

\* A map is taken out: from then on references to it may be stale.
LEMMA DeleteMapInv ==
  ASSUME CacheInv, NEW t \in Threads, DeleteMap(t)
  PROVE  CacheInv'
<1> DEFINE n == call[t].name
<1>1. /\ UNCHANGED <<maps, nodes, freedNodes, acked, again, fault>> /\ ~fault
      /\ freedMaps' = freedMaps \cup (IF contains(string_maps, n) THEN {string_maps[n]} ELSE {})
      /\ string_maps' = remove(string_maps, n)
      /\ removed' = (removed \/ freedMaps' # freedMaps)
      /\ Answered(t)
  BY DEF DeleteMap, Running
<1>2. CacheTypes /\ DOMAIN call' = Threads
  BY <1>1, AnsweredHoldsNothing DEF CacheInv, CacheTypes
<1>3. /\ DOMAIN string_maps' = DOMAIN string_maps \ {n}
      /\ \A x \in DOMAIN string_maps' : string_maps'[x] = string_maps[x]
  BY <1>1 DEF remove
<1>4. CacheTypes'
  BY <1>1, <1>2, <1>3 DEF CacheTypes
<1>5. ~removed' => ~removed /\ freedMaps' = {} /\ ~contains(string_maps, n)
  <2> SUFFICES ASSUME ~removed' PROVE ~removed /\ freedMaps' = {} /\ ~contains(string_maps, n)
    OBVIOUS
  <2>1. ~removed /\ freedMaps' = freedMaps
    BY <1>1, Zenon
  <2>2. freedMaps = {}
    BY <2>1 DEF CacheInv
  <2> QED BY <1>1, <2>1, <2>2
<1>6. Grows
  BY <1>1, <1>3, <1>5 DEF Grows, CacheInv, contains
<1>7. \A m \in 1..Len(maps') : SizeOK(m)'
  BY <1>1 DEF CacheInv, SizeOK
<1>8. \A u \in Threads : u # t => call'[u] = call[u]
  BY <1>1, <1>2, AnsweredHoldsNothing DEF CacheTypes
<1>9. Len(maps') >= Len(maps)
  BY <1>1, <1>2 DEF CacheTypes
<1>10. CallTypes(t)' /\ Held(t)'
  BY <1>1, AnsweredHoldsNothing
<1> QED BY <1>1, <1>4, <1>6, <1>7, <1>8, <1>9, <1>10, CacheStepInv

\* A step that changes one map and keeps its size right.
LEMMA MapChanged ==
  ASSUME CacheInv, NEW m \in 1..Len(maps), NEW new \in Maps,
         IsFiniteSet(DOMAIN new.node), new.size = Cardinality(DOMAIN new.node),
         maps' = [maps EXCEPT ![m] = new]
  PROVE  /\ maps' \in Seq(Maps) /\ Len(maps') = Len(maps) /\ maps'[m] = new
         /\ \A i \in 1..Len(maps) : i # m => maps'[i] = maps[i]
         /\ \A i \in 1..Len(maps') : SizeOK(i)'
<1>1. maps \in Seq(Maps)
  BY DEF CacheInv, CacheTypes
<1>2. /\ maps' \in Seq(Maps) /\ Len(maps') = Len(maps)
      /\ \A i \in 1..Len(maps) : maps'[i] = IF i = m THEN new ELSE maps[i]
  BY ONLY <1>1, m \in 1..Len(maps), new \in Maps, maps' = [maps EXCEPT ![m] = new], ExceptSeq
<1>3. ASSUME NEW i \in 1..Len(maps') PROVE SizeOK(i)'
  <2>1. CASE i = m
    <3>1. maps'[i] = new
      BY <1>2, <2>1
    <3> QED BY <3>1 DEF SizeOK
  <2>2. CASE i # m
    <3>1. maps'[i] = maps[i] /\ SizeOK(i)
      BY <1>2, <2>2 DEF CacheInv
    <3> QED BY <3>1 DEF SizeOK
  <2> QED BY <2>1, <2>2
<1> QED BY <1>2, <1>3

\* A key is taken out of its map: the size follows, and what was freed is a
\* removal.
LEMMA DeleteKeyInv ==
  ASSUME CacheInv, NEW t \in Threads, DeleteKey(t)
  PROVE  CacheInv'
<1>1. PICK m : m = call[t].map
  OBVIOUS
<1>2. PICK k : k = call[t].key
  OBVIOUS
<1>3. PICK f : f = maps[m].node
  OBVIOUS
<1>4. PICK g : g = remove(f, k)
  OBVIOUS
<1>5. PICK size : size = IF contains(f, k) THEN maps[m].size - 1 ELSE maps[m].size
  OBVIOUS
<1>6. PICK new : new = [node |-> g, size |-> size]
  OBVIOUS
<1>7. /\ UNCHANGED <<string_maps, nodes, freedMaps, acked, again>>
      /\ call[t].pc = "removeKey" /\ fault' = (m \in freedMaps)
      /\ freedNodes' = freedNodes \cup (IF contains(f, k) THEN {f[k]} ELSE {})
      /\ removed' = (removed \/ contains(f, k))
      /\ maps' = [maps EXCEPT ![m] = new]
      /\ Answered(t)
  BY <1>1, <1>2, <1>3, <1>4, <1>5, <1>6 DEF DeleteKey, Uses, Running
<1>8. CacheTypes /\ m \in 1..Len(maps) /\ k \in Keys /\ SizeOK(m)
  BY <1>1, <1>2, <1>7 DEF CacheInv, CallTypes, HoldsMap
<1>9. maps[m] \in Maps
  BY <1>8, ElementOfSeq DEF CacheTypes
<1>10. f \in KeyMaps /\ IsFiniteSet(DOMAIN f) /\ maps[m].size = Cardinality(DOMAIN f)
  BY <1>3, <1>8, <1>9 DEF Maps, SizeOK
<1>11. g \in KeyMaps /\ DOMAIN g = DOMAIN f \ {k}
  BY <1>4, <1>8, <1>10, RemoveFacts
<1>12. /\ IsFiniteSet(DOMAIN g)
       /\ Cardinality(DOMAIN g) = IF k \in DOMAIN f THEN Cardinality(DOMAIN f) - 1
                                                     ELSE Cardinality(DOMAIN f)
  BY <1>10, <1>11, FS_RemoveElement
<1>13. size = Cardinality(DOMAIN g) /\ size \in Nat
  BY <1>5, <1>10, <1>12, FS_CardinalityType DEF contains
<1>14. new \in Maps /\ new.node = g /\ new.size = size
  BY <1>6, <1>11, <1>13 DEF Maps
<1>15. /\ maps' \in Seq(Maps) /\ Len(maps') = Len(maps) /\ maps'[m] = new
       /\ \A i \in 1..Len(maps) : i # m => maps'[i] = maps[i]
       /\ \A i \in 1..Len(maps') : SizeOK(i)'
  BY <1>7, <1>8, <1>12, <1>13, <1>14, MapChanged
<1>16. fault' \in BOOLEAN /\ (fault' => removed')
  <2>1. fault' \in BOOLEAN
    BY <1>7
  <2>2. ~removed => freedMaps = {}
    BY DEF CacheInv
  <2>3. fault' => removed
    BY <1>7, <2>2
  <2>4. removed => removed'
    BY <1>7, Zenon
  <2> QED BY <2>1, <2>3, <2>4
<1>17. CacheTypes'
  <2>1. DOMAIN call' = Threads
    BY <1>7, <1>8, AnsweredHoldsNothing DEF CacheTypes
  <2> QED BY <1>7, <1>8, <1>15, <1>16, <2>1 DEF CacheTypes
<1>18. ~removed' => ~removed /\ ~contains(f, k)
  BY <1>7, Zenon
<1>19. Grows
  <2>1. ~removed' => DOMAIN g = DOMAIN f
    BY <1>11, <1>18 DEF contains
  <2>2. \A i \in 1..Len(maps) : ~removed' => DOMAIN maps[i].node \subseteq DOMAIN maps'[i].node
    BY <1>3, <1>14, <1>15, <2>1
  <2>3. ~removed' => ~removed /\ freedMaps' = {} /\ freedNodes' = {}
    BY <1>7, <1>18 DEF CacheInv
  <2> QED BY <1>7, <2>2, <2>3 DEF Grows
<1>20. \A u \in Threads : u # t => call'[u] = call[u]
  BY <1>7, <1>8, AnsweredHoldsNothing DEF CacheTypes
<1>21. Len(maps') >= Len(maps)
  BY <1>8, <1>15 DEF CacheTypes
<1>22. CallTypes(t)' /\ Held(t)'
  BY <1>7, AnsweredHoldsNothing
<1> QED BY <1>7, <1>15, <1>16, <1>17, <1>19, <1>20, <1>21, <1>22, CacheStepInv

\* A PUT of a new key links its node; the size follows.
LEMMA InsertKeyInv ==
  ASSUME CacheInv, NEW t \in Threads, InsertKey(t)
  PROVE  CacheInv'
<1>1. PICK m : m = call[t].map
  OBVIOUS
<1>2. PICK k : k = call[t].key
  OBVIOUS
<1>3. PICK f : f = maps[m].node
  OBVIOUS
<1>4. PICK n : n = Len(nodes) + 1
  OBVIOUS
<1>5. PICK g : g = insert(f, k, n)
  OBVIOUS
<1>6. PICK size : size = IF g = f THEN maps[m].size ELSE maps[m].size + 1
  OBVIOUS
<1>7. PICK new : new = [node |-> g, size |-> size]
  OBVIOUS
<1>8. /\ UNCHANGED <<string_maps, freedMaps, freedNodes, removed, again>>
      /\ call[t].pc = "insertKey" /\ fault' = (m \in freedMaps)
      /\ nodes' = Append(nodes, call[t].value)
      /\ maps' = [maps EXCEPT ![m] = new]
      /\ acked' = acked \cup {<<call[t].name, k>>}
      /\ Answered(t)
  BY <1>1, <1>2, <1>3, <1>4, <1>5, <1>6, <1>7 DEF InsertKey, Uses, Running, ghosts
<1>9. CacheTypes /\ m \in 1..Len(maps) /\ k \in Keys /\ SizeOK(m) /\ call[t].value \in Items
  BY <1>1, <1>2, <1>8 DEF CacheInv, CallTypes, HoldsMap
<1>10. maps[m] \in Maps
  BY <1>9, ElementOfSeq DEF CacheTypes
<1>11. f \in KeyMaps /\ IsFiniteSet(DOMAIN f) /\ maps[m].size = Cardinality(DOMAIN f)
  BY <1>3, <1>9, <1>10 DEF Maps, SizeOK
<1>12. n \in Nat /\ nodes' \in Seq(Items)
  BY <1>4, <1>8, <1>9 DEF CacheTypes
<1>13. g \in KeyMaps /\ DOMAIN g = DOMAIN f \cup {k} /\ (k \in DOMAIN f => g = f)
  BY <1>5, <1>9, <1>11, <1>12, InsertFacts
<1>14. /\ IsFiniteSet(DOMAIN g)
       /\ Cardinality(DOMAIN g) = IF k \in DOMAIN f THEN Cardinality(DOMAIN f)
                                                     ELSE Cardinality(DOMAIN f) + 1
  BY <1>11, <1>13, FS_AddElement
<1>15. size = Cardinality(DOMAIN g) /\ size \in Nat
  <2>1. Cardinality(DOMAIN f) \in Nat
    BY <1>11, FS_CardinalityType
  <2>2. k \notin DOMAIN f => g # f
    BY <1>13
  <2> QED BY <1>6, <1>11, <1>13, <1>14, <2>1, <2>2
<1>16. new \in Maps /\ new.node = g /\ new.size = size
  BY <1>7, <1>13, <1>15 DEF Maps
<1>17. /\ maps' \in Seq(Maps) /\ Len(maps') = Len(maps) /\ maps'[m] = new
       /\ \A i \in 1..Len(maps) : i # m => maps'[i] = maps[i]
       /\ \A i \in 1..Len(maps') : SizeOK(i)'
  BY <1>8, <1>9, <1>14, <1>15, <1>16, MapChanged
<1>18. fault' \in BOOLEAN /\ (fault' => removed')
  <2>1. fault' \in BOOLEAN
    BY <1>8
  <2>2. ~removed => freedMaps = {}
    BY DEF CacheInv
  <2> QED BY <1>8, <2>1, <2>2
<1>19. CacheTypes'
  <2>1. DOMAIN call' = Threads
    BY <1>8, <1>9, AnsweredHoldsNothing DEF CacheTypes
  <2> QED BY <1>8, <1>9, <1>12, <1>17, <1>18, <2>1 DEF CacheTypes
<1>20. Grows
  <2>1. \A i \in 1..Len(maps) : DOMAIN maps[i].node \subseteq DOMAIN maps'[i].node
    BY <1>3, <1>13, <1>16, <1>17
  <2>2. ~removed' => ~removed /\ freedMaps' = {} /\ freedNodes' = {}
    BY <1>8 DEF CacheInv
  <2> QED BY <1>8, <2>1, <2>2 DEF Grows
<1>21. ~removed' => \A a \in acked' : a \in acked \/ Acked(a)'
  <2>1. PICK a : a = <<call[t].name, k>>
    OBVIOUS
  <2>2. ASSUME ~removed' PROVE Acked(a)'
    <3>1. contains(string_maps, call[t].name) /\ string_maps[call[t].name] = m
      BY <1>1, <1>8, <2>2 DEF CacheInv, Held, HoldsMap
    <3>2. a[1] = call[t].name /\ a[2] = k
      BY <2>1
    <3>3. a[1] \in DOMAIN string_maps' /\ string_maps'[a[1]] = m
      BY <1>8, <3>1, <3>2 DEF contains
    <3>4. a[2] \in DOMAIN maps'[m].node
      BY <1>13, <1>16, <1>17, <3>2
    <3> QED BY <3>3, <3>4 DEF Acked, contains
  <2>3. acked' = acked \cup {a}
    BY <1>8, <2>1
  <2> QED BY <2>2, <2>3
<1>22. \A u \in Threads : u # t => call'[u] = call[u]
  BY <1>8, <1>9, AnsweredHoldsNothing DEF CacheTypes
<1>23. Len(maps') >= Len(maps)
  BY <1>9, <1>17 DEF CacheTypes
<1>24. CallTypes(t)' /\ Held(t)'
  BY <1>8, AnsweredHoldsNothing
<1> QED BY <1>8, <1>17, <1>18, <1>19, <1>20, <1>21, <1>22, <1>23, <1>24, CacheStepInv

\* Every step of the cache service keeps the invariant.
LEMMA CacheStep ==
  ASSUME CacheInv, [CacheNext]_cacheVars
  PROVE  CacheInv'
<1>1. CASE CacheNext
  BY <1>1, RefusedInv, CallAPIInv, HangInv, PostContainsInv, PostInsertInv, DeleteMapInv, FindMapInv,
     DeleteKeyInv, FindKeyInv, InsertKeyInv, AccessInv, AccessEndsInv DEF CacheNext
<1>2. CASE UNCHANGED cacheVars
  <2>1. UNCHANGED <<string_maps, maps, nodes, freedMaps, freedNodes, call, acked, removed, again, fault>>
    BY <1>2 DEF cacheVars
  <2> QED BY <2>1 DEF CacheInv, CacheTypes, CallTypes, Held, SizeOK, Acked
<1> QED BY <1>1, <1>2

\* The invariant of the cache service.
THEOREM CacheInvariance == CacheSpec => []CacheInv
<1>1. CacheInit => CacheInv
  BY CacheInitInv
<1>2. CacheInv /\ [CacheNext]_cacheVars => CacheInv'
  BY CacheStep
<1> QED BY <1>1, <1>2, PTL DEF CacheSpec

\* A size is the number of keys, what a PUT was answered stays until something is
\* removed, and freed or torn memory is used only after a removal, or a PUT of a
\* key that was there.
THEOREM CacheIsSound == CacheSpec => []CacheSound
<1>1. CacheInv => CacheSound
  BY DEF CacheInv, CacheSound, SizeOK, Acked
<1> QED BY <1>1, CacheInvariance, PTL

-----------------------------------------------------------------------------
\* A datagram, and an answer.
Datagrams == Clients \X DatagramSizes
Answers == [to : Clients, bytes : Seq(Clients)]

\* What is in the kernel's queue is what arrived and was not received yet.
QueueOK ==
  /\ arrived \in Seq(Datagrams) /\ datagrams \in Seq(Datagrams) /\ taken \in Nat
  /\ taken + Len(datagrams) = Len(arrived)
  /\ \A i \in 1..Len(datagrams) : datagrams[i] = arrived[taken + i]

\* readbuffer holds what the event received, as far as there is room, and at a
\* call of the protocol ends with bytes of the datagram received last.
BufferOK ==
  /\ readbuffer \in Seq(Clients) /\ eventBytes \in Nat
  /\ Len(readbuffer) <= UdpReadCap /\ Len(readbuffer) <= eventBytes
  /\ IF udpAt = "protocol"
     THEN /\ taken >= 1 /\ current_client_addr = arrived[taken][1] /\ current_client_addr \in Clients
          /\ readbuffer # <<>> /\ readbuffer[Len(readbuffer)] = current_client_addr
     ELSE current_client_addr = NoClient

\* An answer goes to the client of the datagram it was given for.
AnswerOK(a) ==
  /\ a[1] \in 1..taken /\ a[2].to = arrived[a[1]][1]
  /\ a[2].bytes # <<>> /\ a[2].bytes[Len(a[2].bytes)] = a[2].to

\* So do all answers given.
AnswersOK ==
  /\ answered \in Seq(Nat \X Answers)
  /\ \A i \in 1..Len(answered) : AnswerOK(answered[i])

\* Only a server that is up is at work, and one that is deleted has a reason.
ServerOK ==
  /\ server # "up" => udpAt = "wait" /\ udpInterest = "off"
  /\ server = "deleted" => taken >= 1 /\ (arrived[taken][2] = 0 \/ eventBytes > UdpReadCap)
  /\ server = "up" /\ udpAt = "wait" => udpInterest = IF answers = <<>> THEN "in" ELSE "inout"

\* The invariant of the UDP server.
UdpInv == QueueOK /\ BufferOK /\ AnswersOK /\ ServerOK

\* The server starts with empty queues.
LEMMA UdpInitInv == ASSUME UdpInit PROVE UdpInv
<1>1. QueueOK
  BY DEF UdpInit, QueueOK
<1>2. BufferOK
  BY UdpAssumption DEF UdpInit, BufferOK
<1>3. AnswersOK /\ ServerOK
  BY DEF UdpInit, AnswersOK, ServerOK
<1> QED BY <1>1, <1>2, <1>3 DEF UdpInv

\* A datagram that arrives joins the end of the queue.
LEMMA ClientSendsInv ==
  ASSUME UdpInv, ClientSends
  PROVE  UdpInv'
<1>1. PICK d \in Datagrams : datagrams' = Append(datagrams, d) /\ arrived' = Append(arrived, d)
  BY DEF ClientSends, Datagrams
<1>2. UNCHANGED <<taken, eventBytes, readbuffer, current_client_addr, answers, answered,
                  udpInterest, udpAt, server>>
  BY DEF ClientSends, udpOut
<1>3. PICK n \in Nat : n = Len(arrived)
  BY DEF UdpInv, QueueOK
<1>4. PICK m \in Nat : m = Len(datagrams)
  BY DEF UdpInv, QueueOK
<1>5. /\ arrived' \in Seq(Datagrams) /\ Len(arrived') = n + 1 /\ arrived'[n + 1] = d
      /\ \A i \in 1..n : arrived'[i] = arrived[i]
  BY <1>1, <1>3 DEF UdpInv, QueueOK
<1>6. /\ datagrams' \in Seq(Datagrams) /\ Len(datagrams') = m + 1 /\ datagrams'[m + 1] = d
      /\ \A i \in 1..m : datagrams'[i] = datagrams[i]
  BY <1>1, <1>4 DEF UdpInv, QueueOK
<1>7. taken \in Nat /\ taken + m = n
  BY <1>3, <1>4 DEF UdpInv, QueueOK
<1>8. QueueOK'
  <2>1. ASSUME NEW i \in 1..(m + 1) PROVE datagrams'[i] = arrived'[taken + i]
    <3>1. CASE i = m + 1
      <4>1. taken + i = n + 1
        BY <1>7, <3>1
      <4> QED BY <1>5, <1>6, <3>1, <4>1
    <3>2. CASE i # m + 1
      <4>1. i \in 1..m /\ taken + i \in 1..n
        BY <1>7, <3>2
      <4>2. datagrams[i] = arrived[taken + i]
        BY <1>4, <4>1 DEF UdpInv, QueueOK
      <4> QED BY <1>5, <1>6, <4>1, <4>2
    <3> QED BY <3>1, <3>2
  <2>2. taken + (m + 1) = n + 1
    BY <1>7
  <2> QED BY <1>2, <1>5, <1>6, <1>7, <2>1, <2>2 DEF QueueOK
<1>9. \A i \in 1..taken : arrived'[i] = arrived[i]
  BY <1>5, <1>7
<1>10. BufferOK'
  <2>1. taken >= 1 => arrived'[taken] = arrived[taken]
    BY <1>7, <1>9
  <2> QED BY <1>2, <2>1 DEF UdpInv, BufferOK
<1>11. AnswersOK'
  BY <1>2, <1>9 DEF UdpInv, AnswersOK, AnswerOK
<1>12. ServerOK'
  <2>1. taken >= 1 => arrived'[taken] = arrived[taken]
    BY <1>7, <1>9
  <2> QED BY <1>2, <2>1 DEF UdpInv, ServerOK
<1> QED BY <1>8, <1>10, <1>11, <1>12 DEF UdpInv

\* The steps that receive nothing and answer nothing.
LEMMA WaitingInv ==
  ASSUME UdpInv, SocketBlocks \/ UdpReadable \/ UdpWritable \/ UdpRecvAgain \/ UdpFails
                 \/ UdpSend \/ UdpSendAgain \/ UdpWriteDone
  PROVE  UdpInv'
<1>1. /\ UNCHANGED <<datagrams, arrived, taken, current_client_addr, answered>>
      /\ \/ UNCHANGED <<readbuffer, eventBytes>>
         \/ readbuffer' = <<>> /\ eventBytes' = 0
      /\ (udpAt # "protocol" /\ udpAt' # "protocol") \/ udpAt' = udpAt
  BY DEF SocketBlocks, UdpReadable, UdpWritable, UdpRecvAgain, UdpFails, UdpSend, UdpSendAgain,
         UdpWriteDone, UdpDelete, udpIn, udpOut
<1>2. QueueOK'
  BY <1>1 DEF UdpInv, QueueOK
<1>3. BufferOK'
  <2>1. CASE UNCHANGED <<readbuffer, eventBytes>>
    BY <1>1, <2>1 DEF UdpInv, BufferOK
  <2>2. CASE readbuffer' = <<>> /\ eventBytes' = 0 /\ udpAt' # "protocol" /\ udpAt # "protocol"
    BY <1>1, <2>2, UdpAssumption DEF UdpInv, BufferOK
  <2>3. CASE UdpReadable
    <3>1. udpAt = "wait" /\ udpAt' = "read"
      BY <2>3 DEF UdpReadable
    <3> QED BY <1>1, <2>1, <2>2, <3>1
  <2>4. CASE ~UdpReadable
    <3>1. UNCHANGED <<readbuffer, eventBytes>>
      BY <2>4 DEF SocketBlocks, UdpWritable, UdpRecvAgain, UdpFails, UdpSend, UdpSendAgain,
                  UdpWriteDone, UdpDelete, udpIn
    <3> QED BY <2>1, <3>1
  <2> QED BY <2>3, <2>4
<1>4. AnswersOK'
  BY <1>1 DEF UdpInv, AnswersOK, AnswerOK
<1>5. ServerOK'
  <2>1. CASE SocketBlocks
    BY <1>1, <2>1 DEF SocketBlocks, udpIn, UdpInv, ServerOK
  <2>2. CASE UdpReadable
    BY <2>2 DEF UdpReadable, UdpInv, ServerOK, udpOut
  <2>3. CASE UdpWritable
    BY <2>3 DEF UdpWritable, UdpInv, ServerOK, udpIn, udpOut
  <2>4. CASE UdpRecvAgain
    BY <2>4 DEF UdpRecvAgain, UdpInv, ServerOK, udpIn, udpOut
  <2>5. CASE UdpFails
    <3>1. server' \in {"closed", "aborted"} /\ udpInterest' = "off" /\ udpAt' = "wait"
      BY <2>5 DEF UdpFails, UdpDelete
    <3> QED BY <3>1 DEF ServerOK
  <2>6. CASE UdpSend
    <3>1. udpAt = "write" /\ UNCHANGED <<arrived, taken, eventBytes, udpInterest, udpAt, server>>
      BY <2>6 DEF UdpSend, udpIn
    <3> QED BY <3>1 DEF UdpInv, ServerOK
  <2>7. CASE UdpSendAgain
    BY <2>7 DEF UdpSendAgain, UdpInv, ServerOK, udpIn, udpOut
  <2>8. CASE UdpWriteDone
    BY <2>8 DEF UdpWriteDone, UdpInv, ServerOK, udpIn, udpOut
  <2> QED BY <2>1, <2>2, <2>3, <2>4, <2>5, <2>6, <2>7, <2>8
<1> QED BY <1>2, <1>3, <1>4, <1>5 DEF UdpInv

\* Receiving takes the first datagram of the queue.
LEMMA ReceiveFacts ==
  ASSUME UdpInv, datagrams # <<>>, datagrams' = Tail(datagrams), taken' = taken + 1, arrived' = arrived
  PROVE  /\ QueueOK' /\ taken' \in 1..Len(arrived) /\ datagrams[1] = arrived[taken']
         /\ datagrams[1] \in Datagrams
<1>1. PICK m \in Nat : m = Len(datagrams)
  BY DEF UdpInv, QueueOK
<1>2. m >= 1 /\ taken \in Nat /\ taken + m = Len(arrived) /\ datagrams \in Seq(Datagrams)
  <2>1. datagrams \in Seq(Datagrams)
    BY DEF UdpInv, QueueOK
  <2>2. m # 0
    BY <1>1, <2>1, EmptySeq
  <2> QED BY <1>1, <2>1, <2>2 DEF UdpInv, QueueOK
<1>3. /\ datagrams' \in Seq(Datagrams) /\ Len(datagrams') = m - 1
      /\ \A i \in 1..(m - 1) : datagrams'[i] = datagrams[i + 1]
  BY <1>1, <1>2
<1>4. \A i \in 1..m : datagrams[i] = arrived[taken + i]
  BY <1>1 DEF UdpInv, QueueOK
<1>5. ASSUME NEW i \in 1..(m - 1) PROVE datagrams'[i] = arrived[taken' + i]
  <2>1. i + 1 \in 1..m /\ taken + (i + 1) = taken' + i
    BY <1>2
  <2> QED BY <1>3, <1>4, <2>1
<1>6. taken' \in Nat /\ taken' + (m - 1) = Len(arrived)
  BY <1>2
<1>7. QueueOK'
  BY <1>2, <1>3, <1>5, <1>6 DEF UdpInv, QueueOK
<1>8. 1 \in 1..m /\ taken' \in 1..Len(arrived)
  BY <1>2
<1>9. datagrams[1] \in Datagrams
  BY <1>1, <1>2, <1>8, ElementOfSeq
<1> QED BY <1>4, <1>7, <1>8, <1>9

\* A datagram is appended to the buffer, cut to the room there is.
LEMMA UdpRecvInv ==
  ASSUME UdpInv, UdpRecv
  PROVE  UdpInv'
<1>1. PICK d : d = datagrams[1]
  OBVIOUS
<1>2. PICK c : c = d[1]
  OBVIOUS
<1>3. PICK room : room = UdpReadCap - Len(readbuffer)
  OBVIOUS
<1>4. PICK n : n = IF d[2] <= room THEN d[2] ELSE room
  OBVIOUS
<1>5. PICK more : more = [i \in 1..n |-> c]
  OBVIOUS
<1>6. /\ udpAt = "read" /\ datagrams # <<>> /\ d[2] > 0 /\ Len(readbuffer) < UdpReadCap
      /\ readbuffer' = readbuffer \o more /\ current_client_addr' = c
      /\ datagrams' = Tail(datagrams) /\ taken' = taken + 1
      /\ eventBytes' = eventBytes + d[2] /\ udpAt' = "protocol"
      /\ UNCHANGED <<arrived, answers, answered, udpInterest, server>>
  BY <1>1, <1>2, <1>3, <1>4, <1>5 DEF UdpRecv, udpOut
<1>7. QueueOK' /\ taken' \in 1..Len(arrived) /\ d = arrived[taken'] /\ d \in Datagrams
  BY <1>1, <1>6, ReceiveFacts
<1>8. c \in Clients /\ d[2] \in Nat
  BY <1>2, <1>7, UdpAssumption DEF Datagrams
<1>9. readbuffer \in Seq(Clients) /\ eventBytes \in Nat /\ Len(readbuffer) <= eventBytes
  BY DEF UdpInv, BufferOK
<1>10. PICK b \in Nat : b = Len(readbuffer)
  BY <1>9
<1>11. n \in Nat /\ n >= 1 /\ n <= d[2] /\ b + n <= UdpReadCap
  BY <1>3, <1>4, <1>6, <1>8, <1>10, UdpAssumption
<1>12. more \in [1..n -> Clients]
  BY <1>5, <1>8
<1>13. more \in Seq(Clients) /\ Len(more) = n /\ \A i \in 1..n : more[i] = c
  BY <1>5, <1>11, <1>12
<1>14. /\ readbuffer' \in Seq(Clients) /\ Len(readbuffer') = b + n
       /\ \A i \in 1..(b + n) : readbuffer'[i] = IF i <= b THEN readbuffer[i] ELSE more[i - b]
  <2>1. readbuffer' \in Seq(Clients) /\ Len(readbuffer') = b + n
    BY ONLY <1>6, <1>9, <1>10, <1>13, ConcatProperties
  <2>2. \A i \in 1..(b + n) : readbuffer'[i] = IF i <= b THEN readbuffer[i] ELSE more[i - b]
    BY ONLY <1>6, <1>9, <1>10, <1>13, ConcatProperties
  <2> QED BY <2>1, <2>2
<1>15. readbuffer'[b + n] = c
  <2> DEFINE i == b + n
  <2>1. i \in 1..(b + n) /\ ~(i <= b) /\ i - b \in 1..n
    BY <1>11
  <2> HIDE DEF i
  <2>2. readbuffer'[i] = c
    BY <1>13, <1>14, <2>1
  <2> QED BY <2>2 DEF i
<1>16. readbuffer' # <<>>
  <2>1. Len(readbuffer') # 0
    BY <1>11, <1>14
  <2> QED BY <1>14, <2>1, EmptySeq
<1>17. BufferOK'
  <2>1. eventBytes' \in Nat /\ b + n <= eventBytes'
    BY <1>6, <1>8, <1>9, <1>10, <1>11
  <2>2. taken' >= 1 /\ current_client_addr' = arrived'[taken'][1]
    BY <1>2, <1>6, <1>7
  <2> QED BY <1>6, <1>8, <1>11, <1>14, <1>15, <1>16, <2>1, <2>2 DEF BufferOK
<1>18. AnswersOK'
  <2>1. taken \in Nat
    BY DEF UdpInv, QueueOK
  <2>2. \A i \in 1..taken : i \in 1..taken'
    BY <1>6, <2>1
  <2> QED BY <1>6, <2>2 DEF UdpInv, AnswersOK, AnswerOK
<1>19. ServerOK'
  BY <1>6 DEF UdpInv, ServerOK
<1> QED BY <1>7, <1>17, <1>18, <1>19 DEF UdpInv

\* recvfrom returns 0 only for a datagram without data or a full readbuffer, and
\* that is full because the event's datagrams exceed it.
LEMMA UdpRecvZeroInv ==
  ASSUME UdpInv, UdpRecvZero
  PROVE  UdpInv'
<1>1. PICK d : d = datagrams[1]
  OBVIOUS
<1>2. /\ udpAt = "read" /\ datagrams # <<>> /\ (d[2] = 0 \/ Len(readbuffer) = UdpReadCap)
      /\ datagrams' = Tail(datagrams) /\ taken' = taken + 1 /\ eventBytes' = eventBytes + d[2]
      /\ server' = "deleted" /\ udpInterest' = "off" /\ udpAt' = "wait"
      /\ UNCHANGED <<arrived, readbuffer, current_client_addr, answers, answered>>
  BY <1>1 DEF UdpRecvZero, UdpDelete, udpOut
<1>3. QueueOK' /\ taken' \in 1..Len(arrived) /\ d = arrived[taken'] /\ d \in Datagrams
  BY <1>1, <1>2, ReceiveFacts
<1>4. d[2] \in Nat
  BY <1>3, UdpAssumption DEF Datagrams
<1>5. /\ readbuffer \in Seq(Clients) /\ eventBytes \in Nat /\ Len(readbuffer) \in Nat
      /\ Len(readbuffer) <= UdpReadCap /\ Len(readbuffer) <= eventBytes
      /\ current_client_addr = NoClient
  BY <1>2 DEF UdpInv, BufferOK
<1>6. BufferOK'
  <2>1. eventBytes' \in Nat /\ Len(readbuffer) <= eventBytes'
    BY <1>2, <1>4, <1>5
  <2> QED BY <1>2, <1>5, <2>1 DEF BufferOK
<1>7. AnswersOK'
  <2>1. taken \in Nat
    BY DEF UdpInv, QueueOK
  <2>2. \A i \in 1..taken : i \in 1..taken'
    BY <1>2, <2>1
  <2> QED BY <1>2, <2>2 DEF UdpInv, AnswersOK, AnswerOK
<1>8. ServerOK'
  <2>1. d[2] # 0 => eventBytes' > UdpReadCap
    BY <1>2, <1>4, <1>5, UdpAssumption
  <2>2. taken' >= 1 /\ arrived'[taken'][2] = d[2]
    BY <1>2, <1>3
  <2> QED BY <1>2, <2>1, <2>2 DEF ServerOK
<1> QED BY <1>3, <1>6, <1>7, <1>8 DEF UdpInv

\* The protocol's answer goes to the client of the datagram received last.
LEMMA UdpProtocolInv ==
  ASSUME UdpInv, UdpProtocol
  PROVE  UdpInv'
<1>1. PICK a : a = <<taken, Answer>>
  OBVIOUS
<1>2. /\ udpAt = "protocol" /\ current_client_addr' = NoClient /\ udpAt' = "read"
      /\ UNCHANGED <<datagrams, arrived, taken, eventBytes, readbuffer, udpInterest, server>>
      /\ \E n \in 0..1 : answered' = answered \o [i \in 1..n |-> a]
  BY <1>1 DEF UdpProtocol
<1>3. PICK n \in 0..1 : answered' = answered \o [i \in 1..n |-> a]
  BY <1>2
<1>4. /\ taken \in Nat /\ taken >= 1 /\ current_client_addr = arrived[taken][1]
      /\ current_client_addr \in Clients /\ readbuffer \in Seq(Clients) /\ readbuffer # <<>>
      /\ readbuffer[Len(readbuffer)] = current_client_addr
  BY <1>2 DEF UdpInv, QueueOK, BufferOK
<1>5. AnswerOK(a) /\ a \in Nat \X Answers
  BY <1>1, <1>4 DEF AnswerOK, Answer, Answers
<1>6. PICK more : more = [i \in 1..n |-> a]
  OBVIOUS
<1>7. more \in Seq(Nat \X Answers) /\ Len(more) = n /\ \A i \in 1..n : more[i] = a
  <2>1. more \in [1..n -> Nat \X Answers] /\ n \in Nat
    BY <1>5, <1>6
  <2> QED BY <1>6, <2>1
<1>8. answered \in Seq(Nat \X Answers) /\ answered' = answered \o more
  BY <1>3, <1>6 DEF UdpInv, AnswersOK
<1>9. PICK k \in Nat : k = Len(answered)
  BY <1>8
<1>10. /\ answered' \in Seq(Nat \X Answers) /\ Len(answered') = k + n
       /\ \A i \in 1..(k + n) : answered'[i] = IF i <= k THEN answered[i] ELSE more[i - k]
  BY ONLY <1>7, <1>8, <1>9, ConcatProperties
<1>11. ASSUME NEW i \in 1..(k + n) PROVE AnswerOK(answered'[i])
  <2>1. CASE i <= k
    <3>1. i \in 1..k
      BY <2>1
    <3>2. AnswerOK(answered[i])
      BY <1>9, <3>1 DEF UdpInv, AnswersOK
    <3> QED BY <1>10, <2>1, <3>2
  <2>2. CASE ~(i <= k)
    <3>1. i - k \in 1..n
      BY <2>2
    <3> QED BY <1>5, <1>7, <1>10, <2>2, <3>1
  <2> QED BY <2>1, <2>2
<1>12. AnswersOK'
  BY <1>2, <1>10, <1>11 DEF AnswersOK, AnswerOK
<1>13. QueueOK'
  BY <1>2 DEF UdpInv, QueueOK
<1>14. BufferOK' /\ ServerOK'
  BY <1>2 DEF UdpInv, BufferOK, ServerOK
<1> QED BY <1>12, <1>13, <1>14 DEF UdpInv

\* Every step of the UDP server keeps the invariant.
LEMMA UdpStep ==
  ASSUME UdpInv, [UdpNext]_udpVars
  PROVE  UdpInv'
<1>1. CASE UdpNext
  BY <1>1, ClientSendsInv, WaitingInv, UdpRecvInv, UdpRecvZeroInv, UdpProtocolInv DEF UdpNext
<1>2. CASE UNCHANGED udpVars
  BY <1>2 DEF udpVars, udpIn, udpOut, UdpInv, QueueOK, BufferOK, AnswersOK, AnswerOK, ServerOK
<1> QED BY <1>1, <1>2

\* The invariant of the UDP server.
THEOREM UdpInvariance == UdpSpec => []UdpInv
<1>1. UdpInit => UdpInv
  BY UdpInitInv
<1>2. UdpInv /\ [UdpNext]_udpVars => UdpInv'
  BY UdpStep
<1> QED BY <1>1, <1>2, PTL DEF UdpSpec

\* Only an empty datagram, or an event whose datagrams exceed the buffer, deletes
\* the server, and an answer goes to the client it was made for.
THEOREM UdpServerStaysUp == UdpSpec => []UdpServerLives
<1>1. UdpInv => UdpServerLives
  BY DEF UdpInv, QueueOK, BufferOK, AnswersOK, AnswerOK, ServerOK, UdpServerLives
<1> QED BY <1>1, UdpInvariance, PTL

-----------------------------------------------------------------------------
\* The sections of the configuration file.
Sections == {"lists", "maps", "services", "handlers", "ssl", "http", "protocols", "servers"}

\* What every member that was taken refers to had been made before.
HandlerResolved(h) ==
  /\ h.type = "File" => h.list \in MadeNames("lists") /\ h.map \in MadeNames("maps")
  /\ h.type = "REST" => h.service \in MadeNames("services")
HTTPResolved(c) == c.handlers \subseteq MadeNames("handlers")
ProtocolResolved(p) == p.type = "HTTP" => p.configuration \in MadeNames("http")
ServerResolved(s) ==
  /\ s.protocol \in MadeNames("protocols")
  /\ s.type = "TCPSSL" => s.SSL \in MadeNames("ssl")

\* Of every object that was made.
Resolved ==
  /\ \A h \in made["handlers"] : HandlerResolved(h)
  /\ \A c \in made["http"] : HTTPResolved(c)
  /\ \A p \in made["protocols"] : ProtocolResolved(p)
  /\ \A s \in made["servers"] : ServerResolved(s)

\* A section that was not read yet is empty, so nothing refers into it.
Unread ==
  outcome = "reading" =>
    /\ reading <= 0 => made["lists"] = {} /\ made["maps"] = {}
    /\ reading <= 1 => made["services"] = {}
    /\ reading <= 2 => made["handlers"] = {}
    /\ reading <= 4 => made["ssl"] = {}
    /\ reading <= 5 => made["http"] = {}
    /\ reading <= 6 => made["protocols"] = {}
    /\ reading <= 7 => made["servers"] = {}

\* Only servers that were made are listened to, and only after the last section.
Listening ==
  /\ listening \subseteq made["servers"]
  /\ reading # 8 => listening = {}
  /\ reading = 8 => made["servers"] # {}
  /\ outcome = "crashed" => \E s \in made["servers"] : s.type = "unknown"
  /\ outcome \in {"refused", "threw"} => reading # 8
  /\ outcome = "ready" => listening # {}

\* The invariant of the configuration.
ConfInv ==
  /\ DOMAIN made = Sections /\ reading \in 0..8
  /\ threadcount \in Int /\ threadcount <= Processors
  /\ Resolved /\ Unread /\ Listening

\* Before the first section nothing is made.
LEMMA ConfInitInv == ASSUME RepositoryInit PROVE ConfInv
<1>1. /\ DOMAIN made = Sections /\ \A s \in Sections : made[s] = {}
      /\ reading = 0 /\ outcome = "reading" /\ threadcount = Processors /\ listening = {}
  BY DEF RepositoryInit, Sections
<1> QED BY <1>1, RepositoryAssumption DEF ConfInv, Sections, Resolved, Unread, Listening

\* What reading a section does to the variables: made holds its objects, and
\* the next section follows, or the file is refused.
Reads(number, section, objects) ==
  /\ outcome = "reading" /\ reading = number /\ made' = [made EXCEPT ![section] = objects]
  /\ \/ outcome' = "reading" /\ reading' = number + 1
     \/ outcome' = "refused" /\ reading' = number
  /\ UNCHANGED <<threadcount, listening>>

\* A Read* function is one such reading.
LEMMA SectionRead ==
  ASSUME NEW number, NEW section, NEW ms, NEW failing, NEW skipped,
         ReadSection(number, section, ms, failing, skipped)
  PROVE  Reads(number, section, Done(ms, failing) \ skipped)
BY DEF ReadSection, Reads

\* A section's loop makes objects of members that did not fail.
LEMMA DoneMembers ==
  ASSUME NEW members, NEW ms \in Seq(members), NEW failing
  PROVE  Done(ms, failing) \subseteq members \ failing
<1>1. ASSUME NEW o \in Done(ms, failing) PROVE o \in members /\ o \notin failing
  <2>1. PICK i \in 1..Len(ms) : o = ms[i] /\ \A k \in 1..i : ms[k] \notin failing
    BY DEF Done
  <2>2. i \in 1..i /\ Len(ms) \in Nat
    OBVIOUS
  <2> QED BY <2>1, <2>2, ElementOfSeq
<1> QED BY <1>1

\* When no member of a section that has one fails, there is an object.
LEMMA DoneSome ==
  ASSUME NEW number, NEW section, NEW members, NEW ms \in Seq(members), NEW failing, NEW skipped,
         ReadSection(number, section, ms, failing, skipped), ms # <<>>, outcome' = "reading"
  PROVE  Done(ms, failing) # {}
<1>1. 1 \in 1..Len(ms)
  BY EmptySeq
<1>2. \A i \in 1..Len(ms) : ms[i] \notin failing
  BY DEF ReadSection
<1>3. \A k \in 1..1 : ms[k] \notin failing
  BY <1>1, <1>2
<1> QED BY <1>1, <1>3 DEF Done

\* The members of a section are a sequence.
LEMMA MembersAreSeq ==
  ASSUME NEW S, NEW max \in Nat, NEW ms \in Members(S, max)
  PROVE  ms \in Seq(S)
BY DEF Members

\* What the objects of a section refer to is there.
ObjectsResolved(section, objects) ==
  /\ section = "handlers" => \A h \in objects : HandlerResolved(h)
  /\ section = "http" => \A c \in objects : HTTPResolved(c)
  /\ section = "protocols" => \A p \in objects : ProtocolResolved(p)
  /\ section = "servers" => \A s \in objects : ServerResolved(s)

\* Reading a section after which what it refers to is there leaves the rest as
\* it was: the invariant holds when the new objects are resolved.
LEMMA SectionKeeps ==
  ASSUME ConfInv, NEW number, NEW section, NEW objects, Reads(number, section, objects),
         <<number, section>> \in {<<1, "services">>, <<2, "handlers">>, <<4, "ssl">>,
                                  <<5, "http">>, <<6, "protocols">>, <<7, "servers">>},
         ObjectsResolved(section, objects),
         section = "servers" /\ outcome' = "reading" => objects # {}
  PROVE  ConfInv'
<1>1. /\ DOMAIN made' = Sections
      /\ \A s \in Sections : made'[s] = IF s = section THEN objects ELSE made[s]
  BY DEF Reads, ConfInv, Sections
<1>2. /\ \A s \in Sections : s # section => MadeNames(s)' = MadeNames(s)
      /\ section \in {"handlers", "http", "protocols", "servers", "services", "ssl"}
  <2>1. section \in Sections
    BY DEF Sections
  <2> QED BY <1>1, <2>1 DEF MadeNames
<1>3. reading' \in 0..8 /\ threadcount' \in Int /\ threadcount' <= Processors
  BY DEF Reads, ConfInv
<1>4. Resolved'
  <2>1. \A h \in made'["handlers"] : HandlerResolved(h)'
    <3>1. CASE section = "services"
      BY <1>1, <3>1 DEF ConfInv, Unread, Reads, Sections
    <3>2. CASE section # "services"
      <4>1. /\ MadeNames("lists")' = MadeNames("lists") /\ MadeNames("maps")' = MadeNames("maps")
            /\ MadeNames("services")' = MadeNames("services")
        BY <1>2, <3>2 DEF Sections
      <4>2. \A h \in made'["handlers"] : HandlerResolved(h)
        BY <1>1 DEF ConfInv, Resolved, ObjectsResolved, Sections
      <4> QED BY <4>1, <4>2 DEF HandlerResolved
    <3> QED BY <3>1, <3>2
  <2>2. \A c \in made'["http"] : HTTPResolved(c)'
    <3>1. CASE section = "handlers"
      BY <1>1, <3>1 DEF ConfInv, Unread, Reads, Sections
    <3>2. CASE section # "handlers"
      <4>1. MadeNames("handlers")' = MadeNames("handlers")
        BY <1>2, <3>2 DEF Sections
      <4>2. \A c \in made'["http"] : HTTPResolved(c)
        BY <1>1 DEF ConfInv, Resolved, ObjectsResolved, Sections
      <4> QED BY <4>1, <4>2 DEF HTTPResolved
    <3> QED BY <3>1, <3>2
  <2>3. \A p \in made'["protocols"] : ProtocolResolved(p)'
    <3>1. CASE section = "http"
      BY <1>1, <3>1 DEF ConfInv, Unread, Reads, Sections
    <3>2. CASE section # "http"
      <4>1. MadeNames("http")' = MadeNames("http")
        BY <1>2, <3>2 DEF Sections
      <4>2. \A p \in made'["protocols"] : ProtocolResolved(p)
        BY <1>1 DEF ConfInv, Resolved, ObjectsResolved, Sections
      <4> QED BY <4>1, <4>2 DEF ProtocolResolved
    <3> QED BY <3>1, <3>2
  <2>4. \A s \in made'["servers"] : ServerResolved(s)'
    <3>1. CASE section \in {"protocols", "ssl"}
      BY <1>1, <3>1 DEF ConfInv, Unread, Reads, Sections
    <3>2. CASE section \notin {"protocols", "ssl"}
      <4>1. /\ MadeNames("protocols")' = MadeNames("protocols")
            /\ MadeNames("ssl")' = MadeNames("ssl")
        BY <1>2, <3>2 DEF Sections
      <4>2. \A s \in made'["servers"] : ServerResolved(s)
        BY <1>1 DEF ConfInv, Resolved, ObjectsResolved, Sections
      <4> QED BY <4>1, <4>2 DEF ServerResolved
    <3> QED BY <3>1, <3>2
  <2> QED BY <2>1, <2>2, <2>3, <2>4 DEF Resolved
<1>5. Unread'
  BY <1>1 DEF Unread, ConfInv, Reads, Sections
<1>6. Listening'
  BY <1>1 DEF Listening, ConfInv, Reads, Sections
<1> QED BY <1>1, <1>3, <1>4, <1>5, <1>6 DEF ConfInv

\* Cache services refer to nothing.
LEMMA ServicesInv == ASSUME ConfInv, ReadServiceConfiguration PROVE ConfInv'
<1>1. PICK ms \in Members(ServiceMembers, 1) :
        ReadSection(1, "services", ms, OfType(ServiceMembers, "malformed"),
                                       OfType(ServiceMembers, "unknown"))
  BY DEF ReadServiceConfiguration
<1>2. PICK objects : Reads(1, "services", objects)
  BY <1>1, SectionRead
<1>3. ObjectsResolved("services", objects)
  BY DEF ObjectsResolved
<1> QED BY <1>2, <1>3, SectionKeeps

\* A handler that was not refused finds its lists, maps and service.
LEMMA HandlersInv == ASSUME ConfInv, ReadHandlerConfiguration PROVE ConfInv'
<1>1. PICK failing : failing = {m \in HandlerMembers : HandlerFails(m)}
  OBVIOUS
<1>2. PICK ms \in Members(HandlerMembers, 1) :
        ReadSection(2, "handlers", ms, failing, OfType(HandlerMembers, "unknown"))
  BY <1>1 DEF ReadHandlerConfiguration
<1>3. PICK objects : /\ objects \subseteq Done(ms, failing) /\ Reads(2, "handlers", objects)
  BY <1>2, SectionRead
<1>4. Done(ms, failing) \subseteq HandlerMembers \ failing
  BY MembersAreSeq, DoneMembers
<1>5. ObjectsResolved("handlers", objects)
  BY <1>1, <1>3, <1>4 DEF HandlerFails, HandlerResolved, ObjectsResolved
<1> QED BY <1>3, <1>5, SectionKeeps

\* Certificates refer to nothing.
LEMMA SSLInv == ASSUME ConfInv, ReadSSLConfiguration PROVE ConfInv'
<1>1. PICK ms \in Members(SSLMembers, 1) :
        ReadSection(4, "ssl", ms, OfType(SSLMembers, "malformed"), {})
  BY DEF ReadSSLConfiguration
<1>2. PICK objects : Reads(4, "ssl", objects)
  BY <1>1, SectionRead
<1>3. ObjectsResolved("ssl", objects)
  BY DEF ObjectsResolved
<1> QED BY <1>2, <1>3, SectionKeeps

\* An HTTP configuration that was not refused finds its handlers.
LEMMA HTTPInv == ASSUME ConfInv, ReadHTTPConfiguration PROVE ConfInv'
<1>1. PICK failing : failing = {m \in HTTPMembers : HTTPFails(m)}
  OBVIOUS
<1>2. PICK ms \in Members(HTTPMembers, 1) : ReadSection(5, "http", ms, failing, {})
  BY <1>1 DEF ReadHTTPConfiguration
<1>3. PICK objects : objects \subseteq Done(ms, failing) /\ Reads(5, "http", objects)
  BY <1>2, SectionRead
<1>4. Done(ms, failing) \subseteq HTTPMembers \ failing
  BY MembersAreSeq, DoneMembers
<1>5. ObjectsResolved("http", objects)
  BY <1>1, <1>3, <1>4 DEF HTTPFails, HTTPResolved, ObjectsResolved
<1> QED BY <1>3, <1>5, SectionKeeps

\* A protocol that was not refused finds its HTTP configuration.
LEMMA ProtocolsInv == ASSUME ConfInv, ReadProtocolConfiguration PROVE ConfInv'
<1>1. PICK failing : failing = {m \in ProtocolMembers : ProtocolFails(m)}
  OBVIOUS
<1>2. PICK ms \in Members(ProtocolMembers, 1) :
        ReadSection(6, "protocols", ms, failing, OfType(ProtocolMembers, "unknown"))
  BY <1>1 DEF ReadProtocolConfiguration
<1>3. PICK objects : objects \subseteq Done(ms, failing) /\ Reads(6, "protocols", objects)
  BY <1>2, SectionRead
<1>4. Done(ms, failing) \subseteq ProtocolMembers \ failing
  BY MembersAreSeq, DoneMembers
<1>5. ObjectsResolved("protocols", objects)
  BY <1>1, <1>3, <1>4 DEF ProtocolFails, ProtocolResolved, ObjectsResolved
<1> QED BY <1>3, <1>5, SectionKeeps

\* A server that was not refused finds its protocol and its certificate, and
\* when none was refused there is one.
LEMMA ServersInv == ASSUME ConfInv, ReadServerConfiguration PROVE ConfInv'
<1>1. CASE /\ outcome = "reading" /\ reading = 7
           /\ outcome' = "refused" /\ UNCHANGED <<made, reading, threadcount, listening>>
  <2>1. Resolved'
    BY <1>1 DEF ConfInv, Resolved, HandlerResolved, HTTPResolved, ProtocolResolved,
                ServerResolved, MadeNames
  <2> QED BY <1>1, <2>1 DEF ConfInv, Unread, Listening
<1>2. PICK failing : failing = {m \in ServerMembers : ServerFails(m)}
  OBVIOUS
<1>3. ASSUME NEW ms \in Members(ServerMembers, 2), ms # <<>>,
             ReadSection(7, "servers", ms, failing, {})
      PROVE  ConfInv'
  <2>1. ms \in Seq(ServerMembers)
    BY MembersAreSeq
  <2>2. Reads(7, "servers", Done(ms, failing) \ {})
    BY <1>3, SectionRead
  <2>3. /\ Done(ms, failing) \ {} = Done(ms, failing)
        /\ Done(ms, failing) \subseteq ServerMembers \ failing
    BY <2>1, DoneMembers
  <2>4. outcome' = "reading" => Done(ms, failing) # {}
    BY <1>3, <2>1, DoneSome
  <2>5. ObjectsResolved("servers", Done(ms, failing))
    BY <1>2, <2>3 DEF ServerFails, ServerResolved, ObjectsResolved
  <2>6. Reads(7, "servers", Done(ms, failing))
    BY <2>2, <2>3
  <2> QED BY <2>4, <2>5, <2>6, SectionKeeps
<1> QED BY <1>1, <1>2, <1>3 DEF ReadServerConfiguration

\* The lists and maps come first, when nothing refers to them.
LEMMA DataInv == ASSUME ConfInv, ReadData PROVE ConfInv'
<1>1. /\ DOMAIN made' = Sections
      /\ made'["services"] = {} /\ made'["handlers"] = {} /\ made'["ssl"] = {}
      /\ made'["http"] = {} /\ made'["protocols"] = {} /\ made'["servers"] = {}
  BY DEF ReadData, ConfInv, Unread, Sections
<1>2. reading = 0 /\ UNCHANGED <<threadcount, listening>> /\ outcome = "reading"
      /\ \/ outcome' = "reading" /\ reading' = 1
         \/ outcome' = "refused" /\ reading' = 0
  BY DEF ReadData
<1>3. Resolved'
  BY <1>1 DEF Resolved
<1>4. Unread'
  BY <1>1, <1>2 DEF ReadData, ConfInv, Unread
<1>5. Listening'
  BY <1>1, <1>2 DEF ConfInv, Listening
<1> QED BY <1>1, <1>2, <1>3, <1>4, <1>5 DEF ConfInv

\* Thread Count never exceeds the number of processors.
LEMMA SystemInv == ASSUME ConfInv, ReadSystemConfiguration PROVE ConfInv'
<1>1. Resolved' /\ Listening'
  BY DEF ReadSystemConfiguration, ConfInv, Resolved, HandlerResolved, HTTPResolved,
         ProtocolResolved, ServerResolved, MadeNames, Listening
<1>2. Unread' /\ reading' \in 0..8
  BY DEF ReadSystemConfiguration, ConfInv, Unread
<1>3. threadcount' \in Int /\ threadcount' <= Processors
  BY RepositoryAssumption DEF ReadSystemConfiguration, SetThreadCount, ConfInv
<1> QED BY <1>1, <1>2, <1>3 DEF ReadSystemConfiguration, ConfInv

\* After the sections, objects and what they refer to stay.
LEMMA AfterInv ==
  ASSUME ConfInv, ReadThrows \/ AddServerToListener \/ StartServers
  PROVE  ConfInv'
<1>1. Resolved'
  BY DEF ReadThrows, AddServerToListener, StartServers, ConfInv, Resolved, HandlerResolved,
         HTTPResolved, ProtocolResolved, ServerResolved, MadeNames
<1>2. Unread'
  BY DEF ReadThrows, AddServerToListener, StartServers, ConfInv, Unread
<1>3. Listening'
  BY DEF ReadThrows, AddServerToListener, StartServers, ConfInv, Unread, Listening
<1> QED BY <1>1, <1>2, <1>3 DEF ReadThrows, AddServerToListener, StartServers, ConfInv

\* The invariant of the configuration.
THEOREM ConfInvariance == RepositorySpec => []ConfInv
<1>1. RepositoryInit => ConfInv
  BY ConfInitInv
<1>2. ConfInv /\ [RepositoryNext]_confVars => ConfInv'
  <2> SUFFICES ASSUME ConfInv, [RepositoryNext]_confVars PROVE ConfInv'
    OBVIOUS
  <2>1. CASE UNCHANGED confVars
    BY <2>1 DEF confVars, ConfInv, Resolved, HandlerResolved, HTTPResolved, ProtocolResolved,
               ServerResolved, MadeNames, Unread, Listening
  <2>2. CASE RepositoryNext
    BY <2>2, DataInv, ServicesInv, HandlersInv, SystemInv, SSLInv, HTTPInv, ProtocolsInv,
       ServersInv, AfterInv DEF RepositoryNext
  <2> QED BY <2>1, <2>2
<1> QED BY <1>1, <1>2, PTL DEF RepositorySpec

\* An object that a name of its section denotes.
LEMMA ObjectMade ==
  ASSUME NEW section, NEW name \in MadeNames(section)
  PROVE  Object(section, name) \in made[section]
BY DEF MadeNames, Object

\* A server in the listener has everything its configuration names, and nothing
\* is added when a section is refused.
THEOREM ConfigIsResolved == RepositorySpec => []ConfigResolved
<1>1. ConfInv => ConfigResolved
  <2> SUFFICES ASSUME ConfInv PROVE ConfigResolved
    OBVIOUS
  <2>1. ASSUME NEW s \in listening
        PROVE  /\ s.protocol \in MadeNames("protocols")
               /\ s.type = "TCPSSL" => s.SSL \in MadeNames("ssl")
    BY <2>1 DEF ConfInv, Listening, Resolved, ServerResolved
  <2>2. ASSUME NEW s \in listening, Object("protocols", s.protocol).type = "HTTP"
        PROVE  Object("protocols", s.protocol).configuration \in MadeNames("http")
    BY <2>1, <2>2, ObjectMade DEF ConfInv, Resolved, ProtocolResolved
  <2>3. ASSUME NEW s \in listening, Object("protocols", s.protocol).type = "HTTP",
               NEW n \in Object("http", Object("protocols", s.protocol).configuration).handlers
        PROVE  n \in MadeNames("handlers")
    <3>1. Object("http", Object("protocols", s.protocol).configuration) \in made["http"]
      BY <2>2, <2>3, ObjectMade
    <3> QED BY <2>3, <3>1 DEF ConfInv, Resolved, HTTPResolved
  <2>4. ASSUME NEW n \in MadeNames("handlers") PROVE HandlerResolved(Object("handlers", n))
    BY <2>4, ObjectMade DEF ConfInv, Resolved
  <2>5. /\ outcome = "crashed" => \E s \in made["servers"] : s.type = "unknown"
        /\ outcome \in {"refused", "threw"} => listening = {}
        /\ outcome = "ready" => listening # {}
        /\ threadcount <= Processors
    BY DEF ConfInv, Listening
  <2> QED BY <2>1, <2>2, <2>3, <2>4, <2>5 DEF ConfigResolved, HandlerResolved
<1> QED BY <1>1, ConfInvariance, PTL

-----------------------------------------------------------------------------
\* Every set of naturals that is not empty has a least element.
LEMMA Smallest ==
  ASSUME NEW T, T \subseteq Nat, T # {}
  PROVE  \E m \in T : \A k \in T : m <= k
<1> DEFINE Less == {p \in Nat \X Nat : p[1] < p[2]}
<1>1. IsWellFoundedOn(Less, Nat)
  <2>1. Less = OpToRel(<, Nat)
    BY DEF OpToRel
  <2> QED BY <2>1, NatLessThanWellFounded
<1>2. PICK m \in T : \A k \in T : <<k, m>> \notin Less
  <2> HIDE DEF Less
  <2> QED BY <1>1, WFMin
<1>3. ASSUME NEW k \in T PROVE m <= k
  <2>1. k \in Nat /\ m \in Nat
    OBVIOUS
  <2>2. k < m => <<k, m>> \in Less
    BY <2>1
  <2> QED BY <1>2, <2>1, <2>2
<1> QED BY <1>3

\* Induction over the naturals, for a set.
LEMMA Induction ==
  ASSUME NEW S, 0 \in S, \A n \in Nat : n \in S => n + 1 \in S
  PROVE  Nat \subseteq S
<1> SUFFICES ASSUME ~(Nat \subseteq S) PROVE FALSE
  OBVIOUS
<1> DEFINE T == Nat \ S
<1>1. PICK m \in T : \A k \in T : m <= k
  BY Smallest
<1>2. m - 1 \in Nat /\ m - 1 \notin T
  BY <1>1
<1> QED BY <1>1, <1>2

\* A tag starts at place s of a list and its token ends with it.
Matched(list, tag, s) ==
  /\ s \in 1..(Len(list) - 1) /\ list[s] = tag[1] /\ list[s + 1] = tag[2]
  /\ s + 2 > Len(list) \/ list[s + 2] \in Separators

\* Min and Max are what they are named for.
LEMMA MinIs ==
  ASSUME NEW S, S \subseteq Nat, S # {}
  PROVE  Min(S) \in S
<1>1. \E m \in S : \A k \in S : m <= k
  BY Smallest
<1> QED BY <1>1 DEF Min

\* A turn moves on, and finds only the whole tag.
LEMMA TurnFacts ==
  ASSUME NEW C, NEW list \in Seq(C), NEW tag \in Nat \X Nat, NEW i \in 1..(Len(list) + 1)
  PROVE  /\ Turn(list, tag, i).next = 0 \/ Turn(list, tag, i).next \in (i + 1)..Len(list)
         /\ Turn(list, tag, i).whole => \E s \in i..Len(list) : Matched(list, tag, s)
<1>1. PICK n \in Nat : n = Len(list)
  OBVIOUS
<1>2. PICK s : s = SkipSeparators(list, i)
  OBVIOUS
<1>3. s \in i..(n + 1)
  <2> DEFINE js == {j \in i..Len(list) : list[j] \notin Separators}
  <2>1. CASE js = {}
    BY <1>1, <1>2, <2>1 DEF SkipSeparators
  <2>2. CASE js # {}
    <3>1. js \subseteq Nat
      BY <1>1
    <3>2. s = Min(js)
      BY <1>2, <2>2 DEF SkipSeparators
    <3>3. Min(js) \in js
      <4> HIDE DEF js
      <4> QED BY <2>2, <3>1, MinIs
    <3> QED BY <1>1, <3>2, <3>3
  <2> QED BY <2>1, <2>2
<1>4. PICK same : same = {k \in 0..2 : \A l \in 1..k : list[s + l - 1] = tag[l]}
  OBVIOUS
<1>5. Len(tag) = 2
  OBVIOUS
<1>6. Max(same) \in same /\ Max(same) \in 0..2
  <2>1. 0 \in same /\ same \subseteq 0..2
    BY <1>4
  <2>2. \E m \in same : \A k \in same : m >= k
    <3>1. CASE 2 \in same
      BY <2>1, <3>1
    <3>2. CASE 2 \notin same /\ 1 \in same
      BY <2>1, <3>2
    <3>3. CASE 2 \notin same /\ 1 \notin same
      BY <2>1, <3>3
    <3> QED BY <3>1, <3>2, <3>3
  <2>3. Max(same) \in same
    BY <2>2 DEF Max
  <2> QED BY <2>1, <2>3
<1>7. PICK k \in 0..2 : k = Max(same)
  BY <1>6
<1>8. PICK m : m = MatchesAt(list, s, tag)
  OBVIOUS
<1>9. m.index = k /\ (m.whole <=> k = 2 /\ (s + k > n \/ list[s + k] \in Separators))
  BY <1>1, <1>4, <1>5, <1>7, <1>8 DEF MatchesAt
<1>10. PICK ends : ends = {j \in (s + k + 1)..n : list[j] \in Separators}
  OBVIOUS
<1>turn. /\ Turn(list, tag, i).whole <=> n - s + 1 >= 2 /\ m.whole
         /\ Turn(list, tag, i).next = 0 \/ (Turn(list, tag, i).next = Min(ends) /\ ends # {})
  <2>1. PICK fits : fits = (Len(list) - s + 1 >= Len(tag))
    OBVIOUS
  <2>2. Turn(list, tag, i) = [whole |-> fits /\ m.whole,
                              next |-> IF fits /\ ~m.whole /\ ends # {} THEN Min(ends) ELSE 0]
    BY <1>1, <1>2, <1>8, <1>9, <1>10, <2>1, Zenon DEF Turn
  <2>3. fits <=> n - s + 1 >= 2
    BY <1>1, <1>5, <2>1
  <2>4. PICK w : w = (fits /\ m.whole)
    OBVIOUS
  <2>5. PICK x : x = IF fits /\ ~m.whole /\ ends # {} THEN Min(ends) ELSE 0
    OBVIOUS
  <2>6. Turn(list, tag, i) = [whole |-> w, next |-> x]
    BY <2>2, <2>4, <2>5, Zenon
  <2>7. Turn(list, tag, i).whole = w /\ Turn(list, tag, i).next = x
    BY <2>6
  <2>8. w <=> n - s + 1 >= 2 /\ m.whole
    BY <2>3, <2>4
  <2> QED BY <2>5, <2>7, <2>8
<1>11. Turn(list, tag, i).next = 0 \/ Turn(list, tag, i).next \in (i + 1)..Len(list)
  <2>1. CASE ends = {}
    BY <1>turn, <2>1
  <2>2. CASE ends # {}
    <3>1. ends \subseteq Nat
      BY <1>3, <1>7, <1>10
    <3>2. Min(ends) \in ends
      BY <2>2, <3>1, MinIs
    <3>3. Min(ends) \in (i + 1)..Len(list)
      BY <1>1, <1>3, <1>10, <3>2
    <3> QED BY <1>turn, <3>3
  <2> QED BY <2>1, <2>2
<1>12. ASSUME Turn(list, tag, i).whole PROVE Matched(list, tag, s) /\ s \in i..Len(list)
  <2>1. n - s + 1 >= 2 /\ k = 2 /\ (s + 2 > n \/ list[s + 2] \in Separators)
    BY <1>9, <1>turn, <1>12
  <2>2. \A l \in 1..2 : list[s + l - 1] = tag[l]
    BY <1>4, <1>6, <1>7, <2>1
  <2>3. list[s + 1 - 1] = tag[1] /\ list[s + 2 - 1] = tag[2]
    BY <2>2
  <2>4. s + 1 - 1 = s /\ s + 2 - 1 = s + 1 /\ s \in 1..(n - 1)
    BY <1>3, <2>1
  <2>5. s \in i..n
    BY <1>3, <2>1
  <2> QED BY <1>1, <2>1, <2>3, <2>4, <2>5 DEF Matched
<1> QED BY <1>11, <1>12

\* The loop's function is what its recursion says: every turn moves on, so there is such
\* a function, by induction from the end of the list.
LEMMA MatchesDef ==
  ASSUME NEW C, NEW list \in Seq(C), NEW tag \in Nat \X Nat
  PROVE  Matches(list, tag) =
           [i \in 1..(Len(list) + 1) |->
              IF Turn(list, tag, i).whole THEN TRUE
              ELSE IF Turn(list, tag, i).next = 0 THEN FALSE
                   ELSE Matches(list, tag)[Turn(list, tag, i).next]]
<1> DEFINE N == Len(list) + 1
           B(f, i) == IF Turn(list, tag, i).whole THEN TRUE
                      ELSE IF Turn(list, tag, i).next = 0 THEN FALSE ELSE f[Turn(list, tag, i).next]
           F(f) == f = [i \in 1..N |-> B(f, i)]
           S == {k \in Nat : \E f : \A i \in 1..N : i > N - k => f[i] = B(f, i)}
<1>1. N \in Nat
  OBVIOUS
<1>2. \A i \in 1..N : Turn(list, tag, i).next = 0 \/ Turn(list, tag, i).next \in (i + 1)..(N - 1)
  BY TurnFacts
<1>3. 0 \in S
  <2>1. \A i \in 1..N : i > N - 0 => {}[i] = B({}, i)
    BY <1>1
  <2> HIDE DEF B
  <2> QED BY <2>1
<1>4. ASSUME NEW k \in Nat, k \in S PROVE k + 1 \in S
  <2>1. PICK f : \A i \in 1..N : i > N - k => f[i] = B(f, i)
    BY <1>4
  <2>2. PICK b : b = B(f, N - k)
    OBVIOUS
  <2>3. PICK g : g = [i \in 1..N |-> IF i = N - k THEN b ELSE f[i]]
    OBVIOUS
  <2>4. ASSUME NEW i \in 1..N, i > N - (k + 1) PROVE g[i] = B(g, i)
    <3>1. \A j \in 1..N : j > N - k => g[j] = f[j]
      BY <1>1, <2>3
    <3>2. Turn(list, tag, i).next # 0 => g[Turn(list, tag, i).next] = f[Turn(list, tag, i).next]
      <4>1. PICK x : x = Turn(list, tag, i).next
        OBVIOUS
      <4>2. x # 0 => x \in 1..N /\ x > N - k
        BY <1>1, <1>2, <2>4, <4>1
      <4> QED BY <3>1, <4>1, <4>2
    <3>3. B(g, i) = B(f, i)
      BY <3>2, Zenon
    <3>4. g[i] = B(f, i)
      <4> HIDE DEF B
      <4>1. CASE i = N - k
        BY <1>1, <2>2, <2>3, <4>1
      <4>2. CASE i # N - k
        <5>1. i > N - k
          BY <1>1, <2>4, <4>2
        <5> QED BY <2>1, <3>1, <5>1
      <4> QED BY <4>1, <4>2
    <3> HIDE DEF B
    <3> QED BY <3>3, <3>4
  <2> HIDE DEF B
  <2> QED BY <2>4
<1>5. N \in S
  <2>1. \A k \in Nat : k \in S => k + 1 \in S
    BY <1>4
  <2> HIDE DEF S
  <2> QED BY <1>1, <1>3, <2>1, Induction
<1>6. \E f : F(f)
  <2>1. PICK f : \A i \in 1..N : i > N - N => f[i] = B(f, i)
    BY <1>5
  <2>2. \A i \in 1..N : f[i] = B(f, i)
    <3> HIDE DEF B
    <3> QED BY <1>1, <2>1
  <2>3. PICK g : g = [i \in 1..N |-> f[i]]
    OBVIOUS
  <2>4. ASSUME NEW i \in 1..N PROVE g[i] = B(g, i)
    <3>1. Turn(list, tag, i).next # 0 => g[Turn(list, tag, i).next] = f[Turn(list, tag, i).next]
      <4>1. PICK x : x = Turn(list, tag, i).next
        OBVIOUS
      <4>2. x # 0 => x \in 1..N
        BY <1>1, <1>2, <4>1
      <4> QED BY <2>3, <4>1, <4>2
    <3>2. B(g, i) = B(f, i)
      BY <3>1, Zenon
    <3> HIDE DEF B
    <3> QED BY <2>2, <2>3, <3>2
  <2>5. F(g)
    <3> HIDE DEF B
    <3> QED BY <2>3, <2>4
  <2> HIDE DEF F
  <2> QED BY <2>5
<1>7. Matches(list, tag) = CHOOSE f : F(f)
  BY Zenon DEF Matches
<1>8. F(Matches(list, tag))
  <2> HIDE DEF F
  <2> QED BY <1>6, <1>7
<1> QED BY <1>8, Zenon

\* A list that matches holds the tag as a whole token.
LEMMA MatchFound ==
  ASSUME NEW C, NEW list \in Seq(C), NEW tag \in Nat \X Nat, match_etag(list, tag)
  PROVE  \E s \in Nat : Matched(list, tag, s)
<1> SUFFICES ASSUME \A s \in Nat : ~Matched(list, tag, s) PROVE FALSE
  OBVIOUS
<1>1. PICK N \in Nat : N = Len(list) + 1
  OBVIOUS
<1>2. PICK f : f = Matches(list, tag)
  OBVIOUS
<1>3. \A i \in 1..N : f[i] = IF Turn(list, tag, i).whole THEN TRUE
                             ELSE IF Turn(list, tag, i).next = 0 THEN FALSE
                                  ELSE f[Turn(list, tag, i).next]
  <2>1. Matches(list, tag) = [i \in 1..(Len(list) + 1) |->
               IF Turn(list, tag, i).whole THEN TRUE
               ELSE IF Turn(list, tag, i).next = 0 THEN FALSE
                    ELSE Matches(list, tag)[Turn(list, tag, i).next]]
    BY MatchesDef
  <2> QED BY ONLY <1>1, <1>2, <2>1
<1>4. \A i \in 1..N : /\ ~Turn(list, tag, i).whole
                      /\ Turn(list, tag, i).next = 0 \/ Turn(list, tag, i).next \in (i + 1)..N
  <2>1. ASSUME NEW i \in 1..N PROVE ~Turn(list, tag, i).whole
    BY <1>1, TurnFacts
  <2>2. ASSUME NEW i \in 1..N
        PROVE  Turn(list, tag, i).next = 0 \/ Turn(list, tag, i).next \in (i + 1)..N
    BY <1>1, TurnFacts
  <2> QED BY <2>1, <2>2
<1>5. \A i \in 1..N : f[i] => \E j \in (i + 1)..N : f[j]
  BY <1>3, <1>4
<1>6. PICK R : R = {k \in Nat : N - k \in 1..N /\ f[N - k]}
  OBVIOUS
<1>7. R # {}
  <2>1. 1 \in 1..N /\ N - 1 \in Nat /\ N - (N - 1) = 1
    BY <1>1
  <2>2. f[1]
    BY <1>2 DEF match_etag
  <2> QED BY <1>6, <2>1, <2>2
<1>8. PICK k \in R : \A l \in R : k <= l
  BY <1>6, <1>7, Smallest
<1>9. PICK j \in ((N - k) + 1)..N : f[j]
  BY <1>5, <1>6, <1>8
<1>10. N - j \in Nat /\ N - (N - j) = j /\ j \in 1..N /\ N - j < k
  BY <1>6, <1>8, <1>9
<1>11. N - j \in R
  BY <1>6, <1>9, <1>10
<1>12. k <= N - j /\ k \in Nat
  BY <1>6, <1>8, <1>11
<1> QED BY <1>10, <1>12

\* The digits of a tag, and the tag they are of.
LEMMA DigitsType ==
  ASSUME NEW a \in Nat
  PROVE  Digits(a) \in Nat \X Nat
BY FileAssumption DEF Digits

\* Two tags have the same digits only when they are one.
LEMMA DigitsTell ==
  ASSUME NEW a \in Nat, NEW b \in Nat, Digits(a) = Digits(b)
  PROVE  a = b
<1>1. a \div Radix = b \div Radix /\ a % Radix = b % Radix
  BY DEF Digits
<1>2. a = Radix * (a \div Radix) + (a % Radix) /\ b = Radix * (b \div Radix) + (b % Radix)
  BY FileAssumption
<1> QED BY <1>1, <1>2

\* A tag is a number.
LEMMA EtagType ==
  ASSUME NEW a \in Nat \X Nat
  PROVE  Etag(a) \in Nat
BY FileAssumption DEF Etag

\* The sum of get_etag tells stamps apart whose sizes differ by less than a unit.
LEMMA EtagTells ==
  ASSUME NEW a \in Nat \X Nat, NEW b \in Nat \X Nat, Etag(a) = Etag(b),
         a[2] - b[2] < Unit, b[2] - a[2] < Unit
  PROVE  a = b
<1>1. PICK m \in Nat, s \in Nat : a = <<m, s>>
  OBVIOUS
<1>2. PICK n \in Nat, t \in Nat : b = <<n, t>>
  OBVIOUS
<1>3. m * Unit + s = n * Unit + t /\ s - t < Unit /\ t - s < Unit
  BY <1>1, <1>2 DEF Etag
<1>4. ASSUME NEW p \in Nat, NEW q \in Nat, p < q PROVE q * Unit >= p * Unit + Unit
  <2>1. PICK k \in Nat : q = p + 1 + k
    BY <1>4
  <2>2. q * Unit = p * Unit + Unit + k * Unit /\ k * Unit >= 0
    BY FileAssumption, <2>1
  <2>3. p * Unit \in Nat /\ k * Unit \in Nat /\ q * Unit \in Nat
    BY FileAssumption
  <2> QED BY <2>2, <2>3, FileAssumption
<1>5. m * Unit \in Nat /\ n * Unit \in Nat
  BY FileAssumption
<1>6. ~(m < n) /\ ~(n < m)
  <2>1. ~(m < n)
    BY <1>3, <1>4, <1>5, FileAssumption
  <2>2. ~(n < m)
    BY <1>3, <1>4, <1>5, FileAssumption
  <2> QED BY <2>1, <2>2
<1>7. m = n /\ s = t
  BY <1>3, <1>5, <1>6
<1> QED BY <1>1, <1>2, <1>7

\* A client whose list matches named the tag.
LEMMA MatchNames ==
  ASSUME NEW c \in Nat, NEW d \in Nat, NEW t \in Nat, match_etag(List(c, d), Digits(t))
  PROVE  t \in {c, d}
<1>1. PICK a \in Nat, b \in Nat : Digits(c) = <<a, b>>
  BY DigitsType
<1>2. PICK u \in Nat, v \in Nat : Digits(d) = <<u, v>>
  BY DigitsType
<1>tag. PICK tag \in Nat \X Nat : tag = Digits(t)
  BY DigitsType
<1>3. PICK x \in Nat, y \in Nat : tag = <<x, y>>
  OBVIOUS
<1>4. CASE c = d
  <2>1. PICK list : list = <<Quote, a, b, Quote>>
    OBVIOUS
  <2>2. List(c, d) = list
    BY <1>1, <1>4, <2>1 DEF List
  <2>3. list \in Seq(Int) /\ Len(list) = 4 /\ list[1] = -2 /\ list[2] = a /\ list[3] = b /\ list[4] = -2
    BY <2>1 DEF Quote
  <2>4. PICK s \in Nat : Matched(list, tag, s)
    BY <1>tag, <2>2, <2>3, MatchFound
  <2>5. s \in 1..3 /\ list[s] = x /\ list[s + 1] = y
    BY <1>3, <2>3, <2>4 DEF Matched
  <2>6. s = 2
    <3>1. s # 1
      BY <2>3, <2>5
    <3>2. s # 3
      BY <2>3, <2>5
    <3> QED BY <2>5, <3>1, <3>2
  <2>7. Digits(t) = Digits(c)
    BY <1>1, <1>3, <1>tag, <2>3, <2>5, <2>6
  <2> QED BY <2>7, DigitsTell
<1>5. CASE c # d
  <2>1. PICK list : list = <<a, b, Comma, Space, u, v>>
    OBVIOUS
  <2>2. List(c, d) = list
    BY <1>1, <1>2, <1>5, <2>1 DEF List
  <2>3. /\ list \in Seq(Int) /\ Len(list) = 6 /\ list[1] = a /\ list[2] = b /\ list[3] = -1
        /\ list[4] = -3 /\ list[5] = u /\ list[6] = v
    BY <2>1 DEF Comma, Space
  <2>4. PICK s \in Nat : Matched(list, tag, s)
    BY <1>tag, <2>2, <2>3, MatchFound
  <2>5. s \in 1..5 /\ list[s] = x /\ list[s + 1] = y
    BY <1>3, <2>3, <2>4 DEF Matched
  <2>6. s \in {1, 5}
    <3>1. s # 2
      BY <2>3, <2>5
    <3>2. s # 3
      BY <2>3, <2>5
    <3>3. s # 4
      BY <2>3, <2>5
    <3> QED BY <2>5, <3>1, <3>2, <3>3
  <2>7. CASE s = 1
    <3>1. x = a /\ y = b
      BY <2>3, <2>5, <2>7
    <3>2. Digits(t) = Digits(c)
      BY <1>1, <1>3, <1>tag, <3>1
    <3> QED BY <3>2, DigitsTell
  <2>8. CASE s = 5
    <3>1. x = u /\ y = v
      BY <2>3, <2>5, <2>8
    <3>2. Digits(t) = Digits(d)
      BY <1>2, <1>3, <1>tag, <3>1
    <3> QED BY <3>2, DigitsTell
  <2> QED BY <2>6, <2>7, <2>8
<1> QED BY <1>4, <1>5

\* The running sums of the bytes read for a list.
Sums(f, list) ==
  f = [i \in 0..Len(list) |-> IF i = 0 THEN 0 ELSE f[i - 1] + list[i].read]

\* There are no others: ReadUpto is what its recursion says.
LEMMA ReadUptoIs ==
  ASSUME NEW C, NEW list \in Seq(C), NEW f, Sums(f, list)
  PROVE  ReadUpto(list) = f
<1>1. PICK g : g = ReadUpto(list)
  OBVIOUS
<1>2. Sums(g, list)
  <2>1. g = CHOOSE h : h = [i \in 0..Len(list) |-> IF i = 0 THEN 0 ELSE h[i - 1] + list[i].read]
    BY <1>1, Zenon DEF ReadUpto
  <2>2. \E h : h = [i \in 0..Len(list) |-> IF i = 0 THEN 0 ELSE h[i - 1] + list[i].read]
    BY DEF Sums
  <2> QED BY <2>1, <2>2, Zenon DEF Sums
<1>3. PICK N \in Nat : N = Len(list)
  OBVIOUS
<1>4. /\ f = [i \in 0..N |-> IF i = 0 THEN 0 ELSE f[i - 1] + list[i].read]
      /\ g = [i \in 0..N |-> IF i = 0 THEN 0 ELSE g[i - 1] + list[i].read]
  BY <1>2, <1>3 DEF Sums
<1> DEFINE S == {n \in Nat : n <= N => g[n] = f[n]}
<1>5. 0 \in S
  BY <1>4
<1>6. ASSUME NEW n \in Nat, n \in S PROVE n + 1 \in S
  <2> SUFFICES ASSUME n + 1 <= N PROVE g[n + 1] = f[n + 1]
    OBVIOUS
  <2>1. n + 1 \in 0..N /\ n + 1 # 0 /\ (n + 1) - 1 = n /\ n <= N
    OBVIOUS
  <2>2. g[n + 1] = g[n] + list[n + 1].read /\ f[n + 1] = f[n] + list[n + 1].read
    BY <1>4, <2>1
  <2> QED BY <1>6, <2>1, <2>2
<1>7. Nat \subseteq S
  <2>1. \A n \in Nat : n \in S => n + 1 \in S
    BY <1>6
  <2> HIDE DEF S
  <2> QED BY <1>5, <2>1, Induction
<1>8. \A n \in 0..N : g[n] = f[n]
  BY <1>7
<1>9. f = [n \in 0..N |-> f[n]] /\ g = [n \in 0..N |-> g[n]]
  BY <1>4
<1> QED BY <1>1, <1>8, <1>9

\* An entry in front adds its bytes.
LEMMA SumsPrepend ==
  ASSUME NEW C, NEW list \in Seq(C), NEW e \in C, e.read \in Int,
         \A k \in 1..Len(list) : list[k].read \in Int,
         NEW f \in [0..Len(list) -> Int], Sums(f, list)
  PROVE  \E g \in [0..Len(<<e>> \o list) -> Int] :
           Sums(g, <<e>> \o list) /\ g[Len(<<e>> \o list)] = f[Len(list)] + e.read
<1>1. PICK N \in Nat : N = Len(list)
  OBVIOUS
<1>2. PICK u : u = <<e>> \o list
  OBVIOUS
<1>3. Len(u) = N + 1 /\ u[1] = e /\ \A i \in 1..N : u[i + 1] = list[i]
  BY <1>1, <1>2
<1>4. f = [i \in 0..N |-> IF i = 0 THEN 0 ELSE f[i - 1] + list[i].read] /\ f \in [0..N -> Int]
  BY <1>1 DEF Sums
<1>5. PICK r \in Int : r = e.read
  OBVIOUS
<1>6. PICK g : g = [i \in 0..(N + 1) |-> IF i = 0 THEN 0 ELSE f[i - 1] + r]
  OBVIOUS
<1>7. g \in [0..(N + 1) -> Int]
  <2>1. ASSUME NEW i \in 0..(N + 1), i # 0 PROVE f[i - 1] + r \in Int
    <3>1. i - 1 \in 0..N
      BY <2>1
    <3> QED BY <1>4, <3>1
  <2> QED BY <1>6, <2>1
<1>8. ASSUME NEW i \in 0..(N + 1) PROVE g[i] = IF i = 0 THEN 0 ELSE g[i - 1] + u[i].read
  <2>1. CASE i = 0
    BY <1>6, <2>1
  <2>2. CASE i = 1
    <3>1. g[1] = f[0] + r /\ g[0] = 0 /\ f[0] = 0
      BY <1>4, <1>6
    <3> QED BY <1>3, <1>5, <2>2, <3>1
  <2>3. CASE i # 0 /\ i # 1
    <3>1. PICK j \in 1..N : i = j + 1
      <4>1. i - 1 \in 1..N /\ i = (i - 1) + 1
        BY <2>3
      <4> QED BY <4>1
    <3>2. j \in 0..N /\ j - 1 \in 0..N /\ j \in 0..(N + 1) /\ j # 0 /\ i - 1 = j
      BY <3>1
    <3>3. g[i] = f[j] + r /\ g[j] = f[j - 1] + r
      BY <1>6, <3>2
    <3>4. f[j] = f[j - 1] + list[j].read /\ u[i].read = list[j].read
      BY <1>3, <1>4, <3>1, <3>2
    <3>5. f[j] \in Int /\ f[j - 1] \in Int
      BY <1>4, <3>2
    <3>6. PICK x \in Int : x = list[j].read
      BY <1>1, <3>1
    <3> QED BY <2>3, <3>2, <3>3, <3>4, <3>5, <3>6
  <2> QED BY <2>1, <2>2, <2>3
<1>9. Sums(g, u)
  <2>1. g = [i \in 0..(N + 1) |-> g[i]]
    BY <1>6
  <2> QED BY <1>3, <1>8, <2>1 DEF Sums
<1>10. g[N + 1] = f[N] + r
  BY <1>6
<1> QED BY <1>1, <1>2, <1>3, <1>5, <1>7, <1>9, <1>10

-----------------------------------------------------------------------------
\* What the file system, the cache and the threads hold.
ReadCounts == Nat \cup {-1}
Triples == Files \X Nat \X Nat
Stamped == Files \X (Nat \X Nat) \X Nat
Entry == [path : Files, size : Nat, read : ReadCounts, version : Nat, tag : Nat]
Jobs == [pc : {"idle", "opened", "read", "storing"}, path : Files \cup {Directory},
         size : Nat, read : ReadCounts, version : Nat]
FileTypes ==
  /\ disk \in [Files -> [mtime : Nat, size : Nat, version : Nat]]
  /\ history \subseteq Stamped /\ copies \subseteq Triples
  /\ cachelist \in Seq(Entry) /\ DOMAIN cachemap \subseteq Files
  /\ current_size \in Nat
  /\ job \in [ServerThreads -> Jobs]
  /\ wrong \in BOOLEAN /\ tornLoad \in BOOLEAN /\ partial \in BOOLEAN

\* What the disk has held, with the tags get_etag made of it; and that they tell the
\* versions apart.
Kept == {<<h[1], Etag(h[2]), h[3]>> : h \in history}
TagsDistinct == \A a, b \in Kept : a[1] = b[1] /\ a[2] = b[2] => a[3] = b[3]

\* A thread that loads has a path, and one that answers has an entry to answer from.
Working ==
  \A t \in ServerThreads : /\ job[t].pc # "idle" => job[t].path \in Files
                           /\ job[t].pc = "storing" => cachelist # <<>>

\* What the disk holds is part of its history.
Remembered == \A f \in Files : <<f, Stamp(f), disk[f].version>> \in history

\* Every mapped entry is in the list, under its own path.
Mapped ==
  \A p \in DOMAIN cachemap :
    cachemap[p].path = p /\ \E i \in 1..Len(cachelist) : cachelist[i] = cachemap[p]

\* While reads are whole, the running sums end in current_size.
Counted ==
  ~partial =>
    /\ \A t \in ServerThreads : job[t].pc = "read" => job[t].read = job[t].size
    /\ \E f \in [0..Len(cachelist) -> Int] :
         Sums(f, cachelist) /\ current_size = f[Len(cachelist)]

\* No file changed while it was loaded and no read was short: a load under way has what
\* the disk holds, ...
LoadOK(t) ==
  /\ job[t].pc \in {"opened", "read"} => job[t].size = disk[job[t].path].size
  /\ job[t].pc = "read" => job[t].version = disk[job[t].path].version
\* ... an entry what the disk held, ...
EntryOK(e) == <<e.path, e.tag, e.version>> \in Kept
\* ... and so do the clients.
Clean == ~tornLoad /\ ~partial
Untorn ==
  Clean => /\ \A t \in ServerThreads : LoadOK(t)
           /\ \A i \in 1..Len(cachelist) : EntryOK(cachelist[i])
           /\ copies \subseteq Kept
           /\ TagsDistinct => ~wrong

\* The invariant of the file cache.
FileInv == FileTypes /\ Working /\ Remembered /\ Mapped /\ Counted /\ Untorn

\* Versions that differ in time or by less than a unit in size have different tags.
LEMMA ToldApart ==
  ASSUME history \subseteq Stamped, VersionsTold
  PROVE  TagsDistinct
<1> SUFFICES ASSUME NEW h \in history, NEW k \in history, h[1] = k[1], Etag(h[2]) = Etag(k[2]),
                    h[3] # k[3]
             PROVE  FALSE
  BY DEF TagsDistinct, Kept
<1>1. h[2] \in Nat \X Nat /\ k[2] \in Nat \X Nat
  BY DEF Stamped
<1>2. h[2] # k[2] /\ h[2][2] - k[2][2] < Unit /\ k[2][2] - h[2][2] < Unit
  BY DEF VersionsTold
<1>3. PICK a \in Nat \X Nat, b \in Nat \X Nat : a = h[2] /\ b = k[2]
  BY <1>1
<1> QED BY <1>2, <1>3, EtagTells

\* What the disk has held stays so.
LEMMA KeptGrows ==
  ASSUME history \subseteq history'
  PROVE  Kept \subseteq Kept' /\ (TagsDistinct' => TagsDistinct)
<1>1. Kept \subseteq Kept'
  BY DEF Kept
<1>2. TagsDistinct' => TagsDistinct
  BY <1>1 DEF TagsDistinct
<1> QED BY <1>1, <1>2

\* The cache starts empty, with one version of every file.
LEMMA FileInitInv == ASSUME FileInit PROVE FileInv
<1> USE DEF FileInit
<1>1. disk \in [Files -> [mtime : Nat, size : Nat, version : Nat]]
  BY FileAssumption
<1>2. FileTypes
  <2>1. \A f \in Files : <<f, Stamp(f), 1>> \in Stamped
    BY <1>1 DEF Stamp, Stamped
  <2>2. history \subseteq Stamped
    BY <2>1
  <2>3. job \in [ServerThreads -> Jobs]
    BY DEF NoJob, Jobs, ReadCounts
  <2>4. cachelist \in Seq(Entry) /\ DOMAIN cachemap = {}
    OBVIOUS
  <2> QED BY <1>1, <2>2, <2>3, <2>4 DEF FileTypes
<1>3. Working
  BY DEF Working, NoJob
<1>4. Remembered
  <2>1. \A f \in Files : disk[f].version = 1
    OBVIOUS
  <2> QED BY <2>1 DEF Remembered
<1>5. Mapped
  BY DEF Mapped
<1>6. Counted
  <2>1. PICK f : f = [i \in 0..0 |-> 0]
    OBVIOUS
  <2>2. f \in [0..0 -> Int] /\ f[0] = 0
    BY <2>1
  <2>3. f = [i \in 0..0 |-> IF i = 0 THEN 0 ELSE f[i - 1] + cachelist[i].read]
    BY <2>1
  <2>4. Len(cachelist) = 0
    OBVIOUS
  <2> QED BY <2>2, <2>3, <2>4 DEF Counted, Sums, NoJob
<1>7. Untorn
  BY DEF Untorn, LoadOK, NoJob
<1> QED BY <1>2, <1>3, <1>4, <1>5, <1>6, <1>7 DEF FileInv

\* An answer sends what the entry holds, or Not_Modified to a client that named its tag.
LEMMA RespondKeeps ==
  ASSUME FileInv, NEW e \in Entry, Clean => EntryOK(e), Respond(e),
         UNCHANGED <<history, tornLoad, partial>>
  PROVE  /\ copies' \subseteq Triples /\ wrong' \in BOOLEAN
         /\ Clean' => copies' \subseteq Kept' /\ (TagsDistinct' => ~wrong')
<1>1. PICK x : x = <<e.path, e.tag, e.version>>
  OBVIOUS
<1>2. x \in Triples /\ e.tag \in Nat
  BY <1>1 DEF Entry, Triples
<1>3. copies \subseteq Triples /\ wrong \in BOOLEAN /\ Kept' = Kept /\ Clean' = Clean
  BY DEF FileInv, FileTypes, Kept, Clean
<1>4. Clean => x \in Kept /\ copies \subseteq Kept /\ (TagsDistinct => ~wrong)
  BY <1>1 DEF FileInv, Untorn, EntryOK
<1>5. TagsDistinct' => TagsDistinct
  BY KeptGrows
<1>6. CASE Sends(e) /\ UNCHANGED wrong
  <2>1. copies' = copies \cup {x}
    BY <1>1, <1>6 DEF Sends
  <2> QED BY <1>2, <1>3, <1>4, <1>5, <1>6, <2>1
<1>7. CASE UNCHANGED <<copies, wrong>>
  BY <1>3, <1>4, <1>5, <1>7
<1>8. CASE \E c, d \in {y \in copies : y[1] = e.path} :
             /\ match_etag(List(c[2], d[2]), Digits(e.tag)) /\ UNCHANGED copies
             /\ wrong' = (wrong \/ <<e.path, e.tag, e.version>> \notin {c, d})
  <2>1. PICK c \in copies, d \in copies :
          /\ c[1] = e.path /\ d[1] = e.path
          /\ match_etag(List(c[2], d[2]), Digits(e.tag)) /\ copies' = copies
          /\ wrong' = (wrong \/ x \notin {c, d})
    BY <1>1, <1>8, Zenon
  <2>2. c \in Triples /\ d \in Triples
    BY <1>3
  <2>3. c[2] \in Nat /\ d[2] \in Nat
    BY <2>2 DEF Triples
  <2>4. e.tag \in {c[2], d[2]}
    BY <1>2, <2>1, <2>3, MatchNames
  <2>5. c = <<c[1], c[2], c[3]>> /\ d = <<d[1], d[2], d[3]>> /\ x[1] = e.path /\ x[2] = e.tag
        /\ x[3] = e.version
    BY <1>1, <2>2 DEF Triples
  <2>6. Clean /\ TagsDistinct => x \in {c, d}
    <3> SUFFICES ASSUME Clean, TagsDistinct PROVE x \in {c, d}
      OBVIOUS
    <3>1. x \in Kept /\ c \in Kept /\ d \in Kept
      BY <1>4, <2>1
    <3>2. CASE e.tag = c[2]
      <4>1. c[3] = x[3]
        BY <2>1, <2>5, <3>1, <3>2 DEF TagsDistinct
      <4> QED BY <1>1, <2>1, <2>5, <3>2, <4>1
    <3>3. CASE e.tag = d[2]
      <4>1. d[3] = x[3]
        BY <2>1, <2>5, <3>1, <3>3 DEF TagsDistinct
      <4> QED BY <1>1, <2>1, <2>5, <3>3, <4>1
    <3> QED BY <2>4, <3>2, <3>3
  <2>7. wrong' \in BOOLEAN
    BY <2>1, Zenon
  <2>8. Clean /\ TagsDistinct => ~wrong'
    BY <1>4, <2>1, <2>6, Zenon
  <2> QED BY <1>3, <1>4, <1>5, <2>1, <2>7, <2>8
<1> QED BY <1>6, <1>7, <1>8, Zenon DEF Respond

\* A new content of a file.
LEMMA WriteFileInv ==
  ASSUME FileInv, NEW f \in Files, WriteFile(f)
  PROVE  FileInv'
<1>1. FileTypes /\ Working /\ Remembered /\ Mapped /\ Counted /\ Untorn
  BY DEF FileInv
<1>2. PICK n \in FileSizes, m \in {disk[f].mtime, disk[f].mtime + 1} :
        disk' = [disk EXCEPT ![f] = [mtime |-> m, size |-> n, version |-> disk[f].version + 1]]
  BY DEF WriteFile
<1>3. PICK x : x = <<f, Stamp(f)', disk'[f].version>>
  OBVIOUS
<1>4. /\ history' = history \cup {x} /\ UNCHANGED <<cachelist, cachemap, current_size, job, copies, wrong, partial>>
  BY <1>3 DEF WriteFile, cache
<1>5. tornLoad' = (tornLoad \/ Loading(f))
  BY DEF WriteFile
<1>6. disk' \in [Files -> [mtime : Nat, size : Nat, version : Nat]]
  BY <1>1, <1>2, FileAssumption DEF FileTypes
<1>7. x \in Stamped
  BY <1>3, <1>6 DEF Stamp, Stamped
<1>8. tornLoad' \in BOOLEAN
  BY <1>5, Zenon
<1>9. FileTypes'
  BY <1>1, <1>4, <1>6, <1>7, <1>8 DEF FileTypes
<1>10. Working' /\ Mapped' /\ Counted'
  BY <1>1, <1>4 DEF Working, Mapped, Counted, Sums
<1>11. Remembered'
  <2> SUFFICES ASSUME NEW g \in Files
               PROVE  <<g, Stamp(g)', disk'[g].version>> \in history'
    BY DEF Remembered
  <2>1. CASE g = f
    BY <1>3, <1>4, <2>1
  <2>2. CASE g # f
    <3>1. disk'[g] = disk[g]
      BY <1>1, <1>2, <2>2 DEF FileTypes
    <3> QED BY <1>1, <1>4, <3>1 DEF Remembered, Stamp
  <2> QED BY <2>1, <2>2
<1>12. Untorn'
  <2> SUFFICES ASSUME Clean'
               PROVE  /\ \A t \in ServerThreads : LoadOK(t)'
                      /\ \A i \in 1..Len(cachelist') : EntryOK(cachelist[i])'
                      /\ copies' \subseteq Kept'
                      /\ TagsDistinct' => ~wrong'
    BY DEF Untorn
  <2>0. Kept \subseteq Kept' /\ (TagsDistinct' => TagsDistinct)
    BY <1>4, KeptGrows
  <2>1. Clean /\ ~Loading(f)
    BY <1>4, <1>5, Zenon DEF Clean
  <2>2. ASSUME NEW t \in ServerThreads PROVE LoadOK(t)'
    <3>1. LoadOK(t)
      BY <1>1, <2>1 DEF Untorn
    <3>2. CASE job[t].pc \in {"opened", "read"}
      <4>1. job[t].path # f /\ job[t].path \in Files
        BY <1>1, <2>1, <3>2 DEF Loading, Working
      <4>2. disk'[job[t].path] = disk[job[t].path]
        BY <1>1, <1>2, <4>1 DEF FileTypes
      <4> QED BY <1>4, <3>1, <4>2 DEF LoadOK
    <3>3. CASE job[t].pc \notin {"opened", "read"}
      BY <1>4, <3>3 DEF LoadOK
    <3> QED BY <3>2, <3>3
  <2>3. \A i \in 1..Len(cachelist') : EntryOK(cachelist[i])'
    BY <1>1, <1>4, <2>0, <2>1 DEF Untorn, EntryOK
  <2>4. copies' \subseteq Kept'
    BY <1>1, <1>4, <2>0, <2>1 DEF Untorn
  <2>5. TagsDistinct' => ~wrong'
    BY <1>1, <1>4, <2>0, <2>1 DEF Untorn
  <2> QED BY <2>2, <2>3, <2>4, <2>5
<1> QED BY <1>9, <1>10, <1>11, <1>12 DEF FileInv

\* A restart empties the cache.
LEMMA RestartInv ==
  ASSUME FileInv, Restart
  PROVE  FileInv'
<1> USE DEF Restart
<1>1. FileTypes /\ Remembered /\ Untorn
  BY DEF FileInv
<1>2. FileTypes'
  <2>1. job' \in [ServerThreads -> Jobs]
    BY DEF NoJob, Jobs, ReadCounts
  <2>2. cachelist' \in Seq(Entry) /\ DOMAIN cachemap' = {}
    OBVIOUS
  <2> QED BY <1>1, <2>1, <2>2 DEF FileTypes
<1>3. Working' /\ Mapped' /\ Remembered'
  BY <1>1 DEF Working, Mapped, Remembered, Stamp, NoJob
<1>4. Counted'
  <2>1. PICK f : f = [i \in 0..0 |-> 0]
    OBVIOUS
  <2>2. f \in [0..0 -> Int] /\ f[0] = 0
    BY <2>1
  <2>3. f = [i \in 0..0 |-> IF i = 0 THEN 0 ELSE f[i - 1] + cachelist'[i].read]
    BY <2>1
  <2>4. Len(cachelist') = 0 /\ current_size' = 0
    OBVIOUS
  <2> QED BY <2>2, <2>3, <2>4 DEF Counted, Sums, NoJob
<1>5. Untorn'
  BY <1>1 DEF Untorn, Clean, Kept, LoadOK, NoJob, TagsDistinct
<1> QED BY <1>2, <1>3, <1>4, <1>5 DEF FileInv

\* A request for a path that is mapped.
LEMMA HitInv ==
  ASSUME FileInv, NEW t \in ServerThreads, Hit(t)
  PROVE  FileInv'
<1>1. FileTypes /\ Working /\ Remembered /\ Mapped /\ Counted /\ Untorn
  BY DEF FileInv
<1>2. UNCHANGED <<disk, history, cachelist, cachemap, current_size, job, tornLoad, partial>>
  BY DEF Hit, cache
<1>3. PICK p : p \in DOMAIN cachemap /\ Respond(cachemap[p])
  BY DEF Hit
<1>4. PICK i \in 1..Len(cachelist) : cachelist[i] = cachemap[p]
  BY <1>1, <1>3 DEF Mapped
<1>5. cachelist[i] \in Entry
  BY <1>1 DEF FileTypes
<1>6. Clean => EntryOK(cachelist[i])
  BY <1>1 DEF Untorn
<1>7. /\ copies' \subseteq Triples /\ wrong' \in BOOLEAN
      /\ Clean' => copies' \subseteq Kept' /\ (TagsDistinct' => ~wrong')
  BY <1>2, <1>3, <1>4, <1>5, <1>6, RespondKeeps
<1>8. FileTypes'
  BY <1>1, <1>2, <1>7 DEF FileTypes
<1>9. Working' /\ Remembered' /\ Mapped' /\ Counted'
  BY <1>1, <1>2 DEF Working, Remembered, Mapped, Counted, Sums, Stamp
<1>10. Untorn'
  BY <1>1, <1>2, <1>7 DEF Untorn, Clean, Kept, TagsDistinct, LoadOK, EntryOK
<1> QED BY <1>8, <1>9, <1>10 DEF FileInv

\* A load starts with the size of the file.
LEMMA MissInv ==
  ASSUME FileInv, NEW t \in ServerThreads, Miss(t)
  PROVE  FileInv'
<1>1. FileTypes /\ Working /\ Remembered /\ Mapped /\ Counted /\ Untorn
  BY DEF FileInv
<1>2. UNCHANGED <<disk, history, cachelist, cachemap, current_size, copies, wrong, tornLoad, partial>>
  BY DEF Miss, cache
<1>3. PICK p \in Files :
        job' = [job EXCEPT ![t] = [NoJob EXCEPT !.pc = "opened", !.path = p, !.size = disk[p].size]]
  BY DEF Miss
<1>4. PICK j : j = [pc |-> "opened", path |-> p, size |-> disk[p].size, read |-> 0, version |-> 0]
  OBVIOUS
<1>5. job' = [job EXCEPT ![t] = j]
  <2>1. [NoJob EXCEPT !.pc = "opened", !.path = p, !.size = disk[p].size] = j
    <3>1. [NoJob EXCEPT !.pc = "opened"]
            = [pc |-> "opened", path |-> Directory, size |-> 0, read |-> 0, version |-> 0]
      BY DEF NoJob
    <3>2. [[pc |-> "opened", path |-> Directory, size |-> 0, read |-> 0, version |-> 0] EXCEPT !.path = p]
            = [pc |-> "opened", path |-> p, size |-> 0, read |-> 0, version |-> 0]
      OBVIOUS
    <3>3. [[pc |-> "opened", path |-> p, size |-> 0, read |-> 0, version |-> 0] EXCEPT !.size = disk[p].size]
            = j
      BY <1>4
    <3> QED BY <3>1, <3>2, <3>3, Zenon
  <2> QED BY <1>3, <2>1, Zenon
<1>6. j \in Jobs
  BY <1>1, <1>4 DEF Jobs, ReadCounts, FileTypes
<1>7. job' \in [ServerThreads -> Jobs]
  BY <1>1, <1>5, <1>6 DEF FileTypes
<1>8. \A u \in ServerThreads : job'[u] = IF u = t THEN j ELSE job[u]
  BY <1>1, <1>5 DEF FileTypes
<1>9. FileTypes'
  BY <1>1, <1>2, <1>7 DEF FileTypes
<1>10. Working'
  BY <1>1, <1>2, <1>4, <1>8 DEF Working
<1>11. Remembered' /\ Mapped' /\ Counted'
  <2>1. Remembered' /\ Mapped'
    BY <1>1, <1>2 DEF Remembered, Mapped, Stamp
  <2>2. ~partial => \A u \in ServerThreads : job'[u].pc = "read" => job'[u].read = job'[u].size
    BY <1>1, <1>4, <1>8 DEF Counted
  <2> QED BY <1>1, <1>2, <2>1, <2>2 DEF Counted, Sums
<1>12. Untorn'
  <2>1. \A u \in ServerThreads : LoadOK(u) => LoadOK(u)'
    BY <1>2, <1>4, <1>8 DEF LoadOK
  <2> QED BY <1>1, <1>2, <2>1 DEF Untorn, Clean, Kept, EntryOK, TagsDistinct
<1> QED BY <1>9, <1>10, <1>11, <1>12 DEF FileInv

\* The content is read.
LEMMA ReadContentInv ==
  ASSUME FileInv, NEW t \in ServerThreads, ReadContent(t)
  PROVE  FileInv'
<1>1. FileTypes /\ Working /\ Remembered /\ Mapped /\ Counted /\ Untorn
  BY DEF FileInv
<1>2. UNCHANGED <<disk, history, cachelist, cachemap, current_size, copies, wrong, tornLoad>>
  BY DEF ReadContent, cache
<1>3. job[t] \in Jobs /\ job[t].pc = "opened" /\ job[t].path \in Files
  BY <1>1 DEF ReadContent, FileTypes, Working
<1>4. PICK size \in Nat, version \in Nat :
        size = disk[job[t].path].size /\ version = disk[job[t].path].version
  BY <1>1, <1>3 DEF FileTypes
<1>5. PICK n \in -1..Min({size, job[t].size}) :
        /\ job' = [job EXCEPT ![t] = [job[t] EXCEPT !.pc = "read", !.read = n,
                     !.version = IF n = size /\ n = job[t].size THEN version ELSE 0]]
        /\ partial' = (partial \/ n < job[t].size)
  BY <1>4 DEF ReadContent
<1>n. n \in ReadCounts /\ n <= size /\ n <= job[t].size
  <2>1. PICK w \in Nat : w = job[t].size
    BY <1>3 DEF Jobs
  <2>2. Min({size, w}) \in {size, w} /\ Min({size, w}) <= size /\ Min({size, w}) <= w
    BY <1>4, <2>1 DEF Min
  <2> QED BY <1>5, <2>1, <2>2 DEF ReadCounts
<1>v. PICK v \in Nat : v = IF n = size /\ n = job[t].size THEN version ELSE 0
  BY <1>4
<1>6. PICK j : j = [pc |-> "read", path |-> job[t].path, size |-> job[t].size, read |-> n,
                    version |-> v]
  OBVIOUS
<1>7. job' = [job EXCEPT ![t] = j]
  <2>1. PICK a, b, c, d, u : job[t] = [pc |-> a, path |-> b, size |-> c, read |-> d, version |-> u]
    BY <1>3 DEF Jobs
  <2>2. [job[t] EXCEPT !.pc = "read", !.read = n, !.version = v] = j
    <3>1. [job[t] EXCEPT !.pc = "read"] = [pc |-> "read", path |-> b, size |-> c, read |-> d, version |-> u]
      BY <2>1
    <3>2. [[pc |-> "read", path |-> b, size |-> c, read |-> d, version |-> u] EXCEPT !.read = n]
            = [pc |-> "read", path |-> b, size |-> c, read |-> n, version |-> u]
      OBVIOUS
    <3>3. [[pc |-> "read", path |-> b, size |-> c, read |-> n, version |-> u] EXCEPT !.version = v]
            = [pc |-> "read", path |-> b, size |-> c, read |-> n, version |-> v]
      OBVIOUS
    <3>4. j = [pc |-> "read", path |-> b, size |-> c, read |-> n, version |-> v]
      BY <1>6, <2>1
    <3> QED BY <3>1, <3>2, <3>3, <3>4, Zenon
  <2> QED BY <1>5, <1>v, <2>2, Zenon
<1>p. partial' \in BOOLEAN /\ (~partial' => ~partial /\ n = job[t].size)
  <2>1. partial' \in BOOLEAN /\ (~partial' => ~partial /\ ~(n < job[t].size))
    BY <1>5, Zenon
  <2> QED BY <1>3, <1>n, <2>1 DEF Jobs
<1>8. j \in Jobs
  BY <1>3, <1>6, <1>n DEF Jobs
<1>9. job' \in [ServerThreads -> Jobs]
  BY <1>1, <1>7, <1>8 DEF FileTypes
<1>10. \A u \in ServerThreads : job'[u] = IF u = t THEN j ELSE job[u]
  BY <1>1, <1>7 DEF FileTypes
<1>11. FileTypes'
  BY <1>1, <1>2, <1>9, <1>p DEF FileTypes
<1>12. Working'
  BY <1>1, <1>2, <1>3, <1>6, <1>10 DEF Working
<1>13. Remembered' /\ Mapped' /\ Counted'
  <2>1. Remembered' /\ Mapped'
    BY <1>1, <1>2 DEF Remembered, Mapped, Stamp
  <2>2. ~partial' => \A u \in ServerThreads : job'[u].pc = "read" => job'[u].read = job'[u].size
    BY <1>1, <1>6, <1>10, <1>p DEF Counted
  <2>3. Counted'
    BY <1>1, <1>2, <1>p, <2>2 DEF Counted, Sums
  <2> QED BY <2>1, <2>3
<1>14. Untorn'
  <2> SUFFICES ASSUME Clean' PROVE Untorn'
    BY DEF Untorn
  <2>1. Clean /\ n = job[t].size
    BY <1>2, <1>p DEF Clean
  <2>2. \A u \in ServerThreads : LoadOK(u)
    BY <1>1, <2>1 DEF Untorn
  <2>3. v = version
    BY <1>3, <1>4, <1>v, <2>1, <2>2 DEF LoadOK
  <2>4. \A u \in ServerThreads : LoadOK(u)'
    BY <1>2, <1>3, <1>4, <1>6, <1>10, <2>2, <2>3 DEF LoadOK
  <2> QED BY <1>1, <1>2, <2>1, <2>4 DEF Untorn, Kept, EntryOK, TagsDistinct
<1> QED BY <1>11, <1>12, <1>13, <1>14 DEF FileInv

\* The entry joins the list and the map.
LEMMA StoreInv ==
  ASSUME FileInv, NEW t \in ServerThreads, Store(t)
  PROVE  FileInv'
<1>1. FileTypes /\ Working /\ Remembered /\ Mapped /\ Counted /\ Untorn
  BY DEF FileInv
<1>2. UNCHANGED <<disk, history, copies, wrong, tornLoad, partial>>
  BY DEF Store
<1>3. job[t] \in Jobs /\ job[t].pc = "read" /\ job[t].path \in Files
  BY <1>1 DEF Store, FileTypes, Working
<1>4. PICK e : e = [path |-> job[t].path, size |-> job[t].size, read |-> job[t].read,
                    version |-> job[t].version, tag |-> get_etag(job[t].path)]
  OBVIOUS
<1>5. /\ job' = [job EXCEPT ![t].pc = "storing"] /\ current_size' = Grown(e.read)
      /\ cachelist' = <<e>> \o cachelist
      /\ cachemap' = [p \in DOMAIN cachemap \cup {e.path} |->
                        IF p \in DOMAIN cachemap THEN cachemap[p] ELSE e]
  BY <1>4 DEF Store
<1>6. e \in Entry
  <2>1. get_etag(job[t].path) \in Nat
    <3>1. Stamp(job[t].path) \in Nat \X Nat
      BY <1>1, <1>3 DEF Stamp, FileTypes
    <3> QED BY <3>1, EtagType DEF get_etag
  <2> QED BY <2>1, <1>1, <1>3, <1>4 DEF Entry, Jobs, FileTypes
<1>7. PICK N \in Nat : N = Len(cachelist)
  BY <1>1 DEF FileTypes
<1>8. /\ cachelist' \in Seq(Entry) /\ Len(cachelist') = N + 1 /\ cachelist'[1] = e
      /\ \A i \in 1..N : cachelist'[i + 1] = cachelist[i]
  BY <1>1, <1>5, <1>6, <1>7 DEF FileTypes
<1>9. PICK j : j = [pc |-> "storing", path |-> job[t].path, size |-> job[t].size,
                    read |-> job[t].read, version |-> job[t].version]
  OBVIOUS
<1>10. job' = [job EXCEPT ![t] = j]
  <2>1. PICK a, b, c, d, v : job[t] = [pc |-> a, path |-> b, size |-> c, read |-> d, version |-> v]
    BY <1>3 DEF Jobs
  <2>2. [job[t] EXCEPT !.pc = "storing"] = j
    BY <1>9, <2>1
  <2>3. job' = [job EXCEPT ![t] = [job[t] EXCEPT !.pc = "storing"]]
    BY <1>1, <1>5 DEF FileTypes
  <2> QED BY <2>2, <2>3, Zenon
<1>11. j \in Jobs
  BY <1>3, <1>9 DEF Jobs
<1>12. \A u \in ServerThreads : job'[u] = IF u = t THEN j ELSE job[u]
  BY <1>1, <1>10 DEF FileTypes
<1>13. FileTypes'
  <2>1. job' \in [ServerThreads -> Jobs]
    BY <1>1, <1>10, <1>11 DEF FileTypes
  <2>2. DOMAIN cachemap' \subseteq Files
    BY <1>1, <1>5, <1>6 DEF FileTypes, Entry
  <2>3. current_size' \in Nat
    <3>1. PICK n \in ReadCounts : n = e.read
      BY <1>6 DEF Entry
    <3> QED BY <1>1, <1>5, <3>1, FileAssumption DEF Grown, ReadCounts, FileTypes
  <2> QED BY <1>1, <1>2, <1>8, <2>1, <2>2, <2>3 DEF FileTypes
<1>14. Working'
  <2>1. cachelist' # <<>>
    BY <1>8
  <2> QED BY <1>1, <1>3, <1>9, <1>12, <2>1 DEF Working
<1>15. Remembered'
  BY <1>1, <1>2 DEF Remembered, Stamp
<1>16. Mapped'
  <2> SUFFICES ASSUME NEW p \in DOMAIN cachemap'
               PROVE  cachemap'[p].path = p /\ \E i \in 1..(N + 1) : cachelist'[i] = cachemap'[p]
    BY <1>8 DEF Mapped
  <2>1. CASE p \in DOMAIN cachemap
    <3>1. cachemap'[p] = cachemap[p]
      BY <1>5, <2>1
    <3>2. PICK i \in 1..N : cachelist[i] = cachemap[p]
      BY <1>1, <1>7, <2>1 DEF Mapped
    <3>3. i + 1 \in 1..(N + 1) /\ cachelist'[i + 1] = cachemap'[p]
      BY <1>8, <3>1, <3>2
    <3> QED BY <1>1, <2>1, <3>1, <3>3 DEF Mapped
  <2>2. CASE p \notin DOMAIN cachemap
    <3>1. cachemap'[p] = e /\ p = e.path
      BY <1>5, <2>2
    <3>2. 1 \in 1..(N + 1)
      OBVIOUS
    <3> QED BY <1>8, <3>1, <3>2
  <2> QED BY <2>1, <2>2
<1>17. Counted'
  <2> SUFFICES ASSUME ~partial PROVE Counted'
    BY <1>2 DEF Counted
  <2>0. \A u \in ServerThreads : job'[u].pc = "read" => job'[u].read = job'[u].size
    BY <1>1, <1>9, <1>12 DEF Counted
  <2>1. PICK f \in [0..Len(cachelist) -> Int] : Sums(f, cachelist) /\ current_size = f[Len(cachelist)]
    BY <1>1 DEF Counted
  <2>2. \A k \in 1..Len(cachelist) : cachelist[k].read \in Int
    <3>1. ASSUME NEW k \in 1..Len(cachelist) PROVE cachelist[k] \in Entry
      BY <1>1 DEF FileTypes
    <3>2. \A x \in Entry : x.read \in Int
      BY DEF Entry, ReadCounts
    <3> QED BY <3>1, <3>2
  <2>3. e.read \in Nat /\ e.read \in Int /\ cachelist \in Seq(Entry)
    BY <1>1, <1>3, <1>4 DEF Counted, Jobs, FileTypes
  <2>4. \E g \in [0..Len(<<e>> \o cachelist) -> Int] :
          Sums(g, <<e>> \o cachelist) /\ g[Len(<<e>> \o cachelist)] = f[Len(cachelist)] + e.read
    BY ONLY <1>6, <2>1, <2>2, <2>3, SumsPrepend, SMTT(90)
  <2>5. \E g \in [0..Len(cachelist') -> Int] :
          Sums(g, cachelist') /\ g[Len(cachelist')] = f[Len(cachelist)] + e.read
    BY ONLY <1>5, <2>4
  <2>6. current_size' = f[Len(cachelist)] + e.read
    BY <1>1, <1>5, <2>1, <2>3 DEF Grown, FileTypes
  <2>7. \E g \in [0..Len(cachelist') -> Int] :
          Sums(g, cachelist') /\ current_size' = g[Len(cachelist')]
    BY ONLY <2>5, <2>6
  <2> QED BY <2>0, <2>7 DEF Counted, Sums
<1>18. Untorn'
  <2> SUFFICES ASSUME Clean'
               PROVE  /\ \A u \in ServerThreads : LoadOK(u)'
                      /\ \A i \in 1..Len(cachelist') : EntryOK(cachelist[i])'
                      /\ copies' \subseteq Kept'
                      /\ TagsDistinct' => ~wrong'
    BY DEF Untorn
  <2>1. Clean
    BY <1>2 DEF Clean
  <2>2. \A u \in ServerThreads : LoadOK(u) /\ (LoadOK(u) => LoadOK(u)')
    BY <1>1, <1>2, <1>9, <1>12, <2>1 DEF LoadOK, Untorn
  <2>3. e.version = disk[e.path].version /\ e.tag = get_etag(e.path) /\ e.path \in Files
    BY <1>3, <1>4, <2>2 DEF LoadOK
  <2>k. Kept' = Kept /\ (TagsDistinct' => TagsDistinct)
    BY <1>2 DEF Kept, TagsDistinct
  <2>4. <<e.path, e.tag, e.version>> \in Kept
    <3>1. PICK h \in history : h = <<e.path, Stamp(e.path), disk[e.path].version>>
      BY <1>1, <2>3 DEF Remembered
    <3>2. <<h[1], Etag(h[2]), h[3]>> = <<e.path, e.tag, e.version>>
      BY <2>3, <3>1 DEF get_etag
    <3> QED BY <3>2 DEF Kept
  <2>5. ASSUME NEW i \in 1..(N + 1) PROVE EntryOK(cachelist[i])'
    <3>1. CASE i = 1
      BY <1>8, <2>k, <2>4, <3>1 DEF EntryOK
    <3>2. CASE i # 1
      <4>1. PICK k \in 1..N : i = k + 1
        <5>1. i - 1 \in 1..N /\ i = (i - 1) + 1
          BY <3>2
        <5> QED BY <5>1
      <4>2. cachelist'[i] = cachelist[k] /\ EntryOK(cachelist[k])
        BY <1>1, <1>7, <1>8, <2>1, <4>1 DEF Untorn
      <4> QED BY <2>k, <4>2 DEF EntryOK
    <3> QED BY <3>1, <3>2
  <2>6. copies' \subseteq Kept' /\ (TagsDistinct' => ~wrong')
    BY <1>1, <1>2, <2>1, <2>k DEF Untorn
  <2> QED BY <1>8, <2>2, <2>5, <2>6
<1> QED BY <1>13, <1>14, <1>15, <1>16, <1>17, <1>18 DEF FileInv

\* The response of a load.
LEMMA LoadedInv ==
  ASSUME FileInv, NEW t \in ServerThreads, Loaded(t)
  PROVE  FileInv'
<1>1. FileTypes /\ Working /\ Remembered /\ Mapped /\ Counted /\ Untorn
  BY DEF FileInv
<1>2. /\ UNCHANGED <<disk, history, cachelist, cachemap, current_size, tornLoad, partial>>
      /\ job' = [job EXCEPT ![t] = NoJob] /\ Respond(cachelist[1])
  BY DEF Loaded, cache
<1>3. 1 \in 1..Len(cachelist)
  <2>1. cachelist \in Seq(Entry) /\ cachelist # <<>>
    BY <1>1 DEF FileTypes, Working, Loaded
  <2>2. Len(cachelist) \in Nat /\ Len(cachelist) # 0
    BY <2>1
  <2> QED BY <2>2
<1>4. cachelist[1] \in Entry
  BY <1>1, <1>3 DEF FileTypes
<1>5. Clean => EntryOK(cachelist[1])
  BY <1>1, <1>3 DEF Untorn
<1>6. /\ copies' \subseteq Triples /\ wrong' \in BOOLEAN
      /\ Clean' => copies' \subseteq Kept' /\ (TagsDistinct' => ~wrong')
  BY <1>2, <1>4, <1>5, RespondKeeps
<1>7. NoJob \in Jobs
  BY DEF NoJob, Jobs, ReadCounts
<1>8. job' \in [ServerThreads -> Jobs] /\ \A u \in ServerThreads : job'[u] = IF u = t THEN NoJob ELSE job[u]
  BY <1>1, <1>2, <1>7 DEF FileTypes
<1>9. FileTypes'
  BY <1>1, <1>2, <1>6, <1>8 DEF FileTypes
<1>10. Working'
  BY <1>1, <1>2, <1>8 DEF Working, NoJob
<1>11. Remembered' /\ Mapped' /\ Counted'
  <2>1. Remembered' /\ Mapped'
    BY <1>1, <1>2 DEF Remembered, Mapped, Stamp
  <2>2. ~partial => \A u \in ServerThreads : job'[u].pc = "read" => job'[u].read = job'[u].size
    BY <1>1, <1>8 DEF Counted, NoJob
  <2> QED BY <1>1, <1>2, <2>1, <2>2 DEF Counted, Sums
<1>12. Untorn'
  <2>1. \A u \in ServerThreads : LoadOK(u) => LoadOK(u)'
    BY <1>2, <1>8 DEF LoadOK, NoJob
  <2>2. Clean' = Clean /\ Kept' = Kept
    BY <1>2 DEF Clean, Kept
  <2>3. Clean' => \A i \in 1..Len(cachelist') : EntryOK(cachelist[i])'
    BY <1>1, <1>2, <2>2 DEF Untorn, EntryOK
  <2> QED BY <1>1, <1>6, <2>1, <2>2, <2>3 DEF Untorn
<1> QED BY <1>9, <1>10, <1>11, <1>12 DEF FileInv

\* The invariant of the file cache.
THEOREM FileInvariance == FileSpec => []FileInv
<1>1. FileInit => FileInv
  BY FileInitInv
<1>2. FileInv /\ [FileNext]_fileVars => FileInv'
  <2> SUFFICES ASSUME FileInv, [FileNext]_fileVars PROVE FileInv'
    OBVIOUS
  <2>1. ASSUME NEW f \in Files, WriteFile(f) PROVE FileInv'
    BY <2>1, WriteFileInv
  <2>2. CASE Restart
    BY <2>2, RestartInv
  <2>3. ASSUME NEW t \in ServerThreads, Hit(t) \/ Miss(t) \/ ReadContent(t) \/ Store(t) \/ Loaded(t)
        PROVE  FileInv'
    BY <2>3, HitInv, MissInv, ReadContentInv, StoreInv, LoadedInv
  <2>4. CASE UNCHANGED fileVars
    BY <2>4 DEF fileVars, FileInv, FileTypes, Working, Remembered, Mapped, Counted, Untorn,
                Sums, LoadOK, EntryOK, TagsDistinct, Kept, Clean, Stamp
  <2> QED BY <2>1, <2>2, <2>3, <2>4 DEF FileNext
<1> QED BY <1>1, <1>2, PTL DEF FileSpec

\* A client that is told Not_Modified holds the content the server would send, as long as
\* no file changed while it was loaded, reads were whole and the versions of a file differ
\* in time or, by less than a unit, in size: the sum of get_etag tells these apart.  Every
\* mapped entry is in the list, and current_size counts the bytes of whole reads.
THEOREM FileCacheStaysSound == FileSpec => []FileCacheSound
<1>1. FileInv => FileCacheSound
  <2> SUFFICES ASSUME FileInv PROVE FileCacheSound
    OBVIOUS
  <2>1. FileTypes /\ Mapped /\ Counted /\ Untorn
    BY DEF FileInv
  <2>2. ~partial => current_size = ReadUpto(cachelist)[Len(cachelist)]
    <3> SUFFICES ASSUME ~partial PROVE current_size = ReadUpto(cachelist)[Len(cachelist)]
      OBVIOUS
    <3>1. PICK f : Sums(f, cachelist) /\ current_size = f[Len(cachelist)]
      BY <2>1 DEF Counted
    <3> QED BY <2>1, <3>1, ReadUptoIs DEF FileTypes
  <2>3. ~tornLoad /\ ~partial /\ VersionsTold => ~wrong
    BY <2>1, ToldApart DEF Untorn, Clean, FileTypes
  <2> QED BY <2>1, <2>2, <2>3 DEF FileCacheSound, Mapped
<1> QED BY <1>1, FileInvariance, PTL

-----------------------------------------------------------------------------
\* What keys and entries are made of.
Strings == Seq(Characters)

\* The handler number of a key is the place of its insertion, and there is one.
Places ==
  /\ inserted \in Seq(Strings)
  /\ \A i, j \in 1..Len(inserted) : inserted[i] = inserted[j] => i = j

\* The entries of the tree are keys; a value is the number of the insertion of its
\* entry, and what was inserted is still there, but for the empty key.
TreeOK ==
  /\ DOMAIN tree \subseteq Strings /\ DOMAIN tree # {}
  /\ \A p \in DOMAIN tree : tree[p] # emptyvalue =>
        tree[p] \in 1..Len(inserted) /\ inserted[tree[p]] = p
  /\ \A i \in 1..Len(inserted) : inserted[i] # <<>> =>
        inserted[i] \in DOMAIN tree /\ tree[inserted[i]] = i

\* The invariant of the prefix map.
PrefixInv == Places /\ TreeOK

\* A prefix of a key is a key, no longer, and the key itself when as long.
LEMMA PrefixFacts ==
  ASSUME NEW key \in Strings, NEW p \in Prefixes(key)
  PROVE  /\ p \in Strings /\ Len(p) <= Len(key) /\ p = SubSeq(key, 1, Len(p))
         /\ Len(p) \in Nat
<1>1. PICK l \in 0..Len(key) : p = SubSeq(key, 1, l)
  BY DEF Prefixes
<1>2. l \in Nat /\ Len(key) \in Nat /\ l <= Len(key)
  BY DEF Strings
<1>3. p \in Strings /\ Len(p) = l
  <2>1. key \in Seq(Characters) /\ \A i \in 1..l : key[i] \in Characters
    BY <1>2 DEF Strings
  <2>2. 1 \in Int /\ l \in Int /\ l - 1 + 1 = l /\ (1 <= l \/ l = 0)
    BY <1>2
  <2>3. SubSeq(key, 1, l) \in Seq(Characters)
    BY ONLY <2>1, <2>2, SubSeqProperties
  <2>4. Len(SubSeq(key, 1, l)) = l
    BY ONLY <1>2, <2>1, <2>2, SubSeqProperties
  <2> QED BY <1>1, <2>3, <2>4, Zenon DEF Strings
<1>4. Len(p) <= Len(key) /\ Len(p) \in Nat
  BY ONLY <1>2, <1>3, Zenon
<1> QED BY ONLY <1>1, <1>3, <1>4, Zenon

\* The first and the last of the prefixes of a key.
LEMMA SelfPrefix ==
  ASSUME NEW key \in Strings
  PROVE  key \in Prefixes(key) /\ <<>> \in Prefixes(key)
<1>1. Len(key) \in 0..Len(key) /\ 0 \in 0..Len(key)
  BY DEF Strings
<1>2. key = SubSeq(key, 1, Len(key))
  BY DEF Strings
<1>3. <<>> = SubSeq(key, 1, 0)
  BY SubSeqEmpty
<1> QED BY <1>1, <1>2, <1>3 DEF Prefixes

\* A key is what comes before a place and what comes after it.
LEMMA CutInTwo ==
  ASSUME NEW key \in Strings, NEW n \in Nat, n <= Len(key)
  PROVE  SubSeq(key, 1, n) \o SubSeq(key, n + 1, Len(key)) = key
<1>1. PICK m \in Nat : m = Len(key)
  BY DEF Strings
<1>2. PICK k \in Nat : k = m - n
  <2>1. m - n \in Nat
    BY <1>1
  <2> QED BY <2>1
<1>3. PICK p : p = SubSeq(key, 1, n)
  OBVIOUS
<1>4. PICK r : r = SubSeq(key, n + 1, m)
  OBVIOUS
<1>5. p \in Strings /\ Len(p) = n /\ \A i \in 1..n : p[i] = key[i]
  BY <1>1, <1>3 DEF Strings
<1>6. /\ r \in Strings /\ Len(r) = k /\ \A i \in 1..k : r[i] = key[n + i]
  <2>1. key \in Seq(Characters) /\ \A i \in (n + 1)..m : key[i] \in Characters
    BY <1>1 DEF Strings
  <2>2. n + 1 \in Int /\ m \in Int /\ m - (n + 1) + 1 = k /\ (n + 1 <= m \/ k = 0)
    BY <1>1, <1>2
  <2>3. /\ r \in Seq(Characters) /\ Len(r) = k
        /\ \A i \in 1..k : r[i] = key[(n + 1) + i - 1]
    BY <1>4, <2>1, <2>2, SubSeqProperties
  <2>4. \A i \in 1..k : (n + 1) + i - 1 = n + i
    BY <1>2
  <2> QED BY <2>3, <2>4 DEF Strings
<1>7. PICK c : c = p \o r
  OBVIOUS
<1>8. /\ c \in Strings /\ Len(c) = n + k
      /\ \A i \in 1..(n + k) : c[i] = IF i <= n THEN p[i] ELSE r[i - n]
  <2>1. /\ n \in Nat /\ k \in Nat /\ p \in Seq(Characters) /\ r \in Seq(Characters)
        /\ Len(p) = n /\ Len(r) = k
    BY <1>5, <1>6 DEF Strings
  <2>2. c \in Seq(Characters) /\ Len(c) = n + k
    BY ONLY <1>7, <2>1, ConcatProperties
  <2>3. \A i \in 1..(n + k) : c[i] = IF i <= n THEN p[i] ELSE r[i - n]
    BY ONLY <1>7, <2>1, ConcatProperties
  <2> QED BY <2>2, <2>3 DEF Strings
<1>9. n + k = m
  BY <1>1, <1>2
<1>10. ASSUME NEW i \in 1..m PROVE c[i] = key[i]
  <2>1. CASE i <= n
    <3>1. i \in 1..n
      BY <2>1
    <3> QED BY <1>5, <1>8, <1>9, <2>1, <3>1
  <2>2. CASE ~(i <= n)
    <3>1. i - n \in 1..k /\ n + (i - n) = i
      BY <1>1, <1>2, <2>2
    <3> QED BY <1>6, <1>8, <1>9, <2>2, <3>1
  <2> QED BY <2>1, <2>2
<1>11. c = key
  BY <1>1, <1>8, <1>9, <1>10, SeqEqual DEF Strings
<1> QED BY <1>1, <1>3, <1>4, <1>7, <1>11

\* Among prefixes of a key there is a longest.
LEMMA LongestIs ==
  ASSUME NEW key \in Strings, NEW S, S \subseteq Prefixes(key), S # {}
  PROVE  Longest(S) \in S /\ \A p \in S : Len(p) <= Len(Longest(S))
<1> DEFINE Rest == {n \in Nat : \E s \in S : Len(s) + n = Len(key)}
<1>1. ASSUME NEW s \in S PROVE Len(s) \in Nat /\ Len(key) - Len(s) \in Rest
  <2>1. Len(s) \in Nat /\ Len(s) <= Len(key) /\ Len(key) \in Nat
    BY <1>1, PrefixFacts DEF Strings
  <2> QED BY <2>1
<1>2. PICK n \in Rest : \A m \in Rest : n <= m
  <2>1. Rest \subseteq Nat /\ Rest # {}
    BY <1>1
  <2> HIDE DEF Rest
  <2> QED BY <2>1, Smallest
<1>3. PICK s \in S : \A p \in S : Len(p) <= Len(s)
  <2>1. PICK s \in S : Len(s) + n = Len(key)
    BY <1>2
  <2>2. ASSUME NEW p \in S PROVE Len(p) <= Len(s)
    <3>1. n <= Len(key) - Len(p) /\ n \in Nat
      BY <1>1, <1>2
    <3>2. Len(key) \in Nat /\ Len(p) \in Nat /\ Len(s) \in Nat
      BY <1>1 DEF Strings
    <3> QED BY <2>1, <3>1, <3>2
  <2> QED BY <2>2
<1> QED BY <1>3 DEF Longest

\* The number of a handler that was inserted.
LEMMA ValueIs ==
  ASSUME Places, NEW i \in 1..Len(inserted)
  PROVE  Value(inserted[i]) = i
BY DEF Places, Value

\* The tree starts as a root without a value.
LEMMA PrefixInitInv == ASSUME PrefixInit PROVE PrefixInv
<1>1. DOMAIN tree = {<<>>} /\ tree[<<>>] = emptyvalue /\ inserted = <<>>
  BY DEF PrefixInit, NoTree
<1>2. <<>> \in Strings
  BY DEF Strings
<1> QED BY <1>1, <1>2 DEF PrefixInv, Places, TreeOK

\* Every insertion keeps the invariant: a key that becomes the match of a bare root leaves
\* no other entry behind, and breakmatch only adds an entry without a value.
LEMMA AddHandlerInv == ASSUME PrefixInv, AddHandler PROVE PrefixInv'
<1>1. PICK key \in Paths :
        /\ \A i \in 1..Len(inserted) : inserted[i] # key
        /\ inserted' = Append(inserted, key)
        /\ tree' = insert_path(tree, key, Len(inserted) + 1)
  BY DEF AddHandler
<1>2. PICK n \in Nat : n = Len(inserted)
  BY DEF PrefixInv, Places
<1>3. key \in Strings
  BY PrefixAssumption DEF Strings
<1>4. /\ inserted' \in Seq(Strings) /\ Len(inserted') = n + 1 /\ inserted'[n + 1] = key
      /\ \A i \in 1..n : inserted'[i] = inserted[i]
  BY <1>1, <1>2, <1>3 DEF PrefixInv, Places
<1>5. Places'
  <2>1. ASSUME NEW i \in 1..(n + 1), NEW j \in 1..(n + 1), inserted'[i] = inserted'[j]
        PROVE  i = j
    <3>1. CASE i = n + 1 /\ j # n + 1
      <4>1. j \in 1..n
        BY <3>1
      <4> QED BY <1>1, <1>2, <1>4, <2>1, <3>1, <4>1
    <3>2. CASE j = n + 1 /\ i # n + 1
      <4>1. i \in 1..n
        BY <3>2
      <4> QED BY <1>1, <1>2, <1>4, <2>1, <3>2, <4>1
    <3>3. CASE i # n + 1 /\ j # n + 1
      <4>1. i \in 1..n /\ j \in 1..n
        BY <3>3
      <4> QED BY <1>2, <1>4, <2>1, <4>1 DEF PrefixInv, Places
    <3> QED BY <3>1, <3>2, <3>3
  <2> QED BY <1>4, <2>1 DEF Places
<1>6. n + 1 # emptyvalue
  BY PrefixAssumption
<1>7. CASE Bare(tree)
  <2>1. DOMAIN tree' = {key} /\ tree'[key] = n + 1
    BY <1>1, <1>2, <1>7 DEF insert_path
  <2>2. \A i \in 1..n : inserted[i] = <<>>
    BY <1>2, <1>7 DEF PrefixInv, TreeOK, Bare
  <2>3. ASSUME NEW i \in 1..(n + 1), inserted'[i] # <<>>
        PROVE  i = n + 1
    BY <1>2, <1>4, <2>2, <2>3
  <2>4. n + 1 \in 1..(n + 1)
    OBVIOUS
  <2> QED BY <1>3, <1>4, <1>5, <2>1, <2>3, <2>4 DEF PrefixInv, TreeOK
<1>8. CASE ~Bare(tree)
  <2>1. PICK at : at = Common(tree, key)
    OBVIOUS
  <2>2. at \in Strings
    <3>1. PICK p \in DOMAIN tree : p \in Strings
      BY DEF PrefixInv, TreeOK
    <3>2. <<>> \in Prefixes(key) \cap UNION {Prefixes(q) : q \in DOMAIN tree}
      BY <1>3, <3>1, SelfPrefix
    <3>3. at \in Prefixes(key)
      <4> DEFINE S == Prefixes(key) \cap UNION {Prefixes(q) : q \in DOMAIN tree}
      <4>1. at = Longest(S) /\ S # {} /\ S \subseteq Prefixes(key)
        BY <2>1, <3>2 DEF Common
      <4> HIDE DEF S
      <4> QED BY <1>3, <4>1, LongestIs
    <3> QED BY <1>3, <3>3, PrefixFacts
  <2>3. /\ DOMAIN tree' = DOMAIN tree \cup {at} \cup {key} /\ tree'[key] = n + 1
        /\ \A p \in DOMAIN tree : p # key => tree'[p] = tree[p]
        /\ at \notin DOMAIN tree /\ at # key => tree'[at] = emptyvalue
    BY <1>1, <1>2, <1>8, <2>1 DEF insert_path, breakmatch
  <2>4. ASSUME NEW p \in DOMAIN tree', tree'[p] # emptyvalue
        PROVE  tree'[p] \in 1..(n + 1) /\ inserted'[tree'[p]] = p
    <3>1. CASE p = key
      <4>1. n + 1 \in 1..(n + 1)
        OBVIOUS
      <4> QED BY <1>4, <2>3, <3>1, <4>1
    <3>2. CASE p # key
      <4>1. p \in DOMAIN tree /\ tree'[p] = tree[p]
        BY <2>3, <2>4, <3>2
      <4>2. tree[p] \in 1..n /\ inserted[tree[p]] = p
        BY <1>2, <2>4, <4>1 DEF PrefixInv, TreeOK
      <4>3. tree[p] \in 1..(n + 1)
        BY <4>2
      <4> QED BY <1>4, <4>1, <4>2, <4>3
    <3> QED BY <3>1, <3>2
  <2>5. ASSUME NEW i \in 1..(n + 1), inserted'[i] # <<>>
        PROVE  inserted'[i] \in DOMAIN tree' /\ tree'[inserted'[i]] = i
    <3>1. CASE i = n + 1
      BY <1>4, <2>3, <3>1
    <3>2. CASE i # n + 1
      <4>1. i \in 1..n
        BY <3>2
      <4>2. inserted'[i] = inserted[i] /\ inserted[i] # key
        BY <1>1, <1>2, <1>4, <4>1
      <4>3. inserted[i] \in DOMAIN tree /\ tree[inserted[i]] = i
        BY <1>2, <2>5, <4>1, <4>2 DEF PrefixInv, TreeOK
      <4> QED BY <2>3, <4>2, <4>3
    <3> QED BY <3>1, <3>2
  <2>6. DOMAIN tree' \subseteq Strings /\ DOMAIN tree' # {}
    BY <1>3, <2>2, <2>3 DEF PrefixInv, TreeOK
  <2> QED BY <1>4, <1>5, <2>4, <2>5, <2>6 DEF PrefixInv, TreeOK
<1> QED BY <1>7, <1>8

\* The invariant of the prefix map, over every order of insertions.
THEOREM PrefixInvariance == PrefixSpec => []PrefixInv
<1>1. PrefixInit => PrefixInv
  BY PrefixInitInv
<1>2. PrefixInv /\ [AddHandler]_prefixVars => PrefixInv'
  <2> SUFFICES ASSUME PrefixInv, [AddHandler]_prefixVars PROVE PrefixInv'
    OBVIOUS
  <2>1. CASE UNCHANGED prefixVars
    BY <2>1 DEF prefixVars, PrefixInv, Places, TreeOK
  <2> QED BY <2>1, AddHandlerInv
<1> QED BY <1>1, <1>2, PTL DEF PrefixSpec

\* A search ends at a prefix of the key, the key itself when it is an entry.
LEMMA SearchEnds ==
  ASSUME NEW key \in Strings, search(tree, key).value # emptyvalue \/ key \in DOMAIN tree
  PROVE  \E p \in DOMAIN tree \cap Prefixes(key) :
           /\ search(tree, key) = [value |-> tree[p], newkey |-> SubSeq(key, Len(p) + 1, Len(key))]
           /\ key \in DOMAIN tree => p = key
<1>1. PICK on : on = DOMAIN tree \cap Prefixes(key)
  OBVIOUS
<1>2. on # {}
  BY <1>1, SelfPrefix DEF search
<1>3. PICK p : p = Longest(on)
  OBVIOUS
<1>4. p \in on /\ \A q \in on : Len(q) <= Len(p)
  BY <1>1, <1>2, <1>3, LongestIs
<1>5. search(tree, key) = [value |-> tree[p], newkey |-> SubSeq(key, Len(p) + 1, Len(key))]
  BY <1>1, <1>2, <1>3 DEF search
<1>6. ASSUME key \in DOMAIN tree PROVE p = key
  <2>1. key \in on
    BY <1>1, <1>6, SelfPrefix
  <2>2. Len(key) <= Len(p) /\ Len(p) <= Len(key) /\ Len(p) \in Nat /\ Len(key) \in Nat
    BY <1>1, <1>4, <2>1, PrefixFacts DEF Strings
  <2>3. Len(p) = Len(key)
    BY <2>2
  <2>4. p = SubSeq(key, 1, Len(key))
    BY <1>1, <1>4, <2>3, PrefixFacts
  <2> QED BY <2>4 DEF Strings
<1> QED BY <1>1, <1>4, <1>5, <1>6

\* A path that was inserted is found with its own value, and what a search returns is the
\* value of an inserted prefix, with the rest of the path.
THEOREM HandlersAreFound == PrefixSpec => []PrefixSound
<1>1. PrefixInv => PrefixSound
  <2> SUFFICES ASSUME PrefixInv PROVE PrefixSound
    OBVIOUS
  <2>1. ASSUME NEW key \in Registered \ {<<>>}
        PROVE  search(tree, key) = [value |-> Value(key), newkey |-> <<>>]
    <3>1. PICK i \in 1..Len(inserted) : key = inserted[i]
      BY DEF Registered
    <3>2. key \in DOMAIN tree /\ tree[key] = i /\ Value(key) = i /\ key \in Strings
      BY <2>1, <3>1, ValueIs, ElementOfSeq DEF PrefixInv, Places, TreeOK
    <3>3. search(tree, key) = [value |-> tree[key], newkey |-> SubSeq(key, Len(key) + 1, Len(key))]
      BY <3>2, SearchEnds
    <3>4. SubSeq(key, Len(key) + 1, Len(key)) = <<>>
      BY <3>2 DEF Strings
    <3> QED BY <3>2, <3>3, <3>4
  <2>2. ASSUME NEW key \in Requests, search(tree, key).value # emptyvalue
        PROVE  \E p \in Registered : /\ p \o search(tree, key).newkey = key
                                     /\ search(tree, key).value = Value(p)
    <3>1. key \in Strings
      BY PrefixAssumption DEF Strings
    <3>2. PICK p \in DOMAIN tree \cap Prefixes(key) :
            search(tree, key) = [value |-> tree[p], newkey |-> SubSeq(key, Len(p) + 1, Len(key))]
      BY <2>2, <3>1, SearchEnds
    <3>3. tree[p] \in 1..Len(inserted) /\ inserted[tree[p]] = p
      BY <2>2, <3>2 DEF PrefixInv, TreeOK
    <3>4. Value(p) = tree[p] /\ p \in Registered
      BY <3>3, ValueIs DEF PrefixInv, Registered
    <3>5. p \o SubSeq(key, Len(p) + 1, Len(key)) = key
      <4>1. PICK n : n = Len(p)
        OBVIOUS
      <4>2. p = SubSeq(key, 1, n) /\ n <= Len(key) /\ n \in Nat
        BY <3>1, <3>2, <4>1, PrefixFacts
      <4>3. PICK r : r = SubSeq(key, n + 1, Len(key))
        OBVIOUS
      <4>4. PICK q : q = SubSeq(key, 1, n)
        OBVIOUS
      <4>5. q \o r = key
        BY ONLY <3>1, <4>2, <4>3, <4>4, CutInTwo, Zenon
      <4>6. p = q
        BY ONLY <4>2, <4>4
      <4> QED BY ONLY <4>1, <4>3, <4>5, <4>6, Zenon
    <3>6. PICK r : r = SubSeq(key, Len(p) + 1, Len(key))
      OBVIOUS
    <3>7. PICK s : s = search(tree, key)
      OBVIOUS
    <3>8. s.newkey = r /\ s.value = tree[p]
      BY ONLY <3>2, <3>6, <3>7
    <3>9. p \in Registered /\ p \o s.newkey = key /\ s.value = Value(p)
      BY ONLY <3>4, <3>5, <3>6, <3>8, Zenon
    <3> QED BY ONLY <3>7, <3>9, Zenon
  <2> QED BY <2>1, <2>2 DEF PrefixSound
<1> QED BY <1>1, PrefixInvariance, PTL
=============================================================================
