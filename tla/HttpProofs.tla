---------------------------- MODULE HttpProofs ----------------------------
(***************************************************************************)
(* Machine-checked proofs about HttpServer: for every set of streams, of   *)
(* header representations, of handlers' answers and of settings, and for   *)
(* every limit of a frame, on any number of reads and frames; and about    *)
(* HttpMessage: for every set of field names, of values and of bodies, and *)
(* any number of field lines.                                              *)
(***************************************************************************)
EXTENDS HttpServer, HttpMessage, HpackProofs

-----------------------------------------------------------------------------
(***************************************************************************)
(* The request list.                                                       *)
(***************************************************************************)

\* Fields of request, the list of one read (http2.h:611-657).
ListFields == {"first", "last", "header_map", "node"}

\* A node of the list.
NodeType == [sid : Nat, next : Nat]

\* A list is a record of these fields whose nodes are a sequence.
ListShape(l) ==
  /\ DOMAIN l = ListFields
  /\ l.node \in Seq(NodeType)

\* A list of that shape has nodes of that type.
LEMMA ShapeNode ==
  ASSUME NEW l, ListShape(l)
  PROVE  /\ Len(l.node) \in Nat /\ DOMAIN l.node = 1..Len(l.node)
         /\ \A i \in 1..Len(l.node) : l.node[i] \in NodeType
  BY LenProperties, ElementOfSeq DEF ListShape

\* New puts one node, not linked to anything, behind the others.
LEMMA NewFacts ==
  ASSUME NEW l, ListShape(l), NEW sid \in Nat, NEW u, u = New(l, sid)
  PROVE  /\ ListShape(u) /\ Len(u.node) = Len(l.node) + 1
         /\ u.first = l.first /\ u.last = l.last /\ u.header_map = l.header_map
         /\ \A i \in 1..Len(l.node) : u.node[i] = l.node[i]
         /\ u.node[Len(l.node) + 1] = [sid |-> sid, next |-> 0]
<1>1. DOMAIN l = ListFields /\ l.node \in Seq(NodeType)
  BY DEF ListShape
<1>2. [sid |-> sid, next |-> 0] \in NodeType
  BY DEF NodeType
<1>3. /\ DOMAIN u = ListFields /\ u.node = Append(l.node, [sid |-> sid, next |-> 0])
      /\ u.first = l.first /\ u.last = l.last /\ u.header_map = l.header_map
  BY <1>1 DEF New, ListFields, Null
<1>4. /\ u.node \in Seq(NodeType) /\ Len(u.node) = Len(l.node) + 1
      /\ \A i \in 1..Len(l.node) : u.node[i] = l.node[i]
      /\ u.node[Len(l.node) + 1] = [sid |-> sid, next |-> 0]
  BY <1>1, <1>2, <1>3, AppendProperties
<1> QED BY <1>3, <1>4 DEF ListShape

\* one link of a sequence of nodes changed
LEMMA RelinkFacts ==
  ASSUME NEW s \in Seq(NodeType), NEW a \in 1..Len(s), NEW b \in Nat,
         NEW v, v = [s EXCEPT ![a].next = b]
  PROVE  /\ v \in Seq(NodeType) /\ Len(v) = Len(s)
         /\ \A i \in 1..Len(s) : i # a => v[i] = s[i]
         /\ v[a].next = b /\ v[a].sid = s[a].sid
<1>1. s[a] \in NodeType /\ DOMAIN s = 1..Len(s) /\ Len(s) \in Nat
  BY ElementOfSeq, LenProperties
<1>2. v = [s EXCEPT ![a] = [s[a] EXCEPT !.next = b]]
  OBVIOUS
<1>3. [s[a] EXCEPT !.next = b] \in NodeType
  BY <1>1 DEF NodeType
<1>4. v \in Seq(NodeType) /\ Len(v) = Len(s)
  BY <1>2, <1>3, ExceptSeq
<1>5. \A i \in 1..Len(s) : v[i] = IF i = a THEN [s[a] EXCEPT !.next = b] ELSE s[i]
  BY <1>1, <1>2
<1>6. [s[a] EXCEPT !.next = b].next = b /\ [s[a] EXCEPT !.next = b].sid = s[a].sid
  BY <1>1 DEF NodeType
<1> QED BY <1>4, <1>5, <1>6

\* Link changes one link: the list's first, or the next of one node.
LEMMA LinkFacts ==
  ASSUME NEW l, ListShape(l), NEW a \in 0..Len(l.node), NEW b \in Nat, NEW u, u = Link(l, a, b)
  PROVE  /\ ListShape(u) /\ Len(u.node) = Len(l.node)
         /\ u.first = (IF a = 0 THEN b ELSE l.first)
         /\ u.last = l.last /\ u.header_map = l.header_map
         /\ \A i \in 1..Len(l.node) : i # a => u.node[i] = l.node[i]
         /\ a # 0 => u.node[a].next = b /\ u.node[a].sid = l.node[a].sid
<1>1. DOMAIN l = ListFields /\ l.node \in Seq(NodeType)
  BY DEF ListShape
<1>2. CASE a = 0
  <2>1. u = [l EXCEPT !.first = b]
    BY <1>2 DEF Link, Null
  <2>2. /\ DOMAIN u = ListFields /\ u.first = b /\ u.node = l.node
        /\ u.last = l.last /\ u.header_map = l.header_map
    BY <1>1, <2>1 DEF ListFields
  <2> QED BY <1>1, <1>2, <2>2 DEF ListShape
<1>3. CASE a # 0
  <2>1. u = [l EXCEPT !.node[a].next = b]
    BY <1>3 DEF Link, Null
  <2>2. /\ DOMAIN u = ListFields /\ u.first = l.first
        /\ u.node = [l.node EXCEPT ![a].next = b]
        /\ u.last = l.last /\ u.header_map = l.header_map
    BY <1>1, <2>1 DEF ListFields
  <2>3. a \in 1..Len(l.node)
    BY <1>1, <1>3, LenProperties
  <2>4. /\ u.node \in Seq(NodeType) /\ Len(u.node) = Len(l.node)
        /\ \A i \in 1..Len(l.node) : i # a => u.node[i] = l.node[i]
        /\ u.node[a].next = b /\ u.node[a].sid = l.node[a].sid
    BY <1>1, <2>2, <2>3, RelinkFacts
  <2> QED BY <1>3, <2>2, <2>4 DEF ListShape
<1> QED BY <1>2, <1>3

\* A set of nodes that holds the first one and is closed under next.
Closed(l, S) ==
  /\ S \subseteq 1..Len(l.node) /\ l.first \in S
  /\ \A i \in S : l.node[i].next \in S \cup {0}

\* RequestListSound with the types it needs: links and map stay inside the list,
\* and the map of a stream leads to the node of that stream.
ListInv(l) ==
  /\ ListShape(l)
  /\ l.first \in 0..Len(l.node) /\ l.last \in 0..Len(l.node)
  /\ IF Len(l.node) = 0 THEN l.first = 0 /\ l.last = 0
     ELSE l.first # 0 /\ l.last # 0 /\ l.node[l.last].next = 0
  /\ \A i \in 1..Len(l.node) :
       l.node[i].next \in 0..Len(l.node) /\ l.node[i].sid \in {0} \cup Streams
  /\ \A S : Closed(l, S) => S = 1..Len(l.node)
  /\ \A s \in DOMAIN l.header_map :
       /\ l.header_map[s] \in 1..Len(l.node)
       /\ s # 0 => l.node[l.header_map[s]].sid = s

\* What Insert does to the nodes that are there and to the map.
Inserted(l, u) ==
  /\ Len(u.node) \in Nat /\ Len(u.node) > Len(l.node)
  /\ \A i \in 1..Len(l.node) : u.node[i].sid = l.node[i].sid
  /\ u.node[Len(l.node) + 1].sid = 0

\* New nodes, chained from c to d, spliced in behind node r, or in front of an
\* empty list.
Spliced(l, u, r, c, d) ==
  LET n == Len(l.node)
      W == (n + 1)..Len(u.node)
  IN  /\ ListShape(u) /\ Len(u.node) > n
      /\ r \in 0..n /\ (r = 0 <=> n = 0) /\ c \in W /\ d \in W
      /\ u.first = (IF r = 0 THEN c ELSE l.first)
      /\ u.last = (IF r = l.last THEN d ELSE l.last)
      /\ \A i \in 1..n : u.node[i].sid = l.node[i].sid
      /\ \A i \in 1..n : u.node[i].next = IF i = r THEN c ELSE l.node[i].next
      /\ u.node[d].next = IF r = 0 THEN 0 ELSE l.node[r].next
      /\ \A i \in W : u.node[i].sid \in {0} \cup Streams /\ (i # d => u.node[i].next \in W)
      /\ \A S \in SUBSET W : c \in S /\ (\A i \in S \ {d} : u.node[i].next \in S) => S = W
      /\ \A s \in DOMAIN u.header_map :
           \/ s \in DOMAIN l.header_map /\ u.header_map[s] = l.header_map[s]
           \/ u.header_map[s] \in W /\ (s # 0 => u.node[u.header_map[s]].sid = s)

\* Splicing new nodes in behind one node keeps the list sound: a closed set of
\* the new list is closed in the old one up to the splice, and then holds the new nodes.
LEMMA SpliceInv ==
  ASSUME NEW l, ListInv(l), NEW u, NEW r, NEW c, NEW d, Spliced(l, u, r, c, d)
  PROVE  ListInv(u)
<1> DEFINE n == Len(l.node)
<1> DEFINE k == Len(u.node)
<1> DEFINE W == (n + 1)..k
<1>1. /\ n \in Nat /\ k \in Nat /\ k > n /\ 1..k = (1..n) \cup W
      /\ r \in 0..n /\ (r = 0 <=> n = 0) /\ c \in W /\ d \in W
  <2>1. n \in Nat /\ k \in Nat
    BY ShapeNode DEF ListInv, Spliced
  <2> QED BY <2>1 DEF Spliced
<1>2. /\ u.first = (IF r = 0 THEN c ELSE l.first)
      /\ u.last = (IF r = l.last THEN d ELSE l.last)
      /\ \A i \in 1..n : u.node[i].sid = l.node[i].sid
      /\ \A i \in 1..n : u.node[i].next = IF i = r THEN c ELSE l.node[i].next
      /\ u.node[d].next = IF r = 0 THEN 0 ELSE l.node[r].next
      /\ \A i \in W : u.node[i].sid \in {0} \cup Streams /\ (i # d => u.node[i].next \in W)
      /\ \A S \in SUBSET W : c \in S /\ (\A i \in S \ {d} : u.node[i].next \in S) => S = W
      /\ \A s \in DOMAIN u.header_map :
           \/ s \in DOMAIN l.header_map /\ u.header_map[s] = l.header_map[s]
           \/ u.header_map[s] \in W /\ (s # 0 => u.node[u.header_map[s]].sid = s)
  BY DEF Spliced
<1>3. /\ l.first \in 0..n /\ l.last \in 0..n
      /\ n = 0 => l.first = 0 /\ l.last = 0
      /\ n # 0 => l.first \in 1..n /\ l.last \in 1..n /\ l.node[l.last].next = 0
      /\ \A i \in 1..n : l.node[i].next \in 0..n /\ l.node[i].sid \in {0} \cup Streams
      /\ \A s \in DOMAIN l.header_map :
           l.header_map[s] \in 1..n /\ (s # 0 => l.node[l.header_map[s]].sid = s)
  <2>1. /\ l.first \in 0..n /\ l.last \in 0..n
        /\ n = 0 => l.first = 0 /\ l.last = 0
        /\ n # 0 => l.first # 0 /\ l.last # 0 /\ l.node[l.last].next = 0
    BY DEF ListInv
  <2>2. n # 0 => l.first \in 1..n /\ l.last \in 1..n
    BY <1>1, <2>1
  <2>3. /\ \A i \in 1..n : l.node[i].next \in 0..n /\ l.node[i].sid \in {0} \cup Streams
        /\ \A s \in DOMAIN l.header_map :
             l.header_map[s] \in 1..n /\ (s # 0 => l.node[l.header_map[s]].sid = s)
    BY DEF ListInv
  <2> QED BY <2>1, <2>2, <2>3
<1>4. \A S : Closed(l, S) => S = 1..n
  BY DEF ListInv
<1>5. \A i : ~(i \in 1..n /\ i \in W) /\ 0 \notin W
  BY <1>1
<1>6. ASSUME NEW S, Closed(u, S) PROVE S = 1..k
  <2>1. S \subseteq 1..k /\ u.first \in S /\ \A i \in S : u.node[i].next \in S \cup {0}
    BY <1>6 DEF Closed
  <2> HIDE DEF n, k, W
  <2> DEFINE T == S \cap (1..n)
  <2> DEFINE V == S \cap W
  <2>2. S = T \cup V
    BY <1>1, <2>1
  <2>3. c \in S
    <3>1. CASE r = 0
      BY <1>2, <2>1, <3>1
    <3>2. CASE r # 0
      <4>1. l.first \in T
        BY <1>1, <1>2, <1>3, <2>1, <3>2
      <4>2. ASSUME NEW i \in T PROVE i = r \/ l.node[i].next \in T \cup {0}
        <5>1. l.node[i].next \in 0..n
          BY <1>3
        <5>2. i # r => l.node[i].next = u.node[i].next
          BY <1>2
        <5>3. l.node[i].next # 0 => l.node[i].next \in 1..n
          BY <1>1, <5>1
        <5> QED BY <2>1, <5>2, <5>3
      <4>3. r \in T
        <5> SUFFICES ASSUME r \notin T PROVE FALSE
          OBVIOUS
        <5>1. \A i \in T : l.node[i].next \in T \cup {0}
          BY <4>2
        <5>2. T = 1..n
          BY <1>4, <4>1, <5>1 DEF Closed, n
        <5> QED BY <1>1, <3>2, <5>2
      <4>4. u.node[r].next = c
        BY <1>2, <4>3
      <4> QED BY <1>1, <1>5, <2>1, <4>3, <4>4
    <3> QED BY <3>1, <3>2
  <2>4. V = W
    <3>1. c \in V
      BY <1>1, <2>3
    <3>2. \A i \in V \ {d} : u.node[i].next \in V
      BY <1>2, <1>5, <2>1
    <3> QED BY <1>2, <3>1, <3>2
  <2>5. T = 1..n
    <3>1. CASE n = 0
      BY <1>1, <3>1
    <3>2. CASE n # 0
      <4>1. l.first \in T /\ r \in 1..n
        BY <1>1, <1>2, <1>3, <2>1, <3>2
      <4>2. ASSUME NEW i \in T PROVE l.node[i].next \in T \cup {0}
        <5>1. l.node[i].next # 0 => l.node[i].next \in 1..n
          BY <1>1, <1>3
        <5>2. CASE i = r
          <6>1. d \in S /\ u.node[d].next = l.node[r].next
            BY <1>1, <1>2, <2>4, <4>1
          <6> QED BY <2>1, <5>1, <5>2, <6>1
        <5>3. CASE i # r
          BY <1>2, <2>1, <5>1, <5>3
        <5> QED BY <5>2, <5>3
      <4> QED BY <1>4, <4>1, <4>2 DEF Closed, n
    <3> QED BY <3>1, <3>2
  <2> QED BY <1>1, <2>2, <2>4, <2>5
<1>7. \A s \in DOMAIN u.header_map :
        u.header_map[s] \in 1..k /\ (s # 0 => u.node[u.header_map[s]].sid = s)
  <2> TAKE s \in DOMAIN u.header_map
  <2>1. CASE s \in DOMAIN l.header_map /\ u.header_map[s] = l.header_map[s]
    <3>1. l.header_map[s] \in 1..n /\ (s # 0 => l.node[l.header_map[s]].sid = s)
      BY <1>3, <2>1
    <3>2. u.node[l.header_map[s]].sid = l.node[l.header_map[s]].sid
      BY <1>2, <3>1
    <3> QED BY <1>1, <2>1, <3>1, <3>2
  <2>2. CASE u.header_map[s] \in W /\ (s # 0 => u.node[u.header_map[s]].sid = s)
    BY <1>1, <2>2
  <2> QED BY <1>2, <2>1, <2>2
<1>8. ASSUME NEW i \in 1..k
      PROVE  u.node[i].next \in 0..k /\ u.node[i].sid \in {0} \cup Streams
  <2>1. 0..n \subseteq 0..k /\ W \subseteq 0..k
    BY <1>1
  <2>2. CASE i \in 1..n
    <3>1. u.node[i].next \in W \/ u.node[i].next \in 0..n
      BY <1>1, <1>2, <1>3, <2>2
    <3>2. u.node[i].sid \in {0} \cup Streams
      BY <1>2, <1>3, <2>2
    <3> QED BY <2>1, <3>1, <3>2
  <2>3. CASE i \in W
    <3>1. u.node[d].next \in 0..n
      <4>1. r # 0 => r \in 1..n
        BY <1>1
      <4> QED BY <1>1, <1>2, <1>3, <4>1
    <3>2. u.node[i].next \in W \/ u.node[i].next \in 0..n
      BY <1>2, <2>3, <3>1
    <3> QED BY <1>2, <2>1, <2>3, <3>2
  <2> QED BY <1>1, <2>2, <2>3
<1>9. u.first \in 1..k /\ u.last \in 1..k /\ u.node[u.last].next = 0
  <2>1. u.first \in 1..k
    BY <1>1, <1>2, <1>3
  <2>2. CASE r = l.last
    <3>1. u.last = d
      BY <1>2, <2>2
    <3>2. r # 0 => l.node[r].next = 0
      BY <1>1, <1>3, <2>2
    <3> QED BY <1>1, <1>2, <2>1, <3>1, <3>2
  <2>3. CASE r # l.last
    <3>1. l.last \in 1..n /\ l.node[l.last].next = 0
      BY <1>1, <1>3, <2>3
    <3> QED BY <1>1, <1>2, <2>1, <2>3, <3>1
  <2> QED BY <2>2, <2>3
<1>10. k # 0 /\ u.first \in 0..k /\ u.last \in 0..k /\ u.first # 0 /\ u.last # 0
  BY <1>1, <1>9
<1>11. ListShape(u)
  BY DEF Spliced
<1> QED BY <1>6, <1>7, <1>8, <1>9, <1>10, <1>11 DEF ListInv

\* The three ways Insert links the node of a new stream.
Appended(l) == [Link(New(l, 0), l.last, Fresh(l)) EXCEPT !.last = Fresh(l)]

\* Behind the node of a known dependency.
Behind(l, r) ==
  [Link(Link(New(l, 0), Fresh(l), l.node[r].next), r, Fresh(l)) EXCEPT
     !.last = IF l.last = r THEN Fresh(l) ELSE l.last]

\* Behind a dummy for an unknown one, at the end.
WithDummy(l, dep) ==
  LET p == Fresh(l) IN
  [Link(Link(New(New(l, 0), dep), l.last, p + 1), p + 1, p) EXCEPT
     !.last = p, !.header_map = MapInsert(l.header_map, dep, p + 1)]

\* Insert is one of the three.
LEMMA InsertCases ==
  ASSUME NEW l, NEW dep
  PROVE  LET v == IF dep = 0 THEN Appended(l)
                  ELSE IF dep \in DOMAIN l.header_map THEN Behind(l, l.header_map[dep])
                  ELSE WithDummy(l, dep)
         IN  Insert(l, dep) = [v EXCEPT !.header_map = MapInsert(@, 0, Fresh(l))]
BY DEF Insert, Appended, Behind, WithDummy

\* What the new node and the list look like after New.
LEMMA NewNode ==
  ASSUME NEW l, ListInv(l)
  PROVE  LET n == Len(l.node)
             m == New(l, 0)
         IN  /\ n \in Nat /\ Fresh(l) = n + 1
             /\ ListShape(m) /\ Len(m.node) = n + 1
             /\ m.first = l.first /\ m.last = l.last /\ m.header_map = l.header_map
             /\ \A i \in 1..n : m.node[i] = l.node[i] /\ m.node[i] \in NodeType
             /\ m.node[n + 1] = [sid |-> 0, next |-> 0]
<1>1. ListShape(l)
  BY DEF ListInv
<1>2. /\ Len(l.node) \in Nat /\ Fresh(l) = Len(l.node) + 1
      /\ \A i \in 1..Len(l.node) : l.node[i] \in NodeType
  BY <1>1, ShapeNode DEF Fresh
<1> QED BY <1>1, <1>2, NewFacts

\* A node put at the end is a splice of one node behind last.
LEMMA AppendedFacts ==
  ASSUME NEW l, ListInv(l), NEW u, u = Appended(l)
  PROVE  LET p == Len(l.node) + 1 IN
         /\ ListShape(u) /\ Len(u.node) = p
         /\ u.first = (IF l.last = 0 THEN p ELSE l.first) /\ u.last = p
         /\ u.header_map = l.header_map
         /\ \A i \in 1..Len(l.node) :
              /\ u.node[i].sid = l.node[i].sid
              /\ u.node[i].next = IF i = l.last THEN p ELSE l.node[i].next
         /\ u.node[p].sid = 0 /\ u.node[p].next = 0
<1> DEFINE n == Len(l.node)
<1> DEFINE p == n + 1
<1> DEFINE m == New(l, 0)
<1> DEFINE v == Link(m, l.last, p)
<1>1. /\ n \in Nat /\ Fresh(l) = p /\ ListShape(m) /\ Len(m.node) = p
      /\ m.first = l.first /\ m.last = l.last /\ m.header_map = l.header_map
      /\ \A i \in 1..n : m.node[i] = l.node[i]
      /\ m.node[p] = [sid |-> 0, next |-> 0]
  BY NewNode
<1>2. l.last \in 0..n
  BY DEF ListInv
<1> HIDE DEF m
<1>3. /\ ListShape(v) /\ Len(v.node) = p
      /\ v.first = (IF l.last = 0 THEN p ELSE l.first) /\ v.header_map = l.header_map
      /\ \A i \in 1..p : i # l.last => v.node[i] = m.node[i]
      /\ l.last # 0 => v.node[l.last].next = p /\ v.node[l.last].sid = m.node[l.last].sid
  <2>1. l.last \in 0..Len(m.node) /\ p \in Nat
    BY <1>1, <1>2
  <2>2. v = Link(m, l.last, p)
    OBVIOUS
  <2> HIDE DEF v
  <2> QED BY <1>1, <2>1, <2>2, LinkFacts
<1>4. u = [v EXCEPT !.last = p]
  BY <1>1 DEF Appended, v, m
<1> HIDE DEF v
<1>5. /\ DOMAIN u = ListFields /\ u.first = v.first /\ u.node = v.node /\ u.last = p
      /\ u.header_map = v.header_map
  <2>1. DOMAIN v = ListFields
    BY <1>3 DEF ListShape
  <2> QED BY <1>4, <2>1 DEF ListFields
<1>6. ASSUME NEW i \in 1..n
      PROVE  /\ u.node[i].sid = l.node[i].sid
             /\ u.node[i].next = IF i = l.last THEN p ELSE l.node[i].next
  <2>1. i \in 1..p /\ m.node[i] = l.node[i]
    BY <1>1
  <2>2. CASE i = l.last
    <3>1. l.last # 0
      BY <2>2
    <3> QED BY <1>3, <1>5, <2>1, <2>2, <3>1
  <2>3. CASE i # l.last
    BY <1>3, <1>5, <2>1, <2>3
  <2> QED BY <2>2, <2>3
<1>7. u.node[p] = [sid |-> 0, next |-> 0]
  <2>1. p \in 1..p /\ p # l.last
    BY <1>1, <1>2
  <2> QED BY <1>1, <1>3, <1>5, <2>1
<1>8. ListShape(u)
  BY <1>3, <1>5 DEF ListShape
<1> QED BY <1>3, <1>5, <1>6, <1>7, <1>8

\* A node put behind its dependency is a splice of one node there.
LEMMA BehindFacts ==
  ASSUME NEW l, ListInv(l), NEW r \in 1..Len(l.node), NEW u, u = Behind(l, r)
  PROVE  LET p == Len(l.node) + 1 IN
         /\ ListShape(u) /\ Len(u.node) = p
         /\ u.first = l.first /\ u.last = (IF l.last = r THEN p ELSE l.last)
         /\ u.header_map = l.header_map
         /\ \A i \in 1..Len(l.node) :
              /\ u.node[i].sid = l.node[i].sid
              /\ u.node[i].next = IF i = r THEN p ELSE l.node[i].next
         /\ u.node[p].sid = 0 /\ u.node[p].next = l.node[r].next
<1> DEFINE n == Len(l.node)
<1> DEFINE p == n + 1
<1> DEFINE m == New(l, 0)
<1>1. /\ n \in Nat /\ Fresh(l) = p /\ ListShape(m) /\ Len(m.node) = p
      /\ m.first = l.first /\ m.last = l.last /\ m.header_map = l.header_map
      /\ \A i \in 1..n : m.node[i] = l.node[i] /\ m.node[i] \in NodeType
      /\ m.node[p] = [sid |-> 0, next |-> 0]
  BY NewNode
<1> DEFINE b == l.node[r].next
<1> DEFINE v == Link(m, p, b)
<1> DEFINE w == Link(v, r, p)
<1>2. u = [w EXCEPT !.last = IF l.last = r THEN p ELSE l.last]
  BY <1>1 DEF Behind
<1>3. b \in 0..n /\ b \in Nat /\ p \in Nat /\ r \in 1..p /\ r # p /\ r # 0 /\ p # 0
  BY <1>1 DEF ListInv
<1> HIDE DEF m, b
<1>4. /\ ListShape(v) /\ Len(v.node) = p /\ v.first = l.first /\ v.header_map = l.header_map
      /\ \A i \in 1..n : v.node[i] = l.node[i]
      /\ v.node[p].next = b /\ v.node[p].sid = 0
  <2>1. p \in 0..Len(m.node) /\ \A i \in 1..n : i \in 1..p /\ i # p
    BY <1>1
  <2>2. v = Link(m, p, b)
    OBVIOUS
  <2> HIDE DEF v, p
  <2>3. /\ ListShape(v) /\ Len(v.node) = Len(m.node)
        /\ v.first = m.first /\ v.header_map = m.header_map
        /\ \A i \in 1..Len(m.node) : i # p => v.node[i] = m.node[i]
        /\ v.node[p].next = b /\ v.node[p].sid = m.node[p].sid
    BY <1>1, <1>3, <2>1, <2>2, LinkFacts
  <2> QED BY <1>1, <2>1, <2>3
<1> HIDE DEF v
<1>5. /\ ListShape(w) /\ Len(w.node) = p /\ w.first = l.first /\ w.header_map = l.header_map
      /\ \A i \in 1..p : i # r => w.node[i] = v.node[i]
      /\ w.node[r].next = p /\ w.node[r].sid = v.node[r].sid
  <2>1. r \in 0..Len(v.node) /\ r # 0
    BY <1>3, <1>4
  <2>2. w = Link(v, r, p)
    OBVIOUS
  <2> HIDE DEF w, p
  <2>3. /\ ListShape(w) /\ Len(w.node) = Len(v.node)
        /\ w.first = v.first /\ w.header_map = v.header_map
        /\ \A i \in 1..Len(v.node) : i # r => w.node[i] = v.node[i]
        /\ w.node[r].next = p /\ w.node[r].sid = v.node[r].sid
    BY <1>3, <1>4, <2>1, <2>2, LinkFacts
  <2> QED BY <1>4, <2>3
<1> HIDE DEF w
<1>6. /\ DOMAIN u = ListFields /\ u.first = w.first /\ u.node = w.node
      /\ u.header_map = w.header_map
      /\ u.last = (IF l.last = r THEN p ELSE l.last)
  <2>1. DOMAIN w = ListFields
    BY <1>5 DEF ListShape
  <2> QED BY <1>2, <2>1 DEF ListFields
<1>7. ASSUME NEW i \in 1..n
      PROVE  /\ u.node[i].sid = l.node[i].sid
             /\ u.node[i].next = IF i = r THEN p ELSE l.node[i].next
  <2>1. i \in 1..p /\ v.node[i] = l.node[i]
    BY <1>1, <1>4
  <2>2. CASE i = r
    BY <1>5, <1>6, <2>1, <2>2
  <2>3. CASE i # r
    BY <1>5, <1>6, <2>1, <2>3
  <2> QED BY <2>2, <2>3
<1>8. u.node[p].sid = 0 /\ u.node[p].next = b
  <2>1. p \in 1..p /\ p # r
    BY <1>1, <1>3
  <2> QED BY <1>4, <1>5, <1>6, <2>1
<1>9. ListShape(u)
  BY <1>5, <1>6 DEF ListShape
<1> QED BY <1>5, <1>6, <1>7, <1>8, <1>9 DEF b

\* A dummy and the node behind it are a splice of two nodes behind last.
LEMMA WithDummyFacts ==
  ASSUME NEW l, ListInv(l), NEW dep \in Nat, NEW u, u = WithDummy(l, dep)
  PROVE  LET p == Len(l.node) + 1 IN
         /\ ListShape(u) /\ Len(u.node) = p + 1
         /\ u.first = (IF l.last = 0 THEN p + 1 ELSE l.first) /\ u.last = p
         /\ u.header_map = MapInsert(l.header_map, dep, p + 1)
         /\ \A i \in 1..Len(l.node) :
              /\ u.node[i].sid = l.node[i].sid
              /\ u.node[i].next = IF i = l.last THEN p + 1 ELSE l.node[i].next
         /\ u.node[p].sid = 0 /\ u.node[p].next = 0
         /\ u.node[p + 1].sid = dep /\ u.node[p + 1].next = p
<1> DEFINE n == Len(l.node)
<1> DEFINE p == n + 1
<1> DEFINE q == p + 1
<1> DEFINE m == New(l, 0)
<1> DEFINE k == New(m, dep)
<1> DEFINE v == Link(k, l.last, q)
<1> DEFINE w == Link(v, q, p)
<1>1. /\ n \in Nat /\ Fresh(l) = p /\ ListShape(m) /\ Len(m.node) = p
      /\ m.first = l.first /\ m.last = l.last /\ m.header_map = l.header_map
      /\ \A i \in 1..n : m.node[i] = l.node[i]
      /\ m.node[p] = [sid |-> 0, next |-> 0]
  BY NewNode
<1>2. l.last \in 0..n /\ p \in Nat /\ q \in Nat /\ p # q /\ q # 0 /\ p # 0
  BY <1>1 DEF ListInv
<1>3. u = [w EXCEPT !.last = p, !.header_map = MapInsert(l.header_map, dep, q)]
  BY <1>1 DEF WithDummy
<1> HIDE DEF m
<1>4. /\ ListShape(k) /\ Len(k.node) = q /\ k.first = l.first /\ k.last = l.last
      /\ \A i \in 1..n : k.node[i] = l.node[i]
      /\ k.node[p] = [sid |-> 0, next |-> 0] /\ k.node[q] = [sid |-> dep, next |-> 0]
  <2>1. k = New(m, dep)
    OBVIOUS
  <2> HIDE DEF k, p
  <2>2. /\ ListShape(k) /\ Len(k.node) = Len(m.node) + 1
        /\ k.first = m.first /\ k.last = m.last
        /\ \A i \in 1..Len(m.node) : k.node[i] = m.node[i]
        /\ k.node[Len(m.node) + 1] = [sid |-> dep, next |-> 0]
    <3>1. ListShape(m)
      BY <1>1
    <3>2. /\ ListShape(New(m, dep)) /\ Len(New(m, dep).node) = Len(m.node) + 1
          /\ New(m, dep).first = m.first /\ New(m, dep).last = m.last
          /\ \A i \in 1..Len(m.node) : New(m, dep).node[i] = m.node[i]
          /\ New(m, dep).node[Len(m.node) + 1] = [sid |-> dep, next |-> 0]
      BY <3>1, NewFacts
    <3> QED BY <2>1, <3>2, Zenon
  <2>3. p \in 1..p /\ \A i \in 1..n : i \in 1..p
    BY <1>1 DEF p
  <2> QED BY <1>1, <2>2, <2>3 DEF q
<1> HIDE DEF k
<1>5. /\ ListShape(v) /\ Len(v.node) = q
      /\ v.first = (IF l.last = 0 THEN q ELSE l.first)
      /\ \A i \in 1..q : i # l.last => v.node[i] = k.node[i]
      /\ l.last # 0 => v.node[l.last].next = q /\ v.node[l.last].sid = k.node[l.last].sid
  <2>1. l.last \in 0..Len(k.node)
    BY <1>1, <1>2, <1>4
  <2>2. v = Link(k, l.last, q)
    OBVIOUS
  <2> HIDE DEF v, p, q
  <2>3. /\ ListShape(v) /\ Len(v.node) = Len(k.node)
        /\ v.first = (IF l.last = 0 THEN q ELSE k.first)
        /\ \A i \in 1..Len(k.node) : i # l.last => v.node[i] = k.node[i]
        /\ l.last # 0 => v.node[l.last].next = q /\ v.node[l.last].sid = k.node[l.last].sid
    <3> DEFINE a == l.last
    <3>1. ListShape(k) /\ q \in Nat /\ a \in 0..Len(k.node) /\ v = Link(k, a, q)
      BY <1>2, <1>4, <2>1, <2>2
    <3> HIDE DEF a
    <3>2. /\ ListShape(v) /\ Len(v.node) = Len(k.node)
          /\ v.first = (IF a = 0 THEN q ELSE k.first)
      BY <3>1, LinkFacts
    <3>3. \A i \in 1..Len(k.node) : i # a => v.node[i] = k.node[i]
      BY <3>1, LinkFacts
    <3>4. a # 0 => v.node[a].next = q /\ v.node[a].sid = k.node[a].sid
      BY <3>1, LinkFacts
    <3> QED BY <3>2, <3>3, <3>4 DEF a
  <2> QED BY <1>4, <2>3
<1> HIDE DEF v
<1>6. /\ ListShape(w) /\ Len(w.node) = q /\ w.first = v.first
      /\ \A i \in 1..q : i # q => w.node[i] = v.node[i]
      /\ w.node[q].next = p /\ w.node[q].sid = v.node[q].sid
  <2>1. q \in 0..Len(v.node)
    BY <1>2, <1>5
  <2>2. w = Link(v, q, p)
    OBVIOUS
  <2> HIDE DEF w, p, q
  <2> QED BY <1>2, <1>5, <2>1, <2>2, LinkFacts
<1> HIDE DEF w
<1>7. /\ DOMAIN u = ListFields /\ u.first = w.first /\ u.node = w.node /\ u.last = p
      /\ u.header_map = MapInsert(l.header_map, dep, q)
  <2>1. DOMAIN w = ListFields
    BY <1>6 DEF ListShape
  <2> QED BY <1>3, <2>1 DEF ListFields
<1>8. ASSUME NEW i \in 1..n
      PROVE  /\ u.node[i].sid = l.node[i].sid
             /\ u.node[i].next = IF i = l.last THEN q ELSE l.node[i].next
  <2>1. i \in 1..q /\ i # q /\ k.node[i] = l.node[i] /\ u.node[i] = v.node[i]
    BY <1>1, <1>4, <1>6, <1>7
  <2>2. CASE i = l.last
    <3>1. l.last # 0
      BY <2>2
    <3> QED BY <1>5, <2>1, <2>2, <3>1
  <2>3. CASE i # l.last
    BY <1>5, <2>1, <2>3
  <2> QED BY <2>2, <2>3
<1>9. u.node[p] = [sid |-> 0, next |-> 0] /\ u.node[q].sid = dep /\ u.node[q].next = p
  <2>1. p \in 1..q /\ q \in 1..q /\ p # l.last /\ q # l.last
    BY <1>1, <1>2
  <2>2. k.node[q].sid = dep
    BY <1>4
  <2> HIDE DEF p, q
  <2>3. v.node[p] = k.node[p] /\ v.node[q] = k.node[q]
    BY <1>5, <2>1
  <2> QED BY <1>2, <1>4, <1>6, <1>7, <2>1, <2>2, <2>3
<1>10. ListShape(u)
  BY <1>6, <1>7 DEF ListShape
<1> QED BY <1>5, <1>6, <1>7, <1>8, <1>9, <1>10

\* Insert keeps the list sound for every dependency (http2.h:659-703).
LEMMA ListInsertInv ==
  ASSUME NEW l, ListInv(l), NEW dep \in {0} \cup Streams
  PROVE  ListInv(Insert(l, dep)) /\ Inserted(l, Insert(l, dep))
<1> DEFINE n == Len(l.node)
<1> DEFINE p == n + 1
<1> DEFINE u == Insert(l, dep)
<1>1. /\ n \in Nat /\ Fresh(l) = p /\ l.last \in 0..n /\ (n = 0 <=> l.last = 0)
      /\ dep \in Nat
  <2>1. dep \in Nat
    BY HttpAssumption
  <2> QED BY <2>1, NewNode DEF ListInv
<1>2. CASE dep = 0
  <2> DEFINE v == Appended(l)
  <2>1. /\ ListShape(v) /\ Len(v.node) = p
        /\ v.first = (IF l.last = 0 THEN p ELSE l.first) /\ v.last = p
        /\ v.header_map = l.header_map
        /\ \A i \in 1..n :
             /\ v.node[i].sid = l.node[i].sid
             /\ v.node[i].next = IF i = l.last THEN p ELSE l.node[i].next
        /\ v.node[p].sid = 0 /\ v.node[p].next = 0
    BY AppendedFacts
  <2>2. u = [v EXCEPT !.header_map = MapInsert(@, 0, p)]
    BY <1>1, <1>2, InsertCases
  <2> HIDE DEF v, u
  <2>3. /\ DOMAIN u = ListFields /\ u.first = v.first /\ u.last = v.last /\ u.node = v.node
        /\ u.header_map = MapInsert(l.header_map, 0, p)
    <3>1. DOMAIN v = ListFields
      BY <2>1 DEF ListShape
    <3> QED BY <2>1, <2>2, <3>1 DEF ListFields
  <2>4. (n + 1)..Len(u.node) = {p}
    BY <1>1, <2>1, <2>3
  <2>5. \A s \in DOMAIN u.header_map :
           \/ s \in DOMAIN l.header_map /\ u.header_map[s] = l.header_map[s]
           \/ s = 0 /\ u.header_map[s] = p
    BY <2>3 DEF MapInsert
  <2>6. l.last # 0 => l.node[l.last].next = 0
    BY <1>1 DEF ListInv
  <2>7. Spliced(l, u, l.last, p, p)
    <3>1. ListShape(u) /\ Len(u.node) > n
      BY <1>1, <2>1, <2>3 DEF ListShape
    <3>2. \A S \in SUBSET {p} : p \in S => S = {p}
      OBVIOUS
    <3> QED BY <1>1, <2>1, <2>3, <2>4, <2>5, <2>6, <3>1, <3>2 DEF Spliced
  <2>8. Inserted(l, u)
    BY <1>1, <2>1, <2>3 DEF Inserted
  <2> QED BY <2>7, <2>8, SpliceInv DEF u
<1>3. CASE dep # 0 /\ dep \in DOMAIN l.header_map
  <2> DEFINE r == l.header_map[dep]
  <2> DEFINE v == Behind(l, r)
  <2>0. r \in 1..n
    BY <1>3 DEF ListInv
  <2>2. u = [v EXCEPT !.header_map = MapInsert(@, 0, p)]
    BY <1>1, <1>3, InsertCases
  <2> HIDE DEF r
  <2>1. /\ ListShape(v) /\ Len(v.node) = p
        /\ v.first = l.first /\ v.last = (IF l.last = r THEN p ELSE l.last)
        /\ v.header_map = l.header_map
        /\ \A i \in 1..n :
             /\ v.node[i].sid = l.node[i].sid
             /\ v.node[i].next = IF i = r THEN p ELSE l.node[i].next
        /\ v.node[p].sid = 0 /\ v.node[p].next = l.node[r].next
    BY <2>0, BehindFacts
  <2> HIDE DEF v, u
  <2>3. /\ DOMAIN u = ListFields /\ u.first = v.first /\ u.last = v.last /\ u.node = v.node
        /\ u.header_map = MapInsert(l.header_map, 0, p)
    <3>1. DOMAIN v = ListFields
      BY <2>1 DEF ListShape
    <3> QED BY <2>1, <2>2, <3>1 DEF ListFields
  <2>4. (n + 1)..Len(u.node) = {p}
    BY <1>1, <2>1, <2>3
  <2>5. \A s \in DOMAIN u.header_map :
           \/ s \in DOMAIN l.header_map /\ u.header_map[s] = l.header_map[s]
           \/ s = 0 /\ u.header_map[s] = p
    BY <2>3 DEF MapInsert
  <2>7. Spliced(l, u, r, p, p)
    <3>1. ListShape(u) /\ Len(u.node) > n
      BY <1>1, <2>1, <2>3 DEF ListShape
    <3>2. \A S \in SUBSET {p} : p \in S => S = {p}
      OBVIOUS
    <3>3. r # 0 /\ n # 0 /\ r \in 0..n
      BY <1>1, <2>0
    <3> QED BY <1>1, <2>1, <2>3, <2>4, <2>5, <3>1, <3>2, <3>3 DEF Spliced
  <2>8. Inserted(l, u)
    BY <1>1, <2>1, <2>3 DEF Inserted
  <2> QED BY <2>7, <2>8, SpliceInv DEF u
<1>4. CASE dep # 0 /\ dep \notin DOMAIN l.header_map
  <2> DEFINE v == WithDummy(l, dep)
  <2>1. /\ ListShape(v) /\ Len(v.node) = p + 1
        /\ v.first = (IF l.last = 0 THEN p + 1 ELSE l.first) /\ v.last = p
        /\ v.header_map = MapInsert(l.header_map, dep, p + 1)
        /\ \A i \in 1..n :
             /\ v.node[i].sid = l.node[i].sid
             /\ v.node[i].next = IF i = l.last THEN p + 1 ELSE l.node[i].next
        /\ v.node[p].sid = 0 /\ v.node[p].next = 0
        /\ v.node[p + 1].sid = dep /\ v.node[p + 1].next = p
    BY <1>1, WithDummyFacts
  <2>2. u = [v EXCEPT !.header_map = MapInsert(@, 0, p)]
    BY <1>1, <1>4, InsertCases
  <2> HIDE DEF v, u
  <2>3. /\ DOMAIN u = ListFields /\ u.first = v.first /\ u.last = v.last /\ u.node = v.node
        /\ u.header_map = MapInsert(MapInsert(l.header_map, dep, p + 1), 0, p)
    <3>1. DOMAIN v = ListFields
      BY <2>1 DEF ListShape
    <3> QED BY <2>1, <2>2, <3>1 DEF ListFields
  <2>4. (n + 1)..Len(u.node) = {p, p + 1}
    BY <1>1, <2>1, <2>3
  <2>5. \A s \in DOMAIN u.header_map :
           \/ s \in DOMAIN l.header_map /\ u.header_map[s] = l.header_map[s]
           \/ s = dep /\ u.header_map[s] = p + 1
           \/ s = 0 /\ u.header_map[s] = p
    BY <2>3 DEF MapInsert
  <2>6. l.last # 0 => l.node[l.last].next = 0
    BY <1>1 DEF ListInv
  <2>7. Spliced(l, u, l.last, p + 1, p)
    <3>1. ListShape(u) /\ Len(u.node) > n
      BY <1>1, <2>1, <2>3 DEF ListShape
    <3>2. p # p + 1
      BY <1>1
    <3>3. ASSUME NEW S \in SUBSET {p, p + 1}, p + 1 \in S,
                 \A i \in S \ {p} : u.node[i].next \in S
          PROVE  S = {p, p + 1}
      <4>1. p + 1 \in S \ {p} /\ u.node[p + 1].next = p
        BY <2>1, <2>3, <3>2, <3>3
      <4>2. p \in S
        BY <3>3, <4>1
      <4> QED BY <3>3, <4>2
    <3>4. \A i \in {p, p + 1} :
             u.node[i].sid \in {0} \cup Streams /\ (i # p => u.node[i].next \in {p, p + 1})
      BY <1>4, <2>1, <2>3
    <3>5. \A s \in DOMAIN u.header_map :
           \/ s \in DOMAIN l.header_map /\ u.header_map[s] = l.header_map[s]
           \/ u.header_map[s] \in {p, p + 1} /\ (s # 0 => u.node[u.header_map[s]].sid = s)
      BY <2>1, <2>3, <2>5
    <3>6. /\ \A i \in 1..n : u.node[i].sid = l.node[i].sid
          /\ \A i \in 1..n : u.node[i].next = IF i = l.last THEN p + 1 ELSE l.node[i].next
          /\ u.node[p].next = IF l.last = 0 THEN 0 ELSE l.node[l.last].next
          /\ u.first = (IF l.last = 0 THEN p + 1 ELSE l.first)
          /\ u.last = (IF l.last = l.last THEN p ELSE l.last)
      BY <2>1, <2>3, <2>6
    <3> QED BY <1>1, <2>4, <3>1, <3>3, <3>4, <3>5, <3>6 DEF Spliced
  <2>8. Inserted(l, u)
    BY <1>1, <2>1, <2>3 DEF Inserted
  <2> QED BY <2>7, <2>8, SpliceInv DEF u
<1> QED BY <1>2, <1>3, <1>4

\* A list without nodes is sound.
LEMMA EmptyListInv == ListInv(EmptyList)
<1> DEFINE l == EmptyList
<1>1. /\ DOMAIN l = ListFields /\ l.first = 0 /\ l.last = 0 /\ l.header_map = <<>> /\ l.node = <<>>
  BY DEF EmptyList, ListFields, Null
<1> HIDE DEF l
<1>2. l.node \in Seq(NodeType) /\ Len(l.node) = 0 /\ DOMAIN l.header_map = {}
  BY <1>1
<1>3. \A S : Closed(l, S) => S = 1..Len(l.node)
  BY <1>2 DEF Closed
<1> QED BY <1>1, <1>2, <1>3 DEF ListInv, ListShape, l

\* Giving the node of a stream its identifier keeps the list sound.
LEMMA SidInv ==
  ASSUME NEW l, ListInv(l), NEW p \in 1..Len(l.node), NEW sid \in Streams,
         l.node[p].sid \in {0, sid}, NEW u, u = [l EXCEPT !.node[p].sid = sid]
  PROVE  /\ ListInv(u) /\ Len(u.node) = Len(l.node) /\ u.node[p].sid = sid
         /\ \A i \in 1..Len(l.node) : i # p => u.node[i].sid = l.node[i].sid
<1> DEFINE s == l.node
<1> DEFINE v == [s EXCEPT ![p].sid = sid]
<1>1. /\ DOMAIN l = ListFields /\ s \in Seq(NodeType) /\ Len(s) \in Nat /\ DOMAIN s = 1..Len(s)
      /\ \A i \in 1..Len(s) : s[i] \in NodeType
  BY ShapeNode DEF ListInv, ListShape
<1>2. /\ DOMAIN u = ListFields /\ u.node = v /\ u.first = l.first /\ u.last = l.last
      /\ u.header_map = l.header_map
  BY <1>1 DEF ListFields
<1>3. sid \in Nat
  BY HttpAssumption
<1> HIDE DEF s
<1>4. /\ v \in Seq(NodeType) /\ Len(v) = Len(s)
      /\ \A i \in 1..Len(s) : i # p => v[i] = s[i]
      /\ v[p].sid = sid /\ v[p].next = s[p].next
  <2>1. v = [s EXCEPT ![p] = [s[p] EXCEPT !.sid = sid]]
    OBVIOUS
  <2>2. p \in 1..Len(s) /\ s[p] \in NodeType
    BY <1>1 DEF s
  <2>3. [s[p] EXCEPT !.sid = sid] \in NodeType
    BY <1>3, <2>2 DEF NodeType
  <2>4. v \in Seq(NodeType) /\ Len(v) = Len(s)
    BY <1>1, <2>1, <2>2, <2>3, ExceptSeq
  <2>5. \A i \in 1..Len(s) : v[i] = IF i = p THEN [s[p] EXCEPT !.sid = sid] ELSE s[i]
    BY <1>1, <2>1
  <2>6. [s[p] EXCEPT !.sid = sid].sid = sid /\ [s[p] EXCEPT !.sid = sid].next = s[p].next
    BY <2>2 DEF NodeType
  <2> QED BY <2>2, <2>4, <2>5, <2>6
<1> HIDE DEF v
<1>5. /\ Len(u.node) = Len(l.node) /\ u.node[p].sid = sid
      /\ \A i \in 1..Len(l.node) : i # p => u.node[i].sid = l.node[i].sid
      /\ \A i \in 1..Len(l.node) : u.node[i].next = l.node[i].next
  BY <1>2, <1>4 DEF s
<1>6. ListShape(u)
  BY <1>2, <1>4 DEF ListShape
<1>7. ASSUME NEW S, Closed(u, S) PROVE S = 1..Len(u.node)
  <2>1. Closed(l, S)
    BY <1>2, <1>5, <1>7 DEF Closed
  <2> QED BY <1>5, <2>1 DEF ListInv
<1>8. \A k \in DOMAIN u.header_map :
        u.header_map[k] \in 1..Len(u.node) /\ (k # 0 => u.node[u.header_map[k]].sid = k)
  <2> TAKE k \in DOMAIN u.header_map
  <2>1. l.header_map[k] \in 1..Len(l.node) /\ (k # 0 => l.node[l.header_map[k]].sid = k)
    BY <1>2 DEF ListInv
  <2>2. CASE l.header_map[k] = p
    BY <1>2, <1>5, <2>1, <2>2
  <2>3. CASE l.header_map[k] # p
    BY <1>2, <1>5, <2>1, <2>3
  <2> QED BY <2>2, <2>3
<1>9. /\ u.first \in 0..Len(u.node) /\ u.last \in 0..Len(u.node)
      /\ IF Len(u.node) = 0 THEN u.first = 0 /\ u.last = 0
         ELSE u.first # 0 /\ u.last # 0 /\ u.node[u.last].next = 0
  <2>1. /\ l.first \in 0..Len(l.node) /\ l.last \in 0..Len(l.node)
        /\ l.first # 0 /\ l.last # 0 /\ l.node[l.last].next = 0 /\ Len(l.node) # 0
    BY <1>1 DEF ListInv, s
  <2>2. l.last \in 1..Len(l.node)
    BY <1>1, <2>1 DEF s
  <2> QED BY <1>2, <1>5, <2>1, <2>2
<1>10. ASSUME NEW i \in 1..Len(u.node)
       PROVE  u.node[i].next \in 0..Len(u.node) /\ u.node[i].sid \in {0} \cup Streams
  <2>1. i \in 1..Len(l.node) /\ l.node[i].next \in 0..Len(l.node) /\ l.node[i].sid \in {0} \cup Streams
    BY <1>5 DEF ListInv
  <2> QED BY <1>5, <2>1
<1> QED BY <1>5, <1>6, <1>7, <1>8, <1>9, <1>10 DEF ListInv

\* Looking a stream up, or inserting it, keeps the list sound and gives a node
\* that has no other stream.
LEMMA NodeOfInv ==
  ASSUME NEW l, ListInv(l), NEW sid \in Streams, NEW dep \in {0} \cup Streams,
         NEW u, u = NodeOf(l, sid, dep)[1], NEW p, p = NodeOf(l, sid, dep)[2]
  PROVE  /\ ListInv(u) /\ p \in 1..Len(u.node) /\ u.node[p].sid \in {0, sid}
         /\ Len(l.node) \in Nat /\ Len(u.node) \in Nat /\ Len(l.node) <= Len(u.node)
         /\ \A i \in 1..Len(l.node) : u.node[i].sid = l.node[i].sid
<1>1. Len(l.node) \in Nat /\ sid # 0
  BY ShapeNode, HttpAssumption DEF ListInv
<1>2. CASE sid \in DOMAIN l.header_map
  <2>1. u = l /\ p = l.header_map[sid]
    BY <1>2 DEF NodeOf
  <2>2. l.header_map[sid] \in 1..Len(l.node) /\ l.node[l.header_map[sid]].sid = sid
    BY <1>1, <1>2 DEF ListInv
  <2> QED BY <1>1, <2>1, <2>2
<1>3. CASE sid \notin DOMAIN l.header_map
  <2>1. u = Insert(l, dep) /\ p = Len(l.node) + 1
    BY <1>3 DEF NodeOf, Fresh
  <2>2. ListInv(u) /\ Inserted(l, u)
    BY <2>1, ListInsertInv
  <2>3. /\ Len(u.node) \in Nat /\ Len(u.node) > Len(l.node)
        /\ \A i \in 1..Len(l.node) : u.node[i].sid = l.node[i].sid
        /\ u.node[Len(l.node) + 1].sid = 0
    BY <2>2 DEF Inserted
  <2> QED BY <1>1, <2>1, <2>2, <2>3
<1> QED BY <1>2, <1>3

-----------------------------------------------------------------------------
(***************************************************************************)
(* Frames and responses.                                                   *)
(***************************************************************************)

\* Frames as the response buffer holds them.
FrameType == [type : FrameTypes, sid : {0} \cup Streams, size : Int, end : BOOLEAN]

\* Positions of the response heads in a buffer.
Answers(s) == {i \in 1..Len(s) : s[i].type = "HEADERS"}

\* Answers a response can be made of: a handler's, or the 400 of WriteError.
DataBodies == Outcomes \cup {[code |-> "400", body |-> 1]}

\* BodyFramed at one position, for one end and one answer.
FramedAt(s, i, j, o) ==
  /\ i > 1 /\ s[i - 1] = Frame("HEADERS", s[i].sid)
  /\ \A k \in (i + 1)..j : s[k].type = "CONTINUATION" /\ s[k].sid = s[i].sid
  /\ \A k \in i..j : s[k].end = (k = j) /\ s[k].size <= MaxBody
  /\ \A k \in i..(j - 1) : s[k].size = MaxBody
  /\ o.body = (j - i) * MaxBody + s[j].size /\ (j > i => s[j].size > 0)

\* BodyFramed of any buffer.
Framed(s) ==
  \A i \in 1..Len(s) : s[i].type = "DATA" =>
    \E j \in i..Len(s), o \in DataBodies : FramedAt(s, i, j, o)

\* A buffer of frames whose bodies are framed.
Good(s) == s \in Seq(FrameType) /\ Framed(s)

\* Frame makes frames.
LEMMA FrameIsFrame ==
  ASSUME NEW type \in FrameTypes, NEW sid \in {0} \cup Streams
  PROVE  /\ Frame(type, sid) \in FrameType
         /\ Frame(type, sid).type = type /\ Frame(type, sid).sid = sid
BY DEF Frame, FrameType

\* What a concatenation of two buffers holds.
LEMMA CatFacts ==
  ASSUME NEW s \in Seq(FrameType), NEW r \in Seq(FrameType)
  PROVE  /\ s \o r \in Seq(FrameType) /\ Len(s \o r) = Len(s) + Len(r)
         /\ Len(s) \in Nat /\ Len(r) \in Nat
         /\ \A i \in 1..Len(s) : (s \o r)[i] = s[i]
         /\ \A i \in 1..Len(r) : (s \o r)[i + Len(s)] = r[i]
<1>1. Len(s) \in Nat /\ Len(r) \in Nat
  BY LenProperties
<1>2. /\ s \o r \in Seq(FrameType) /\ Len(s \o r) = Len(s) + Len(r)
      /\ \A i \in 1..(Len(s) + Len(r)) :
           (s \o r)[i] = IF i <= Len(s) THEN s[i] ELSE r[i - Len(s)]
  BY ConcatProperties
<1> HIDE DEF FrameType
<1>3. ASSUME NEW i \in 1..Len(r) PROVE (s \o r)[i + Len(s)] = r[i]
  <2>1. i + Len(s) \in 1..(Len(s) + Len(r)) /\ ~(i + Len(s) <= Len(s)) /\ i + Len(s) - Len(s) = i
    BY <1>1
  <2> QED BY <1>2, <2>1
<1>4. ASSUME NEW i \in 1..Len(s) PROVE (s \o r)[i] = s[i]
  BY <1>1, <1>2
<1> QED BY <1>1, <1>2, <1>3, <1>4

\* Bodies stay framed when a good buffer is written behind another.
LEMMA GoodCat ==
  ASSUME NEW s, Good(s), NEW r, Good(r)
  PROVE  Good(s \o r)
<1> DEFINE t == s \o r
<1> DEFINE m == Len(s)
<1> DEFINE n == Len(r)
<1>1. /\ t \in Seq(FrameType) /\ Len(t) = m + n /\ m \in Nat /\ n \in Nat
      /\ \A i \in 1..m : t[i] = s[i]
      /\ \A i \in 1..n : t[i + m] = r[i]
  BY CatFacts DEF Good
<1> HIDE DEF t, m, n
<1>2. ASSUME NEW i \in 1..Len(t), t[i].type = "DATA"
      PROVE  \E j \in i..Len(t), o \in DataBodies : FramedAt(t, i, j, o)
  <2>1. CASE i \in 1..m
    <3>1. PICK j \in i..m, o \in DataBodies : FramedAt(s, i, j, o)
      BY <1>1, <1>2, <2>1 DEF Good, Framed, m
    <3>2. FramedAt(t, i, j, o)
      <4>1. /\ i - 1 \in 1..m /\ i \in 1..m /\ j \in 1..m
            /\ \A k \in (i + 1)..j : k \in 1..m
            /\ \A k \in i..j : k \in 1..m
            /\ \A k \in i..(j - 1) : k \in 1..m
        BY <1>1, <2>1, <3>1 DEF FramedAt
      <4>2. i > 1 /\ t[i - 1] = Frame("HEADERS", t[i].sid)
        BY <1>1, <3>1, <4>1 DEF FramedAt
      <4>3. \A k \in (i + 1)..j : t[k].type = "CONTINUATION" /\ t[k].sid = t[i].sid
        BY <1>1, <3>1, <4>1 DEF FramedAt
      <4>4. \A k \in i..j : t[k].end = (k = j) /\ t[k].size <= MaxBody
        <5>1. \A k \in i..j : s[k].end = (k = j) /\ s[k].size <= MaxBody
          BY <3>1 DEF FramedAt
        <5> QED BY <1>1, <4>1, <5>1
      <4>5. \A k \in i..(j - 1) : t[k].size = MaxBody
        BY <1>1, <3>1, <4>1 DEF FramedAt
      <4>6. o.body = (j - i) * MaxBody + t[j].size /\ (j > i => t[j].size > 0)
        <5>1. o.body = (j - i) * MaxBody + s[j].size /\ (j > i => s[j].size > 0)
          BY <3>1 DEF FramedAt
        <5>2. t[j] = s[j]
          BY <1>1, <4>1
        <5> QED BY <5>1, <5>2
      <4> QED BY <4>2, <4>3, <4>4, <4>5, <4>6 DEF FramedAt
    <3>3. j \in i..Len(t)
      BY <1>1, <2>1, <3>1
    <3> QED BY <3>2, <3>3
  <2>2. CASE i \notin 1..m
    <3> DEFINE a == i - m
    <3>1. a \in 1..n /\ i = a + m
      BY <1>1, <2>2
    <3> HIDE DEF a
    <3>2. t[i] = r[a]
      BY <1>1, <3>1
    <3>3. PICK j \in a..n, o \in DataBodies : FramedAt(r, a, j, o)
      BY <1>2, <3>1, <3>2 DEF Good, Framed, n
    <3> DEFINE J == j + m
    <3>4. /\ a - 1 \in 1..n /\ j \in 1..n /\ i - 1 = (a - 1) + m /\ i > 1 /\ J \in i..Len(t)
          /\ \A k \in (i + 1)..J : k - m \in (a + 1)..j /\ k - m \in 1..n /\ k = (k - m) + m
          /\ \A k \in i..J : /\ k - m \in a..j /\ k - m \in 1..n /\ k = (k - m) + m
                             /\ (k = J <=> k - m = j)
          /\ \A k \in i..(J - 1) : k - m \in a..(j - 1) /\ k - m \in 1..n /\ k = (k - m) + m
          /\ J - i = j - a /\ (J > i => j > a)
      <4>1. a > 1 /\ j \in a..n
        BY <3>3 DEF FramedAt
      <4>2. /\ a \in Int /\ n \in Int /\ m \in Nat /\ i = a + m /\ Len(t) = m + n
            /\ j \in Int /\ a <= j /\ j <= n /\ a > 1
        BY <1>1, <3>1, <4>1
      <4> QED BY ONLY <4>2
    <3>5. t[J] = r[j]
      BY <1>1, <3>4
    <3> HIDE DEF J
    <3>6. t[i - 1] = Frame("HEADERS", t[i].sid)
      <4>1. t[i - 1] = r[a - 1]
        BY <1>1, <3>4
      <4> QED BY <3>2, <3>3, <4>1 DEF FramedAt
    <3>7. \A k \in (i + 1)..J : t[k].type = "CONTINUATION" /\ t[k].sid = t[i].sid
      <4> TAKE k \in (i + 1)..J
      <4>1. t[k] = r[k - m] /\ k - m \in (a + 1)..j
        BY <1>1, <3>4
      <4> QED BY <3>2, <3>3, <4>1 DEF FramedAt
    <3>8. \A k \in i..J : t[k].end = (k = J) /\ t[k].size <= MaxBody
      <4> TAKE k \in i..J
      <4>1. t[k] = r[k - m] /\ k - m \in a..j /\ (k = J <=> k - m = j)
        BY <1>1, <3>4
      <4>2. r[k - m].end = (k - m = j) /\ r[k - m].size <= MaxBody
        BY <3>3, <4>1 DEF FramedAt
      <4> QED BY <4>1, <4>2
    <3>9. \A k \in i..(J - 1) : t[k].size = MaxBody
      <4> TAKE k \in i..(J - 1)
      <4>1. t[k] = r[k - m] /\ k - m \in a..(j - 1)
        BY <1>1, <3>4
      <4> QED BY <3>3, <4>1 DEF FramedAt
    <3>10. o.body = (J - i) * MaxBody + t[J].size /\ (J > i => t[J].size > 0)
      <4>1. o.body = (j - a) * MaxBody + r[j].size /\ (j > a => r[j].size > 0)
        BY <3>3 DEF FramedAt
      <4> QED BY <3>4, <3>5, <4>1
    <3> QED BY <3>4, <3>6, <3>7, <3>8, <3>9, <3>10 DEF FramedAt
  <2> QED BY <2>1, <2>2
<1>3. Framed(t)
  BY <1>2 DEF Framed
<1> QED BY <1>1, <1>3 DEF Good, t

\* One frame that is no DATA is a good buffer.
LEMMA GoodFrame ==
  ASSUME NEW type \in FrameTypes, type # "DATA", NEW sid \in {0} \cup Streams
  PROVE  Good(<<Frame(type, sid)>>)
<1> DEFINE f == Frame(type, sid)
<1>1. f \in FrameType /\ f.type # "DATA"
  BY FrameIsFrame
<1> HIDE DEF f
<1>2. <<f>> \in Seq(FrameType) /\ Len(<<f>>) = 1 /\ <<f>>[1] = f
  BY <1>1
<1> DEFINE s == <<f>>
<1> HIDE DEF s
<1>3. Framed(s)
  BY <1>1, <1>2 DEF Framed, s
<1> QED BY <1>2, <1>3 DEF Good, s, f

\* The quotient of two naturals.
LEMMA Division ==
  ASSUME NEW x \in Nat, NEW d \in Nat, d > 0
  PROVE  x \div d \in Nat /\ (x \div d) * d <= x /\ x < (x \div d) * d + d
OBVIOUS

\* The limit and the bodies are naturals, or -1 for no body.
LEMMA BodyBounds ==
  /\ MaxBody \in Nat /\ MaxBody > 0
  /\ \A o \in DataBodies : o.body \in Nat \cup {-1}
  /\ {0} \cup Streams \subseteq Nat
<1>1. MaxBody \in Nat /\ MaxBody > 0 /\ {0} \cup Streams \subseteq Nat
  BY HttpAssumption
<1>2. \A o \in Outcomes : o.body \in Nat \cup {-1}
  BY HttpAssumption
<1>3. [code |-> "400", body |-> 1].body \in Nat \cup {-1}
  OBVIOUS
<1> QED BY <1>1, <1>2, <1>3 DEF DataBodies

\* BodyFrame makes frames.
LEMMA BodyFrameIsFrame ==
  ASSUME NEW type \in FrameTypes, NEW sid \in {0} \cup Streams, NEW n \in Int, NEW e \in BOOLEAN
  PROVE  LET f == BodyFrame(type, sid, n, e) IN
         /\ f \in FrameType
         /\ f.type = type /\ f.sid = sid /\ f.size = n /\ f.end = e
BY DEF BodyFrame, FrameType

\* A response head alone.
LEMMA HeadFrame ==
  ASSUME NEW sid \in {0} \cup Streams
  PROVE  LET s == <<Frame("HEADERS", sid)>> IN
         /\ s \in Seq(FrameType) /\ Len(s) = 1 /\ s[1] = Frame("HEADERS", sid)
<1> DEFINE f == Frame("HEADERS", sid)
<1>1. f \in FrameType
  BY FrameIsFrame DEF FrameTypes
<1> HIDE DEF f
<1>2. <<f>> \in Seq(FrameType) /\ Len(<<f>>) = 1 /\ <<f>>[1] = f
  BY <1>1
<1> QED BY <1>2 DEF f

\* What a buffer with one frame in front holds.
LEMMA FrontFacts ==
  ASSUME NEW f \in FrameType, NEW t \in Seq(FrameType), NEW r, r = <<f>> \o t
  PROVE  /\ r \in Seq(FrameType) /\ Len(r) = 1 + Len(t) /\ Len(t) \in Nat /\ r[1] = f
         /\ \A i \in 1..Len(t) : r[i + 1] = t[i]
<1> DEFINE h == <<f>>
<1>1. h \in Seq(FrameType) /\ Len(h) = 1 /\ h[1] = f /\ r = h \o t
  OBVIOUS
<1> HIDE DEF h
<1>2. /\ r \in Seq(FrameType) /\ Len(r) = Len(h) + Len(t) /\ Len(t) \in Nat
      /\ \A i \in 1..Len(h) : r[i] = h[i]
      /\ \A i \in 1..Len(t) : r[i + Len(h)] = t[i]
  BY <1>1, CatFacts
<1>3. 1 \in 1..Len(h)
  BY <1>1
<1>4. r[1] = f
  BY <1>1, <1>2, <1>3
<1>5. \A i \in 1..Len(t) : r[i + 1] = t[i]
  BY <1>1, <1>2
<1> QED BY <1>1, <1>2, <1>4, <1>5

\* A body within the limit is one DATA frame with the end flag.
LEMMA ResponseOne ==
  ASSUME NEW sid \in {0} \cup Streams, NEW n \in Nat, n <= MaxBody,
         NEW r, r = <<Frame("HEADERS", sid)>> \o CreateBodyFrame(sid, n)
  PROVE  /\ r \in Seq(FrameType) /\ Len(r) = 2 /\ r[1] = Frame("HEADERS", sid)
         /\ r[2] = BodyFrame("DATA", sid, n, TRUE)
<1> DEFINE head == Frame("HEADERS", sid)
<1> DEFINE d == BodyFrame("DATA", sid, n, TRUE)
<1>1. head \in FrameType
  BY FrameIsFrame DEF FrameTypes
<1>2. d \in FrameType
  <2>1. "DATA" \in FrameTypes /\ n \in Int /\ TRUE \in BOOLEAN
    BY DEF FrameTypes
  <2> QED BY <2>1, BodyFrameIsFrame
<1>3. r = <<head>> \o <<d>>
  BY DEF CreateBodyFrame
<1> HIDE DEF head, d
<1>4. /\ <<head>> \in Seq(FrameType) /\ Len(<<head>>) = 1 /\ <<head>>[1] = head
      /\ <<d>> \in Seq(FrameType) /\ Len(<<d>>) = 1 /\ <<d>>[1] = d
  BY <1>1, <1>2
<1>5. r \in Seq(FrameType) /\ Len(r) = 2 /\ r[1] = head /\ r[2] = d
  <2> DEFINE t == <<d>>
  <2>1. t \in Seq(FrameType) /\ Len(t) = 1 /\ t[1] = d /\ r = <<head>> \o t
    BY <1>3, <1>4
  <2> HIDE DEF t
  <2>2. /\ r \in Seq(FrameType) /\ Len(r) = 1 + Len(t) /\ r[1] = head
        /\ \A i \in 1..Len(t) : r[i + 1] = t[i]
    BY ONLY <1>1, <2>1, FrontFacts
  <2>3. 1 \in 1..Len(t) /\ 1 + Len(t) = 2 /\ 1 + 1 = 2
    BY <2>1
  <2>4. r[1 + 1] = t[1]
    BY <2>2, <2>3
  <2> QED BY <2>1, <2>2, <2>3, <2>4
<1> QED BY <1>5 DEF head, d

\* The frames of a body longer than one: full + 1 of MaxBody and one of x.
Parts(s, sid, n, full, x) ==
  /\ full \in Nat /\ x \in 1..MaxBody /\ n = (full + 1) * MaxBody + x
  /\ s \in Seq(FrameType) /\ Len(s) = full + 2
  /\ s[1] = BodyFrame("DATA", sid, MaxBody, FALSE)
  /\ \A k \in 1..full : s[k + 1] = BodyFrame("CONTINUATION", sid, MaxBody, FALSE)
  /\ s[full + 2] = BodyFrame("CONTINUATION", sid, x, TRUE)

\* The same behind the head of a response.
CutInto(r, sid, n, full, x) ==
  /\ full \in Nat /\ x \in 1..MaxBody /\ n = (full + 1) * MaxBody + x
  /\ r \in Seq(FrameType) /\ Len(r) = full + 3 /\ r[1] = Frame("HEADERS", sid)
  /\ r[2] = BodyFrame("DATA", sid, MaxBody, FALSE)
  /\ \A k \in 3..(full + 2) : r[k] = BodyFrame("CONTINUATION", sid, MaxBody, FALSE)
  /\ r[full + 3] = BodyFrame("CONTINUATION", sid, x, TRUE)

\* CreateBodyFrame cuts a longer body into full frames and a rest that is
\* neither empty nor above the limit (lib/http2.cpp:38-68).
LEMMA BodyMany ==
  ASSUME NEW sid \in {0} \cup Streams, NEW n \in Nat, n > MaxBody,
         NEW s, s = CreateBodyFrame(sid, n)
  PROVE  \E full, x : Parts(s, sid, n, full, x)
<1> DEFINE full == (n - MaxBody - 1) \div MaxBody
<1> DEFINE x == n - MaxBody - full * MaxBody
<1> DEFINE d == BodyFrame("DATA", sid, MaxBody, FALSE)
<1> DEFINE c == BodyFrame("CONTINUATION", sid, MaxBody, FALSE)
<1> DEFINE z == BodyFrame("CONTINUATION", sid, x, TRUE)
<1> DEFINE m == [i \in 1..full |-> c]
<1>0. MaxBody \in Nat /\ MaxBody > 0
  BY BodyBounds
<1>1. /\ full \in Nat /\ full * MaxBody <= n - MaxBody - 1
      /\ n - MaxBody - 1 < full * MaxBody + MaxBody
  <2>1. n - MaxBody - 1 \in Nat
    BY <1>0
  <2> DEFINE y == n - MaxBody - 1
  <2> HIDE DEF y
  <2>2. y \in Nat
    BY <2>1 DEF y
  <2>3. y \div MaxBody \in Nat /\ (y \div MaxBody) * MaxBody <= y
        /\ y < (y \div MaxBody) * MaxBody + MaxBody
    BY <1>0, <2>2, Division
  <2> QED BY <2>3 DEF y
<1>2. full * MaxBody \in Nat
  BY <1>0, <1>1
<1>a. x \in 1..MaxBody /\ x \in Int
  <2> DEFINE P == full * MaxBody
  <2>1. P \in Nat /\ P <= n - MaxBody - 1 /\ n - MaxBody - 1 < P + MaxBody
    BY <1>1, <1>2
  <2> HIDE DEF P, full
  <2>2. n - MaxBody - P \in 1..MaxBody
    BY <1>0, <2>1
  <2>3. x \in 1..MaxBody
    BY <2>2 DEF P
  <2> HIDE DEF x
  <2> QED BY <2>3
<1>d. n = (full + 1) * MaxBody + x
  <2> DEFINE P == full * MaxBody
  <2>1. (full + 1) * MaxBody = P + MaxBody /\ P \in Nat
    <3> HIDE DEF full
    <3> QED BY <1>0, <1>1
  <2> HIDE DEF full
  <2>2. x = n - MaxBody - P
    OBVIOUS
  <2> HIDE DEF P, x
  <2>3. n = P + MaxBody + x
    BY <1>0, <2>1, <2>2
  <2> QED BY <1>0, <1>a, <2>1, <2>3
<1> HIDE DEF full, x
<1>3. d \in FrameType /\ c \in FrameType /\ z \in FrameType
  <2>1. /\ "DATA" \in FrameTypes /\ "CONTINUATION" \in FrameTypes /\ MaxBody \in Int /\ x \in Int
        /\ TRUE \in BOOLEAN /\ FALSE \in BOOLEAN
    BY <1>0, <1>a DEF FrameTypes
  <2>2. d \in FrameType
    BY <2>1, BodyFrameIsFrame
  <2>3. c \in FrameType
    BY <2>1, BodyFrameIsFrame
  <2>4. z \in FrameType
    BY <2>1, BodyFrameIsFrame
  <2> QED BY <2>2, <2>3, <2>4
<1>4. s = <<d>> \o m \o <<z>>
  <2>1. ~(n <= MaxBody) /\ full = ((n - MaxBody) - 1) \div MaxBody
    BY <1>0 DEF full
  <2> QED BY <2>1 DEF CreateBodyFrame, x
<1> HIDE DEF d, c, z
<1>5. m \in Seq(FrameType) /\ Len(m) = full /\ \A k \in 1..full : m[k] = c
  <2>1. m \in [1..full -> FrameType]
    BY <1>3
  <2>2. m \in Seq(FrameType) /\ DOMAIN m = 1..full
    BY <1>1, <2>1, SeqDef
  <2> QED BY <1>1, <2>2, LenProperties
<1> HIDE DEF m
<1> DEFINE s1 == <<d>> \o m
<1>6. /\ <<d>> \in Seq(FrameType) /\ Len(<<d>>) = 1 /\ <<d>>[1] = d
      /\ <<z>> \in Seq(FrameType) /\ Len(<<z>>) = 1 /\ <<z>>[1] = z
  BY <1>3
<1>7. /\ s1 \in Seq(FrameType) /\ Len(s1) = full + 1 /\ s1[1] = d
      /\ \A k \in 1..full : s1[k + 1] = c
  <2>1. /\ s1 \in Seq(FrameType) /\ Len(s1) = 1 + full
        /\ \A i \in 1..1 : s1[i] = <<d>>[i]
        /\ \A i \in 1..full : s1[i + 1] = m[i]
    BY <1>5, <1>6, CatFacts
  <2> HIDE DEF s1
  <2>2. 1 + full = full + 1 /\ 1 \in 1..1
    BY <1>1
  <2>3. s1[1] = <<d>>[1]
    BY <2>1, <2>2
  <2> QED BY <1>5, <1>6, <2>1, <2>2, <2>3
<1> HIDE DEF s1
<1> DEFINE s2 == s1 \o <<z>>
<1>8. /\ s2 \in Seq(FrameType) /\ Len(s2) = full + 2 /\ s2[1] = d
      /\ \A k \in 1..full : s2[k + 1] = c
      /\ s2[full + 2] = z
  <2>1. /\ s2 \in Seq(FrameType) /\ Len(s2) = Len(s1) + 1
        /\ \A i \in 1..Len(s1) : s2[i] = s1[i]
        /\ \A i \in 1..1 : s2[i + Len(s1)] = <<z>>[i]
    BY <1>6, <1>7, CatFacts
  <2> HIDE DEF s2
  <2>a. /\ Len(s1) + 1 = full + 2 /\ 1 \in 1..Len(s1)
        /\ \A k \in 1..full : k + 1 \in 1..Len(s1)
    BY <1>1, <1>7
  <2>2. Len(s2) = full + 2 /\ s2[1] = d
    <3>1. s2[1] = s1[1]
      BY <2>1, <2>a
    <3> QED BY <1>7, <2>1, <2>a, <3>1
  <2>3. ASSUME NEW k \in 1..full PROVE s2[k + 1] = c
    <3>1. s2[k + 1] = s1[k + 1]
      BY <2>1, <2>a
    <3> QED BY <1>7, <3>1
  <2>4. s2[1 + Len(s1)] = z
    BY <1>6, <2>1
  <2>5. 1 + Len(s1) = full + 2
    BY <1>1, <1>7
  <2> QED BY <2>1, <2>2, <2>3, <2>4, <2>5
<1>9. s = s2
  BY <1>4 DEF s1
<1> QED BY <1>1, <1>a, <1>d, <1>8, <1>9 DEF Parts, d, c, z

\* Behind the head of the response.
LEMMA ResponseMany ==
  ASSUME NEW sid \in {0} \cup Streams, NEW n \in Nat, n > MaxBody,
         NEW r, r = <<Frame("HEADERS", sid)>> \o CreateBodyFrame(sid, n)
  PROVE  \E full, x : CutInto(r, sid, n, full, x)
<1> DEFINE head == Frame("HEADERS", sid)
<1>9. PICK s2 : s2 = CreateBodyFrame(sid, n)
  OBVIOUS
<1>0. PICK full, x : Parts(s2, sid, n, full, x)
  BY <1>9, BodyMany
<1> DEFINE d == BodyFrame("DATA", sid, MaxBody, FALSE)
<1> DEFINE c == BodyFrame("CONTINUATION", sid, MaxBody, FALSE)
<1> DEFINE z == BodyFrame("CONTINUATION", sid, x, TRUE)
<1>8. /\ s2 \in Seq(FrameType) /\ Len(s2) = full + 2 /\ s2[1] = d
      /\ \A k \in 1..full : s2[k + 1] = c
      /\ s2[full + 2] = z
  BY <1>0 DEF Parts
<1>1. full \in Nat /\ x \in 1..MaxBody /\ n = (full + 1) * MaxBody + x
  BY <1>0 DEF Parts
<1>b. head \in FrameType
  BY FrameIsFrame DEF FrameTypes
<1>c. r = <<head>> \o s2
  BY <1>9
<1> HIDE DEF head, d, c, z
<1>10. /\ r \in Seq(FrameType) /\ Len(r) = full + 3 /\ r[1] = head
       /\ \A k \in 1..(full + 2) : r[k + 1] = s2[k]
  <2>1. /\ r \in Seq(FrameType) /\ Len(r) = 1 + Len(s2) /\ r[1] = head
        /\ \A i \in 1..Len(s2) : r[i + 1] = s2[i]
    BY ONLY <1>b, <1>8, <1>c, FrontFacts
  <2>2. Len(s2) = full + 2 /\ 1 + (full + 2) = full + 3
    BY <1>1, <1>8
  <2> QED BY <2>1, <2>2
<1>11. r[2] = d /\ r[full + 3] = z
  <2>1. 1 \in 1..(full + 2) /\ full + 2 \in 1..(full + 2) /\ 1 + 1 = 2 /\ full + 2 + 1 = full + 3
    BY <1>1
  <2>2. r[1 + 1] = s2[1] /\ r[full + 2 + 1] = s2[full + 2]
    BY <1>10, <2>1
  <2> QED BY <1>8, <2>1, <2>2
<1>12. ASSUME NEW k \in 3..(full + 2) PROVE r[k] = c
  <2>1. k - 2 \in 1..full /\ k - 1 \in 1..(full + 2) /\ (k - 2) + 1 = k - 1 /\ (k - 1) + 1 = k
    BY <1>1
  <2>2. s2[k - 1] = c
    BY <1>8, <2>1
  <2> QED BY <1>10, <2>1, <2>2
<1> QED BY <1>1, <1>10, <1>11, <1>12 DEF CutInto, d, c, z, head

\* One answer: its head first and the only one, no settings, framed.
ResponseOK(sid, r) ==
  /\ r \in Seq(FrameType) /\ Len(r) \in Nat /\ Len(r) >= 1 /\ r[1] = Frame("HEADERS", sid)
  /\ \A i \in 2..Len(r) : r[i].type \notin {"HEADERS", "SETTINGS"}
  /\ Framed(r)

\* Every response is one answer, and framed.
LEMMA ResponseGood ==
  ASSUME NEW sid \in {0} \cup Streams, NEW o \in DataBodies
  PROVE  ResponseOK(sid, Response(sid, o))
<1> DEFINE r == Response(sid, o)
<1> DEFINE head == Frame("HEADERS", sid)
<1>1. o.body \in Nat \cup {-1} /\ MaxBody \in Nat /\ MaxBody > 0
  BY BodyBounds
<1>2. head.type = "HEADERS" /\ head.sid = sid
  BY DEF Frame
<1>3. CASE o.body < 0
  <2>1. r = <<head>>
    <3>1. head \in FrameType
      BY FrameIsFrame DEF FrameTypes
    <3> QED BY <1>3, <3>1 DEF Response
  <2>2. r \in Seq(FrameType) /\ Len(r) = 1 /\ r[1] = head
    BY <2>1, HeadFrame
  <2> HIDE DEF r, head
  <2>3. Framed(r)
    BY <1>2, <2>2 DEF Framed
  <2>4. \A i \in 2..Len(r) : FALSE
    BY <2>2
  <2> QED BY <2>2, <2>3, <2>4 DEF ResponseOK, r, head
<1>4. CASE o.body \in Nat /\ o.body <= MaxBody
  <2> DEFINE d == BodyFrame("DATA", sid, o.body, TRUE)
  <2>0. ~(o.body < 0)
    BY <1>4
  <2>1. r = <<head>> \o CreateBodyFrame(sid, o.body)
    BY <2>0 DEF Response
  <2>2. r \in Seq(FrameType) /\ Len(r) = 2 /\ r[1] = head /\ r[2] = d
    <3> HIDE DEF r
    <3> QED BY <1>4, <2>1, ResponseOne
  <2>3. d.type = "DATA" /\ d.sid = sid /\ d.size = o.body /\ d.end = TRUE
    BY DEF BodyFrame
  <2> HIDE DEF r, d, head
  <2>4. FramedAt(r, 2, 2, o)
    <3>1. r[2 - 1] = head /\ head = Frame("HEADERS", r[2].sid)
      BY <2>2, <2>3 DEF head
    <3>2. \A k \in (2 + 1)..2 : FALSE
      OBVIOUS
    <3>3. ASSUME NEW k \in 2..2 PROVE r[k].end = (k = 2) /\ r[k].size <= MaxBody
      <4>1. k = 2 /\ r[k].size <= MaxBody /\ r[k].end = TRUE
        BY <1>4, <2>2, <2>3
      <4>2. r[k].end = (k = 2)
        BY <4>1, Zenon
      <4> QED BY <4>1, <4>2
    <3>4. \A k \in 2..(2 - 1) : FALSE
      OBVIOUS
    <3>5. o.body = (2 - 2) * MaxBody + r[2].size /\ ~(2 > 2)
      BY <1>1, <1>4, <2>2, <2>3
    <3> QED BY <3>1, <3>2, <3>3, <3>4, <3>5 DEF FramedAt
  <2>5. Framed(r)
    <3> SUFFICES ASSUME NEW i \in 1..Len(r), r[i].type = "DATA"
                 PROVE  \E j \in i..Len(r), p \in DataBodies : FramedAt(r, i, j, p)
      BY DEF Framed
    <3>1. i = 2 /\ 2 \in i..Len(r)
      BY <1>2, <2>2
    <3> QED BY <2>4, <3>1
  <2>6. \A i \in 2..Len(r) : r[i].type \notin {"HEADERS", "SETTINGS"}
    BY <2>2, <2>3
  <2> QED BY <2>2, <2>5, <2>6 DEF ResponseOK, r, head
<1>5. CASE o.body \in Nat /\ o.body > MaxBody
  <2> DEFINE n == o.body
  <2>0. ~(n < 0) /\ n \in Nat /\ n > MaxBody
    BY <1>5
  <2>1. r = <<head>> \o CreateBodyFrame(sid, n)
    BY <2>0 DEF Response
  <2>9. PICK full, x : CutInto(r, sid, n, full, x)
    <3> HIDE DEF r, n
    <3> QED BY <2>0, <2>1, ResponseMany
  <2> DEFINE d == BodyFrame("DATA", sid, MaxBody, FALSE)
  <2> DEFINE c == BodyFrame("CONTINUATION", sid, MaxBody, FALSE)
  <2> DEFINE z == BodyFrame("CONTINUATION", sid, x, TRUE)
  <2> HIDE DEF r, n
  <2>2. /\ r \in Seq(FrameType) /\ Len(r) = full + 3 /\ r[1] = head /\ r[2] = d
        /\ \A k \in 3..(full + 2) : r[k] = c
        /\ r[full + 3] = z
        /\ full \in Nat /\ x \in 1..MaxBody
    BY <2>9 DEF CutInto
  <2>3. /\ d.type = "DATA" /\ d.sid = sid /\ d.size = MaxBody /\ d.end = FALSE
        /\ c.type = "CONTINUATION" /\ c.sid = sid /\ c.size = MaxBody /\ c.end = FALSE
        /\ z.type = "CONTINUATION" /\ z.sid = sid /\ z.size = x /\ z.end = TRUE
    BY DEF BodyFrame
  <2>4. n = (full + 1) * MaxBody + x
    BY <2>9 DEF CutInto
  <2> HIDE DEF d, c, z, head
  <2> DEFINE J == full + 3
  <2>a. /\ J \in Nat /\ J > 2 /\ J - 1 = full + 2 /\ J - 2 = full + 1 /\ Len(r) = J
        /\ \A k \in 3..J : k \in 3..(full + 2) \/ k = J
        /\ \A k \in 2..J : k = 2 \/ k \in 3..(full + 2) \/ k = J
        /\ \A k \in 2..(J - 1) : k = 2 \/ k \in 3..(full + 2)
        /\ \A k \in 3..(full + 2) : k # J
    BY <2>2
  <2>b. r[J] = z /\ \A k \in 3..(full + 2) : r[k] = c
    BY <2>2
  <2> HIDE DEF J
  <2>5. FramedAt(r, 2, J, o)
    <3>1. 2 > 1 /\ r[2 - 1] = Frame("HEADERS", r[2].sid)
      BY <2>2, <2>3 DEF head
    <3>2. \A k \in (2 + 1)..J : r[k].type = "CONTINUATION" /\ r[k].sid = r[2].sid
      BY <2>2, <2>3, <2>a, <2>b
    <3>3. ASSUME NEW k \in 2..J PROVE r[k].end = (k = J) /\ r[k].size <= MaxBody
      <4>1. CASE k = 2
        <5>1. k # J /\ r[k].end = FALSE /\ r[k].size <= MaxBody
          BY <1>1, <2>2, <2>3, <2>a, <4>1
        <5>2. r[k].end = (k = J)
          BY <5>1, Zenon
        <5> QED BY <5>1, <5>2
      <4>2. CASE k \in 3..(full + 2)
        <5>1. k # J /\ r[k].end = FALSE /\ r[k].size <= MaxBody
          BY <1>1, <2>3, <2>a, <2>b, <4>2
        <5>2. r[k].end = (k = J)
          BY <5>1, Zenon
        <5> QED BY <5>1, <5>2
      <4>3. CASE k = J
        <5>1. r[k].end = TRUE /\ r[k].size <= MaxBody
          BY <1>1, <2>2, <2>3, <2>b, <4>3
        <5>2. r[k].end = (k = J)
          BY <4>3, <5>1, Zenon
        <5> QED BY <5>1, <5>2
      <4> QED BY <2>a, <4>1, <4>2, <4>3
    <3>4. \A k \in 2..(J - 1) : r[k].size = MaxBody
      BY <2>2, <2>3, <2>a, <2>b
    <3>5. o.body = (J - 2) * MaxBody + r[J].size /\ (J > 2 => r[J].size > 0)
      <4>1. o.body = (J - 2) * MaxBody + x
        BY <2>4, <2>a DEF n
      <4>2. r[J].size = x /\ x > 0
        BY <1>1, <2>2, <2>3, <2>b
      <4> QED BY <4>1, <4>2
    <3> QED BY <3>1, <3>2, <3>3, <3>4, <3>5 DEF FramedAt
  <2>6. Framed(r)
    <3> SUFFICES ASSUME NEW i \in 1..Len(r), r[i].type = "DATA"
                 PROVE  \E j \in i..Len(r), p \in DataBodies : FramedAt(r, i, j, p)
      BY DEF Framed
    <3>1. i = 1 \/ i \in 2..J
      BY <2>a
    <3>2. i = 2 /\ J \in i..Len(r)
      BY <1>2, <2>2, <2>3, <2>a, <2>b, <3>1
    <3> QED BY <2>5, <3>2
  <2>7. \A i \in 2..Len(r) : r[i].type \notin {"HEADERS", "SETTINGS"}
    BY <2>2, <2>3, <2>a, <2>b
  <2> QED BY <2>2, <2>6, <2>7, <2>a DEF ResponseOK, r, head
<1> QED BY <1>1, <1>3, <1>4, <1>5

\* A buffer that holds a SETTINGS frame.
HasSettings(s) == \E i \in 1..Len(s) : s[i].type = "SETTINGS"

\* The empty buffer.
LEMMA GoodEmpty == Good(<<>>) /\ Answers(<<>>) = {} /\ ~HasSettings(<<>>) /\ Len(<<>>) = 0
<1> DEFINE s == <<>>
<1>1. s \in Seq(FrameType) /\ Len(s) = 0
  OBVIOUS
<1> HIDE DEF s
<1>2. Good(s) /\ Answers(s) = {} /\ ~HasSettings(s) /\ Len(s) = 0
  BY <1>1 DEF Good, Framed, Answers, HasSettings
<1> QED BY <1>2 DEF s

\* t is s and frames behind it that are no settings.
Extends(s, t) ==
  /\ t \in Seq(FrameType) /\ Len(s) \in Nat /\ Len(t) \in Nat /\ Len(t) > Len(s)
  /\ \A i \in 1..Len(s) : t[i] = s[i]
  /\ \A i \in (Len(s) + 1)..Len(t) : t[i].type # "SETTINGS"

\* t is s and one more frame that is no body.
AppendedTo(s, t, type) ==
  /\ t \in Seq(FrameType) /\ Len(s) \in Nat /\ Len(t) = Len(s) + 1
  /\ \A i \in 1..Len(s) : t[i] = s[i]
  /\ t[Len(s) + 1].type = type
  /\ type # "HEADERS" => Answers(t) = Answers(s)
  /\ Framed(s) => Good(t)

\* Appending a frame that is no body is that.
LEMMA AppendFacts ==
  ASSUME NEW s \in Seq(FrameType), NEW type \in FrameTypes \ {"DATA"}, NEW sid \in {0} \cup Streams,
         NEW t, t = Append(s, Frame(type, sid))
  PROVE  AppendedTo(s, t, type)
<1> DEFINE f == Frame(type, sid)
<1>1. f \in FrameType /\ f.type = type
  BY FrameIsFrame
<1>2. Len(s) \in Nat
  BY LenProperties
<1>3. t = s \o <<f>>
  <2>1. t = Append(s, f)
    OBVIOUS
  <2> HIDE DEF f
  <2> QED BY <1>1, <1>2, <2>1, AppendIsConcat
<1>4. Good(<<f>>)
  BY GoodFrame
<1>5. Framed(s) => Good(t)
  BY <1>3, <1>4, GoodCat DEF Good
<1> HIDE DEF f
<1>6. t = Append(s, f)
  BY DEF f
<1>7. /\ t \in Seq(FrameType) /\ Len(t) = Len(s) + 1 /\ t[Len(s) + 1] = f
      /\ \A i \in 1..Len(s) : t[i] = s[i]
  BY <1>1, <1>2, <1>6, AppendProperties
<1>8. ASSUME type # "HEADERS" PROVE Answers(t) = Answers(s)
  <2>1. \A i \in 1..Len(t) : i \in 1..Len(s) \/ i = Len(s) + 1
    BY <1>2, <1>7
  <2>2. \A i \in 1..Len(s) : i \in 1..Len(t)
    BY <1>2, <1>7
  <2> QED BY <1>1, <1>7, <1>8, <2>1, <2>2 DEF Answers
<1> QED BY <1>1, <1>2, <1>5, <1>7, <1>8 DEF AppendedTo

\* t is s and one more answer.
WrittenTo(s, t, sid) ==
  /\ Good(t) /\ Len(s) \in Nat /\ Len(t) \in Nat /\ Len(t) >= Len(s) + 1
  /\ \A i \in 1..Len(s) : t[i] = s[i]
  /\ t[Len(s) + 1].sid = sid
  /\ Answers(t) = Answers(s) \cup {Len(s) + 1}
  /\ \A i \in (Len(s) + 1)..Len(t) : t[i].type # "SETTINGS"

\* WriteV2 and the responses of v2 are that.
LEMMA WriteFacts ==
  ASSUME NEW s, Good(s), NEW sid \in {0} \cup Streams, NEW o \in DataBodies,
         NEW t, t = s \o Response(sid, o)
  PROVE  WrittenTo(s, t, sid)
<1> DEFINE r == Response(sid, o)
<1>1. /\ r \in Seq(FrameType) /\ Len(r) \in Nat /\ Len(r) >= 1 /\ r[1] = Frame("HEADERS", sid)
      /\ \A i \in 2..Len(r) : r[i].type \notin {"HEADERS", "SETTINGS"}
      /\ Framed(r)
  BY ResponseGood DEF ResponseOK
<1>2. r[1].type = "HEADERS" /\ r[1].sid = sid
  BY <1>1 DEF Frame
<1> HIDE DEF r
<1>3. Good(t)
  BY <1>1, GoodCat DEF Good, r
<1>4. /\ Len(s) \in Nat /\ Len(t) = Len(s) + Len(r)
      /\ \A i \in 1..Len(s) : t[i] = s[i]
      /\ \A i \in 1..Len(r) : t[i + Len(s)] = r[i]
  <2>1. t = s \o r
    BY DEF r
  <2> QED BY <1>1, <2>1, CatFacts DEF Good
<1> DEFINE m == Len(s)
<1> HIDE DEF m
<1>5. t[m + 1] = r[1]
  <2>1. 1 \in 1..Len(r) /\ 1 + m = m + 1
    BY <1>1, <1>4 DEF m
  <2>2. t[1 + m] = r[1]
    BY <1>4, <2>1 DEF m
  <2> QED BY <2>1, <2>2
<1>6. ASSUME NEW i \in (m + 2)..Len(t) PROVE t[i].type \notin {"HEADERS", "SETTINGS"}
  <2>1. i - m \in 2..Len(r) /\ i - m \in 1..Len(r) /\ (i - m) + m = i
    BY <1>1, <1>4 DEF m
  <2>2. t[(i - m) + m] = r[i - m]
    BY <1>4, <2>1 DEF m
  <2> QED BY <1>1, <2>1, <2>2
<1>7. Answers(t) = Answers(s) \cup {m + 1}
  <2>1. \A i \in 1..Len(t) : i \in 1..Len(s) \/ i = m + 1 \/ i \in (m + 2)..Len(t)
    BY <1>1, <1>4 DEF m
  <2>2. m + 1 \in 1..Len(t) /\ \A i \in 1..Len(s) : i \in 1..Len(t)
    BY <1>1, <1>4 DEF m
  <2> QED BY <1>2, <1>4, <1>5, <1>6, <2>1, <2>2 DEF Answers
<1>8. \A i \in (m + 1)..Len(t) : t[i].type # "SETTINGS"
  <2>1. \A i \in (m + 1)..Len(t) : i = m + 1 \/ i \in (m + 2)..Len(t)
    BY <1>1, <1>4 DEF m
  <2> QED BY <1>2, <1>5, <1>6, <2>1
<1>9. Len(t) \in Nat /\ Len(t) >= Len(s) + 1
  BY <1>1, <1>4
<1> QED BY <1>2, <1>3, <1>4, <1>5, <1>7, <1>8, <1>9 DEF WrittenTo, m

\* A buffer has finitely many answers.
LEMMA AnswersFinite ==
  ASSUME NEW s, Good(s)
  PROVE  IsFiniteSet(Answers(s)) /\ Len(s) + 1 \notin Answers(s)
<1>1. Len(s) \in Nat
  BY LenProperties DEF Good
<1>2. IsFiniteSet(1..Len(s)) /\ Answers(s) \subseteq 1..Len(s)
  BY <1>1, FS_Interval DEF Answers
<1>3. Len(s) + 1 \notin 1..Len(s)
  BY <1>1
<1> QED BY <1>2, <1>3, FS_Subset

-----------------------------------------------------------------------------
(***************************************************************************)
(* The room of the response buffer.                                        *)
(***************************************************************************)

\* Sizes are naturals.
LEMMA Sizes ==
  /\ FrameHead \in Nat \ {0} /\ BufferSize \in Nat \ {0} /\ BlockSizes \subseteq Nat
  /\ SettingResponseSize \in Nat /\ UpgradeSize \in Nat
  /\ \A type \in {"101", "SETTINGS", "ACK", "PING", "GOAWAY"} : ControlSize[type] \in Nat
<1>1. \A type \in {"101", "SETTINGS", "ACK", "PING", "GOAWAY"} : ControlSize[type] \in Nat
  BY HttpAssumption
<1>2. SettingResponseSize \in Nat
  BY <1>1 DEF SettingResponseSize
<1>3. UpgradeSize \in Nat
  BY <1>1, <1>2 DEF UpgradeSize
<1> QED BY <1>1, <1>2, <1>3, HttpAssumption

\* A quotient is bounded by what bounds its dividend.
LEMMA QuotientBound ==
  ASSUME NEW x \in Nat, NEW d \in Nat, d > 0, NEW k \in Nat, x < (k + 1) * d
  PROVE  x \div d <= k
<1>1. PICK q \in Nat : q = x \div d /\ q * d <= x
  BY Division
<1> SUFFICES ASSUME q > k PROVE FALSE
  BY <1>1
<1>2. PICK e \in Nat : q = (k + 1) + e
  <2>1. q - (k + 1) \in Nat /\ q = (k + 1) + (q - (k + 1))
    OBVIOUS
  <2> QED BY <2>1
<1>3. e * d \in Nat /\ q * d = (k + 1) * d + e * d
  BY <1>2
<1> QED BY <1>1, <1>3

\* The buffer is never empty, and grows only for what it cannot hold.
LEMMA RoomFacts ==
  ASSUME NEW c \in Nat \ {0}, NEW need \in Nat
  PROVE  Room(c, need) \in Nat \ {0} /\ (need <= c => Room(c, need) = c)
<1>1. CASE need <= c
  BY <1>1 DEF Room
<1>2. CASE need > c
  <2>1. PICK x \in Nat : x = need + c - 1 /\ x >= c
    BY <1>2
  <2>2. PICK q \in Nat : q = x \div c /\ x < q * c + c
    BY <2>1, Division
  <2>3. q # 0
    BY <2>1, <2>2
  <2>4. c * q \in Nat \ {0}
    BY <2>3
  <2>5. Room(c, need) = c * q
    BY <1>2, <2>1, <2>2 DEF Room
  <2> QED BY <1>2, <2>4, <2>5
<1> QED BY <1>1, <1>2

\* The frames of a body are at least those that Write reserves for, and the last
\* one is no larger than the body.
LEMMA BodyLength ==
  ASSUME NEW sid \in {0} \cup Streams, NEW body \in Nat, NEW s, s = CreateBodyFrame(sid, body)
  PROVE  /\ Len(s) \in Nat /\ Len(s) >= 1 /\ Len(s) >= body \div MaxBody /\ body \div MaxBody \in Nat
         /\ s[Len(s)].size \in 0..body
<1>0. MaxBody \in Nat /\ MaxBody > 0 /\ body \div MaxBody \in Nat
  BY BodyBounds, Division
<1>1. CASE body <= MaxBody
  <2>1. s = <<BodyFrame("DATA", sid, body, TRUE)>>
    BY <1>1 DEF CreateBodyFrame
  <2>2. Len(s) = 1 /\ s[1].size = body
    BY <2>1 DEF BodyFrame
  <2>3. body < (1 + 1) * MaxBody
    BY <1>0, <1>1
  <2>4. body \div MaxBody <= 1
    BY <1>0, <2>3, QuotientBound
  <2> QED BY <1>0, <2>2, <2>4
<1>2. CASE body > MaxBody
  <2>1. PICK full, x : Parts(s, sid, body, full, x)
    BY <1>2, BodyMany
  <2>2. /\ full \in Nat /\ x \in 1..MaxBody /\ body = (full + 1) * MaxBody + x
        /\ Len(s) = full + 2 /\ s[full + 2] = BodyFrame("CONTINUATION", sid, x, TRUE)
    BY <2>1 DEF Parts
  <2>3. s[Len(s)].size = x
    BY <2>2 DEF BodyFrame
  <2>4. PICK k \in Nat : k = full + 2
    BY <2>2
  <2>5. body < (k + 1) * MaxBody
    <3>1. (k + 1) * MaxBody = (full + 1) * MaxBody + MaxBody + MaxBody
      BY <1>0, <2>2, <2>4
    <3>2. (full + 1) * MaxBody \in Nat
      BY <1>0, <2>2
    <3> QED BY <1>0, <2>2, <3>1, <3>2
  <2>6. body \div MaxBody <= k
    BY <1>0, <2>5, QuotientBound
  <2>7. x <= body
    <3>1. (full + 1) * MaxBody \in Nat
      BY <1>0, <2>2
    <3> QED BY <1>0, <2>2, <3>1
  <2> QED BY <1>0, <2>2, <2>3, <2>4, <2>6, <2>7
<1> QED BY <1>0, <1>1, <1>2

\* The room a body is given behind u octets of a buffer of c: none is unsafe, and
\* the buffer is not moved, when it fits.
Holds(b, u, c) ==
  /\ b.used \in Nat /\ b.used >= u /\ b.capacity \in Nat \ {0}
  /\ b.used <= c => b.capacity = c /\ b.unsafe = {}

\* A body that fits does not move the buffer.
LEMMA BodyRoomFacts ==
  ASSUME NEW sid \in {0} \cup Streams, NEW body \in Nat \cup {-1}, NEW u \in Nat, NEW c \in Nat \ {0},
         NEW b, b = BodyRoom(u, c, sid, body)
  PROVE  Holds(b, u, c)
<1>1. CASE body < 0
  BY <1>1 DEF BodyRoom, Holds
<1>2. CASE body \in Nat
  <2>1. PICK s : s = CreateBodyFrame(sid, body)
    OBVIOUS
  <2>2. PICK n \in Nat, q \in Nat, last \in 0..body :
          n = Len(s) /\ q = body \div MaxBody /\ last = s[n].size /\ n >= q
    BY <1>2, <2>1, BodyLength
  <2>3. FrameHead \in Nat /\ ~(body < 0)
    BY <1>2, Sizes
  <2>4. n * FrameHead \in Nat /\ q * FrameHead \in Nat /\ q * FrameHead <= n * FrameHead
    <3>1. n * FrameHead \in Nat /\ q * FrameHead \in Nat
      BY <2>2, <2>3
    <3>2. PICK e \in Nat : n = q + e
      <4>1. n - q \in Nat /\ n = q + (n - q)
        BY <2>2
      <4> QED BY <4>1
    <3>3. n * FrameHead = q * FrameHead + e * FrameHead /\ e * FrameHead \in Nat
      BY <2>2, <2>3, <3>2
    <3> QED BY <3>1, <3>3
  <2>5. PICK behind \in Nat, before \in Nat, first \in Nat :
          /\ behind = u + body + n * FrameHead /\ before = behind - last
          /\ first = u + body + q * FrameHead
          /\ behind >= u /\ first <= behind /\ before <= behind
    <3>1. PICK p \in Nat, r \in Nat : p = n * FrameHead /\ r = q * FrameHead /\ r <= p
      BY <2>4
    <3>2. PICK w \in Nat, v \in Nat, y \in Nat : w = u + body + p /\ v = w - last /\ y = u + body + r
      <4>1. /\ u \in Nat /\ body \in Nat /\ p \in Nat /\ r \in Nat /\ last \in Nat /\ last <= body
        BY <1>2, <2>2, <3>1
      <4>2. u + body + p \in Nat /\ (u + body + p) - last \in Nat /\ u + body + r \in Nat
        BY ONLY <4>1
      <4> QED BY <4>2
    <3>3. w >= u /\ y <= w /\ v <= w
      <4>1. /\ u \in Nat /\ body \in Nat /\ p \in Nat /\ r \in Nat /\ last \in Nat /\ r <= p
        BY <1>2, <2>2, <3>1
      <4> QED BY ONLY <3>2, <4>1
    <3> QED BY <3>1, <3>2, <3>3
  <2>6. PICK reserved, header, data :
          /\ reserved = Room(c, first) /\ header = Room(reserved, before) /\ data = Room(header, behind)
    OBVIOUS
  <2>7. b = [used |-> behind, capacity |-> data, unsafe |-> IF data = header THEN {} ELSE {n + 1}]
    BY <2>1, <2>2, <2>3, <2>5, <2>6 DEF BodyRoom
  <2>8. reserved \in Nat \ {0} /\ (first <= c => reserved = c)
    BY <2>6, RoomFacts
  <2>9. header \in Nat \ {0} /\ (before <= reserved => header = reserved)
    BY <2>6, <2>8, RoomFacts
  <2>10. data \in Nat \ {0} /\ (behind <= header => data = header)
    BY <2>6, <2>9, RoomFacts
  <2>11. behind <= c => data = c /\ data = header
    BY <2>5, <2>8, <2>9, <2>10
  <2> QED BY <2>5, <2>7, <2>10, <2>11 DEF Holds
<1> QED BY <1>1, <1>2

\* t is s and a response on sid, of which frames may be lost.
Written(s, t, r, lost) ==
  t = s \o [i \in DOMAIN r |-> IF i \in lost THEN Lost ELSE r[i]]

\* Whatever is lost, the frames before stay and no SETTINGS comes.
LEMMA WrittenExtends ==
  ASSUME NEW s \in Seq(FrameType), NEW sid \in {0} \cup Streams, NEW o \in DataBodies,
         NEW lost, NEW t, Written(s, t, Response(sid, o), lost)
  PROVE  /\ Extends(s, t)
         /\ lost = {} => t = s \o Response(sid, o)
<1>1. PICK r : r = Response(sid, o)
  OBVIOUS
<1>2. /\ r \in Seq(FrameType) /\ Len(r) \in Nat /\ Len(r) >= 1 /\ r[1] = Frame("HEADERS", sid)
      /\ \A i \in 2..Len(r) : r[i].type \notin {"HEADERS", "SETTINGS"}
  BY <1>1, ResponseGood DEF ResponseOK
<1>3. PICK l : l = Lost
  OBVIOUS
<1>4. l \in FrameType /\ l.type # "SETTINGS"
  BY <1>3 DEF Lost, Frame, FrameType, FrameTypes
<1>5. \A i \in 1..Len(r) : r[i] \in FrameType /\ r[i].type # "SETTINGS"
  <2>1. r[1].type # "SETTINGS"
    BY <1>2 DEF Frame
  <2>2. \A i \in 1..Len(r) : i = 1 \/ i \in 2..Len(r)
    BY <1>2
  <2> QED BY <1>2, <2>1, <2>2, ElementOfSeq
<1>6. DOMAIN r = 1..Len(r)
  BY <1>2
<1>7. PICK w : w = [i \in DOMAIN r |-> IF i \in lost THEN l ELSE r[i]]
  OBVIOUS
<1>8. t = s \o w
  BY <1>1, <1>3, <1>7 DEF Written
<1> HIDE DEF FrameType
<1>9. /\ w \in Seq(FrameType) /\ Len(w) = Len(r)
      /\ \A i \in 1..Len(w) : w[i].type # "SETTINGS"
  <2>1. w \in [1..Len(r) -> FrameType] /\ \A i \in 1..Len(r) : w[i].type # "SETTINGS"
    BY <1>4, <1>5, <1>6, <1>7
  <2>2. w \in Seq(FrameType) /\ DOMAIN w = 1..Len(r)
    BY <1>2, <2>1, SeqDef
  <2>3. Len(w) = Len(r)
    BY <1>2, <2>2, LenProperties
  <2> QED BY <2>1, <2>2, <2>3
<1>10. /\ t \in Seq(FrameType) /\ Len(t) = Len(s) + Len(w) /\ Len(s) \in Nat /\ Len(w) \in Nat
       /\ \A i \in 1..Len(s) : t[i] = s[i]
       /\ \A i \in 1..Len(w) : t[i + Len(s)] = w[i]
  BY <1>8, <1>9, CatFacts
<1>11. ASSUME NEW i \in (Len(s) + 1)..Len(t) PROVE t[i].type # "SETTINGS"
  <2>1. i - Len(s) \in 1..Len(w) /\ (i - Len(s)) + Len(s) = i
    BY <1>10
  <2>2. t[(i - Len(s)) + Len(s)] = w[i - Len(s)]
    BY <1>10, <2>1
  <2> QED BY <1>9, <2>1, <2>2
<1>12. Extends(s, t)
  BY <1>2, <1>9, <1>10, <1>11 DEF Extends
<1>13. ASSUME lost = {} PROVE t = s \o r
  <2>1. w = [i \in DOMAIN r |-> r[i]]
    BY <1>7, <1>13
  <2>2. w = r
    BY <1>2, <2>1
  <2> QED BY <1>8, <2>2
<1> QED BY <1>1, <1>12, <1>13

\* An answer that fits is whole and leaves the buffer where it is; any answer
\* leaves the frames before it.
LEMMA AnswerFacts ==
  ASSUME NEW s \in Seq(FrameType), NEW u \in Nat, NEW c \in Nat \ {0}, NEW sid \in {0} \cup Streams,
         NEW o \in DataBodies, Answer(s, u, c, sid, o), up \in BOOLEAN
  PROVE  /\ Extends(s, out') /\ up' \in BOOLEAN
         /\ used' \in Nat /\ used' >= u /\ capacity' \in Nat \ {0}
         /\ used' < c => capacity' = c /\ out' = s \o Response(sid, o)
<1>1. PICK n \in BlockSizes :
        LET header == Room(c, u + FrameHead)
            behind == u + FrameHead + n
        IN  \E block \in IF behind <= header THEN {header} ELSE {header, Room(header, behind)} :
              LET body   == BodyRoom(behind, block, sid, o.body)
                  unsafe == (IF behind < header THEN {} ELSE {1}) \cup body.unsafe
                  answer == Response(sid, o)
              IN  /\ \E lost \in SUBSET unsafe :
                       out' = s \o [i \in DOMAIN answer |-> IF i \in lost THEN Lost ELSE answer[i]]
                  /\ used' = body.used /\ capacity' = body.capacity
                  /\ up' \in IF unsafe = {} THEN {up} ELSE BOOLEAN
  BY Zenon DEF Answer
<1>2. PICK header, behind : header = Room(c, u + FrameHead) /\ behind = u + FrameHead + n
  OBVIOUS
<1>3. PICK block \in IF behind <= header THEN {header} ELSE {header, Room(header, behind)} :
        LET body   == BodyRoom(behind, block, sid, o.body)
            unsafe == (IF behind < header THEN {} ELSE {1}) \cup body.unsafe
            answer == Response(sid, o)
        IN  /\ \E lost \in SUBSET unsafe :
                 out' = s \o [i \in DOMAIN answer |-> IF i \in lost THEN Lost ELSE answer[i]]
            /\ used' = body.used /\ capacity' = body.capacity
            /\ up' \in IF unsafe = {} THEN {up} ELSE BOOLEAN
  BY <1>1, <1>2, Zenon
<1>4. PICK body : body = BodyRoom(behind, block, sid, o.body)
  OBVIOUS
<1>5. PICK unsafe : unsafe = (IF behind < header THEN {} ELSE {1}) \cup body.unsafe
  OBVIOUS
<1>6. /\ \E lost \in SUBSET unsafe : Written(s, out', Response(sid, o), lost)
      /\ used' = body.used /\ capacity' = body.capacity
      /\ up' \in IF unsafe = {} THEN {up} ELSE BOOLEAN
  BY <1>3, <1>4, <1>5, Zenon DEF Written
<1>7. PICK lost \in SUBSET unsafe : Written(s, out', Response(sid, o), lost)
  BY <1>6
<1>8. Extends(s, out') /\ (lost = {} => out' = s \o Response(sid, o))
  BY <1>7, WrittenExtends
<1>9. FrameHead \in Nat \ {0} /\ n \in Nat /\ o.body \in Nat \cup {-1}
  BY Sizes, BodyBounds
<1>10. /\ header \in Nat \ {0} /\ (u + FrameHead <= c => header = c)
       /\ behind \in Nat /\ behind >= u /\ behind >= u + FrameHead
  <2>1. u + FrameHead \in Nat
    BY <1>9
  <2> QED BY <1>2, <1>9, <2>1, RoomFacts
<1>11. block \in Nat \ {0} /\ (behind <= header => block = header)
  BY <1>3, <1>10, RoomFacts
<1>12. /\ body.used \in Nat /\ body.used >= behind /\ body.capacity \in Nat \ {0}
       /\ body.used <= block => body.capacity = block /\ body.unsafe = {}
  <2>1. sid \in {0} \cup Streams /\ o.body \in Nat \cup {-1} /\ behind \in Nat /\ block \in Nat \ {0}
    BY <1>9, <1>10, <1>11
  <2>2. Holds(body, behind, block)
    BY ONLY <1>4, <2>1, BodyRoomFacts
  <2> QED BY <2>2 DEF Holds
<1>13. up' \in BOOLEAN
  BY <1>6, Zenon
<1>14. used' \in Nat /\ used' >= u /\ capacity' \in Nat \ {0}
  BY <1>6, <1>10, <1>12
<1>15. ASSUME used' < c PROVE capacity' = c /\ out' = s \o Response(sid, o)
  <2>0. /\ body.used < c /\ FrameHead \in Nat
        /\ body.used \in Nat /\ body.used >= behind
    BY <1>6, <1>9, <1>12, <1>15
  <2>1. behind < c /\ header = c /\ block = c
    BY <1>10, <1>11, <2>0
  <2>2. body.capacity = c /\ body.unsafe = {}
    BY <1>6, <1>12, <1>15, <2>1
  <2>3. unsafe = {}
    BY <1>5, <2>1, <2>2
  <2>4. lost = {}
    BY <1>7, <2>3
  <2> QED BY <1>6, <1>8, <2>2, <2>4
<1> QED BY <1>8, <1>13, <1>14, <1>15

-----------------------------------------------------------------------------
(***************************************************************************)
(* The invariant of a connection, one lemma for each part.                 *)
(***************************************************************************)

\* Types of the members that are neither the list, the table nor the buffer.
ScalarsOK ==
  /\ version \in Versions
  /\ protocol \in {"v1", "v2"} /\ upgrading \in BOOLEAN
  /\ current_request \in {"null", "live", "stale"}
  /\ first_frame \in BOOLEAN /\ settings_responded \in BOOLEAN
  /\ peer_settings \in [SettingIds -> Nat]
  /\ max_stream \in {0} \cup Streams /\ asked \subseteq Streams /\ past \in BOOLEAN
  /\ told \in BOOLEAN /\ goaway \in BOOLEAN /\ threw \in BOOLEAN /\ up \in BOOLEAN
  /\ pc \in {"idle", "preface", "parse", "block", "astray", "serve", "final"}

\* A buffer that is not full has never grown, and its bodies are framed.
BufferInv ==
  /\ out \in Seq(FrameType) /\ used \in Nat /\ capacity \in Nat \ {0}
  /\ Fits => capacity = BufferSize /\ Framed(out)

\* What each phase of a read leaves behind it.
Phases ==
  /\ pc = "idle" => out = <<>> /\ used = 0 /\ list = EmptyList /\ ~upgrading
  /\ pc = "preface" => out = <<>> /\ list = EmptyList /\ asked = {}
  /\ protocol = "v1" /\ ~upgrading => first_frame /\ pc = "idle"
  /\ pc \in {"parse", "block", "astray", "serve"} => ~first_frame
  /\ pc \in {"idle", "preface", "parse", "block", "astray"} => header_request \in {Null, Stale}
  /\ pc = "serve" => header_request \in 0..Len(list.node)
  /\ pc = "final" => header_request \in {Null, Stale}

\* settings_responded remembers SETTINGS from the time it is buffered.
SettingsInv ==
  /\ told => settings_responded
  /\ HasSettings(out) => settings_responded
  /\ SettingsOnceAndFirst

\* ProcessRequest has gone from first up to header_request along next: D are the
\* nodes behind it, one answer for each.
AnsweredIn(D) ==
  /\ D \subseteq 1..Len(list.node)
  /\ list.first \in D \/ (D = {} /\ header_request = list.first)
  /\ header_request \notin D
  /\ \A i \in D : list.node[i].next \in D \cup {header_request}
  /\ \A i \in D : \E k \in Answers(out) : out[k].sid = list.node[i].sid
  /\ Cardinality(Answers(out)) = Cardinality(D)

\* Every stream that had HEADERS has a node.
AskedInList == \A s \in asked : \E i \in 1..Len(list.node) : list.node[i].sid = s

\* The answers of a read, phase by phase.
AnswersInv ==
  /\ pc \in {"preface", "parse", "block", "astray"} => Answers(out) = {}
  /\ pc \in {"parse", "block", "astray", "serve"} => AskedInList
  /\ pc = "serve" /\ Fits => \E D : AnsweredIn(D)
  /\ EveryStreamAnswered

\* Pointers that outlive their request need an exception.
FaultInv ==
  ~threw => /\ header_request # Stale /\ current_request = "null"
            /\ pc = "idle" => header_request = Null
            /\ pc = "final" /\ upgrading /\ first_frame => header_request = Null

\* The inductive invariant of a connection.
HttpInv ==
  /\ ScalarsOK /\ BufferInv /\ TableInv(dynamic_table) /\ ListInv(list)
  /\ Phases /\ SettingsInv /\ AnswersInv /\ FaultInv

\* A setting of the peer is a natural within its limits.
LEMMA SettingParsed ==
  ASSUME peer_settings \in [SettingIds -> Nat], NEW id \in SettingIds, NEW v \in Requested
  PROVE  /\ parse_one(id, v) \in [SettingIds -> Nat]
         /\ parse_one(id, v)["HEADER_TABLE_SIZE"] \in Nat
<1>1. /\ Limits[id] \in [min : Nat, max : Nat] /\ v \in Nat
      /\ "HEADER_TABLE_SIZE" \in SettingIds
  BY HttpAssumption
<1>2. GetSize(id, v) \in Nat
  BY <1>1 DEF GetSize
<1> QED BY <1>1, <1>2 DEF parse_one

\* Writing the lines of a response keeps the header table sound.
LEMMA HeaderTableInv ==
  ASSUME NEW t, TableInv(t), NEW code
  PROVE  TableInv(HeaderTable(t, code))
<1> DEFINE u == copy_http_header_response(t, <<"Status", code>>, TRUE).table
<1> DEFINE v == copy_http_header_response(u, <<"Date", "now">>, FALSE).table
<1>1. TableInv(u)
  BY EncoderInv
<1> HIDE DEF u
<1>2. TableInv(v)
  BY <1>1, EncoderInv
<1> HIDE DEF v
<1>3. TableInv(copy_http_header_response(v, <<"Server", "mms">>, TRUE).table)
  BY <1>2, EncoderInv
<1> QED BY <1>3 DEF HeaderTable, u, v

-----------------------------------------------------------------------------
(***************************************************************************)
(* The response buffer.                                                    *)
(***************************************************************************)

\* The two ways a preface can open its read.
PrefaceHeads == {AddSettingResponse(<<>>), Append(AddSettingResponse(<<>>), AckFrame)}

\* SETTINGS is the first frame, but for the 101.
SettingsFirst(s) ==
  \A i \in 1..Len(s) : s[i].type = "SETTINGS" => i = (IF s[1].type = "101" THEN 2 ELSE 1)

\* A buffer a read can open with: no answer yet, SETTINGS only if not yet sent.
OpensRead(h) ==
  /\ Good(h) /\ Answers(h) = {} /\ SettingsFirst(h)
  /\ HasSettings(h) => ~settings_responded

\* An ack behind it is still one.
LEMMA PlainHead ==
  ASSUME NEW h, OpensRead(h), NEW type \in {"ACK", "PING", "GOAWAY"}, Len(h) # 0
  PROVE  OpensRead(Append(h, Frame(type, 0)))
<1> DEFINE t == Append(h, Frame(type, 0))
<1>1. type \in FrameTypes \ {"DATA"} /\ type # "HEADERS" /\ type # "SETTINGS" /\ 0 \in {0} \cup Streams
  BY DEF FrameTypes
<1>2. /\ Good(t) /\ Len(h) \in Nat /\ Len(t) = Len(h) + 1
      /\ \A i \in 1..Len(h) : t[i] = h[i]
      /\ t[Len(h) + 1].type = type
      /\ Answers(t) = Answers(h)
  <2>1. t = Append(h, Frame(type, 0))
    OBVIOUS
  <2> HIDE DEF t
  <2>2. Good(h)
    BY DEF OpensRead
  <2>3. AppendedTo(h, t, type)
    BY <1>1, <2>1, <2>2, AppendFacts DEF Good
  <2> QED BY <1>1, <2>2, <2>3 DEF AppendedTo, Good
<1> HIDE DEF t
<1>3. /\ 1 \in 1..Len(h)
      /\ \A i \in 1..Len(t) : i \in 1..Len(h) \/ i = Len(h) + 1
  BY <1>2
<1>4. SettingsFirst(t) /\ (HasSettings(t) => ~settings_responded)
  BY <1>1, <1>2, <1>3 DEF OpensRead, SettingsFirst, HasSettings
<1> QED BY <1>2, <1>4 DEF OpensRead, t

\* AddSettingResponse on an empty buffer opens a read.
LEMMA EmptyHead == OpensRead(AddSettingResponse(<<>>))
<1>1. CASE settings_responded
  <2> DEFINE s == <<>>
  <2>1. Good(s) /\ Answers(s) = {} /\ ~HasSettings(s) /\ Len(s) = 0
    BY GoodEmpty
  <2> HIDE DEF s
  <2>2. OpensRead(s)
    BY <2>1 DEF OpensRead, SettingsFirst
  <2> QED BY <1>1, <2>2 DEF AddSettingResponse, s
<1>2. CASE ~settings_responded
  <2> DEFINE f == Frame("SETTINGS", 0)
  <2> DEFINE s == <<f>>
  <2>1. "SETTINGS" \in FrameTypes /\ 0 \in {0} \cup Streams
    BY DEF FrameTypes
  <2>2. f \in FrameType /\ f.type = "SETTINGS"
    BY <2>1, FrameIsFrame
  <2>3. Good(s)
    BY <2>1, GoodFrame
  <2>4. AddSettingResponse(<<>>) = s
    BY <1>2 DEF AddSettingResponse, SettingsFrame
  <2> HIDE DEF f
  <2>5. Len(s) = 1 /\ s[1] = f
    BY <2>2
  <2> HIDE DEF s
  <2>6. OpensRead(s)
    BY <1>2, <2>2, <2>3, <2>5 DEF OpensRead, SettingsFirst, Answers
  <2> QED BY <2>4, <2>6
<1> QED BY <1>1, <1>2

\* Every buffer of a preface opens a read.
LEMMA PrefaceOpens ==
  ASSUME NEW h \in PrefaceHeads
  PROVE  OpensRead(h)
<1> DEFINE s == AddSettingResponse(<<>>)
<1>1. OpensRead(s)
  BY EmptyHead
<1>2. CASE Len(s) # 0
  <2>1. AckFrame = Frame("ACK", 0)
    BY DEF AckFrame
  <2> HIDE DEF s
  <2>2. OpensRead(Append(s, AckFrame))
    BY <1>1, <1>2, <2>1, PlainHead
  <2> QED BY <1>1, <2>2 DEF PrefaceHeads, s
<1>3. CASE Len(s) = 0
  <2> HIDE DEF s
  <2>1. s = <<>>
    <3>1. s \in Seq(FrameType)
      BY <1>1 DEF OpensRead, Good
    <3> QED BY <1>3, <3>1, EmptySeq
  <2> DEFINE f == Frame("ACK", 0)
  <2> DEFINE r == <<f>>
  <2>2. "ACK" \in FrameTypes /\ 0 \in {0} \cup Streams
    BY DEF FrameTypes
  <2>3. f \in FrameType /\ f.type = "ACK"
    BY <2>2, FrameIsFrame
  <2>4. Good(r)
    BY <2>2, GoodFrame
  <2>5. Append(s, AckFrame) = r
    BY <2>1 DEF AckFrame
  <2> HIDE DEF f
  <2>6. Len(r) = 1 /\ r[1] = f
    BY <2>3
  <2> HIDE DEF r
  <2>7. OpensRead(r)
    BY <2>3, <2>4, <2>6 DEF OpensRead, SettingsFirst, Answers, HasSettings
  <2> QED BY <1>1, <2>5, <2>7 DEF PrefaceHeads, s
<1> QED BY <1>2, <1>3

\* The buffer of an upgrade opens a read.
LEMMA UpgradeOpens == OpensRead(UpgradeFrames) /\ Len(UpgradeFrames) >= 1
<1> DEFINE f == Frame("101", 0)
<1> DEFINE g == Frame("SETTINGS", 0)
<1> DEFINE s == <<f>>
<1> DEFINE u == AddSettingResponse(s)
<1>1. "101" \in FrameTypes /\ "SETTINGS" \in FrameTypes /\ "ACK" \in FrameTypes /\ 0 \in {0} \cup Streams
  BY DEF FrameTypes
<1>2. f \in FrameType /\ f.type = "101" /\ g.type = "SETTINGS"
  BY <1>1, FrameIsFrame
<1>3. Good(s)
  BY <1>1, GoodFrame
<1>4. u = s \/ (u = Append(s, g) /\ ~settings_responded)
  BY DEF AddSettingResponse, SettingsFrame
<1> HIDE DEF f, g
<1>5. Len(s) = 1 /\ s[1] = f
  BY <1>2
<1> HIDE DEF s, u
<1>6. OpensRead(s)
  BY <1>2, <1>3, <1>5 DEF OpensRead, SettingsFirst, Answers, HasSettings
<1>7. ASSUME u = Append(s, g), ~settings_responded PROVE OpensRead(u)
  <2>1. /\ Good(u) /\ Len(u) = Len(s) + 1
        /\ \A i \in 1..Len(s) : u[i] = s[i]
        /\ u[Len(s) + 1].type = "SETTINGS"
        /\ Answers(u) = Answers(s)
    <3>1. "SETTINGS" \in FrameTypes \ {"DATA"} /\ "SETTINGS" # "HEADERS" /\ u = Append(s, Frame("SETTINGS", 0))
      BY <1>1, <1>7 DEF g
    <3>2. AppendedTo(s, u, "SETTINGS")
      BY <1>1, <1>3, <3>1, AppendFacts DEF Good
    <3> QED BY <1>3, <3>1, <3>2 DEF AppendedTo, Good
  <2>2. Len(u) = 2 /\ u[1] = f /\ u[2].type = "SETTINGS"
    BY <1>5, <2>1
  <2> QED BY <1>2, <1>6, <1>7, <2>1, <2>2 DEF OpensRead, SettingsFirst
<1>8. OpensRead(u) /\ Len(u) \in Nat /\ Len(u) # 0
  <2>1. OpensRead(u)
    BY <1>4, <1>6, <1>7
  <2>2. CASE u = s
    BY <1>5, <2>1, <2>2
  <2>3. CASE u = Append(s, g)
    <3>1. s \in Seq(FrameType) /\ g \in FrameType
      BY <1>1, <1>3, FrameIsFrame DEF Good, g
    <3>2. Len(u) = Len(s) + 1
      BY <2>3, <3>1, AppendProperties
    <3> QED BY <1>5, <2>1, <3>2
  <2> QED BY <1>4, <2>2, <2>3
<1>9. UpgradeFrames = Append(u, Frame("ACK", 0))
  BY DEF UpgradeFrames, AckFrame, u, s, f
<1>10. Len(UpgradeFrames) = Len(u) + 1
  <2>1. u \in Seq(FrameType) /\ Frame("ACK", 0) \in FrameType
    BY <1>1, <1>8, FrameIsFrame DEF OpensRead, Good
  <2> QED BY <1>9, <2>1, AppendProperties
<1>11. OpensRead(UpgradeFrames)
  BY <1>8, <1>9, PlainHead
<1> QED BY <1>8, <1>10, <1>11

\* Frames written behind others leave where SETTINGS is.
LEMMA SettingsStay ==
  ASSUME NEW s, NEW t, Extends(s, t), SettingsFirst(s)
  PROVE  SettingsFirst(t) /\ (HasSettings(t) => HasSettings(s)) /\ t # <<>>
<1>1. /\ Len(s) \in Nat /\ Len(t) \in Nat /\ Len(t) > Len(s)
      /\ \A i \in 1..Len(s) : t[i] = s[i]
      /\ \A i \in (Len(s) + 1)..Len(t) : t[i].type # "SETTINGS"
  BY DEF Extends
<1>2. \A i \in 1..Len(t) : i \in 1..Len(s) \/ i \in (Len(s) + 1)..Len(t)
  BY <1>1
<1>3. \A i \in 1..Len(s) : 1 \in 1..Len(s)
  BY <1>1
<1>4. t # <<>>
  BY <1>1, GoodEmpty
<1> QED BY <1>1, <1>2, <1>3, <1>4 DEF SettingsFirst, HasSettings

\* The buffer takes more and is not moved if that fits.
Grows == used' \in Nat /\ used' >= used /\ capacity' \in Nat \ {0} /\ (Fits' => capacity' = BufferSize)

\* Control frames behind others.
LEMMA PutFacts ==
  ASSUME HttpInv, NEW n \in Nat, NEW t, Put(t, n)
  PROVE  Grows /\ out' = t
<1>1. used \in Nat /\ capacity \in Nat \ {0} /\ (Fits => capacity = BufferSize)
  BY DEF HttpInv, BufferInv
<1>2. used' = used + n /\ capacity' = Room(capacity, used + n) /\ out' = t
  BY DEF Put
<1>3. used + n \in Nat
  BY <1>1
<1>4. capacity' \in Nat \ {0} /\ (used + n <= capacity => capacity' = capacity)
  BY <1>1, <1>2, <1>3, RoomFacts
<1> QED BY <1>1, <1>2, <1>3, <1>4, Sizes DEF Grows, Fits

\* One more answer.
LEMMA WriteV2Effects ==
  ASSUME HttpInv, NEW sid \in {0} \cup Streams, NEW o \in DataBodies, WriteV2(sid, o)
  PROVE  /\ Extends(out, out') /\ Grows /\ up' \in BOOLEAN
         /\ Fits' => Fits /\ WrittenTo(out, out', sid)
         /\ TableInv(dynamic_table')
<1>1. /\ out \in Seq(FrameType) /\ used \in Nat /\ capacity \in Nat \ {0} /\ up \in BOOLEAN
      /\ Fits => capacity = BufferSize /\ Good(out)
      /\ TableInv(dynamic_table)
  BY DEF HttpInv, BufferInv, ScalarsOK, Good
<1>2. Answer(out, used, capacity, sid, o) /\ dynamic_table' = HeaderTable(dynamic_table, o.code)
  BY DEF WriteV2
<1>3. /\ Extends(out, out') /\ up' \in BOOLEAN
      /\ used' \in Nat /\ used' >= used /\ capacity' \in Nat \ {0}
      /\ used' < capacity => capacity' = capacity /\ out' = out \o Response(sid, o)
  BY <1>1, <1>2, AnswerFacts
<1>4. ASSUME Fits' PROVE Fits /\ capacity' = BufferSize /\ out' = out \o Response(sid, o)
  <2>1. BufferSize \in Nat /\ used' < BufferSize
    BY <1>4, Sizes DEF Fits
  <2>2. Fits
    BY <1>1, <1>3, <2>1 DEF Fits
  <2> QED BY <1>1, <1>3, <2>1, <2>2
<1>5. ASSUME Fits' PROVE WrittenTo(out, out', sid)
  BY <1>1, <1>4, <1>5, WriteFacts
<1>6. TableInv(dynamic_table')
  BY <1>1, <1>2, HeaderTableInv
<1> QED BY <1>3, <1>4, <1>5, <1>6 DEF Grows

\* The answer that follows an upgrade.
LEMMA UpgradeEffects ==
  ASSUME HttpInv, pc = "idle", NEW sid \in {0} \cup Streams, NEW o \in DataBodies,
         Answer(UpgradeFrames, UpgradeSize, Room(BufferSize, UpgradeSize), sid, o)
  PROVE  /\ Extends(UpgradeFrames, out') /\ Grows /\ up' \in BOOLEAN
         /\ Fits' => WrittenTo(UpgradeFrames, out', sid)
<1>1. UpgradeFrames \in Seq(FrameType) /\ Good(UpgradeFrames)
  BY UpgradeOpens DEF OpensRead, Good
<1>2. /\ UpgradeSize \in Nat /\ BufferSize \in Nat \ {0} /\ up \in BOOLEAN /\ used = 0
  BY Sizes DEF HttpInv, ScalarsOK, Phases
<1>3. PICK c : c = Room(BufferSize, UpgradeSize)
  OBVIOUS
<1>4. c \in Nat \ {0} /\ (UpgradeSize <= BufferSize => c = BufferSize)
  BY <1>2, <1>3, RoomFacts
<1>5. /\ Extends(UpgradeFrames, out') /\ up' \in BOOLEAN
      /\ used' \in Nat /\ used' >= UpgradeSize /\ capacity' \in Nat \ {0}
      /\ used' < c => capacity' = c /\ out' = UpgradeFrames \o Response(sid, o)
  BY <1>1, <1>2, <1>3, <1>4, AnswerFacts
<1>6. ASSUME Fits' PROVE capacity' = BufferSize /\ out' = UpgradeFrames \o Response(sid, o)
  BY <1>2, <1>4, <1>5, <1>6 DEF Fits
<1>7. ASSUME Fits' PROVE WrittenTo(UpgradeFrames, out', sid)
  BY <1>1, <1>6, <1>7, WriteFacts
<1> QED BY <1>2, <1>5, <1>6, <1>7 DEF Grows

\* The answer of WriteError.
LEMMA Refusal == [code |-> "400", body |-> 1] \in DataBodies
BY DEF DataBodies

\* How the response buffer changes in a step.
BufferStep ==
  \/ UNCHANGED buffer
  \/ out' = <<>> /\ used' = 0 /\ capacity' \in {capacity, BufferSize} /\ (used = 0 \/ capacity' = BufferSize)
  \/ Extends(out, out') /\ Grows /\ (Fits' => Good(out'))
  \/ settings_responded' = TRUE /\ out' \in PrefaceHeads /\ Grows
  \/ settings_responded' = TRUE /\ Extends(UpgradeFrames, out') /\ Grows /\ (Fits' => Good(out'))

\* WriteError through a pointer that is null or freed, too.
LEMMA UndefinedEffects ==
  ASSUME HttpInv, Undefined
  PROVE  BufferStep /\ up' \in BOOLEAN /\ TableInv(dynamic_table')
<1>1. CASE up' = FALSE /\ UNCHANGED <<buffer, dynamic_table>>
  BY <1>1 DEF BufferStep, HttpInv
<1>2. CASE \E sid \in {0} \cup Streams : WriteV2(sid, [code |-> "400", body |-> 1])
  <2>1. PICK sid \in {0} \cup Streams, o \in DataBodies : WriteV2(sid, o)
    BY <1>2, Refusal
  <2> QED BY <2>1, WriteV2Effects DEF BufferStep, WrittenTo
<1> QED BY <1>1, <1>2 DEF Undefined

\* A control frame behind others.
LEMMA PutStep ==
  ASSUME HttpInv, NEW n \in Nat, NEW type \in {"PING", "GOAWAY"}, Put(Append(out, Frame(type, 0)), n)
  PROVE  BufferStep /\ AppendedTo(out, out', type)
<1>1. Grows /\ out' = Append(out, Frame(type, 0))
  BY PutFacts
<1>2. /\ type \in FrameTypes \ {"DATA"} /\ 0 \in {0} \cup Streams /\ type # "SETTINGS"
      /\ out \in Seq(FrameType)
  BY DEF HttpInv, BufferInv, FrameTypes
<1>3. AppendedTo(out, out', type)
  BY <1>1, <1>2, AppendFacts
<1>4. Extends(out, out')
  BY <1>2, <1>3 DEF AppendedTo, Extends
<1>5. Fits' => Fits
  BY <1>1, Sizes DEF Grows, Fits, HttpInv, BufferInv
<1>6. Fits' => Good(out')
  BY <1>3, <1>5 DEF AppendedTo, HttpInv, BufferInv
<1> QED BY <1>1, <1>3, <1>4, <1>6 DEF BufferStep

\* The preface opens its read.
LEMMA PrefaceEffects ==
  ASSUME HttpInv, V2Preface \/ CutSettings
  PROVE  /\ pc = "preface" /\ up /\ pc' = "parse" /\ first_frame' = FALSE /\ settings_responded' = TRUE
         /\ out' \in PrefaceHeads /\ Grows /\ up' \in BOOLEAN
         /\ UNCHANGED <<version, v1vars, list, asked, goaway, max_stream, header_request, told, threw>>
<1>1. out = <<>> /\ up \in BOOLEAN
  BY DEF HttpInv, Phases, V2Preface, CutSettings, ScalarsOK
<1>2. /\ SettingResponseSize \in Nat /\ SettingResponseSize + ControlSize["ACK"] \in Nat
  BY Sizes
<1>3. \/ Put(Append(AddSettingResponse(out), AckFrame), SettingResponseSize + ControlSize["ACK"])
      \/ Put(AddSettingResponse(out), SettingResponseSize)
  BY DEF V2Preface, CutSettings
<1>4. Grows /\ out' \in PrefaceHeads
  BY <1>1, <1>2, <1>3, PutFacts DEF PrefaceHeads
<1>5. up' \in BOOLEAN
  BY <1>1 DEF V2Preface, CutSettings, faults
<1> QED BY <1>4, <1>5 DEF V2Preface, CutSettings, readVars, faults

\* Every step changes the buffer in one of these ways.
LEMMA BufferSteps ==
  ASSUME HttpInv, [HttpNext]_httpVars
  PROVE  BufferStep /\ up' \in BOOLEAN
<1>1. CASE V1Refuse
  BY <1>1 DEF HttpInv, ScalarsOK, BufferStep, V1Refuse, Read, V1Leaves, V1WriteError, v1vars,
        v2vars, readVars, faults, buffer, bounds
<1>2. CASE V1Serve
  BY <1>2 DEF HttpInv, ScalarsOK, BufferStep, V1Serve, Read, V1Leaves, V1WriteError, v1vars, v2vars,
        readVars, faults, buffer, bounds
<1>3. CASE V1Throws
  BY <1>3 DEF HttpInv, ScalarsOK, BufferStep, V1Throws, Read, V1Leaves, v1vars, v2vars, readVars,
        faults, buffer, bounds
<1>4. CASE V1Preface
  <2>1. out' = <<>> /\ used' = 0 /\ capacity' = capacity /\ used = 0 /\ up' = up /\ up \in BOOLEAN
    BY <1>4 DEF HttpInv, Phases, ScalarsOK, V1Preface, Read, faults
  <2> QED BY <2>1 DEF BufferStep
<1>5. CASE V1Upgrade
  <2>1. CASE up' = FALSE /\ UNCHANGED <<buffer, dynamic_table>>
    BY <2>1 DEF BufferStep
  <2>2. CASE \E o \in Outcomes :
               Answer(UpgradeFrames, UpgradeSize, Room(BufferSize, UpgradeSize), 1, o)
    <3>1. PICK o \in DataBodies :
            Answer(UpgradeFrames, UpgradeSize, Room(BufferSize, UpgradeSize), 1, o)
      BY <2>2 DEF DataBodies
    <3>2. pc = "idle" /\ 1 \in {0} \cup Streams /\ settings_responded' = TRUE
      BY <1>5, HttpAssumption DEF V1Upgrade, Read
    <3> QED BY <3>1, <3>2, UpgradeEffects DEF BufferStep, WrittenTo
  <2> QED BY <1>5, <2>1, <2>2 DEF V1Upgrade
<1>6. CASE V1UpgradeThrows
  <2>1. CASE V1WriteError /\ V1Leaves
    BY <2>1 DEF V1WriteError, V1Leaves, BufferStep, HttpInv, ScalarsOK
  <2>2. CASE up' = FALSE /\ UNCHANGED <<buffer, dynamic_table>>
    BY <2>2 DEF BufferStep
  <2>3. CASE /\ settings_responded' = TRUE
             /\ \E sid \in {0} \cup Streams :
                  Answer(UpgradeFrames, UpgradeSize, Room(BufferSize, UpgradeSize), sid,
                         [code |-> "400", body |-> 1])
    <3>1. PICK sid \in {0} \cup Streams, o \in DataBodies :
            Answer(UpgradeFrames, UpgradeSize, Room(BufferSize, UpgradeSize), sid, o)
      BY <2>3, Refusal
    <3>2. pc = "idle"
      BY <1>6 DEF V1UpgradeThrows, Read
    <3> QED BY <2>3, <3>1, <3>2, UpgradeEffects DEF BufferStep, WrittenTo
  <2> QED BY <1>6, <2>1, <2>2, <2>3 DEF V1UpgradeThrows
<1>7. CASE V2Read
  <2>1. out' = <<>> /\ used' = 0 /\ capacity' = capacity /\ used = 0 /\ up' = up /\ up \in BOOLEAN
    BY <1>7 DEF HttpInv, Phases, ScalarsOK, V2Read, Read, faults
  <2> QED BY <2>1 DEF BufferStep
<1>8. CASE V2Preface
  BY <1>8, PrefaceEffects DEF BufferStep
<1>9. CASE CutSettings
  BY <1>9, PrefaceEffects DEF BufferStep
<1>10. CASE IgnoredFrame
  BY <1>10 DEF HttpInv, ScalarsOK, BufferStep, IgnoredFrame, Parsing, v1vars, v2vars, readVars,
        faults, buffer, bounds
<1>11. CASE PingFrame
  <2>1. Put(Append(out, Frame("PING", 0)), ControlSize["PING"]) /\ up' = up
    BY <1>11 DEF PingFrame, faults
  <2>2. up \in BOOLEAN /\ ControlSize["PING"] \in Nat
    BY Sizes DEF HttpInv, ScalarsOK
  <2> QED BY <2>1, <2>2, PutStep
<1>12. CASE HeadersFrame
  BY <1>12 DEF HttpInv, ScalarsOK, BufferStep, HeadersFrame, Parsing, v1vars, v2vars, readVars,
        faults, buffer, bounds
<1>13. CASE RstFrame
  BY <1>13 DEF HttpInv, ScalarsOK, BufferStep, RstFrame, Parsing, v1vars, v2vars, readVars, faults,
        buffer, bounds
<1>14. CASE RefusedFrame
  <2>1. UNCHANGED buffer \/ Put(Append(out, Frame("GOAWAY", 0)), ControlSize["GOAWAY"])
    BY <1>14 DEF RefusedFrame, GoawayFrame
  <2>2. up \in BOOLEAN /\ ControlSize["GOAWAY"] \in Nat /\ up' = up
    BY <1>14, Sizes DEF HttpInv, ScalarsOK, RefusedFrame, faults
  <2>3. BufferStep
    BY <2>1, <2>2, PutStep DEF BufferStep
  <2> QED BY <2>2, <2>3
<1>15. CASE CutFrame
  BY <1>15 DEF HttpInv, ScalarsOK, BufferStep, CutFrame, v1vars, v2vars, readVars, faults, buffer,
        bounds
<1>16. CASE ParseEnds
  BY <1>16 DEF HttpInv, ScalarsOK, BufferStep, ParseEnds, v1vars, v2vars, readVars, faults, buffer,
        bounds
<1>17. CASE ProcessRequest
  <2>1. list.node[header_request].sid \in {0} \cup Streams
    <3>1. Len(list.node) \in Nat /\ header_request \in 1..Len(list.node)
      BY <1>17, ShapeNode DEF HttpInv, ListInv, Phases, ProcessRequest, Null
    <3> QED BY <3>1 DEF HttpInv, ListInv
  <2>2. \E o \in DataBodies : WriteV2(list.node[header_request].sid, o)
    BY <1>17 DEF ProcessRequest, DataBodies
  <2> QED BY <2>1, <2>2, WriteV2Effects DEF BufferStep, WrittenTo
<1>18. CASE HandlerThrows
  BY <1>18, UndefinedEffects DEF HandlerThrows
<1>19. CASE Served
  BY <1>19 DEF HttpInv, ScalarsOK, BufferStep, Served, v1vars, v2vars, readVars, faults, buffer,
        bounds
<1>20. CASE Final
  <2>1. out' = <<>> /\ used' = 0 /\ capacity' = (IF used = 0 THEN capacity ELSE BufferSize) /\ up' = up
    BY <1>20 DEF Final, faults
  <2> QED BY <2>1 DEF BufferStep, HttpInv, ScalarsOK
<1>21. CASE Fault
  BY <1>21 DEF Fault, BufferStep
<1>22. CASE Representation
  <2>1. Undefined \/ UNCHANGED <<up, buffer>>
    BY <1>22 DEF Representation
  <2>2. CASE UNCHANGED <<up, buffer>>
    BY <2>2 DEF BufferStep, HttpInv, ScalarsOK
  <2> QED BY <2>1, <2>2, UndefinedEffects
<1>23. CASE BlockEnds
  BY <1>23 DEF HttpInv, ScalarsOK, BufferStep, BlockEnds, InBlock, v1vars, v2vars, readVars, faults,
        buffer, bounds
<1>24. CASE BlockRunsPast
  BY <1>24 DEF HttpInv, ScalarsOK, BufferStep, BlockRunsPast, InBlock, v1vars, v2vars, readVars,
        faults, buffer, bounds
<1>25. CASE UNCHANGED httpVars
  BY <1>25 DEF HttpInv, ScalarsOK, BufferStep, httpVars, v1vars, v2vars, readVars, faults, buffer,
        bounds
<1> QED BY <1>1, <1>2, <1>3, <1>4, <1>5, <1>6, <1>7, <1>8, <1>9, <1>10, <1>11, <1>12, <1>13, <1>14,
          <1>15, <1>16, <1>17, <1>18, <1>19, <1>20, <1>21, <1>22, <1>23, <1>24, <1>25
       DEF HttpNext

\* Every step keeps what the buffer holds.
LEMMA BufferInvStep ==
  ASSUME HttpInv, [HttpNext]_httpVars
  PROVE  BufferInv'
<1>1. out \in Seq(FrameType) /\ used \in Nat /\ capacity \in Nat \ {0} /\ (Fits => capacity = BufferSize)
  BY DEF HttpInv, BufferInv
<1>2. BufferSize \in Nat \ {0}
  BY Sizes
<1>3. CASE UNCHANGED buffer
  BY <1>3 DEF HttpInv, BufferInv, Fits, Framed, FramedAt, buffer
<1>4. CASE out' = <<>> /\ used' = 0 /\ capacity' \in {capacity, BufferSize} /\ (used = 0 \/ capacity' = BufferSize)
  <2>1. Good(out')
    BY <1>4, GoodEmpty
  <2>2. capacity' = BufferSize
    BY <1>1, <1>2, <1>4 DEF Fits
  <2> QED BY <1>2, <1>4, <2>1, <2>2 DEF BufferInv, Good
<1>5. CASE Extends(out, out') /\ Grows /\ (Fits' => Good(out'))
  BY <1>5 DEF Extends, Grows, BufferInv, Good
<1>6. CASE out' \in PrefaceHeads /\ Grows
  <2>1. Good(out')
    BY <1>6, PrefaceOpens DEF OpensRead
  <2> QED BY <1>6, <2>1 DEF Grows, BufferInv, Good
<1>7. CASE Extends(UpgradeFrames, out') /\ Grows /\ (Fits' => Good(out'))
  BY <1>7 DEF Extends, Grows, BufferInv, Good
<1> QED BY <1>3, <1>4, <1>5, <1>6, <1>7, BufferSteps DEF BufferStep

\* Every step keeps the types.
LEMMA ScalarsStep ==
  ASSUME HttpInv, [HttpNext]_httpVars
  PROVE  ScalarsOK'
<1>b. up' \in BOOLEAN
  BY BufferSteps
<1>1. CASE V1Refuse
  BY <1>b, <1>1 DEF HttpInv, ScalarsOK, V1Refuse, Read, V1Leaves, V1WriteError, v1vars, v2vars,
        readVars, faults, buffer, bounds
<1>2. CASE V1Serve
  BY <1>b, <1>2 DEF HttpInv, ScalarsOK, V1Serve, Read, V1Leaves, V1WriteError, v1vars, v2vars,
        readVars, faults, buffer, bounds
<1>3. CASE V1Throws
  BY <1>b, <1>3 DEF HttpInv, ScalarsOK, V1Throws, Read, V1Leaves, v1vars, v2vars, readVars, faults,
        buffer, bounds
<1>4. CASE V1Preface
  BY <1>b, <1>4 DEF HttpInv, ScalarsOK, V1Preface, Read, v1vars, v2vars, readVars, faults, buffer,
        bounds
<1>5. CASE V1Upgrade
  <2>1. peer_settings' \in [SettingIds -> Nat]
    BY <1>5, SettingParsed DEF HttpInv, ScalarsOK, V1Upgrade
  <2>2. 1 \in Streams
    BY HttpAssumption
  <2> QED BY <1>5, <1>b, <2>1, <2>2 DEF HttpInv, ScalarsOK, V1Upgrade, Read, v1vars
<1>6. CASE V1UpgradeThrows
  <2>1. peer_settings' \in [SettingIds -> Nat]
    BY <1>6, SettingParsed DEF HttpInv, ScalarsOK, V1UpgradeThrows, V1Leaves, v2vars
  <2>2. CASE V1Leaves /\ UNCHANGED v1vars
    BY <1>6, <1>b, <2>2 DEF HttpInv, ScalarsOK, V1UpgradeThrows, Read, V1Leaves, v1vars, v2vars, readVars
  <2>3. CASE /\ upgrading' = TRUE /\ pc' = "final" /\ settings_responded' = TRUE /\ goaway' = TRUE
             /\ UNCHANGED <<protocol, current_request, first_frame, list, asked, max_stream, past, told>>
    BY <1>6, <1>b, <2>1, <2>3 DEF HttpInv, ScalarsOK, V1UpgradeThrows, Read
  <2> QED BY <1>6, <2>2, <2>3 DEF V1UpgradeThrows
<1>7. CASE V2Read
  BY <1>b, <1>7 DEF HttpInv, ScalarsOK, V2Read, Read, v1vars, v2vars, readVars, faults, buffer,
        bounds
<1>8. CASE V2Preface
  <2>1. peer_settings' \in [SettingIds -> Nat]
    BY <1>8, SettingParsed DEF HttpInv, ScalarsOK, V2Preface
  <2> QED BY <1>8, <1>b, <2>1 DEF HttpInv, ScalarsOK, V2Preface, v1vars, v2vars, readVars,
        faults, buffer, bounds
<1>9. CASE CutSettings
  <2>1. peer_settings' \in [SettingIds -> Nat]
    BY <1>9, SettingParsed DEF HttpInv, ScalarsOK, CutSettings
  <2> QED BY <1>9, <1>b, <2>1 DEF HttpInv, ScalarsOK, CutSettings, v1vars, v2vars, readVars,
        faults, buffer, bounds
<1>10. CASE IgnoredFrame
  BY <1>b, <1>10 DEF HttpInv, ScalarsOK, IgnoredFrame, Parsing, v1vars, v2vars, readVars, faults,
        buffer, bounds
<1>11. CASE PingFrame
  BY <1>b, <1>11 DEF HttpInv, ScalarsOK, PingFrame, Parsing, Put, v1vars, v2vars, readVars, faults,
        buffer, bounds
<1>12. CASE HeadersFrame
  <2>1. PICK sid \in Streams : Parsing(sid) /\ asked' = asked \cup {sid}
    BY <1>12 DEF HeadersFrame
  <2> QED BY <1>12, <1>b, <2>1 DEF HttpInv, ScalarsOK, HeadersFrame, Parsing, v1vars, faults
<1>13. CASE RstFrame
  BY <1>b, <1>13 DEF HttpInv, ScalarsOK, RstFrame, Parsing, v1vars, v2vars, readVars, faults,
        buffer, bounds
<1>14. CASE RefusedFrame
  BY <1>b, <1>14 DEF HttpInv, ScalarsOK, RefusedFrame, Parsing, v1vars, v2vars, readVars, faults,
        buffer, bounds
<1>15. CASE CutFrame
  BY <1>b, <1>15 DEF HttpInv, ScalarsOK, CutFrame, v1vars, v2vars, readVars, faults, buffer, bounds
<1>16. CASE ParseEnds
  BY <1>b, <1>16 DEF HttpInv, ScalarsOK, ParseEnds, v1vars, v2vars, readVars, faults, buffer, bounds
<1>17. CASE ProcessRequest
  BY <1>17, <1>b DEF HttpInv, ScalarsOK, ProcessRequest, v1vars, readVars
<1>18. CASE HandlerThrows
  BY <1>18, <1>b DEF HttpInv, ScalarsOK, HandlerThrows, v1vars
<1>19. CASE Served
  BY <1>b, <1>19 DEF HttpInv, ScalarsOK, Served, v1vars, v2vars, readVars, faults, buffer, bounds
<1>20. CASE Final
  BY <1>b, <1>20 DEF HttpInv, ScalarsOK, Final, v1vars, v2vars, readVars, faults, buffer, bounds
<1>21. CASE Fault
  BY <1>b, <1>21 DEF HttpInv, ScalarsOK, Fault, v1vars, v2vars, readVars, faults, buffer, bounds
<1>22. CASE Representation
  <2>1. /\ goaway' \in {goaway, TRUE} /\ threw' \in {threw, TRUE} /\ pc' \in {pc, "final"}
        /\ UNCHANGED <<first_frame, settings_responded, peer_settings, asked, max_stream, past>>
    BY <1>22 DEF Representation
  <2>2. UNCHANGED <<version, v1vars, told>>
    BY <1>22 DEF Representation, InBlock
  <2>3. goaway' \in BOOLEAN /\ threw' \in BOOLEAN
    BY <2>1, Zenon DEF HttpInv, ScalarsOK
  <2> QED BY <1>b, <2>1, <2>2, <2>3 DEF HttpInv, ScalarsOK, v1vars
<1>23. CASE BlockEnds
  BY <1>b, <1>23 DEF HttpInv, ScalarsOK, BlockEnds, InBlock, v1vars, v2vars, readVars, faults,
        buffer, bounds
<1>24. CASE BlockRunsPast
  BY <1>b, <1>24 DEF HttpInv, ScalarsOK, BlockRunsPast, InBlock, v1vars, v2vars, readVars, faults,
        buffer, bounds
<1>25. CASE UNCHANGED httpVars
  BY <1>b, <1>25 DEF HttpInv, ScalarsOK, httpVars, v1vars, v2vars, readVars, faults, buffer, bounds
<1> QED BY <1>1, <1>2, <1>3, <1>4, <1>5, <1>6, <1>7, <1>8, <1>9, <1>10, <1>11, <1>12, <1>13, <1>14,
          <1>15, <1>16, <1>17, <1>18, <1>19, <1>20, <1>21, <1>22, <1>23, <1>24, <1>25
       DEF HttpNext

\* Every step keeps the header table sound: both directions share it.
LEMMA TableStep ==
  ASSUME HttpInv, [HttpNext]_httpVars
  PROVE  TableInv(dynamic_table)'
<1>a. TableInv(dynamic_table)
  BY DEF HttpInv
<1>1. CASE V1Refuse
  BY <1>a, <1>1 DEF HttpInv, V1Refuse, Read, V1Leaves, V1WriteError, v1vars, v2vars, readVars,
        faults, buffer, bounds
<1>2. CASE V1Serve
  BY <1>a, <1>2 DEF HttpInv, V1Serve, Read, V1Leaves, V1WriteError, v1vars, v2vars, readVars,
        faults, buffer, bounds
<1>3. CASE V1Throws
  BY <1>a, <1>3 DEF HttpInv, V1Throws, Read, V1Leaves, v1vars, v2vars, readVars, faults, buffer,
        bounds
<1>4. CASE V1Preface
  BY <1>a, <1>4 DEF HttpInv, V1Preface, Read, v1vars, v2vars, readVars, faults, buffer, bounds
<1>5. CASE V1Upgrade
  BY <1>a, <1>5, HeaderTableInv DEF V1Upgrade
<1>6. CASE V1UpgradeThrows
  BY <1>a, <1>6, HeaderTableInv DEF V1UpgradeThrows, V1Leaves, v2vars
<1>7. CASE V2Read
  BY <1>a, <1>7 DEF HttpInv, V2Read, Read, v1vars, v2vars, readVars, faults, buffer, bounds
<1>8. CASE V2Preface
  <2>1. CASE UNCHANGED dynamic_table
    BY <1>a, <2>1
  <2>2. CASE dynamic_table' = update_size(dynamic_table, peer_settings'["HEADER_TABLE_SIZE"])
    <3>1. peer_settings'["HEADER_TABLE_SIZE"] \in Nat
      BY <1>8, ScalarsStep, HttpAssumption DEF ScalarsOK
    <3> QED BY <1>a, <2>2, <3>1, UpdateSizeInv
  <2> QED BY <1>8, <2>1, <2>2 DEF V2Preface
<1>9. CASE CutSettings
  <2>1. peer_settings'["HEADER_TABLE_SIZE"] \in Nat
    BY <1>9, ScalarsStep, HttpAssumption DEF ScalarsOK
  <2> QED BY <1>a, <1>9, <2>1, UpdateSizeInv DEF CutSettings
<1>10. CASE IgnoredFrame
  BY <1>a, <1>10 DEF HttpInv, IgnoredFrame, Parsing, v1vars, v2vars, readVars, faults, buffer,
        bounds
<1>11. CASE PingFrame
  BY <1>a, <1>11 DEF HttpInv, PingFrame, Parsing, Put, v1vars, v2vars, readVars, faults, buffer,
        bounds
<1>12. CASE HeadersFrame
  BY <1>a, <1>12 DEF HttpInv, HeadersFrame, Parsing, v1vars, v2vars, readVars, faults, buffer,
        bounds
<1>13. CASE RstFrame
  BY <1>a, <1>13 DEF HttpInv, RstFrame, Parsing, v1vars, v2vars, readVars, faults, buffer, bounds
<1>14. CASE RefusedFrame
  BY <1>a, <1>14 DEF HttpInv, RefusedFrame, Parsing, v1vars, v2vars, readVars, faults, buffer,
        bounds
<1>15. CASE CutFrame
  BY <1>a, <1>15 DEF HttpInv, CutFrame, v1vars, v2vars, readVars, faults, buffer, bounds
<1>16. CASE ParseEnds
  BY <1>a, <1>16 DEF HttpInv, ParseEnds, v1vars, v2vars, readVars, faults, buffer, bounds
<1>17. CASE ProcessRequest
  BY <1>a, <1>17, HeaderTableInv DEF ProcessRequest, WriteV2
<1>18. CASE HandlerThrows
  BY <1>18, UndefinedEffects DEF HandlerThrows
<1>19. CASE Served
  BY <1>a, <1>19 DEF HttpInv, Served, v1vars, v2vars, readVars, faults, buffer, bounds
<1>20. CASE Final
  BY <1>a, <1>20 DEF HttpInv, Final, v1vars, v2vars, readVars, faults, buffer, bounds
<1>21. CASE Fault
  BY <1>a, <1>21 DEF HttpInv, Fault, v1vars, v2vars, readVars, faults, buffer, bounds
<1>22. CASE Representation
  <2>1. PICK rep \in Reps :
          \/ Undefined
          \/ dynamic_table' = Decoded(dynamic_table, rep).table
    BY <1>22 DEF Representation
  <2>2. CASE dynamic_table' = Decoded(dynamic_table, rep).table
    <3>1. rep.kind \in {"size", "indexed", "literal"} /\ (rep.kind = "size" => rep.index \in Nat)
      BY HttpAssumption
    <3>2. TableInv(Decoded(dynamic_table, rep).table)
      BY <1>a, <3>1, DecoderInv
    <3> QED BY <2>2, <3>2
  <2> QED BY <2>1, <2>2, UndefinedEffects
<1>23. CASE BlockEnds
  BY <1>a, <1>23 DEF HttpInv, BlockEnds, InBlock, v1vars, v2vars, readVars, faults, buffer, bounds
<1>24. CASE BlockRunsPast
  BY <1>a, <1>24 DEF HttpInv, BlockRunsPast, InBlock, v1vars, v2vars, readVars, faults, buffer,
        bounds
<1>25. CASE UNCHANGED httpVars
  BY <1>a, <1>25 DEF HttpInv, httpVars, v1vars, v2vars, readVars, faults, buffer, bounds
<1> QED BY <1>1, <1>2, <1>3, <1>4, <1>5, <1>6, <1>7, <1>8, <1>9, <1>10, <1>11, <1>12, <1>13, <1>14,
          <1>15, <1>16, <1>17, <1>18, <1>19, <1>20, <1>21, <1>22, <1>23, <1>24, <1>25
       DEF HttpNext

\* Every step keeps the request list sound.
LEMMA ListStep ==
  ASSUME HttpInv, [HttpNext]_httpVars
  PROVE  ListInv(list)'
<1>a. ListInv(list)
  BY DEF HttpInv
<1>1. CASE V1Refuse
  BY <1>a, EmptyListInv, <1>1 DEF HttpInv, V1Refuse, Read, V1Leaves, V1WriteError, v1vars, v2vars,
        readVars, faults, buffer, bounds
<1>2. CASE V1Serve
  BY <1>a, EmptyListInv, <1>2 DEF HttpInv, V1Serve, Read, V1Leaves, V1WriteError, v1vars, v2vars,
        readVars, faults, buffer, bounds
<1>3. CASE V1Throws
  BY <1>a, EmptyListInv, <1>3 DEF HttpInv, V1Throws, Read, V1Leaves, v1vars, v2vars, readVars,
        faults, buffer, bounds
<1>4. CASE V1Preface
  BY <1>a, EmptyListInv, <1>4 DEF HttpInv, V1Preface, Read, v1vars, v2vars, readVars, faults,
        buffer, bounds
<1>5. CASE V1Upgrade
  BY <1>a, EmptyListInv, <1>5 DEF HttpInv, V1Upgrade, Read, v1vars, v2vars, readVars, faults,
        buffer, bounds
<1>6. CASE V1UpgradeThrows
  BY <1>a, EmptyListInv, <1>6 DEF HttpInv, V1UpgradeThrows, Read, V1Leaves, V1WriteError, v1vars,
        v2vars, readVars, faults, buffer, bounds
<1>7. CASE V2Read
  BY <1>a, EmptyListInv, <1>7 DEF HttpInv, V2Read, Read, v1vars, v2vars, readVars, faults, buffer,
        bounds
<1>8. CASE V2Preface
  BY <1>a, EmptyListInv, <1>8 DEF HttpInv, V2Preface, v1vars, v2vars, readVars, faults, buffer,
        bounds
<1>9. CASE CutSettings
  BY <1>a, EmptyListInv, <1>9 DEF HttpInv, CutSettings, v1vars, v2vars, readVars, faults, buffer,
        bounds
<1>10. CASE IgnoredFrame
  BY <1>a, EmptyListInv, <1>10 DEF HttpInv, IgnoredFrame, Parsing, v1vars, v2vars, readVars, faults,
        buffer, bounds
<1>11. CASE PingFrame
  BY <1>a, EmptyListInv, <1>11 DEF HttpInv, PingFrame, Parsing, Put, v1vars, v2vars, readVars,
        faults, buffer, bounds
<1>12. CASE HeadersFrame
  <2>1. PICK sid \in Streams, dep \in {0} \cup Streams :
          list' = [NodeOf(list, sid, dep)[1] EXCEPT !.node[NodeOf(list, sid, dep)[2]].sid = sid]
    BY <1>12 DEF HeadersFrame
  <2> DEFINE u == NodeOf(list, sid, dep)[1]
  <2> DEFINE p == NodeOf(list, sid, dep)[2]
  <2>2. ListInv(u) /\ p \in 1..Len(u.node) /\ u.node[p].sid \in {0, sid}
    BY <1>a, NodeOfInv
  <2>3. list' = [u EXCEPT !.node[p].sid = sid]
    BY <2>1
  <2> HIDE DEF u, p
  <2> QED BY <2>2, <2>3, SidInv
<1>13. CASE RstFrame
  <2>1. PICK sid \in Streams : list' = NodeOf(list, sid, 0)[1]
    BY <1>13 DEF RstFrame
  <2> QED BY <1>a, <2>1, NodeOfInv
<1>14. CASE RefusedFrame
  BY <1>a, EmptyListInv, <1>14 DEF HttpInv, RefusedFrame, Parsing, v1vars, v2vars, readVars, faults,
        buffer, bounds
<1>15. CASE CutFrame
  BY <1>a, EmptyListInv, <1>15 DEF HttpInv, CutFrame, v1vars, v2vars, readVars, faults, buffer,
        bounds
<1>16. CASE ParseEnds
  BY <1>a, EmptyListInv, <1>16 DEF HttpInv, ParseEnds, v1vars, v2vars, readVars, faults, buffer,
        bounds
<1>17. CASE ProcessRequest
  BY <1>a, EmptyListInv, <1>17 DEF HttpInv, ProcessRequest, v1vars, v2vars, readVars, faults,
        buffer, bounds
<1>18. CASE HandlerThrows
  BY <1>a, EmptyListInv, <1>18 DEF HttpInv, HandlerThrows, v1vars, v2vars, readVars, faults, buffer,
        bounds
<1>19. CASE Served
  BY <1>a, EmptyListInv, <1>19 DEF HttpInv, Served, v1vars, v2vars, readVars, faults, buffer, bounds
<1>20. CASE Final
  BY <1>a, EmptyListInv, <1>20 DEF HttpInv, Final, v1vars, v2vars, readVars, faults, buffer, bounds
<1>21. CASE Fault
  BY <1>a, EmptyListInv, <1>21 DEF HttpInv, Fault, v1vars, v2vars, readVars, faults, buffer, bounds
<1>22. CASE Representation
  <2>1. UNCHANGED list \/ list' = EmptyList
    BY <1>22 DEF Representation
  <2> QED BY <1>a, <2>1, EmptyListInv
<1>23. CASE BlockEnds
  BY <1>a, EmptyListInv, <1>23 DEF HttpInv, BlockEnds, InBlock, v1vars, v2vars, readVars, faults,
        buffer, bounds
<1>24. CASE BlockRunsPast
  BY <1>a, EmptyListInv, <1>24 DEF HttpInv, BlockRunsPast, InBlock, v1vars, v2vars, readVars,
        faults, buffer, bounds
<1>25. CASE UNCHANGED httpVars
  BY <1>a, EmptyListInv, <1>25 DEF HttpInv, httpVars, v1vars, v2vars, readVars, faults, buffer,
        bounds
<1> QED BY <1>1, <1>2, <1>3, <1>4, <1>5, <1>6, <1>7, <1>8, <1>9, <1>10, <1>11, <1>12, <1>13, <1>14,
          <1>15, <1>16, <1>17, <1>18, <1>19, <1>20, <1>21, <1>22, <1>23, <1>24, <1>25
       DEF HttpNext

\* Every step keeps what the phases say.
LEMMA PhasesStep ==
  ASSUME HttpInv, [HttpNext]_httpVars
  PROVE  Phases'
<1>1. CASE V1Refuse
  BY <1>1 DEF HttpInv, Phases, ScalarsOK, V1Refuse, Read, V1Leaves, V1WriteError, v1vars, v2vars,
        readVars, faults, buffer, bounds
<1>2. CASE V1Serve
  BY <1>2 DEF HttpInv, Phases, ScalarsOK, V1Serve, Read, V1Leaves, V1WriteError, v1vars, v2vars,
        readVars, faults, buffer, bounds
<1>3. CASE V1Throws
  BY <1>3 DEF HttpInv, Phases, ScalarsOK, V1Throws, Read, V1Leaves, v1vars, v2vars, readVars,
        faults, buffer, bounds
<1>4. CASE V1Preface
  BY <1>4 DEF HttpInv, Phases, ScalarsOK, V1Preface, Read, v1vars, v2vars, readVars, faults, buffer,
        bounds
<1>5. CASE V1Upgrade
  BY <1>5 DEF HttpInv, Phases, ScalarsOK, V1Upgrade, Read, v1vars, v2vars, readVars, faults, buffer,
        bounds
<1>6. CASE V1UpgradeThrows
  <2>1. CASE V1Leaves /\ UNCHANGED v1vars
    BY <1>6, <2>1 DEF HttpInv, Phases, V1UpgradeThrows, Read, V1Leaves, v1vars, v2vars, readVars, buffer
  <2>2. CASE ~(V1Leaves /\ UNCHANGED v1vars)
    <3>1. pc' = "final" /\ header_request' = Stale /\ upgrading' = TRUE
      BY <1>6, <2>2 DEF V1UpgradeThrows
    <3> QED BY <3>1 DEF Phases, Null
  <2> QED BY <2>1, <2>2
<1>7. CASE V2Read
  BY <1>7 DEF HttpInv, Phases, ScalarsOK, V2Read, Read, v1vars, v2vars, readVars, faults, buffer,
        bounds
<1>8. CASE V2Preface
  BY <1>8, PrefaceEffects DEF HttpInv, Phases, v1vars
<1>9. CASE CutSettings
  BY <1>9, PrefaceEffects DEF HttpInv, Phases, v1vars
<1>10. CASE IgnoredFrame
  BY <1>10 DEF HttpInv, Phases, ScalarsOK, IgnoredFrame, Parsing, v1vars, v2vars, readVars, faults,
        buffer, bounds
<1>11. CASE PingFrame
  BY <1>11 DEF HttpInv, Phases, PingFrame, Parsing, v1vars
<1>12. CASE HeadersFrame
  BY <1>12 DEF HttpInv, Phases, HeadersFrame, Parsing, v1vars
<1>13. CASE RstFrame
  BY <1>13 DEF HttpInv, Phases, ScalarsOK, RstFrame, Parsing, v1vars, v2vars, readVars, faults,
        buffer, bounds
<1>14. CASE RefusedFrame
  BY <1>14 DEF HttpInv, Phases, RefusedFrame, Parsing, v1vars
<1>15. CASE CutFrame
  BY <1>15 DEF HttpInv, Phases, ScalarsOK, CutFrame, v1vars, v2vars, readVars, faults, buffer,
        bounds
<1>16. CASE ParseEnds
  <2>1. list.first \in 0..Len(list.node)
    BY DEF HttpInv, ListInv
  <2> QED BY <1>16, <2>1 DEF HttpInv, Phases, ScalarsOK, ParseEnds, v1vars, v2vars, readVars
<1>17. CASE ProcessRequest
  <2>1. list.node[header_request].next \in 0..Len(list.node)
    <3>1. Len(list.node) \in Nat
      BY ShapeNode DEF HttpInv, ListInv
    <3>2. header_request \in 1..Len(list.node)
      BY <1>17, <3>1 DEF HttpInv, Phases, ProcessRequest, Null
    <3> QED BY <3>2 DEF HttpInv, ListInv
  <2> QED BY <1>17, <2>1 DEF HttpInv, Phases, ProcessRequest, v1vars, readVars
<1>18. CASE HandlerThrows
  BY <1>18 DEF HttpInv, Phases, HandlerThrows, v1vars
<1>19. CASE Served
  BY <1>19 DEF HttpInv, Phases, ScalarsOK, Served, v1vars, v2vars, readVars, faults, buffer, bounds
<1>20. CASE Final
  BY <1>20 DEF HttpInv, Phases, ScalarsOK, Final, v1vars, v2vars, readVars, faults, buffer, bounds
<1>21. CASE Fault
  BY <1>21 DEF HttpInv, Phases, ScalarsOK, Fault, v1vars, v2vars, readVars, faults, buffer, bounds
<1>22. CASE Representation
  BY <1>22 DEF HttpInv, Phases, Representation, InBlock, v1vars
<1>23. CASE BlockEnds
  BY <1>23 DEF HttpInv, Phases, ScalarsOK, BlockEnds, InBlock, v1vars, v2vars, readVars, faults,
        buffer, bounds
<1>24. CASE BlockRunsPast
  BY <1>24 DEF HttpInv, Phases, ScalarsOK, BlockRunsPast, InBlock, v1vars, v2vars, readVars, faults,
        buffer, bounds
<1>25. CASE UNCHANGED httpVars
  BY <1>25 DEF HttpInv, Phases, ScalarsOK, httpVars, v1vars, v2vars, readVars, faults, buffer,
        bounds
<1> QED BY <1>1, <1>2, <1>3, <1>4, <1>5, <1>6, <1>7, <1>8, <1>9, <1>10, <1>11, <1>12, <1>13, <1>14,
          <1>15, <1>16, <1>17, <1>18, <1>19, <1>20, <1>21, <1>22, <1>23, <1>24, <1>25
       DEF HttpNext

\* Every step that leaves threw unset leaves no dead pointer.
LEMMA FaultStep ==
  ASSUME HttpInv, [HttpNext]_httpVars
  PROVE  FaultInv'
<1>1. CASE V1Refuse
  BY <1>1 DEF HttpInv, FaultInv, Phases, ScalarsOK, Null, Stale, V1Refuse, Read, V1Leaves,
        V1WriteError, v1vars, v2vars, readVars, faults, buffer, bounds
<1>2. CASE V1Serve
  BY <1>2 DEF HttpInv, FaultInv, Phases, ScalarsOK, Null, Stale, V1Serve, Read, V1Leaves,
        V1WriteError, v1vars, v2vars, readVars, faults, buffer, bounds
<1>3. CASE V1Throws
  BY <1>3 DEF HttpInv, FaultInv, Phases, ScalarsOK, Null, Stale, V1Throws, Read, V1Leaves, v1vars,
        v2vars, readVars, faults, buffer, bounds
<1>4. CASE V1Preface
  BY <1>4 DEF HttpInv, FaultInv, Phases, ScalarsOK, Null, Stale, V1Preface, Read, v1vars, v2vars,
        readVars, faults, buffer, bounds
<1>5. CASE V1Upgrade
  BY <1>5 DEF HttpInv, FaultInv, Null, Stale, V1Upgrade, Read
<1>6. CASE V1UpgradeThrows
  BY <1>6 DEF FaultInv, V1UpgradeThrows
<1>7. CASE V2Read
  BY <1>7 DEF HttpInv, FaultInv, Phases, ScalarsOK, Null, Stale, V2Read, Read, v1vars, v2vars,
        readVars, faults, buffer, bounds
<1>8. CASE V2Preface
  BY <1>8, PrefaceEffects DEF HttpInv, FaultInv, v1vars
<1>9. CASE CutSettings
  BY <1>9, PrefaceEffects DEF HttpInv, FaultInv, v1vars
<1>10. CASE IgnoredFrame
  BY <1>10 DEF HttpInv, FaultInv, Phases, ScalarsOK, Null, Stale, IgnoredFrame, Parsing, v1vars,
        v2vars, readVars, faults, buffer, bounds
<1>11. CASE PingFrame
  BY <1>11 DEF HttpInv, FaultInv, PingFrame, Parsing, v1vars, faults
<1>12. CASE HeadersFrame
  BY <1>12 DEF HttpInv, FaultInv, HeadersFrame, Parsing, v1vars, faults
<1>13. CASE RstFrame
  BY <1>13 DEF HttpInv, FaultInv, Phases, ScalarsOK, Null, Stale, RstFrame, Parsing, v1vars, v2vars,
        readVars, faults, buffer, bounds
<1>14. CASE RefusedFrame
  <2>1. ~first_frame
    BY <1>14 DEF HttpInv, Phases, RefusedFrame, Parsing
  <2> QED BY <1>14, <2>1 DEF HttpInv, FaultInv, RefusedFrame, Parsing, v1vars, faults
<1>15. CASE CutFrame
  BY <1>15 DEF HttpInv, FaultInv, Phases, ScalarsOK, Null, Stale, CutFrame, v1vars, v2vars,
        readVars, faults, buffer, bounds
<1>16. CASE ParseEnds
  <2>1. list.first \in 0..Len(list.node) /\ Len(list.node) \in Nat
    BY ShapeNode DEF HttpInv, ListInv
  <2> QED BY <1>16, <2>1 DEF HttpInv, FaultInv, Stale, ParseEnds, v1vars, faults
<1>17. CASE ProcessRequest
  <2>1. header_request' \in 0..Len(list.node) /\ Len(list.node) \in Nat
    <3>1. Len(list.node) \in Nat /\ header_request \in 1..Len(list.node)
      BY <1>17, ShapeNode DEF HttpInv, ListInv, Phases, ProcessRequest, Null
    <3>2. list.node[header_request].next \in 0..Len(list.node)
      BY <3>1 DEF HttpInv, ListInv
    <3> QED BY <1>17, <3>1, <3>2 DEF ProcessRequest
  <2> QED BY <1>17, <2>1 DEF HttpInv, FaultInv, Stale, ProcessRequest, v1vars
<1>18. CASE HandlerThrows
  BY <1>18 DEF FaultInv, HandlerThrows
<1>19. CASE Served
  BY <1>19 DEF HttpInv, FaultInv, Phases, ScalarsOK, Null, Stale, Served, v1vars, v2vars, readVars,
        faults, buffer, bounds
<1>20. CASE Final
  BY <1>20 DEF HttpInv, FaultInv, Phases, ScalarsOK, Null, Stale, Final, v1vars, v2vars, readVars,
        faults, buffer, bounds
<1>21. CASE Fault
  BY <1>21 DEF HttpInv, FaultInv, Phases, ScalarsOK, Null, Stale, Fault, v1vars, v2vars, readVars,
        faults, buffer, bounds
<1>22. CASE Representation
  <2>1. threw' = TRUE \/ UNCHANGED <<pc, threw>>
    BY <1>22 DEF Representation
  <2>2. UNCHANGED <<header_request, v1vars, first_frame>>
    BY <1>22 DEF Representation, InBlock
  <2> QED BY <2>1, <2>2 DEF HttpInv, FaultInv, v1vars
<1>23. CASE BlockEnds
  BY <1>23 DEF HttpInv, FaultInv, Phases, ScalarsOK, Null, Stale, BlockEnds, InBlock, v1vars,
        v2vars, readVars, faults, buffer, bounds
<1>24. CASE BlockRunsPast
  BY <1>24 DEF HttpInv, FaultInv, Phases, ScalarsOK, Null, Stale, BlockRunsPast, InBlock, v1vars,
        v2vars, readVars, faults, buffer, bounds
<1>25. CASE UNCHANGED httpVars
  BY <1>25 DEF HttpInv, FaultInv, Phases, ScalarsOK, Null, Stale, httpVars, v1vars, v2vars,
        readVars, faults, buffer, bounds
<1> QED BY <1>1, <1>2, <1>3, <1>4, <1>5, <1>6, <1>7, <1>8, <1>9, <1>10, <1>11, <1>12, <1>13, <1>14,
          <1>15, <1>16, <1>17, <1>18, <1>19, <1>20, <1>21, <1>22, <1>23, <1>24, <1>25
       DEF HttpNext

\* settings_responded is never reset, and told follows the buffer that is sent.
LEMMA FlagSteps ==
  ASSUME HttpInv, [HttpNext]_httpVars
  PROVE  /\ settings_responded = TRUE => settings_responded' = TRUE
         /\ told' = told \/ (out' = <<>> /\ told' = (told \/ HasSettings(out)))
<1>1. CASE V1Refuse
  BY <1>1 DEF HttpInv, ScalarsOK, V1Refuse, Read, V1Leaves, V1WriteError, v1vars, v2vars, readVars,
        faults, buffer, bounds
<1>2. CASE V1Serve
  BY <1>2 DEF HttpInv, ScalarsOK, V1Serve, Read, V1Leaves, V1WriteError, v1vars, v2vars, readVars,
        faults, buffer, bounds
<1>3. CASE V1Throws
  BY <1>3 DEF HttpInv, ScalarsOK, V1Throws, Read, V1Leaves, v1vars, v2vars, readVars, faults,
        buffer, bounds
<1>4. CASE V1Preface
  BY <1>4 DEF HttpInv, ScalarsOK, V1Preface, Read, v1vars, v2vars, readVars, faults, buffer, bounds
<1>5. CASE V1Upgrade
  BY <1>5 DEF HttpInv, ScalarsOK, V1Upgrade
<1>6. CASE V1UpgradeThrows
  BY <1>6 DEF HttpInv, ScalarsOK, V1UpgradeThrows, V1Leaves, v2vars
<1>7. CASE V2Read
  BY <1>7 DEF HttpInv, ScalarsOK, V2Read, Read, v1vars, v2vars, readVars, faults, buffer, bounds
<1>8. CASE V2Preface
  BY <1>8, PrefaceEffects
<1>9. CASE CutSettings
  BY <1>9, PrefaceEffects
<1>10. CASE IgnoredFrame
  BY <1>10 DEF HttpInv, ScalarsOK, IgnoredFrame, Parsing, v1vars, v2vars, readVars, faults, buffer,
        bounds
<1>11. CASE PingFrame
  BY <1>11 DEF HttpInv, ScalarsOK, PingFrame, Parsing, Put, v1vars, v2vars, readVars, faults,
        buffer, bounds
<1>12. CASE HeadersFrame
  BY <1>12 DEF HeadersFrame, Parsing
<1>13. CASE RstFrame
  BY <1>13 DEF HttpInv, ScalarsOK, RstFrame, Parsing, v1vars, v2vars, readVars, faults, buffer,
        bounds
<1>14. CASE RefusedFrame
  BY <1>14 DEF RefusedFrame, Parsing
<1>15. CASE CutFrame
  BY <1>15 DEF HttpInv, ScalarsOK, CutFrame, v1vars, v2vars, readVars, faults, buffer, bounds
<1>16. CASE ParseEnds
  BY <1>16 DEF HttpInv, ScalarsOK, ParseEnds, v1vars, v2vars, readVars, faults, buffer, bounds
<1>17. CASE ProcessRequest
  BY <1>17 DEF ProcessRequest
<1>18. CASE HandlerThrows
  BY <1>18 DEF HandlerThrows
<1>19. CASE Served
  BY <1>19 DEF HttpInv, ScalarsOK, Served, v1vars, v2vars, readVars, faults, buffer, bounds
<1>20. CASE Final
  BY <1>20 DEF Final, HasSettings, v2vars
<1>21. CASE Fault
  BY <1>21 DEF HttpInv, ScalarsOK, Fault, v1vars, v2vars, readVars, faults, buffer, bounds
<1>22. CASE Representation
  BY <1>22 DEF Representation, InBlock
<1>23. CASE BlockEnds
  BY <1>23 DEF HttpInv, ScalarsOK, BlockEnds, InBlock, v1vars, v2vars, readVars, faults, buffer,
        bounds
<1>24. CASE BlockRunsPast
  BY <1>24 DEF HttpInv, ScalarsOK, BlockRunsPast, InBlock, v1vars, v2vars, readVars, faults, buffer,
        bounds
<1>25. CASE UNCHANGED httpVars
  BY <1>25 DEF HttpInv, ScalarsOK, httpVars, v1vars, v2vars, readVars, faults, buffer, bounds
<1> QED BY <1>1, <1>2, <1>3, <1>4, <1>5, <1>6, <1>7, <1>8, <1>9, <1>10, <1>11, <1>12, <1>13, <1>14,
          <1>15, <1>16, <1>17, <1>18, <1>19, <1>20, <1>21, <1>22, <1>23, <1>24, <1>25
       DEF HttpNext

\* SETTINGS stays where it belongs.
LEMMA OutSettings ==
  ASSUME HttpInv, BufferStep
  PROVE  /\ SettingsFirst(out')
         /\ \/ HasSettings(out') => HasSettings(out) /\ out' # <<>>
            \/ settings_responded' = TRUE /\ (HasSettings(out') => ~settings_responded)
<1>1. SettingsFirst(out)
  BY DEF HttpInv, SettingsInv, SettingsOnceAndFirst, SettingsFirst
<1>2. CASE UNCHANGED buffer
  BY <1>1, <1>2, GoodEmpty DEF buffer
<1>3. CASE out' = <<>>
  <2>1. ~HasSettings(out') /\ Len(out') = 0
    BY <1>3, GoodEmpty
  <2> QED BY <2>1 DEF SettingsFirst
<1>4. CASE Extends(out, out')
  <2>1. SettingsFirst(out') /\ (HasSettings(out') => HasSettings(out)) /\ out' # <<>>
    BY <1>1, <1>4, SettingsStay
  <2> QED BY <2>1
<1>5. CASE settings_responded' = TRUE /\ out' \in PrefaceHeads
  BY <1>5, PrefaceOpens DEF OpensRead
<1>6. CASE settings_responded' = TRUE /\ Extends(UpgradeFrames, out')
  <2>1. SettingsFirst(UpgradeFrames) /\ (HasSettings(UpgradeFrames) => ~settings_responded)
    BY UpgradeOpens DEF OpensRead
  <2>2. SettingsFirst(out') /\ (HasSettings(out') => HasSettings(UpgradeFrames))
    BY <1>6, <2>1, SettingsStay
  <2> QED BY <1>6, <2>1, <2>2
<1> QED BY <1>2, <1>3, <1>4, <1>5, <1>6 DEF BufferStep

\* Every step keeps SETTINGS once and first.
LEMMA SettingsStep ==
  ASSUME HttpInv, [HttpNext]_httpVars
  PROVE  SettingsInv'
<1>1. /\ SettingsFirst(out')
      /\ \/ HasSettings(out') => HasSettings(out) /\ out' # <<>>
         \/ settings_responded' = TRUE /\ (HasSettings(out') => ~settings_responded)
  BY BufferSteps, OutSettings
<1>2. /\ settings_responded = TRUE => settings_responded' = TRUE
      /\ told' = told \/ (out' = <<>> /\ told' = (told \/ HasSettings(out)))
  BY FlagSteps
<1>3. /\ settings_responded \in BOOLEAN /\ (told => settings_responded)
      /\ HasSettings(out) => settings_responded /\ ~told
  BY DEF HttpInv, ScalarsOK, SettingsInv, SettingsOnceAndFirst, HasSettings
<1>4. out' = <<>> => ~HasSettings(out')
  BY GoodEmpty
<1>5. told' => settings_responded'
  BY <1>2, <1>3
<1>6. HasSettings(out') => settings_responded'
  BY <1>1, <1>2, <1>3
<1>7. HasSettings(out') => ~told'
  BY <1>1, <1>2, <1>3, <1>4
<1>8. SettingsOnceAndFirst'
  BY <1>1, <1>7 DEF SettingsOnceAndFirst, SettingsFirst, HasSettings
<1> QED BY <1>5, <1>6, <1>8 DEF SettingsInv

-----------------------------------------------------------------------------
(***************************************************************************)
(* The answers of a read, and the theorems.                                *)
(***************************************************************************)

\* What a step that ends in pc' has to show of the answers.
LEMMA NotServing ==
  ASSUME pc' \notin {"serve", "final"},
         pc' \in {"preface", "parse", "block", "astray"} => Answers(out') = {},
         pc' \in {"parse", "block", "astray"} => AskedInList'
  PROVE  AnswersInv'
BY DEF AnswersInv, EveryStreamAnswered

\* Or it gives the read up.
LEMMA GivesUp ==
  ASSUME pc' = "final", goaway' = TRUE
  PROVE  AnswersInv'
BY DEF AnswersInv, EveryStreamAnswered

\* A frame of a stream keeps the streams asked about in the list.
LEMMA AskedKept ==
  ASSUME HttpInv, AskedInList, NEW sid \in Streams, NEW dep \in {0} \cup Streams,
         NEW u, u = NodeOf(list, sid, dep)[1]
  PROVE  \A s \in asked : \E i \in 1..Len(u.node) : u.node[i].sid = s
<1>1. ListInv(list) /\ sid \in Streams /\ dep \in {0} \cup Streams /\ 0 \notin Streams
  BY HttpAssumption DEF HttpInv
<1>2. PICK p : p = NodeOf(list, sid, dep)[2]
  OBVIOUS
<1>3. /\ Len(list.node) \in Nat /\ Len(u.node) \in Nat /\ Len(list.node) <= Len(u.node)
      /\ \A i \in 1..Len(list.node) : u.node[i].sid = list.node[i].sid
  BY <1>1, <1>2, NodeOfInv
<1> SUFFICES ASSUME NEW s \in asked PROVE \E i \in 1..Len(u.node) : u.node[i].sid = s
  OBVIOUS
<1>4. PICK i \in 1..Len(list.node) : list.node[i].sid = s
  BY DEF AskedInList
<1>5. i \in 1..Len(u.node) /\ u.node[i].sid = s
  BY <1>3, <1>4
<1> QED BY <1>5

\* A HEADERS frame puts its stream in the list.
LEMMA AskedGrows ==
  ASSUME HttpInv, AskedInList, NEW sid \in Streams, NEW dep \in {0} \cup Streams,
         NEW u, u = NodeOf(list, sid, dep)[1], NEW p, p = NodeOf(list, sid, dep)[2],
         list' = [u EXCEPT !.node[p].sid = sid], asked' = asked \cup {sid}
  PROVE  AskedInList'
<1>1. ListInv(list) /\ asked \subseteq Streams /\ 0 \notin Streams
  BY HttpAssumption DEF HttpInv, ScalarsOK
<1>2. /\ ListInv(u) /\ p \in 1..Len(u.node) /\ u.node[p].sid \in {0, sid}
  BY <1>1, NodeOfInv
<1>3. \A s \in asked : \E i \in 1..Len(u.node) : u.node[i].sid = s
  BY AskedKept
<1>4. PICK v : v = [u EXCEPT !.node[p].sid = sid]
  OBVIOUS
<1>5. ASSUME NEW s \in asked \cup {sid} PROVE \E i \in 1..Len(v.node) : v.node[i].sid = s
  <2>1. /\ Len(v.node) = Len(u.node) /\ v.node[p].sid = sid
        /\ \A i \in 1..Len(u.node) : i # p => v.node[i].sid = u.node[i].sid
    BY <1>2, <1>4, SidInv
  <2>2. CASE s = sid
    BY <1>2, <2>1, <2>2
  <2>3. CASE s # sid
    <3>1. s \in asked /\ s # 0
      BY <1>1, <2>3
    <3>2. PICK i \in 1..Len(u.node) : u.node[i].sid = s
      BY <1>3, <3>1
    <3>3. i # p
      BY <1>2, <2>3, <3>1, <3>2
    <3> QED BY <2>1, <3>2, <3>3
  <2> QED BY <2>2, <2>3
<1> QED BY <1>4, <1>5 DEF AskedInList

\* Serving a node adds it to those that are answered, and the next one is new:
\* else these would be closed under next and the whole list, whose last has none.
LEMMA OneMoreAnswer ==
  ASSUME HttpInv, ProcessRequest, Fits'
  PROVE  \E D : AnsweredIn(D)'
<1> DEFINE h == header_request
<1> DEFINE n == Len(list.node)
<1>1. /\ pc = "serve" /\ list' = list /\ h # 0 /\ h \in 0..n /\ n \in Nat
      /\ header_request' = list.node[h].next
  BY ShapeNode DEF HttpInv, ListInv, Phases, ProcessRequest, readVars, Null
<1>3. ListInv(list)
  BY DEF HttpInv
<1>4. h \in 1..n /\ list.node[h].sid \in {0} \cup Streams
  <2>1. h \in 1..n
    BY <1>1
  <2> QED BY <1>3, <2>1 DEF ListInv
<1>5. Fits /\ Good(out) /\ WrittenTo(out, out', list.node[h].sid)
  <2>1. PICK o \in DataBodies : WriteV2(list.node[h].sid, o)
    BY DEF ProcessRequest, DataBodies
  <2>2. Fits /\ WrittenTo(out, out', list.node[h].sid)
    BY <1>4, <2>1, WriteV2Effects
  <2> QED BY <2>2 DEF HttpInv, BufferInv, Good
<1>2. PICK D : AnsweredIn(D)
  BY <1>1, <1>5 DEF HttpInv, AnswersInv
<1>0. PICK E : E = D \cup {h}
  OBVIOUS
<1>6. /\ D \subseteq 1..n /\ h \notin D
      /\ list.first \in D \/ (D = {} /\ h = list.first)
      /\ \A i \in D : list.node[i].next \in D \cup {h}
      /\ \A i \in D : \E k \in Answers(out) : out[k].sid = list.node[i].sid
      /\ Cardinality(Answers(out)) = Cardinality(D)
  BY <1>2 DEF AnsweredIn
<1>7. list.node[h].next \notin E
  <2> SUFFICES ASSUME list.node[h].next \in E PROVE FALSE
    OBVIOUS
  <2>1. /\ E \subseteq 1..n /\ list.first \in E
        /\ \A i \in E : list.node[i].next \in E \cup {0}
    BY <1>0, <1>4, <1>6
  <2>2. E = 1..n
    <3> QED BY <1>3, <2>1 DEF ListInv, Closed
  <2>3. list.last \in 1..n /\ list.node[list.last].next = 0
    <3>1. n # 0
      BY <1>1, <1>4
    <3>2. list.last # 0 /\ list.node[list.last].next = 0 /\ list.last \in 0..n
      BY <1>3, <3>1 DEF ListInv
    <3> QED BY <1>1, <3>2
  <2>4. \A i \in E : list.node[i].next \in E
    BY <1>0, <1>6
  <2>5. 0 \notin 1..n
    BY <1>1
  <2> QED BY <2>2, <2>3, <2>4, <2>5
<1>8. /\ Answers(out') = Answers(out) \cup {Len(out) + 1}
      /\ out'[Len(out) + 1].sid = list.node[h].sid
      /\ \A i \in 1..Len(out) : out'[i] = out[i]
  BY <1>5 DEF WrittenTo
<1>9. Cardinality(Answers(out')) = Cardinality(E)
  <2>1. IsFiniteSet(Answers(out)) /\ Len(out) + 1 \notin Answers(out)
    BY <1>5, AnswersFinite
  <2>2. Cardinality(Answers(out')) = Cardinality(Answers(out)) + 1
    BY <1>8, <2>1, FS_AddElement
  <2>3. IsFiniteSet(D)
    <3>1. IsFiniteSet(1..n)
      BY <1>1, FS_Interval
    <3> QED BY <1>6, <3>1, FS_Subset
  <2>4. Cardinality(E) = Cardinality(D) + 1
    BY <1>0, <1>6, <2>3, FS_AddElement
  <2> QED BY <1>6, <2>2, <2>4
<1>10. ASSUME NEW i \in E PROVE \E k \in Answers(out') : out'[k].sid = list.node[i].sid
  <2>1. CASE i \in D
    <3>1. PICK k \in Answers(out) : out[k].sid = list.node[i].sid
      BY <1>6, <2>1
    <3>2. k \in 1..Len(out)
      BY <3>1 DEF Answers
    <3> QED BY <1>8, <3>1, <3>2
  <2>2. CASE i = h
    BY <1>8, <2>2
  <2> QED BY <1>0, <2>1, <2>2
<1>11. /\ E \subseteq 1..n /\ list.first \in E
       /\ \A i \in E : list.node[i].next \in E \cup {list.node[h].next}
  BY <1>0, <1>4, <1>6
<1>12. AnsweredIn(E)'
  BY <1>1, <1>7, <1>9, <1>10, <1>11 DEF AnsweredIn
<1> QED BY <1>12

\* When there is no next node, the answered nodes are closed under next and hold
\* the first, so they are the whole list.
LEMMA AllAnswered ==
  ASSUME HttpInv, Served
  PROVE  EveryStreamAnswered'
<1> DEFINE n == Len(list.node)
<1>1. /\ pc = "serve" /\ header_request = 0
      /\ UNCHANGED <<list, asked, goaway, out, used, up, upgrading, first_frame>>
  BY DEF Served, Null, readVars, v1vars, v2vars, faults, buffer
<1> SUFFICES ASSUME Fits PROVE EveryStreamAnswered'
  BY <1>1 DEF EveryStreamAnswered, Fits
<1>2. PICK D : AnsweredIn(D)
  BY <1>1 DEF HttpInv, AnswersInv
<1>3. D = 1..n
  <2>1. /\ D \subseteq 1..n
        /\ list.first \in D \/ (D = {} /\ header_request = list.first)
        /\ \A i \in D : list.node[i].next \in D \cup {0}
    BY <1>1, <1>2 DEF AnsweredIn
  <2>2. CASE list.first \in D
    BY <2>1, <2>2 DEF HttpInv, ListInv, Closed
  <2>3. CASE D = {} /\ list.first = 0
    <3>1. n = 0
      BY <2>3 DEF HttpInv, ListInv
    <3> QED BY <2>3, <3>1
  <2> QED BY <1>1, <2>1, <2>2, <2>3
<1>4. Cardinality(Answers(out)) = n
  <2>1. n \in Nat
    BY ShapeNode DEF HttpInv, ListInv
  <2>2. Cardinality(1..n) = n
    BY <2>1, FS_Interval
  <2> QED BY <1>2, <1>3, <2>2 DEF AnsweredIn
<1>5. asked \subseteq {out[i].sid : i \in Answers(out)}
  <2> SUFFICES ASSUME NEW s \in asked PROVE \E k \in Answers(out) : out[k].sid = s
    OBVIOUS
  <2>1. PICK i \in 1..n : list.node[i].sid = s
    BY <1>1 DEF HttpInv, AnswersInv, AskedInList
  <2> QED BY <1>2, <1>3, <2>1 DEF AnsweredIn
<1> QED BY <1>1, <1>4, <1>5 DEF EveryStreamAnswered, Answers

\* The request of an upgrade is answered on stream 1.
LEMMA UpgradeAnswered ==
  ASSUME HttpInv, V1Upgrade
  PROVE  EveryStreamAnswered'
<1> SUFFICES ASSUME up', Fits' PROVE EveryStreamAnswered'
  BY DEF EveryStreamAnswered
<1>1. /\ first_frame' = first_frame /\ upgrading' = TRUE /\ asked' = {1} /\ pc = "idle"
      /\ \E o \in DataBodies :
           Answer(UpgradeFrames, UpgradeSize, Room(BufferSize, UpgradeSize), 1, o)
  BY DEF V1Upgrade, Read, DataBodies
<1>2. first_frame = TRUE
  BY DEF HttpInv, Phases, ScalarsOK, V1Upgrade, Read
<1>3. WrittenTo(UpgradeFrames, out', 1)
  <2>1. 1 \in {0} \cup Streams
    BY HttpAssumption
  <2> QED BY <1>1, <2>1, UpgradeEffects
<1>4. /\ Len(UpgradeFrames) + 1 \in Answers(out')
      /\ out'[Len(UpgradeFrames) + 1].sid = 1
  BY <1>3 DEF WrittenTo
<1> QED BY <1>1, <1>2, <1>4 DEF EveryStreamAnswered, Answers

\* Every step keeps what is known of the answers.
LEMMA AnswersStep ==
  ASSUME HttpInv, [HttpNext]_httpVars
  PROVE  AnswersInv'
<1>a. ASSUME V2Preface \/ CutSettings PROVE AnswersInv'
  <2>1. pc' = "parse" /\ asked' = {} /\ out' \in PrefaceHeads
    BY <1>a, PrefaceEffects DEF HttpInv, Phases
  <2>2. AskedInList'
    BY <2>1 DEF AskedInList
  <2>3. Answers(out') = {}
    BY <2>1, PrefaceOpens DEF OpensRead
  <2> QED BY <2>1, <2>2, <2>3, NotServing
<1>1. CASE V1Refuse
  <2>1. pc' = "idle"
    BY <1>1 DEF V1Refuse, Read, V1Leaves
  <2> QED BY <2>1, NotServing
<1>2. CASE V1Serve
  <2>1. pc' = "idle"
    BY <1>2 DEF V1Serve, Read, V1Leaves
  <2> QED BY <2>1, NotServing
<1>3. CASE V1Throws
  <2>1. pc' = "idle"
    BY <1>3 DEF V1Throws, Read, V1Leaves
  <2> QED BY <2>1, NotServing
<1>4. CASE V1Preface
  <2>1. pc' = "preface" /\ out' = <<>>
    BY <1>4 DEF V1Preface
  <2> QED BY <2>1, GoodEmpty, NotServing
<1>5. CASE V1Upgrade
  <2>1. pc' = "final"
    BY <1>5 DEF V1Upgrade
  <2> QED BY <1>5, <2>1, UpgradeAnswered DEF AnswersInv
<1>6. CASE V1UpgradeThrows
  <2>1. CASE V1Leaves
    <3>1. pc' = "idle"
      BY <1>6, <2>1 DEF V1UpgradeThrows, Read, V1Leaves
    <3> QED BY <3>1, NotServing
  <2>2. CASE ~V1Leaves
    <3>1. pc' = "final" /\ goaway' = TRUE
      BY <1>6, <2>2 DEF V1UpgradeThrows
    <3> QED BY <3>1, GivesUp
  <2> QED BY <2>1, <2>2
<1>7. CASE V2Read
  <2>1. pc' \in {"preface", "parse"} /\ out' = <<>> /\ asked' = {}
    BY <1>7 DEF V2Read
  <2>2. AskedInList'
    BY <2>1 DEF AskedInList
  <2> QED BY <2>1, <2>2, GoodEmpty, NotServing
<1>8. CASE V2Preface
  BY <1>8, <1>a
<1>9. CASE CutSettings
  BY <1>9, <1>a
<1>10. CASE IgnoredFrame
  <2>1. pc = "parse" /\ pc' = "parse" /\ UNCHANGED <<list, asked, out>>
    BY <1>10 DEF IgnoredFrame, Parsing, buffer
  <2> QED BY <2>1, NotServing DEF HttpInv, AnswersInv, AskedInList
<1>11. CASE PingFrame
  <2>1. /\ pc = "parse" /\ pc' = "parse" /\ UNCHANGED <<list, asked>>
        /\ Put(Append(out, Frame("PING", 0)), ControlSize["PING"]) /\ ControlSize["PING"] \in Nat
    BY <1>11, Sizes DEF PingFrame, Parsing
  <2>2. AppendedTo(out, out', "PING")
    BY <2>1, PutStep
  <2>3. Answers(out') = Answers(out)
    BY <2>2 DEF AppendedTo
  <2> QED BY <2>1, <2>3, NotServing DEF HttpInv, AnswersInv, AskedInList
<1>12. CASE HeadersFrame
  <2>1. PICK sid \in Streams, dep \in {0} \cup Streams :
          /\ pc = "parse" /\ pc' = "block" /\ out' = out /\ asked' = asked \cup {sid}
          /\ list' = [NodeOf(list, sid, dep)[1] EXCEPT !.node[NodeOf(list, sid, dep)[2]].sid = sid]
    BY <1>12 DEF HeadersFrame, Parsing, buffer
  <2> DEFINE u == NodeOf(list, sid, dep)[1]
  <2> DEFINE p == NodeOf(list, sid, dep)[2]
  <2>2. AskedInList /\ Answers(out) = {}
    BY <2>1 DEF HttpInv, AnswersInv
  <2>3. /\ u = NodeOf(list, sid, dep)[1] /\ p = NodeOf(list, sid, dep)[2]
        /\ list' = [u EXCEPT !.node[p].sid = sid]
    BY <2>1
  <2> HIDE DEF u, p
  <2>4. AskedInList'
    BY <2>1, <2>2, <2>3, AskedGrows
  <2> QED BY <2>1, <2>2, <2>4, NotServing
<1>13. CASE RstFrame
  <2>1. PICK sid \in Streams : list' = NodeOf(list, sid, 0)[1]
    BY <1>13 DEF RstFrame
  <2>2. pc = "parse" /\ pc' = "parse" /\ UNCHANGED <<asked, out>>
    BY <1>13 DEF RstFrame, Parsing, buffer
  <2>3. AskedInList /\ Answers(out) = {}
    BY <2>2 DEF HttpInv, AnswersInv
  <2> DEFINE u == NodeOf(list, sid, 0)[1]
  <2>4. \A s \in asked : \E i \in 1..Len(u.node) : u.node[i].sid = s
    BY <2>3, AskedKept
  <2>5. list' = u
    BY <2>1
  <2> HIDE DEF u
  <2>6. AskedInList'
    BY <2>2, <2>4, <2>5 DEF AskedInList
  <2> QED BY <2>2, <2>3, <2>6, NotServing
<1>14. CASE RefusedFrame
  <2>1. pc' = "final" /\ goaway' = TRUE
    BY <1>14 DEF RefusedFrame
  <2> QED BY <2>1, GivesUp
<1>15. CASE CutFrame
  <2>1. pc = "parse" /\ pc' = "parse" /\ UNCHANGED <<list, asked, out>>
    BY <1>15 DEF CutFrame, buffer
  <2> QED BY <2>1, NotServing DEF HttpInv, AnswersInv, AskedInList
<1>16. CASE ParseEnds
  <2>1. /\ pc = "parse" /\ pc' = "serve" /\ header_request' = list.first
        /\ UNCHANGED <<list, asked, out>>
    BY <1>16 DEF ParseEnds, readVars, buffer
  <2>2. AskedInList /\ Answers(out) = {}
    BY <2>1 DEF HttpInv, AnswersInv
  <2>3. AnsweredIn({})'
    BY <2>1, <2>2 DEF AnsweredIn
  <2>4. AskedInList'
    BY <2>1, <2>2 DEF AskedInList
  <2> QED BY <2>1, <2>3, <2>4 DEF AnswersInv, EveryStreamAnswered
<1>17. CASE ProcessRequest
  <2>1. pc = "serve" /\ pc' = "serve" /\ UNCHANGED <<list, asked>>
    BY <1>17 DEF ProcessRequest, readVars
  <2>2. AskedInList'
    BY <2>1 DEF HttpInv, AnswersInv, AskedInList
  <2>3. Fits' => \E D : AnsweredIn(D)'
    BY <1>17, OneMoreAnswer
  <2> QED BY <2>1, <2>2, <2>3 DEF AnswersInv, EveryStreamAnswered
<1>18. CASE HandlerThrows
  <2>1. pc' = "final" /\ goaway' = TRUE
    BY <1>18 DEF HandlerThrows
  <2> QED BY <2>1, GivesUp
<1>19. CASE Served
  <2>1. pc' = "final"
    BY <1>19 DEF Served
  <2> QED BY <1>19, <2>1, AllAnswered DEF AnswersInv
<1>20. CASE Final
  <2>1. pc' = "idle"
    BY <1>20 DEF Final
  <2> QED BY <2>1, NotServing
<1>21. CASE Fault
  <2>1. pc \in {"parse", "astray"} /\ UNCHANGED <<pc, list, asked, out>>
    BY <1>21 DEF Fault, readVars, buffer
  <2> QED BY <2>1, NotServing DEF HttpInv, AnswersInv, AskedInList
<1>22. CASE Representation
  <2>1. \/ pc' = "final" /\ goaway' = TRUE
        \/ pc \in {"block", "astray"} /\ UNCHANGED <<pc, list, asked, out>>
    BY <1>22 DEF Representation, InBlock, buffer
  <2>2. CASE pc \in {"block", "astray"} /\ UNCHANGED <<pc, list, asked, out>>
    BY <2>2, NotServing DEF HttpInv, AnswersInv, AskedInList
  <2> QED BY <2>1, <2>2, GivesUp
<1>23. CASE BlockEnds
  <2>1. pc = "block" /\ pc' = "parse" /\ UNCHANGED <<list, asked, out>>
    BY <1>23 DEF BlockEnds, InBlock, readVars, buffer
  <2> QED BY <2>1, NotServing DEF HttpInv, AnswersInv, AskedInList
<1>24. CASE BlockRunsPast
  <2>1. pc = "block" /\ pc' = "astray" /\ UNCHANGED <<list, asked, out>>
    BY <1>24 DEF BlockRunsPast, InBlock, readVars, buffer
  <2> QED BY <2>1, NotServing DEF HttpInv, AnswersInv, AskedInList
<1>25. CASE UNCHANGED httpVars
  BY <1>25 DEF HttpInv, AnswersInv, AskedInList, AnsweredIn, EveryStreamAnswered, Fits, httpVars,
     v1vars, v2vars, readVars, faults, buffer
<1> QED BY <1>1, <1>2, <1>3, <1>4, <1>5, <1>6, <1>7, <1>8, <1>9, <1>10, <1>11, <1>12, <1>13, <1>14,
          <1>15, <1>16, <1>17, <1>18, <1>19, <1>20, <1>21, <1>22, <1>23, <1>24, <1>25
       DEF HttpNext

-----------------------------------------------------------------------------

\* A connection starts in the invariant.
LEMMA HttpInitInv == ASSUME HttpInit PROVE HttpInv
<1>1. ScalarsOK
  BY HttpAssumption DEF HttpInit, ScalarsOK
<1>2. TableInv(dynamic_table)
  <2>1. InitialMax \in Nat
    BY HttpAssumption
  <2> QED BY <2>1, NewTableInv DEF HttpInit
<1>3. ListInv(list)
  BY EmptyListInv DEF HttpInit
<1>4. Good(out) /\ Answers(out) = {} /\ ~HasSettings(out)
  BY GoodEmpty DEF HttpInit
<1>9. BufferInv
  BY <1>4, Sizes DEF HttpInit, BufferInv, Good
<1>5. Phases
  BY DEF HttpInit, Phases
<1>6. SettingsInv
  BY <1>4 DEF HttpInit, SettingsInv, SettingsOnceAndFirst, HasSettings
<1>7. AnswersInv
  BY <1>4 DEF HttpInit, AnswersInv, EveryStreamAnswered
<1>8. FaultInv
  BY DEF HttpInit, FaultInv, Null, Stale
<1> QED BY <1>1, <1>2, <1>3, <1>5, <1>6, <1>7, <1>8, <1>9 DEF HttpInv

\* The invariant holds in every reachable state, for every set of streams and
\* representations, every body and every limit.
THEOREM HttpInvariance == HttpSpec => []HttpInv
<1>1. HttpInv /\ [HttpNext]_httpVars => HttpInv'
  <2> SUFFICES ASSUME HttpInv, [HttpNext]_httpVars PROVE HttpInv'
    OBVIOUS
  <2> QED BY BufferInvStep, ScalarsStep, TableStep, ListStep, PhasesStep, SettingsStep, AnswersStep, FaultStep
          DEF HttpInv
<1> QED BY <1>1, HttpInitInv, PTL DEF HttpSpec

\* The members keep their types; header_request, when it is no stale pointer, is
\* a node of the list (http2.cpp:102-153).
THEOREM HttpTypeCorrect == HttpSpec => []HttpTypeOK
<1>1. HttpInv => HttpTypeOK
  <2> SUFFICES ASSUME HttpInv PROVE HttpTypeOK
    OBVIOUS
  <2>1. dynamic_table.max_size \in Nat
    BY DEF HttpInv, TableInv, TableShape
  <2>2. /\ Len(list.node) \in Nat
        /\ list.first \in 0..Len(list.node) /\ list.last \in 0..Len(list.node)
        /\ \A i \in 1..Len(list.node) :
             list.node[i].sid \in {0} \cup Streams /\ list.node[i].next \in 0..Len(list.node)
    BY ShapeNode DEF HttpInv, ListInv
  <2>3. header_request \in {Null, Stale} \cup 1..Len(list.node)
    BY <2>2 DEF HttpInv, Phases, ScalarsOK, Null, Stale
  <2>4. \A i \in 1..Len(out) : out[i].type \in FrameTypes /\ out[i].sid \in {0} \cup Streams
    <3>1. \A i \in 1..Len(out) : out[i] \in FrameType
      BY ElementOfSeq DEF HttpInv, BufferInv
    <3> QED BY <3>1 DEF FrameType
  <2> QED BY <2>1, <2>2, <2>3, <2>4 DEF HttpInv, BufferInv, ScalarsOK, HttpTypeOK
<1> QED BY <1>1, HttpInvariance, PTL

\* The header table's maps agree with its lines, whatever the peer's header
\* blocks and the responses do to the one table (hpack.h:84-169).
THEOREM TableStaysSound == HttpSpec => []HeaderTableSound
<1>1. HttpInv => HeaderTableSound
  BY DEF HttpInv, TableInv, HeaderTableSound
<1> QED BY <1>1, HttpInvariance, PTL

\* The list of requests is one chain through all its nodes (http2.h:659-703).
THEOREM ListStaysSound == HttpSpec => []RequestListSound
<1>1. HttpInv => RequestListSound
  <2> SUFFICES ASSUME HttpInv PROVE RequestListSound
    OBVIOUS
  <2>1. Len(list.node) \in Nat
    BY ShapeNode DEF HttpInv, ListInv
  <2>2. CASE Len(list.node) = 0
    BY <2>2 DEF HttpInv, ListInv, RequestListSound, Null
  <2>3. CASE Len(list.node) # 0
    <3>1. /\ list.first \in 1..Len(list.node) /\ list.last \in 1..Len(list.node)
          /\ list.node[list.last].next = Null
      BY <2>1, <2>3 DEF HttpInv, ListInv, Null
    <3>2. 1..Len(list.node) # {}
      BY <2>1, <2>3
    <3>3. \A S \in SUBSET (1..Len(list.node)) :
            list.first \in S /\ (\A i \in S : list.node[i].next \in S \cup {Null})
              => S = 1..Len(list.node)
      BY DEF HttpInv, ListInv, Closed, Null
    <3>4. \A s \in DOMAIN list.header_map : list.header_map[s] \in 1..Len(list.node)
      BY DEF HttpInv, ListInv
    <3> QED BY ONLY <3>1, <3>2, <3>3, <3>4 DEF RequestListSound
  <2> QED BY <2>2, <2>3
<1> QED BY <1>1, HttpInvariance, PTL

\* A read that ends well and whose answers fit the response buffer has answered
\* every stream, and once per node (http2.cpp:140-147).
THEOREM StreamsAreAnswered == HttpSpec => []EveryStreamAnswered
<1>1. HttpInv => EveryStreamAnswered
  BY DEF HttpInv, AnswersInv
<1> QED BY <1>1, HttpInvariance, PTL

\* SETTINGS is sent once, in front of the other frames (http2.cpp:72-100).
THEOREM SettingsAreSentOnce == HttpSpec => []SettingsOnceAndFirst
<1>1. HttpInv => SettingsOnceAndFirst
  BY DEF HttpInv, SettingsInv
<1> QED BY <1>1, HttpInvariance, PTL

\* A body is cut into frames that add up to it, whatever its size, as long as the
\* answers of the read fit the response buffer (lib/http2.cpp:38-68).
THEOREM BodiesAreFramed == HttpSpec => []BodyFramed
<1>1. HttpInv => BodyFramed
  BY DEF HttpInv, BufferInv, Framed, FramedAt, BodyFramed, DataBodies
<1> QED BY <1>1, HttpInvariance, PTL

\* Unless an exception was thrown, no pointer into a freed request is kept from
\* one read to the next, whatever is cut, refused or read from the memory behind
\* (http1.cpp:98-118, http2.cpp:91-153).
THEOREM StalePointersNeedException == HttpSpec => []NoStalePointerBeforeException
<1>1. HttpInv => NoStalePointerBeforeException
  BY DEF HttpInv, FaultInv, NoStalePointerBeforeException
<1> QED BY <1>1, HttpInvariance, PTL

-----------------------------------------------------------------------------
(***************************************************************************)
(* The messages of HTTP/1.                                                 *)
(***************************************************************************)

\* The names of the field lines that are written, and the tokens of a stream.
Names == FieldNames \cup {Unknown, "Date", "Server", "Connection", "Content-Type", "Content-Length"}
Tokens ==
  Delimiters \cup Names \cup METHODS \cup CODES
    \cup {"/p", "HTTP/1.1", "Not", "Found", "OK", "now", "close", "mms", "n", "html",
          "application/json", "text/html"}
    \cup UNION {Range(v) : v \in Values \cup Bodies}

\* A value of a field line.
Vals == {v \in Seq(Tokens) :
           /\ \A i \in 1..Len(v) : v[i] \notin {CR, LF}
           /\ Len(v) > 0 => v[1] # SP /\ v[Len(v)] # SP}
Lines == Names \X Vals

\* The delimiters are four tokens, none of them a name.
LEMMA NamesAreWords ==
  /\ CR # LF /\ CR # SP /\ LF # SP /\ Colon # SP /\ Colon # CR /\ Colon # LF
  /\ \A f \in Names : f \notin Delimiters /\ f \in Tokens
  /\ Delimiters = {SP, Colon, CR, LF} /\ Delimiters \subseteq Tokens
<1>1. \A f \in {"Date", "Server", "Connection", "Content-Type", "Content-Length"} : f \notin Delimiters
  BY DEF Delimiters, SP, Colon, CR, LF
<1>2. \A f \in FieldNames \cup {Unknown} : f \notin Delimiters
  BY MessageAssumption
<1>3. CR # LF /\ CR # SP /\ LF # SP /\ Colon # SP /\ Colon # CR /\ Colon # LF
  BY DEF SP, Colon, CR, LF
<1> QED BY <1>1, <1>2, <1>3 DEF Names, Tokens, Delimiters

\* The least and the greatest of a set of integers.
LEMMA MinIs ==
  ASSUME NEW W, W \subseteq Int, NEW j \in W, \A k \in W : j <= k
  PROVE  Min(W) = j
<1>1. \A x \in W : (\A k \in W : x <= k) => x = j
  OBVIOUS
<1> QED BY <1>1 DEF Min

\* See MinIs.
LEMMA MaxIs ==
  ASSUME NEW W, W \subseteq Int, NEW j \in W, \A k \in W : j >= k
  PROVE  Max(W) = j
<1>1. \A x \in W : (\A k \in W : x >= k) => x = j
  OBVIOUS
<1> QED BY <1>1 DEF Max

\* Till stops at the first token it looks for.
LEMMA TillIs ==
  ASSUME NEW s, Len(s) \in Nat, NEW stop, NEW i \in Nat, NEW j \in Nat, i <= j, j <= Len(s),
         \A k \in i..(j - 1) : s[k] \notin stop, s[j] \in stop
  PROVE  Till(s, i, stop) = j
<1> DEFINE W == {k \in i..Len(s) : s[k] \in stop} \cup {Len(s) + 1}
<1>1. W \subseteq Int /\ j \in W
  OBVIOUS
<1>2. ASSUME NEW k \in W PROVE j <= k
  <2>1. k \in i..(j - 1) => s[k] \notin stop
    OBVIOUS
  <2> QED BY <2>1
<1>3. Min(W) = j
  <2> HIDE DEF W
  <2> QED BY <1>1, <1>2, MinIs
<1> QED BY <1>3, Zenon DEF Till

\* SkipSpaces stops at the first token that is not a space.
LEMMA SkipIs ==
  ASSUME NEW s, Len(s) \in Nat, NEW i \in Nat, NEW j \in Nat, i <= j, j <= Len(s),
         \A k \in i..(j - 1) : s[k] = SP, s[j] # SP
  PROVE  SkipSpaces(s, i) = j
<1> DEFINE W == {k \in i..Len(s) : s[k] # SP} \cup {Len(s) + 1}
<1>1. W \subseteq Int /\ j \in W
  OBVIOUS
<1>2. ASSUME NEW k \in W PROVE j <= k
  <2>1. k \in i..(j - 1) => s[k] = SP
    OBVIOUS
  <2> QED BY <2>1
<1>3. Min(W) = j
  <2> HIDE DEF W
  <2> QED BY <1>1, <1>2, MinIs
<1> QED BY <1>3, Zenon DEF SkipSpaces

\* A part of a sequence that stands behind its first p tokens.
LEMMA PartIs ==
  ASSUME NEW T, NEW s \in Seq(T), NEW v \in Seq(T), NEW p \in Nat, p + Len(v) <= Len(s),
         \A i \in 1..Len(v) : s[p + i] = v[i]
  PROVE  SubSeq(s, p + 1, p + Len(v)) = v
<1>1. PICK n \in Nat : n = Len(v)
  OBVIOUS
<1>2. PICK a \in Nat, b \in Int : a = p + 1 /\ b = p + n
  OBVIOUS
<1>3. SubSeq(s, a, b) = [i \in 1..(b - a + 1) |-> s[i + a - 1]]
  OBVIOUS
<1>4. b - a + 1 = n /\ \A i \in 1..n : i + a - 1 = p + i
  BY <1>2
<1>5. SubSeq(s, a, b) = [i \in 1..n |-> v[i]]
  BY <1>1, <1>3, <1>4
<1>6. v = [i \in 1..n |-> v[i]]
  BY <1>1
<1> QED BY <1>1, <1>2, <1>5, <1>6

\* The parts of one and of two tokens.
LEMMA ShortPart ==
  ASSUME NEW T, NEW s \in Seq(T), NEW p \in 1..Len(s)
  PROVE  /\ SubSeq(s, p, p) = <<s[p]>>
         /\ p + 1 <= Len(s) => SubSeq(s, p, p + 1) = <<s[p], s[p + 1]>>
<1>0. s \in Seq(T) /\ p \in 1..Len(s)
  OBVIOUS
<1>1. PICK t : t = SubSeq(s, p, p)
  OBVIOUS
<1>2. t \in Seq(T) /\ Len(t) = 1 /\ t[1] = s[p]
  <2>1. p \in Int /\ p <= p /\ p - p + 1 = 1 /\ 1 \in 1..1 /\ p + 1 - 1 = p
    BY <1>0
  <2>2. \A i \in p..p : s[i] \in T
    BY <1>0, ElementOfSeq
  <2>3. /\ t \in Seq(T) /\ Len(t) = p - p + 1
        /\ \A i \in 1..(p - p + 1) : t[i] = s[p + i - 1]
    BY ONLY <1>1, <2>1, <2>2, SubSeqProperties
  <2>4. t[1] = s[p + 1 - 1]
    BY ONLY <2>1, <2>3
  <2> QED BY <2>1, <2>3, <2>4
<1>3. ASSUME p + 1 <= Len(s) PROVE SubSeq(s, p, p + 1) = <<s[p], s[p + 1]>>
  <2>1. PICK u : u = SubSeq(s, p, p + 1)
    OBVIOUS
  <2>2. u \in Seq(T) /\ Len(u) = 2 /\ u[1] = s[p] /\ u[2] = s[p + 1]
    BY ONLY <1>0, <1>3, <2>1
  <2>3. u = <<u[1], u[2]>>
    BY <2>2
  <2> QED BY <2>1, <2>2, <2>3
<1>4. t = <<t[1]>>
  BY <1>2
<1> QED BY <1>1, <1>2, <1>3, <1>4

\* A name and the colon behind it.
LEMMA NameParsed ==
  ASSUME NEW s \in Seq(Tokens), NEW p \in Nat \ {0}, p + 1 <= Len(s), s[p] \in Names, s[p + 1] = Colon
  PROVE  parse_till_colon(s, p) = [text |-> <<s[p]>>, next |-> p + 2]
<1>1. s[p] # SP /\ s[p] # Colon /\ s[p + 1] \in {Colon} /\ s[p + 1] \in {Colon, SP} /\ s[p] \notin {Colon, SP}
  BY NamesAreWords
<1>2. Len(s) \in Nat
  OBVIOUS
<1>3. SkipSpaces(s, p) = p
  BY <1>1, <1>2, SkipIs
<1>4. PICK q \in Nat : q = p + 1
  OBVIOUS
<1>5. Till(s, p, {Colon, SP}) = q
  <2>1. \A k \in p..(q - 1) : k = p
    BY <1>4
  <2>2. s[q] \in {Colon, SP}
    BY <1>1, <1>4
  <2>3. p <= q /\ q <= Len(s)
    BY <1>4
  <2> QED BY <1>1, <1>2, <2>1, <2>2, <2>3, TillIs
<1>6. Till(s, q, {Colon}) = q
  <2>1. \A k \in q..(q - 1) : FALSE
    BY <1>4
  <2>2. s[q] \in {Colon}
    BY <1>1, <1>4
  <2>3. q <= q /\ q <= Len(s)
    BY <1>4
  <2> QED BY <1>2, <2>1, <2>2, <2>3, TillIs
<1>7. Remaining(s, q)
  BY <1>4 DEF Remaining
<1>8. SubSeq(s, p, q - 1) = <<s[p]>>
  <2>1. q - 1 = p
    BY <1>4
  <2> QED BY <2>1, ShortPart
<1>9. q # p /\ q + 1 = p + 2
  BY <1>4
<1>10. parse_till_colon(s, p) = Text(s, p, q - 1, q + 1)
  BY <1>3, <1>5, <1>6, <1>7, <1>9, Zenon DEF parse_till_colon
<1> QED BY <1>8, <1>9, <1>10 DEF Text

\* A value between the space in front of it and the end of its line.
LEMMA ValueParsed ==
  ASSUME NEW s \in Seq(Tokens), NEW p \in Nat \ {0}, NEW v \in Vals, p + Len(v) + 2 <= Len(s),
         s[p] = SP, \A i \in 1..Len(v) : s[p + i] = v[i],
         s[p + Len(v) + 1] = CR, s[p + Len(v) + 2] = LF
  PROVE  parse_till_CRLF(s, p) = [text |-> v, next |-> p + Len(v) + 3]
<1>1. PICK n \in Nat : n = Len(v)
  BY DEF Vals
<1>2. PICK a \in Nat, j \in Nat : a = p + 1 /\ j = a + n
  <2>1. p + 1 \in Nat /\ (p + 1) + n \in Nat
    OBVIOUS
  <2> QED BY <2>1, Zenon
<1>3. v \in Seq(Tokens) /\ \A i \in 1..n : v[i] \notin {CR, LF}
  BY <1>1, Zenon DEF Vals
<1>4. n > 0 => v[1] # SP /\ v[n] # SP
  BY <1>1 DEF Vals
<1>5. Len(s) \in Nat /\ j + 1 <= Len(s) /\ a <= j
  BY <1>1, <1>2
<1>6. s[j] = CR /\ s[j + 1] = LF /\ s[p] = SP
  BY <1>1, <1>2
<1>7. ASSUME NEW k \in a..(j - 1) PROVE k - p \in 1..n /\ s[k] = v[k - p]
  <2>1. PICK i \in 1..n : k = p + i
    BY <1>2
  <2> QED BY <1>1, <2>1
<1>8. SkipSpaces(s, p) = a
  <2>1. s[a] # SP
    <3>1. CASE n = 0
      BY <1>2, <1>6, <3>1, NamesAreWords
    <3>2. CASE n > 0
      <4>1. a \in a..(j - 1) /\ a - p = 1
        BY <1>2, <3>2
      <4> QED BY <1>4, <1>7, <3>2, <4>1
    <3> QED BY <3>1, <3>2
  <2>2. \A k \in p..(a - 1) : k = p
    BY <1>2
  <2>3. p <= a /\ a <= Len(s)
    BY <1>2, <1>5
  <2> QED BY <1>5, <1>6, <2>1, <2>2, <2>3, SkipIs
<1>9. Till(s, a, {CR, LF}) = j
  <2>1. \A k \in a..(j - 1) : s[k] \notin {CR, LF}
    BY <1>3, <1>7
  <2>2. s[j] \in {CR, LF}
    BY <1>6
  <2>3. j <= Len(s)
    BY <1>5
  <2> QED BY <1>5, <2>1, <2>2, <2>3, TillIs
<1>10. Max({k \in a..(j - 1) : s[k] # SP} \cup {a - 1}) = j - 1
  <2> DEFINE W == {k \in a..(j - 1) : s[k] # SP} \cup {a - 1}
  <2>1. j - 1 \in W
    <3>1. CASE n = 0
      BY <1>2, <3>1
    <3>2. CASE n > 0
      <4>1. j - 1 \in a..(j - 1) /\ (j - 1) - p = n
        <5>1. /\ p \in Nat /\ n \in Nat /\ n > 0
              /\ a = p + 1 /\ j = p + n + 1
          BY <1>2, <3>2
        <5> QED BY ONLY <5>1
      <4> QED BY <1>4, <1>7, <3>2, <4>1
    <3> QED BY <3>1, <3>2
  <2>2. W \subseteq Int /\ \A k \in W : j - 1 >= k
    BY <1>2
  <2>3. Max(W) = j - 1
    <3> HIDE DEF W
    <3> QED BY <2>1, <2>2, MaxIs
  <2> QED BY <2>3, Zenon
<1>11. LineEnd(s, j) = j + 2
  <2>1. Remaining(s, j) /\ Remaining(s, j + 1)
    BY <1>5 DEF Remaining
  <2> QED BY <1>6, <2>1, Zenon DEF LineEnd
<1>12. parse_till_CRLF(s, p) = Text(s, a, j - 1, j + 2)
  BY <1>8, <1>9, <1>10, <1>11, Zenon DEF parse_till_CRLF
<1>13. SubSeq(s, a, j - 1) = v
  <2>1. a = p + 1 /\ j - 1 = p + n /\ p + n <= Len(s)
    BY <1>2, <1>5
  <2>2. SubSeq(s, p + 1, p + n) = v
    BY <1>1, <1>3, <2>1, PartIs
  <2> QED BY <2>1, <2>2
<1>14. j + 2 = p + Len(v) + 3
  BY <1>1, <1>2
<1> QED BY <1>12, <1>13, <1>14 DEF Text

\* StandsAt a line: the next one, the end of the stream, or the blank line.
LEMMA BlankParsed ==
  ASSUME NEW s \in Seq(Tokens), NEW q \in Nat \ {0}
  PROVE  /\ q <= Len(s) /\ s[q] \in Names => parse_check_CRLF(s, q) = [text |-> <<>>, next |-> q]
         /\ q = Len(s) + 1 => parse_check_CRLF(s, q) = [text |-> <<>>, next |-> q]
         /\ q + 1 <= Len(s) /\ s[q] = CR /\ s[q + 1] = LF
              => parse_check_CRLF(s, q) = [text |-> <<CR, LF>>, next |-> q + 2]
<1>1. Len(s) \in Nat
  OBVIOUS
<1>2. SubSeq(s, q, q - 1) = <<>>
  OBVIOUS
<1>3. ASSUME q <= Len(s), s[q] \in Names PROVE LineEnd(s, q) = q
  <2>1. s[q] # CR /\ s[q] # LF
    BY <1>3, NamesAreWords
  <2> QED BY <2>1, Zenon DEF LineEnd
<1>4. ASSUME q = Len(s) + 1 PROVE LineEnd(s, q) = q
  <2>1. ~Remaining(s, q)
    BY <1>1, <1>4 DEF Remaining
  <2> QED BY <2>1, Zenon DEF LineEnd
<1>5. ASSUME q + 1 <= Len(s), s[q] = CR, s[q + 1] = LF
      PROVE  LineEnd(s, q) = q + 2 /\ SubSeq(s, q, q + 1) = <<CR, LF>>
  <2>1. Remaining(s, q) /\ Remaining(s, q + 1)
    BY <1>5 DEF Remaining
  <2>2. LineEnd(s, q) = q + 2
    BY <1>5, <2>1, Zenon DEF LineEnd
  <2>3. SubSeq(s, q, q + 1) = <<s[q], s[q + 1]>>
    BY <1>1, <1>5, ShortPart
  <2> QED BY <1>5, <2>2, <2>3
<1>6. ASSUME LineEnd(s, q) = q PROVE parse_check_CRLF(s, q) = [text |-> <<>>, next |-> q]
  BY <1>2, <1>6 DEF parse_check_CRLF, Text
<1>7. ASSUME LineEnd(s, q) = q + 2, SubSeq(s, q, q + 1) = <<CR, LF>>
      PROVE  parse_check_CRLF(s, q) = [text |-> <<CR, LF>>, next |-> q + 2]
  <2>1. (q + 2) - 1 = q + 1
    OBVIOUS
  <2> QED BY <1>7, <2>1 DEF parse_check_CRLF, Text
<1> QED BY <1>3, <1>4, <1>5, <1>6, <1>7

\* The line of name f and value v stands in s from p to q - 1.
Placed(s, f, v, p, q) ==
  /\ f \in Names /\ v \in Vals /\ Len(v) \in Nat
  /\ p \in Nat \ {0} /\ q \in Nat /\ q = p + Len(v) + 5 /\ q - 1 <= Len(s)
  /\ s[p] = f /\ s[p + 1] = Colon /\ s[p + 2] = SP /\ s[q - 2] = CR /\ s[q - 1] = LF
  /\ \A k \in 1..Len(v) : s[p + 2 + k] = v[k]

\* What the loop knows after the turn st that reads this line, in the three
\* cases of what follows the line.
TurnRead(s, st, f, v, q) ==
  /\ q <= Len(s) /\ s[q] \in Names => FieldTurn(s, st) =
       [fields |-> SetField(st.fields, <<f>>, v), next |-> q, done |-> FALSE]
  /\ q = Len(s) + 1 => FieldTurn(s, st) =
       [fields |-> SetField(st.fields, <<f>>, v), next |-> q, done |-> TRUE]
  /\ q + 1 <= Len(s) /\ s[q] = CR /\ s[q + 1] = LF => FieldTurn(s, st) =
       [fields |-> SetField(st.fields, <<f>>, v), next |-> q + 2, done |-> TRUE]

\* A turn of parse_fields at a field line: the field is set, and what stands
\* behind the line decides whether the loop goes on.
LEMMA TurnParses ==
  ASSUME NEW s \in Seq(Tokens), NEW st, NEW p, NEW f, NEW v, NEW q,
         st.next = p, st.done = FALSE, Placed(s, f, v, p, q)
  PROVE  TurnRead(s, st, f, v, q)
<1> p \in Nat \ {0} /\ q \in Nat /\ f \in Names /\ v \in Vals
  BY DEF Placed
<1> q = p + Len(v) + 5 /\ q - 1 <= Len(s)
  BY DEF Placed
<1> /\ s[p] = f /\ s[p + 1] = Colon /\ s[p + 2] = SP /\ s[q - 2] = CR /\ s[q - 1] = LF
    /\ \A i \in 1..Len(v) : s[p + 2 + i] = v[i]
  BY Zenon DEF Placed
<1>1. PICK n \in Nat : n = Len(v)
  BY DEF Vals
<1>2. PICK a \in Nat \ {0} : a = p + 2
  <2>1. p + 2 \in Nat \ {0}
    OBVIOUS
  <2> QED BY <2>1
<1>3. Len(s) \in Nat /\ q = a + n + 3 /\ p + 1 <= Len(s) /\ a + n + 2 <= Len(s)
  BY <1>1, <1>2
<1>4. parse_till_colon(s, p) = [text |-> <<f>>, next |-> a]
  BY <1>2, <1>3, NameParsed
<1>5. parse_till_CRLF(s, a) = [text |-> v, next |-> q]
  <2>1. s[a] = SP /\ \A i \in 1..n : s[a + i] = v[i]
    BY <1>1, <1>2
  <2>2. s[a + n + 1] = CR /\ s[a + n + 2] = LF
    <3>1. a + n + 1 = q - 2 /\ a + n + 2 = q - 1
      BY ONLY <1>3
    <3> QED BY <3>1, Zenon
  <2> QED BY <1>1, <1>3, <2>1, <2>2, ValueParsed
<1>6. PICK blank : blank = parse_check_CRLF(s, q)
  OBVIOUS
<1>7. a # Throws /\ q # Throws /\ q + 2 # Throws /\ q \in Nat \ {0}
  BY <1>3 DEF Throws
<1>8. ASSUME blank.next # Throws
      PROVE  FieldTurn(s, st) =
               [fields |-> SetField(st.fields, <<f>>, v), next |-> blank.next,
                done   |-> ~Remaining(s, blank.next) \/ blank.text # <<>>]
  <2>1. PICK name : name = parse_till_colon(s, p)
    OBVIOUS
  <2>2. PICK value : value = parse_till_CRLF(s, a)
    OBVIOUS
  <2>3. name.text = <<f>> /\ name.next = a /\ value.text = v /\ value.next = q
    BY <1>4, <1>5, <2>1, <2>2
  <2> QED BY <1>6, <1>7, <1>8, <2>1, <2>2, <2>3, Zenon DEF FieldTurn
<1>9. ASSUME q <= Len(s), s[q] \in Names
      PROVE  FieldTurn(s, st) = [fields |-> SetField(st.fields, <<f>>, v), next |-> q, done |-> FALSE]
  <2>1. blank.text = <<>> /\ blank.next = q
    BY <1>6, <1>7, <1>9, BlankParsed
  <2>2. Remaining(s, q)
    BY <1>9 DEF Remaining
  <2>3. (~Remaining(s, blank.next) \/ blank.text # <<>>) = FALSE
    BY <2>1, <2>2, Zenon
  <2> QED BY <1>7, <1>8, <2>1, <2>3, Zenon
<1>10. ASSUME q = Len(s) + 1
       PROVE  FieldTurn(s, st) = [fields |-> SetField(st.fields, <<f>>, v), next |-> q, done |-> TRUE]
  <2>1. blank.text = <<>> /\ blank.next = q
    BY <1>6, <1>7, <1>10, BlankParsed
  <2>2. ~Remaining(s, q)
    BY <1>3, <1>10 DEF Remaining
  <2>3. (~Remaining(s, blank.next) \/ blank.text # <<>>) = TRUE
    BY <2>1, <2>2, Zenon
  <2> QED BY <1>7, <1>8, <2>1, <2>3, Zenon
<1>11. ASSUME q + 1 <= Len(s), s[q] = CR, s[q + 1] = LF
       PROVE  FieldTurn(s, st) = [fields |-> SetField(st.fields, <<f>>, v), next |-> q + 2, done |-> TRUE]
  <2>1. blank = [text |-> <<CR, LF>>, next |-> q + 2]
    BY <1>6, <1>7, <1>11, BlankParsed
  <2>2. <<CR, LF>> # <<>>
    OBVIOUS
  <2>3. blank.next = q + 2 /\ blank.text # <<>>
    BY <2>1, <2>2
  <2>4. (~Remaining(s, blank.next) \/ blank.text # <<>>) = TRUE
    BY <2>3, Zenon
  <2> QED BY <1>7, <1>8, <2>3, <2>4, Zenon
<1> QED BY <1>9, <1>10, <1>11 DEF TurnRead

\* The field lines are those of the recursion.
LEMMA FieldLinesDef ==
  ASSUME NEW L, NEW fs \in Seq(L)
  PROVE  /\ FieldLines(fs)[0] = <<>>
         /\ \A i \in 1..Len(fs) : FieldLines(fs)[i] = FieldLines(fs)[i - 1] \o WriteFieldLine(fs[i][1], fs[i][2])
<1> DEFINE B(f, i) == IF i = 0 THEN <<>> ELSE f[i - 1] \o WriteFieldLine(fs[i][1], fs[i][2])
           F(f) == f = [i \in 0..Len(fs) |-> B(f, i)]
           S == {k \in Nat : \E f : \A i \in 0..Len(fs) : i < k => f[i] = B(f, i)}
<1>1. Len(fs) \in Nat
  OBVIOUS
<1>2. 0 \in S
  <2>1. \A i \in 0..Len(fs) : i < 0 => {}[i] = B({}, i)
    BY <1>1
  <2> HIDE DEF B
  <2> QED BY <2>1
<1>3. ASSUME NEW k \in Nat, k \in S PROVE k + 1 \in S
  <2>1. PICK f : \A i \in 0..Len(fs) : i < k => f[i] = B(f, i)
    BY <1>3
  <2>2. PICK b : b = B(f, k)
    OBVIOUS
  <2>3. PICK g : g = [i \in 0..Len(fs) |-> IF i = k THEN b ELSE f[i]]
    OBVIOUS
  <2>4. ASSUME NEW i \in 0..Len(fs), i < k + 1 PROVE g[i] = B(g, i)
    <3>1. i # 0 => g[i - 1] = f[i - 1]
      BY <1>1, <2>3, <2>4
    <3>2. B(g, i) = B(f, i)
      BY <3>1, Zenon
    <3> HIDE DEF B
    <3>3. CASE i = k
      BY <2>2, <2>3, <3>2, <3>3
    <3>4. CASE i # k
      BY <1>1, <2>1, <2>3, <2>4, <3>2, <3>4
    <3> QED BY <3>3, <3>4
  <2> HIDE DEF B
  <2> QED BY <2>4
<1>4. Len(fs) + 1 \in S
  <2>1. \A k \in Nat : k \in S => k + 1 \in S
    BY <1>3
  <2> HIDE DEF S
  <2> QED BY <1>1, <1>2, <2>1, Induction
<1>5. \E f : F(f)
  <2>1. PICK f : \A i \in 0..Len(fs) : i < Len(fs) + 1 => f[i] = B(f, i)
    BY <1>4
  <2>2. PICK g : g = [i \in 0..Len(fs) |-> f[i]]
    OBVIOUS
  <2>3. ASSUME NEW i \in 0..Len(fs) PROVE g[i] = B(g, i)
    <3>1. i # 0 => g[i - 1] = f[i - 1]
      BY <1>1, <2>2
    <3>2. B(g, i) = B(f, i)
      BY <3>1, Zenon
    <3> HIDE DEF B
    <3> QED BY <1>1, <2>1, <2>2, <3>2
  <2>4. F(g)
    <3> HIDE DEF B
    <3> QED BY <2>2, <2>3
  <2> HIDE DEF F
  <2> QED BY <2>4
<1>6. FieldLines(fs) = CHOOSE f : F(f)
  BY Zenon DEF FieldLines
<1>7. F(FieldLines(fs))
  <2> HIDE DEF F
  <2> QED BY <1>5, <1>6
<1>8. PICK f : f = FieldLines(fs)
  OBVIOUS
<1>9. f = [i \in 0..Len(fs) |-> B(f, i)]
  BY <1>7, <1>8, Zenon
<1>10. f[0] = <<>>
  BY <1>1, <1>9
<1>11. ASSUME NEW i \in 1..Len(fs) PROVE f[i] = f[i - 1] \o WriteFieldLine(fs[i][1], fs[i][2])
  BY <1>1, <1>9
<1> QED BY <1>8, <1>10, <1>11

\* The turns of the loop are those of the recursion.
LEMMA FieldTurnsDef ==
  ASSUME NEW T, NEW s \in Seq(T), NEW start
  PROVE  /\ FieldTurns(s, start)[0] = [fields |-> NoFields, next |-> start, done |-> FALSE]
         /\ \A i \in 1..Len(s) : FieldTurns(s, start)[i] = FieldTurn(s, FieldTurns(s, start)[i - 1])
<1> DEFINE B(f, i) == IF i = 0 THEN [fields |-> NoFields, next |-> start, done |-> FALSE] ELSE FieldTurn(s, f[i - 1])
           F(f) == f = [i \in 0..Len(s) |-> B(f, i)]
           S == {k \in Nat : \E f : \A i \in 0..Len(s) : i < k => f[i] = B(f, i)}
<1>1. Len(s) \in Nat
  OBVIOUS
<1>2. 0 \in S
  <2>1. \A i \in 0..Len(s) : i < 0 => {}[i] = B({}, i)
    BY <1>1
  <2> HIDE DEF B
  <2> QED BY <2>1
<1>3. ASSUME NEW k \in Nat, k \in S PROVE k + 1 \in S
  <2>1. PICK f : \A i \in 0..Len(s) : i < k => f[i] = B(f, i)
    BY <1>3
  <2>2. PICK b : b = B(f, k)
    OBVIOUS
  <2>3. PICK g : g = [i \in 0..Len(s) |-> IF i = k THEN b ELSE f[i]]
    OBVIOUS
  <2>4. ASSUME NEW i \in 0..Len(s), i < k + 1 PROVE g[i] = B(g, i)
    <3>1. i # 0 => g[i - 1] = f[i - 1]
      BY <1>1, <2>3, <2>4
    <3>2. B(g, i) = B(f, i)
      BY <3>1, Zenon
    <3> HIDE DEF B
    <3>3. CASE i = k
      BY <2>2, <2>3, <3>2, <3>3
    <3>4. CASE i # k
      BY <1>1, <2>1, <2>3, <2>4, <3>2, <3>4
    <3> QED BY <3>3, <3>4
  <2> HIDE DEF B
  <2> QED BY <2>4
<1>4. Len(s) + 1 \in S
  <2>1. \A k \in Nat : k \in S => k + 1 \in S
    BY <1>3
  <2> HIDE DEF S
  <2> QED BY <1>1, <1>2, <2>1, Induction
<1>5. \E f : F(f)
  <2>1. PICK f : \A i \in 0..Len(s) : i < Len(s) + 1 => f[i] = B(f, i)
    BY <1>4
  <2>2. PICK g : g = [i \in 0..Len(s) |-> f[i]]
    OBVIOUS
  <2>3. ASSUME NEW i \in 0..Len(s) PROVE g[i] = B(g, i)
    <3>1. i # 0 => g[i - 1] = f[i - 1]
      BY <1>1, <2>2
    <3>2. B(g, i) = B(f, i)
      BY <3>1, Zenon
    <3> HIDE DEF B
    <3> QED BY <1>1, <2>1, <2>2, <3>2
  <2>4. F(g)
    <3> HIDE DEF B
    <3> QED BY <2>2, <2>3
  <2> HIDE DEF F
  <2> QED BY <2>4
<1>6. FieldTurns(s, start) = CHOOSE f : F(f)
  BY Zenon DEF FieldTurns
<1>7. F(FieldTurns(s, start))
  <2> HIDE DEF F
  <2> QED BY <1>5, <1>6
<1>8. PICK f : f = FieldTurns(s, start)
  OBVIOUS
<1>9. f = [i \in 0..Len(s) |-> B(f, i)]
  BY <1>7, <1>8, Zenon
<1>10. f[0] = [fields |-> NoFields, next |-> start, done |-> FALSE]
  BY <1>1, <1>9
<1>11. ASSUME NEW i \in 1..Len(s) PROVE f[i] = FieldTurn(s, f[i - 1])
  <2>1. i \in 0..Len(s) /\ i # 0
    BY <1>1
  <2>2. B(f, i) = FieldTurn(s, f[i - 1])
    BY <2>1, Zenon
  <2> HIDE DEF B
  <2> QED BY <1>9, <2>1, <2>2
<1>12. \A i \in 1..Len(s) : f[i] = FieldTurn(s, f[i - 1])
  BY <1>11
<1> QED BY <1>8, <1>10, <1>12, Zenon

\* Appending leaves what was there.
LEMMA Joined ==
  ASSUME NEW T, NEW b \in Seq(T), NEW c \in Seq(T)
  PROVE  /\ b \o c \in Seq(T) /\ Len(b \o c) = Len(b) + Len(c)
         /\ \A i \in 1..Len(b) : (b \o c)[i] = b[i]
         /\ \A i \in 1..Len(c) : (b \o c)[Len(b) + i] = c[i]
<1>1. b \o c \in Seq(T) /\ Len(b \o c) = Len(b) + Len(c)
  OBVIOUS
<1>2. \A i \in 1..Len(b) : (b \o c)[i] = b[i]
  OBVIOUS
<1>3. \A i \in 1..Len(c) : (b \o c)[Len(b) + i] = c[i]
  OBVIOUS
<1> QED BY <1>1, <1>2, <1>3

\* D[i] is the first i of the sequences in C, one behind the other.
Concats(D, C, n) == D[0] = <<>> /\ \A i \in 1..n : D[i] = D[i - 1] \o C[i]

\* Each begins where those before it end, and stays there.
Grown(D, C, n) ==
  /\ \A i \in 0..n : /\ Len(D[i]) <= Len(D[n])
                     /\ \A q \in 1..Len(D[i]) : D[n][q] = D[i][q]
  /\ \A i \in 1..n : /\ Len(D[i]) = Len(D[i - 1]) + Len(C[i])
                     /\ \A q \in 1..Len(C[i]) : D[n][Len(D[i - 1]) + q] = C[i][q]

\* So it is for any sequences.
LEMMA ConcatsGrow ==
  ASSUME NEW T, NEW n \in Nat, NEW C, NEW D, Concats(D, C, n), \A i \in 1..n : C[i] \in Seq(T)
  PROVE  Grown(D, C, n) /\ \A i \in 0..n : D[i] \in Seq(T)
<1>0. D[0] = <<>> /\ \A i \in 1..n : D[i] = D[i - 1] \o C[i]
  BY DEF Concats
<1>1. \A i \in 0..n : D[i] \in Seq(T)
  <2> DEFINE S == {k \in Nat : k <= n => D[k] \in Seq(T)}
  <2>1. <<>> \in Seq(T)
    OBVIOUS
  <2>2. 0 \in S
    BY <1>0, <2>1
  <2>3. ASSUME NEW k \in Nat, k \in S PROVE k + 1 \in S
    <3>1. SUFFICES ASSUME k + 1 <= n PROVE D[k + 1] \in Seq(T)
      OBVIOUS
    <3>2. PICK i \in 1..n : i = k + 1
      BY <3>1
    <3>3. D[i] = D[i - 1] \o C[i]
      BY <1>0
    <3>4. i - 1 = k
      BY <3>2
    <3>5. PICK d \in Seq(T) : d = D[k]
      <4>1. k <= n
        BY <3>1
      <4>2. D[k] \in Seq(T)
        BY <2>3, <4>1, Zenon
      <4> QED BY <4>2
    <3>6. PICK c \in Seq(T) : c = C[i]
      OBVIOUS
    <3>7. d \o c \in Seq(T)
      BY Joined
    <3> QED BY <3>2, <3>3, <3>4, <3>5, <3>6, <3>7
  <2>4. Nat \subseteq S
    <3> HIDE DEF S
    <3> QED BY <2>2, <2>3, Induction
  <2> QED BY <2>4
<1>2. ASSUME NEW m \in 1..n
      PROVE  /\ Len(D[m]) = Len(D[m - 1]) + Len(C[m])
             /\ \A q \in 1..Len(D[m - 1]) : D[m][q] = D[m - 1][q]
             /\ \A q \in 1..Len(C[m]) : D[m][Len(D[m - 1]) + q] = C[m][q]
  <2>1. PICK e \in Seq(T) : e = D[m - 1]
    <3>1. m - 1 \in 0..n
      OBVIOUS
    <3> QED BY <1>1, <3>1
  <2>2. PICK c \in Seq(T) : c = C[m]
    OBVIOUS
  <2>3. D[m] = e \o c
    BY <1>0, <2>1, <2>2
  <2>4. /\ Len(e \o c) = Len(e) + Len(c) /\ \A q \in 1..Len(e) : (e \o c)[q] = e[q]
        /\ \A q \in 1..Len(c) : (e \o c)[Len(e) + q] = c[q]
    BY Joined
  <2> QED BY <2>1, <2>2, <2>3, <2>4, Zenon
<1>3. ASSUME NEW i \in 0..n
      PROVE  Len(D[i]) <= Len(D[n]) /\ \A q \in 1..Len(D[i]) : D[n][q] = D[i][q]
  <2> DEFINE Kept(m) == Len(D[i]) <= Len(D[m]) /\ \A q \in 1..Len(D[i]) : D[m][q] = D[i][q]
             S == {k \in Nat : i + k <= n => Kept(i + k)}
  <2>1. 0 \in S
    <3>1. i + 0 = i /\ Len(D[i]) \in Nat
      BY <1>1
    <3> QED BY <3>1
  <2>2. ASSUME NEW k \in Nat, k \in S PROVE k + 1 \in S
    <3>1. SUFFICES ASSUME i + (k + 1) <= n PROVE Kept(i + (k + 1))
      OBVIOUS
    <3>2. PICK m \in 1..n : m = i + (k + 1)
      BY <3>1
    <3>3. m - 1 = i + k /\ m - 1 \in 0..n /\ i + k <= n
      BY <3>2
    <3>4. Kept(m - 1)
      BY <2>2, <3>3
    <3>5. Len(D[i]) \in Nat /\ Len(D[m - 1]) \in Nat /\ Len(C[m]) \in Nat
      BY <1>1, <3>3
    <3>6. PICK d, e : d = D[m] /\ e = D[m - 1]
      OBVIOUS
    <3>7. Len(d) = Len(e) + Len(C[m]) /\ \A q \in 1..Len(e) : d[q] = e[q]
      BY <1>2, <3>6, Zenon
    <3>8. Len(D[i]) <= Len(e) /\ \A q \in 1..Len(D[i]) : e[q] = D[i][q]
      BY <3>4, <3>6, Zenon
    <3>9. Len(e) \in Nat
      BY <3>5, <3>6
    <3>10. Len(D[i]) <= Len(d) /\ \A q \in 1..Len(D[i]) : d[q] = D[i][q]
      BY ONLY <3>5, <3>7, <3>8, <3>9
    <3>11. Kept(m)
      BY <3>6, <3>10, Zenon
    <3> QED BY <3>2, <3>11
  <2>3. n - i \in S
    <3>1. n - i \in Nat
      OBVIOUS
    <3> HIDE DEF S
    <3> QED BY <2>1, <2>2, <3>1, Induction
  <2>4. i + (n - i) = n /\ n <= n
    OBVIOUS
  <2> HIDE DEF Kept
  <2>5. Kept(n)
    BY <2>3, <2>4
  <2> QED BY <2>5 DEF Kept
<1>4. ASSUME NEW i \in 1..n, NEW q \in 1..Len(C[i]) PROVE D[n][Len(D[i - 1]) + q] = C[i][q]
  <2>1. i - 1 \in 0..n /\ i \in 0..n
    OBVIOUS
  <2>2. PICK a \in Nat, c \in Nat : a = Len(D[i - 1]) /\ c = Len(C[i])
    BY <1>1, <2>1
  <2>3. PICK r \in Nat : r = a + q /\ r \in 1..(a + c)
    <3>1. q \in 1..c
      BY <2>2
    <3>2. a + q \in Nat /\ a + q \in 1..(a + c)
      BY <3>1
    <3> QED BY <3>2
  <2>4. Len(D[i]) = a + c /\ D[i][r] = C[i][q]
    BY <1>2, <2>2, <2>3, Zenon
  <2>5. r \in 1..Len(D[i])
    BY <2>2, <2>3, <2>4
  <2>6. D[n][r] = D[i][r]
    BY <1>3, <2>1, <2>5, Zenon
  <2> QED BY <2>2, <2>3, <2>4, <2>6, Zenon
<1> QED BY <1>1, <1>2, <1>3, <1>4, Zenon DEF Grown

\* What a field line consists of.
LEMMA LineIs ==
  ASSUME NEW f \in Names, NEW v \in Vals
  PROVE  /\ WriteFieldLine(f, v) \in Seq(Tokens) /\ Len(v) \in Nat
         /\ Len(WriteFieldLine(f, v)) = Len(v) + 5 /\ WriteFieldLine(f, v)[1] = f
         /\ WriteFieldLine(f, v)[2] = Colon /\ WriteFieldLine(f, v)[3] = SP
         /\ WriteFieldLine(f, v)[Len(v) + 4] = CR /\ WriteFieldLine(f, v)[Len(v) + 5] = LF
         /\ \A i \in 1..Len(v) : WriteFieldLine(f, v)[3 + i] = v[i]
<1>0. PICK c, n : c = WriteFieldLine(f, v) /\ n = Len(v)
  OBVIOUS
<1>1. v \in Seq(Tokens) /\ n \in Nat
  BY <1>0 DEF Vals
<1>2. PICK h : h = <<f, Colon, SP>>
  OBVIOUS
<1>3. PICK t : t = <<CR, LF>>
  OBVIOUS
<1>4. h \in Seq(Tokens) /\ Len(h) = 3 /\ h[1] = f /\ h[2] = Colon /\ h[3] = SP
  BY <1>2, NamesAreWords
<1>5. t \in Seq(Tokens) /\ Len(t) = 2 /\ t[1] = CR /\ t[2] = LF
  BY <1>3, NamesAreWords
<1>6. PICK g : g = h \o v
  OBVIOUS
<1>7. /\ g \in Seq(Tokens) /\ Len(g) = 3 + n /\ \A i \in 1..3 : g[i] = h[i]
      /\ \A i \in 1..n : g[3 + i] = v[i]
  <2>1. /\ h \o v \in Seq(Tokens) /\ Len(h \o v) = Len(h) + Len(v)
        /\ \A i \in 1..Len(h) : (h \o v)[i] = h[i]
        /\ \A i \in 1..Len(v) : (h \o v)[Len(h) + i] = v[i]
    <3>1. h \in Seq(Tokens) /\ v \in Seq(Tokens)
      BY <1>1, <1>4
    <3> QED BY ONLY <3>1, Joined
  <2> QED BY <1>0, <1>4, <1>6, <2>1, Zenon
<1>8. c = g \o t
  BY <1>0, <1>2, <1>3, <1>6, Zenon DEF WriteFieldLine, CRLF
<1>9. /\ c \in Seq(Tokens) /\ Len(c) = (3 + n) + 2 /\ \A i \in 1..(3 + n) : c[i] = g[i]
      /\ \A i \in 1..2 : c[(3 + n) + i] = t[i]
  <2>1. /\ g \o t \in Seq(Tokens) /\ Len(g \o t) = Len(g) + Len(t)
        /\ \A i \in 1..Len(g) : (g \o t)[i] = g[i]
        /\ \A i \in 1..Len(t) : (g \o t)[Len(g) + i] = t[i]
    <3>1. g \in Seq(Tokens) /\ t \in Seq(Tokens)
      BY <1>5, <1>7
    <3> QED BY ONLY <3>1, Joined
  <2> QED BY <1>5, <1>7, <1>8, <2>1, Zenon
<1>10. c[1] = f /\ c[2] = Colon /\ c[3] = SP
  <2>1. {1, 2, 3} \subseteq 1..(3 + n) /\ {1, 2, 3} \subseteq 1..3
    BY <1>1
  <2> QED BY <1>4, <1>7, <1>9, <2>1
<1>11. c[n + 4] = CR /\ c[n + 5] = LF
  <2>1. n + 4 = (3 + n) + 1 /\ n + 5 = (3 + n) + 2
    BY <1>1
  <2> QED BY <1>5, <1>9, <2>1
<1>12. ASSUME NEW i \in 1..n PROVE c[3 + i] = v[i]
  <2>1. 3 + i \in 1..(3 + n)
    BY <1>1
  <2> QED BY <1>7, <1>9, <2>1
<1>13. Len(c) = n + 5
  BY <1>1, <1>9
<1> QED BY <1>0, <1>1, <1>9, <1>10, <1>11, <1>12, <1>13, Zenon

\* The field lines fs stand in s behind its first b tokens.
Stand(s, b, fs) ==
  /\ b + Len(WriteFields(fs)) <= Len(s)
  /\ \A i \in 1..Len(WriteFields(fs)) : s[b + i] = WriteFields(fs)[i]

\* Line i of n stands behind the lines before it.
LineOf(D, n, fs, i) ==
  /\ Len(D[i]) = Len(D[i - 1]) + Len(fs[i][2]) + 5
  /\ \A q \in 1..(Len(fs[i][2]) + 5) :
       D[n][Len(D[i - 1]) + q] = WriteFieldLine(fs[i][1], fs[i][2])[q]

\* Lines of at least five tokens, one behind the other.
LEMMA LinesGrow ==
  ASSUME NEW fs \in Seq(Lines), NEW n, n = Len(fs), NEW D, D = FieldLines(fs)
  PROVE  /\ n \in Nat /\ D[0] = <<>> /\ D[n] = WriteFields(fs)
         /\ \A i \in 0..n : /\ D[i] \in Seq(Tokens) /\ Len(D[i]) \in Nat /\ i <= Len(D[i])
                            /\ Len(D[i]) <= Len(D[n])
         /\ \A i \in 1..n : fs[i][1] \in Names /\ fs[i][2] \in Vals /\ LineOf(D, n, fs, i)
<1>1. n \in Nat /\ \A i \in 1..n : fs[i] \in Lines
  OBVIOUS
<1>2. \A i \in 1..n : fs[i][1] \in Names /\ fs[i][2] \in Vals
  BY <1>1 DEF Lines
<1>3. PICK C : C = [i \in 1..n |-> WriteFieldLine(fs[i][1], fs[i][2])]
  OBVIOUS
<1>4. ASSUME NEW i \in 1..n PROVE C[i] \in Seq(Tokens) /\ Len(C[i]) = Len(fs[i][2]) + 5
                                  /\ Len(fs[i][2]) \in Nat
  <2>1. PICK f \in Names, v \in Vals : f = fs[i][1] /\ v = fs[i][2]
    BY <1>2
  <2>2. C[i] = WriteFieldLine(f, v)
    BY <1>3, <2>1
  <2>3. C[i] \in Seq(Tokens) /\ Len(v) \in Nat /\ Len(C[i]) = Len(v) + 5
    BY <2>2, LineIs
  <2> QED BY <2>1, <2>3
<1>5. D[0] = <<>> /\ \A i \in 1..n : D[i] = D[i - 1] \o C[i]
  BY <1>3, FieldLinesDef
<1>6. /\ \A i \in 0..n : D[i] \in Seq(Tokens)
      /\ \A i \in 0..n : Len(D[i]) <= Len(D[n])
      /\ \A i \in 1..n : /\ Len(D[i]) = Len(D[i - 1]) + Len(C[i])
                         /\ \A q \in 1..Len(C[i]) : D[n][Len(D[i - 1]) + q] = C[i][q]
  <2>1. \A i \in 1..n : C[i] \in Seq(Tokens)
    BY <1>4
  <2>2. Concats(D, C, n)
    BY <1>5 DEF Concats
  <2>3. Grown(D, C, n) /\ \A i \in 0..n : D[i] \in Seq(Tokens)
    BY ONLY <1>1, <2>1, <2>2, ConcatsGrow
  <2> QED BY <2>3, Zenon DEF Grown
<1>7. \A i \in 0..n : Len(D[i]) \in Nat
  BY <1>6
<1>8. \A i \in 0..n : i <= Len(D[i])
  <2> DEFINE S == {k \in Nat : k <= n => k <= Len(D[k])}
  <2>1. 0 \in S
    BY <1>1, <1>7
  <2>2. ASSUME NEW k \in Nat, k \in S PROVE k + 1 \in S
    <3>1. SUFFICES ASSUME k + 1 <= n PROVE k + 1 <= Len(D[k + 1])
      OBVIOUS
    <3>2. PICK i \in 1..n : i = k + 1
      BY <1>1, <3>1
    <3>3. i - 1 = k /\ i - 1 \in 0..n /\ k <= n
      BY <1>1, <3>1, <3>2
    <3>4. PICK a \in Nat : a = Len(D[i - 1])
      BY <1>7, <3>3
    <3>5. PICK m \in Nat : m = Len(fs[i][2])
      BY <1>4
    <3>6. k <= a
      BY <2>2, <3>3, <3>4
    <3>7. Len(D[i]) = a + (m + 5)
      BY <1>4, <1>6, <3>4, <3>5, Zenon
    <3>8. k + 1 <= a + (m + 5)
      BY <3>6
    <3> QED BY <3>2, <3>7, <3>8
  <2>3. Nat \subseteq S
    <3> HIDE DEF S
    <3> QED BY <2>1, <2>2, Induction
  <2> QED BY <1>1, <2>3
<1>9. ASSUME NEW i \in 1..n PROVE LineOf(D, n, fs, i)
  <2>1. i - 1 \in 0..n
    BY <1>1
  <2>2. PICK a \in Nat, m \in Nat : a = Len(D[i - 1]) /\ m = Len(fs[i][2])
    BY <1>4, <1>7, <2>1
  <2>3. Len(C[i]) = m + 5 /\ C[i] = WriteFieldLine(fs[i][1], fs[i][2])
    BY <1>3, <1>4, <2>2
  <2>4. Len(D[i]) = a + (m + 5)
    BY <1>6, <2>2, <2>3, Zenon
  <2>5. a + (m + 5) = a + m + 5
    OBVIOUS
  <2>6. \A q \in 1..(m + 5) : D[n][a + q] = C[i][q]
    BY <1>6, <2>2, <2>3, Zenon
  <2> QED BY <2>2, <2>3, <2>4, <2>5, <2>6, Zenon DEF LineOf
<1>10. D[n] = WriteFields(fs)
  BY Zenon DEF WriteFields
<1> QED BY <1>1, <1>2, <1>5, <1>6, <1>7, <1>8, <1>9, <1>10

\* The first i lines, and the line at i of those that stand in s.
LEMMA LineStands ==
  ASSUME NEW fs \in Seq(Lines), NEW s \in Seq(Tokens), NEW b \in Nat, Stand(s, b, fs),
         NEW i \in 1..Len(fs), NEW f, f = fs[i][1], NEW v, v = fs[i][2],
         NEW p, p = b + Len(FieldLines(fs)[i - 1]) + 1, NEW q, q = b + Len(FieldLines(fs)[i]) + 1
  PROVE  Placed(s, f, v, p, q)
<1>1. PICK n, D : n = Len(fs) /\ D = FieldLines(fs)
  OBVIOUS
<1>2. /\ n \in Nat /\ D[n] = WriteFields(fs)
      /\ \A k \in 0..n : Len(D[k]) \in Nat /\ Len(D[k]) <= Len(D[n])
  BY <1>1, LinesGrow
<1>3. /\ f \in Names /\ v \in Vals /\ Len(D[i]) = Len(D[i - 1]) + Len(v) + 5
      /\ \A k \in 1..(Len(v) + 5) : D[n][Len(D[i - 1]) + k] = WriteFieldLine(f, v)[k]
  <2>1. /\ fs[i][1] \in Names /\ fs[i][2] \in Vals /\ Len(D[i]) = Len(D[i - 1]) + Len(fs[i][2]) + 5
        /\ \A k \in 1..(Len(fs[i][2]) + 5) :
             D[n][Len(D[i - 1]) + k] = WriteFieldLine(fs[i][1], fs[i][2])[k]
    <3>1. LineOf(D, n, fs, i)
      BY <1>1, LinesGrow
    <3>2. fs[i][1] \in Names /\ fs[i][2] \in Vals
      BY <1>1, LinesGrow
    <3> QED BY <3>1, <3>2, Zenon DEF LineOf
  <2> QED BY <2>1, Zenon
<1>4. PICK c : c = WriteFieldLine(f, v)
  OBVIOUS
<1>5. PICK m \in Nat : m = Len(v)
  BY <1>3, LineIs
<1>6. /\ c[1] = f /\ c[2] = Colon /\ c[3] = SP /\ c[m + 4] = CR /\ c[m + 5] = LF
      /\ \A k \in 1..m : c[3 + k] = v[k]
  <2>1. PICK g \in Names, w \in Vals : g = f /\ w = v
    BY <1>3
  <2> QED BY <1>4, <1>5, <2>1, LineIs
<1>7. PICK a \in Nat : a = Len(D[i - 1])
  <2>1. i - 1 \in 0..n
    BY <1>1, <1>2
  <2> QED BY <1>2, <2>1
<1>8. Len(D[i]) = a + m + 5
  BY <1>3, <1>5, <1>7, Zenon
<1>9. PICK z \in Nat : z = Len(D[n])
  BY <1>2
<1>10. a + m + 5 <= z
  <2>1. i \in 0..n
    BY <1>1, <1>2
  <2> QED BY <1>2, <1>8, <1>9, <2>1, Zenon
<1>11. Len(s) \in Nat /\ b + z <= Len(s)
  <2>1. b + z <= Len(s)
    BY <1>2, <1>9, Zenon DEF Stand
  <2> QED BY <2>1
<1>12. p = b + a + 1 /\ q = b + (a + m + 5) + 1
  BY <1>1, <1>7, <1>8, Zenon
<1>13. ASSUME NEW k \in 1..(m + 5) PROVE s[b + (a + k)] = c[k]
  <2>1. a + k \in 1..z
    BY <1>10
  <2>2. PICK r : r = a + k
    OBVIOUS
  <2>3. s[b + r] = D[n][r]
    BY <1>2, <1>9, <2>1, <2>2, Zenon DEF Stand
  <2>4. D[n][r] = c[k]
    BY <1>3, <1>4, <1>5, <1>7, <2>2, Zenon
  <2> QED BY <2>2, <2>3, <2>4, Zenon
<1>14. /\ p \in Nat \ {0} /\ q \in Nat /\ q = p + m + 5 /\ q - 1 <= Len(s)
       /\ p = b + (a + 1) /\ p + 1 = b + (a + 2) /\ p + 2 = b + (a + 3)
       /\ q - 2 = b + (a + (m + 4)) /\ q - 1 = b + (a + (m + 5))
  BY ONLY <1>10, <1>11, <1>12
<1>15. {1, 2, 3, m + 4, m + 5} \subseteq 1..(m + 5)
  OBVIOUS
<1>16. s[p] = f /\ s[p + 1] = Colon /\ s[p + 2] = SP /\ s[q - 2] = CR /\ s[q - 1] = LF
  BY <1>6, <1>13, <1>14, <1>15
<1>17. ASSUME NEW k \in 1..m PROVE s[p + 2 + k] = v[k]
  <2>1. 3 + k \in 1..(m + 5) /\ p + 2 + k = b + (a + (3 + k))
    BY ONLY <1>14
  <2> QED BY <1>6, <1>13, <2>1
<1>18. \A k \in 1..Len(v) : s[p + 2 + k] = v[k]
  BY <1>5, <1>17, Zenon
<1>19. Len(v) \in Nat /\ q = p + Len(v) + 5
  BY <1>5, <1>14, Zenon
<1> QED BY <1>3, <1>14, <1>16, <1>18, <1>19, Zenon DEF Placed

\* Every set of bounded naturals that is not empty has a greatest element.
LEMMA Greatest ==
  ASSUME NEW m \in Nat, NEW W, W \subseteq 0..m, W # {}
  PROVE  \E h \in W : \A i \in W : h >= i
<1>0. PICK w \in W : w \in Nat
  <2>1. PICK w \in W : TRUE
    OBVIOUS
  <2> QED BY <2>1
<1> DEFINE U == {n \in Nat : \A i \in W : n >= i}
<1>1. m \in U
  OBVIOUS
<1>2. PICK n \in U : \A k \in U : n <= k
  <2>1. U \subseteq Nat /\ U # {}
    BY <1>1
  <2> HIDE DEF U
  <2> QED BY <2>1, Smallest
<1>3. n \in Nat /\ \A i \in W : n >= i
  OBVIOUS
<1>4. ASSUME n \notin W PROVE FALSE
  <2>1. \A i \in W : i \in Nat /\ n >= i /\ n # i
    BY <1>3, <1>4
  <2>2. n - 1 \in Nat /\ \A j \in W : n - 1 >= j
    BY <1>0, <1>3, <2>1
  <2>3. n - 1 \in U
    BY <2>2
  <2> QED BY <1>2, <1>3, <2>3
<1> QED BY <1>3, <1>4

\* No line sets no field.
LEMMA FieldMapEmpty ==
  ASSUME NEW fs, fs = <<>> PROVE FieldMap(fs) = NoFields
  BY DEF FieldMap, NoFields

\* Each line sets its field.
LEMMA FieldMapGrows ==
  ASSUME NEW L, NEW fs \in Seq(L), NEW k \in 1..Len(fs)
  PROVE  FieldMap(SubSeq(fs, 1, k)) =
           SetField(FieldMap(SubSeq(fs, 1, k - 1)), <<fs[k][1]>>, fs[k][2])
<1>1. PICK f, v : f = fs[k][1] /\ v = fs[k][2]
  OBVIOUS
<1>2. PICK j \in Nat : j = k - 1 /\ j < k
  OBVIOUS
<1> DEFINE At(m, g) == {i \in 1..m : fs[i][1] = g}
           Dom(m) == {fs[i][1] : i \in 1..m} \cap FieldNames
<1>3. ASSUME NEW m \in 0..Len(fs)
      PROVE  FieldMap(SubSeq(fs, 1, m)) = [g \in Dom(m) |-> fs[Max(At(m, g))][2]]
  <2>1. PICK c : c = SubSeq(fs, 1, m)
    OBVIOUS
  <2>2. DOMAIN c = 1..m /\ \A i \in 1..m : c[i] = fs[i]
    BY <2>1
  <2>3. {c[i][1] : i \in DOMAIN c} \cap FieldNames = Dom(m)
    BY <2>2
  <2>4. ASSUME NEW g \in Dom(m) PROVE c[Max({i \in DOMAIN c : c[i][1] = g})][2] = fs[Max(At(m, g))][2]
    <3>1. {i \in DOMAIN c : c[i][1] = g} = At(m, g)
      BY <2>2
    <3>2. PICK h \in At(m, g) : \A i \in At(m, g) : h >= i
      <4>1. At(m, g) \subseteq 0..m /\ At(m, g) # {} /\ m \in Nat
        OBVIOUS
      <4> HIDE DEF At
      <4> QED BY <4>1, Greatest
    <3>3. Max(At(m, g)) = h
      <4> HIDE DEF At
      <4>1. At(m, g) \subseteq Int
        BY DEF At
      <4> QED BY <3>2, <4>1, MaxIs
    <3>4. h \in 1..m
      OBVIOUS
    <3> HIDE DEF At
    <3> QED BY <2>2, <3>1, <3>3, <3>4
  <2> HIDE DEF Dom, At
  <2> QED BY <2>1, <2>3, <2>4 DEF FieldMap
<1>4. ASSUME NEW g \in FieldNames, g # f PROVE At(k, g) = At(j, g)
  BY <1>1, <1>2, <1>4
<1>5. f \notin FieldNames => Dom(k) = Dom(j)
  BY <1>1, <1>2
<1>6. f \in FieldNames => Dom(k) = Dom(j) \cup {f}
  BY <1>1, <1>2
<1>7. Max(At(k, f)) = k
  <2>1. k \in At(k, f) /\ At(k, f) \subseteq Int /\ \A i \in At(k, f) : k >= i
    BY <1>1
  <2> HIDE DEF At
  <2> QED BY <2>1, MaxIs
<1>8. \A m \in {j, k} : FieldMap(SubSeq(fs, 1, m)) = [g \in Dom(m) |-> fs[Max(At(m, g))][2]]
  <2> HIDE DEF Dom, At
  <2> QED BY <1>2, <1>3
<1>9. <<f>>[1] = f /\ (<<f>> \in {<<g>> : g \in FieldNames} <=> f \in FieldNames)
  OBVIOUS
<1>10. \A m : \A g \in Dom(m) : g \in FieldNames
  OBVIOUS
<1> HIDE DEF Dom, At
<1>11. PICK a, c : a = FieldMap(SubSeq(fs, 1, j)) /\ c = FieldMap(SubSeq(fs, 1, k))
  OBVIOUS
<1>12. a = [g \in Dom(j) |-> fs[Max(At(j, g))][2]] /\ c = [g \in Dom(k) |-> fs[Max(At(k, g))][2]]
  BY <1>8, <1>11
<1>13. CASE f \notin FieldNames
  <2>1. SetField(a, <<f>>, v) = a
    BY <1>9, <1>13, Zenon DEF SetField
  <2>2. \A g \in Dom(j) : At(k, g) = At(j, g)
    BY <1>4, <1>10, <1>13
  <2>3. a = c
    BY <1>5, <1>12, <1>13, <2>2
  <2> QED BY <1>1, <1>2, <1>11, <2>1, <2>3
<1>14. CASE f \in FieldNames
  <2>1. SetField(a, <<f>>, v) = [g \in DOMAIN a \cup {f} |-> IF g = f THEN v ELSE a[g]]
    BY <1>9, <1>14, Zenon DEF SetField
  <2>2. DOMAIN a \cup {f} = Dom(k)
    BY <1>6, <1>12, <1>14
  <2>3. ASSUME NEW g \in Dom(k) PROVE (IF g = f THEN v ELSE a[g]) = c[g]
    <3>1. CASE g = f
      BY <1>1, <1>7, <1>12, <3>1
    <3>2. CASE g # f
      <4>1. g \in Dom(j) /\ At(k, g) = At(j, g)
        BY <1>4, <1>6, <1>10, <1>14, <3>2
      <4> QED BY <1>12, <3>2, <4>1
    <3> QED BY <3>1, <3>2
  <2>4. c = [g \in Dom(k) |-> c[g]]
    BY <1>12
  <2>5. SetField(a, <<f>>, v) = c
    BY <2>1, <2>2, <2>3, <2>4
  <2> QED BY <1>1, <1>2, <1>11, <2>5
<1> QED BY <1>13, <1>14

\* After the last field line there is nothing, or the blank line.
FieldsEnd(s, e, last) ==
  \/ e = Len(s) /\ last = e + 1
  \/ e + 2 <= Len(s) /\ s[e + 1] = CR /\ s[e + 2] = LF /\ last = e + 3

\* parse_fields reads back the lines that were written.
LEMMA FieldsParsed ==
  ASSUME NEW fs \in Seq(Lines), Len(fs) > 0, NEW s \in Seq(Tokens), NEW b \in Nat, Stand(s, b, fs),
         NEW e, e = b + Len(WriteFields(fs)), NEW last, FieldsEnd(s, e, last)
  PROVE  parse_fields(s, b + 1) = [fields |-> FieldMap(fs), next |-> last, done |-> TRUE]
<1>1. PICK n, D, T : n = Len(fs) /\ D = FieldLines(fs) /\ T = FieldTurns(s, b + 1)
  OBVIOUS
<1>2. /\ n \in Nat /\ D[0] = <<>> /\ D[n] = WriteFields(fs)
      /\ \A k \in 0..n : Len(D[k]) \in Nat /\ k <= Len(D[k])
  BY <1>1, LinesGrow
<1>3. Len(s) \in Nat /\ n \in 1..Len(s) /\ e \in Nat /\ e <= Len(s)
  <2>1. PICK z \in Nat : z = Len(D[n]) /\ n <= z
    <3>1. n \in 0..n
      BY <1>2
    <3> QED BY <1>2, <3>1
  <2>2. Len(s) \in Nat
    OBVIOUS
  <2>3. b + z <= Len(s)
    BY <1>2, <2>1, Zenon DEF Stand
  <2>4. e = b + z
    BY <1>2, <2>1
  <2> QED BY <1>1, <1>2, <2>1, <2>2, <2>3, <2>4
<1>4. /\ T[0] = [fields |-> NoFields, next |-> b + 1, done |-> FALSE]
      /\ \A i \in 1..Len(s) : T[i] = FieldTurn(s, T[i - 1])
  BY <1>1, FieldTurnsDef, Zenon
<1> DEFINE Fm(k) == FieldMap(SubSeq(fs, 1, k))
           Open(k) == /\ T[k].fields = Fm(k) /\ T[k].done = FALSE
                      /\ T[k].next = b + Len(D[k]) + 1
<1> HIDE DEF Fm
<1>5. Open(0)
  <2>1. Fm(0) = NoFields
    <3>1. SubSeq(fs, 1, 0) = <<>>
      OBVIOUS
    <3> QED BY <3>1, FieldMapEmpty DEF Fm
  <2>2. Len(D[0]) = 0
    BY <1>2
  <2>3. b + Len(D[0]) + 1 = b + 1
    BY <2>2
  <2>4. T[0].fields = NoFields /\ T[0].next = b + 1 /\ T[0].done = FALSE
    BY <1>4
  <2> QED BY <2>1, <2>3, <2>4
<1>6. ASSUME NEW k \in 1..n, Open(k - 1)
      PROVE  /\ k < n => Open(k)
             /\ k = n => T[k] = [fields |-> Fm(k), next |-> last, done |-> TRUE]
  <2>1. PICK f, v : f = fs[k][1] /\ v = fs[k][2]
    OBVIOUS
  <2>2. PICK p, q : p = b + Len(D[k - 1]) + 1 /\ q = b + Len(D[k]) + 1
    OBVIOUS
  <2>3. Placed(s, f, v, p, q) /\ q \in Nat
    <3>1. Placed(s, f, v, p, q)
      BY <1>1, <2>1, <2>2, LineStands, Zenon
    <3> QED BY <3>1 DEF Placed
  <2>4. PICK st : st = T[k - 1] /\ st.next = p /\ st.done = FALSE /\ st.fields = Fm(k - 1)
    BY <1>6, <2>2
  <2>5. T[k] = FieldTurn(s, st)
    BY <1>3, <1>4, <2>4
  <2>6. SetField(st.fields, <<f>>, v) = Fm(k)
    BY <1>1, <2>1, <2>4, FieldMapGrows DEF Fm
  <2>7. /\ q <= Len(s) /\ s[q] \in Names =>
             T[k] = [fields |-> Fm(k), next |-> q, done |-> FALSE]
        /\ q = Len(s) + 1 => T[k] = [fields |-> Fm(k), next |-> q, done |-> TRUE]
        /\ q + 1 <= Len(s) /\ s[q] = CR /\ s[q + 1] = LF =>
             T[k] = [fields |-> Fm(k), next |-> q + 2, done |-> TRUE]
    <3>1. TurnRead(s, st, f, v, q)
      BY <2>3, <2>4, TurnParses, Zenon
    <3> QED BY <2>5, <2>6, <3>1, Zenon DEF TurnRead
  <2>8. ASSUME k < n PROVE Open(k)
    <3>1. PICK j \in 1..n : j = k + 1
      BY <1>2, <2>8
    <3>2. j - 1 = k
      BY <3>1
    <3>3. PICK g, w, r : g = fs[j][1] /\ w = fs[j][2] /\ r = b + Len(D[j]) + 1
      OBVIOUS
    <3>4. g \in Names /\ Len(w) \in Nat /\ r = q + Len(w) + 5 /\ r - 1 <= Len(s) /\ s[q] = g
      <4>1. Placed(s, g, w, q, r)
        BY <1>1, <2>2, <3>2, <3>3, LineStands, Zenon
      <4> QED BY <4>1, Zenon DEF Placed
    <3>5. q <= Len(s)
      <4>1. PICK z \in Nat, u \in Nat : z = Len(s) /\ u = Len(w) /\ r = q + u + 5 /\ r - 1 <= z
        BY <1>3, <3>4, Zenon
      <4>2. q <= z
        BY ONLY <2>3, <4>1
      <4> QED BY <4>1, <4>2, Zenon
    <3>6. T[k] = [fields |-> Fm(k), next |-> q, done |-> FALSE]
      BY <2>7, <3>4, <3>5
    <3> QED BY <2>2, <3>6
  <2>9. ASSUME k = n PROVE T[k] = [fields |-> Fm(k), next |-> last, done |-> TRUE]
    <3>1. q = e + 1
      BY <1>2, <2>2, <2>9
    <3>2. CASE e = Len(s) /\ last = e + 1
      BY <2>7, <3>1, <3>2
    <3>3. CASE e + 2 <= Len(s) /\ s[e + 1] = CR /\ s[e + 2] = LF /\ last = e + 3
      <4>1. q + 1 = e + 2 /\ q + 2 = e + 3
        BY <1>3, <3>1
      <4> QED BY <2>7, <3>1, <3>3, <4>1
    <3> QED BY <3>2, <3>3 DEF FieldsEnd
  <2> QED BY <2>8, <2>9
<1>7. Open(n - 1)
  <2> DEFINE S == {k \in Nat : k < n => Open(k)}
  <2>1. 0 \in S
    <3> HIDE DEF Open
    <3> QED BY <1>5
  <2>2. ASSUME NEW k \in Nat, k \in S PROVE k + 1 \in S
    <3>1. SUFFICES ASSUME k + 1 < n PROVE Open(k + 1)
      <4> HIDE DEF Open
      <4> QED OBVIOUS
    <3>2. PICK i \in 1..n : i = k + 1
      BY <1>2, <3>1
    <3>3. i - 1 = k /\ i < n /\ k < n
      BY <1>2, <3>1, <3>2
    <3>4. Open(k)
      <4> HIDE DEF Open
      <4> QED BY <2>2, <3>3
    <3> HIDE DEF Open
    <3> QED BY <1>6, <3>2, <3>3, <3>4
  <2>3. n - 1 \in S
    <3>1. n - 1 \in Nat
      BY <1>3
    <3> HIDE DEF S
    <3> QED BY <2>1, <2>2, <3>1, Induction
  <2>4. n - 1 < n
    BY <1>3
  <2> HIDE DEF Open
  <2> QED BY <2>3, <2>4
<1>8. T[n] = [fields |-> FieldMap(fs), next |-> last, done |-> TRUE]
  <2>1. n \in 1..n
    BY <1>3
  <2>2. Fm(n) = FieldMap(fs)
    <3>1. SubSeq(fs, 1, n) = fs
      BY <1>1
    <3> QED BY <3>1 DEF Fm
  <2> HIDE DEF Open
  <2> QED BY <1>6, <1>7, <2>1, <2>2
<1>9. \A k \in Nat : n + k <= Len(s) => T[n + k] = T[n]
  <2> DEFINE S == {k \in Nat : n + k <= Len(s) => T[n + k] = T[n]}
  <2>1. 0 \in S
    <3>1. n + 0 = n
      BY <1>2
    <3> QED BY <3>1
  <2>2. ASSUME NEW k \in Nat, k \in S PROVE k + 1 \in S
    <3>1. SUFFICES ASSUME n + (k + 1) <= Len(s) PROVE T[n + (k + 1)] = T[n]
      OBVIOUS
    <3>2. PICK i \in 1..Len(s) : i = n + (k + 1)
      BY <1>2, <1>3, <3>1
    <3>3. i - 1 = n + k /\ n + k <= Len(s)
      BY <1>2, <1>3, <3>1, <3>2
    <3>4. T[i - 1] = T[n]
      BY <2>2, <3>3
    <3>5. T[n].done
      BY <1>8
    <3>6. FieldTurn(s, T[n]) = T[n]
      BY <3>5, Zenon DEF FieldTurn
    <3>7. T[i] = FieldTurn(s, T[i - 1])
      BY <1>4
    <3> QED BY <3>2, <3>4, <3>6, <3>7
  <2>3. Nat \subseteq S
    <3> HIDE DEF S
    <3> QED BY <2>1, <2>2, Induction
  <2> QED BY <2>3
<1>10. T[Len(s)] = T[n]
  <2>1. PICK k \in Nat : n + k = Len(s)
    <3>1. Len(s) - n \in Nat /\ n + (Len(s) - n) = Len(s)
      BY <1>2, <1>3
    <3> QED BY <3>1
  <2>2. n + k <= Len(s)
    BY <1>3, <2>1
  <2> QED BY <1>9, <2>1, <2>2
<1> QED BY <1>1, <1>8, <1>10, Zenon DEF parse_fields

\* w stands in s behind its first p tokens.
StandsAt(s, p, w) == p + Len(w) <= Len(s) /\ \A i \in 1..Len(w) : s[p + i] = w[i]

\* Four parts, one behind the other.
Stacked(s, c, w, t, d) ==
  /\ Len(s) = Len(c) + Len(w) + Len(t) + Len(d)
  /\ StandsAt(s, 0, c) /\ StandsAt(s, Len(c), w)
  /\ StandsAt(s, Len(c) + Len(w), t) /\ StandsAt(s, Len(c) + Len(w) + Len(t), d)

\* They make a stream.
LEMMA FourParts ==
  ASSUME NEW T, NEW c \in Seq(T), NEW w \in Seq(T), NEW t \in Seq(T), NEW d \in Seq(T),
         NEW s, s = c \o w \o t \o d
  PROVE  s \in Seq(T) /\ Stacked(s, c, w, t, d)
<1>1. PICK l \in Nat, m \in Nat, n \in Nat, k \in Nat :
        l = Len(c) /\ m = Len(w) /\ n = Len(t) /\ k = Len(d)
  OBVIOUS
<1>2. PICK x, y : x = c \o w /\ y = x \o t
  OBVIOUS
<1>3. /\ x \in Seq(T) /\ Len(x) = l + m
      /\ \A i \in 1..l : x[i] = c[i]
      /\ \A i \in 1..m : x[l + i] = w[i]
  BY <1>1, <1>2, Joined
<1>4. /\ y \in Seq(T) /\ Len(y) = (l + m) + n
      /\ \A i \in 1..(l + m) : y[i] = x[i]
      /\ \A i \in 1..n : y[(l + m) + i] = t[i]
  BY <1>1, <1>2, <1>3, Joined
<1>5. s = y \o d
  BY <1>2
<1>6. /\ s \in Seq(T) /\ Len(s) = (l + m + n) + k
      /\ \A i \in 1..(l + m + n) : s[i] = y[i]
      /\ \A i \in 1..k : s[(l + m + n) + i] = d[i]
  <2>1. y \o d \in Seq(T) /\ Len(y \o d) = Len(y) + Len(d)
    BY ONLY <1>4, Joined
  <2>2. \A i \in 1..Len(y) : (y \o d)[i] = y[i]
    BY ONLY <1>4, Joined
  <2>3. \A i \in 1..Len(d) : (y \o d)[Len(y) + i] = d[i]
    BY ONLY <1>4, Joined
  <2> QED BY <1>1, <1>4, <1>5, <2>1, <2>2, <2>3, Zenon
<1>7. StandsAt(s, 0, c)
  <2>1. \A i \in 1..l : 0 + i = i /\ i \in 1..(l + m) /\ i \in 1..(l + m + n)
    OBVIOUS
  <2>2. \A i \in 1..l : s[0 + i] = c[i]
    BY <1>3, <1>4, <1>6, <2>1
  <2>3. 0 + l <= Len(s)
    BY <1>6
  <2> QED BY <1>1, <2>2, <2>3, Zenon DEF StandsAt
<1>8. StandsAt(s, l, w)
  <2>1. \A i \in 1..m : l + i \in 1..(l + m) /\ l + i \in 1..(l + m + n)
    OBVIOUS
  <2>2. \A i \in 1..m : s[l + i] = w[i]
    BY <1>3, <1>4, <1>6, <2>1
  <2>3. l + m <= Len(s)
    BY <1>6
  <2> QED BY <1>1, <2>2, <2>3, Zenon DEF StandsAt
<1>9. StandsAt(s, l + m, t)
  <2>1. \A i \in 1..n : (l + m) + i \in 1..(l + m + n)
    OBVIOUS
  <2>2. \A i \in 1..n : s[(l + m) + i] = t[i]
    BY <1>4, <1>6, <2>1
  <2>3. (l + m) + n <= Len(s)
    BY <1>6
  <2> QED BY <1>1, <2>2, <2>3, Zenon DEF StandsAt
<1>10. StandsAt(s, l + m + n, d)
  <2>1. (l + m + n) + k <= Len(s)
    BY <1>6
  <2> QED BY <1>1, <1>6, <2>1, Zenon DEF StandsAt
<1> QED BY <1>1, <1>6, <1>7, <1>8, <1>9, <1>10, Zenon DEF Stacked

\* A word and the space behind it.
LEMMA WordParsed ==
  ASSUME NEW s \in Seq(Tokens), NEW p \in Nat \ {0}, p + 1 <= Len(s), s[p] # SP, s[p + 1] = SP
  PROVE  /\ parse_till_space(s, p) = [text |-> <<s[p]>>, next |-> p + 1]
         /\ parse_skip_one(s, p + 1).next = p + 2
<1>1. Len(s) \in Nat
  OBVIOUS
<1>2. PICK q \in Nat : q = p + 1
  OBVIOUS
<1>3. Till(s, p, {SP}) = q
  <2>1. \A k \in p..(q - 1) : k = p
    BY <1>2
  <2>2. s[p] \notin {SP} /\ s[q] \in {SP}
    BY <1>2
  <2>3. p <= q /\ q <= Len(s)
    BY <1>2
  <2> QED BY <1>1, <2>1, <2>2, <2>3, TillIs
<1>4. q # p /\ q - 1 = p
  BY <1>2
<1>5. parse_till_space(s, p) = Text(s, p, p, q)
  BY <1>3, <1>4, Zenon DEF parse_till_space
<1>6. SubSeq(s, p, p) = <<s[p]>>
  BY ShortPart
<1>7. parse_skip_one(s, q) = Text(s, q, q, q + 1)
  <2>1. Remaining(s, q)
    BY <1>2 DEF Remaining
  <2> QED BY <2>1, Zenon DEF parse_skip_one
<1>8. q + 1 = p + 2
  BY <1>2
<1> QED BY <1>2, <1>5, <1>6, <1>7, <1>8 DEF Text

\* The three texts of a first line.
LEMMA FirstLineParsed ==
  ASSUME NEW s \in Seq(Tokens), NEW h \in Vals, NEW n \in Nat \ {0}, n = Len(h), n + 6 <= Len(s),
         s[1] # SP, s[2] = SP, s[3] # SP, s[4] = SP, \A i \in 1..n : s[4 + i] = h[i],
         s[n + 5] = CR, s[n + 6] = LF
  PROVE  FirstLine(s) = [texts |-> <<<<s[1]>>, <<s[3]>>, h>>, next |-> n + 7]
<1>1. Len(s) \in Nat
  OBVIOUS
<1>2. parse_till_space(s, 1) = [text |-> <<s[1]>>, next |-> 2] /\ parse_skip_one(s, 2).next = 3
  <2>1. 1 + 1 = 2 /\ 1 + 2 = 3 /\ 1 + 1 <= Len(s) /\ 1 \in Nat \ {0}
    OBVIOUS
  <2> QED BY <2>1, WordParsed
<1>3. parse_till_space(s, 3) = [text |-> <<s[3]>>, next |-> 4] /\ parse_skip_one(s, 4).next = 5
  <2>1. 3 + 1 = 4 /\ 3 + 2 = 5 /\ 3 + 1 <= Len(s) /\ 3 \in Nat \ {0}
    OBVIOUS
  <2> QED BY <2>1, WordParsed
<1>4. parse_till_CRLF(s, 5) = [text |-> h, next |-> n + 7]
  <2>1. parse_till_CRLF(s, 4) = [text |-> h, next |-> n + 7]
    <3>1. 4 + n + 1 = n + 5 /\ 4 + n + 2 = n + 6 /\ 4 + n + 3 = n + 7 /\ 4 \in Nat \ {0}
      OBVIOUS
    <3> QED BY <3>1, ValueParsed
  <2>2. s[5] # SP
    <3>1. s[4 + 1] = h[1] /\ h[1] # SP
      BY DEF Vals
    <3> QED BY <3>1
  <2>3. SkipSpaces(s, 4) = 5
    <3>1. \A k \in 4..(5 - 1) : s[k] = SP
      OBVIOUS
    <3> QED BY <1>1, <2>2, <3>1, SkipIs
  <2>4. SkipSpaces(s, 5) = 5
    <3>1. \A k \in 5..(5 - 1) : FALSE
      OBVIOUS
    <3> QED BY <1>1, <2>2, <3>1, SkipIs
  <2>5. parse_till_CRLF(s, 5) = parse_till_CRLF(s, 4)
    BY <2>3, <2>4, Zenon DEF parse_till_CRLF
  <2> QED BY <2>1, <2>5
<1>5. 2 # Throws /\ 3 # Throws /\ 4 # Throws /\ 5 # Throws /\ n + 7 # Throws
  BY DEF Throws
<1>6. PICK one, skip1, two, skip2, three :
        /\ one = parse_till_space(s, 1) /\ skip1 = parse_skip_one(s, 2)
        /\ two = parse_till_space(s, 3) /\ skip2 = parse_skip_one(s, 4)
        /\ three = parse_till_CRLF(s, 5)
  OBVIOUS
<1>7. /\ one.text = <<s[1]>> /\ one.next = 2 /\ skip1.next = 3
      /\ two.text = <<s[3]>> /\ two.next = 4 /\ skip2.next = 5
      /\ three.text = h /\ three.next = n + 7
  BY <1>2, <1>3, <1>4, <1>6
<1>8. /\ one = parse_till_space(s, 1) /\ skip1 = parse_skip_one(s, one.next)
      /\ two = parse_till_space(s, skip1.next) /\ skip2 = parse_skip_one(s, two.next)
      /\ three = parse_till_CRLF(s, skip2.next)
  BY <1>6, <1>7, Zenon
<1>9. /\ one.next # Throws /\ skip1.next # Throws /\ two.next # Throws
      /\ skip2.next # Throws /\ three.next # Throws
  BY <1>5, <1>7, Zenon
<1>10. FirstLine(s) = [texts |-> <<one.text, two.text, three.text>>, next |-> three.next]
  BY <1>8, <1>9, Zenon DEF FirstLine
<1> QED BY <1>7, <1>10, Zenon

\* The first lines that are written: three texts, the last one h.
Starts == {<<m, "/p">> : m \in METHODS} \cup {<<c>> : c \in CODES}
FirstIs(c, a, b, h, n) ==
  /\ a \in Tokens \ {SP} /\ b \in Tokens \ {SP} /\ h \in Vals /\ n \in Nat \ {0} /\ n = Len(h)
  /\ c \in Seq(Tokens) /\ Len(c) = n + 6
  /\ c[1] = a /\ c[2] = SP /\ c[3] = b /\ c[4] = SP /\ \A i \in 1..n : c[4 + i] = h[i]
  /\ c[n + 5] = CR /\ c[n + 6] = LF

\* Any two words and a text make a first line.
LEMMA FirstMade ==
  ASSUME NEW a \in Tokens \ {SP}, NEW b \in Tokens \ {SP}, NEW h \in Vals, Len(h) > 0,
         NEW c, c = <<a, SP, b, SP>> \o h \o CRLF
  PROVE  FirstIs(c, a, b, h, Len(h))
<1>1. PICK n : n = Len(h)
  OBVIOUS
<1>2. h \in Seq(Tokens) /\ n \in Nat \ {0}
  BY <1>1 DEF Vals
<1>3. PICK g, t, e : g = <<a, SP, b, SP>> /\ t = <<CR, LF>> /\ e = <<>>
  OBVIOUS
<1>4. g \in Seq(Tokens) /\ Len(g) = 4 /\ g[1] = a /\ g[2] = SP /\ g[3] = b /\ g[4] = SP
  BY <1>3, NamesAreWords
<1>5. t \in Seq(Tokens) /\ Len(t) = 2 /\ t[1] = CR /\ t[2] = LF
  BY <1>3, NamesAreWords
<1>6. PICK x : x = g \o h
  OBVIOUS
<1>7. /\ x \in Seq(Tokens) /\ Len(x) = 4 + n
      /\ \A i \in 1..4 : x[i] = g[i]
      /\ \A i \in 1..n : x[4 + i] = h[i]
  <2>1. /\ g \o h \in Seq(Tokens) /\ Len(g \o h) = Len(g) + Len(h)
        /\ \A i \in 1..Len(g) : (g \o h)[i] = g[i]
        /\ \A i \in 1..Len(h) : (g \o h)[Len(g) + i] = h[i]
    <3>1. g \in Seq(Tokens) /\ h \in Seq(Tokens)
      BY <1>2, <1>4
    <3> QED BY ONLY <3>1, Joined
  <2> QED BY <1>1, <1>4, <1>6, <2>1, Zenon
<1>8. c = x \o t
  BY <1>3, <1>6, Zenon DEF CRLF
<1>9. /\ c \in Seq(Tokens) /\ Len(c) = (4 + n) + 2
      /\ \A i \in 1..(4 + n) : c[i] = x[i]
      /\ \A i \in 1..2 : c[(4 + n) + i] = t[i]
  <2>1. /\ x \o t \in Seq(Tokens) /\ Len(x \o t) = Len(x) + Len(t)
        /\ \A i \in 1..Len(x) : (x \o t)[i] = x[i]
        /\ \A i \in 1..Len(t) : (x \o t)[Len(x) + i] = t[i]
    <3>1. x \in Seq(Tokens) /\ t \in Seq(Tokens)
      BY <1>5, <1>7
    <3> QED BY ONLY <3>1, Joined
  <2> QED BY <1>5, <1>7, <1>8, <2>1, Zenon
<1>10. c[1] = a /\ c[2] = SP /\ c[3] = b /\ c[4] = SP
  <2>1. {1, 2, 3, 4} \subseteq 1..(4 + n) /\ {1, 2, 3, 4} \subseteq 1..4
    BY <1>2
  <2> QED BY <1>4, <1>7, <1>9, <2>1
<1>11. c[n + 5] = CR /\ c[n + 6] = LF
  <2>1. n + 5 = (4 + n) + 1 /\ n + 6 = (4 + n) + 2
    BY <1>2
  <2>2. 1 \in 1..2 /\ 2 \in 1..2
    OBVIOUS
  <2> QED BY <1>5, <1>9, <2>1, <2>2, Zenon
<1>12. ASSUME NEW i \in 1..n PROVE c[4 + i] = h[i]
  <2>1. 4 + i \in 1..(4 + n)
    BY <1>2
  <2> QED BY <1>7, <1>9, <2>1
<1>13. Len(c) = n + 6
  BY <1>2, <1>9
<1> QED BY <1>1, <1>2, <1>9, <1>10, <1>11, <1>12, <1>13, Zenon DEF FirstIs

\* What is known after the first line, which ends in front of r.
FirstGives(s, a, b, h, r) == FirstLine(s) = [texts |-> <<<<a>>, <<b>>, h>>, next |-> r]

\* StandsAt a first line the cursor stands after it.
LEMMA FirstRead ==
  ASSUME NEW s \in Seq(Tokens), NEW c, NEW a, NEW b, NEW h, NEW n,
         FirstIs(c, a, b, h, n), StandsAt(s, 0, c)
  PROVE  FirstGives(s, a, b, h, Len(c) + 1)
<1>1. /\ a \in Tokens \ {SP} /\ b \in Tokens \ {SP} /\ h \in Vals /\ n \in Nat \ {0} /\ n = Len(h)
      /\ Len(c) = n + 6
      /\ c[1] = a /\ c[2] = SP /\ c[3] = b /\ c[4] = SP
      /\ \A i \in 1..n : c[4 + i] = h[i]
      /\ c[n + 5] = CR /\ c[n + 6] = LF
  BY Zenon DEF FirstIs
<1>2. n + 6 <= Len(s) /\ \A i \in 1..(n + 6) : s[i] = c[i]
  <2>1. 0 + Len(c) <= Len(s) /\ \A i \in 1..Len(c) : s[0 + i] = c[i]
    BY Zenon DEF StandsAt
  <2>2. \A i \in 1..(n + 6) : 0 + i = i
    BY <1>1
  <2>3. 0 + (n + 6) = n + 6
    BY <1>1
  <2> QED BY <1>1, <2>1, <2>2, <2>3, Zenon
<1>3. s[1] = a /\ s[2] = SP /\ s[3] = b /\ s[4] = SP /\ s[n + 5] = CR /\ s[n + 6] = LF
  <2>1. {1, 2, 3, 4, n + 5, n + 6} \subseteq 1..(n + 6)
    BY <1>1
  <2> QED BY <1>1, <1>2, <2>1
<1>4. ASSUME NEW i \in 1..n PROVE s[4 + i] = h[i]
  <2>1. 4 + i \in 1..(n + 6)
    BY <1>1
  <2> QED BY <1>1, <1>2, <2>1
<1>5. FirstLine(s) = [texts |-> <<<<s[1]>>, <<s[3]>>, h>>, next |-> n + 7]
  BY <1>1, <1>2, <1>3, <1>4, FirstLineParsed
<1>6. n + 7 = Len(c) + 1
  BY <1>1
<1> QED BY <1>3, <1>5, <1>6 DEF FirstGives

\* What is known after the rest, which begins at i.
RestGives(s, i, fs, body) ==
  \A line : ParseRest(s, i, line) =
    [ok |-> TRUE, line |-> line, fields |-> FieldMap(fs), body |-> body]

\* The fields and the body behind it.
LEMMA RestParsed ==
  ASSUME NEW fs \in Seq(Lines), NEW s \in Seq(Tokens), NEW b \in Nat, Stand(s, b, fs),
         NEW e, e = b + Len(WriteFields(fs)), NEW last, FieldsEnd(s, e, last),
         Len(fs) = 0 => e = Len(s)
  PROVE  RestGives(s, b + 1, fs, SubSeq(s, last, Len(s)))
<1>0. SUFFICES ASSUME NEW line
               PROVE  ParseRest(s, b + 1, line) =
                        [ok |-> TRUE, line |-> line, fields |-> FieldMap(fs),
                         body |-> SubSeq(s, last, Len(s))]
  BY DEF RestGives
<1>1. PICK z \in Nat, m \in Nat, n \in Nat : z = Len(s) /\ m = Len(WriteFields(fs)) /\ n = Len(fs)
  <2>1. Len(s) \in Nat /\ Len(fs) \in Nat
    OBVIOUS
  <2>2. Len(WriteFields(fs)) \in Nat
    BY <2>1, LinesGrow
  <2> QED BY <2>1, <2>2
<1>2. n <= m
  BY <1>1, LinesGrow
<1>3. b + m <= z
  BY <1>1, Zenon DEF Stand
<1>4. e = b + m
  BY <1>1
<1>5. last \in Nat \ {0}
  BY <1>1, <1>4 DEF FieldsEnd
<1>6. CASE n = 0
  <2>1. fs = <<>>
    <3>1. Len(fs) = 0
      BY <1>1, <1>6
    <3> QED BY <3>1, EmptySeq
  <2>2. m = 0
    <3>1. WriteFields(fs) = <<>>
      BY <1>1, <1>6, LinesGrow
    <3> QED BY <1>1, <3>1
  <2>3. b + 1 = e + 1 /\ last = e + 1 /\ e = z
    BY <1>1, <1>4, <1>6, <2>2 DEF FieldsEnd
  <2>4. ~Remaining(s, b + 1)
    BY <1>1, <2>3 DEF Remaining
  <2>5. FieldMap(fs) = NoFields
    BY <2>1, FieldMapEmpty
  <2>6. PICK r : r = [fields |-> NoFields, next |-> b + 1]
    OBVIOUS
  <2>7. r.fields = NoFields /\ r.next = b + 1 /\ b + 1 # Throws
    BY <2>6 DEF Throws
  <2>8. ParseRest(s, b + 1, line) =
          [ok |-> TRUE, line |-> line, fields |-> r.fields, body |-> SubSeq(s, r.next, Len(s))]
    BY <2>4, <2>6, <2>7, Zenon DEF ParseRest
  <2> QED BY <2>3, <2>5, <2>7, <2>8, Zenon
<1>7. CASE n # 0
  <2>1. Remaining(s, b + 1)
    BY <1>1, <1>2, <1>3, <1>7 DEF Remaining
  <2>2. PICK r : r = parse_fields(s, b + 1)
    OBVIOUS
  <2>3. r = [fields |-> FieldMap(fs), next |-> last, done |-> TRUE]
    <3>1. Len(fs) > 0
      BY <1>1, <1>7
    <3> QED BY <2>2, <3>1, FieldsParsed, Zenon
  <2>4. r.fields = FieldMap(fs) /\ r.next = last /\ last # Throws
    BY <1>5, <2>3 DEF Throws
  <2>5. ParseRest(s, b + 1, line) =
          [ok |-> TRUE, line |-> line, fields |-> r.fields, body |-> SubSeq(s, r.next, Len(s))]
    BY <2>1, <2>2, <2>4, Zenon DEF ParseRest
  <2> QED BY <2>4, <2>5, Zenon
<1> QED BY <1>6, <1>7

\* A whole stream: first line, field lines, and perhaps the blank line and a body.
StreamRead(s, a, b, h, fs, body) ==
  \E r : FirstGives(s, a, b, h, r) /\ r # Throws /\ RestGives(s, r, fs, body)

\* With a blank line behind the fields, the rest of the stream is the body.
LEMMA BodyRead ==
  ASSUME NEW c, NEW a, NEW b, NEW h, NEW n, FirstIs(c, a, b, h, n),
         NEW fs \in Seq(Lines), Len(fs) > 0, NEW body \in Seq(Tokens),
         NEW s, s = c \o WriteFields(fs) \o CRLF \o body
  PROVE  StreamRead(s, a, b, h, fs, body)
<1>1. c \in Seq(Tokens)
  BY Zenon DEF FirstIs
<1>2. PICK w \in Seq(Tokens) : w = WriteFields(fs)
  <2>1. PICK m, D : m = Len(fs) /\ D = FieldLines(fs)
    OBVIOUS
  <2>2. m \in Nat /\ D[m] \in Seq(Tokens) /\ D[m] = WriteFields(fs)
    <3>1. m \in Nat /\ D[m] = WriteFields(fs) /\ \A i \in 0..m : D[i] \in Seq(Tokens)
      BY <2>1, LinesGrow
    <3>2. m \in 0..m
      BY <3>1
    <3> QED BY <3>1, <3>2
  <2> QED BY <2>2
<1>3. PICK t : t = <<CR, LF>>
  OBVIOUS
<1>4. t \in Seq(Tokens) /\ Len(t) = 2 /\ t[1] = CR /\ t[2] = LF
  BY <1>3, NamesAreWords
<1>5. s = c \o w \o t \o body
  BY <1>2, <1>3, Zenon DEF CRLF
<1>6. PICK l \in Nat, m \in Nat, k \in Nat : l = Len(c) /\ m = Len(w) /\ k = Len(body)
  BY <1>1
<1>7. /\ s \in Seq(Tokens) /\ Len(s) = l + m + 2 + k /\ StandsAt(s, 0, c) /\ StandsAt(s, l, w)
      /\ StandsAt(s, l + m, t) /\ StandsAt(s, l + m + 2, body)
  <2>1. s \in Seq(Tokens) /\ Stacked(s, c, w, t, body)
    BY <1>1, <1>4, <1>5, FourParts
  <2> QED BY <1>4, <1>6, <2>1, Zenon DEF Stacked
<1>8. FirstGives(s, a, b, h, l + 1)
  <2>1. s \in Seq(Tokens) /\ FirstIs(c, a, b, h, n) /\ StandsAt(s, 0, c)
    BY <1>7, Zenon
  <2>2. FirstGives(s, a, b, h, Len(c) + 1)
    BY ONLY <2>1, FirstRead, Zenon
  <2> QED BY <1>6, <2>2, Zenon
<1>9. Stand(s, l, fs)
  BY <1>2, <1>7, Zenon DEF Stand, StandsAt
<1>10. PICK e \in Nat, last \in Nat : e = l + m /\ last = e + 3
  <2>1. l + m \in Nat /\ l + m + 3 \in Nat
    OBVIOUS
  <2> QED BY <2>1
<1>11. FieldsEnd(s, e, last)
  <2>1. e + 2 <= Len(s)
    BY <1>7, <1>10
  <2>2. 1 \in 1..2 /\ 2 \in 1..2
    OBVIOUS
  <2>3. s[e + 1] = CR /\ s[e + 2] = LF
    BY <1>4, <1>7, <1>10, <2>2, Zenon DEF StandsAt
  <2> QED BY <1>10, <2>1, <2>3, Zenon DEF FieldsEnd
<1>12. SubSeq(s, last, Len(s)) = body
  <2>1. PICK q \in Nat : q = l + m + 2 /\ q + 1 = last /\ q + k = Len(s)
    <3>1. l + m + 2 \in Nat /\ (l + m + 2) + 1 = last
      BY <1>10
    <3> QED BY <1>7, <3>1
  <2>2. q + Len(body) <= Len(s) /\ \A i \in 1..Len(body) : s[q + i] = body[i]
    BY <1>7, <2>1, Zenon DEF StandsAt
  <2>3. SubSeq(s, q + 1, q + Len(body)) = body
    BY <1>7, <2>2, PartIs
  <2> QED BY <1>6, <2>1, <2>3, Zenon
<1>13. RestGives(s, l + 1, fs, body)
  <2>1. e = l + Len(WriteFields(fs)) /\ ~(Len(fs) = 0)
    BY <1>2, <1>6, <1>10
  <2>2. /\ fs \in Seq(Lines) /\ s \in Seq(Tokens) /\ l \in Nat /\ Stand(s, l, fs)
        /\ e = l + Len(WriteFields(fs)) /\ FieldsEnd(s, e, last) /\ (Len(fs) = 0 => e = Len(s))
    BY <1>7, <1>9, <1>11, <2>1, Zenon
  <2>3. RestGives(s, l + 1, fs, SubSeq(s, last, Len(s)))
    BY ONLY <2>2, RestParsed, Zenon
  <2> QED BY <1>12, <2>3, Zenon
<1>14. l + 1 # Throws
  BY DEF Throws
<1> QED BY <1>8, <1>13, <1>14, Zenon DEF StreamRead

\* Without one the stream ends with the fields, and the body is empty.
LEMMA BodylessRead ==
  ASSUME NEW c, NEW a, NEW b, NEW h, NEW n, FirstIs(c, a, b, h, n),
         NEW fs \in Seq(Lines), NEW s, s = c \o WriteFields(fs)
  PROVE  StreamRead(s, a, b, h, fs, <<>>)
<1>1. c \in Seq(Tokens)
  BY Zenon DEF FirstIs
<1>2. PICK w \in Seq(Tokens) : w = WriteFields(fs)
  <2>1. PICK m, D : m = Len(fs) /\ D = FieldLines(fs)
    OBVIOUS
  <2>2. m \in Nat /\ D[m] \in Seq(Tokens) /\ D[m] = WriteFields(fs)
    <3>1. m \in Nat /\ D[m] = WriteFields(fs) /\ \A i \in 0..m : D[i] \in Seq(Tokens)
      BY <2>1, LinesGrow
    <3>2. m \in 0..m
      BY <3>1
    <3> QED BY <3>1, <3>2
  <2> QED BY <2>2
<1>3. s = c \o w
  BY <1>2
<1>4. PICK l \in Nat, m \in Nat : l = Len(c) /\ m = Len(w)
  BY <1>1
<1>5. /\ s \in Seq(Tokens) /\ Len(s) = l + m
      /\ \A i \in 1..l : s[i] = c[i]
      /\ \A i \in 1..m : s[l + i] = w[i]
  <2>1. /\ c \o w \in Seq(Tokens) /\ Len(c \o w) = Len(c) + Len(w)
        /\ \A i \in 1..Len(c) : (c \o w)[i] = c[i]
        /\ \A i \in 1..Len(w) : (c \o w)[Len(c) + i] = w[i]
    BY ONLY <1>1, Joined
  <2> QED BY <1>3, <1>4, <2>1, Zenon
<1>6. StandsAt(s, 0, c)
  <2>1. 0 + l <= Len(s) /\ \A i \in 1..l : 0 + i = i
    BY <1>5
  <2> QED BY <1>4, <1>5, <2>1, Zenon DEF StandsAt
<1>7. Stand(s, l, fs)
  <2>1. l + m <= Len(s)
    BY <1>5
  <2> QED BY <1>2, <1>4, <1>5, <2>1, Zenon DEF Stand
<1>8. FirstGives(s, a, b, h, l + 1)
  <2>1. s \in Seq(Tokens) /\ FirstIs(c, a, b, h, n) /\ StandsAt(s, 0, c)
    BY <1>5, <1>6, Zenon
  <2>2. FirstGives(s, a, b, h, Len(c) + 1)
    BY ONLY <2>1, FirstRead, Zenon
  <2> QED BY <1>4, <2>2, Zenon
<1>9. PICK e \in Nat, last \in Nat : e = l + m /\ last = e + 1
  <2>1. l + m \in Nat /\ l + m + 1 \in Nat
    OBVIOUS
  <2> QED BY <2>1
<1>10. FieldsEnd(s, e, last)
  BY <1>5, <1>9, Zenon DEF FieldsEnd
<1>11. SubSeq(s, last, Len(s)) = <<>>
  <2>1. last = Len(s) + 1
    BY <1>5, <1>9
  <2> QED BY <1>5, <2>1
<1>12. RestGives(s, l + 1, fs, <<>>)
  <2>1. e = l + Len(WriteFields(fs)) /\ e = Len(s)
    BY <1>2, <1>4, <1>5, <1>9, Zenon
  <2>2. /\ fs \in Seq(Lines) /\ s \in Seq(Tokens) /\ l \in Nat /\ Stand(s, l, fs)
        /\ e = l + Len(WriteFields(fs)) /\ FieldsEnd(s, e, last) /\ (Len(fs) = 0 => e = Len(s))
    BY <1>5, <1>7, <1>10, <2>1, Zenon
  <2>3. RestGives(s, l + 1, fs, SubSeq(s, last, Len(s)))
    BY ONLY <2>2, RestParsed, Zenon
  <2> QED BY <1>11, <2>3, Zenon
<1>13. l + 1 # Throws
  BY DEF Throws
<1> QED BY <1>8, <1>12, <1>13, Zenon DEF StreamRead

\* A request that is read is known by its method and its path.
LEMMA RequestRead ==
  ASSUME NEW s, NEW a, NEW b, NEW h, NEW fs, NEW body, StreamRead(s, a, b, h, fs, body),
         h = <<"HTTP/1.1">>, a \in METHODS
  PROVE  ParseRequest(s) = [ok |-> TRUE, line |-> <<<<a>>, <<b>>>>, fields |-> FieldMap(fs), body |-> body]
<1>1. PICK r : FirstGives(s, a, b, h, r) /\ r # Throws /\ RestGives(s, r, fs, body)
  BY Zenon DEF StreamRead
<1>2. PICK t : t = <<<<a>>, <<b>>, h>>
  OBVIOUS
<1>3. t[1] = <<a>> /\ t[2] = <<b>> /\ t[3] = h
  BY <1>2
<1>4. PICK first : first = FirstLine(s) /\ first = [texts |-> t, next |-> r]
  BY <1>1, <1>2, Zenon DEF FirstGives
<1>5. first.texts = t /\ first.next = r
  BY <1>4
<1>6. <<a>> \in OneOf(METHODS) /\ h \in OneOf(VERSIONS)
  BY Zenon DEF OneOf, VERSIONS
<1>7. ParseRequest(s) = ParseRest(s, r, <<<<a>>, <<b>>>>)
  BY <1>1, <1>3, <1>4, <1>5, <1>6, Zenon DEF ParseRequest
<1> QED BY <1>1, <1>7, Zenon DEF RestGives

\* A response is known by its code.
LEMMA ResponseRead ==
  ASSUME NEW s, NEW a, NEW b, NEW h, NEW fs, NEW body, StreamRead(s, a, b, h, fs, body),
         a = "HTTP/1.1", b \in CODES
  PROVE  ParseResponse(s) = [ok |-> TRUE, line |-> <<<<b>>>>, fields |-> FieldMap(fs), body |-> body]
<1>1. PICK r : FirstGives(s, a, b, h, r) /\ r # Throws /\ RestGives(s, r, fs, body)
  BY Zenon DEF StreamRead
<1>2. PICK t : t = <<<<a>>, <<b>>, h>>
  OBVIOUS
<1>3. t[1] = <<a>> /\ t[2] = <<b>> /\ t[3] = h
  BY <1>2
<1>4. PICK first : first = FirstLine(s) /\ first = [texts |-> t, next |-> r]
  BY <1>1, <1>2, Zenon DEF FirstGives
<1>5. first.texts = t /\ first.next = r
  BY <1>4
<1>6. <<b>> \in OneOf(CODES) /\ <<a>> \in OneOf(VERSIONS)
  BY Zenon DEF OneOf, VERSIONS
<1>7. ParseResponse(s) = ParseRest(s, r, <<<<b>>>>)
  BY <1>1, <1>3, <1>4, <1>5, <1>6, Zenon DEF ParseResponse
<1> QED BY <1>1, <1>7, Zenon DEF RestGives

\* The words of the first lines are tokens, and none is a delimiter.
LEMMA WordsOfStarts ==
  /\ METHODS \subseteq Tokens \ {SP} /\ CODES \subseteq Tokens \ {SP}
  /\ \A w \in {"/p", "HTTP/1.1", "OK", "Not", "Found"} :
       w \in Tokens \ {SP} /\ w # CR /\ w # LF
<1>1. SP \notin METHODS /\ SP \notin CODES
  BY DEF SP, METHODS, CODES
<1>2. \A w \in {"/p", "HTTP/1.1", "OK", "Not", "Found"} : w # SP /\ w # CR /\ w # LF
  BY DEF SP, CR, LF
<1> QED BY <1>1, <1>2, Zenon DEF Tokens

\* The texts that end a first line are values.
LEMMA Reasons ==
  ASSUME NEW h \in {<<"HTTP/1.1">>, <<"OK">>, <<"Not", SP, "Found">>}
  PROVE  h \in Vals /\ Len(h) > 0
<1>1. ASSUME NEW w, w \in Tokens \ {SP}, w # CR, w # LF PROVE <<w>> \in Vals /\ Len(<<w>>) > 0
  <2>1. PICK u : u = <<w>>
    OBVIOUS
  <2>2. u \in Seq(Tokens) /\ Len(u) = 1 /\ u[1] = w
    BY <1>1, <2>1
  <2>3. \A i \in 1..Len(u) : u[i] \notin {CR, LF}
    BY <1>1, <2>2
  <2>4. u \in Vals
    BY <1>1, <2>2, <2>3 DEF Vals
  <2> QED BY <2>1, <2>2, <2>4
<1>2. ASSUME NEW w, w \in Tokens \ {SP}, w # CR, w # LF,
             NEW x, x \in Tokens \ {SP}, x # CR, x # LF
      PROVE  <<w, SP, x>> \in Vals /\ Len(<<w, SP, x>>) > 0
  <2>1. PICK u : u = <<w, SP, x>>
    OBVIOUS
  <2>2. u \in Seq(Tokens) /\ Len(u) = 3 /\ u[1] = w /\ u[2] = SP /\ u[3] = x
    BY <1>2, <2>1, NamesAreWords
  <2>3. \A i \in 1..Len(u) : u[i] \notin {CR, LF}
    <3>1. \A i \in 1..Len(u) : i = 1 \/ i = 2 \/ i = 3
      BY <2>2
    <3> QED BY <1>2, <2>2, <3>1, NamesAreWords
  <2>4. u \in Vals
    BY <1>2, <2>2, <2>3 DEF Vals
  <2> QED BY <2>1, <2>2, <2>4
<1>3. CASE h = <<"HTTP/1.1">>
  BY <1>1, <1>3, WordsOfStarts, Zenon
<1>4. CASE h = <<"OK">>
  BY <1>1, <1>4, WordsOfStarts, Zenon
<1>5. CASE h = <<"Not", SP, "Found">>
  BY <1>2, <1>5, WordsOfStarts, Zenon
<1> QED BY <1>3, <1>4, <1>5

\* The first line of a request.
LEMMA RequestStart ==
  ASSUME NEW m \in METHODS, NEW line, line = <<m, "/p">>
  PROVE  \E p, h, n : /\ p = "/p" /\ h = <<"HTTP/1.1">>
                      /\ FirstIs(WriteFirst(line), m, p, h, n)
<1>1. PICK p, v, h : p = "/p" /\ v = "HTTP/1.1" /\ h = <<v>>
  OBVIOUS
<1>2. Len(line) = 2 /\ line[1] = m /\ line[2] = p
  <2>1. line = <<m, p>>
    BY <1>1, Zenon
  <2> QED BY ONLY <2>1
<1>3. WriteFirst(line) = <<m, SP, p, SP, v>> \o CRLF
  BY <1>1, <1>2, Zenon DEF WriteFirst
<1>4. <<m, SP, p, SP, v>> = <<m, SP, p, SP>> \o h
  <2>1. h = <<v>>
    BY <1>1
  <2> QED BY ONLY <2>1
<1>5. WriteFirst(line) = <<m, SP, p, SP>> \o h \o CRLF
  BY <1>3, <1>4, Zenon
<1>6. m \in Tokens \ {SP} /\ p \in Tokens \ {SP}
  BY <1>1, WordsOfStarts, Zenon
<1>7. h = <<"HTTP/1.1">>
  BY <1>1, Zenon
<1>8. h \in Vals /\ Len(h) > 0
  BY <1>7, Reasons, Zenon
<1>9. FirstIs(WriteFirst(line), m, p, h, Len(h))
  BY <1>5, <1>6, <1>8, FirstMade, Zenon
<1> QED BY <1>1, <1>7, <1>9, Zenon

\* The first line of a response.
LEMMA ResponseStart ==
  ASSUME NEW c \in CODES, NEW line, line = <<c>>
  PROVE  \E v, h, n : v = "HTTP/1.1" /\ FirstIs(WriteFirst(line), v, c, h, n)
<1>1. PICK v, h : v = "HTTP/1.1" /\ h = IF c = "404" THEN <<"Not", SP, "Found">> ELSE <<"OK">>
  OBVIOUS
<1>2. Len(line) # 2 /\ line[1] = c
  BY ONLY line = <<c>>
<1>3. WriteFirst(line) = <<v, SP, c, SP>> \o h \o CRLF
  BY <1>1, <1>2, Zenon DEF WriteFirst
<1>4. v \in Tokens \ {SP} /\ c \in Tokens \ {SP}
  BY <1>1, WordsOfStarts, Zenon
<1>5. h \in Vals /\ Len(h) > 0
  <2>1. h \in {<<"HTTP/1.1">>, <<"OK">>, <<"Not", SP, "Found">>}
    BY <1>1, Zenon
  <2> QED BY <2>1, Reasons, Zenon
<1>6. FirstIs(WriteFirst(line), v, c, h, Len(h))
  BY <1>3, <1>4, <1>5, FirstMade, Zenon
<1> QED BY <1>1, <1>6, Zenon

\* Every message that is written: its first line, its field lines, its body.
Forms == [line : Starts, fields : Seq(Lines), body : Seq(Tokens)]
MessageTypes == msg = NoMessage \/ msg \in Forms

\* The field lines that no client or handler chose.
LEMMA FixedLines ==
  /\ ContentLength \in Lines /\ StandardFields \in Seq(Lines)
  /\ \A accept : ErrorFields(accept) \subseteq Lines /\ IsFiniteSet(ErrorFields(accept))
<1>1. ASSUME NEW w \in {"n", "now", "close", "mms", "application/json", "text/html"}
      PROVE  <<w>> \in Vals
  <2>1. w \in Tokens
    BY Zenon DEF Tokens
  <2>2. w # SP /\ w # CR /\ w # LF
    BY DEF SP, CR, LF
  <2>3. PICK u : u = <<w>>
    OBVIOUS
  <2>4. u \in Seq(Tokens) /\ Len(u) = 1 /\ u[1] = w
    BY ONLY <2>1, <2>3
  <2>5. \A i \in 1..Len(u) : u[i] \notin {CR, LF}
    BY ONLY <2>2, <2>4
  <2>6. u[1] # SP /\ u[Len(u)] # SP
    BY ONLY <2>2, <2>4
  <2>7. u \in Vals
    BY <2>4, <2>5, <2>6, Zenon DEF Vals
  <2> QED BY <2>3, <2>7
<1>2. ASSUME NEW f \in {"Date", "Server", "Connection", "Content-Type", "Content-Length"},
             NEW w \in {"n", "now", "close", "mms", "application/json", "text/html"}
      PROVE  <<f, <<w>>>> \in Lines
  <2>1. f \in Names
    BY Zenon DEF Names
  <2>2. PICK v : v = <<w>> /\ v \in Vals
    BY <1>1
  <2>3. <<f, v>> \in Lines
    BY ONLY <2>1, <2>2 DEF Lines
  <2> QED BY <2>2, <2>3, Zenon
<1>3. ContentLength \in Lines
  BY <1>2, Zenon DEF ContentLength
<1>4. StandardFields \in Seq(Lines)
  <2>1. PICK x, y : x = <<"Date", <<"now">>>> /\ y = <<"Server", <<"mms">>>>
    OBVIOUS
  <2>2. x \in Lines /\ y \in Lines
    BY <1>2, <2>1, Zenon
  <2>3. <<x, y>> \in Seq(Lines)
    BY ONLY <2>2
  <2>4. StandardFields = <<x, y>>
    BY <2>1, Zenon DEF StandardFields
  <2> QED BY <2>3, <2>4, Zenon
<1>5. ASSUME NEW accept PROVE ErrorFields(accept) \subseteq Lines /\ IsFiniteSet(ErrorFields(accept))
  <2>1. PICK x, y, z, k, t : /\ x = <<"Date", <<"now">>>> /\ y = <<"Connection", <<"close">>>>
                             /\ z = <<"Server", <<"mms">>>> /\ k = <<"Content-Type", t>>
                             /\ t = IF accept = "json" THEN <<"application/json">> ELSE <<"text/html">>
    OBVIOUS
  <2>2. x \in Lines /\ y \in Lines /\ z \in Lines
    BY <1>2, <2>1, Zenon
  <2>3. k \in Lines
    <3>1. CASE accept = "json"
      <4>1. t = <<"application/json">>
        BY <2>1, <3>1, Zenon
      <4> QED BY <1>2, <2>1, <4>1, Zenon
    <3>2. CASE accept # "json"
      <4>1. t = <<"text/html">>
        BY <2>1, <3>2, Zenon
      <4> QED BY <1>2, <2>1, <4>1, Zenon
    <3> QED BY <3>1, <3>2
  <2>4. ErrorFields(accept) = {x, y, z, k}
    BY <2>1, Zenon DEF ErrorFields
  <2>5. IsFiniteSet({x, y, z, k})
    <3>1. IsFiniteSet({x}) /\ IsFiniteSet({y}) /\ IsFiniteSet({z}) /\ IsFiniteSet({k})
      BY FS_Singleton
    <3>2. IsFiniteSet({x} \cup {y})
      BY ONLY <3>1, FS_Union
    <3>3. IsFiniteSet({x} \cup {y} \cup {z})
      BY ONLY <3>1, <3>2, FS_Union
    <3>4. IsFiniteSet({x} \cup {y} \cup {z} \cup {k})
      BY ONLY <3>1, <3>3, FS_Union
    <3>5. {x, y, z, k} = {x} \cup {y} \cup {z} \cup {k}
      OBVIOUS
    <3> QED BY <3>4, <3>5, Zenon
  <2>6. {x, y, z, k} \subseteq Lines
    BY <2>2, <2>3, Zenon
  <2> QED BY <2>4, <2>5, <2>6, Zenon
<1> QED BY <1>3, <1>4, <1>5

\* The orders of a finite set are sequences of its elements.
LEMMA Orders ==
  ASSUME NEW S, IsFiniteSet(S), NEW fs \in SetToSeqs(S)
  PROVE  fs \in Seq(S)
<1>1. PICK n \in Nat : n = Cardinality(S)
  BY FS_CardinalityType
<1>2. fs \in [1..n -> S]
  BY <1>1 DEF SetToSeqs
<1> QED BY <1>2

\* What a step replaces in a message.
LEMMA Replaced ==
  ASSUME NEW R, NEW L, NEW U, NEW r \in [line : R, fields : Seq(L), body : U]
  PROVE  /\ \A S : \A x \in S : [r EXCEPT !.line = x] \in [line : S, fields : Seq(L), body : U]
         /\ \A S : \A x \in S : \A y \in Seq(L) :
              [r EXCEPT !.line = x, !.fields = y] \in [line : S, fields : Seq(L), body : U]
<1>1. ASSUME NEW S, NEW x \in S PROVE [r EXCEPT !.line = x] \in [line : S, fields : Seq(L), body : U]
  OBVIOUS
<1>2. ASSUME NEW S, NEW x \in S, NEW y \in Seq(L)
      PROVE  [r EXCEPT !.line = x, !.fields = y] \in [line : S, fields : Seq(L), body : U]
  OBVIOUS
<1> QED BY <1>1, <1>2, Zenon

\* The values and bodies that callers pass.
LEMMA Given ==
  /\ \A f \in FieldNames \cup {Unknown}, v \in Values : <<f, v>> \in Lines
  /\ Bodies \subseteq Seq(Tokens)
<1>1. ASSUME NEW v \in Values PROVE v \in Vals
  <2>1. PICK W : W = Range(v)
    OBVIOUS
  <2>2. v \in Seq(W) /\ {CR, LF} \cap W = {} /\ (v # <<>> => v[1] # SP /\ v[Len(v)] # SP)
    BY <2>1, MessageAssumption, Zenon
  <2>3. W \subseteq Tokens
    <3>1. W \subseteq UNION {Range(u) : u \in Values \cup Bodies}
      BY <2>1
    <3> QED BY <3>1, Zenon DEF Tokens
  <2>4. v \in Seq(Tokens)
    BY <2>2, <2>3
  <2>5. \A i \in 1..Len(v) : v[i] \notin {CR, LF}
    BY <2>2
  <2>6. Len(v) > 0 => v[1] # SP /\ v[Len(v)] # SP
    <3>1. Len(v) > 0 => v # <<>>
      BY <2>4
    <3> QED BY <2>2, <3>1, Zenon
  <2> QED BY <2>4, <2>5, <2>6, Zenon DEF Vals
<1>2. ASSUME NEW f \in FieldNames \cup {Unknown}, NEW v \in Values PROVE <<f, v>> \in Lines
  <2>1. f \in Names
    BY Zenon DEF Names
  <2>2. v \in Vals
    BY <1>1
  <2> QED BY ONLY <2>1, <2>2 DEF Lines
<1>3. ASSUME NEW b \in Bodies PROVE b \in Seq(Tokens)
  <2>1. PICK W : W = Range(b)
    OBVIOUS
  <2>2. b \in Seq(W)
    BY <2>1, MessageAssumption, Zenon
  <2>3. W \subseteq Tokens
    <3>1. W \subseteq UNION {Range(u) : u \in Values \cup Bodies}
      BY <2>1
    <3> QED BY <3>1, Zenon DEF Tokens
  <2> QED BY <2>2, <2>3
<1> QED BY <1>2, <1>3, Zenon

\* Every step makes or extends such a message.
LEMMA MessageStep == MessageTypes /\ [MessageNext]_msg => MessageTypes'
<1>1. SUFFICES ASSUME MessageTypes, [MessageNext]_msg PROVE MessageTypes'
  OBVIOUS
<1>2. NoMessage \in [line : {<<>>}, fields : Seq(Lines), body : Seq(Tokens)]
  <2>1. <<>> \in Seq(Lines) /\ <<>> \in Seq(Tokens)
    OBVIOUS
  <2> QED BY <2>1 DEF NoMessage
<1>3. CASE StartRequest
  <2>1. PICK m \in METHODS : msg' = [NoMessage EXCEPT !.line = <<m, "/p">>]
    BY <1>3, Zenon DEF StartRequest
  <2>2. <<m, "/p">> \in Starts
    BY Zenon DEF Starts
  <2>3. msg' \in Forms
    BY <1>2, <2>1, <2>2, Replaced, Zenon DEF Forms
  <2> QED BY <2>3 DEF MessageTypes
<1>4. CASE StartResponse
  <2>1. PICK c \in CODES : msg' = [NoMessage EXCEPT !.line = <<c>>, !.fields = StandardFields]
    BY <1>4, Zenon DEF StartResponse
  <2>2. <<c>> \in Starts
    BY Zenon DEF Starts
  <2>3. msg' \in Forms
    BY <1>2, <2>1, <2>2, FixedLines, Replaced, Zenon DEF Forms
  <2> QED BY <2>3 DEF MessageTypes
<1>5. CASE ErrorMessage
  <2>1. PICK accept : \E fs \in SetToSeqs(ErrorFields(accept)) :
          msg' = [line |-> <<"404">>, fields |-> fs, body |-> <<"html">>]
    BY <1>5, Zenon DEF ErrorMessage
  <2>0. PICK fs \in SetToSeqs(ErrorFields(accept)) :
          msg' = [line |-> <<"404">>, fields |-> fs, body |-> <<"html">>]
    BY <2>1
  <2>2. PICK S : S = ErrorFields(accept) /\ S \subseteq Lines /\ fs \in Seq(S)
    BY FixedLines, Orders, Zenon
  <2>3. fs \in Seq(Lines)
    BY <2>2
  <2>4. <<"404">> \in Starts
    BY Zenon DEF Starts, CODES
  <2>5. <<"html">> \in Seq(Tokens)
    <3>1. PICK w \in Tokens : w = "html"
      BY Zenon DEF Tokens
    <3>2. <<w>> \in Seq(Tokens)
      OBVIOUS
    <3> QED BY <3>1, <3>2, Zenon
  <2>6. PICK l \in Starts, b \in Seq(Tokens) : l = <<"404">> /\ b = <<"html">>
    BY <2>4, <2>5, Zenon
  <2>7. msg' = [line |-> l, fields |-> fs, body |-> b]
    BY <2>0, <2>6, Zenon
  <2>8. msg' \in Forms
    BY <2>3, <2>7 DEF Forms
  <2> QED BY <2>8 DEF MessageTypes
<1>6. CASE AddField
  <2>1. msg \in Forms
    BY <1>1, <1>6, Zenon DEF MessageTypes, AddField
  <2>2. PICK f \in FieldNames \cup {Unknown}, v \in Values : msg' = [msg EXCEPT !.fields = Append(@, <<f, v>>)]
    BY <1>6, Zenon DEF AddField
  <2>3. PICK y \in Lines : y = <<f, v>>
    BY Given, Zenon
  <2>4. msg' = [msg EXCEPT !.fields = Append(@, y)]
    BY <2>2, <2>3, Zenon
  <2>5. msg' \in Forms
    <3>1. PICK R, L, U : R = Starts /\ L = Lines /\ U = Seq(Tokens)
      OBVIOUS
    <3>2. msg \in [line : R, fields : Seq(L), body : U] /\ y \in L
      BY <2>1, <3>1, Zenon DEF Forms
    <3>3. [msg EXCEPT !.fields = Append(@, y)] \in [line : R, fields : Seq(L), body : U]
      BY ONLY <3>2
    <3> QED BY <2>4, <3>1, <3>3, Zenon DEF Forms
  <2> QED BY <2>5 DEF MessageTypes
<1>7. CASE AddBody
  <2>1. msg \in Forms
    BY <1>1, <1>7, Zenon DEF MessageTypes, AddBody
  <2>2. PICK b \in Seq(Tokens) : msg' = [msg EXCEPT !.body = b]
    BY <1>7, Given, Zenon DEF AddBody
  <2>3. msg' \in Forms
    BY <2>1, <2>2 DEF Forms
  <2> QED BY <2>3 DEF MessageTypes
<1>8. CASE UNCHANGED msg
  BY <1>1, <1>8, Zenon DEF MessageTypes
<1> QED BY <1>1, <1>3, <1>4, <1>5, <1>6, <1>7, <1>8, Zenon DEF MessageNext

\* Both ways to write a message are read: a body after the blank line, or none.
LEMMA BothRead ==
  ASSUME NEW line, NEW a, NEW b, NEW h, NEW n, FirstIs(WriteFirst(line), a, b, h, n),
         NEW fs \in Seq(Lines), NEW body \in Seq(Tokens)
  PROVE  /\ StreamRead(WriteMessage(line, fs, body), a, b, h, Append(fs, ContentLength), body)
         /\ StreamRead(WriteBodyless(line, fs), a, b, h, fs, <<>>)
<1>1. PICK c : c = WriteFirst(line)
  OBVIOUS
<1>2. PICK gs \in Seq(Lines) : gs = Append(fs, ContentLength) /\ Len(gs) > 0
  <2>1. PICK y \in Lines : y = ContentLength
    BY FixedLines
  <2>2. Append(fs, y) \in Seq(Lines) /\ Len(Append(fs, y)) > 0
    OBVIOUS
  <2> QED BY <2>1, <2>2, Zenon
<1>3. PICK s : s = c \o WriteFields(gs) \o CRLF \o body
  OBVIOUS
<1>4. s = WriteMessage(line, fs, body)
  BY <1>1, <1>2, <1>3, Zenon DEF WriteMessage
<1>5. StreamRead(s, a, b, h, gs, body)
  BY <1>1, <1>2, <1>3, BodyRead, Zenon
<1>6. PICK x : x = c \o WriteFields(fs)
  OBVIOUS
<1>7. x = WriteBodyless(line, fs)
  BY <1>1, <1>6, Zenon DEF WriteBodyless
<1>8. StreamRead(x, a, b, h, fs, <<>>)
  BY <1>1, <1>6, BodylessRead, Zenon
<1> QED BY <1>2, <1>4, <1>5, <1>7, <1>8, Zenon

\* So every message of these forms comes back.
LEMMA FormsTrip == MessageTypes => MessageRoundTrip
<1>1. SUFFICES ASSUME msg \in Forms PROVE MessageRoundTrip
  BY Zenon DEF MessageTypes, MessageRoundTrip
<1>2. PICK line \in Starts, fs \in Seq(Lines), body \in Seq(Tokens) :
        msg.line = line /\ msg.fields = fs /\ msg.body = body
  BY <1>1 DEF Forms
<1>3. PICK texts : texts = [i \in DOMAIN line |-> <<line[i]>>]
  OBVIOUS
<1>4. PICK s, x, gs : /\ s = WriteMessage(line, fs, body) /\ x = WriteBodyless(line, fs)
                      /\ gs = Append(fs, ContentLength)
  OBVIOUS
<1>5. ASSUME NEW m \in METHODS, line = <<m, "/p">>
      PROVE  /\ Len(line) = 2
             /\ ParseRequest(s) = [ok |-> TRUE, line |-> texts, fields |-> FieldMap(gs), body |-> body]
             /\ ParseRequest(x) = [ok |-> TRUE, line |-> texts, fields |-> FieldMap(fs), body |-> <<>>]
  <2>1. PICK p, h, n : h = <<"HTTP/1.1">> /\ p = "/p" /\ FirstIs(WriteFirst(line), m, p, h, n)
    BY <1>5, RequestStart, Zenon
  <2>2. line = <<m, p>>
    BY <1>5, <2>1, Zenon
  <2>3. Len(line) = 2 /\ texts = <<<<m>>, <<p>>>>
    BY ONLY <1>3, <2>2
  <2>4. StreamRead(s, m, p, h, gs, body) /\ StreamRead(x, m, p, h, fs, <<>>)
    BY <1>4, <2>1, BothRead, Zenon
  <2>5. /\ ParseRequest(s) = [ok |-> TRUE, line |-> <<<<m>>, <<p>>>>, fields |-> FieldMap(gs), body |-> body]
        /\ ParseRequest(x) = [ok |-> TRUE, line |-> <<<<m>>, <<p>>>>, fields |-> FieldMap(fs), body |-> <<>>]
    BY <2>1, <2>4, RequestRead, Zenon
  <2> QED BY <2>3, <2>5, Zenon
<1>6. ASSUME NEW c \in CODES, line = <<c>>
      PROVE  /\ Len(line) # 2
             /\ ParseResponse(s) = [ok |-> TRUE, line |-> texts, fields |-> FieldMap(gs), body |-> body]
             /\ ParseResponse(x) = [ok |-> TRUE, line |-> texts, fields |-> FieldMap(fs), body |-> <<>>]
  <2>1. PICK v, h, n : v = "HTTP/1.1" /\ FirstIs(WriteFirst(line), v, c, h, n)
    BY <1>6, ResponseStart, Zenon
  <2>2. line = <<c>>
    BY <1>6
  <2>3. Len(line) # 2 /\ texts = <<<<c>>>>
    BY ONLY <1>3, <2>2
  <2>4. StreamRead(s, v, c, h, gs, body) /\ StreamRead(x, v, c, h, fs, <<>>)
    BY <1>4, <2>1, BothRead, Zenon
  <2>5. /\ ParseResponse(s) = [ok |-> TRUE, line |-> <<<<c>>>>, fields |-> FieldMap(gs), body |-> body]
        /\ ParseResponse(x) = [ok |-> TRUE, line |-> <<<<c>>>>, fields |-> FieldMap(fs), body |-> <<>>]
    BY <2>1, <2>4, ResponseRead, Zenon
  <2> QED BY <2>3, <2>5, Zenon
<1>7. \/ \E m \in METHODS : line = <<m, "/p">>
      \/ \E c \in CODES : line = <<c>>
  BY Zenon DEF Starts
<1> QED BY <1>2, <1>3, <1>4, <1>5, <1>6, <1>7, Zenon DEF MessageRoundTrip

\* MessageRoundTrip is an invariant: whatever fields and body are written behind
\* a first line, the parser gives back the line, the last value of every known
\* field, and the body (parser.cpp:63-122, 181-292, http1.cpp:131-174).
THEOREM MessagesTripRound == MessageSpec => []MessageRoundTrip
<1>1. MessageInit => MessageTypes
  BY Zenon DEF MessageInit, MessageTypes
<1>2. MessageTypes /\ [MessageNext]_msg => MessageTypes'
  BY MessageStep
<1>3. MessageTypes => MessageRoundTrip
  BY FormsTrip
<1> QED BY <1>1, <1>2, <1>3, PTL DEF MessageSpec
=============================================================================
