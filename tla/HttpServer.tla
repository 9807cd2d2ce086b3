----------------------------- MODULE HttpServer -----------------------------
(***************************************************************************)
(* One HTTP connection on the server: the HTTP/1 protocol object and its   *)
(* replacement by an HTTP/2 object (server/src/http1.cpp, http2.cpp), the  *)
(* HTTP/2 frames and the list of requests of one read (http/http2.h), the  *)
(* settings, the header table shared by both directions, and the frames of *)
(* a response (lib/http2.cpp).                                             *)
(*                                                                         *)
(* Frames are chosen when they are read; a header block is the sequence of *)
(* representations the decoder sees in it.  A path and a method are        *)
(* abstracted to the outcome of ProcessRequest.  Nodes of the request list *)
(* are numbered in order of allocation.  Of response_buffer the frames, the*)
(* octets in use and the capacity are kept.                                *)
(***************************************************************************)
EXTENDS HpackTable

CONSTANTS
  Versions,     \* http_version_t: protocols a configuration allows
  Streams,      \* stream identifiers of the peer, without 0
  Reps,         \* header representations the peer may send
  Outcomes,     \* answers of a handler: [code, body], body = -1 for none
  SettingIds,   \* settings::identifier_t; "HEADER_TABLE_SIZE" is one of them
  Limits,       \* http_limits_t: [min, max] of each setting
  Requested,    \* values the peer asks for
  Defaults,     \* settings_store's initial values
  InitialMax,   \* dynamic_table_t's initial max_size (12)
  MaxBody,      \* max_frame_size - sizeof(frame)
  FrameHead,    \* sizeof(frame)
  BlockSizes,   \* octets of the header block of an answer
  ControlSize,  \* octets of each frame that is not part of an answer
  BufferSize,   \* response_buffer_initial_size
  MaxReads, MaxFrames   \* bounds: reads, frames of the connection

ASSUME HttpAssumption ==
  /\ Versions \subseteq [http1 : BOOLEAN, http2 : BOOLEAN, http2pri : BOOLEAN]
  /\ 1 \in Streams /\ Streams \subseteq Nat \ {0} /\ InitialMax \in Nat /\ MaxBody \in Nat \ {0}
  /\ \A r \in Reps : /\ r.kind \in {"size", "indexed", "literal"}
                     /\ r.kind = "size" => r.index \in Nat
  /\ \A o \in Outcomes : o.body \in Nat \cup {-1}
  /\ "HEADER_TABLE_SIZE" \in SettingIds /\ Defaults \in [SettingIds -> Nat]
  /\ Limits \in [SettingIds -> [min : Nat, max : Nat]] /\ Requested \subseteq Nat
  /\ \A s \in SettingIds : Limits[s].min <= Limits[s].max
  /\ FrameHead \in Nat \ {0} /\ BufferSize \in Nat \ {0} /\ BlockSizes \subseteq Nat
  /\ \A n \in BlockSizes : FrameHead + n <= BufferSize
  /\ ControlSize \in [{"101", "SETTINGS", "ACK", "PING", "GOAWAY"} -> Nat]

VARIABLES
  version,              \* configuration->version
  protocol,             \* the object the connection owns: "v1" or "v2"
  upgrading,            \* v1's ProcessRead is running v2's
  current_request,      \* v1: "null", "live" or "stale"
  first_frame, settings_responded, peer_settings,   \* v2
  header_request,       \* v2: Null, Stale or a node
  dynamic_table,
  list,                 \* v2::request: first, last, header_map and the nodes
  max_stream,
  out,                  \* response_buffer, as a sequence of frames,
  used, capacity,       \* its index() and capacity()
  past,                 \* the parser's cursor is behind the received octets
  told,                 \* a SETTINGS frame has been sent
  asked,                \* streams with a HEADERS frame in this read
  goaway,               \* parse returned HTTP2_INITIATE_GOAWAY or threw
  threw,                \* an exception was thrown in the connection
  up,                   \* the process has not been ended
  pc, reads, frames

v1vars   == <<protocol, upgrading, current_request>>
v2vars   == <<first_frame, settings_responded, peer_settings, dynamic_table>>
readVars == <<list, asked, goaway, max_stream, past>>
buffer   == <<out, used, capacity>>
faults   == <<threw, up>>
bounds   == <<reads, frames>>
httpVars == <<version, v1vars, v2vars, readVars, header_request, buffer, told, faults, pc, bounds>>

Null  == 0
Stale == -1

Frame(type, sid) == [type |-> type, sid |-> sid, size |-> 0, end |-> FALSE]
FrameTypes ==
  {"DATA", "HEADERS", "SETTINGS", "ACK", "PING", "GOAWAY", "CONTINUATION", "101", "LOST"}

SettingsFrame == Frame("SETTINGS", 0)   \* settings::add_frame
AckFrame      == Frame("ACK", 0)        \* settings::add_ack_frame
\* goaway::add_frame, which gives it the type of a SETTINGS ack
GoawayFrame   == Frame("GOAWAY", 0)
\* Its header went to the memory the buffer had before it grew.
Lost          == Frame("LOST", 0)

EmptyList == [first |-> Null, last |-> Null, header_map |-> <<>>, node |-> <<>>]

\* Types of the protocol objects' members; a node is always one of the list's.
HttpTypeOK ==
  /\ version \in Versions
  /\ protocol \in {"v1", "v2"} /\ upgrading \in BOOLEAN
  /\ current_request \in {"null", "live", "stale"}
  /\ first_frame \in BOOLEAN /\ settings_responded \in BOOLEAN
  /\ peer_settings \in [SettingIds -> Nat] /\ dynamic_table.max_size \in Nat
  /\ header_request \in {Null, Stale} \cup 1..Len(list.node)
  /\ list.first \in 0..Len(list.node) /\ list.last \in 0..Len(list.node)
  /\ \A i \in 1..Len(list.node) :
       list.node[i].sid \in {0} \cup Streams /\ list.node[i].next \in 0..Len(list.node)
  /\ max_stream \in {0} \cup Streams /\ asked \subseteq Streams
  /\ \A i \in 1..Len(out) : out[i].type \in FrameTypes /\ out[i].sid \in {0} \cup Streams
  /\ used \in Nat /\ capacity \in Nat \ {0} /\ past \in BOOLEAN
  /\ told \in BOOLEAN /\ goaway \in BOOLEAN /\ threw \in BOOLEAN /\ up \in BOOLEAN
  /\ pc \in {"idle", "preface", "parse", "block", "astray", "serve", "final"}

\* create_protocol: without TLS, or for "http/1.1", a v1 object; for "h2" a v2
\* object.
HttpInit ==
  /\ version \in Versions
  /\ \/ protocol = "v1"
     \/ protocol = "v2" /\ (version.http2 \/ version.http2pri)
  /\ upgrading = FALSE /\ current_request = "null"
  /\ first_frame = TRUE /\ settings_responded = FALSE /\ peer_settings = Defaults
  /\ header_request = Null /\ dynamic_table = NewTable(InitialMax)
  /\ list = EmptyList /\ max_stream = 0 /\ past = FALSE
  /\ out = <<>> /\ used = 0 /\ capacity = BufferSize /\ told = FALSE
  /\ asked = {} /\ goaway = FALSE /\ threw = FALSE /\ up = TRUE
  /\ pc = "idle" /\ reads = 0 /\ frames = 0

-----------------------------------------------------------------------------
(***************************************************************************)
(* Responses of v2: CreateHeaderFrame and CreateBodyFrame.  Every line but *)
(* Date may enter the table.                                               *)
(***************************************************************************)
HeaderTable(t, code) ==
  LET u == copy_http_header_response(t, <<"Status", code>>, TRUE).table
      v == copy_http_header_response(u, <<"Date", "now">>, FALSE).table
  IN  copy_http_header_response(v, <<"Server", "mms">>, TRUE).table

BodyFrame(type, sid, n, end) == [type |-> type, sid |-> sid, size |-> n, end |-> end]

\* Mutated: the loop compares what is left with max_frame_size.
LoopToFrameSize(sid, body) ==
  LET rest == body - MaxBody
      full == (rest - 1) \div (MaxBody + FrameHead)
  IN  IF body <= MaxBody THEN <<BodyFrame("DATA", sid, body, TRUE)>>
      ELSE <<BodyFrame("DATA", sid, MaxBody, FALSE)>>
             \o [i \in 1..full |-> BodyFrame("CONTINUATION", sid, MaxBody, FALSE)]
             \o <<BodyFrame("CONTINUATION", sid, rest - full * MaxBody, TRUE)>>

\* One DATA frame, then CONTINUATION frames while more than max_body_size is
\* left, then the rest.
CreateBodyFrame(sid, body) ==
  LET rest == body - MaxBody
      full == (rest - 1) \div MaxBody
  IN  IF body <= MaxBody THEN <<BodyFrame("DATA", sid, body, TRUE)>>
      ELSE <<BodyFrame("DATA", sid, MaxBody, FALSE)>>
             \o [i \in 1..full |-> BodyFrame("CONTINUATION", sid, MaxBody, FALSE)]
             \o <<BodyFrame("CONTINUATION", sid, rest - full * MaxBody, TRUE)>>

Response(sid, o) ==
  <<Frame("HEADERS", sid)>> \o (IF o.body < 0 THEN <<>> ELSE CreateBodyFrame(sid, o.body))

\* FullStreamAutoAlloc::CheckResize(len): the capacity that holds need octets, a
\* multiple of the present one.
Room(c, need) == IF need <= c THEN c ELSE c * ((need + c - 1) \div c)

\* The buffer behind the frames of a body: Write reserves for all but one frame's
\* header, so the last frame's is lost when the buffer grows between the two.
BodyRoom(u, c, sid, body) ==
  LET n        == Len(CreateBodyFrame(sid, body))
      last     == CreateBodyFrame(sid, body)[n].size
      behind   == u + body + n * FrameHead
      reserved == Room(c, u + body + (body \div MaxBody) * FrameHead)
      header   == Room(reserved, behind - last)
      data     == Room(header, behind)
  IN  IF body < 0 THEN [used |-> u, capacity |-> c, unsafe |-> {}]
      ELSE [used |-> behind, capacity |-> data, unsafe |-> IF data = header THEN {} ELSE {n + 1}]

\* An answer behind frames.  CreateHeaderFrame keeps a pointer to the header of
\* its frame while the block is written: a block that ends before the capacity
\* (add_huffman_string clears the octet behind it too) leaves it valid, any other
\* lets the buffer grow, or overruns it without growing where std::copy writes
\* it.  Then a header may be lost and the process may end.
Answer(before, u, c, sid, o) ==
  \E n \in BlockSizes :
    LET header == Room(c, u + FrameHead)
        behind == u + FrameHead + n
    IN  \E block \in IF behind <= header THEN {header} ELSE {header, Room(header, behind)} :
          LET body   == BodyRoom(behind, block, sid, o.body)
              unsafe == (IF behind < header THEN {} ELSE {1}) \cup body.unsafe
              answer == Response(sid, o)
          IN  /\ \E lost \in SUBSET unsafe :
                   out' = before \o [i \in DOMAIN answer |-> IF i \in lost THEN Lost ELSE answer[i]]
              /\ used' = body.used /\ capacity' = body.capacity
              /\ up' \in IF unsafe = {} THEN {up} ELSE BOOLEAN

WriteV2(sid, o) ==
  /\ Answer(out, used, capacity, sid, o)
  /\ dynamic_table' = HeaderTable(dynamic_table, o.code)

\* Frames of n octets that are filled in as soon as there is room for them.
Put(written, n) ==
  out' = written /\ used' = used + n /\ capacity' = Room(capacity, used + n)

\* WriteError through a pointer that is null or freed: the process ends, or a
\* frame for whatever the memory holds is written.
Undefined ==
  \/ up' = FALSE /\ UNCHANGED <<buffer, dynamic_table>>
  \/ /\ header_request # Null
     /\ \E sid \in {0} \cup Streams : WriteV2(sid, [code |-> "400", body |-> 1])

\* Mutated: settings_responded is not looked at.
AddSettingAgain(written) == Append(written, SettingsFrame)

AddSettingResponse(written) ==
  IF settings_responded THEN written ELSE Append(written, SettingsFrame)
SettingResponseSize == IF settings_responded THEN 0 ELSE ControlSize["SETTINGS"]

\* http_limits_t::GetSize; ENABLE_PUSH is not clamped.
GetSize(id, value) ==
  IF value <= Limits[id].min THEN Limits[id].min
  ELSE IF value >= Limits[id].max THEN Limits[id].max ELSE value
\* settings_store::parse_frame on one setting
parse_one(id, value) == [peer_settings EXCEPT ![id] = GetSize(id, value)]

-----------------------------------------------------------------------------
(***************************************************************************)
(* The request list.  A new node has identifier 0 while it is inserted, so *)
(* header_map gets key 0 at most once and then the dummies of dependencies.*)
(***************************************************************************)
Fresh(l) == Len(l.node) + 1
New(l, sid) == [l EXCEPT !.node = Append(@, [sid |-> sid, next |-> Null])]
Link(l, a, b) == IF a = Null THEN [l EXCEPT !.first = b] ELSE [l EXCEPT !.node[a].next = b]

\* Mutated: behind a dummy node the list's last stays the dummy.
InsertDummyLast(l, dep) ==
  LET p == Fresh(l)
      m == New(l, 0)
      dummy == [Link(New(m, dep), l.last, p + 1) EXCEPT
                  !.node[p + 1].next = p, !.last = p + 1, !.header_map = MapInsert(@, dep, p + 1)]
      append == [Link(m, l.last, p) EXCEPT !.last = p]
  IN  [(IF dep = 0 THEN append ELSE dummy) EXCEPT !.header_map = MapInsert(@, 0, p)]

Insert(l, dep) ==
  LET p == Fresh(l)
      m == New(l, 0)
      r == l.header_map[dep]
      append == [Link(m, l.last, p) EXCEPT !.last = p]
      \* known dependency: right behind it
      behind == [Link(Link(m, p, l.node[r].next), r, p) EXCEPT
                   !.last = IF l.last = r THEN p ELSE l.last]
      \* unknown dependency: a dummy node, then the new one, at the end
      dummy == [Link(Link(New(m, dep), l.last, p + 1), p + 1, p) EXCEPT
                  !.last = p, !.header_map = MapInsert(l.header_map, dep, p + 1)]
      done == IF dep = 0 THEN append
              ELSE IF dep \in DOMAIN l.header_map THEN behind ELSE dummy
  IN  [done EXCEPT !.header_map = MapInsert(@, 0, p)]

\* The node of a stream and the list with it.
NodeOf(l, sid, dep) ==
  IF sid \in DOMAIN l.header_map THEN <<l, l.header_map[sid]>>
  ELSE <<Insert(l, dep), Fresh(l)>>

-----------------------------------------------------------------------------
(***************************************************************************)
(* HTTP/1.                                                                 *)
(***************************************************************************)
Read(p) == /\ up /\ pc = "idle" /\ protocol = p /\ reads < MaxReads
           /\ reads' = reads + 1 /\ UNCHANGED <<version, frames>>
V1Leaves == UNCHANGED <<v2vars, readVars, header_request, buffer, told, pc>>

\* WriteError: through current_request when it is set.
V1WriteError ==
  \/ current_request # "stale" /\ UNCHANGED up
  \/ current_request = "stale" /\ up' \in BOOLEAN

\* 505, and 400 for a message that does not parse; neither resets current_request.
V1Refuse ==
  /\ Read("v1")
  /\ V1WriteError
  /\ V1Leaves /\ UNCHANGED <<v1vars, threw>>

\* 404 leaves current_request as it was; a handler's answer, 204 and 405 reset it.
V1Serve ==
  /\ Read("v1") /\ version.http1
  /\ \/ V1WriteError /\ UNCHANGED current_request
     \/ current_request' = "null" /\ UNCHANGED up
  /\ V1Leaves /\ UNCHANGED <<protocol, upgrading, threw>>

\* A handler throws: `request` is destroyed before the catch clause runs
\* WriteError, and current_request keeps pointing to it.
V1Throws ==
  /\ Read("v1") /\ version.http1
  /\ current_request' = "stale" /\ threw' = TRUE /\ up' \in BOOLEAN
  /\ V1Leaves /\ UNCHANGED <<protocol, upgrading>>

\* A fresh v2 object reads the same stream.
V1Preface ==
  /\ Read("v1") /\ version.http2pri
  /\ upgrading' = TRUE /\ pc' = "preface"
  /\ list' = EmptyList /\ asked' = {} /\ goaway' = FALSE /\ max_stream' = 0 /\ past' = FALSE
  /\ out' = <<>> /\ used' = 0 /\ UNCHANGED capacity
  /\ UNCHANGED <<protocol, current_request, v2vars, header_request, told, faults>>

\* What Upgrade buffers before the answer.
UpgradeFrames == Append(AddSettingResponse(<<Frame("101", 0)>>), AckFrame)
UpgradeSize   == ControlSize["101"] + SettingResponseSize + ControlSize["ACK"]

\* Upgrade: h2c: HTTP2-Settings is decoded, 101, SETTINGS and the ack are
\* buffered, the request becomes stream 1.  Settings whose length is no multiple
\* of six are read until the process ends; the move constructor of request moves
\* body into itself before it exists: the body is lost, or the process ends.
\* dynamic_table is not resized here.
V1Upgrade ==
  /\ Read("v1") /\ version.http1 /\ version.http2
  /\ \E id \in SettingIds, v \in Requested : peer_settings' = parse_one(id, v)
  /\ settings_responded' = TRUE
  /\ header_request' = Null /\ upgrading' = TRUE /\ pc' = "final"
  /\ \/ \E o \in Outcomes :
          /\ Answer(UpgradeFrames, UpgradeSize, Room(BufferSize, UpgradeSize), 1, o)
          /\ dynamic_table' = HeaderTable(dynamic_table, o.code)
     \/ up' = FALSE /\ UNCHANGED <<buffer, dynamic_table>>
  /\ list' = EmptyList /\ asked' = {1} /\ goaway' = FALSE
  /\ UNCHANGED <<protocol, current_request, first_frame, max_stream, past, told, threw>>

\* The handler of the upgraded request throws.  http_parser_failed_t is caught
\* in Upgrade, whose WriteError uses the destroyed request; anything else
\* reaches v1, which answers 400 and forgets the v2 object.
V1UpgradeThrows ==
  /\ Read("v1") /\ version.http1 /\ version.http2
  /\ threw' = TRUE
  /\ \/ V1WriteError /\ V1Leaves /\ UNCHANGED v1vars
     \/ /\ \E id \in SettingIds, v \in Requested : peer_settings' = parse_one(id, v)
        /\ header_request' = Stale /\ upgrading' = TRUE /\ pc' = "final"
        /\ settings_responded' = TRUE /\ goaway' = TRUE
        /\ \/ /\ \E sid \in {0} \cup Streams :
                  Answer(UpgradeFrames, UpgradeSize, Room(BufferSize, UpgradeSize), sid,
                         [code |-> "400", body |-> 1])
              /\ dynamic_table' = HeaderTable(dynamic_table, "400")
           \/ up' = FALSE /\ UNCHANGED <<buffer, dynamic_table>>
        /\ UNCHANGED <<protocol, current_request, first_frame, list, asked, max_stream, past, told>>

-----------------------------------------------------------------------------
(***************************************************************************)
(* HTTP/2: ProcessRead and request::parse.                                 *)
(***************************************************************************)
V2Read ==
  /\ Read("v2")
  /\ list' = EmptyList /\ asked' = {} /\ goaway' = FALSE /\ max_stream' = 0 /\ past' = FALSE
  /\ out' = <<>> /\ used' = 0 /\ UNCHANGED capacity
  /\ \/ first_frame /\ pc' = "preface" /\ UNCHANGED first_frame
     \/ pc' = "parse" /\ first_frame' = FALSE
  /\ UNCHANGED <<v1vars, settings_responded, peer_settings, dynamic_table, header_request, told, faults>>

\* Behind the preface: CheckAndParseSetting on a frame of settings, or of none,
\* AddSettingResponse, the ack.
V2Preface ==
  /\ up /\ pc = "preface"
  /\ \/ /\ \/ \E id \in SettingIds, v \in Requested : peer_settings' = parse_one(id, v)
           \/ UNCHANGED peer_settings
        /\ dynamic_table' = update_size(dynamic_table, peer_settings'["HEADER_TABLE_SIZE"])
        /\ Put(Append(AddSettingResponse(out), AckFrame), SettingResponseSize + ControlSize["ACK"])
     \/ /\ Put(AddSettingResponse(out), SettingResponseSize)
        /\ UNCHANGED <<peer_settings, dynamic_table>>
  /\ settings_responded' = TRUE /\ first_frame' = FALSE /\ pc' = "parse"
  /\ UNCHANGED <<version, v1vars, readVars, header_request, told, faults, bounds>>

\* Settings that have not all arrived are read from the memory behind, and the
\* frames too; a length that is no multiple of six is read until the process ends.
CutSettings ==
  /\ up /\ pc = "preface"
  /\ \E id \in SettingIds, v \in Requested : peer_settings' = parse_one(id, v)
  /\ dynamic_table' = update_size(dynamic_table, peer_settings'["HEADER_TABLE_SIZE"])
  /\ Put(Append(AddSettingResponse(out), AckFrame), SettingResponseSize + ControlSize["ACK"])
  /\ settings_responded' = TRUE /\ first_frame' = FALSE
  /\ past' = TRUE /\ up' \in BOOLEAN /\ pc' = "parse"
  /\ UNCHANGED <<version, v1vars, list, asked, goaway, max_stream, header_request, told, threw,
                 bounds>>

Parsing(sid) ==
  /\ up /\ pc = "parse" /\ frames < MaxFrames
  /\ frames' = frames + 1 /\ max_stream' = IF sid > max_stream THEN sid ELSE max_stream
  /\ UNCHANGED <<version, v1vars, first_frame, settings_responded, peer_settings, told, reads>>

\* DATA, PRIORITY, WINDOW_UPDATE, CONTINUATION, a SETTINGS ack, unknown types;
\* a PING of 64 octets on stream 0 is acknowledged.
IgnoredFrame ==
  /\ \E sid \in {0} \cup Streams : Parsing(sid)
  /\ UNCHANGED <<dynamic_table, list, asked, goaway, past, header_request, buffer, faults, pc>>
PingFrame ==
  /\ Parsing(0) /\ Put(Append(out, Frame("PING", 0)), ControlSize["PING"])
  /\ UNCHANGED <<dynamic_table, list, asked, goaway, past, header_request, faults, pc>>

\* The node of the stream is found or inserted; its header block follows.
HeadersFrame ==
  /\ \E sid \in Streams, dep \in {0} \cup Streams :
       LET found == NodeOf(list, sid, dep)
       IN  /\ Parsing(sid) /\ asked' = asked \cup {sid}
           /\ list' = [found[1] EXCEPT !.node[found[2]].sid = sid]
  /\ pc' = "block"
  /\ UNCHANGED <<dynamic_table, goaway, past, header_request, buffer, faults>>

InBlock == up /\ pc \in {"block", "astray"} /\ UNCHANGED <<version, v1vars, told, bounds>>

\* The next representation of the block, or of the memory behind it.  parse_header
\* throws out of ProcessRead's try block: the list is freed and WriteError reads
\* header_request, which is null or left from an upgrade.
Representation ==
  /\ InBlock
  /\ \E rep \in Reps :
       LET d == Decoded(dynamic_table, rep)
       IN  IF d.throws
           THEN /\ list' = EmptyList /\ goaway' = TRUE /\ pc' = "final" /\ threw' = TRUE
                /\ Undefined
           ELSE /\ dynamic_table' = d.table
                /\ UNCHANGED <<list, goaway, pc, threw, up, buffer>>
  /\ UNCHANGED <<first_frame, settings_responded, peer_settings, asked, max_stream, past,
                 header_request>>

BlockEnds ==
  /\ InBlock /\ pc = "block" /\ pc' = "parse"
  /\ UNCHANGED <<v2vars, readVars, header_request, buffer, faults>>

\* A literal that ends the block leaves the cursor behind it, as do padding and
\* priority that are longer than the frame: remaining_buffer wraps around, and no
\* block ends there.
BlockRunsPast ==
  /\ InBlock /\ pc = "block" /\ pc' = "astray"
  /\ UNCHANGED <<v2vars, readVars, header_request, buffer, faults>>

\* set_error on the stream's node; a new node keeps identifier 0.
RstFrame ==
  /\ \E sid \in Streams : Parsing(sid) /\ list' = NodeOf(list, sid, 0)[1]
  /\ UNCHANGED <<dynamic_table, asked, goaway, past, header_request, buffer, faults, pc>>

\* HEADERS or RST_STREAM on stream 0, SETTINGS without ack, PUSH_PROMISE, a bad
\* PING: a goaway frame and the end of parsing.  The peer's own GOAWAY ends it without an answer.
RefusedFrame ==
  /\ \E sid \in {0} \cup Streams : Parsing(sid)
  /\ UNCHANGED buffer \/ Put(Append(out, GoawayFrame), ControlSize["GOAWAY"])
  /\ goaway' = TRUE /\ pc' = "final"
  /\ UNCHANGED <<dynamic_table, list, asked, past, header_request, faults>>

\* The next frame has not all arrived, or it is padded and the last one: the
\* cursor passes the end, remaining_buffer wraps around, and what follows is
\* parsed from the memory there.
CutFrame ==
  /\ up /\ pc = "parse" /\ ~past /\ past' = TRUE
  /\ UNCHANGED <<version, v1vars, v2vars, list, asked, goaway, max_stream, header_request, buffer,
                 told, faults, pc, bounds>>

\* Parsing that has passed its end reads unmapped memory.
Fault ==
  /\ up /\ (pc = "astray" \/ (pc = "parse" /\ past))
  /\ up' = FALSE
  /\ UNCHANGED <<version, v1vars, v2vars, readVars, header_request, buffer, told, threw, pc, bounds>>

ParseEnds ==
  /\ up /\ pc = "parse" /\ ~past
  /\ pc' = "serve" /\ header_request' = list.first
  /\ UNCHANGED <<version, v1vars, v2vars, readVars, buffer, told, faults, bounds>>

\* Mutated: the nodes are taken in order of allocation.
ServeInOrder ==
  /\ up /\ pc = "serve" /\ header_request # Null
  /\ \E o \in Outcomes : WriteV2(list.node[header_request].sid, o)
  /\ header_request' = header_request + 1
  /\ UNCHANGED <<version, v1vars, first_frame, settings_responded, peer_settings,
                 readVars, told, threw, pc, bounds>>

\* ProcessRequest for every node in list order, dummies and resets included.
ProcessRequest ==
  /\ up /\ pc = "serve" /\ header_request # Null
  /\ \E o \in Outcomes : WriteV2(list.node[header_request].sid, o)
  /\ header_request' = list.node[header_request].next
  /\ UNCHANGED <<version, v1vars, first_frame, settings_responded, peer_settings,
                 readVars, told, threw, pc, bounds>>

\* The handler throws: the list is freed while header_request points into it.
HandlerThrows ==
  /\ up /\ pc = "serve" /\ header_request # Null
  /\ threw' = TRUE /\ goaway' = TRUE /\ pc' = "final"
  /\ Undefined
  /\ list' = EmptyList /\ header_request' = Stale
  /\ UNCHANGED <<version, v1vars, first_frame, settings_responded, peer_settings,
                 asked, max_stream, past, told, bounds>>

\* Mutated: the loop ends at the node that has no next one.
ServedBeforeLast ==
  /\ up /\ pc = "serve"
  /\ header_request # Null => list.node[header_request].next = Null
  /\ pc' = "final"
  /\ UNCHANGED <<version, v1vars, v2vars, readVars, header_request, buffer, told, faults, bounds>>

Served ==
  /\ up /\ pc = "serve" /\ header_request = Null
  /\ pc' = "final"
  /\ UNCHANGED <<version, v1vars, v2vars, readVars, header_request, buffer, told, faults, bounds>>

\* Mutated: header_request is not reset before the next read.
FinalKeepsPointer ==
  /\ up /\ pc = "final"
  /\ pc' = "idle" /\ out' = <<>> /\ list' = EmptyList
  /\ header_request' = IF list.last = Null THEN header_request ELSE Stale
  /\ told' = (told \/ \E i \in 1..Len(out) : out[i].type = "SETTINGS")
  /\ protocol' = (IF upgrading THEN "v2" ELSE protocol)
  /\ current_request' = (IF upgrading THEN "null" ELSE current_request)
  /\ upgrading' = FALSE
  /\ used' = 0 /\ capacity' = (IF used = 0 THEN capacity ELSE BufferSize)
  /\ UNCHANGED <<version, v2vars, asked, goaway, max_stream, past, faults, bounds>>

\* FinalizeWrite, with a new buffer when something is written; ~request frees the list; after an upgrade SetProtocol frees
\* the v1 object and its current_request.  Upgrade does not reset
\* header_request when a parser exception was caught.
Final ==
  /\ up /\ pc = "final"
  /\ pc' = "idle" /\ out' = <<>> /\ list' = EmptyList
  /\ header_request' = (IF upgrading /\ first_frame THEN header_request ELSE Null)
  /\ told' = (told \/ \E i \in 1..Len(out) : out[i].type = "SETTINGS")
  /\ protocol' = (IF upgrading THEN "v2" ELSE protocol)
  /\ current_request' = (IF upgrading THEN "null" ELSE current_request)
  /\ upgrading' = FALSE
  /\ used' = 0 /\ capacity' = (IF used = 0 THEN capacity ELSE BufferSize)
  /\ UNCHANGED <<version, v2vars, asked, goaway, max_stream, past, faults, bounds>>

HttpNext ==
  \/ V1Refuse \/ V1Serve \/ V1Throws \/ V1Preface \/ V1Upgrade \/ V1UpgradeThrows
  \/ V2Read \/ V2Preface \/ CutSettings
  \/ IgnoredFrame \/ PingFrame \/ HeadersFrame \/ RstFrame \/ RefusedFrame \/ CutFrame \/ Fault
  \/ Representation \/ BlockEnds \/ BlockRunsPast
  \/ ParseEnds \/ ProcessRequest \/ HandlerThrows \/ Served \/ Final

HttpSpec == HttpInit /\ [][HttpNext]_httpVars

-----------------------------------------------------------------------------
\* The header table's two maps agree with its lines in every state a connection
\* reaches, whatever the peer and the responses do to the one table they share
\* (hpack.h:84-169).
HeaderTableSound == TableSound(dynamic_table)

\* The list that ProcessRead walks and ~request frees: every set of nodes that
\* has the first one and with a node its next one has all, and last has no next
\* one; so following next from first visits every node that was allocated
\* exactly once and ends at last.  header_map only points into the list
\* (http2.h:659-703).
RequestListSound ==
  LET Node == 1..Len(list.node) IN
  /\ IF Node = {} THEN list.first = Null /\ list.last = Null
     ELSE list.first \in Node /\ list.last \in Node /\ list.node[list.last].next = Null
  /\ \A S \in SUBSET Node :
       list.first \in S /\ (\A i \in S : list.node[i].next \in S \cup {Null}) => S = Node
  /\ \A s \in DOMAIN list.header_map : list.header_map[s] \in Node

\* What the read has written fits the buffer it began with.
Fits == used < BufferSize

\* A read that ends without a goaway or an exception, and whose answers fit the
\* buffer, has answered every stream it has HEADERS for, and has one answer per
\* node of the list: the extra ones are on the dummies of dependencies and on
\* stream 0 (http2.cpp:140-147).
EveryStreamAnswered ==
  (pc = "final" /\ ~goaway /\ up /\ Fits) =>
    LET answers == {i \in 1..Len(out) : out[i].type = "HEADERS"} IN
    /\ asked \subseteq {out[i].sid : i \in answers}
    /\ ~upgrading \/ ~first_frame => Cardinality(answers) = Len(list.node)

\* readme.md:2 offers HTTP/2, in which every request has its answer, however many
\* one read brings: the same without a limit on what the answers take.
AnswersSurviveGrowth ==
  (pc = "final" /\ ~goaway /\ up) =>
    asked \subseteq {out[i].sid : i \in {j \in 1..Len(out) : out[j].type = "HEADERS"}}

\* SETTINGS goes out once per connection, and nothing but the 101 response
\* precedes it in its read (AddSettingResponse, http2.cpp:72-100, 130-139).
SettingsOnceAndFirst ==
  \A i \in 1..Len(out) : out[i].type = "SETTINGS" =>
    /\ ~told
    /\ i = (IF out[1].type = "101" THEN 2 ELSE 1)

\* Behind every response head that has a body: one DATA frame, then
\* CONTINUATION frames, none larger than the limit, the end flag on the last
\* only, the sizes adding up to the body (lib/http2.cpp:38-68), in a read whose
\* answers fit the buffer.
BodyFramed ==
  Fits => \A i \in 1..Len(out) : out[i].type = "DATA" =>
    \E j \in i..Len(out), o \in Outcomes \cup {[code |-> "400", body |-> 1]} :
      /\ out[i - 1] = Frame("HEADERS", out[i].sid)
      /\ \A k \in (i + 1)..j : out[k].type = "CONTINUATION" /\ out[k].sid = out[i].sid
      /\ \A k \in i..j : out[k].end = (k = j) /\ out[k].size <= MaxBody
      /\ \A k \in i..(j - 1) : out[k].size = MaxBody
      /\ o.body = (j - i) * MaxBody + out[j].size /\ (j > i => out[j].size > 0)

\* While no handler or header block has thrown, header_request never points to a
\* freed request, and between two reads neither pointer is left set: reads that
\* are refused, cut or upgraded included (http1.cpp:98-118, http2.cpp:91-153).
NoStalePointerBeforeException ==
  ~threw => /\ header_request # Stale
            /\ pc = "idle" => header_request = Null /\ current_request = "null"
=============================================================================
