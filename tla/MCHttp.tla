------------------------------- MODULE MCHttp -------------------------------
(***************************************************************************)
(* The HTTP layer: a connection's protocol objects (HttpServer), the       *)
(* HTTP/1 messages (HttpMessage) and the octets of a header block          *)
(* (HpackCodec).  They share no state, so a behaviour explores one of them.*)
(***************************************************************************)
EXTENDS HttpServer, HttpMessage, MCCodec

VARIABLE part

mcVersions == {[http1 |-> TRUE,  http2 |-> TRUE,  http2pri |-> TRUE],
               [http1 |-> FALSE, http2 |-> FALSE, http2pri |-> TRUE]}
mcStatic   == <<<<"IGNORE_THIS", "">>, <<"Method", "GET">>>>
mcReps     == {Indexed(2), Literal(ByName, <<"Path", "p">>, TRUE), ResizeTo(0)}
mcOutcomes == {[code |-> "200", body |-> 5], [code |-> "204", body |-> -1]}
mcLimits   == [s \in {"HEADER_TABLE_SIZE"} |-> [min |-> 1, max |-> 4]]
mcDefaults == [s \in {"HEADER_TABLE_SIZE"} |-> 4]
mcControl  == [t \in {"SETTINGS", "101"} |-> 2] @@ [t \in {"ACK", "PING", "GOAWAY"} |-> 1]
mcValues   == {<<"v", " ", ":", "w">>, <<>>}
mcBodies   == {<<"b">>, <<"\r", "\n">>, <<" ", "b", ":", "b">>, <<"\n", "b">>}

MCInit ==
  /\ part \in {"connection", "message", "codec"}
  /\ HttpInit /\ MessageInit /\ CodecInit
  /\ part # "connection" =>
       protocol = "v1" /\ version.http1  \* one initial state for the other parts

MCNext ==
  /\ UNCHANGED part
  /\ \/ part = "connection" /\ HttpNext /\ UNCHANGED <<msg, codecVars>>
     \/ part = "message" /\ MessageNext /\ UNCHANGED <<httpVars, codecVars>>
     \/ part = "codec" /\ CodecNext /\ UNCHANGED <<httpVars, msg>>

MCSpec == MCInit /\ [][MCNext]_<<part, httpVars, msg, codecVars>>
=============================================================================
