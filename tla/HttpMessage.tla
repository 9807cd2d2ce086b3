---------------------------- MODULE HttpMessage ----------------------------
(***************************************************************************)
(* HTTP/1 messages: the parser of requests and responses (lib/parser.cpp,  *)
(* http/httpparser.h) against the code that writes them: the server's      *)
(* responses and the client's requests (server/src/http1.cpp) and the error*)
(* responses (CreateErrorResponse, to_string).                             *)
(*                                                                         *)
(* A stream is a sequence of tokens: the delimiters " ", ":", "\r", "\n"   *)
(* and words, a word standing for a run of other characters.  A cursor is  *)
(* a position 1..Len+1; Throws marks http_parser_failed_t.                 *)
(***************************************************************************)
EXTENDS Naturals, Sequences, SequencesExt

CONSTANTS FieldNames,  \* the fields of HTTP_FIELD_LIST
          Unknown,     \* a name that is not in the list
          Values,      \* values of fields, as token sequences
          Bodies,      \* bodies of messages, as token sequences
          MaxFields    \* bound: field lines of a message

VARIABLE msg           \* the message that is written and parsed

SP == " "
Colon == ":"
CR == "\r"
LF == "\n"
Delimiters == {SP, Colon, CR, LF}

\* A name is a word; a value has no line ends, and no space begins or ends it.
ASSUME MessageAssumption ==
  /\ Delimiters \cap (FieldNames \cup {Unknown}) = {}
  /\ \A v \in Values :
       /\ v \in Seq(Range(v)) /\ {CR, LF} \cap Range(v) = {}
       /\ v # <<>> => v[1] # SP /\ v[Len(v)] # SP
  /\ \A b \in Bodies : b \in Seq(Range(b))

Throws == 0
METHODS  == {"GET", "PUT"}
CODES    == {"200", "404"}
VERSIONS == {"HTTP/1.1", "HTTP/2.0"}

Remaining(s, i) == i <= Len(s)
\* The first position from i on that holds one of the tokens, or the end.
Till(s, i, stop) == Min({j \in i..Len(s) : s[j] \in stop} \cup {Len(s) + 1})
SkipSpaces(s, i) == Min({j \in i..Len(s) : s[j] # SP} \cup {Len(s) + 1})

Text(s, i, j, next) == [text |-> SubSeq(s, i, j), next |-> next]
Failed == [text |-> <<>>, next |-> Throws]

parse_till_space(s, i) ==
  LET j == Till(s, i, {SP}) IN IF j = i THEN Failed ELSE Text(s, i, j - 1, j)

parse_till_colon(s, i) ==
  LET start == SkipSpaces(s, i)
      j     == Till(s, start, {Colon, SP})
      colon == Till(s, j, {Colon})
  IN  IF j = start THEN Failed
      ELSE Text(s, start, j - 1, IF Remaining(s, colon) THEN colon + 1 ELSE colon)

\* The position after a line end at j, or j when there is none.
LineEnd(s, j) ==
  IF ~Remaining(s, j) THEN j
  ELSE IF s[j] = CR THEN IF Remaining(s, j + 1) /\ s[j + 1] = LF THEN j + 2 ELSE Throws
  ELSE IF s[j] = LF THEN j + 1 ELSE j

parse_till_CRLF(s, i) ==
  LET start == SkipSpaces(s, i)
      j     == Till(s, start, {CR, LF})
      end   == Max({k \in start..(j - 1) : s[k] # SP} \cup {start - 1})
  IN  Text(s, start, end, LineEnd(s, j))

\* The text of parse_check_CRLF is the line end it found.
parse_check_CRLF(s, i) == Text(s, i, LineEnd(s, i) - 1, LineEnd(s, i))
parse_skip_one(s, i) == IF Remaining(s, i) THEN Text(s, i, i, i + 1) ELSE Failed

\* An unknown name is ignored; a later line replaces an earlier one.
SetField(fields, name, value) ==
  IF name \notin {<<f>> : f \in FieldNames} THEN fields
  ELSE [f \in DOMAIN fields \cup {name[1]} |-> IF f = name[1] THEN value ELSE fields[f]]

NoFields == [f \in {} |-> <<>>]
BadMessage == [ok |-> FALSE]

\* A turn of the loop: a field line, then perhaps the blank line.
FieldTurn(s, st) ==
  LET name  == parse_till_colon(s, st.next)
      value == parse_till_CRLF(s, name.next)
      blank == parse_check_CRLF(s, value.next)
  IN  IF st.done THEN st
      ELSE IF name.next = Throws \/ value.next = Throws \/ blank.next = Throws
      THEN [fields |-> st.fields, next |-> Throws, done |-> TRUE]
      ELSE [fields |-> SetField(st.fields, name.text, value.text), next |-> blank.next,
            done   |-> ~Remaining(s, blank.next) \/ blank.text # <<>>]

\* Each turn of the loop consumes a token, so Len(s) turns are enough.
FieldTurns(s, i) ==
  LET after[k \in 0..Len(s)] ==
        IF k = 0 THEN [fields |-> NoFields, next |-> i, done |-> FALSE]
        ELSE FieldTurn(s, after[k - 1])
  IN  after
parse_fields(s, i) == FieldTurns(s, i)[Len(s)]

\* Fields and body after the first line, which left the cursor at i.
ParseRest(s, i, line) ==
  LET Rest(r) == IF r.next = Throws THEN BadMessage
                 ELSE [ok |-> TRUE, line |-> line, fields |-> r.fields,
                       body |-> SubSeq(s, r.next, Len(s))]
  IN  Rest(IF Remaining(s, i) THEN parse_fields(s, i)
           ELSE [fields |-> NoFields, next |-> i])

\* Three texts; the calls of one handler, until one of them throws.
FirstLine(s) ==
  LET one   == parse_till_space(s, 1)
      skip1 == parse_skip_one(s, one.next)
      two   == parse_till_space(s, skip1.next)
      skip2 == parse_skip_one(s, two.next)
      three == parse_till_CRLF(s, skip2.next)
  IN  IF \/ one.next = Throws \/ skip1.next = Throws \/ two.next = Throws
         \/ skip2.next = Throws \/ three.next = Throws
      THEN [texts |-> <<>>, next |-> Throws]
      ELSE [texts |-> <<one.text, two.text, three.text>>, next |-> three.next]
OneOf(words) == {<<w>> : w \in words}

ParseRequest(s) ==
  LET r == FirstLine(s) IN
  IF r.next # Throws /\ r.texts[1] \in OneOf(METHODS) /\ r.texts[3] \in OneOf(VERSIONS)
  THEN ParseRest(s, r.next, <<r.texts[1], r.texts[2]>>)
  ELSE BadMessage

ParseResponse(s) ==
  LET r == FirstLine(s) IN
  IF r.next # Throws /\ r.texts[1] \in OneOf(VERSIONS) /\ r.texts[2] \in OneOf(CODES)
  THEN ParseRest(s, r.next, <<r.texts[2]>>)
  ELSE BadMessage

-----------------------------------------------------------------------------
CRLF == <<CR, LF>>
WriteFieldLine(f, v) == <<f, Colon, SP>> \o v \o CRLF
FieldLines(fs) ==
  LET upto[k \in 0..Len(fs)] ==
        IF k = 0 THEN <<>> ELSE upto[k - 1] \o WriteFieldLine(fs[k][1], fs[k][2])
  IN  upto
WriteFields(fs) == FieldLines(fs)[Len(fs)]
WriteFirst(line) ==
  IF Len(line) = 2 THEN <<line[1], SP, line[2], SP, "HTTP/1.1">> \o CRLF
  ELSE <<"HTTP/1.1", SP, line[1], SP>>
         \o (IF line[1] = "404" THEN <<"Not", SP, "Found">> ELSE <<"OK">>) \o CRLF

ContentLength == <<"Content-Length", <<"n">>>>

\* Mutated: the blank line before the body is left out.
WriteNoBlank(line, fs, body) ==
  WriteFirst(line) \o WriteFields(Append(fs, ContentLength)) \o body

\* Write(code, bodystream, fields) of the server, Write(method, uri, bodystream,
\* fields) of the client, response::to_string of an error response.
WriteMessage(line, fs, body) ==
  WriteFirst(line) \o WriteFields(Append(fs, ContentLength)) \o CRLF \o body

\* Write(code, fields) and Write(method, uri, fields): no blank line follows.
WriteBodyless(line, fs) == WriteFirst(line) \o WriteFields(fs)

\* CreateErrorResponse of a request (accept: what Accept names) and of no
\* request; to_string writes the fields in the order of a hash map.
ErrorFields(accept) ==
  {<<"Date", <<"now">>>>, <<"Connection", <<"close">>>>, <<"Server", <<"mms">>>>,
   <<"Content-Type", IF accept = "json" THEN <<"application/json">> ELSE <<"text/html">>>>}

-----------------------------------------------------------------------------
StandardFields == <<<<"Date", <<"now">>>>, <<"Server", <<"mms">>>>>>
NoMessage == [line |-> <<>>, fields |-> <<>>, body |-> <<>>]

MessageInit == msg = NoMessage

\* The client writes a request, the server a response or an error response.
StartRequest ==
  /\ msg = NoMessage
  /\ \E m \in METHODS : msg' = [msg EXCEPT !.line = <<m, "/p">>]
StartResponse ==
  /\ msg = NoMessage
  /\ \E c \in CODES : msg' = [msg EXCEPT !.line = <<c>>, !.fields = StandardFields]
ErrorMessage ==
  /\ msg = NoMessage
  /\ \E accept \in {"json", "html", "none"} : \E fs \in SetToSeqs(ErrorFields(accept)) :
       msg' = [line |-> <<"404">>, fields |-> fs, body |-> <<"html">>]
AddField ==
  /\ msg # NoMessage /\ msg.body = <<>> /\ Len(msg.fields) < MaxFields
  /\ \E f \in FieldNames \cup {Unknown}, v \in Values :
       msg' = [msg EXCEPT !.fields = Append(@, <<f, v>>)]
AddBody ==
  /\ msg # NoMessage /\ msg.body = <<>>
  /\ \E b \in Bodies : msg' = [msg EXCEPT !.body = b]

MessageNext == StartRequest \/ StartResponse \/ ErrorMessage \/ AddField \/ AddBody

MessageSpec == MessageInit /\ [][MessageNext]_msg

\* What the receiver should know of the fields: the last line of each known name.
FieldMap(fs) ==
  [f \in {fs[i][1] : i \in DOMAIN fs} \cap FieldNames |->
     fs[Max({i \in DOMAIN fs : fs[i][1] = f})][2]]

\* The parser inverts the writer: method and path or code, every known field
\* and the body of a message come back whatever the body contains (parser.cpp,
\* http1.cpp:131-174); a message without a body gives its fields.
MessageRoundTrip ==
  msg # NoMessage =>
    LET Parse(s) == IF Len(msg.line) = 2 THEN ParseRequest(s) ELSE ParseResponse(s)
        Parsed(fields, body) == [ok |-> TRUE, line |-> [i \in DOMAIN msg.line |-> <<msg.line[i]>>],
                                 fields |-> fields, body |-> body]
    IN  /\ Parse(WriteMessage(msg.line, msg.fields, msg.body))
             = Parsed(FieldMap(Append(msg.fields, ContentLength)), msg.body)
        /\ Parse(WriteBodyless(msg.line, msg.fields)) = Parsed(FieldMap(msg.fields), <<>>)
=============================================================================
