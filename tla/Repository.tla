----------------------------- MODULE Repository -----------------------------
(***************************************************************************)
(* Container (library/repository/src/repository.cpp): the program's        *)
(* objects are built from the configuration file, section after section,   *)
(* each section referring by name to what earlier ones made; then the      *)
(* servers are given to the listener (app/application.cpp).                *)
(*                                                                         *)
(* A section of the file is the sequence of its members, chosen when it is *)
(* read.  A member the JSON reader throws for has the type "malformed".    *)
(***************************************************************************)
EXTENDS Integers, Sequences, FiniteSets

CONSTANTS ObjectNames,  \* names of the objects of a section
          ServerNames,
          References,   \* names the file refers to
          Processors,   \* processors of the machine
          ThreadCounts  \* values of Thread Count

ASSUME RepositoryAssumption == Processors \in Nat /\ ThreadCounts \subseteq Int

VARIABLES
  made,         \* section -> objects made, with the names they refer to
  reading,      \* number of sections read
  outcome,      \* "reading", "refused", "threw", "crashed", "ready"
  threadcount,  \* of the listener
  listening     \* servers added to the listener
confVars == <<made, reading, outcome, threadcount, listening>>

RepositoryInit ==
  /\ made = [s \in {"lists", "maps", "services", "handlers", "ssl", "http", "protocols",
                    "servers"} |-> {}]
  /\ reading = 0 /\ outcome = "reading" /\ threadcount = Processors /\ listening = {}

MadeNames(section) == {o.name : o \in made[section]}

\* A section has up to max members, with different names.
Members(S, max) ==
  {ms \in UNION {[1..n -> S] : n \in 0..max} :
     \A i, j \in 1..Len(ms) : i # j => ms[i].name # ms[j].name}

OfType(members, type) == {m \in members : m.type = type}

\* The loop over a section's members ends at the first one that fails.
Done(ms, failing) == {ms[i] : i \in {j \in 1..Len(ms) : \A k \in 1..j : ms[k] \notin failing}}

\* One Read* function: its members, those that fail, those that are skipped.
ReadSection(number, section, ms, failing, skipped) ==
  /\ outcome = "reading" /\ reading = number
  /\ made' = [made EXCEPT ![section] = Done(ms, failing) \ skipped]
  /\ IF \E i \in 1..Len(ms) : ms[i] \in failing
     THEN outcome' = "refused" /\ UNCHANGED reading
     ELSE outcome' = outcome /\ reading' = reading + 1
  /\ UNCHANGED <<threadcount, listening>>

-----------------------------------------------------------------------------
ReadData ==
  /\ outcome = "reading" /\ reading = 0
  /\ \/ \E lists, maps \in SUBSET ObjectNames :
          /\ made' = [made EXCEPT !["lists"] = {[name |-> n] : n \in lists},
                                  !["maps"]  = {[name |-> n] : n \in maps}]
          /\ outcome' = outcome /\ reading' = 1
     \/ outcome' = "refused" /\ UNCHANGED <<made, reading>>
  /\ UNCHANGED <<threadcount, listening>>

ServiceMembers == [name : ObjectNames, type : {"Cache", "unknown", "malformed"}]

ReadServiceConfiguration ==
  \E ms \in Members(ServiceMembers, 1) :
    ReadSection(1, "services", ms, OfType(ServiceMembers, "malformed"),
                                   OfType(ServiceMembers, "unknown"))

HandlerMembers ==
  [name : ObjectNames, type : {"File"}, list : References, map : References]
  \cup [name : ObjectNames, type : {"REST"}, service : References]
  \cup [name : ObjectNames, type : {"unknown", "malformed"}]

HandlerFails(m) ==
  \/ m.type = "malformed"
  \/ m.type = "File" /\ (m.list \notin MadeNames("lists") \/ m.map \notin MadeNames("maps"))
  \/ m.type = "REST" /\ m.service \notin MadeNames("services")

ReadHandlerConfiguration ==
  \E ms \in Members(HandlerMembers, 1) :
    ReadSection(2, "handlers", ms, {m \in HandlerMembers : HandlerFails(m)},
                                   OfType(HandlerMembers, "unknown"))

\* Thread Count is taken when it does not exceed the processors; as a size_t a
\* negative one does.  Without it Read Buffer is not looked at.
SetThreadCount(n) == threadcount' = IF n < 0 \/ n > threadcount THEN threadcount ELSE n

ReadSystemConfiguration ==
  /\ outcome = "reading" /\ reading = 3
  /\ \/ reading' = 4 /\ UNCHANGED <<threadcount, outcome>>
     \/ outcome' = "refused" /\ UNCHANGED <<threadcount, reading>>
     \/ \E n \in ThreadCounts, buffer \in {"absent", "array", "other"} :
          /\ SetThreadCount(n)
          /\ IF buffer = "other" THEN outcome' = "refused" /\ UNCHANGED reading
             ELSE outcome' = outcome /\ reading' = 4
  /\ UNCHANGED <<made, listening>>

SSLMembers == [name : ObjectNames, type : {"certificate", "malformed"}]

ReadSSLConfiguration ==
  \E ms \in Members(SSLMembers, 1) : ReadSection(4, "ssl", ms, OfType(SSLMembers, "malformed"), {})

\* A configuration needs a server name, an object for Version and Limits when
\* they are there, and handlers.  The switches of Version are looked up beside
\* Version, not in it: the configuration's own ones stay true.
HTTPMembers ==
  [name : ObjectNames, type : {"complete"}, handlers : SUBSET References]
  \cup [name : ObjectNames, type : {"malformed"}]

HTTPFails(m) == m.type = "malformed" \/ ~(m.handlers \subseteq MadeNames("handlers"))

ReadHTTPConfiguration ==
  \E ms \in Members(HTTPMembers, 1) :
    ReadSection(5, "http", ms, {m \in HTTPMembers : HTTPFails(m)}, {})

ProtocolMembers ==
  [name : ObjectNames, type : {"HTTP"}, configuration : References]
  \cup [name : ObjectNames, type : {"ECHO", "unknown", "malformed"}]

ProtocolFails(m) ==
  m.type = "malformed" \/ (m.type = "HTTP" /\ m.configuration \notin MadeNames("http"))

ReadProtocolConfiguration ==
  \E ms \in Members(ProtocolMembers, 1) :
    ReadSection(6, "protocols", ms, {m \in ProtocolMembers : ProtocolFails(m)},
                                    OfType(ProtocolMembers, "unknown"))

\* bound: the port is free.
ServerMembers ==
  [name : ServerNames, type : {"TCPSSL"}, protocol : References, SSL : References, bound : BOOLEAN]
  \cup [name : ServerNames, type : {"TCP", "UDP"}, protocol : References, bound : BOOLEAN]
  \cup [name : ServerNames, type : {"unknown", "malformed"}, protocol : References]

\* Mutated: the TLS configuration is not looked up.
ServerFailsNoSSL(m) ==
  \/ m.type = "malformed" \/ m.protocol \notin MadeNames("protocols")
  \/ m.type # "unknown" /\ ~m.bound

\* The protocol and the TLS configuration must exist, and the socket be bound
\* (bind_fail_t).  An unknown transport is kept, with a null server.
ServerFails(m) ==
  \/ m.type = "malformed" \/ m.protocol \notin MadeNames("protocols")
  \/ m.type = "TCPSSL" /\ m.SSL \notin MadeNames("ssl")
  \/ m.type # "unknown" /\ ~m.bound

\* At least one server is demanded.
ReadServerConfiguration ==
  \/ /\ outcome = "reading" /\ reading = 7
     /\ outcome' = "refused" /\ UNCHANGED <<made, reading, threadcount, listening>>
  \/ \E ms \in Members(ServerMembers, 2) :
       /\ ms # <<>>
       /\ ReadSection(7, "servers", ms, {m \in ServerMembers : ServerFails(m)}, {})

\* Exceptions the readers do not catch: the directory of a file handler is not
\* there (canonical), or a certificate, or a socket option is refused.
ReadThrows ==
  /\ outcome = "reading" /\ outcome' = "threw"
  /\ \/ reading = 2 /\ made["lists"] # {} /\ made["maps"] # {}
     \/ reading = 4
     \/ reading = 7 /\ made["protocols"] # {}
  /\ UNCHANGED <<made, reading, threadcount, listening>>

\* listener->add for every server, in the order of the hash table; a null one
\* is dereferenced.
AddServerToListener ==
  /\ outcome = "reading" /\ reading = 8
  /\ \E s \in made["servers"] \ listening :
       IF s.type = "unknown" THEN outcome' = "crashed" /\ UNCHANGED listening
       ELSE listening' = listening \cup {s} /\ UNCHANGED outcome
  /\ UNCHANGED <<made, reading, threadcount>>

\* multithread_loop and wait.
StartServers ==
  /\ outcome = "reading" /\ reading = 8 /\ listening = made["servers"]
  /\ outcome' = "ready"
  /\ UNCHANGED <<made, reading, threadcount, listening>>

RepositoryNext ==
  \/ ReadData \/ ReadServiceConfiguration \/ ReadHandlerConfiguration \/ ReadSystemConfiguration
  \/ ReadSSLConfiguration \/ ReadHTTPConfiguration \/ ReadProtocolConfiguration
  \/ ReadServerConfiguration \/ ReadThrows \/ AddServerToListener \/ StartServers

RepositorySpec == RepositoryInit /\ [][RepositoryNext]_confVars

-----------------------------------------------------------------------------
Object(section, name) == CHOOSE o \in made[section] : o.name = name

\* The order in which the sections are read resolves every reference: a server
\* in the listener has its protocol, that its HTTP configuration, that its
\* handlers, and those their lists, maps and services (repository.cpp:77-188,
\* 210-311, 390-435).  Only a server of an unknown transport brings the program
\* down when it is added, and nothing is added when any section is refused.
ConfigResolved ==
  /\ \A s \in listening :
       /\ s.protocol \in MadeNames("protocols")
       /\ s.type = "TCPSSL" => s.SSL \in MadeNames("ssl")
       /\ LET p == Object("protocols", s.protocol) IN
          p.type = "HTTP" =>
            /\ p.configuration \in MadeNames("http")
            /\ \A n \in Object("http", p.configuration).handlers :
                 /\ n \in MadeNames("handlers")
                 /\ LET h == Object("handlers", n) IN
                    /\ h.type = "File" => h.list \in MadeNames("lists") /\ h.map \in MadeNames("maps")
                    /\ h.type = "REST" => h.service \in MadeNames("services")
  /\ outcome = "crashed" => \E s \in made["servers"] : s.type = "unknown"
  /\ outcome \in {"refused", "threw"} => listening = {}
  /\ outcome = "ready" => listening # {}
  /\ threadcount <= Processors
=============================================================================
