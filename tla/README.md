# MicroMonolithServer: TLA+ models and proofs

MicroMonolithServer (MMS) is a C++ server: one process, several loop threads on
one epoll instance, TCP, TLS and UDP front ends, HTTP/1 and HTTP/2, a file
handler, an in-memory cache with a REST interface, and a binary logger. This
directory models the server from the epoll loop up to the HTTP handlers,
model-checks the models with TLC and proves the main results, about the
concurrent core, the protocols and the services, with TLAPS for every value of
the parameters.

Paths below are relative to `src/`. `PROJECT.json` maps every definition to the
lines it models.

## 1. Inventory

| component | state | operations | what makes it correct |
|---|---|---|---|
| event loop (`core/src/listener.cpp`, `mms/listener.h`) | epoll registrations holding raw `processor_t*`, descriptor numbers, a batch per thread | `add`, `enable`, `remove`, `Delete`, `loop`, `Close` | one thread per processor, no stale pointer or number, no processor forgotten |
| start and stop (same files, `app/application.cpp`) | `running_thread`, `thread_stopper_t`, `terminate_t`, `IsTerminated`, `epollfd` | `multithread_loop`, `wait`, `StopListenerThread`, `~listener_t` | exact counter, nobody left when `epollfd` is closed, SIGTERM ends the process |
| TCP server (`core/src/tcpserver.cpp:116-145`) | listening socket | `ProcessRead` = accept | stays registered whatever fails |
| TCP connection (`core/src/tcpserver.cpp:22-114`) | thread's `readbuffer`, `pending_wirte`, `writeoffset` | `ProcessRead`, `ProcessWrite`, `WriteNoCopy` | ordered output through partial sends, no input lost, never waits without the interest it needs |
| TLS server and connection (`core/src/tcpsslserver.cpp`) | as TCP, plus `SSL*` | as TCP, plus handshake | as TCP; WANT_READ/WANT_WRITE mapped to the right interest |
| UDP server (`core/src/udpserversimple.cpp`) | read buffer, queue of replies | `ProcessRead`, `ProcessWrite` | one protocol call per datagram, the server survives every datagram |
| streams (`mms/base/stream.h`) | buffer, begin/current/end | `CheckResize`, `GetRawCurrentBuffer`, `Reset` | growth terminates, indices stay inside |
| logger (`core/src/log.cpp`, `mms/log/`) | per-thread buffer, `next_read`/`next_write` | `log`, `flush`, `replinish`, `FlushAll` | no record lost, repeated or torn between owner and log thread |
| log reader (`core/src/log.cpp:374-615`, `mms/log/varadic.h`) | format state, queue of held-back entries | `createLogsString`, `readnextstring` | takes out what the writer stored, shows entries in order of time |
| SplitOrderMap (`library/lockfree/`) and cache (`library/cache/`, `library/REST/`) | buckets with locks, nodes | find, insert, swap, remove; GET/PUT/DELETE | references stay valid, find-then-act is atomic |
| prefix map (`mms/ds/prefixmap.h`) | radix tree | insert, breakmatch, search | longest-prefix match |
| HTTP/1, HTTP/2 protocol objects (`library/server/`) | current protocol of a connection, preface and settings state, response buffer | `ProcessRead`, upgrade | the running object is not freed under itself, no pointer outlives its request or buffer |
| HTTP/2 requests and frames (`library/http/`) | request list with dependencies, frame parser | header, priority and body frames | list well formed, one node per stream |
| HPACK (`library/http/`) | dynamic table | integer coding, insert, evict | decode inverts encode, size bound |
| HTTP/1 messages (`library/http/lib/parser.cpp`, `http1.cpp`) | cursor into a stream | parse a request or response, write one | the parser inverts the writer |
| file handler (`httpfilehandler.h`, `filehandler.cpp`) | list and map shared by threads, clients' copies | `GetCache`, evict, `match_etag` | list and map agree; Not_Modified only for the same content |
| repository and configuration (`library/repository/`) | objects by name | `ReadConfigurations`, `AddServerToListener` | every reference resolves, nothing listens after a refusal |

Interaction: `main` builds the `listener_t`, the repository creates the
services and adds the servers' sockets to epoll, `multithread_loop` starts the
threads. A thread takes a batch from `epoll_wait`, calls the processor's
`ProcessRead` / `ProcessWrite`; a connection calls its protocol, which answers
through `WriteNoCopy`; the handler's result decides whether `loop` re-arms or
deletes the processor. All of it logs into per-thread buffers that the
listener's log thread flushes. Only the epoll instance, the cache, the file
cache and the log buffers are shared between threads.

Hard to test: everything that depends on which thread gets which event
(ownership, deletion, descriptor reuse), the race between the stop and threads
that start or leave, full socket buffers and partial sends, resets at an
inconvenient moment, failure of one step of accept. `PROJECT.json` lists these
hazards at their lines with the properties that cover them.

## 2. Modules

```
ByteStream  <--refines--  TcpConnection  <--  TcpConnectionProofs
EventLoop   <--  EventLoopProofs
            <--  MCEventLoop
Shutdown    <--  ShutdownProofs

HpackTable  <--  HttpServer --+
                 HttpMessage  +--  MCHttp
HpackCodec  <--  MCCodec    --+
HpackTable, HpackCodec    <--  HpackProofs  <--  HttpProofs
HttpServer, HttpMessage                     <--  HttpProofs

TlsConnection --+
UdpServer       |
Logger          |
LogReader       +--  MCServices
CacheService    |
FileCache       |
PrefixMap       |
Repository    --+

TlsConnection                        <--  TlsConnectionProofs
Logger, LogReader                    <--  LoggerProofs
CacheService, UdpServer, Repository,
FileCache, PrefixMap                 <--  ServicesProofs
```

The models cut the server at its natural seams. EventLoop treats a handler as
one outcome; TcpConnection, TlsConnection and UdpServer are the inside of such
a handler, with the loop's dispatch and re-arming around it; HttpServer is what
the connection calls as its protocol, and treats a URI handler as one outcome;
CacheService and FileCache are such handlers, called by several threads;
Shutdown treats a batch of connection events as one busy period and follows the
threads. They are checked separately, and section 8 says what their composition
would add. MCHttp and MCServices put several of them into one run: they share
no variable, the variable `part` chooses in the initial state which of them
moves, so the run explores each of them completely and no product of them.

A definition whose comment starts with "Mutated:" is a plausible mistake in the
definition after it. No specification uses it: it serves to show that the
properties notice the mistake.

### EventLoop

* `file`, `ptr`, `arm`, `ready`, `backlog`: the kernel's side (external,
  modelled from how the code uses epoll): what a number refers to, the pointer
  and the interest of its registration, socket readiness, completed
  connections. `arm[f] = "off"` is a registration disarmed by EPOLLONESHOT.
* `mem`, `fdof`: allocation of each processor and its `fd` member.
* `pc`, `batch`, `cur`, `ret`, `made`: per thread, the place in `loop()`, the
  events left, the processor being handled, the handler's result, and the
  connection `server_t::ProcessRead` is creating.
* `up`: FALSE after undefined behaviour that ended the process.

| action | code |
|---|---|
| `EpollWait` | `epoll_wait`, up to `max_event_epoll_return` events, each disarmed |
| `HangUp` | the EPOLLRDHUP branch: `Delete` |
| `ConnServe`, `ConnBroken` | a connection's handler returning a result / after `Close()` |
| `Accept`, `AcceptFail`, `AcceptDrop` | `accept4` and construction; its failure; TLS handshake or protocol refused |
| `AddOk`, `AddFail`, `LogPeer` | `listener->add(connection)`; its failure; the log call after it |
| `Finish` | the switch on the result: `enable` or `Delete` |
| `PeerConnect`, `PeerEvent` | the peers (external) |

A batch is a set: which event is first is chosen when it is handled, so every
order is covered. An accepted connection takes the lowest free number, as the
kernel does, so numbers are reused as early as possible. `LogPeer` reads a
connection that another thread may already have deleted (`tcpserver.cpp:134`);
the model lets that read end the process or go unnoticed. `NoDanglingEvent`
is about the pointers the loop works with; that one read is not among them.
The uncaught `CRITICAL_FAILURE` of a handler, which ends the process, is in
TcpConnection (`RecvCritical`) and not repeated here.

### Shutdown

`pc` follows `main` (configuration, starting the threads, joining, destructor)
and every loop thread. `StopListenerThread` is `Load`, `Spin`, `Enable`,
`StopFinish`, `StopClose`: the separate reads of the counter, the 10 ms polling
loop, the re-arming of the one-shot stopper and the end. It is run by the loop
thread that received SIGTERM or by `main` in `~listener_t`. `stopper[a]` is the
`thread_stopper_t` on actor `a`'s stack; `"dead"` means that its frame was
left. `late` and `crashed` are observers: the threads that entered `loop()`
after the stop had decided that it was alone, and the outcome of running a dead
stopper.

### TcpConnection and ByteStream

An output byte is its position in the stream; a `FixedBuffer` is the interval
it holds, so an empty one is possible. Input bytes are counted. `snd` and `rcv`
are the kernel's buffers. `RecvData`, `RecvZero`, `RecvAgain`, `RecvError`,
`RecvCritical` are the branches of the receive loop, `ProtocolWrite` and
`ProtocolDone` the call of the protocol, `SendAll`, `SendPart`, `SendFails`,
`SendPipe`, `WriteEmptyBuffer`, `WriteDone` those of `ProcessWrite`,
`Dispatch*` and `Finish` the loop around them. `ByteStream` is the promise to
the protocol: the written bytes reach the socket in order, each once, until the
connection ends; `Stream` is the refinement mapping.

### TlsConnection

`server_t::ProcessRead` is `TlsNoSsl`, `TlsRefuse`, `TlsAddFails`, `TlsAccept`:
what each failure releases. A record of the peer carries data, begins or ends a
handshake, or is bad. The server's side of a handshake is two flights, one
before the peer's end and one after it: `TlsFlight` sends one from whichever
call of OpenSSL runs (`SslRuns`), and it waits, as output does, while the send
buffer is full (`blocked`). `SSL_accept` may return at any point of that, and
`TlsReadEnds`, `TlsWantWrite` and `TlsWantRead` are what the calls report:
WANT_WRITE of a read or of the accept leaves the connection with EPOLLIN only.
`inside` is what OpenSSL has decrypted and the caller has
not taken, which epoll cannot report. `TlsReadBytes`, `TlsReadControl`,
`TlsReadEnds` are the loop over `SSL_read_ex`, `TlsProtocol` the protocol's
call, `TlsWrites`, `TlsWantWrite`, `TlsWantRead`, `TlsWriteFails`,
`TlsWriteDone` the loop over `SSL_write_ex` with what the event loop does with
each result.

### UdpServer

`readbuffer` is the sequence of the clients its bytes came from, so an answer
shows which datagrams the protocol saw. `UdpRecv` truncates, `UdpRecvZero` is
`recvfrom` returning 0, `UdpProtocol` is called after every datagram of one
event with all of them, `Answer` is `WriteNoCopy`.

### HttpServer, HpackTable

`protocol` is the object the connection owns; `V1Preface`, `V1Upgrade` and
`V1UpgradeThrows` are the three ways from v1 to v2, and `Final` the end of a
read, with the replacement of the object. `V2Read`, `V2Preface`, `CutSettings`
begin a read and one action per group of frame types parses. A header block is
taken representation by representation: `HeadersFrame` finds its node,
`Representation` decodes one (and throws out of the parser when it names a line
that is not there), `BlockEnds` is the end of the block, and `BlockRunsPast` a
cursor that passes it, after a literal at the end of the block, padding longer
than the frame or a priority in a short one (`hpack.h:365-369`,
`http2.h:562,727-730`): then (`pc` = "astray") the loop goes on through the
memory behind, until a representation there throws or `Fault` ends the process.
`CutFrame` is a frame whose payload has not arrived, with the same end (`past`).
`ProcessRequest` walks the list by `header_request`, `HandlerThrows` and a header
block that throws go to the catch clause. `current_request` and
`header_request` are `stale` once what they point to is gone. `threw` says that
a handler or a header block has thrown, and only that; `up` becomes FALSE when
the process may have ended, with or without an exception.

Of `response_buffer` the model has the frames written (`out`), the octets in
use and the capacity (`used`, `capacity`). `Room` is its growth, `Put` a frame
filled in as soon as there is room, and `Answer` the two writers that keep
pointers into it. `CreateHeaderFrame` holds the place of its frame's header
while the block is written, `CreateBodyFrame` while room for the body is made,
and the `Reserve` before it leaves out one header. A header whose place has
moved is written to freed memory: the frame in the buffer is `Lost`, or the
process ends, or, as the freed memory may still be read, nothing happens. A block
that is copied past the end (`hpack.h:391`) may end the process too. `list` is
`v2::request`: nodes by order of allocation, `first`, `last`, `header_map`;
`NodeOf` and `Insert` are its `insert`. HpackTable is `map_table_t` with its
three containers, used by the encoder (`copy_http_header_response`) and the
decoder (`Decoded`); one table serves both.

### HttpMessage, HpackCodec

Two pure algorithms against their inverses. HttpMessage: a stream is a sequence
of delimiters and words, `parse_*` return the text and the next position,
`ParseRequest` and `ParseResponse` read what `WriteMessage`, `WriteBodyless`
and the error responses write; the actions build the message. The loop of
`parse_fields` is `FieldTurn`, taken as often as the stream has tokens.
HpackCodec: octets and bits of a string and of an integer, for any table
`static_huffman`; MCCodec gives it the 257 rows of `hpack.h` and types strings
of six `Characters` (short codes, an eight-bit code, and the symbols 5 and 6, to
which the source gives the same code). A walk that leaves the tree, through the
hole this makes, ends with `NullRead` where the code follows a null pointer
(`hpack.cpp:55-61`).

### Logger, LogReader

`memory`, `next_write`, `next_read` per logger; the owner appends (`Copy`, then
`Advance`) without a lock, while the log thread or an owner flushes
(`FlushTake`, `FlushWrite`, `FlushDone`), `Rewind` is the end of `replinish`.
`file` is the sequence of written bytes. LogReader has the three readers of a
format string in `varadic.h` and the one in `createLogsString`, and the
reordering queue of `readnextstring`.

### CacheService

`maps` and `nodes` are never reused numbers; `freedMaps` and `freedNodes` mark
what was deleted, and a step that uses such a number sets `fault`, after which
nothing is modelled. One action per operation of SplitOrderMap that a request
makes (`FindMap`, `FindKey`, `InsertKey`, ...), `Access` and `AccessEnds` around
the swap and the copy that no lock protects.

### FileCache

`disk` changes (`WriteFile`) between the steps of a load: `Miss` (open, fstat),
`ReadContent`, `Store` (the second fstat, accounting, eviction), `Loaded`.
`ReadContent` reads the whole file, a part of it, or fails with -1, which nobody
looks at: what `malloc` gave stays in the rest of the buffer (content 0), and
`current_size` wraps around (`Grown`). `get_etag` is the code's sum of a rounded
time and the size (`Etag`): time is counted in units of 2^20 ns, and `Unit` is
the size that one such unit equals in the sum. The tag's characters are its two
`Digits`.
`copies` are what clients hold; `Respond` answers 200 or, when `match_etag`
finds the tag in the client's list, 304. `Restart` empties the cache and leaves
the clients their copies.

### PrefixMap, Repository

The radix tree is the function from the strings of its entries to their values:
an entry's parent is its longest proper prefix. `insert_path` breaks an entry
and adds one, `search` is the code's walk. Repository reads the sections in
their order; a section is chosen when it is read, with members that fail, are
skipped or throw; `AddServerToListener` and `StartServers` are the end of
`main`'s start.

## 3. Runs

| run | instance | result |
|---|---|---|
| `eventloop` | 3 threads, 2 connections, 3 numbers, batches of 2, symmetric | ownership, pointers, numbers, no stranded processor, deletion by the holder only |
| `eventloop_live` | 2 threads, 2 connections, batches of 1, fairness | the server is never deleted; every completed connection is accepted; every hung-up connection is deleted |
| `shutdown` | 3 threads and main, fairness | exact counter, nobody but late threads at `close(epollfd)`, what a stall and a crash need, a stall is permanent, SIGTERM ends in `exit` or a named failure |
| `tcp_connection` | read and send buffers of 2 bytes, 3 bytes in, 6 bytes out in buffers of 0, 1 and 3 | refinement of ByteStream, contiguous queue, input accounted for, interest matches output, output drains, input is read |
| `http` | 2 reads with 2 frames, 2 streams and stream 0, table of at most 4 lines, a response buffer that holds one answer; messages of up to 3 field lines; strings of 3 symbols | see below |
| `services` | 2 threads each for log, cache and files; one file in 2 versions of 1 or 3 bytes, a directory that stands for it, a time unit of 2; 3 datagrams; 4 TLS records; 3 paths; configurations with one object per section and 2 servers | see below |
| `shutdown_stall` | 3 threads | violated: the stop can wait for ever |
| `tcp_read_full`, `tcp_send` | as `tcp_connection` | violated: see Findings |
| `tls_flight` | the TLS connection of `services` | violated: see Findings |
| `http2_growth` | as `http` | violated: see Findings |
| `hpack_coding` | strings of 3 symbols, 12 integers | violated: see Findings |

`http`: the request list visits every node once whatever streams depend on
each other (`RequestListSound`); a read that ends without a goaway or an
exception, and whose answers fit the buffer it began with, has answered every
stream (`EveryStreamAnswered`; `http2_growth` shows that the limit is needed);
the header
table's two maps agree with its lines although requests, responses and resizes
share it (`HeaderTableSound`); SETTINGS goes out once, before everything but
the 101 (`SettingsOnceAndFirst`); bodies are cut into frames that add up, in a
read whose answers fit (`BodyFramed`); pointers into requests dangle only after
a handler or a header block has thrown, not after cut frames, blocks that pass
their end, refusals or upgrades (`NoStalePointerBeforeException`); the HTTP/1
parser inverts the writers (`MessageRoundTrip`); Huffman strings without the
symbol 5 and integers below the mask of their prefix are read back
(`CodecRoundTrip`). None of these says that the process survives: blocks and
frames that pass their end, padding, the self-move of the upgraded request
(`httpparser.h:136`), settings of an odd length (`http2.h:379-385`) and lost
headers may end it without any exception, and the model has each as an outcome.

`services`: file and buffer together hold every logged byte once
(`LogComplete`); the reader takes out the types the compiler checked and shows
entries in order of time within its window (`ReaderFaithful`); cache requests
that only create, set new keys and read never touch freed memory, and no
acknowledged PUT is lost before the first DELETE (`CacheSound`); handlers are
found under their own path and every answer is a registered prefix
(`PrefixSound`); a TLS connection with output or decrypted input has what will
wake it up (`TlsWakesUp`; a handshake's own flights have not, see `tls_flight`);
the UDP server lives, and answers the right client (`UdpServerLives`); every
reference of a listening server is resolved (`ConfigResolved`); Not_Modified is never told of another content, across changes of the
file and restarts, unless a file changed while it was loaded, a read was short
or the sum that makes the tag does not tell two versions apart; map, list and
size of the cache agree until two threads meet inside it or it evicts
(`FileCacheSound`).

Why the bounds are enough. Two connections and three numbers (one is the
server's) let a number be closed by one connection and taken by the other while
the first is still being handled; three threads let one handle, one delete and
one accept; a batch of two keeps a pointer waiting behind another event. Three
threads are the least for a stall (`StallNeedsThirdThread`, proved). A read
buffer of 2 with 3 input bytes fills; a send buffer of 2 with a buffer of 3
forces a partial send, a retry with new output queued behind it, and a full
buffer. `MaxIn`, `MaxOut`, `MaxBufs` bound the peer's bytes, the protocol's
bytes and the queue. The safety results are then proved without these bounds
(section 5).

In `http`, two reads with two frames are the least in which a stream depends on
one of the same read and a table filled by one read is used by the next;
`MaxBody` = 2 with a body of 5 makes a DATA frame, a full and a last
CONTINUATION frame, and an answer without a body ends with its HEADERS; a table
limit of 2 and 4 with two or three lines per response fills, clears and shrinks
it. A frame head of one unit and a block of two make the answer with a body 11
units long: alone it fits the buffer of 12, which stands for 1 kB, with another
frame in front it makes the buffer grow. The integers of `CodecRoundTrip` lie on
both sides of every mask and of 128. In `services`, a log buffer of two entries of which the second does
not fit forces `replinish` while the log thread flushes; two cache threads with
one name and one key meet in every pair of requests; a UDP buffer of 3 with datagrams of 0, 1
and 2 overflows within one event; TLS records of 3 bytes do not fit into a
buffer of 2, and the send buffer is full at any point of a handshake. File sizes
of 1 and 3 with a time unit of 2 give versions whose tags differ and versions
that share one (time 1 and size 3, time 2 and size 1), and two loads of three
bytes, or one that fails, pass `max_size` = 4. `MaxEntries`, `MaxRead`, `MaxFormat`, `MaxMaps`, `MaxNodes`,
`MaxCalls`, `MaxVersions`, `MaxPaths`, `MaxRecords`, `MaxOutput`,
`MaxDatagrams`, `MaxReads`, `MaxFrames`, `MaxFields`, `MaxText` are the bounds.

Deadlock is not checked: the process, or the connection, is meant to end, and
the models stop when the bounded inputs are used up.

## 4. Fairness

* EventLoop: weak fairness of a thread inside a batch (it is runnable and its
  handlers do not block); strong fairness of the delivery of a number that is
  ready again and again (the kernel's ready list is first-in first-out); strong
  fairness of a successful `accept4` for a waiting connection (failures such as
  descriptor exhaustion are assumed not permanent). None for the peers.
* Shutdown: weak fairness of `main`, the log thread, the stop and each loop
  thread; strong fairness of taking SIGTERM or the stopper, which a thread that
  keeps serving connections is offered again and again. None for SIGTERM, for a
  failing configuration or for the start of a connection batch.
* TcpConnection: weak fairness of the dispatch, of the handler and of a peer
  that reads what is sent. None for the peer's other steps.
* The modules of `http` and `services` state safety only and assume no fairness.

The liveness conclusions name the ways out (`~up`, `crashed`, `Stalled`,
`Orphaned`, `~live`) instead of assuming them away.

## 5. Proofs

TLAPS checks all proofs with SMT, Zenon and, for temporal steps, LS4. The only
assumptions are those of the modules, which TLC evaluates on every run:

* `EventLoopAssumption`, `ShutdownAssumption`, `TcpAssumption`, `TlsAssumption`:
  the server is not a connection, numbers are positive, main is not a loop
  thread, the threads are finitely many, capacities are positive, record sizes
  are natural numbers.
* `HttpAssumption`: stream numbers are positive and 1, the stream of an upgrade,
  is one of them; a size update carries a natural number; a body has a length or
  is -1, none; the settings have defaults and limits that are natural numbers,
  HEADER_TABLE_SIZE among them; the frame limit, the frame head and the buffer are
  positive, the sizes of blocks and of other frames natural numbers, and a frame
  head with the largest block fits into an empty buffer (1 kB in the code).
* `LoggerAssumption`: an entry is smaller than the buffer, which the compile-time
  size of an entry and `MaxBuffer` give; the values for "nobody" and "the log
  thread" are not loggers.
* `UdpAssumption`, `RepositoryAssumption`: sizes and the number of processors are
  natural numbers, Thread Count is an integer.
* `ReaderAssumption`: timestamps, `buffer_time` and `MaxRead` are natural numbers.
* `HuffmanAssumption`: the codes are sequences of bits and a prefix code, except
  that 5 and 6 share theirs, no code of up to seven bits consists of ones
  only, as the bits do that fill an octet, and that of EOS begins with seven. TLC evaluates it on the table of the
  source.
* `MessageAssumption`: field names are words, no delimiters; a value has no line
  end, and no space begins or ends it, since the parser strips it there. Bodies
  are any tokens. The writers do not check this of a value: it is what their
  callers pass.
* `FileAssumption`, `PrefixAssumption`: file sizes are natural numbers, the unit
  of time, the radix and the range of `current_size` positive ones; paths are
  strings over some characters, and the empty value is none of the numbers that
  stand for handlers.

**EventLoopProofs**, for any threads, connections, numbers, batch size. The
invariant `Inv` adds to the checked properties what makes them inductive:
`ThreadControl` (the place in `loop()` says what a thread holds), `OneClaim`
(a thread's batch, current processor and new connection are different
processors), `HeldRegistered` (what is held keeps its disarmed registration, so
`enable` will find it, unless the handler asked for deletion),
`BacklogUnborn` and `ServerSafe` (no hang-up and no CLOSE for the server).
`ExclusiveHandling` alone is not inductive: that a delivery cannot give a held
processor to a second thread needs that registration and number belong
together (`DescriptorOwned`), and that a deletion leaves no pointer behind
needs `OneClaim`. One lemma per action, one step per conjunct. Theorems:
`TypeCorrect`, `OneThreadPerProcessor`, `PointersAreLive`, `NumbersAreOwned`,
`NobodyIsStranded`, `ServerStays`, and the action property
`OnlyHoldersDelete`.

**ShutdownProofs**, for any finite set of threads. `OneStopper` (SIGTERM is
taken by one thread, which owns the only stopper), `MainAlone` (the destructor
runs without loop threads), `StopperTaken` (a disarmed stopper was taken by
another thread), `SpinsAboveLast`, with the cardinality facts of
`FiniteSetTheorems` for the counter. `CountIsExact` turns the comparison of
the counter with `last_thread` into "this thread is alone", from which
`QuietAtClose` and `CrashIsLate` follow; `StallTakesThree` and `StallStays`
describe the stall exactly.

**TcpConnectionProofs**, for any capacities, buffer sizes and bounds.
`BuffersWritten` (buffers are intervals of written bytes), `InputHandedOver`
(the read buffer is empty when the handler goes on), `ResultTellsOutput` (the
result says whether output is left) make `QueueContiguous`, `InputAccounted`
and `OutputWakesUp` inductive. `ImplementsByteStream` shows that every step is
a step of ByteStream or a stutter: by `QueueContiguous` the bytes `Transmit`
adds are the next positions.

**TlsConnectionProofs**, for any capacity and record sizes. `TlsWakesUp` follows
from `TlsInv`. `Together` (descriptor, SSL and connection) and `WaitingOutput` are kept by each action; `NothingInside`
adds that a session in a flight, or that has failed, has nothing decrypted left,
without which a read that ends early could strand bytes; `InOrder` says that the buffers SSL has
taken and the queue are the written buffers in order, and `RetriedFirst` that
the one to be offered again is still the first.

**HpackProofs**. For HpackTable, any table, line and size. `Agrees` says what the two
maps must hold for the lines there are: for each field name and each line the
first position it stands at. `push_back`, `pop_back` and the insertion that
clears the table keep it (`PushBackAgrees`, `PopBackAgrees`, `TableInsertInv`).
Shrinking drops lines one by one, a recursive function of the size: it is
reasoned about by induction in the form of sets, a set of naturals that has 0
and with every n also n + 1 contains them all (`Induction`, from the
well-foundedness of `<`). `UpdateSizeInv`, `EncoderInv` and `DecoderInv` are the
results HttpServer needs. For HpackCodec, any prefix code, string and integer:
the octets give back the bits they were packed from (`BitsOfOctets`); the codes
stand in them one behind the other (`CodesGrow`); a walk from the root reads one
symbol for each code, the one that was written unless that is 5 (`WalkOne`), and
none from the padding, which reaches no leaf and stays in the tree, on the way to
EOS (`WalkEnds`); the same induction goes
over the symbols of a string (`StringTrip`) and over the groups of seven bits of
an integer (`IntegerTrip`). Theorem `CodecTripsRound`.

**HttpProofs**. For HttpServer, any streams, representations, answers, settings,
frame limit, sizes and buffer. `HttpInv` is the conjunction of

* `ScalarsOK` and `TableInv`, types and the header table;
* `ListInv`: the request list is one chain. "Reachable from first" is stated
  through closed sets: every set that has the first node and, with a node, its
  next one, has them all. `SpliceInv` shows that taking a node out and linking
  it behind another one keeps that, which is all a dependency does;
* `BufferInv`: as long as what was written fits, the buffer has the capacity it
  began with, so no pointer into it has moved, and every body is cut into frames
  that add up (`Framed`). The arithmetic is in `RoomFacts`, `BodyRoomFacts` and
  `AnswerFacts`: an answer that leaves `used` below the capacity has nothing
  unsafe and loses no header; an answer that does not leaves only the types.
  `BodyMany` gives the frames of a body, `PutFacts` and `WriteV2Effects` what
  each writer does to the buffer, `BufferStep` the conjunct for every action;
* `Phases`: what each program counter knows (a list only between the first
  frame and the end of the read, nothing written before the first answer);
* `SettingsInv`, `AnswersInv`: what the checked properties say, with the state in
  between: while the answers fit, the streams in front of `header_request` are
  the answered ones. SETTINGS stays first although an answer behind it may be
  lost;
* `FaultInv`: the pointers in every phase while nothing has thrown. It says
  nothing of `up`, and no action sets `threw` because the process ends.

Theorems: `HttpTypeCorrect`, `TableStaysSound`, `ListStaysSound`,
`StreamsAreAnswered`, `SettingsAreSentOnce`, `BodiesAreFramed`,
`StalePointersNeedException`: all invariants of HttpServer the `http` run checks.

For HttpMessage, any field names, values, bodies and number of lines. The
invariant `MessageTypes` says what a message is made of; that it then comes back
is a fact about the two algorithms. `LinesGrow` lays the field lines one behind
the other, `LineStands` finds each of them in the stream wherever that begins,
`TurnParses` shows that one turn of the loop reads one line and leaves the cursor
at the next, at the end, or behind the blank line, and `FieldMapGrows` that the
map then holds the last value of each known name; `FieldsParsed` puts them
together by induction over the lines. The turns that remain change nothing
(`done`). `FirstRead` and `RestParsed` read the first line and the body, and
`FormsTrip` goes through the forms of a message. Theorem `MessagesTripRound`.

**LoggerProofs**, for any set of loggers, buffer size and entries. `Control`
says where the pointers of a logger stand at each point of its owner and of the
flush; `EntryEnds` that a file and a flush about to write both stop at the end
of an entry; `BytesOK` and `FileOK` count: byte i of a logger is the i-th of its
bytes in the file, or stands in memory at `next_read` plus the difference. The
count is a cardinality (`Upto`), so appending needs `FiniteSetTheorems` and no
recursion. For LogReader, any format string, timestamps and file length. A format
string is read by two recursive functions, whose values `TypeStatesDef` and
`ReadStatesDef` give; `StepSame` compares them one character at a time: both take
the same step unless the type list gets a bad type, which it never loses, so what
compiles is read as it was typed (`ReadsTheTypes`). `ReaderInv` is the window:
what waits is no older than what was shown (`ShownFirst`), and until the file ends
each entry shown has one in the file that is `buffer_time` later (`ShownLate`), so
what is still to come is no older either. Theorems `LogIsComplete`,
`ReaderIsFaithful`.

**ServicesProofs**. `CacheInv` adds `Held`: while nothing was removed, maps and
keys only become more (`Grows`), so what a request found is still what it holds;
and only a PUT that found its key, which `again` records, gets to write through
a node. That is the whole reason why the unprotected references of the cache
are harmless up to the first DELETE. `UdpInv`: the queue is the end of what
arrived, `readbuffer` holds at most what this event received and ends with the
datagram just received; so a full buffer means an event larger than it, and the
reply address belongs to the last bytes. `ConfInv`: sections not yet read are
empty (`Unread`), so reading one changes nothing that an object made before
refers to. `FileInv`: as long as no file changed while it was loaded and no read
was short, loads under way have what the disk holds, and the entries and the
clients' copies are versions the disk held, tagged with the sum of their time and
size (`Untorn`). `ToldApart` is the arithmetic of the sum: versions that differ in
time or size, and in size by less than a unit, have different tags; so an entry
and a copy that share path and tag share their content. That an answer of
Not_Modified means a shared tag is `MatchNames`: `match_etag` finds a tag only as
a whole token (`TurnFacts`), however its loop skips, and its loop is a recursive
function that exists because every turn moves on (`MatchesDef`). `Counted` sums
the list by such a function too. `PrefixInv`: each value in the tree is the number of an
insertion of that entry, and each insertion but the empty one has its entry; a
search ends at the longest entry that is a prefix (`SearchEnds`), and the rest
it returns completes the path (`CutInTwo`). Theorems `CacheIsSound`,
`UdpServerStaysUp`, `ConfigIsResolved`, `FileCacheStaysSound`,
`HandlersAreFound`.

Only model-checked: everything under fairness (`BacklogServed`,
`HangUpReclaims`, `StopConverges`, `OutputDrains`, `InputRead`), since fairness
and ENABLED are beyond the provers, and the violations. `InputRead` does not show
that input reaches the protocol: a connection that closes satisfies it, which is
what `tcp_read_full` is about. Every invariant and
every other action property of the passing runs is stated by a theorem.

## 6. Findings

1. `shutdown_stall` (`listener.cpp:74-80`). The stopper is armed before the
   counter is copied. If a thread takes the stopper and leaves in between, the
   copy is already the new value, the stopper is disarmed and the polling loop
   never ends. It needs three loop threads and is permanent.
2. `tcp_read_full` (`tcpserver.cpp:25-31`). A full `readbuffer` makes `recv` a
   read of length zero, whose 0 is taken for the peer's orderly shutdown.
3. `tcp_send` (`tcpserver.cpp:76-100`). The errors that the switch after `send`
   lists are not handled as listed. `send` is called without MSG_NOSIGNAL, with
   SIGPIPE neither blocked nor ignored: a reset after the peer's shutdown can end
   the process where the code means to close the connection
   (`ResetEndsOnlyTheConnection`; the trace of the run). And the switch tests
   `ret` instead of `errno`, so EAGAIN closes the connection instead of answering
   SOCKET_RETRY (`FullSendBufferIsRetried`; its trace is longer, and is shown
   when the cfg names this part alone).
4. `hpack_coding` (`hpack.h`). What is written is not what is read, in three
   places. The flag H is read from the octet after the length, which is then
   skipped (366): no header string is read back, and a first octet of 128 or more
   is taken for a Huffman string (`HeaderStringRoundTrip`). The table has one code
   for 5 and 6 (313), unlike Appendix B, to which the comment refers, and the code
   of 6 is a hole in the tree (`SymbolRoundTrip`). Both are in the trace of the
   run, the string of the octet 5. And an integer from the mask of its prefix up is
   not coded as RFC 7541 5.1 defines, to which the comment refers (276, 294): the
   encoder writes zeros for all groups but the last, the decoder keeps the last
   only and forgets the mask (`IntegerRoundTrip`, false of 15).
5. `http2_growth` (`lib/http2.cpp:30-35,42-49`). The place of a frame's header in
   `response_buffer` is kept while the buffer may move: with several answers in
   one read, or a long one, the header goes to freed memory and a stream is not
   answered.
6. `tls_flight` (`tcpsslserver.cpp:50,148`). WANT_WRITE of a handshake, in
   `SSL_accept` or `SSL_read_ex`, is answered with EPOLLIN: the flight that waits
   for room in the send buffer is not retried when there is room.

`shutdown` also shows what a thread that enters `loop()` after the stop's
decision can meet: a closed `epollfd` (`Orphaned`) or a stopper whose frame is
gone (`crashed`).

Seen while modelling, described by the models but not the subject of a run:

* `search` of the prefix map ends at an inner node that `breakmatch` made and that
  has no value, and forgets the prefix above it: with handlers for `/`, `/aa` and
  `/ab` a request below `/a` finds none, although the comment promises the
  "largest prefix match" (`prefixmap.h:107-139`). `PrefixSound` does not ask for
  the largest one.
* `Write(code, fields)` (`http1.cpp:144-152`), which sends 204, 304 and the answers
  to HEAD, and the client's `Write` (158-164) end behind the last field line, where
  the grammar in `library/http/readme.md:74-77` has an empty line also when no body
  follows. The project's own parser does not need it (`MessageRoundTrip`).
* `add_header_string` copies a string that is not Huffman coded to the cursor
  without making room for it (`hpack.h:391`): the outcome is in `Answer`.
* The encoder writes the index of a line of the dynamic table as it is
  (`http2.h:409,429`), the decoder subtracts 62 (`http2.h:568`).
* `static_table` is filled through the initializer list of `entries`; its two
  maps stay empty and `contains` is always false, so the encoder never uses a
  static index.
* `createLogsString` reads a float for `%f`, for which the writer stores a
  double (`log.cpp:472`, `varadic.h:229-241`), stays inside the specifier after
  `%c`, and ignores `%F`; `ReaderFaithful` leaves these out. Of the entries only
  `TEST_FLOAT_LOGS` and `TEST_IPV6ADDR_LOGS` have such a conversion.
* `cache.cpp:77` says "This will create map if it does not exists"; a PUT under
  an unknown name is answered Not_Found.
* A failed or short write of the log is not repeated (`log.cpp:96-103`);
  `LogComplete` is about runs without one.
* The first eviction of the file cache uses an entry it has just destroyed
  (`httpfilehandler.h:97-101`), and two threads inside `GetCache` meet without a
  lock: `FileCacheSound` is stated up to there (`broken`). A short or failed
  `read` (line 93) is served as if it had been whole, and the tag's sum gives
  versions of different time and size one tag when the sizes differ by 2^20 or
  more: `FileCacheSound` names both (`partial`, `VersionsTold`).
* A block or frame that passes its end, or padding longer than the frame, leads
  the HTTP/2 parser through the memory behind (`BlockRunsPast`, `CutFrame`,
  `Fault`).
* A REST response is written into a stream of capacity zero, whose growth never
  ends (`rest.cpp:35`, `stream.h:220`): `Hang`.

## 7. Not modelled

* Sockets and address helpers (`netbase.cpp`, `ipv6addr.h`): wrappers of system
  calls; their failures are choices of the modules that call them.
* QUIC and QPACK headers, `fixedqueue.h`: nothing uses them. `fixedqueue_t` is
  never instantiated, and its `pop_front` would not compile.
* Error tables, country codes, GUIDs, MD5 (third party), the log viewer and the
  text of log lines: no state and no order of steps.
* `configparser`: the command line, read once before anything runs.
* The log reader's polling of a file that still grows; LogReader reads a
  complete file.
* OpenSSL, the JSON library, the kernel, the file system and the peers are
  external: modelled as far as the code depends on them.

## 8. Plan

What is left, in this order:

1. EventLoop composed with Shutdown: the rest of a batch abandoned when the
   stopper throws (`listener.cpp:236`), the one hazard of the loop no property
   covers.
2. A connection composed with HttpServer: partial input at every read, where
   `CutFrame` now stands for the outcome.
