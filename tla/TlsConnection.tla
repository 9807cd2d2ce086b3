--------------------------- MODULE TlsConnection ---------------------------
(***************************************************************************)
(* A TLS connection (core/src/tcpsslserver.cpp): the accept of server_t    *)
(* with every failure between accept4 and listener->add, and connection_t  *)
(* with its SSL_read_ex and SSL_write_ex loops, driven by the event loop.  *)
(*                                                                         *)
(* OpenSSL, the kernel and the peer are external.  A record of the peer is *)
(* "data" with its bytes, or without any one of "hello" (a new handshake), *)
(* "finished" (the end of one) and "bad".  The server's side of a handshake*)
(* is a flight it sends before the peer's end and one after it, which wait *)
(* for room in the kernel's send buffer.  SSL decrypts whole records: what *)
(* the caller's buffer does not take stays inside, where epoll does not    *)
(* see it.  An output buffer is its number.                                *)
(***************************************************************************)
EXTENDS Integers, Sequences, FiniteSetsExt

CONSTANTS TlsReadCap,   \* capacity of readbuffer
          RecordSizes,  \* sizes of application records
          MaxRecords,   \* bound: records of the peer
          MaxOutput     \* bound: buffers the protocol writes

ASSUME TlsAssumption == TlsReadCap \in Nat /\ RecordSizes \subseteq Nat /\ MaxOutput \in Nat

VARIABLES
  ssl, fd,      \* of the accepted peer: "none", "open", "freed" and "none", "open", "closed"
  conn,         \* the connection_t: "none", "added", "deleted"
  session,      \* SSL's state: "flight" and "last" (its own side of the handshake is
                \* to be sent), "handshake" (the peer's is awaited), "ready", "failed"
  peerReady,    \* the peer has sent the end of its handshake
  records,      \* records in the kernel's receive queue
  sentRecords,  \* records the peer has sent
  inside,       \* decrypted bytes SSL holds
  filled,       \* the last ProcessRead filled readbuffer
  readIndex,    \* readbuffer.index()
  output,       \* pending_wirte
  queued,       \* buffers queued so far
  retried,      \* buffer of a failed SSL_write_ex, which must be offered again; 0: none
  sent,         \* buffers SSL has taken
  blocked,      \* the kernel's send buffer is full
  interest,     \* epoll: "in", "inout", "off"
  at            \* "wait", "read", "protocol", "write"

session_ == <<session, peerReady, records, sentRecords, inside>>
output_  == <<output, queued, retried, sent, blocked>>
tlsVars  == <<ssl, fd, conn, session_, filled, readIndex, output_, interest, at>>

TlsInit ==
  /\ ssl = "none" /\ fd = "none" /\ conn = "none"
  /\ session = "handshake" /\ peerReady = FALSE
  /\ records = <<>> /\ sentRecords = 0 /\ inside = 0
  /\ filled = FALSE /\ readIndex = 0
  /\ output = <<>> /\ queued = 0 /\ retried = 0 /\ sent = <<>> /\ blocked = FALSE
  /\ interest = "off" /\ at = "wait"

-----------------------------------------------------------------------------
(***************************************************************************)
(* server_t::ProcessRead.                                                  *)
(***************************************************************************)
\* SSL_new fails: only the descriptor exists.
TlsNoSsl ==
  /\ fd = "none" /\ fd' = "closed"
  /\ UNCHANGED <<ssl, conn, session_, filled, readIndex, output_, interest, at>>

\* SSL_set_fd or SSL_accept fails, or the protocol negotiated so far has no
\* protocol object: both are released.
TlsRefuse ==
  /\ fd = "none" /\ fd' = "closed" /\ ssl' = "freed"
  /\ UNCHANGED <<conn, session_, filled, readIndex, output_, interest, at>>

\* listener->add fails: delete connection frees SSL, ~processor_t the descriptor.
TlsAddFails ==
  /\ fd = "none" /\ fd' = "closed" /\ ssl' = "freed" /\ conn' = "deleted"
  /\ UNCHANGED <<session_, filled, readIndex, output_, interest, at>>

Flights == {"flight", "last"}

\* SSL_accept returns with the handshake ended (0: by an alert of the peer),
\* SSL_ERROR_WANT_READ or SSL_ERROR_WANT_WRITE: SSL_read_ex goes on with it.
\* add registers the connection for EPOLLIN whichever it was.
TlsAccept ==
  /\ fd = "none" /\ fd' = "open" /\ ssl' = "open" /\ conn' = "added"
  /\ session' \in {"flight", "handshake", "last", "ready", "failed"}
  /\ peerReady' = (session' \in {"last", "ready"})
  /\ blocked' = (session' \in Flights)
  /\ interest' = "in"
  /\ UNCHANGED <<records, sentRecords, inside, filled, readIndex, output, queued, retried, sent,
                 at>>

-----------------------------------------------------------------------------
(***************************************************************************)
(* The peer.  It ends a handshake when it has the server's side of it.     *)
(***************************************************************************)
PeerRecord ==
  /\ conn = "added" /\ sentRecords < MaxRecords
  /\ peerReady \/ session = "handshake"
  /\ \E r \in (IF peerReady THEN {"data"} \X RecordSizes \cup {"hello", "bad"} \X {0}
                            ELSE {"finished", "bad"} \X {0}) :
       /\ records' = Append(records, r)
       /\ peerReady' = CASE r[1] = "hello" -> FALSE [] r[1] = "finished" -> TRUE
                         [] OTHER -> peerReady
  /\ sentRecords' = sentRecords + 1
  /\ UNCHANGED <<ssl, fd, conn, session, inside, filled, readIndex, output_, interest, at>>

PeerDrains ==
  /\ blocked /\ blocked' = FALSE
  /\ UNCHANGED <<ssl, fd, conn, session_, filled, readIndex, output, queued, retried, sent,
                 interest, at>>

-----------------------------------------------------------------------------
(***************************************************************************)
(* loop(): the event.                                                      *)
(***************************************************************************)
\* Delete: ~connection_t frees SSL, ~processor_t closes the descriptor.
Release ==
  /\ conn' = "deleted" /\ ssl' = "freed" /\ fd' = "closed"
  /\ interest' = "off" /\ at' = "wait"

TlsHangUp ==
  /\ at = "wait" /\ interest # "off"
  /\ Release
  /\ UNCHANGED <<session_, filled, readIndex, output_>>

TlsReadable ==
  /\ at = "wait" /\ interest # "off" /\ records # <<>>
  /\ interest' = "off" /\ at' = "read" /\ readIndex' = 0 /\ filled' = FALSE
  /\ UNCHANGED <<ssl, fd, conn, session_, output_>>

TlsWritable ==
  /\ at = "wait" /\ interest = "inout" /\ records = <<>> /\ ~blocked
  /\ interest' = "off" /\ at' = "write"
  /\ UNCHANGED <<ssl, fd, conn, session_, filled, readIndex, output_>>

-----------------------------------------------------------------------------
(***************************************************************************)
(* connection_t::ProcessRead.                                              *)
(***************************************************************************)
free == TlsReadCap - readIndex

\* SSL_read_ex returns what SSL holds, or of the next record, up to the room.
Deliver(n, rest) ==
  LET k == Min({n, free})
  IN  readIndex' = readIndex + k /\ inside' = n - k /\ records' = rest

TlsReadBytes ==
  /\ at = "read" /\ free > 0 /\ session = "ready"
  /\ \/ inside > 0 /\ Deliver(inside, records)
     \/ /\ inside = 0 /\ records # <<>> /\ records[1][1] = "data"
        /\ Deliver(records[1][2], Tail(records))
  /\ UNCHANGED <<ssl, fd, conn, session, peerReady, sentRecords, filled, output_, interest, at>>

\* SSL is called: by a read with room, or by a write in a handshake.
SslRuns == (at = "read" /\ free > 0) \/ (at = "write" /\ output # <<>> /\ session # "ready")

\* A record without data changes the session and SSL goes on.
TlsReadControl ==
  /\ SslRuns /\ session \in {"handshake", "ready"} /\ inside = 0 /\ records # <<>>
  /\ records[1][1] # "data"
  /\ session' = CASE records[1][1] = "hello" -> "flight"
                  [] records[1][1] = "finished" -> "last"
                  [] OTHER -> "failed"
  /\ records' = Tail(records)
  /\ UNCHANGED <<ssl, fd, conn, peerReady, sentRecords, inside, filled, readIndex, output_,
                 interest, at>>

\* SSL sends its side of the handshake; the send buffer may be full then.
TlsFlight ==
  /\ SslRuns /\ session \in Flights /\ ~blocked
  /\ session' = IF session = "flight" THEN "handshake" ELSE "ready"
  /\ blocked' \in BOOLEAN
  /\ UNCHANGED <<ssl, fd, conn, peerReady, records, sentRecords, inside, filled, readIndex,
                 output, queued, retried, sent, interest, at>>

\* actualread is 0: a full buffer, nothing to read, a flight that waits for the
\* send buffer (SSL_ERROR_WANT_WRITE), or a failed session.  SSL_read_ex reports
\* each with 0 and not with -1: the cases of -1 are not reached.
TlsReadEnds ==
  /\ at = "read"
  /\ \/ free = 0 \/ session = "failed"
     \/ session \in Flights /\ blocked
     \/ session \in {"handshake", "ready"} /\ inside = 0 /\ records = <<>>
  /\ filled' = (free = 0) /\ at' = "protocol"
  /\ UNCHANGED <<ssl, fd, conn, session_, readIndex, output_, interest>>

\* The protocol's ProcessRead, called for what was read, queues buffers.
TlsProtocol ==
  /\ at = "protocol"
  /\ \E n \in 0..(IF readIndex = 0 THEN 0 ELSE MaxOutput - queued) :
       /\ output' = output \o [i \in 1..n |-> queued + i]
       /\ queued' = queued + n
  /\ at' = "write"
  /\ UNCHANGED <<ssl, fd, conn, session_, filled, readIndex, retried, sent, blocked, interest>>

-----------------------------------------------------------------------------
(***************************************************************************)
(* connection_t::ProcessWrite, and what loop() does with its result.       *)
(***************************************************************************)
Rearm(write) == interest' = (IF write THEN "inout" ELSE "in") /\ at' = "wait"

\* SSL takes the whole buffer; the send buffer may be full then.
TlsWrites ==
  /\ at = "write" /\ output # <<>> /\ session = "ready" /\ ~blocked
  /\ sent' = Append(sent, output[1]) /\ output' = Tail(output) /\ retried' = 0
  /\ blocked' \in BOOLEAN
  /\ UNCHANGED <<ssl, fd, conn, session_, filled, readIndex, queued, interest, at>>

\* Mutated: re-armed for input only.
WantWriteForgotten ==
  /\ at = "write" /\ output # <<>> /\ session \in Flights \cup {"ready"} /\ blocked
  /\ retried' = output[1] /\ Rearm(FALSE)
  /\ UNCHANGED <<ssl, fd, conn, session_, filled, readIndex, output, queued, sent, blocked>>

\* SSL_ERROR_WANT_WRITE, of the buffer or of a flight before it: SOCKET_RETRY,
\* with the offset kept.
TlsWantWrite ==
  /\ at = "write" /\ output # <<>> /\ session \in Flights \cup {"ready"} /\ blocked
  /\ retried' = output[1] /\ Rearm(TRUE)
  /\ UNCHANGED <<ssl, fd, conn, session_, filled, readIndex, output, queued, sent, blocked>>

\* SSL_ERROR_WANT_READ, in a handshake: SUCCESS, so no EPOLLOUT.
TlsWantRead ==
  /\ at = "write" /\ output # <<>> /\ session = "handshake" /\ records = <<>>
  /\ retried' = output[1] /\ Rearm(FALSE)
  /\ UNCHANGED <<ssl, fd, conn, session_, filled, readIndex, output, queued, sent, blocked>>

\* ORDERLY_SHUTDOWN, or Close() and BAD_FILE_DESCRIPTOR.
TlsWriteFails ==
  /\ at = "write" /\ output # <<>> /\ session = "failed"
  /\ Release
  /\ UNCHANGED <<session_, filled, readIndex, output_>>

TlsWriteDone ==
  /\ at = "write" /\ output = <<>>
  /\ Rearm(FALSE)
  /\ UNCHANGED <<ssl, fd, conn, session_, filled, readIndex, output_>>

TlsNext ==
  \/ TlsNoSsl \/ TlsRefuse \/ TlsAddFails \/ TlsAccept
  \/ PeerRecord \/ PeerDrains \/ TlsHangUp \/ TlsReadable \/ TlsWritable
  \/ TlsReadBytes \/ TlsReadControl \/ TlsFlight \/ TlsReadEnds \/ TlsProtocol
  \/ TlsWrites \/ TlsWantWrite \/ TlsWantRead \/ TlsWriteFails \/ TlsWriteDone

TlsSpec == TlsInit /\ [][TlsNext]_tlsVars

-----------------------------------------------------------------------------
\* Output and input have what wakes them up.  At rest, bytes SSL has decrypted and
\* epoll cannot see are left only by a read that filled readbuffer
\* (tcpsslserver.cpp:61-63); output is left only with EPOLLOUT interest, or in a
\* handshake, where the peer's next record brings the event (91-95).  A buffer
\* SSL could not write is the one offered again, as OpenSSL demands, and buffers
\* leave in order.  Descriptor, SSL and connection end together on every path
\* (116-183).
TlsWakesUp ==
  /\ conn = "added" /\ at = "wait" =>
       /\ inside > 0 => filled
       /\ output # <<>> => interest = "inout" \/ session = "handshake"
       /\ interest # "off"
  /\ conn = "added" /\ retried # 0 => output # <<>> /\ output[1] = retried
  /\ sent \o output = [i \in 1..queued |-> i]
  /\ (fd = "open") = (conn = "added") /\ (ssl = "open") = (conn = "added")

\* "Socket retry last operation" (error.h:81): a handshake whose next flight the
\* send buffer did not take is woken up when the peer has made room, as output of
\* the protocol is.  The peer waits for the flight, so no input will come.
HandshakeIsRetried ==
  conn = "added" /\ at = "wait" /\ session \in Flights => interest = "inout"
=============================================================================
