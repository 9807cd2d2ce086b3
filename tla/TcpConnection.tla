--------------------------- MODULE TcpConnection ---------------------------
(***************************************************************************)
(* One plain TCP connection_t (core/src/tcpserver.cpp, mms/net/tcpcommon.h)*)
(* driven by the event loop: recv into the thread's read buffer, the       *)
(* protocol's answer queued in pending_wirte, send with partial writes,    *)
(* and what loop() does with the result.  The kernel's two socket buffers  *)
(* and the peer are external.                                              *)
(*                                                                         *)
(* Output bytes are identified by their position; a FixedBuffer is the     *)
(* interval [from, to] it holds (to = from - 1 for an empty buffer).       *)
(* Input bytes are counted.                                                *)
(***************************************************************************)
EXTENDS Naturals, Sequences

CONSTANTS ReadCap,   \* capacity of readbuffer: MinReadBuffer, it never grows
          SndCap,    \* bytes the kernel's send buffer holds
          MaxIn,     \* bound: bytes the peer sends
          MaxOut,    \* bound: bytes the protocol writes
          MaxBufs,   \* bound: buffers queued at a time
          BufSizes   \* sizes of the buffers the protocol writes

ASSUME TcpAssumption ==
  /\ ReadCap \in Nat \ {0} /\ SndCap \in Nat \ {0}
  /\ MaxIn \in Nat /\ MaxOut \in Nat /\ MaxBufs \in Nat
  /\ BufSizes \subseteq Nat

VARIABLES
  rcv,          \* bytes in the kernel's receive queue
  peerSent,     \* bytes the peer has sent
  fin,          \* the peer has shut down its sending side
  rst,          \* "no", or a reset: "conn" before a FIN, "pipe" after it
  snd,          \* bytes in the kernel's send buffer
  index,        \* readbuffer.index()
  consumed,     \* input bytes passed to the protocol
  pending_wirte, writeoffset,
  written,      \* output bytes queued so far
  wire,         \* output bytes accepted by the socket
  arm,          \* epoll interest: "in", "inout", "off", "none"
  pc,           \* "wait", "read", "protocol", "write", "ran"
  ret,          \* result of the handler, "none" while idle
  live,         \* the connection object exists
  proc          \* the process: "up", "aborted" (uncaught exception), "killed" (signal)

input  == <<rcv, peerSent, index, consumed>>
output == <<snd, pending_wirte, writeoffset, written, wire>>
peer   == <<fin, rst>>
vars   == <<input, output, peer, arm, pc, ret, live, proc>>

Buffer == [from : Nat, to : Nat]
size(b) == (b.to + 1) - b.from

Up == proc = "up"

Results == {"none", "SUCCESS", "SOCKET_RETRY", "ORDERLY_SHUTDOWN", "BAD_FILE_DESCRIPTOR"}

TypeOK ==
  /\ rcv \in Nat /\ peerSent \in Nat /\ consumed \in Nat
  /\ index \in 0..ReadCap
  /\ fin \in BOOLEAN /\ rst \in {"no", "conn", "pipe"}
  /\ snd \in 0..SndCap
  /\ pending_wirte \in Seq(Buffer) /\ writeoffset \in Nat
  /\ written \in Nat /\ wire \in Seq(Nat)
  /\ arm \in {"in", "inout", "off", "none"}
  /\ pc \in {"wait", "read", "protocol", "write", "ran"}
  /\ ret \in Results
  /\ live \in BOOLEAN /\ proc \in {"up", "aborted", "killed"}

\* A connection just added to the listener.
Init ==
  /\ rcv = 0 /\ peerSent = 0 /\ index = 0 /\ consumed = 0
  /\ fin = FALSE /\ rst = "no" /\ snd = 0
  /\ pending_wirte = <<>> /\ writeoffset = 0 /\ written = 0 /\ wire = <<>>
  /\ arm = "in" /\ pc = "wait" /\ ret = "none"
  /\ live = TRUE /\ proc = "up"

-----------------------------------------------------------------------------
(***************************************************************************)
(* The peer and the kernel.                                                *)
(***************************************************************************)
PeerSend ==
  /\ ~fin /\ rst = "no" /\ peerSent < MaxIn
  /\ peerSent' = peerSent + 1 /\ rcv' = rcv + 1
  /\ UNCHANGED <<index, consumed, output, peer, arm, pc, ret, live, proc>>

PeerRead ==
  /\ snd > 0 /\ rst = "no" /\ snd' = snd - 1
  /\ UNCHANGED <<input, pending_wirte, writeoffset, written, wire, peer, arm,
                 pc, ret, live, proc>>

PeerShutdown ==
  /\ ~fin /\ rst = "no" /\ fin' = TRUE
  /\ UNCHANGED <<input, output, rst, arm, pc, ret, live, proc>>

\* A reset (or a timeout).  In CLOSE_WAIT the pending error is EPIPE.
PeerReset ==
  /\ rst = "no" /\ rst' = IF fin THEN "pipe" ELSE "conn"
  /\ UNCHANGED <<input, output, fin, arm, pc, ret, live, proc>>

-----------------------------------------------------------------------------
(***************************************************************************)
(* loop(): dispatch of an event.  EPOLLRDHUP (a FIN or a reset) deletes    *)
(* the connection; EPOLLIN runs ProcessRead, and ProcessWrite on success;  *)
(* EPOLLOUT runs ProcessWrite.                                             *)
(***************************************************************************)
DispatchHangUp ==
  /\ pc = "wait" /\ arm \in {"in", "inout"}
  /\ fin \/ rst # "no"
  /\ arm' = "none" /\ live' = FALSE
  /\ UNCHANGED <<input, output, peer, pc, ret, proc>>

DispatchRead ==
  /\ pc = "wait" /\ arm \in {"in", "inout"}
  /\ rcv > 0 /\ ~fin /\ rst = "no"
  /\ arm' = "off" /\ pc' = "read"
  /\ index' = 0
  /\ UNCHANGED <<rcv, peerSent, consumed, output, peer, ret, live, proc>>

DispatchWrite ==
  /\ pc = "wait" /\ arm = "inout"
  /\ rcv = 0 /\ snd < SndCap /\ ~fin /\ rst = "no"
  /\ arm' = "off" /\ pc' = "write"
  /\ UNCHANGED <<input, output, peer, ret, live, proc>>

-----------------------------------------------------------------------------
(***************************************************************************)
(* connection_t::ProcessRead.                                              *)
(***************************************************************************)
\* Mutated: the whole capacity is offered to every recv.
roomIgnoresIndex == ReadCap

\* GetRawCurrentBuffer: what is left of readbuffer.
room == ReadCap - index

RecvData ==
  /\ pc = "read" /\ rcv > 0 /\ room > 0
  /\ LET n == IF rcv < room THEN rcv ELSE room
     IN  index' = index + n /\ rcv' = rcv - n
  /\ UNCHANGED <<peerSent, consumed, output, peer, arm, pc, ret, live, proc>>

\* recv returns 0: the peer's FIN, or a read of length zero into a full
\* buffer while more data waits.
RecvZero ==
  /\ pc = "read"
  /\ \/ rcv > 0 /\ room = 0
     \/ rcv = 0 /\ fin
  /\ ret' = "ORDERLY_SHUTDOWN" /\ pc' = "ran"
  /\ UNCHANGED <<input, output, peer, arm, live, proc>>

\* Mutated: EAGAIN returns without a call of the protocol.
RecvAgainReturns ==
  /\ pc = "read" /\ rcv = 0 /\ ~fin /\ rst = "no"
  /\ pc' = "write"
  /\ UNCHANGED <<input, output, peer, arm, ret, live, proc>>

RecvAgain ==
  /\ pc = "read" /\ rcv = 0 /\ ~fin /\ rst = "no"
  /\ pc' = "protocol"
  /\ UNCHANGED <<input, output, peer, arm, ret, live, proc>>

\* Any other errno: Close().
RecvError ==
  /\ pc = "read" /\ rcv = 0 /\ ~fin /\ rst # "no"
  /\ ret' = "BAD_FILE_DESCRIPTOR" /\ pc' = "ran" /\ arm' = "none"
  /\ UNCHANGED <<input, output, peer, live, proc>>

\* EFAULT or ENOMEM: exception_t(CRITICAL_FAILURE), which loop() does not catch.
RecvCritical ==
  /\ pc = "read" /\ proc' = "aborted"
  /\ UNCHANGED <<input, output, peer, arm, pc, ret, live>>

-----------------------------------------------------------------------------
(***************************************************************************)
(* The protocol's ProcessRead queues any number of buffers through         *)
(* WriteNoCopy; an empty read does not reach it.                           *)
(***************************************************************************)
WriteNoCopy(n) ==
  /\ written + n <= MaxOut /\ Len(pending_wirte) < MaxBufs
  /\ pending_wirte' = Append(pending_wirte, [from |-> written + 1, to |-> written + n])
  /\ written' = written + n

ProtocolWrite(n) ==
  /\ pc = "protocol" /\ index > 0
  /\ WriteNoCopy(n)
  /\ UNCHANGED <<input, snd, writeoffset, wire, peer, arm, pc, ret, live, proc>>

ProtocolDone ==
  /\ pc = "protocol" /\ pc' = "write"
  /\ consumed' = consumed + index
  /\ index' = 0
  /\ UNCHANGED <<rcv, peerSent, output, peer, arm, ret, live, proc>>

-----------------------------------------------------------------------------
(***************************************************************************)
(* connection_t::ProcessWrite.                                             *)
(***************************************************************************)
front == pending_wirte[1]
unsent == size(front) - writeoffset

\* Mutated: the reset of writeoffset is missing.
PopFrontKeepsOffset == UNCHANGED writeoffset /\ pending_wirte' = Tail(pending_wirte)

\* writeoffset = 0; pending_wirte.pop().
PopFront == writeoffset' = 0 /\ pending_wirte' = Tail(pending_wirte)

WriteEmptyBuffer ==
  /\ pc = "write" /\ pending_wirte # <<>> /\ unsent = 0
  /\ PopFront
  /\ UNCHANGED <<input, snd, written, wire, peer, arm, pc, ret, live, proc>>

\* The socket takes n bytes of the front buffer, from writeoffset on.
Transmit(n) ==
  /\ snd' = snd + n
  /\ wire' = [i \in 1..(Len(wire) + n) |->
                IF i <= Len(wire) THEN wire[i]
                ELSE front.from + writeoffset + ((i - Len(wire)) - 1)]

SendAll ==
  /\ pc = "write" /\ pending_wirte # <<>> /\ unsent > 0 /\ rst = "no"
  /\ unsent <= SndCap - snd
  /\ Transmit(unsent) /\ PopFront
  /\ UNCHANGED <<input, written, peer, arm, pc, ret, live, proc>>

\* Mutated: a partial send is forgotten.
AdvanceNothing(n) == UNCHANGED writeoffset

\* writeoffset += ret.
AdvanceOffset(n) == writeoffset' = writeoffset + n

SendPart ==
  /\ pc = "write" /\ pending_wirte # <<>> /\ rst = "no"
  /\ SndCap - snd > 0 /\ SndCap - snd < unsent
  /\ Transmit(SndCap - snd) /\ AdvanceOffset(SndCap - snd)
  /\ ret' = "SOCKET_RETRY" /\ pc' = "ran"
  /\ UNCHANGED <<input, pending_wirte, written, peer, arm, live, proc>>

\* send fails: EAGAIN on a full send buffer, or a reset.  The switch tests
\* ret, which is -1, instead of errno, so every failure takes the default
\* branch: Close() and BAD_FILE_DESCRIPTOR.
SendFails ==
  /\ pc = "write" /\ pending_wirte # <<>> /\ unsent > 0
  /\ rst = "conn" \/ (rst = "no" /\ snd = SndCap)
  /\ ret' = "BAD_FILE_DESCRIPTOR" /\ pc' = "ran" /\ arm' = "none"
  /\ UNCHANGED <<input, output, peer, live, proc>>

\* EPIPE: send is called without MSG_NOSIGNAL and SIGPIPE is neither blocked
\* nor ignored.
SendPipe ==
  /\ pc = "write" /\ pending_wirte # <<>> /\ unsent > 0 /\ rst = "pipe"
  /\ proc' = "killed"
  /\ UNCHANGED <<input, output, peer, arm, pc, ret, live>>

WriteDone ==
  /\ pc = "write" /\ pending_wirte = <<>>
  /\ ret' = "SUCCESS" /\ pc' = "ran"
  /\ UNCHANGED <<input, output, peer, arm, live, proc>>

-----------------------------------------------------------------------------
(***************************************************************************)
(* loop(): the switch on the result.                                       *)
(***************************************************************************)
\* Mutated: every result re-arms for reading only, or a successful one not.
RearmReadOnly(r) == "in"
RearmRetryOnly(r) == IF r = "SOCKET_RETRY" THEN "inout" ELSE "off"

\* enable(processor, enablewrite).
Rearm(r) == IF r = "SOCKET_RETRY" THEN "inout" ELSE "in"

Finish ==
  /\ pc = "ran" /\ pc' = "wait" /\ ret' = "none"
  /\ IF ret \in {"SUCCESS", "SOCKET_RETRY"}
     THEN arm' = Rearm(ret) /\ UNCHANGED live
     ELSE arm' = "none" /\ live' = FALSE
  /\ UNCHANGED <<input, output, peer, proc>>

Handler ==
  \/ RecvData \/ RecvZero \/ RecvAgain \/ RecvError
  \/ ProtocolDone \/ \E n \in BufSizes : ProtocolWrite(n)
  \/ WriteEmptyBuffer \/ SendAll \/ SendPart \/ SendFails \/ SendPipe
  \/ WriteDone \/ Finish

Dispatch == DispatchHangUp \/ DispatchRead \/ DispatchWrite

Next ==
  /\ live /\ Up
  /\ \/ Dispatch \/ Handler \/ RecvCritical
     \/ PeerSend \/ PeerRead \/ PeerShutdown \/ PeerReset

\* The thread runs, epoll reports what is ready, and the peer reads.
Fairness ==
  /\ WF_vars(live /\ Up /\ Dispatch) /\ WF_vars(live /\ Up /\ Handler)
  /\ WF_vars(live /\ Up /\ PeerRead)

Spec == Init /\ [][Next]_vars
FairSpec == Spec /\ Fairness

-----------------------------------------------------------------------------
(***************************************************************************)
(* Properties.                                                             *)
(***************************************************************************)
\* The connection implements the byte stream of the protocol interface: what
\* reaches the socket through partial sends, retries and buffer changes is
\* the written bytes in order, without gap or repetition.
Stream == INSTANCE ByteStream WITH written <- written, out <- wire, open <- live /\ Up
StreamSpec == Stream!Spec

\* Between the socket and the queue no output byte is missing or doubled: the
\* next byte to send is the first one the socket does not have, buffers
\* follow each other, and the last one ends with the last byte written.
QueueContiguous ==
  /\ pending_wirte = <<>> => Len(wire) = written /\ writeoffset = 0
  /\ pending_wirte # <<>> =>
       /\ front.from + writeoffset = Len(wire) + 1
       /\ writeoffset <= size(front)
       /\ pending_wirte[Len(pending_wirte)].to = written
       /\ \A i \in 1..(Len(pending_wirte) - 1) :
            pending_wirte[i + 1].from = pending_wirte[i].to + 1

\* Resetting the thread's read buffer at the next event never drops input:
\* everything the peer sent is still in the kernel, in the buffer of the
\* running handler, or was given to the protocol.
InputAccounted == consumed + index + rcv = peerSent

\* A connection that goes back to epoll with output left has asked for
\* EPOLLOUT, and one without output has not.
OutputWakesUp ==
  (pc = "wait" /\ live) => (pending_wirte # <<>> <=> arm = "inout")

\* Queued output is sent if the peer keeps reading, or the connection ends.
OutputDrains == (pending_wirte # <<>>) ~> (pending_wirte = <<>> \/ ~live \/ ~Up)

\* Input is read, or the connection ends.
InputRead == (rcv > 0) ~> (rcv = 0 \/ ~live \/ ~Up)

\* "Peer has performed orderly shutdown" (error.h:45): ProcessRead answers
\* ORDERLY_SHUTDOWN only when the peer did.
OrderlyShutdownIsThePeers == ret = "ORDERLY_SHUTDOWN" => fin

\* A full send buffer does not close the connection, only a failed socket does;
\* and the peer's reset ends the connection, not the process.
FullSendBufferIsRetried == ret = "BAD_FILE_DESCRIPTOR" => rst # "no"
ResetEndsOnlyTheConnection == proc # "killed"

\* The errors of send as ProcessWrite lists them (tcpserver.cpp:78-100): case
\* EAGAIN: ... return err_t::SOCKET_RETRY, and EPIPE is among the errors after which
\* "Close will take care of termination".
SendErrorsAsListed == FullSendBufferIsRetried /\ ResetEndsOnlyTheConnection
=============================================================================
