----------------------------- MODULE UdpServer -----------------------------
(***************************************************************************)
(* The UDP server (core/src/udpserversimple.cpp): one processor for all    *)
(* clients.  ProcessRead calls the protocol after every recvfrom of an     *)
(* event, with all that readbuffer holds; WriteNoCopy addresses the answer *)
(* to current_client_addr; ProcessWrite sends the queue.                   *)
(*                                                                         *)
(* The socket and the clients are external.  A datagram is <<client,       *)
(* size>>; readbuffer is the sequence of the clients its bytes came from,  *)
(* an answer the client it is sent to and the bytes the protocol saw.      *)
(***************************************************************************)
EXTENDS Integers, Sequences

CONSTANTS Clients,
          UdpReadCap,    \* capacity of readbuffer
          DatagramSizes,
          MaxDatagrams,  \* bound: datagrams sent
          NoClient       \* the null address

ASSUME UdpAssumption == UdpReadCap \in Nat /\ DatagramSizes \subseteq Nat

VARIABLES
  datagrams,            \* in the kernel's receive queue
  arrived,              \* all datagrams sent, in order
  taken,                \* number of datagrams received by recvfrom
  eventBytes,           \* the bytes of the datagrams received since the event began
  readbuffer,
  current_client_addr,
  answers,              \* pending_wirte
  answered,             \* all answers queued, in order
  sendBlocked,
  udpInterest,          \* "in", "inout", "off"
  udpAt,                \* "wait", "read", "protocol", "write"
  server                \* "up", "deleted", "closed" (by an error), "aborted" (exception)

udpIn  == <<datagrams, arrived, taken, eventBytes, readbuffer, current_client_addr>>
udpOut == <<answers, answered, sendBlocked>>
udpVars == <<udpIn, udpOut, udpInterest, udpAt, server>>

UdpInit ==
  /\ datagrams = <<>> /\ arrived = <<>> /\ taken = 0 /\ eventBytes = 0
  /\ readbuffer = <<>> /\ current_client_addr = NoClient
  /\ answers = <<>> /\ answered = <<>> /\ sendBlocked = FALSE
  /\ udpInterest = "in" /\ udpAt = "wait" /\ server = "up"

-----------------------------------------------------------------------------
ClientSends ==
  /\ Len(arrived) < MaxDatagrams
  /\ \E d \in Clients \X DatagramSizes :
       datagrams' = Append(datagrams, d) /\ arrived' = Append(arrived, d)
  /\ UNCHANGED <<taken, eventBytes, readbuffer, current_client_addr, udpOut, udpInterest,
                 udpAt, server>>

SocketBlocks ==
  /\ sendBlocked' = ~sendBlocked
  /\ UNCHANGED <<udpIn, answers, answered, udpInterest, udpAt, server>>

-----------------------------------------------------------------------------
(***************************************************************************)
(* loop(): the event, and the switch on the result.                        *)
(***************************************************************************)
UdpReadable ==
  /\ udpAt = "wait" /\ udpInterest # "off" /\ datagrams # <<>>
  /\ udpInterest' = "off" /\ udpAt' = "read"
  /\ readbuffer' = <<>> /\ eventBytes' = 0
  /\ UNCHANGED <<datagrams, arrived, taken, current_client_addr, udpOut, server>>

UdpWritable ==
  /\ udpAt = "wait" /\ udpInterest = "inout" /\ datagrams = <<>> /\ ~sendBlocked
  /\ udpInterest' = "off" /\ udpAt' = "write"
  /\ UNCHANGED <<udpIn, udpOut, server>>

\* Delete(processor): the server the repository also owns.
UdpDelete(how) == server' = how /\ udpInterest' = "off" /\ udpAt' = "wait"

-----------------------------------------------------------------------------
(***************************************************************************)
(* ProcessRead.                                                            *)
(***************************************************************************)
\* recvfrom fills what is left of readbuffer and drops the rest of the datagram.
UdpRecv ==
  /\ udpAt = "read" /\ datagrams # <<>>
  /\ datagrams[1][2] > 0 /\ Len(readbuffer) < UdpReadCap
  /\ LET room == UdpReadCap - Len(readbuffer)
         n == IF datagrams[1][2] <= room THEN datagrams[1][2] ELSE room
     IN  readbuffer' = readbuffer \o [i \in 1..n |-> datagrams[1][1]]
  /\ current_client_addr' = datagrams[1][1]
  /\ datagrams' = Tail(datagrams) /\ taken' = taken + 1
  /\ eventBytes' = eventBytes + datagrams[1][2]
  /\ udpAt' = "protocol"
  /\ UNCHANGED <<arrived, udpOut, udpInterest, server>>

\* recvfrom returns 0, for a datagram without data or a full readbuffer:
\* ORDERLY_SHUTDOWN.
UdpRecvZero ==
  /\ udpAt = "read" /\ datagrams # <<>>
  /\ datagrams[1][2] = 0 \/ Len(readbuffer) = UdpReadCap
  /\ datagrams' = Tail(datagrams) /\ taken' = taken + 1
  /\ eventBytes' = eventBytes + datagrams[1][2]
  /\ UdpDelete("deleted")
  /\ UNCHANGED <<arrived, readbuffer, current_client_addr, udpOut>>

\* EAGAIN: SUCCESS, so that ProcessWrite follows.
UdpRecvAgain ==
  /\ udpAt = "read" /\ datagrams = <<>>
  /\ udpAt' = "write"
  /\ UNCHANGED <<udpIn, udpOut, udpInterest, server>>

\* Another errno closes the descriptor; EFAULT and ENOMEM throw.
UdpFails ==
  /\ udpAt \in {"read", "write"}
  /\ udpAt = "write" => answers # <<>>
  /\ \E how \in {"closed", "aborted"} : UdpDelete(how)
  /\ UNCHANGED <<udpIn, udpOut>>

\* Mutated: the address of the first client of the buffer.
AnswerFirst == [to |-> readbuffer[1], bytes |-> readbuffer]

\* WriteNoCopy.
Answer == [to |-> current_client_addr, bytes |-> readbuffer]

\* The protocol answers what it is called with, or does not.
UdpProtocol ==
  /\ udpAt = "protocol"
  /\ \E n \in 0..1 :
       /\ answers' = answers \o [i \in 1..n |-> Answer]
       /\ answered' = answered \o [i \in 1..n |-> <<taken, Answer>>]
  /\ current_client_addr' = NoClient /\ udpAt' = "read"
  /\ UNCHANGED <<datagrams, arrived, taken, eventBytes, readbuffer, sendBlocked, udpInterest,
                 server>>

-----------------------------------------------------------------------------
(***************************************************************************)
(* ProcessWrite.                                                           *)
(***************************************************************************)
UdpSend ==
  /\ udpAt = "write" /\ answers # <<>> /\ ~sendBlocked
  /\ answers' = Tail(answers)
  /\ UNCHANGED <<udpIn, answered, sendBlocked, udpInterest, udpAt, server>>

\* EAGAIN: SOCKET_RETRY.
UdpSendAgain ==
  /\ udpAt = "write" /\ answers # <<>> /\ sendBlocked
  /\ udpInterest' = "inout" /\ udpAt' = "wait"
  /\ UNCHANGED <<udpIn, udpOut, server>>

UdpWriteDone ==
  /\ udpAt = "write" /\ answers = <<>>
  /\ udpInterest' = "in" /\ udpAt' = "wait"
  /\ UNCHANGED <<udpIn, udpOut, server>>

UdpNext ==
  \/ ClientSends \/ SocketBlocks \/ UdpReadable \/ UdpWritable
  \/ UdpRecv \/ UdpRecvZero \/ UdpRecvAgain \/ UdpFails \/ UdpProtocol
  \/ UdpSend \/ UdpSendAgain \/ UdpWriteDone

UdpSpec == UdpInit /\ [][UdpNext]_udpVars

-----------------------------------------------------------------------------
\* The server lives until a datagram without data, an event whose datagrams
\* exceed readbuffer, or a failure of the socket (udpserversimple.cpp:37-62).
\* Each answer goes to the client of the datagram the protocol was called for,
\* whatever datagrams of others precede it in readbuffer (22-25, 67-72), and
\* that datagram's bytes are the last ones the protocol sees.  At rest, answers
\* left in the queue have EPOLLOUT interest (79-112).
UdpServerLives ==
  /\ server = "deleted" =>
       arrived[taken][2] = 0 \/ eventBytes > UdpReadCap
  /\ \A i \in 1..Len(answered) :
       LET client == arrived[answered[i][1]][1]
           bytes  == answered[i][2].bytes
       IN  answered[i][2].to = client /\ bytes # <<>> /\ bytes[Len(bytes)] = client
  /\ server = "up" /\ udpAt = "wait" =>
       /\ udpInterest = IF answers = <<>> THEN "in" ELSE "inout"
       /\ current_client_addr = NoClient
=============================================================================
