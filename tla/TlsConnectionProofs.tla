------------------------ MODULE TlsConnectionProofs ------------------------
(***************************************************************************)
(* Machine-checked proofs about TlsConnection, for every capacity of the   *)
(* read buffer, every set of record sizes and every bound on the records   *)
(* and the output.                                                         *)
(***************************************************************************)
EXTENDS TlsConnection, SequenceTheorems, TLAPS

\* Types of the variables the invariant is about.
TlsTypes ==
  /\ conn \in {"none", "added", "deleted"} /\ fd \in {"none", "open", "closed"}
  /\ session \in Flights \cup {"handshake", "ready", "failed"}
  /\ interest \in {"in", "inout", "off"} /\ at \in {"wait", "read", "protocol", "write"}

\* A descriptor, its SSL object and its connection live and end together, and
\* only a live connection is registered or handled.
Together ==
  /\ (fd = "open") = (conn = "added") /\ (ssl = "open") = (conn = "added")
  /\ fd = "none" => conn = "none" /\ output = <<>> /\ ~(inside > 0)
  /\ conn # "added" => interest = "off" /\ at = "wait"
  /\ at # "wait" => interest = "off"
  /\ conn = "added" /\ at = "wait" => interest # "off"

\* A session leaves "ready" only with nothing decrypted left, so that a read that
\* ends early leaves nothing inside.
NothingInside ==
  /\ session # "ready" => ~(inside > 0)
  /\ at # "read" => (inside > 0 => filled)

\* The interest tells why output waits.
WaitingOutput ==
  conn = "added" /\ at = "wait" /\ output # <<>> => interest = "inout" \/ session = "handshake"

\* The buffers SSL has taken and the queue are the buffers written, in order.
InOrder ==
  /\ sent \in Seq(Nat) /\ output \in Seq(Nat) /\ queued \in Nat
  /\ Len(sent) + Len(output) = queued
  /\ \A i \in 1..Len(sent) : sent[i] = i
  /\ \A i \in 1..Len(output) : output[i] = Len(sent) + i

\* The buffer that could not be written is still the first.
RetriedFirst == retried # 0 => output # <<>> /\ output[1] = retried

TlsInv ==
  TlsTypes /\ Together /\ NothingInside /\ WaitingOutput /\ InOrder /\ RetriedFirst

-----------------------------------------------------------------------------
\* Before the first peer there is nothing.
LEMMA TlsInitInv == ASSUME TlsInit PROVE TlsInv
<1>1. InOrder
  BY EmptySeq DEF TlsInit, InOrder
<1>2. TlsTypes /\ Together /\ NothingInside /\ WaitingOutput /\ RetriedFirst
  BY DEF TlsInit, TlsTypes, Together, NothingInside, WaitingOutput, RetriedFirst
<1> QED
  BY <1>1, <1>2 DEF TlsInv

\* Buffers of the protocol go to the end of the queue.
LEMMA ProtocolKeepsOrder ==
  ASSUME InOrder, RetriedFirst, TlsProtocol
  PROVE  InOrder' /\ RetriedFirst'
<1>1. PICK n \in 0..(IF readIndex = 0 THEN 0 ELSE MaxOutput - queued) :
        output' = output \o [i \in 1..n |-> queued + i] /\ queued' = queued + n
  BY DEF TlsProtocol
<1>2. n \in Nat /\ queued \in Nat
  BY TlsAssumption DEF InOrder
<1> DEFINE new == [i \in 1..n |-> queued + i]
<1>3. new \in Seq(Nat) /\ Len(new) = n /\ \A i \in 1..n : new[i] = queued + i
  BY <1>2
<1> HIDE DEF new
<1>4. /\ output' = output \o new /\ sent' = sent /\ retried' = retried
      /\ sent \in Seq(Nat) /\ output \in Seq(Nat)
  BY <1>1 DEF TlsProtocol, new, InOrder
<1>5. /\ output' \in Seq(Nat) /\ Len(output') = Len(output) + n
      /\ \A i \in 1..(Len(output) + n) :
           output'[i] = IF i <= Len(output) THEN output[i] ELSE new[i - Len(output)]
  BY <1>3, <1>4, ConcatProperties
<1>6. Len(output) \in Nat /\ Len(sent) \in Nat
  BY <1>4, LenProperties
<1>7. Len(sent) + Len(output) = queued
  BY DEF InOrder
<1>8. ASSUME NEW i \in 1..Len(output') PROVE output'[i] = Len(sent) + i
  <2>1. CASE i <= Len(output)
    <3>1. i \in 1..Len(output) /\ i \in 1..(Len(output) + n)
      BY <1>2, <1>5, <1>6, <2>1
    <3>2. output'[i] = output[i] /\ output[i] = Len(sent) + i
      BY <1>5, <2>1, <3>1 DEF InOrder
    <3> QED
      BY <3>2
  <2>2. CASE ~(i <= Len(output))
    <3>1. i - Len(output) \in 1..n /\ i \in 1..(Len(output) + n)
      BY <1>2, <1>5, <1>6, <2>2
    <3>2. output'[i] = queued + (i - Len(output))
      BY <1>3, <1>5, <2>2, <3>1
    <3> QED
      BY <1>2, <1>5, <1>6, <1>7, <3>2
  <2> QED
    BY <2>1, <2>2
<1>9. InOrder'
  <2>1. Len(sent') + Len(output') = queued' /\ queued' \in Nat
    <3>1. /\ Len(sent') = Len(sent) /\ Len(output') = Len(output) + n /\ queued' = queued + n
          /\ n \in Nat /\ queued \in Nat /\ Len(output) \in Nat /\ Len(sent) \in Nat
      BY <1>1, <1>2, <1>4, <1>5, <1>6
    <3> QED
      BY <1>7, <3>1
  <2>2. \A i \in 1..Len(sent') : sent'[i] = i
    BY <1>4 DEF InOrder
  <2>3. \A i \in 1..Len(output') : output'[i] = Len(sent') + i
    BY <1>4, <1>8
  <2>4. sent' \in Seq(Nat)
    BY <1>4
  <2> QED
    BY <1>5, <2>1, <2>2, <2>3, <2>4 DEF InOrder
<1>10. RetriedFirst'
  <2>1. ASSUME retried # 0 PROVE output' # <<>> /\ output'[1] = retried
    <3>1. output # <<>> /\ output[1] = retried
      BY <2>1 DEF RetriedFirst
    <3>2. Len(output) \in Nat \ {0}
      BY <1>4, <3>1, EmptySeq
    <3>3. output'[1] = output[1] /\ Len(output') # 0
      BY <1>2, <1>5, <3>2
    <3> QED
      BY <3>1, <3>3, EmptySeq
  <2> QED
    BY <1>4, <2>1 DEF RetriedFirst
<1> QED
  BY <1>9, <1>10

\* SSL takes the first buffer of the queue.
LEMMA WriteKeepsOrder ==
  ASSUME InOrder, TlsWrites
  PROVE  InOrder' /\ RetriedFirst'
<1>1. /\ sent' = Append(sent, output[1]) /\ output' = Tail(output)
      /\ queued' = queued /\ retried' = 0 /\ output # <<>>
  BY DEF TlsWrites
<1>2. /\ sent \in Seq(Nat) /\ output \in Seq(Nat) /\ queued \in Nat
      /\ Len(sent) \in Nat /\ Len(sent) + Len(output) = queued
  BY LenProperties DEF InOrder
<1>3. Len(output) \in Nat \ {0}
  BY <1>1, <1>2, EmptySeq
<1>4. output[1] = Len(sent) + 1
  BY <1>3 DEF InOrder
<1>5. /\ sent' \in Seq(Nat) /\ Len(sent') = Len(sent) + 1
      /\ \A i \in 1..Len(sent) : sent'[i] = sent[i]
      /\ sent'[Len(sent) + 1] = Len(sent) + 1
  BY <1>1, <1>2, <1>4, AppendProperties
<1>6. /\ output' \in Seq(Nat) /\ Len(output') = Len(output) - 1
      /\ \A i \in 1..Len(output') : output'[i] = output[i + 1]
  BY <1>1, <1>2, HeadTailProperties
<1>7. ASSUME NEW i \in 1..Len(sent') PROVE sent'[i] = i
  <2>1. CASE i = Len(sent) + 1
    BY <1>5, <2>1
  <2>2. CASE i # Len(sent) + 1
    <3>1. i \in 1..Len(sent)
      BY <1>2, <1>5, <2>2
    <3>2. sent'[i] = sent[i] /\ sent[i] = i
      BY <1>5, <3>1 DEF InOrder
    <3> QED
      BY <3>2
  <2> QED
    BY <2>1, <2>2
<1>8. ASSUME NEW i \in 1..Len(output') PROVE output'[i] = Len(sent') + i
  <2>1. i + 1 \in 1..Len(output)
    BY <1>3, <1>6
  <2>2. output[i + 1] = Len(sent) + (i + 1)
    BY <2>1 DEF InOrder
  <2> QED
    BY <1>2, <1>5, <1>6, <2>2
<1>9. Len(sent') + Len(output') = queued'
  <2>1. /\ Len(sent') = Len(sent) + 1 /\ Len(output') = Len(output) - 1 /\ queued' = queued
        /\ Len(sent) \in Nat /\ Len(output) \in Nat /\ Len(sent) + Len(output) = queued
    BY <1>1, <1>2, <1>3, <1>5, <1>6
  <2> QED
    BY <2>1
<1> QED
  BY <1>1, <1>2, <1>5, <1>6, <1>7, <1>8, <1>9 DEF InOrder, RetriedFirst

\* Every other step leaves the queue alone, or remembers its first buffer.
LEMMA OthersKeepOrder ==
  ASSUME InOrder, RetriedFirst, [TlsNext]_tlsVars, ~TlsProtocol, ~TlsWrites
  PROVE  InOrder' /\ RetriedFirst'
<1>1. UNCHANGED <<sent, output, queued>>
  BY DEF TlsNext, tlsVars, session_, output_, Release, Rearm, Deliver,
         TlsNoSsl, TlsRefuse, TlsAddFails, TlsAccept, PeerRecord, PeerDrains,
         TlsHangUp, TlsReadable, TlsWritable, TlsReadBytes, TlsReadControl, TlsFlight, TlsReadEnds,
         TlsWantWrite, TlsWantRead, TlsWriteFails, TlsWriteDone
<1>2. \/ UNCHANGED retried
      \/ output # <<>> /\ retried' = output[1]
  BY DEF TlsNext, tlsVars, session_, output_, Release, Rearm, Deliver,
         TlsNoSsl, TlsRefuse, TlsAddFails, TlsAccept, PeerRecord, PeerDrains,
         TlsHangUp, TlsReadable, TlsWritable, TlsReadBytes, TlsReadControl, TlsFlight, TlsReadEnds,
         TlsWantWrite, TlsWantRead, TlsWriteFails, TlsWriteDone
<1> QED
  BY <1>1, <1>2 DEF InOrder, RetriedFirst

-----------------------------------------------------------------------------
\* The control part of the invariant, action by action.
Control == TlsTypes /\ Together /\ NothingInside /\ WaitingOutput

\* The accept: what is released, and a connection that starts with nothing.
LEMMA AcceptKeepsControl ==
  ASSUME Control, TlsNoSsl \/ TlsRefuse \/ TlsAddFails \/ TlsAccept
  PROVE  Control'
<1>1. CASE TlsNoSsl
  BY <1>1 DEF Control, TlsTypes, Together, NothingInside, WaitingOutput, TlsNoSsl,
              session_, output_
<1>2. CASE TlsRefuse
  BY <1>2 DEF Control, TlsTypes, Together, NothingInside, WaitingOutput, TlsRefuse,
              session_, output_
<1>3. CASE TlsAddFails
  BY <1>3 DEF Control, TlsTypes, Together, NothingInside, WaitingOutput, TlsAddFails,
              session_, output_
<1>4. CASE TlsAccept
  <2>1. /\ session' \in Flights \cup {"handshake", "ready", "failed"} /\ fd = "none"
        /\ fd' = "open" /\ ssl' = "open" /\ conn' = "added" /\ interest' = "in"
        /\ UNCHANGED <<inside, filled, at, output>>
    BY <1>4 DEF TlsAccept, Flights
  <2> QED
    BY <2>1 DEF Control, TlsTypes, Together, NothingInside, WaitingOutput
<1> QED
  BY <1>1, <1>2, <1>3, <1>4

\* The peer and the event loop.
LEMMA EventKeepsControl ==
  ASSUME Control, PeerRecord \/ PeerDrains \/ TlsHangUp \/ TlsReadable \/ TlsWritable
  PROVE  Control'
<1>1. CASE PeerRecord
  BY <1>1 DEF Control, TlsTypes, Together, NothingInside, WaitingOutput, PeerRecord,
              session_, output_
<1>2. CASE PeerDrains
  BY <1>2 DEF Control, TlsTypes, Together, NothingInside, WaitingOutput, PeerDrains,
              session_, output_
<1>3. CASE TlsHangUp
  BY <1>3 DEF Control, TlsTypes, Together, NothingInside, WaitingOutput, TlsHangUp, Release,
              session_, output_
<1>4. CASE TlsReadable
  BY <1>4 DEF Control, TlsTypes, Together, NothingInside, WaitingOutput, TlsReadable,
              session_, output_
<1>5. CASE TlsWritable
  BY <1>5 DEF Control, TlsTypes, Together, NothingInside, WaitingOutput, TlsWritable,
              session_, output_
<1> QED
  BY <1>1, <1>2, <1>3, <1>4, <1>5

\* ProcessRead.
LEMMA ReadKeepsControl ==
  ASSUME Control,
         TlsReadBytes \/ TlsReadControl \/ TlsFlight \/ TlsReadEnds \/ TlsProtocol
  PROVE  Control'
<1>1. CASE TlsReadBytes
  BY <1>1 DEF Control, TlsTypes, Together, NothingInside, WaitingOutput, TlsReadBytes, Deliver,
              output_
<1>2. CASE TlsReadControl
  <2>1. /\ session' \in {"flight", "last", "failed"} /\ inside' = 0
        /\ UNCHANGED <<conn, fd, ssl, interest, at, filled, output>>
        /\ at = "read" \/ (at = "write" /\ session = "handshake")
    BY <1>2 DEF TlsReadControl, SslRuns, output_
  <2> QED
    BY <2>1 DEF Control, TlsTypes, Together, NothingInside, WaitingOutput, Flights
<1>5. CASE TlsFlight
  <2>1. /\ session \in Flights /\ session' \in {"handshake", "ready"} /\ inside' = inside
        /\ UNCHANGED <<conn, fd, ssl, interest, at, filled, output>> /\ at # "wait"
    BY <1>5 DEF TlsFlight, SslRuns
  <2> QED
    BY <2>1 DEF Control, TlsTypes, Together, NothingInside, WaitingOutput, Flights
<1>3. CASE TlsReadEnds
  <2>1. /\ inside' = inside /\ filled' = (free = 0)
        /\ free = 0 \/ session # "ready" \/ inside = 0
    BY <1>3 DEF TlsReadEnds, session_, Flights
  <2>2. (session # "ready" => ~(inside > 0)) /\ (inside = 0 => ~(inside > 0))
    BY DEF Control, NothingInside
  <2>3. inside' > 0 => filled'
    BY <2>1, <2>2, Zenon
  <2> QED
    BY <1>3, <2>3 DEF Control, TlsTypes, Together, NothingInside, WaitingOutput, TlsReadEnds,
                      session_, output_
<1>4. CASE TlsProtocol
  BY <1>4 DEF Control, TlsTypes, Together, NothingInside, WaitingOutput, TlsProtocol, session_
<1> QED
  BY <1>1, <1>2, <1>3, <1>4, <1>5

\* ProcessWrite and the re-arming.
LEMMA WriteKeepsControl ==
  ASSUME Control,
         TlsWrites \/ TlsWantWrite \/ TlsWantRead \/ TlsWriteFails \/ TlsWriteDone
  PROVE  Control'
<1>1. CASE TlsWrites
  BY <1>1 DEF Control, TlsTypes, Together, NothingInside, WaitingOutput, TlsWrites, session_
<1>2. CASE TlsWantWrite
  BY <1>2 DEF Control, TlsTypes, Together, NothingInside, WaitingOutput, TlsWantWrite, Rearm,
              session_
<1>3. CASE TlsWantRead
  BY <1>3 DEF Control, TlsTypes, Together, NothingInside, WaitingOutput, TlsWantRead, Rearm,
              session_
<1>4. CASE TlsWriteFails
  BY <1>4 DEF Control, TlsTypes, Together, NothingInside, WaitingOutput, TlsWriteFails, Release,
              session_, output_
<1>5. CASE TlsWriteDone
  BY <1>5 DEF Control, TlsTypes, Together, NothingInside, WaitingOutput, TlsWriteDone, Rearm,
              session_, output_
<1> QED
  BY <1>1, <1>2, <1>3, <1>4, <1>5

\* Every step keeps the invariant.
LEMMA TlsNextInv == ASSUME TlsInv, [TlsNext]_tlsVars PROVE TlsInv'
<1>1. Control'
  <2>1. Control
    BY DEF TlsInv, Control
  <2>2. CASE UNCHANGED tlsVars
    BY <2>1, <2>2 DEF tlsVars, session_, output_, Control, TlsTypes, Together, NothingInside,
                      WaitingOutput
  <2>3. CASE TlsNext
    BY <2>1, <2>3, AcceptKeepsControl, EventKeepsControl, ReadKeepsControl, WriteKeepsControl
       DEF TlsNext
  <2> QED
    BY <2>2, <2>3
<1>2. InOrder' /\ RetriedFirst'
  BY ProtocolKeepsOrder, WriteKeepsOrder, OthersKeepOrder DEF TlsInv
<1> QED
  BY <1>1, <1>2 DEF TlsInv, Control

\* Taken and waiting buffers together are all buffers, in order.
LEMMA OrderedOutput ==
  ASSUME InOrder
  PROVE  sent \o output = [i \in 1..queued |-> i]
<1>1. /\ sent \in Seq(Nat) /\ output \in Seq(Nat) /\ queued \in Nat
      /\ Len(sent) \in Nat /\ Len(output) \in Nat /\ Len(sent) + Len(output) = queued
  BY LenProperties DEF InOrder
<1> DEFINE all == [i \in 1..queued |-> i]
<1>2. all \in Seq(Nat) /\ Len(all) = queued /\ \A i \in 1..queued : all[i] = i
  BY <1>1
<1>3. /\ sent \o output \in Seq(Nat) /\ Len(sent \o output) = queued
      /\ \A i \in 1..queued :
           (sent \o output)[i] = IF i <= Len(sent) THEN sent[i] ELSE output[i - Len(sent)]
  BY <1>1, ConcatProperties
<1>4. ASSUME NEW i \in 1..queued PROVE (sent \o output)[i] = i
  <2>1. CASE i <= Len(sent)
    BY <1>1, <1>3, <2>1 DEF InOrder
  <2>2. CASE ~(i <= Len(sent))
    <3>1. i - Len(sent) \in 1..Len(output)
      BY <1>1, <2>2
    <3>2. output[i - Len(sent)] = Len(sent) + (i - Len(sent))
      BY <3>1 DEF InOrder
    <3> QED
      BY <1>1, <1>3, <2>2, <3>2
  <2> QED
    BY <2>1, <2>2
<1> HIDE DEF all
<1>5. sent \o output = all
  BY <1>2, <1>3, <1>4, SeqEqual
<1> QED
  BY <1>5 DEF all

\* Output of the protocol and bytes SSL holds never wait without what will wake the
\* connection up, whether the handshake or the send buffer stops it, and output
\* leaves in order, for every buffer and record size (tcpsslserver.cpp:37-183).
\* A pending flight of the handshake alone has no such wake-up.
THEOREM OutputAndInputWakeUp == TlsSpec => []TlsWakesUp
<1>1. TlsInit => TlsInv
  BY TlsInitInv
<1>2. TlsInv /\ [TlsNext]_tlsVars => TlsInv'
  BY TlsNextInv
<1>3. TlsInv => TlsWakesUp
  BY OrderedOutput DEF TlsInv, TlsTypes, Together, NothingInside, WaitingOutput, RetriedFirst,
                       TlsWakesUp
<1> QED
  BY <1>1, <1>2, <1>3, PTL DEF TlsSpec
=============================================================================
