------------------------ MODULE TcpConnectionProofs ------------------------
(***************************************************************************)
(* Machine-checked proofs about TcpConnection, for every buffer capacity,  *)
(* every set of buffer sizes and every bound on the input and the output.  *)
(***************************************************************************)
EXTENDS TcpConnection, SequenceTheorems, TLAPS

\* Buffers are intervals of the bytes written so far.
BuffersWritten ==
  \A i \in 1..Len(pending_wirte) :
    /\ pending_wirte[i].from <= pending_wirte[i].to + 1
    /\ pending_wirte[i].to <= written

\* The handler has given its input to the protocol before it goes on.
InputHandedOver ==
  live /\ (pc \in {"wait", "write"} \/ (pc = "ran" /\ ret \in {"SUCCESS", "SOCKET_RETRY"}))
    => index = 0

\* The result tells whether output is left.
ResultTellsOutput ==
  /\ pc = "ran" /\ ret = "SUCCESS" => pending_wirte = <<>>
  /\ pc = "ran" /\ ret = "SOCKET_RETRY" => pending_wirte # <<>>

Inv ==
  /\ TypeOK
  /\ BuffersWritten
  /\ QueueContiguous
  /\ InputHandedOver
  /\ InputAccounted
  /\ ResultTellsOutput
  /\ OutputWakesUp

-----------------------------------------------------------------------------
\* A connection just added satisfies the invariant.
LEMMA InitInv == ASSUME Init PROVE Inv
<1>1. TypeOK
  <2>1. <<>> \in Seq(Buffer) /\ <<>> \in Seq(Nat)
    OBVIOUS
  <2>2. /\ rcv \in Nat /\ peerSent \in Nat /\ consumed \in Nat
        /\ index \in 0..ReadCap /\ snd \in 0..SndCap
        /\ writeoffset \in Nat /\ written \in Nat
    BY TcpAssumption DEF Init
  <2> QED
    BY <2>1, <2>2 DEF Init, TypeOK, Results
<1>2. BuffersWritten /\ QueueContiguous /\ InputHandedOver /\ InputAccounted
  BY DEF Init, BuffersWritten, QueueContiguous, InputHandedOver, InputAccounted
<1>3. ResultTellsOutput /\ OutputWakesUp
  BY DEF Init, ResultTellsOutput, OutputWakesUp
<1> QED
  BY <1>1, <1>2, <1>3 DEF Inv

\* The queue holds intervals of natural numbers.
LEMMA QueueFacts ==
  ASSUME Inv
  PROVE  /\ pending_wirte \in Seq(Buffer) /\ Len(pending_wirte) \in Nat
         /\ \A i \in 1..Len(pending_wirte) :
              pending_wirte[i].from \in Nat /\ pending_wirte[i].to \in Nat
         /\ pending_wirte # <<>> => /\ Len(pending_wirte) \in Nat \ {0}
                                    /\ front.from \in Nat /\ front.to \in Nat
                                    /\ front.from <= front.to + 1 /\ front.to <= written
<1>1. pending_wirte \in Seq(Buffer)
  BY DEF Inv, TypeOK
<1>2. /\ Len(pending_wirte) \in Nat
      /\ \A i \in 1..Len(pending_wirte) : pending_wirte[i] \in Buffer
  BY <1>1, LenProperties
<1>3. \A i \in 1..Len(pending_wirte) :
        pending_wirte[i].from \in Nat /\ pending_wirte[i].to \in Nat
  BY <1>2 DEF Buffer
<1>4. pending_wirte # <<>> => Len(pending_wirte) \in Nat \ {0}
  BY <1>1, EmptySeq
<1>5. ASSUME pending_wirte # <<>>
      PROVE  /\ front.from \in Nat /\ front.to \in Nat
             /\ front.from <= front.to + 1 /\ front.to <= written
  <2>1. 1 \in 1..Len(pending_wirte)
    BY <1>4, <1>5
  <2> QED
    BY <1>3, <2>1 DEF front, Inv, BuffersWritten
<1> QED
  BY <1>1, <1>2, <1>3, <1>4, <1>5

\* Arithmetic of an interval [f, t] of which w bytes are sent, l being the
\* last of them.
LEMMA IntervalRest ==
  ASSUME NEW f \in Nat, NEW t \in Nat, NEW w \in Nat, NEW l \in Nat,
         f + w = l + 1, w <= (t + 1) - f
  PROVE  /\ ((t + 1) - f) - w \in Nat
         /\ l + (((t + 1) - f) - w) = t
OBVIOUS

\* Sending n more of the bytes left stays inside the interval.
LEMMA IntervalAdvance ==
  ASSUME NEW f \in Nat, NEW t \in Nat, NEW w \in Nat, NEW l \in Nat, NEW n \in Nat,
         f + w = l + 1, n <= ((t + 1) - f) - w
  PROVE  /\ f + (w + n) = (l + n) + 1
         /\ w + n <= (t + 1) - f
OBVIOUS

\* What is left of the front buffer ends where the socket's bytes would.
LEMMA Unsent ==
  ASSUME Inv, pending_wirte # <<>>
  PROVE  unsent \in Nat /\ Len(wire) + unsent = front.to
<1>1. PICK f \in Nat, t \in Nat : front.from = f /\ front.to = t
  BY QueueFacts
<1>2. PICK w \in Nat, l \in Nat : writeoffset = w /\ Len(wire) = l
  BY DEF Inv, TypeOK
<1>3. f + w = l + 1 /\ w <= (t + 1) - f
  BY <1>1, <1>2 DEF Inv, QueueContiguous, size
<1>4. unsent = ((t + 1) - f) - w
  BY <1>1, <1>2 DEF unsent, size
<1>5. ((t + 1) - f) - w \in Nat /\ l + (((t + 1) - f) - w) = t
  BY <1>3, IntervalRest
<1> QED
  BY <1>1, <1>2, <1>4, <1>5

\* What popping the front buffer leaves.
LEMMA PopQueue ==
  ASSUME Inv, pending_wirte # <<>>, PopFront
  PROVE  /\ pending_wirte' \in Seq(Buffer)
         /\ Len(pending_wirte') = Len(pending_wirte) - 1
         /\ \A i \in 1..Len(pending_wirte') : pending_wirte'[i] = pending_wirte[i + 1]
         /\ pending_wirte' = <<>> <=> Len(pending_wirte) = 1
         /\ Len(pending_wirte) \in Nat \ {0}
<1>1. pending_wirte \in Seq(Buffer) /\ pending_wirte' = Tail(pending_wirte)
  BY DEF Inv, TypeOK, PopFront
<1>2. /\ Tail(pending_wirte) \in Seq(Buffer)
      /\ Len(Tail(pending_wirte)) = Len(pending_wirte) - 1
      /\ \A i \in 1..Len(Tail(pending_wirte)) : Tail(pending_wirte)[i] = pending_wirte[i + 1]
  BY <1>1, HeadTailProperties
<1>3. Len(pending_wirte) \in Nat \ {0}
  BY <1>1, EmptySeq
<1>4. Tail(pending_wirte) = <<>> <=> Len(pending_wirte) = 1
  <2>1. ASSUME Tail(pending_wirte) = <<>> PROVE Len(pending_wirte) = 1
    BY <1>2, <1>3, <2>1
  <2>2. ASSUME Len(pending_wirte) = 1 PROVE Tail(pending_wirte) = <<>>
    <3>1. Len(Tail(pending_wirte)) = 0
      BY <1>2, <2>2
    <3> QED
      BY <1>2, <3>1, EmptySeq
  <2> QED
    BY <2>1, <2>2
<1> QED
  BY <1>1, <1>2, <1>3, <1>4

\* What the socket holds after it took n bytes of the front buffer.
LEMMA TransmitWire ==
  ASSUME Inv, pending_wirte # <<>>, NEW n \in Nat, Transmit(n)
  PROVE  /\ wire' \in Seq(Nat)
         /\ Len(wire') = Len(wire) + n
         /\ wire' = [i \in 1..(Len(wire) + n) |-> IF i <= Len(wire) THEN wire[i] ELSE i]
<1>1. wire \in Seq(Nat) /\ Len(wire) \in Nat
  BY DEF Inv, TypeOK
<1>2. front.from \in Nat /\ writeoffset \in Nat
  BY QueueFacts DEF Inv, TypeOK
<1>3. front.from + writeoffset = Len(wire) + 1
  BY DEF Inv, QueueContiguous
<1>4. ASSUME NEW i \in 1..(Len(wire) + n), ~(i <= Len(wire))
      PROVE  front.from + writeoffset + ((i - Len(wire)) - 1) = i
  BY <1>1, <1>2, <1>3, <1>4
<1>5. wire' = [i \in 1..(Len(wire) + n) |-> IF i <= Len(wire) THEN wire[i] ELSE i]
  BY <1>4 DEF Transmit
<1>6. wire' \in Seq(Nat) /\ Len(wire') = Len(wire) + n
  BY <1>1, <1>5
<1> QED
  BY <1>5, <1>6

\* WriteNoCopy appends the next interval: the queue stays contiguous.
LEMMA AppendQueue ==
  ASSUME Inv, NEW n \in BufSizes, WriteNoCopy(n)
  PROVE  /\ pending_wirte' \in Seq(Buffer) /\ pending_wirte' # <<>>
         /\ written' \in Nat /\ BuffersWritten'
         /\ writeoffset' = writeoffset /\ wire' = wire => QueueContiguous'
<1>1. /\ pending_wirte \in Seq(Buffer) /\ written \in Nat /\ n \in Nat
      /\ writeoffset \in Nat /\ Len(wire) \in Nat
  BY TcpAssumption DEF Inv, TypeOK
<1>a. [from |-> written + 1, to |-> written + n] \in Buffer
  BY <1>1 DEF Buffer
<1>2. /\ pending_wirte' \in Seq(Buffer)
      /\ Len(pending_wirte') = Len(pending_wirte) + 1
      /\ \A i \in 1..Len(pending_wirte) : pending_wirte'[i] = pending_wirte[i]
      /\ pending_wirte'[Len(pending_wirte) + 1] = [from |-> written + 1, to |-> written + n]
      /\ pending_wirte' # <<>>
  BY <1>1, <1>a, AppendProperties DEF WriteNoCopy
<1>3. written' = written + n
  BY DEF WriteNoCopy
<1>4. BuffersWritten'
  <2>1. ASSUME NEW i \in 1..Len(pending_wirte')
        PROVE  /\ pending_wirte'[i].from <= pending_wirte'[i].to + 1
               /\ pending_wirte'[i].to <= written'
    <3>1. CASE i \in 1..Len(pending_wirte)
      BY <1>1, <1>2, <1>3, <3>1, QueueFacts DEF Inv, BuffersWritten
    <3>2. CASE i = Len(pending_wirte) + 1
      BY <1>1, <1>2, <1>3, <3>2
    <3> QED
      BY <1>2, <3>1, <3>2, QueueFacts
  <2> QED
    BY <2>1 DEF BuffersWritten
<1>5. ASSUME writeoffset' = writeoffset, wire' = wire PROVE QueueContiguous'
  <2>1. CASE pending_wirte = <<>>
    BY <1>1, <1>2, <1>3, <1>5, <2>1 DEF Inv, QueueContiguous, front, size
  <2>2. CASE pending_wirte # <<>>
    <3>1. front' = front /\ Len(pending_wirte) \in Nat \ {0}
      BY <1>1, <1>2, <2>2 DEF front
    <3>2. ASSUME NEW i \in 1..(Len(pending_wirte') - 1)
          PROVE  pending_wirte'[i + 1].from = pending_wirte'[i].to + 1
      <4>1. CASE i \in 1..(Len(pending_wirte) - 1)
        BY <1>2, <2>2, <3>1, <4>1 DEF Inv, QueueContiguous
      <4>2. CASE i = Len(pending_wirte)
        BY <1>1, <1>2, <2>2, <3>1, <4>2 DEF Inv, QueueContiguous
      <4> QED
        BY <1>2, <3>1, <4>1, <4>2
    <3> QED
      BY <1>1, <1>2, <1>3, <1>5, <2>2, <3>1, <3>2 DEF Inv, QueueContiguous, size
  <2> QED
    BY <2>1, <2>2
<1> QED
  BY <1>1, <1>2, <1>3, <1>4, <1>5

\* Popping a front buffer whose last byte the socket has taken keeps the
\* queue contiguous with the socket.
LEMMA PopContiguous ==
  ASSUME Inv, pending_wirte # <<>>, PopFront,
         written' = written, Len(wire') = front.to
  PROVE  BuffersWritten' /\ QueueContiguous'
<1>1. /\ pending_wirte \in Seq(Buffer) /\ written \in Nat
      /\ \A i \in 1..Len(pending_wirte) : pending_wirte[i] \in Buffer
  BY DEF Inv, TypeOK
<1>2. BuffersWritten'
  <2>1. ASSUME NEW i \in 1..Len(pending_wirte') PROVE i + 1 \in 1..Len(pending_wirte)
    BY <2>1, PopQueue
  <2> QED
    BY <2>1, PopQueue DEF Inv, BuffersWritten
<1>3. QueueContiguous'
  <2>1. CASE pending_wirte' = <<>>
    BY <1>1, <2>1, PopQueue DEF Inv, QueueContiguous, PopFront, front
  <2>2. CASE pending_wirte' # <<>>
    <3>1. /\ front' = pending_wirte[2] /\ Len(pending_wirte) > 1
          /\ front'.from = front.to + 1
          /\ front'.from <= front'.to + 1
          /\ front'.from \in Nat /\ front'.to \in Nat
      BY <1>1, <2>2, PopQueue, QueueFacts DEF Inv, QueueContiguous, BuffersWritten, front
    <3>2. pending_wirte'[Len(pending_wirte')].to = written
      BY <1>1, <2>2, <3>1, PopQueue DEF Inv, QueueContiguous
    <3>3. ASSUME NEW i \in 1..(Len(pending_wirte') - 1)
          PROVE  pending_wirte'[i + 1].from = pending_wirte'[i].to + 1
      <4>1. i + 1 \in 1..(Len(pending_wirte) - 1) /\ i + 1 \in 1..Len(pending_wirte')
        BY <3>3, PopQueue
      <4>2. /\ pending_wirte'[i] = pending_wirte[i + 1]
            /\ pending_wirte'[i + 1] = pending_wirte[(i + 1) + 1]
        BY <4>1, PopQueue
      <4> QED
        BY <4>1, <4>2 DEF Inv, QueueContiguous
    <3>4. front'.from + writeoffset' = Len(wire') + 1 /\ writeoffset' <= size(front')
      BY <3>1 DEF PopFront, size
    <3> QED
      BY <2>2, <3>2, <3>3, <3>4 DEF QueueContiguous
  <2> QED
    BY <2>1, <2>2
<1> QED
  BY <1>2, <1>3

\* Every step of the connection, the peer and the kernel preserves the
\* invariant.
LEMMA NextInv == ASSUME Inv, [Next]_vars PROVE Inv'
<1> USE TcpAssumption DEF Inv, TypeOK, Results, BuffersWritten, QueueContiguous,
      InputHandedOver, InputAccounted, ResultTellsOutput, OutputWakesUp, Up, input, output, peer
<1>a. CASE UNCHANGED vars
  BY <1>a DEF vars, front, size
<1>0. SUFFICES ASSUME live, Up, Next PROVE Inv'
  BY <1>a DEF Next
<1>1. CASE PeerSend
  BY <1>0, <1>1 DEF PeerSend, front, size, unsent
<1>2. CASE PeerRead
  BY <1>0, <1>2 DEF PeerRead, front, size, unsent
<1>3. CASE PeerShutdown
  BY <1>0, <1>3 DEF PeerShutdown, front, size, unsent
<1>4. CASE PeerReset
  BY <1>0, <1>4 DEF PeerReset, front, size, unsent
<1>5. CASE DispatchHangUp
  BY <1>0, <1>5 DEF DispatchHangUp, front, size, unsent
<1>6. CASE DispatchRead
  BY <1>0, <1>6 DEF DispatchRead, front, size, unsent
<1>7. CASE DispatchWrite
  BY <1>0, <1>7 DEF DispatchWrite, front, size, unsent
<1>8. CASE RecvZero
  BY <1>0, <1>8 DEF RecvZero, front, size, unsent
<1>9. CASE RecvAgain
  BY <1>0, <1>9 DEF RecvAgain, front, size, unsent
<1>10. CASE RecvError
  BY <1>0, <1>10 DEF RecvError, front, size, unsent
<1>11. CASE RecvCritical
  BY <1>0, <1>11 DEF RecvCritical, front, size, unsent
<1>12. CASE ProtocolDone
  BY <1>0, <1>12 DEF ProtocolDone, front, size, unsent
<1>13. CASE SendFails
  BY <1>0, <1>13 DEF SendFails, front, size, unsent
<1>14. CASE SendPipe
  BY <1>0, <1>14 DEF SendPipe, front, size, unsent
<1>15. CASE WriteDone
  BY <1>0, <1>15 DEF WriteDone, front, size, unsent
<1>16. CASE RecvData
  BY <1>0, <1>16 DEF RecvData, room, front, size, unsent
<1>17. CASE Finish
  BY <1>0, <1>17 DEF Finish, Rearm, front, size, unsent
<1>18. ASSUME NEW n \in BufSizes, ProtocolWrite(n) PROVE Inv'
  BY <1>0, <1>18, AppendQueue DEF ProtocolWrite
<1>19. CASE WriteEmptyBuffer
  <2>1. Len(wire) = front.to
    BY <1>19, Unsent DEF WriteEmptyBuffer
  <2> QED
    BY <1>0, <1>19, <2>1, PopQueue, PopContiguous DEF WriteEmptyBuffer, PopFront
<1>20. CASE SendAll
  <2>1. unsent \in Nat /\ Len(wire) + unsent = front.to
    BY <1>20, Unsent DEF SendAll
  <2>2. wire' \in Seq(Nat) /\ Len(wire') = front.to
    BY <1>20, <2>1, TransmitWire DEF SendAll
  <2>3. snd' \in 0..SndCap
    BY <1>20, <2>1 DEF SendAll, Transmit
  <2> QED
    BY <1>0, <1>20, <2>2, <2>3, PopQueue, PopContiguous DEF SendAll, PopFront
<1>21. CASE SendPart
  <2>1. SndCap - snd \in Nat /\ SndCap - snd <= unsent /\ unsent \in Nat
    BY <1>21, Unsent DEF SendPart
  <2>2. wire' \in Seq(Nat) /\ Len(wire') = Len(wire) + (SndCap - snd)
    BY <1>21, <2>1, TransmitWire DEF SendPart
  <2>3. QueueContiguous'
    <3>1. /\ pending_wirte # <<>> /\ UNCHANGED <<pending_wirte, written>>
          /\ writeoffset' = writeoffset + (SndCap - snd)
      BY <1>21 DEF SendPart, AdvanceOffset
    <3>2. front' = front
      BY <3>1 DEF front
    <3>3. /\ front'.from + writeoffset' = Len(wire') + 1
          /\ writeoffset' <= size(front')
      <4>1. front.from \in Nat /\ front.to \in Nat
        BY <3>1, QueueFacts
      <4>2. writeoffset \in Nat /\ Len(wire) \in Nat
        OBVIOUS
      <4>3. front.from + writeoffset = Len(wire) + 1
        BY <3>1
      <4>4. SndCap - snd <= ((front.to + 1) - front.from) - writeoffset
        BY <2>1 DEF unsent, size
      <4>5. /\ front.from + (writeoffset + (SndCap - snd)) = (Len(wire) + (SndCap - snd)) + 1
            /\ writeoffset + (SndCap - snd) <= (front.to + 1) - front.from
        BY <2>1, <4>1, <4>2, <4>3, <4>4, IntervalAdvance
      <4> QED
        BY <2>2, <3>1, <3>2, <4>5 DEF size
    <3> QED
      BY <3>1, <3>3
  <2>4. snd' \in 0..SndCap /\ writeoffset' \in Nat
    BY <1>21, <2>1 DEF SendPart, Transmit, AdvanceOffset
  <2> QED
    BY <1>0, <1>21, <2>2, <2>3, <2>4 DEF SendPart
<1> QED
  BY <1>0, <1>1, <1>2, <1>3, <1>4, <1>5, <1>6, <1>7, <1>8, <1>9, <1>10, <1>11,
     <1>12, <1>13, <1>14, <1>15, <1>16, <1>17, <1>18, <1>19, <1>20, <1>21
     DEF Next, Dispatch, Handler

\* The inductive invariant holds in every reachable state.
THEOREM Invariance == Spec => []Inv
<1>1. Init => Inv
  BY InitInv
<1>2. Inv /\ [Next]_vars => Inv'
  BY NextInv
<1> QED
  BY <1>1, <1>2, PTL DEF Spec

\* Type correctness: in particular readbuffer's index and the bytes given to
\* the socket never exceed the capacities.
THEOREM TypeCorrect == Spec => []TypeOK
<1>1. Inv => TypeOK
  BY DEF Inv
<1> QED
  BY <1>1, Invariance, PTL

\* The queue and writeoffset always continue exactly where the socket's bytes
\* end, through partial sends and retries.
THEOREM QueueIsContiguous == Spec => []QueueContiguous
<1>1. Inv => QueueContiguous
  BY DEF Inv
<1> QED
  BY <1>1, Invariance, PTL

\* A connection waits for EPOLLOUT exactly when it has output queued.
THEOREM PendingOutputIsArmed == Spec => []OutputWakesUp
<1>1. Inv => OutputWakesUp
  BY DEF Inv
<1> QED
  BY <1>1, Invariance, PTL

\* Resetting the read buffer per event loses no input byte.
THEOREM NoInputDropped == Spec => []InputAccounted
<1>1. Inv => InputAccounted
  BY DEF Inv
<1> QED
  BY <1>1, Invariance, PTL

\* Every step is a step of the byte stream, or leaves it unchanged.
LEMMA StepRefines ==
  ASSUME Inv, [Next]_vars
  PROVE  [Stream!Next]_<<written, wire, live /\ Up>>
<1> USE DEF Up, input, output, peer, vars
<1>0. SUFFICES ASSUME live, Up, Next
               PROVE  Stream!Next \/ UNCHANGED <<written, wire, live, proc>>
  BY DEF Next
<1>1. CASE UNCHANGED <<written, wire, live, proc>>
  BY <1>1
<1>2. ASSUME NEW n \in BufSizes, ProtocolWrite(n) PROVE Stream!Next
  BY <1>0, <1>2, TcpAssumption DEF ProtocolWrite, WriteNoCopy, Stream!Next, Stream!Produce,
     Inv, TypeOK
<1>3. ASSUME NEW n \in Nat, n > 0, n <= unsent, pending_wirte # <<>>, Transmit(n),
             UNCHANGED <<written, live, proc>>
      PROVE  Stream!Next
  <2>1. Len(wire) + n <= written /\ Len(wire) \in Nat /\ written \in Nat
    BY <1>3, QueueFacts, Unsent DEF Inv, TypeOK
  <2>2. wire' = [i \in 1..(Len(wire) + n) |-> IF i <= Len(wire) THEN wire[i] ELSE i]
    BY <1>3, TransmitWire
  <2> QED
    BY <1>0, <1>3, <2>1, <2>2 DEF Stream!Next, Stream!Deliver
<1>4. ASSUME UNCHANGED <<written, wire>>, ~(live /\ Up)' PROVE Stream!Next
  BY <1>0, <1>4, Zenon DEF Stream!Next, Stream!Abort
<1>5. CASE PeerSend \/ PeerRead \/ PeerShutdown \/ PeerReset \/ DispatchRead \/ DispatchWrite
  BY <1>5 DEF PeerSend, PeerRead, PeerShutdown, PeerReset, DispatchRead, DispatchWrite
<1>6. CASE \/ RecvData \/ RecvZero \/ RecvAgain \/ RecvError \/ ProtocolDone
           \/ WriteEmptyBuffer \/ SendFails \/ WriteDone
  BY <1>6 DEF RecvData, RecvZero, RecvAgain, RecvError, ProtocolDone, WriteEmptyBuffer,
     SendFails, WriteDone
<1>7. CASE SendAll
  BY <1>3, <1>7, Unsent DEF SendAll
<1>8. CASE SendPart
  <2>1. SndCap - snd \in Nat /\ SndCap - snd > 0 /\ SndCap - snd <= unsent
    BY <1>8, TcpAssumption, Unsent DEF SendPart, Inv, TypeOK
  <2> QED
    BY <1>3, <1>8, <2>1 DEF SendPart
<1>9. CASE DispatchHangUp \/ RecvCritical \/ SendPipe
  BY <1>4, <1>9 DEF DispatchHangUp, RecvCritical, SendPipe
<1>10. CASE Finish
  BY <1>0, <1>4, <1>10 DEF Finish
<1> QED
  BY <1>0, <1>2, <1>5, <1>6, <1>7, <1>8, <1>9, <1>10 DEF Next, Dispatch, Handler

\* The connection implements ByteStream: what the socket is given is a prefix
\* of what the protocol wrote, growing until the connection ends.
THEOREM ImplementsByteStream == Spec => StreamSpec
<1>1. Init => Stream!Init
  BY DEF Init, Stream!Init, Up
<1>2. Inv /\ [Next]_vars => [Stream!Next]_<<written, wire, live /\ Up>>
  BY StepRefines
<1> QED
  BY <1>1, <1>2, Invariance, PTL DEF Spec, StreamSpec, Stream!Spec
=============================================================================
