-------------------------- MODULE EventLoopProofs --------------------------
(***************************************************************************)
(* Machine-checked proofs about EventLoop, for every set of threads,       *)
(* connections and descriptor numbers and every batch size.                *)
(***************************************************************************)
EXTENDS EventLoop, TLAPS

\* Where a thread is in loop() determines what it holds.
ThreadControl ==
  \A t \in Threads :
    /\ pc[t] \in {"wait", "dispatch"} => cur[t] = None
    /\ pc[t] = "wait" => batch[t] = {}
    /\ pc[t] \in {"made", "added"} => cur[t] = Server /\ made[t] \in Conns
    /\ pc[t] = "ran" => cur[t] \in Procs

\* A thread holds a processor in one way only.
OneClaim ==
  \A t \in Threads : \A e \in batch[t] :
    /\ \A d \in batch[t] : d.ptr = e.ptr => d = e
    /\ e.ptr # cur[t]
    /\ pc[t] = "made" => e.ptr # made[t]

\* p's own registration is in place, armed or not.
Registered(p) == fdof[p] # 0 /\ ptr[fdof[p]] = p

\* What is held will be re-armed: its registration is still there, unless
\* the handler asked for the processor to be deleted.
HeldRegistered ==
  /\ \A f \in FDs : ptr[f] = None <=> arm[f] = "none"
  /\ \A t \in Threads :
       /\ \A e \in batch[t] : Registered(e.ptr)
       /\ pc[t] \in {"made", "added"} => Registered(cur[t])
       /\ pc[t] = "ran" /\ ret[t] # "CLOSE" => Registered(cur[t])
       /\ pc[t] = "made" => fdof[made[t]] # 0

\* A connection in the backlog has no object yet.
BacklogUnborn == \A c \in backlog : mem[c] = "unborn"

\* Only connections hang up or fail.
ServerSafe ==
  /\ mem[Server] = "live"
  /\ \A t \in Threads :
       /\ \A e \in batch[t] : e.kind = "hup" => e.ptr \in Conns
       /\ pc[t] = "ran" /\ ret[t] = "CLOSE" => cur[t] \in Conns

\* The inductive invariant.
Inv ==
  /\ TypeOK
  /\ ThreadControl
  /\ OneClaim
  /\ DescriptorOwned
  /\ HeldRegistered
  /\ BacklogUnborn
  /\ ServerSafe
  /\ ExclusiveHandling
  /\ NoDanglingEvent
  /\ NoStrandedProcessor
-----------------------------------------------------------------------------
\* A completed connection joins the backlog.
LEMMA PeerConnectStep ==
  ASSUME Inv, NEW c \in Conns, PeerConnect(c)
  PROVE  Inv'
<1>1. TypeOK'
  BY DEF Inv, TypeOK, PeerConnect, thread
<1>2. ThreadControl'
  BY DEF Inv, ThreadControl, PeerConnect, thread
<1>3. OneClaim'
  BY DEF Inv, OneClaim, PeerConnect, thread
<1>4. DescriptorOwned'
  BY DEF Inv, DescriptorOwned, PeerConnect
<1>5. HeldRegistered'
  BY DEF Inv, HeldRegistered, Registered, PeerConnect, thread
<1>6. BacklogUnborn'
  BY DEF Inv, BacklogUnborn, PeerConnect
<1>7. ServerSafe'
  BY DEF Inv, ServerSafe, PeerConnect, thread
<1>8. ExclusiveHandling'
  BY DEF Inv, ExclusiveHandling, Holds, Armed, PeerConnect, thread
<1>9. NoDanglingEvent'
  BY DEF Inv, Holds, NoDanglingEvent, PeerConnect, thread
<1>10. NoStrandedProcessor'
  BY DEF Inv, Holds, Armed, NoStrandedProcessor, PeerConnect, thread
<1> QED
  BY <1>1, <1>2, <1>3, <1>4, <1>5, <1>6, <1>7, <1>8, <1>9, <1>10 DEF Inv

\* A socket becomes readable, writable or hung up.
LEMMA PeerEventStep ==
  ASSUME Inv, NEW c \in Conns, NEW x \in PeerEvents, PeerEvent(c, x)
  PROVE  Inv'
<1>1. TypeOK'
  BY EventLoopAssumption DEF Inv, TypeOK, PeerEvent, HasSocket, thread
<1>2. ThreadControl'
  BY DEF Inv, ThreadControl, PeerEvent, HasSocket, thread
<1>3. OneClaim'
  BY DEF Inv, OneClaim, PeerEvent, HasSocket, thread
<1>4. DescriptorOwned'
  BY DEF Inv, DescriptorOwned, PeerEvent, HasSocket
<1>5. HeldRegistered'
  BY DEF Inv, HeldRegistered, Registered, PeerEvent, HasSocket, thread
<1>6. BacklogUnborn'
  BY DEF Inv, BacklogUnborn, PeerEvent, HasSocket
<1>7. ServerSafe'
  BY DEF Inv, ServerSafe, PeerEvent, HasSocket, thread
<1>8. ExclusiveHandling'
  BY DEF Inv, ExclusiveHandling, Holds, Armed, PeerEvent, HasSocket, thread
<1>9. NoDanglingEvent'
  BY DEF Inv, Holds, NoDanglingEvent, PeerEvent, HasSocket, thread
<1>10. NoStrandedProcessor'
  BY DEF Inv, Holds, Armed, NoStrandedProcessor, PeerEvent, HasSocket, thread
<1> QED
  BY <1>1, <1>2, <1>3, <1>4, <1>5, <1>6, <1>7, <1>8, <1>9, <1>10 DEF Inv

\* epoll_wait hands a batch of armed registrations to one thread.
LEMMA EpollWaitStep ==
  ASSUME Inv, NEW t \in Threads, NEW S \in SUBSET FDs, EpollWait(t, S)
  PROVE  Inv'
<1>1. TypeOK'
  BY DEF Inv, TypeOK, Event, Arms, PCs, Kinds, HeldRegistered, EpollWait,
     Deliverable, Interest, Readiness, Kind, AfterDelivery
<1>2. ThreadControl'
  BY DEF Inv, TypeOK, ThreadControl, EpollWait, Deliverable, Interest,
     Readiness, Kind, AfterDelivery
<1>3. OneClaim'
  BY DEF Inv, ThreadControl, OneClaim, DescriptorOwned, HeldRegistered,
     EpollWait, Deliverable, Interest, Readiness, Kind, AfterDelivery
<1>4. DescriptorOwned'
  BY DEF Inv, DescriptorOwned, EpollWait, Deliverable, Interest, Readiness,
     Kind, AfterDelivery
<1>5. HeldRegistered'
  BY EventLoopAssumption DEF Inv, DescriptorOwned, HeldRegistered,
     Registered, EpollWait, Deliverable, Interest, Readiness, Kind,
     AfterDelivery
<1>6. BacklogUnborn'
  BY DEF Inv, BacklogUnborn, EpollWait, Deliverable, Interest, Readiness,
     Kind, AfterDelivery
<1>7. ServerSafe'
  BY DEF Inv, TypeOK, Procs, DescriptorOwned, HeldRegistered, ServerSafe,
     EpollWait, Deliverable, Interest, Readiness, Kind, AfterDelivery
<1>8. ExclusiveHandling'
  BY EventLoopAssumption DEF Inv, DescriptorOwned, ExclusiveHandling, Holds,
     Armed, EpollWait, Deliverable, Interest, Readiness, Kind, AfterDelivery
<1>9. NoDanglingEvent'
  BY DEF Inv, Holds, NoDanglingEvent, EpollWait, Deliverable, Interest,
     Readiness, Kind, AfterDelivery
<1>10. NoStrandedProcessor'
  <2> SUFFICES ASSUME NEW p \in Procs, mem[p] = "live",
                      \A u \in Threads : ~Holds(u, p)'
               PROVE  fdof[p] # 0 /\ ptr[fdof[p]] = p /\ Armed(fdof[p])'
    BY DEF NoStrandedProcessor, EpollWait
  <2>1. \A u \in Threads : ~Holds(u, p)
    BY DEF Inv, ThreadControl, Holds, EpollWait, Deliverable, Interest,
       Readiness, Kind, AfterDelivery
  <2>2. fdof[p] # 0 /\ ptr[fdof[p]] = p /\ Armed(fdof[p])
    BY <2>1 DEF Inv, NoStrandedProcessor
  <2>3. fdof[p] \notin S
    <3> SUFFICES ASSUME fdof[p] \in S PROVE FALSE
      OBVIOUS
    <3>1. [ptr |-> ptr[fdof[p]], kind |-> Kind(fdof[p])] \in batch'[t]
      BY DEF Inv, TypeOK, EpollWait
    <3>2. Holds(t, p)'
      BY <2>2, <3>1 DEF Holds
    <3> QED
      BY <3>2
  <2> QED
    BY <2>2, <2>3 DEF Inv, TypeOK, Armed, EpollWait, Deliverable, Interest,
       Readiness, Kind, AfterDelivery
<1> QED
  BY <1>1, <1>2, <1>3, <1>4, <1>5, <1>6, <1>7, <1>8, <1>9, <1>10 DEF Inv

\* EPOLLRDHUP: the thread deletes the connection it was given.
LEMMA HangUpStep ==
  ASSUME Inv, NEW t \in Threads, NEW e \in batch[t], HangUp(t, e)
  PROVE  Inv'
<1>1. TypeOK'
  BY DEF Inv, TypeOK, Event, Arms, PCs, HangUp, Delete, CloseFD, NextEvent
<1>2. ThreadControl'
  BY DEF Inv, TypeOK, ThreadControl, HangUp, Delete, CloseFD, NextEvent
<1>3. OneClaim'
  BY DEF Inv, OneClaim, HangUp, Delete, CloseFD, NextEvent
<1>4. DescriptorOwned'
  BY DEF Inv, TypeOK, Event, DescriptorOwned, HangUp, Delete, CloseFD,
     NextEvent
<1>5. HeldRegistered'
  BY EventLoopAssumption DEF Inv, TypeOK, Event, PCs, Procs, ThreadControl,
     OneClaim, HeldRegistered, Registered, BacklogUnborn, ExclusiveHandling,
     Holds, HangUp, Delete, CloseFD, NextEvent
<1>6. BacklogUnborn'
  BY DEF Inv, TypeOK, BacklogUnborn, Holds, NoDanglingEvent, HangUp, Delete,
     CloseFD, NextEvent
<1>7. ServerSafe'
  BY EventLoopAssumption DEF Inv, ServerSafe, HangUp, Delete, CloseFD,
     NextEvent
<1>8. ExclusiveHandling'
  BY DEF Inv, ExclusiveHandling, Holds, Armed, HangUp, Delete, CloseFD,
     NextEvent
<1>9. NoDanglingEvent'
  BY DEF Inv, TypeOK, ThreadControl, OneClaim, DescriptorOwned,
     BacklogUnborn, ExclusiveHandling, Holds, Armed, NoDanglingEvent,
     NoStrandedProcessor, HangUp, Delete, CloseFD, NextEvent
<1>10. NoStrandedProcessor'
  BY DEF Inv, TypeOK, HeldRegistered, Registered, Holds, Armed,
     NoStrandedProcessor, HangUp, Delete, CloseFD, NextEvent
<1> QED
  BY <1>1, <1>2, <1>3, <1>4, <1>5, <1>6, <1>7, <1>8, <1>9, <1>10 DEF Inv

\* A handler that ends without closing its descriptor.
LEMMA ConnServeStep ==
  ASSUME Inv, NEW t \in Threads, NEW e \in batch[t],
         NEW r \in {"SUCCESS", "SOCKET_RETRY", "CLOSE"}, ConnServe(t, e, r)
  PROVE  Inv'
<1>1. TypeOK'
  BY DEF Inv, TypeOK, PCs, Procs, ConnServe, Enter, Return
<1>2. ThreadControl'
  BY DEF Inv, TypeOK, Procs, ThreadControl, ConnServe, Enter, Return
<1>3. OneClaim'
  BY DEF Inv, TypeOK, OneClaim, ConnServe, Enter, Return
<1>4. DescriptorOwned'
  BY DEF Inv, DescriptorOwned, ConnServe, Enter, Return
<1>5. HeldRegistered'
  BY DEF Inv, TypeOK, HeldRegistered, Registered, ConnServe, Enter, Return
<1>6. BacklogUnborn'
  BY DEF Inv, BacklogUnborn, ConnServe, Enter, Return
<1>7. ServerSafe'
  BY DEF Inv, TypeOK, ServerSafe, ConnServe, Enter, Return
<1>8. ExclusiveHandling'
  BY DEF Inv, ExclusiveHandling, Holds, Armed, ConnServe, Enter, Return
<1>9. NoDanglingEvent'
  BY DEF Inv, Holds, NoDanglingEvent, ConnServe, Enter, Return
<1>10. NoStrandedProcessor'
  BY EventLoopAssumption DEF Inv, TypeOK, ThreadControl, Holds, Armed,
     NoStrandedProcessor, ConnServe, Enter, Return
<1> QED
  BY <1>1, <1>2, <1>3, <1>4, <1>5, <1>6, <1>7, <1>8, <1>9, <1>10 DEF Inv

\* A handler that closes its descriptor.
LEMMA ConnBrokenStep ==
  ASSUME Inv, NEW t \in Threads, NEW e \in batch[t], ConnBroken(t, e)
  PROVE  Inv'
<1>1. TypeOK'
  BY DEF Inv, TypeOK, Arms, PCs, Procs, ConnBroken, Enter, Return, Close,
     CloseFD
<1>2. ThreadControl'
  BY DEF Inv, TypeOK, Procs, ThreadControl, ConnBroken, Enter, Return, Close,
     CloseFD
<1>3. OneClaim'
  BY DEF Inv, TypeOK, OneClaim, ConnBroken, Enter, Return, Close, CloseFD
<1>4. DescriptorOwned'
  BY DEF Inv, TypeOK, Procs, DescriptorOwned, ConnBroken, Enter, Return,
     Close, CloseFD
<1>5. HeldRegistered'
  BY EventLoopAssumption DEF Inv, TypeOK, Event, Procs, ThreadControl,
     OneClaim, HeldRegistered, Registered, ExclusiveHandling, Holds,
     ConnBroken, Enter, Return, Close, CloseFD
<1>6. BacklogUnborn'
  BY DEF Inv, BacklogUnborn, ConnBroken, Enter, Return, Close, CloseFD
<1>7. ServerSafe'
  BY DEF Inv, TypeOK, ServerSafe, ConnBroken, Enter, Return, Close, CloseFD
<1>8. ExclusiveHandling'
  BY DEF Inv, ExclusiveHandling, Holds, Armed, ConnBroken, Enter, Return,
     Close, CloseFD
<1>9. NoDanglingEvent'
  BY EventLoopAssumption DEF Inv, Holds, NoDanglingEvent, ConnBroken, Enter,
     Return, Close, CloseFD
<1>10. NoStrandedProcessor'
  BY EventLoopAssumption DEF Inv, TypeOK, Procs, ThreadControl,
     DescriptorOwned, Holds, Armed, NoStrandedProcessor, ConnBroken, Enter,
     Return, Close, CloseFD
<1> QED
  BY <1>1, <1>2, <1>3, <1>4, <1>5, <1>6, <1>7, <1>8, <1>9, <1>10 DEF Inv

\* A connection object is created for an accepted descriptor.
LEMMA AcceptStep ==
  ASSUME Inv, NEW t \in Threads, NEW e \in batch[t],
         NEW c \in Conns, NEW f \in FDs, Accept(t, e, c, f)
  PROVE  Inv'
<1>1. TypeOK'
  BY DEF Inv, TypeOK, PCs, Procs, Accept, Enter, LowestFree
<1>2. ThreadControl'
  BY DEF Inv, TypeOK, ThreadControl, Accept, Enter, LowestFree
<1>3. OneClaim'
  BY DEF Inv, TypeOK, Procs, OneClaim, BacklogUnborn, Holds, NoDanglingEvent,
     Accept, Enter, LowestFree
<1>4. DescriptorOwned'
  BY EventLoopAssumption DEF Inv, TypeOK, Procs, DescriptorOwned,
     BacklogUnborn, Accept, Enter, LowestFree
<1>5. HeldRegistered'
  BY EventLoopAssumption DEF Inv, TypeOK, Procs, HeldRegistered, Registered,
     BacklogUnborn, Holds, NoDanglingEvent, Accept, Enter, LowestFree
<1>6. BacklogUnborn'
  BY DEF Inv, BacklogUnborn, Accept, Enter, LowestFree
<1>7. ServerSafe'
  BY DEF Inv, ServerSafe, Accept, Enter, LowestFree
<1>8. ExclusiveHandling'
  BY EventLoopAssumption DEF Inv, TypeOK, Arms, PCs, HeldRegistered,
     Registered, BacklogUnborn, ExclusiveHandling, Holds, Armed,
     NoDanglingEvent, Accept, Enter, LowestFree, kernel, thread
<1>9. NoDanglingEvent'
  BY DEF Inv, TypeOK, Holds, NoDanglingEvent, Accept, Enter, LowestFree
<1>10. NoStrandedProcessor'
  BY EventLoopAssumption DEF Inv, TypeOK, ThreadControl, Holds, Armed,
     NoStrandedProcessor, Accept, Enter, LowestFree
<1> QED
  BY <1>1, <1>2, <1>3, <1>4, <1>5, <1>6, <1>7, <1>8, <1>9, <1>10 DEF Inv

\* accept4 fails.
LEMMA AcceptFailStep ==
  ASSUME Inv, NEW t \in Threads, NEW e \in batch[t], AcceptFail(t, e)
  PROVE  Inv'
<1>1. TypeOK'
  BY DEF Inv, TypeOK, PCs, Procs, AcceptFail, Enter, Return, kernel
<1>2. ThreadControl'
  BY DEF Inv, TypeOK, Procs, ThreadControl, AcceptFail, Enter, Return
<1>3. OneClaim'
  BY DEF Inv, TypeOK, OneClaim, AcceptFail, Enter, Return
<1>4. DescriptorOwned'
  BY DEF Inv, DescriptorOwned, AcceptFail, Enter, Return, kernel
<1>5. HeldRegistered'
  BY DEF Inv, TypeOK, HeldRegistered, Registered, AcceptFail, Enter, Return,
     kernel
<1>6. BacklogUnborn'
  BY DEF Inv, BacklogUnborn, AcceptFail, Enter, Return, kernel
<1>7. ServerSafe'
  BY DEF Inv, TypeOK, ServerSafe, AcceptFail, Enter, Return
<1>8. ExclusiveHandling'
  BY DEF Inv, ExclusiveHandling, Holds, Armed, AcceptFail, Enter, Return,
     kernel
<1>9. NoDanglingEvent'
  BY DEF Inv, Holds, NoDanglingEvent, AcceptFail, Enter, Return, kernel
<1>10. NoStrandedProcessor'
  BY EventLoopAssumption DEF Inv, TypeOK, ThreadControl, Holds, Armed,
     NoStrandedProcessor, AcceptFail, Enter, Return, kernel
<1> QED
  BY <1>1, <1>2, <1>3, <1>4, <1>5, <1>6, <1>7, <1>8, <1>9, <1>10 DEF Inv

\* An accepted descriptor is closed before a connection exists.
LEMMA AcceptDropStep ==
  ASSUME Inv, NEW t \in Threads, NEW e \in batch[t],
         NEW c \in Conns, AcceptDrop(t, e, c)
  PROVE  Inv'
<1>1. TypeOK'
  BY DEF Inv, TypeOK, PCs, Procs, AcceptDrop, Enter, Return
<1>2. ThreadControl'
  BY DEF Inv, TypeOK, Procs, ThreadControl, AcceptDrop, Enter, Return
<1>3. OneClaim'
  BY DEF Inv, TypeOK, OneClaim, AcceptDrop, Enter, Return
<1>4. DescriptorOwned'
  BY DEF Inv, DescriptorOwned, BacklogUnborn, AcceptDrop, Enter, Return
<1>5. HeldRegistered'
  BY DEF Inv, TypeOK, HeldRegistered, Registered, AcceptDrop, Enter, Return
<1>6. BacklogUnborn'
  BY DEF Inv, BacklogUnborn, AcceptDrop, Enter, Return
<1>7. ServerSafe'
  BY EventLoopAssumption DEF Inv, TypeOK, ServerSafe, AcceptDrop, Enter,
     Return
<1>8. ExclusiveHandling'
  BY DEF Inv, ExclusiveHandling, Holds, Armed, AcceptDrop, Enter, Return
<1>9. NoDanglingEvent'
  BY DEF Inv, BacklogUnborn, Holds, NoDanglingEvent, AcceptDrop, Enter,
     Return
<1>10. NoStrandedProcessor'
  BY EventLoopAssumption DEF Inv, TypeOK, ThreadControl, Holds, Armed,
     NoStrandedProcessor, AcceptDrop, Enter, Return
<1> QED
  BY <1>1, <1>2, <1>3, <1>4, <1>5, <1>6, <1>7, <1>8, <1>9, <1>10 DEF Inv

\* The new connection is registered.
LEMMA AddOkStep ==
  ASSUME Inv, NEW t \in Threads, AddOk(t)
  PROVE  Inv'
<1>1. TypeOK'
  BY DEF Inv, TypeOK, Arms, PCs, Procs, ThreadControl, HeldRegistered, AddOk,
     add
<1>2. ThreadControl'
  BY DEF Inv, ThreadControl, AddOk, add
<1>3. OneClaim'
  BY DEF Inv, OneClaim, AddOk, add
<1>4. DescriptorOwned'
  BY EventLoopAssumption DEF Inv, TypeOK, Procs, DescriptorOwned, AddOk, add
<1>5. HeldRegistered'
  BY EventLoopAssumption DEF Inv, TypeOK, Event, Procs, ThreadControl,
     DescriptorOwned, HeldRegistered, Registered, AddOk, add
<1>6. BacklogUnborn'
  BY DEF Inv, BacklogUnborn, AddOk, add
<1>7. ServerSafe'
  BY DEF Inv, ServerSafe, AddOk, add
<1>8. ExclusiveHandling'
  BY EventLoopAssumption DEF Inv, TypeOK, ThreadControl, OneClaim,
     ExclusiveHandling, Holds, Armed, AddOk, add
<1>9. NoDanglingEvent'
  BY DEF Inv, Holds, NoDanglingEvent, AddOk, add
<1>10. NoStrandedProcessor'
  BY DEF Inv, TypeOK, Procs, ThreadControl, DescriptorOwned, HeldRegistered,
     Holds, Armed, NoStrandedProcessor, AddOk, add
<1> QED
  BY <1>1, <1>2, <1>3, <1>4, <1>5, <1>6, <1>7, <1>8, <1>9, <1>10 DEF Inv

\* The new connection is deleted.
LEMMA AddFailStep ==
  ASSUME Inv, NEW t \in Threads, AddFail(t)
  PROVE  Inv'
<1>1. TypeOK'
  BY DEF Inv, TypeOK, Arms, PCs, Procs, ThreadControl, AddFail, Delete,
     CloseFD, Return
<1>2. ThreadControl'
  BY DEF Inv, TypeOK, Procs, ThreadControl, AddFail, Delete, CloseFD, Return
<1>3. OneClaim'
  BY DEF Inv, TypeOK, OneClaim, AddFail, Delete, CloseFD, Return
<1>4. DescriptorOwned'
  BY DEF Inv, TypeOK, Procs, ThreadControl, DescriptorOwned, AddFail, Delete,
     CloseFD, Return
<1>5. HeldRegistered'
  BY EventLoopAssumption DEF Inv, TypeOK, Event, Procs, ThreadControl,
     OneClaim, DescriptorOwned, HeldRegistered, Registered,
     ExclusiveHandling, Holds, AddFail, Delete, CloseFD, Return
<1>6. BacklogUnborn'
  BY DEF Inv, TypeOK, BacklogUnborn, Holds, NoDanglingEvent, AddFail, Delete,
     CloseFD, Return
<1>7. ServerSafe'
  BY EventLoopAssumption DEF Inv, TypeOK, ServerSafe, AddFail, Delete,
     CloseFD, Return
<1>8. ExclusiveHandling'
  BY EventLoopAssumption DEF Inv, ExclusiveHandling, Holds, Armed, AddFail,
     Delete, CloseFD, Return
<1>9. NoDanglingEvent'
  BY EventLoopAssumption DEF Inv, TypeOK, ThreadControl, OneClaim,
     DescriptorOwned, ExclusiveHandling, Holds, NoDanglingEvent, AddFail,
     Delete, CloseFD, Return
<1>10. NoStrandedProcessor'
  BY DEF Inv, TypeOK, Procs, ThreadControl, DescriptorOwned, Holds, Armed,
     NoStrandedProcessor, AddFail, Delete, CloseFD, Return
<1> QED
  BY <1>1, <1>2, <1>3, <1>4, <1>5, <1>6, <1>7, <1>8, <1>9, <1>10 DEF Inv

\* The log call after add().
LEMMA LogPeerStep ==
  ASSUME Inv, NEW t \in Threads, LogPeer(t)
  PROVE  Inv'
<1>1. TypeOK'
  <2>1. up' \in BOOLEAN
    BY Zenon DEF LogPeer
  <2> QED
    BY <2>1 DEF Inv, TypeOK, PCs, LogPeer, Return, kernel
<1>2. ThreadControl'
  BY DEF Inv, TypeOK, Procs, ThreadControl, LogPeer, Return
<1>3. OneClaim'
  BY DEF Inv, OneClaim, LogPeer, Return
<1>4. DescriptorOwned'
  BY DEF Inv, DescriptorOwned, LogPeer, Return, kernel
<1>5. HeldRegistered'
  BY DEF Inv, HeldRegistered, Registered, LogPeer, Return, kernel
<1>6. BacklogUnborn'
  BY DEF Inv, BacklogUnborn, LogPeer, Return, kernel
<1>7. ServerSafe'
  BY DEF Inv, TypeOK, ServerSafe, LogPeer, Return
<1>8. ExclusiveHandling'
  BY DEF Inv, ExclusiveHandling, Holds, Armed, LogPeer, Return, kernel
<1>9. NoDanglingEvent'
  BY DEF Inv, Holds, NoDanglingEvent, LogPeer, Return, kernel
<1>10. NoStrandedProcessor'
  BY DEF Inv, Holds, Armed, NoStrandedProcessor, LogPeer, Return, kernel
<1> QED
  BY <1>1, <1>2, <1>3, <1>4, <1>5, <1>6, <1>7, <1>8, <1>9, <1>10 DEF Inv

\* The switch on the result: re-arm or delete.
LEMMA FinishStep ==
  ASSUME Inv, NEW t \in Threads, Finish(t)
  PROVE  Inv'
<1>1. CASE ret[t] # "CLOSE"
  <2>0. /\ pc[t] = "ran"
         /\ enable(cur[t], ret[t] = "SOCKET_RETRY")
         /\ UNCHANGED <<mem, fdof, file>>
         /\ cur' = [cur EXCEPT ![t] = None]
         /\ NextEvent(t, batch[t])
         /\ UNCHANGED <<ready, backlog, ret, made, up>>
    BY <1>1 DEF Finish
  <2>1. TypeOK'
    BY <1>1, <2>0 DEF Inv, TypeOK, Arms, PCs, enable, NextEvent
  <2>2. ThreadControl'
    BY <1>1, <2>0 DEF Inv, TypeOK, ThreadControl, enable, NextEvent
  <2>3. OneClaim'
    BY EventLoopAssumption, <1>1, <2>0 DEF Inv, TypeOK, Event, OneClaim,
       enable, NextEvent
  <2>4. DescriptorOwned'
    BY EventLoopAssumption, <1>1, <2>0 DEF Inv, TypeOK, DescriptorOwned,
       enable, NextEvent
  <2>5. HeldRegistered'
    BY <1>1, <2>0 DEF Inv, TypeOK, Event, ThreadControl, HeldRegistered,
       Registered, enable, NextEvent
  <2>6. BacklogUnborn'
    BY <1>1, <2>0 DEF Inv, BacklogUnborn, enable, NextEvent
  <2>7. ServerSafe'
    BY <1>1, <2>0 DEF Inv, ServerSafe, enable, NextEvent
  <2>8. ExclusiveHandling'
    BY EventLoopAssumption, <1>1, <2>0 DEF Inv, TypeOK, OneClaim,
       ExclusiveHandling, Holds, Armed, enable, NextEvent
  <2>9. NoDanglingEvent'
    BY EventLoopAssumption, <1>1, <2>0 DEF Inv, Holds, NoDanglingEvent,
       enable, NextEvent
  <2>10. NoStrandedProcessor'
    <3> SUFFICES ASSUME NEW p \in Procs, mem[p] = "live"
                 PROVE  \/ \E u \in Threads : Holds(u, p)'
                        \/ (fdof[p] # 0 /\ ptr[fdof[p]] = p /\ Armed(fdof[p]))'
      BY <2>0 DEF NoStrandedProcessor
    <3>1. CASE p = cur[t]
      BY <1>1, <2>0, <3>1 DEF Inv, TypeOK, HeldRegistered, Registered, Holds,
         Armed, enable, NextEvent
    <3>2. CASE p # cur[t] /\ \E u \in Threads : Holds(u, p)
      BY <2>0, <3>2 DEF Inv, Holds, enable, NextEvent
    <3>3. CASE p # cur[t] /\ fdof[p] # 0 /\ ptr[fdof[p]] = p /\ Armed(fdof[p])
      BY <2>0, <3>3 DEF Inv, TypeOK, ThreadControl, DescriptorOwned, Armed,
         enable, NextEvent
    <3> QED
      BY <3>1, <3>2, <3>3 DEF Inv, NoStrandedProcessor
  <2> QED
    BY <2>1, <2>2, <2>3, <2>4, <2>5, <2>6, <2>7, <2>8, <2>9, <2>10 DEF Inv
<1>2. CASE ret[t] = "CLOSE"
  <2>0. /\ pc[t] = "ran"
         /\ Delete(cur[t])
         /\ cur' = [cur EXCEPT ![t] = None]
         /\ NextEvent(t, batch[t])
         /\ UNCHANGED <<ready, backlog, ret, made, up>>
    BY <1>2 DEF Finish
  <2>1. TypeOK'
    BY <1>2, <2>0 DEF Inv, TypeOK, Arms, PCs, ThreadControl, Delete, CloseFD,
       NextEvent
  <2>2. ThreadControl'
    BY <1>2, <2>0 DEF Inv, TypeOK, ThreadControl, Delete, CloseFD, NextEvent
  <2>3. OneClaim'
    BY EventLoopAssumption, <1>2, <2>0 DEF Inv, TypeOK, Event, OneClaim,
       Delete, CloseFD, NextEvent
  <2>4. DescriptorOwned'
    BY <1>2, <2>0 DEF Inv, TypeOK, ThreadControl, DescriptorOwned, Delete,
       CloseFD, NextEvent
  <2>5. HeldRegistered'
    BY <1>2, <2>0 DEF Inv, TypeOK, Event, Procs, ThreadControl, OneClaim,
       DescriptorOwned, HeldRegistered, Registered, ExclusiveHandling, Holds,
       Armed, Delete, CloseFD, NextEvent
  <2>6. BacklogUnborn'
    BY EventLoopAssumption, <1>2, <2>0 DEF Inv, TypeOK, Arms, BacklogUnborn,
       Holds, NoDanglingEvent, Delete, CloseFD, NextEvent
  <2>7. ServerSafe'
    BY EventLoopAssumption, <1>2, <2>0 DEF Inv, TypeOK, ServerSafe, Delete,
       CloseFD, NextEvent
  <2>8. ExclusiveHandling'
    BY EventLoopAssumption, <1>2, <2>0 DEF Inv, ExclusiveHandling, Holds,
       Armed, Delete, CloseFD, NextEvent
  <2>9. NoDanglingEvent'
    BY EventLoopAssumption, <1>2, <2>0 DEF Inv, TypeOK, OneClaim,
       DescriptorOwned, ExclusiveHandling, Holds, NoDanglingEvent, Delete,
       CloseFD, NextEvent
  <2>10. NoStrandedProcessor'
    BY <1>2, <2>0 DEF Inv, TypeOK, ThreadControl, DescriptorOwned, Holds,
       Armed, NoStrandedProcessor, Delete, CloseFD, NextEvent
  <2> QED
    BY <2>1, <2>2, <2>3, <2>4, <2>5, <2>6, <2>7, <2>8, <2>9, <2>10 DEF Inv
<1> QED
  BY <1>1, <1>2

\* The state before the first loop thread starts satisfies the invariant.
LEMMA InitInv == ASSUME Init PROVE Inv
<1>1. TypeOK
  BY EventLoopAssumption DEF Init, TypeOK, Arms, PCs, Procs
<1>2. ThreadControl
  BY DEF Init, ThreadControl
<1>3. OneClaim
  BY DEF Init, OneClaim
<1>4. DescriptorOwned
  BY EventLoopAssumption DEF Init, DescriptorOwned, Procs
<1>5. HeldRegistered
  BY EventLoopAssumption DEF Init, HeldRegistered, Procs
<1>6. BacklogUnborn
  BY DEF Init, BacklogUnborn
<1>7. ServerSafe
  BY DEF Init, ServerSafe, Procs
<1>8. ExclusiveHandling
  BY EventLoopAssumption DEF Init, ExclusiveHandling, Holds
<1>9. NoDanglingEvent
  BY EventLoopAssumption DEF Init, NoDanglingEvent, Holds
<1>10. NoStrandedProcessor
  BY EventLoopAssumption DEF Init, NoStrandedProcessor, Armed
<1> QED
  BY <1>1, <1>2, <1>3, <1>4, <1>5, <1>6, <1>7, <1>8, <1>9, <1>10 DEF Inv

\* A step that changes nothing.
LEMMA StutterStep == ASSUME Inv, UNCHANGED vars PROVE Inv'
  BY DEF Inv, TypeOK, ThreadControl, OneClaim, DescriptorOwned,
     HeldRegistered, Registered, BacklogUnborn, ServerSafe,
     ExclusiveHandling, Holds, Armed, NoDanglingEvent, NoStrandedProcessor,
     vars, kernel, thread

\* Every step of the peers and of the loop threads preserves the invariant.
LEMMA NextInv == ASSUME Inv, [Next]_vars PROVE Inv'
<1>1. CASE UNCHANGED vars
  BY <1>1, StutterStep
<1>2. ASSUME Peer PROVE Inv'
  BY <1>2, PeerConnectStep, PeerEventStep DEF Peer
<1>3. ASSUME NEW t \in Threads, NEW S \in SUBSET FDs, EpollWait(t, S) PROVE Inv'
  BY <1>3, EpollWaitStep
<1>4. ASSUME NEW t \in Threads, ThreadStep(t) PROVE Inv'
  <2>1. CASE AddOk(t) \/ AddFail(t) \/ LogPeer(t) \/ Finish(t)
    BY <2>1, AddOkStep, AddFailStep, LogPeerStep, FinishStep
  <2>2. ASSUME NEW e \in batch[t],
               HangUp(t, e) \/ ConnBroken(t, e) \/ AcceptFail(t, e)
        PROVE  Inv'
    BY <2>2, HangUpStep, ConnBrokenStep, AcceptFailStep
  <2>3. ASSUME NEW e \in batch[t], NEW r \in {"SUCCESS", "SOCKET_RETRY", "CLOSE"},
               ConnServe(t, e, r)
        PROVE  Inv'
    BY <2>3, ConnServeStep
  <2>4. ASSUME NEW e \in batch[t], NEW c \in Conns, AcceptDrop(t, e, c)
        PROVE  Inv'
    BY <2>4, AcceptDropStep
  <2>5. ASSUME NEW e \in batch[t], NEW c \in Conns, NEW f \in FDs, Accept(t, e, c, f)
        PROVE  Inv'
    BY <2>5, AcceptStep
  <2> QED
    BY <1>4, <2>1, <2>2, <2>3, <2>4, <2>5 DEF ThreadStep
<1> QED
  BY <1>1, <1>2, <1>3, <1>4 DEF Next

\* The inductive invariant holds in every reachable state.
THEOREM Invariance == Spec => []Inv
<1>1. Init => Inv
  BY InitInv
<1>2. Inv /\ [Next]_vars => Inv'
  BY NextInv
<1> QED
  BY <1>1, <1>2, PTL DEF Spec

\* Type correctness: handlers, batches and descriptors stay in their ranges.
THEOREM TypeCorrect == Spec => []TypeOK
<1>1. Inv => TypeOK
  BY DEF Inv
<1> QED
  BY <1>1, Invariance, PTL

\* EPOLLONESHOT alone keeps a processor with one thread: any number of loop
\* threads, any batch size.
THEOREM OneThreadPerProcessor == Spec => []ExclusiveHandling
<1>1. Inv => ExclusiveHandling
  BY DEF Inv
<1> QED
  BY <1>1, Invariance, PTL

\* Every processor pointer that loop(), a handler or epoll can still use is
\* live.
THEOREM PointersAreLive == Spec => []NoDanglingEvent
<1>1. Inv => NoDanglingEvent
  BY DEF Inv
<1> QED
  BY <1>1, Invariance, PTL

\* Reused descriptor numbers always belong to the processor that stores them.
THEOREM NumbersAreOwned == Spec => []DescriptorOwned
<1>1. Inv => DescriptorOwned
  BY DEF Inv
<1> QED
  BY <1>1, Invariance, PTL

\* Every path of accept and of the switch in loop() re-arms or deletes.
THEOREM NobodyIsStranded == Spec => []NoStrandedProcessor
<1>1. Inv => NoStrandedProcessor
  BY DEF Inv
<1> QED
  BY <1>1, Invariance, PTL

\* The listening server is never deleted.
THEOREM ServerStays == Spec => []ServerNeverStops
<1>1. Inv => ServerNeverStops
  BY DEF Inv, ServerSafe, ServerNeverStops
<1> QED
  BY <1>1, Invariance, PTL

\* The three steps that delete a live processor: a hang-up, a failed add and
\* a handler's refusal.  Each gives up the deleting thread's only claim.
LEMMA DeletingSteps ==
  ASSUME Inv, Next, NEW p \in Procs, mem[p] = "live", mem'[p] = "gone"
  PROVE  \E t \in Threads : Holds(t, p) /\ ~Holds(t, p)'
<1>1. ASSUME NEW t \in Threads, NEW e \in batch[t], HangUp(t, e)
      PROVE  Holds(t, p) /\ ~Holds(t, p)'
  <2>1. p = e.ptr
    BY <1>1 DEF HangUp, Delete, Inv, TypeOK
  <2>2. batch'[t] = batch[t] \ {e} /\ cur' = cur /\ pc'[t] # "made"
    BY <1>1 DEF HangUp, NextEvent, Inv, TypeOK
  <2> QED
    BY <1>1, <2>1, <2>2 DEF Holds, Inv, OneClaim
<1>2. ASSUME NEW t \in Threads, AddFail(t) PROVE Holds(t, p) /\ ~Holds(t, p)'
  <2>1. p = made[t] /\ pc[t] = "made" /\ made[t] \in Conns /\ cur[t] = Server
    BY <1>2 DEF AddFail, Delete, Inv, TypeOK, ThreadControl
  <2>2. batch' = batch /\ cur' = cur /\ pc'[t] # "made"
    BY <1>2 DEF AddFail, Return, Inv, TypeOK
  <2> QED
    BY <2>1, <2>2, EventLoopAssumption DEF Holds, Inv, OneClaim
<1>3. ASSUME NEW t \in Threads, Finish(t) PROVE Holds(t, p) /\ ~Holds(t, p)'
  <2>1. p = cur[t]
    BY <1>3 DEF Finish, Delete, Inv, TypeOK
  <2>2. batch'[t] = batch[t] /\ cur'[t] = None /\ pc'[t] # "made"
    BY <1>3 DEF Finish, NextEvent, Inv, TypeOK
  <2> QED
    BY <2>1, <2>2, EventLoopAssumption DEF Holds, Inv, OneClaim, Procs
<1>4. ASSUME NEW t \in Threads, NEW e \in batch[t], NEW c \in Conns, AcceptDrop(t, e, c)
      PROVE  FALSE
  BY <1>4 DEF AcceptDrop, Inv, TypeOK, BacklogUnborn
<1>5. ASSUME NEW t \in Threads, NEW e \in batch[t], NEW c \in Conns, NEW f \in FDs,
             Accept(t, e, c, f)
      PROVE  FALSE
  BY <1>5 DEF Accept, Inv, TypeOK, Procs
<1>6. ASSUME mem' = mem PROVE FALSE
  BY <1>6
<1> QED
  BY <1>1, <1>2, <1>3, <1>4, <1>5, <1>6 DEF Next, Peer, ThreadStep, PeerConnect,
     PeerEvent, EpollWait, ConnServe, ConnBroken, AcceptFail, AddOk, LogPeer

\* A live processor is deleted only by the thread that holds it, which lets
\* go of it in the same step.
THEOREM OnlyHoldersDelete == Spec => DeletedByItsHolder
<1>1. Inv /\ [Next]_vars =>
        [\A p \in Procs : mem[p] = "live" /\ mem'[p] = "gone" =>
           \E t \in Threads : Holds(t, p) /\ ~Holds(t, p)']_vars
  BY DeletingSteps
<1> QED
  BY <1>1, Invariance, PTL DEF Spec, DeletedByItsHolder
=============================================================================
