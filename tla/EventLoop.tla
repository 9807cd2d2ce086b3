----------------------------- MODULE EventLoop -----------------------------
(***************************************************************************)
(* The epoll event loop of MMS::listener::listener_t together with the     *)
(* accept path of the TCP and TLS servers (core/src/listener.cpp,          *)
(* core/include/mms/listener.h, core/src/tcpserver.cpp,                    *)
(* core/src/tcpsslserver.cpp).                                             *)
(*                                                                         *)
(* Several loop threads wait on ONE epoll instance.  A registration holds  *)
(* a raw processor_t pointer; every registration is EPOLLONESHOT, and that *)
(* is the only thing that keeps two threads from running, or deleting, the *)
(* same connection.  Descriptor numbers are reused by the kernel, so both  *)
(* the pointer and the number can go stale.                                *)
(*                                                                         *)
(* Data is abstracted: what a handler reads and writes is its outcome      *)
(* (TcpConnection models the inside of the handler).  The order of the     *)
(* events in one epoll_wait batch is chosen lazily, so a batch is a set.   *)
(***************************************************************************)
EXTENDS Integers, FiniteSets

CONSTANTS Threads,    \* the loop threads started by multithread_loop
          Conns,      \* connection objects, one identity per allocation
          Server,     \* the listening server_t processor
          FDs,        \* descriptor numbers the process may hold
          ServerFD,   \* the listening socket's number
          MaxEvents,  \* max_event_epoll_return
          PeerEvents, \* what the peers' sockets report in this instance
          None

Procs == Conns \cup {Server}

ASSUME EventLoopAssumption ==
  /\ Server \notin Conns
  /\ None \notin Procs
  /\ FDs \subseteq Nat \ {0}
  /\ ServerFD \in FDs
  /\ MaxEvents \in Nat \ {0}
  /\ PeerEvents \subseteq {"IN", "OUT", "RDHUP"}

VARIABLES
  mem,      \* allocation state of each processor object
  fdof,     \* processor_t::fd, 0 after Close()
  file,     \* kernel descriptor table: the socket a number refers to
  ptr,      \* epoll registration of a number: epoll_data.ptr
  arm,      \* its interest: "none" unregistered, "off" disarmed by ONESHOT
  ready,    \* readiness of each connection's socket
  backlog,  \* connections completed by the kernel, not yet accepted
  pc, batch, cur, ret, made,  \* per loop thread
  up        \* FALSE once undefined behaviour killed the process

kernel == <<file, ptr, arm, ready, backlog>>
thread == <<pc, batch, cur, ret, made>>
vars   == <<mem, fdof, kernel, thread, up>>

Arms   == {"none", "off", "in", "inout"}
Kinds  == {"hup", "in", "out"}
Event  == [ptr : Procs, kind : Kinds]
PCs    == {"wait", "dispatch", "made", "added", "ran"}

TypeOK ==
  /\ mem \in [Procs -> {"unborn", "live", "gone"}]
  /\ fdof \in [Procs -> FDs \cup {0}]
  /\ file \in [FDs -> Procs \cup {None}]
  /\ ptr \in [FDs -> Procs \cup {None}]
  /\ arm \in [FDs -> Arms]
  /\ ready \in [Conns -> SUBSET {"IN", "OUT", "RDHUP"}]
  /\ backlog \in SUBSET Conns
  /\ pc \in [Threads -> PCs]
  /\ batch \in [Threads -> SUBSET Event]
  /\ cur \in [Threads -> Procs \cup {None}]
  /\ ret \in [Threads -> {"SUCCESS", "SOCKET_RETRY", "CLOSE"}]
  /\ made \in [Threads -> Conns \cup {None}]
  /\ up \in BOOLEAN

(***************************************************************************)
(* The server socket is bound and added before multithread_loop runs.      *)
(***************************************************************************)
Init ==
  /\ mem = [p \in Procs |-> IF p = Server THEN "live" ELSE "unborn"]
  /\ fdof = [p \in Procs |-> IF p = Server THEN ServerFD ELSE 0]
  /\ file = [f \in FDs |-> IF f = ServerFD THEN Server ELSE None]
  /\ ptr = [f \in FDs |-> IF f = ServerFD THEN Server ELSE None]
  /\ arm = [f \in FDs |-> IF f = ServerFD THEN "in" ELSE "none"]
  /\ ready = [c \in Conns |-> {}]
  /\ backlog = {}
  /\ pc = [t \in Threads |-> "wait"]
  /\ batch = [t \in Threads |-> {}]
  /\ cur = [t \in Threads |-> None]
  /\ ret = [t \in Threads |-> "SUCCESS"]
  /\ made = [t \in Threads |-> None]
  /\ up = TRUE

-----------------------------------------------------------------------------
(***************************************************************************)
(* The peers, through the kernel's sockets.                                *)
(***************************************************************************)
HasSocket(c) == c \in backlog \/ \E f \in FDs : file[f] = c

PeerConnect(c) ==
  /\ mem[c] = "unborn" /\ c \notin backlog
  /\ backlog' = backlog \cup {c}
  /\ ready' = [ready EXCEPT ![c] = {"OUT"}]
  /\ UNCHANGED <<mem, fdof, file, ptr, arm, thread, up>>

\* e = "IN": bytes or an error arrive, "OUT": the send buffer drains,
\* "RDHUP": the peer shuts down its side.
PeerEvent(c, e) ==
  /\ HasSocket(c)
  /\ e \notin ready[c]
  /\ e = "IN" => "RDHUP" \notin ready[c]
  /\ ready' = [ready EXCEPT ![c] = @ \cup {e}]
  /\ UNCHANGED <<mem, fdof, file, ptr, arm, backlog, thread, up>>

-----------------------------------------------------------------------------
(***************************************************************************)
(* The epoll interface: what a registration reports, and the listener's    *)
(* add / enable / remove / Delete.                                         *)
(***************************************************************************)
Readiness(f) ==
  IF file[f] = Server THEN IF backlog = {} THEN {} ELSE {"IN"}
  ELSE ready[file[f]]

\* Mutated: add and enable forget EPOLLRDHUP.
InterestNoHangUp(f) ==
  CASE arm[f] = "in"    -> {"IN"}
    [] arm[f] = "inout" -> {"IN", "OUT"}
    [] OTHER            -> {}

Interest(f) ==
  CASE arm[f] = "in"    -> {"IN", "RDHUP"}
    [] arm[f] = "inout" -> {"IN", "RDHUP", "OUT"}
    [] OTHER            -> {}

Deliverable(f) == file[f] # None /\ Interest(f) \cap Readiness(f) # {}

\* The branch of loop() an event takes: EPOLLRDHUP first, then EPOLLIN (with
\* EPOLLHUP and EPOLLERR), then EPOLLOUT.
Kind(f) ==
  LET events == Interest(f) \cap Readiness(f)
  IN  IF "RDHUP" \in events THEN "hup"
      ELSE IF "IN" \in events THEN "in" ELSE "out"

\* Mutated: a registration without EPOLLONESHOT.
AfterDeliveryNoOneshot(f) == arm[f]

\* EPOLLONESHOT: a delivered registration stays, with no interest.
AfterDelivery(f) == "off"

\* EPOLL_CTL_ADD with EPOLLIN | EPOLLONESHOT | EPOLLRDHUP.
add(p) ==
  /\ ptr' = [ptr EXCEPT ![fdof[p]] = p]
  /\ arm' = [arm EXCEPT ![fdof[p]] = "in"]

\* Mutated: a forgotten re-arm.
enableSkipped(p, enablewrite) == UNCHANGED <<arm, ptr>>

\* EPOLL_CTL_MOD; it fails, changing nothing, when the number is not
\* registered (fd 0 after Close()).
enable(p, enablewrite) ==
  /\ arm' = [f \in FDs |-> IF f = fdof[p] /\ arm[f] # "none"
                           THEN IF enablewrite THEN "inout" ELSE "in"
                           ELSE arm[f]]
  /\ ptr' = [f \in FDs |-> IF f = fdof[p] /\ arm[f] # "none"
                           THEN p ELSE ptr[f]]

\* close(2): the number is free and its registration is gone.
CloseFD(f) ==
  /\ file' = [g \in FDs |-> IF g = f THEN None ELSE file[g]]
  /\ ptr'  = [g \in FDs |-> IF g = f THEN None ELSE ptr[g]]
  /\ arm'  = [g \in FDs |-> IF g = f THEN "none" ELSE arm[g]]

\* Mutated: a closed fd marked by -1, which ~processor_t does not know, or
\* not marked at all.
CloseMinusOne(p) == CloseFD(fdof[p]) /\ fdof' = [fdof EXCEPT ![p] = -1]
CloseKeepsFD(p) == CloseFD(fdof[p]) /\ UNCHANGED fdof

\* processor_t::Close(): close(fd), fd = 0.
Close(p) == CloseFD(fdof[p]) /\ fdof' = [fdof EXCEPT ![p] = 0]

\* Mutated: the object is freed, its descriptor and registration stay.
DeleteLeaksFD(p) ==
  /\ fdof' = [fdof EXCEPT ![p] = 0]
  /\ mem' = [mem EXCEPT ![p] = "gone"]
  /\ UNCHANGED <<file, ptr, arm>>

\* EPOLL_CTL_DEL, then delete: ~processor_t closes fd unless it is 0.
Delete(p) ==
  /\ CloseFD(fdof[p])
  /\ fdof' = [fdof EXCEPT ![p] = 0]
  /\ mem' = [mem EXCEPT ![p] = "gone"]

\* The kernel hands out the lowest free number.
LowestFree(f) == file[f] = None /\ \A g \in FDs : file[g] = None => f <= g

-----------------------------------------------------------------------------
(***************************************************************************)
(* The loop.                                                               *)
(***************************************************************************)
EpollWait(t, S) ==
  /\ pc[t] = "wait"
  /\ S # {} /\ Cardinality(S) <= MaxEvents
  /\ \A f \in S : Deliverable(f)
  /\ batch' = [batch EXCEPT ![t] = {[ptr |-> ptr[f], kind |-> Kind(f)] : f \in S}]
  /\ arm' = [f \in FDs |-> IF f \in S THEN AfterDelivery(f) ELSE arm[f]]
  /\ pc' = [pc EXCEPT ![t] = "dispatch"]
  /\ UNCHANGED <<mem, fdof, file, ptr, ready, backlog, cur, ret, made, up>>

\* Where the for loop over the batch goes after an event is dealt with.
NextEvent(t, rest) ==
  /\ batch' = [batch EXCEPT ![t] = rest]
  /\ pc' = [pc EXCEPT ![t] = IF rest = {} THEN "wait" ELSE "dispatch"]

HangUp(t, e) ==
  /\ pc[t] = "dispatch" /\ e \in batch[t] /\ e.kind = "hup"
  /\ Delete(e.ptr)
  /\ NextEvent(t, batch[t] \ {e})
  /\ UNCHANGED <<ready, backlog, cur, ret, made, up>>

\* The handler of event e is called ...
Enter(t, e) ==
  /\ pc[t] = "dispatch" /\ e \in batch[t] /\ e.kind # "hup"
  /\ batch' = [batch EXCEPT ![t] = @ \ {e}]
  /\ cur' = [cur EXCEPT ![t] = e.ptr]

\* ... and returns r to loop().
Return(t, r) ==
  /\ pc' = [pc EXCEPT ![t] = "ran"]
  /\ ret' = [ret EXCEPT ![t] = r]

\* ProcessRead drains the socket until EAGAIN; ProcessWrite ends with every
\* buffer sent, or with SOCKET_RETRY on a full send buffer.
ConnServe(t, e, r) ==
  /\ e.ptr \in Conns /\ Enter(t, e) /\ Return(t, r)
  /\ ready' = [ready EXCEPT ![e.ptr] =
                 (@ \ (IF e.kind = "in" /\ "RDHUP" \notin @ THEN {"IN"} ELSE {}))
                    \ (IF r = "SOCKET_RETRY" THEN {"OUT"} ELSE {})]
  /\ r \in {"SUCCESS", "SOCKET_RETRY", "CLOSE"}
  /\ UNCHANGED <<mem, fdof, file, ptr, arm, backlog, made, up>>

\* Mutated: the handler deletes the connection that loop() deletes again.
ConnBrokenDeletes(t, e) ==
  /\ e.ptr \in Conns /\ Enter(t, e) /\ Return(t, "CLOSE")
  /\ Delete(e.ptr)
  /\ UNCHANGED <<ready, backlog, made, up>>

\* A failing recv or send: Close() and BAD_FILE_DESCRIPTOR.
ConnBroken(t, e) ==
  /\ e.ptr \in Conns /\ Enter(t, e) /\ Return(t, "CLOSE")
  /\ Close(e.ptr)
  /\ UNCHANGED <<mem, ready, backlog, made, up>>

\* server_t::ProcessRead: accept4 and construction of the connection.
Accept(t, e, c, f) ==
  /\ e.ptr = Server /\ Enter(t, e)
  /\ c \in backlog /\ backlog' = backlog \ {c}
  /\ LowestFree(f) /\ file' = [file EXCEPT ![f] = c]
  /\ mem' = [mem EXCEPT ![c] = "live"]
  /\ fdof' = [fdof EXCEPT ![c] = f]
  /\ made' = [made EXCEPT ![t] = c]
  /\ pc' = [pc EXCEPT ![t] = "made"]
  /\ UNCHANGED <<ptr, arm, ready, ret, up>>

\* Mutated: the server reports the failure to loop().
AcceptFailStops(t, e) ==
  /\ e.ptr = Server /\ Enter(t, e) /\ Return(t, "CLOSE")
  /\ UNCHANGED <<mem, fdof, kernel, made, up>>

\* accept4 fails; the exception is caught and the server returns SUCCESS.
AcceptFail(t, e) ==
  /\ e.ptr = Server /\ Enter(t, e) /\ Return(t, "SUCCESS")
  /\ UNCHANGED <<mem, fdof, kernel, made, up>>

\* TLS: the handshake fails, or no protocol matches; the accepted
\* descriptor is closed before any connection object exists.
AcceptDrop(t, e, c) ==
  /\ e.ptr = Server /\ Enter(t, e) /\ Return(t, "SUCCESS")
  /\ c \in backlog /\ backlog' = backlog \ {c}
  /\ \E f \in FDs : LowestFree(f)
  /\ mem' = [mem EXCEPT ![c] = "gone"]
  /\ UNCHANGED <<fdof, file, ptr, arm, ready, made, up>>

AddOk(t) ==
  /\ pc[t] = "made" /\ add(made[t])
  /\ pc' = [pc EXCEPT ![t] = "added"]
  /\ UNCHANGED <<mem, fdof, file, ready, backlog, batch, cur, ret, made, up>>

AddFail(t) ==
  /\ pc[t] = "made" /\ Delete(made[t])
  /\ made' = [made EXCEPT ![t] = None]
  /\ Return(t, "SUCCESS")
  /\ UNCHANGED <<ready, backlog, batch, cur, up>>

\* The log call after add() reads connection->GetFD() and the peer address.
\* Another thread may have deleted the connection by then: undefined
\* behaviour, a garbage record or the end of the process.
LogPeer(t) ==
  /\ pc[t] = "added"
  /\ made' = [made EXCEPT ![t] = None]
  /\ Return(t, "SUCCESS")
  /\ up' \in IF mem[made[t]] = "gone" THEN BOOLEAN ELSE {TRUE}
  /\ UNCHANGED <<mem, fdof, kernel, batch, cur>>

\* The switch on the handler's result.
Finish(t) ==
  /\ pc[t] = "ran"
  /\ \/ /\ ret[t] # "CLOSE"
        /\ enable(cur[t], ret[t] = "SOCKET_RETRY")
        /\ UNCHANGED <<mem, fdof, file>>
     \/ ret[t] = "CLOSE" /\ Delete(cur[t])
  /\ cur' = [cur EXCEPT ![t] = None]
  /\ NextEvent(t, batch[t])
  /\ UNCHANGED <<ready, backlog, ret, made, up>>

ThreadStep(t) ==
  \/ \E e \in batch[t] :
       \/ HangUp(t, e)
       \/ \E r \in {"SUCCESS", "SOCKET_RETRY", "CLOSE"} : ConnServe(t, e, r)
       \/ ConnBroken(t, e)
       \/ \E c \in Conns, f \in FDs : Accept(t, e, c, f)
       \/ AcceptFail(t, e)
       \/ \E c \in Conns : AcceptDrop(t, e, c)
  \/ AddOk(t) \/ AddFail(t) \/ LogPeer(t) \/ Finish(t)

Peer == \E c \in Conns :
          PeerConnect(c) \/ \E e \in PeerEvents : PeerEvent(c, e)

Next ==
  /\ up
  /\ \/ Peer
     \/ \E t \in Threads : \/ \E S \in SUBSET FDs : EpollWait(t, S)
                           \/ ThreadStep(t)

(***************************************************************************)
(* A thread inside a handler is scheduled; the kernel's ready list is      *)
(* first-in first-out, so no ready registration is passed over for ever;   *)
(* failures of accept4 (descriptor limits) are not permanent.              *)
(***************************************************************************)
Fairness ==
  /\ \A t \in Threads : WF_vars(up /\ ThreadStep(t))
  /\ \A f \in FDs :
       SF_vars(up /\ \E t \in Threads, S \in SUBSET FDs : f \in S /\ EpollWait(t, S))
  /\ \A c \in Conns :
       SF_vars(up /\ \E t \in Threads, f \in FDs :
                       \E e \in batch[t] : Accept(t, e, c, f) \/ AcceptDrop(t, e, c))

Spec == Init /\ [][Next]_vars
FairSpec == Spec /\ Fairness

-----------------------------------------------------------------------------
(***************************************************************************)
(* Properties.                                                             *)
(***************************************************************************)
\* Thread t has a right to touch processor p: an event of its batch refers to
\* p, it is handling p, or it has created p and not yet added it.
Holds(t, p) ==
  \/ \E e \in batch[t] : e.ptr = p
  \/ cur[t] = p
  \/ pc[t] = "made" /\ made[t] = p

Armed(f) == arm[f] \in {"in", "inout"}

\* EPOLLONESHOT gives a processor to one thread at a time: no two threads
\* hold it, and while one does no registration of it can fire (loop() and
\* the handlers take no lock on the processor).
ExclusiveHandling ==
  \A p \in Procs, t \in Threads : Holds(t, p) =>
    /\ \A u \in Threads : Holds(u, p) => u = t
    /\ \A f \in FDs : ptr[f] = p => ~Armed(f)

\* No event ever refers to a deleted processor: every pointer in a batch, in
\* a handler or in an epoll registration is a live object (line 194 casts
\* event.data.ptr without any check).
NoDanglingEvent ==
  \A p \in Procs :
    (\E t \in Threads : Holds(t, p)) \/ (\E f \in FDs : ptr[f] = p) => mem[p] = "live"

\* Descriptor numbers never go stale although the kernel reuses them: an open
\* number belongs to exactly the live processor that stores it, and epoll
\* reports it with that processor's pointer (Close() zeroes fd so that a
\* later Delete does not hit the number's next owner).
DescriptorOwned ==
  /\ \A f \in FDs : file[f] # None => mem[file[f]] = "live" /\ fdof[file[f]] = f
  /\ \A f \in FDs : ptr[f] # None => ptr[f] = file[f]
  /\ \A p \in Procs : fdof[p] # 0 => file[fdof[p]] = p

\* No processor is stranded: a live one is armed in epoll or in the hands of
\* some thread, so every path of the switch and of accept re-arms or deletes
\* ("Return must always be success or server will be stopped",
\* tcpsslserver.cpp:184, covers the server).
NoStrandedProcessor ==
  \A p \in Procs :
    mem[p] = "live" => \/ \E t \in Threads : Holds(t, p)
                       \/ fdof[p] # 0 /\ ptr[fdof[p]] = p /\ Armed(fdof[p])

\* The listening server is never deleted, whatever accept4, the handshake
\* or epoll_ctl answer.
ServerNeverStops == mem[Server] = "live"

\* A processor is deleted only by the thread that holds it, and that thread
\* lets go of it in the same step.
DeletedByItsHolder ==
  [][\A p \in Procs :
       mem[p] = "live" /\ mem'[p] = "gone" =>
         \E t \in Threads : Holds(t, p) /\ ~Holds(t, p)']_vars

\* Every connection completed by the kernel is accepted, unless the process
\* died: the one-accept-per-event handler is re-armed until the backlog is
\* empty.
BacklogServed == \A c \in Conns : c \in backlog ~> (c \notin backlog \/ ~up)

\* When the peer shuts down, the connection object is eventually deleted and
\* its descriptor closed.
HangUpReclaims ==
  \A c \in Conns :
    (mem[c] = "live" /\ "RDHUP" \in ready[c]) ~> (mem[c] = "gone" \/ ~up)
=============================================================================
