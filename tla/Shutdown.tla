------------------------------ MODULE Shutdown ------------------------------
(***************************************************************************)
(* Starting and stopping the listener (core/src/listener.cpp,              *)
(* core/include/mms/listener.h, app/application.cpp): multithread_loop and *)
(* wait in main, the SIGTERM handler terminate_t, the one-shot             *)
(* thread_stopper_t that is handed from thread to thread, the running      *)
(* thread counter that paces it, the destructor and the log thread.        *)
(*                                                                         *)
(* StopListenerThread runs either in the loop thread that received SIGTERM *)
(* (from_listener) or in main, from the destructor.                        *)
(***************************************************************************)
EXTENDS Naturals, FiniteSets

CONSTANTS Threads,  \* loop threads: threadcount of them
          Main      \* the thread that runs main()

ASSUME ShutdownAssumption == Main \notin Threads /\ IsFiniteSet(Threads)

Actors == Threads \cup {Main}

VARIABLES
  pc,            \* control state of every loop thread and of main
  running_thread,
  current,       \* current_thread_count of the actor in StopListenerThread
  stopper,       \* thread_stopper_t on each actor's stack
  late,          \* threads counted after the stop decided nobody was left
  terminate,     \* registration of terminate_t: "armed", "disarmed", "removed"
  sigterm,       \* SIGTERM is pending on the signalfd
  epollfd,       \* "open" or "closed"
  IsTerminated,
  log_thread,    \* "loop", "flushing" (the last flush), "ended"
  crashed        \* a thread ran a stopper whose frame is gone

vars == <<pc, running_thread, current, stopper, late, terminate, sigterm,
          epollfd, IsTerminated, log_thread, crashed>>

\* Control states of StopListenerThread, whoever runs it.
Stopping == {"load", "spin", "enable", "finish", "close"}
LoopPC == {"unborn", "created", "wait", "busy", "terminate", "stopper", "exiting", "done"}
MainPC == {"config", "spawn", "join", "logstop", "logjoin", "exit"}

TypeOK ==
  /\ pc \in [Actors -> LoopPC \cup MainPC \cup Stopping]
  /\ \A t \in Threads : pc[t] \in LoopPC \cup Stopping
  /\ pc[Main] \in MainPC \cup Stopping
  /\ running_thread \in Nat
  /\ current \in [Actors -> Nat]
  /\ stopper \in [Actors -> {"none", "armed", "disarmed", "removed", "dead"}]
  /\ late \subseteq Threads
  /\ terminate \in {"armed", "disarmed", "removed"}
  /\ sigterm \in BOOLEAN
  /\ epollfd \in {"open", "closed"}
  /\ IsTerminated \in BOOLEAN
  /\ log_thread \in {"loop", "flushing", "ended"}
  /\ crashed \in BOOLEAN

\* The listener constructor has run: signalfd added, log thread started.
Init ==
  /\ pc = [a \in Actors |-> IF a = Main THEN "config" ELSE "unborn"]
  /\ running_thread = 0
  /\ current = [a \in Actors |-> 0]
  /\ stopper = [a \in Actors |-> "none"]
  /\ late = {}
  /\ terminate = "armed"
  /\ sigterm = FALSE
  /\ epollfd = "open"
  /\ IsTerminated = FALSE
  /\ log_thread = "loop"
  /\ crashed = FALSE

Goto(a, s) == pc' = [pc EXCEPT ![a] = s]

-----------------------------------------------------------------------------
(***************************************************************************)
(* main().                                                                 *)
(***************************************************************************)
\* ReadConfigurations fails: main returns and the destructor runs.
ConfigFails ==
  /\ pc[Main] = "config" /\ Goto(Main, "load")
  /\ stopper' = [stopper EXCEPT ![Main] = "armed"]
  /\ UNCHANGED <<running_thread, current, late, terminate, sigterm, epollfd,
                 IsTerminated, log_thread, crashed>>

ConfigRead ==
  /\ pc[Main] = "config" /\ Goto(Main, "spawn")
  /\ UNCHANGED <<running_thread, current, stopper, late, terminate, sigterm,
                 epollfd, IsTerminated, log_thread, crashed>>

\* multithread_loop emplaces one jthread after the other.
Spawn(t) ==
  /\ pc[Main] = "spawn" /\ pc[t] = "unborn" /\ Goto(t, "created")
  /\ UNCHANGED <<running_thread, current, stopper, late, terminate, sigterm,
                 epollfd, IsTerminated, log_thread, crashed>>

Spawned ==
  /\ pc[Main] = "spawn" /\ \A t \in Threads : pc[t] # "unborn"
  /\ Goto(Main, "join")
  /\ UNCHANGED <<running_thread, current, stopper, late, terminate, sigterm,
                 epollfd, IsTerminated, log_thread, crashed>>

\* wait() has joined every thread; ~listener_t calls
\* StopListenerThread(false): add(&stopper) fails once epollfd is closed.
Joined ==
  /\ pc[Main] = "join" /\ \A t \in Threads : pc[t] = "done"
  /\ Goto(Main, "load")
  /\ stopper' = [stopper EXCEPT ![Main] =
                   IF epollfd = "open" THEN "armed" ELSE "removed"]
  /\ UNCHANGED <<running_thread, current, late, terminate, sigterm, epollfd,
                 IsTerminated, log_thread, crashed>>

\* ForceTerminateLogThread.
LogStop ==
  /\ pc[Main] = "logstop" /\ Goto(Main, "logjoin")
  /\ IsTerminated' = TRUE
  /\ UNCHANGED <<running_thread, current, stopper, late, terminate, sigterm,
                 epollfd, log_thread, crashed>>

LogJoin ==
  /\ pc[Main] = "logjoin" /\ log_thread = "ended" /\ Goto(Main, "exit")
  /\ UNCHANGED <<running_thread, current, stopper, late, terminate, sigterm,
                 epollfd, IsTerminated, log_thread, crashed>>

\* log_thread_function: flushes every 200 ms until IsTerminated, then once more.
LogThread ==
  /\ \/ log_thread = "loop" /\ IsTerminated /\ log_thread' = "flushing"
     \/ log_thread = "flushing" /\ log_thread' = "ended"
  /\ UNCHANGED <<pc, running_thread, current, stopper, late, terminate, sigterm,
                 epollfd, IsTerminated, crashed>>

-----------------------------------------------------------------------------
(***************************************************************************)
(* StopListenerThread(from_listener).                                      *)
(***************************************************************************)
\* Mutated: last_thread off by one, either way.
LastThreadOneMore(a) == IF a = Main THEN 0 ELSE 2
LastThreadZero(a) == 0

\* size_t last_thread = !!from_listener
LastThread(a) == IF a = Main THEN 0 ELSE 1

Load(a) ==
  /\ pc[a] = "load"
  /\ current' = [current EXCEPT ![a] = running_thread]
  /\ Goto(a, IF running_thread <= LastThread(a) THEN "finish" ELSE "spin")
  /\ UNCHANGED <<running_thread, stopper, late, terminate, sigterm, epollfd,
                 IsTerminated, log_thread, crashed>>

\* Mutated: one sleep instead of the polling loop.
SpinOnce(a) ==
  /\ pc[a] = "spin" /\ Goto(a, "enable")
  /\ UNCHANGED <<running_thread, current, stopper, late, terminate, sigterm,
                 epollfd, IsTerminated, log_thread, crashed>>

\* The 10 ms polling loop is left when the counter differs from the copy.
Spin(a) ==
  /\ pc[a] = "spin" /\ running_thread # current[a]
  /\ Goto(a, "enable")
  /\ UNCHANGED <<running_thread, current, stopper, late, terminate, sigterm,
                 epollfd, IsTerminated, log_thread, crashed>>

Enable(a) ==
  /\ pc[a] = "enable" /\ Goto(a, "load")
  /\ stopper' = [stopper EXCEPT ![a] = "armed"]
  /\ UNCHANGED <<running_thread, current, late, terminate, sigterm, epollfd,
                 IsTerminated, log_thread, crashed>>

\* IsTerminated = true; remove(&stopper).
StopFinish(a) ==
  /\ pc[a] = "finish" /\ Goto(a, "close")
  /\ IsTerminated' = TRUE
  /\ stopper' = [stopper EXCEPT ![a] = "removed"]
  /\ UNCHANGED <<running_thread, current, late, terminate, sigterm, epollfd,
                 log_thread, crashed>>

\* close(epollfd), the final flush, and the stopper's frame is left.  The
\* loop thread then throws listener_terminate_thread_t; main goes on in the
\* destructor (its close() is the second one of the same number).
StopClose(a) ==
  /\ pc[a] = "close"
  /\ Goto(a, IF a = Main THEN "logstop" ELSE "exiting")
  /\ epollfd' = "closed"
  /\ stopper' = [stopper EXCEPT ![a] = "dead"]
  /\ UNCHANGED <<running_thread, current, late, terminate, sigterm,
                 IsTerminated, log_thread, crashed>>

StopStep(a) == Load(a) \/ Spin(a) \/ Enable(a) \/ StopFinish(a) \/ StopClose(a)

-----------------------------------------------------------------------------
(***************************************************************************)
(* A loop thread.                                                          *)
(***************************************************************************)
\* Somebody has decided that no other thread is left.
Decided == \E a \in Actors : pc[a] \in {"finish", "close"} \/ stopper[a] = "dead"

\* RunningThread: ++running_thread on entry of loop().
Enter(t) ==
  /\ pc[t] = "created" /\ Goto(t, "wait")
  /\ running_thread' = running_thread + 1
  /\ late' = IF Decided THEN late \cup {t} ELSE late
  /\ UNCHANGED <<current, stopper, terminate, sigterm, epollfd, IsTerminated,
                 log_thread, crashed>>

\* A batch of connection events (EventLoop), handled and re-armed.
ServeBegin(t) ==
  /\ pc[t] = "wait" /\ epollfd = "open" /\ Goto(t, "busy")
  /\ UNCHANGED <<running_thread, current, stopper, late, terminate, sigterm,
                 epollfd, IsTerminated, log_thread, crashed>>

ServeEnd(t) ==
  /\ pc[t] = "busy" /\ Goto(t, "wait")
  /\ UNCHANGED <<running_thread, current, stopper, late, terminate, sigterm,
                 epollfd, IsTerminated, log_thread, crashed>>

\* epoll_wait returns the signalfd.
TakeTerminate(t) ==
  /\ pc[t] = "wait" /\ epollfd = "open"
  /\ terminate = "armed" /\ sigterm
  /\ terminate' = "disarmed"
  /\ Goto(t, "terminate")
  /\ UNCHANGED <<running_thread, current, stopper, late, sigterm, epollfd,
                 IsTerminated, log_thread, crashed>>

\* terminate_t::ProcessRead up to the loop of StopListenerThread: remove,
\* read of the signalfd, construction and add of the stopper.
Terminate(t) ==
  /\ pc[t] = "terminate" /\ Goto(t, "load")
  /\ terminate' = "removed"
  /\ sigterm' = FALSE
  /\ stopper' = [stopper EXCEPT ![t] = "armed"]
  /\ UNCHANGED <<running_thread, current, late, epollfd, IsTerminated,
                 log_thread, crashed>>

\* epoll_wait returns the stopper of actor a (its eventfd is always readable)
\* and disarms it.
TakeStopper(t, a) ==
  /\ pc[t] = "wait" /\ epollfd = "open" /\ stopper[a] = "armed"
  /\ stopper' = [stopper EXCEPT ![a] = "disarmed"]
  /\ Goto(t, "stopper")
  /\ UNCHANGED <<running_thread, current, late, terminate, sigterm, epollfd,
                 IsTerminated, log_thread, crashed>>

\* thread_stopper_t::ProcessRead throws.  If the stopper's frame is already
\* gone the virtual call is undefined: the process may die.
RunStopper(t) ==
  /\ pc[t] = "stopper" /\ Goto(t, "exiting")
  /\ crashed' \in IF \E a \in Actors : stopper[a] = "dead" THEN BOOLEAN ELSE {FALSE}
  /\ UNCHANGED <<running_thread, current, stopper, late, terminate, sigterm,
                 epollfd, IsTerminated, log_thread>>

\* Mutated: a thread leaves loop() without ~RunningThread, or with a second
\* decrement in the catch block.
LeaveUncounted(t) ==
  /\ pc[t] = "exiting" /\ Goto(t, "done")
  /\ UNCHANGED <<running_thread, current, stopper, late, terminate, sigterm,
                 epollfd, IsTerminated, log_thread, crashed>>
LeaveTwice(t) ==
  /\ pc[t] = "exiting" /\ Goto(t, "done")
  /\ running_thread' = running_thread - 2
  /\ UNCHANGED <<current, stopper, late, terminate, sigterm, epollfd,
                 IsTerminated, log_thread, crashed>>

\* The catch block ends loop(): ~RunningThread.
Leave(t) ==
  /\ pc[t] = "exiting" /\ Goto(t, "done")
  /\ running_thread' = running_thread - 1
  /\ UNCHANGED <<current, stopper, late, terminate, sigterm, epollfd,
                 IsTerminated, log_thread, crashed>>

LoopStep(t) ==
  \/ Enter(t) \/ ServeEnd(t) \/ TakeTerminate(t) \/ Terminate(t)
  \/ \E a \in Actors : TakeStopper(t, a)
  \/ RunStopper(t) \/ Leave(t)

MainStep ==
  \/ ConfigRead \/ Spawned \/ Joined \/ LogStop \/ LogJoin
  \/ \E t \in Threads : Spawn(t)

\* SIGTERM is delivered once; it may arrive at any time.
Signal ==
  /\ ~sigterm /\ terminate = "armed" /\ sigterm' = TRUE
  /\ UNCHANGED <<pc, running_thread, current, stopper, late, terminate, epollfd,
                 IsTerminated, log_thread, crashed>>

Next ==
  /\ ~crashed
  /\ \/ MainStep \/ ConfigFails \/ LogThread \/ Signal
     \/ \E a \in Actors : StopStep(a)
     \/ \E t \in Threads : LoopStep(t) \/ ServeBegin(t)

\* Every thread is scheduled, and a handler returns to epoll_wait.  A thread
\* that is offered the stopper infinitely often, between connection batches,
\* takes it (the ready list is first-in first-out).
Fairness ==
  /\ WF_vars(~crashed /\ MainStep) /\ WF_vars(~crashed /\ LogThread)
  /\ \A a \in Actors : WF_vars(~crashed /\ StopStep(a))
  /\ \A t \in Threads :
       /\ WF_vars(~crashed /\ LoopStep(t))
       /\ SF_vars(~crashed /\ (TakeTerminate(t) \/ \E a \in Actors : TakeStopper(t, a)))

Spec == Init /\ [][Next]_vars
FairSpec == Spec /\ Fairness

-----------------------------------------------------------------------------
(***************************************************************************)
(* Properties.                                                             *)
(***************************************************************************)
Counted == {t \in Threads : pc[t] \notin {"unborn", "created", "done"}}

\* The counter that paces the shutdown is exact in every interleaving of
\* starts, exits and the stop: it is the number of threads inside loop().
CountExact == running_thread = Cardinality(Counted)

\* Once the stop has decided that it is the last one, the only threads still
\* inside loop() are the one running the stop and threads that entered
\* loop() after the decision; so close(epollfd) and the end of the stopper's
\* frame can only hit such a late thread.
QuietBeforeClose ==
  Decided => \A t \in Counted :
               t \in late \/ pc[t] \in {"finish", "close"} \/ stopper[t] = "dead"

\* The dead stopper is only ever run by a thread that entered loop() late.
CrashNeedsLateThread == crashed => late # {}

\* StopListenerThread waits for a change of the counter that nobody is going
\* to make: the stopper is disarmed, the copy of the counter was taken after
\* the last exit, and every other thread is back in epoll_wait.
Stalled(t) ==
  /\ pc[t] = "spin" /\ running_thread = current[t] /\ stopper[t] = "disarmed"
  /\ \A u \in Threads : pc[u] \notin {"unborn", "created", "stopper", "exiting"}

\* A stall needs three threads: the one that stops, one that has already left
\* and one that is left behind.  With one or two loop threads the stop
\* cannot stall.
StallNeedsThirdThread ==
  \A t \in Threads :
    Stalled(t) => \E u, v \in Threads : /\ u # t /\ v # t /\ u # v
                                        /\ pc[u] = "done"
                                        /\ pc[v] \in {"wait", "busy"}

\* Nothing gets a stalled shutdown going again.
StallIsPermanent == [][\A t \in Threads : Stalled(t) => Stalled(t)']_vars

\* A thread that entered loop() after the decision is never told to stop: it
\* finds epollfd closed, and epoll_wait fails for ever.
Orphaned == \E t \in late : epollfd = "closed" /\ pc[t] \in {"wait", "busy"}

\* Every SIGTERM ends with main returning (all threads joined, the log
\* flushed), or in one of the three ways the protocol can fail.
StopConverges ==
  sigterm ~> \/ pc[Main] = "exit" \/ crashed \/ Orphaned
             \/ \E t \in Threads : Stalled(t)

\* "Listener will stop loop hence terminate the thread" (error.h:100): when
\* SIGTERM is picked up with every thread inside loop(), every thread leaves
\* it.
RunningThreadsStop ==
  (terminate = "disarmed" /\ Threads = Counted) ~> \A t \in Threads : pc[t] = "done"
=============================================================================
