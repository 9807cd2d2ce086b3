--------------------------- MODULE ShutdownProofs ---------------------------
(***************************************************************************)
(* Machine-checked proofs about Shutdown, for every finite set of loop     *)
(* threads.                                                                *)
(***************************************************************************)
EXTENDS Shutdown, FiniteSetTheorems, TLAPS

InStop(t) == pc[t] \in Stopping

\* SIGTERM is picked up by one thread, which alone runs StopListenerThread
\* and owns the only stopper.
OneStopper ==
  /\ \A t \in Threads :
       /\ pc[t] = "terminate" => terminate = "disarmed"
       /\ stopper[t] # "none" => terminate = "removed"
       /\ InStop(t) <=> stopper[t] \in {"armed", "disarmed", "removed"}
       /\ stopper[t] = "dead" => pc[t] \in {"exiting", "done"}
  /\ \A t, u \in Threads :
       /\ pc[t] = "terminate" /\ pc[u] = "terminate" => t = u
       /\ stopper[t] # "none" /\ stopper[u] # "none" => t = u

\* While main runs the destructor no loop thread exists.
MainAlone ==
  /\ pc[Main] = "config" => \A t \in Threads : pc[t] = "unborn"
  /\ pc[Main] \in {"config", "spawn", "join"} <=> stopper[Main] = "none"
  /\ stopper[Main] # "none" => \A t \in Threads : pc[t] \in {"unborn", "done"}

\* A disarmed stopper was taken by a thread that stops or has stopped.
StopperTaken ==
  \A t \in Threads :
    stopper[t] = "disarmed" =>
      \E u \in Threads \ {t} : pc[u] \in {"stopper", "exiting", "done"}

\* The spin loop runs only with a copy above last_thread.
SpinsAboveLast == \A t \in Threads : pc[t] = "spin" => current[t] > 1

\* All of the above but the count.
Control ==
  /\ TypeOK /\ OneStopper /\ MainAlone /\ StopperTaken /\ SpinsAboveLast
  /\ QuietBeforeClose /\ CrashNeedsLateThread

Inv == Control /\ CountExact

ControlOnly == Control' /\ Counted' = Counted /\ running_thread' = running_thread

-----------------------------------------------------------------------------
\* The threads inside loop() can be counted.
LEMMA CountedFinite == IsFiniteSet(Counted) /\ Cardinality(Counted) \in Nat
<1>1. IsFiniteSet(Counted)
  BY ShutdownAssumption, FS_Subset DEF Counted
<1> QED
  BY <1>1, FS_CardinalityType

\* When the counter is down to one, the thread that reads it is alone.
LEMMA LastOneIsAlone ==
  ASSUME Inv, NEW t \in Counted, running_thread <= 1
  PROVE  Counted = {t}
<1>1. Cardinality(Counted \ {t}) = Cardinality(Counted) - 1
  BY CountedFinite, FS_RemoveElement
<1>2. IsFiniteSet(Counted \ {t}) /\ Cardinality(Counted \ {t}) \in Nat
  BY CountedFinite, FS_RemoveElement, FS_CardinalityType
<1>3. Cardinality(Counted \ {t}) = 0
  BY <1>1, <1>2, CountedFinite DEF Inv, CountExact
<1> QED
  BY <1>2, <1>3, FS_EmptySet

\* When the counter is above one, another thread is inside loop().
LEMMA SomeOtherThread ==
  ASSUME Inv, NEW t \in Threads, running_thread > 1
  PROVE  \E u \in Counted : u # t
<1> SUFFICES ASSUME Counted \subseteq {t} PROVE FALSE
  OBVIOUS
<1>1. IsFiniteSet({t}) /\ Cardinality({t}) = 1
  BY FS_Singleton
<1>2. Cardinality(Counted) <= 1
  BY <1>1, FS_Subset
<1> QED
  BY <1>2, CountedFinite DEF Inv, CountExact

\* A thread entering loop() adds one to their number.
LEMMA OneMore ==
  ASSUME NEW t \in Threads, t \notin Counted
  PROVE  Cardinality(Counted \cup {t}) = Cardinality(Counted) + 1
  BY CountedFinite, FS_AddElement

\* The state after the listener's constructor satisfies the invariant.
LEMMA InitInv == ASSUME Init PROVE Inv
<1>1. Counted = {}
  BY ShutdownAssumption DEF Init, Counted, Actors
<1>2. CountExact
  BY <1>1, FS_EmptySet DEF Init, CountExact
<1> QED
  BY <1>1, <1>2, ShutdownAssumption DEF Inv, Control, Init, TypeOK, LoopPC, MainPC,
     Stopping, Actors, OneStopper, InStop, MainAlone, StopperTaken, SpinsAboveLast,
     QuietBeforeClose, CrashNeedsLateThread

\* Every step preserves the invariant.  Only Enter and Leave move the counter;
\* the other steps are shown to keep the control part and the counted set.
LEMMA NextInv == ASSUME Inv, [Next]_vars PROVE Inv'
<1> USE ShutdownAssumption DEF Inv, Control, ControlOnly, TypeOK, LoopPC, MainPC,
      Stopping, Actors, OneStopper, InStop, MainAlone, StopperTaken, SpinsAboveLast,
      QuietBeforeClose, Decided, CrashNeedsLateThread, Goto
<1>1. ASSUME ConfigFails PROVE ControlOnly
  BY <1>1 DEF ConfigFails, Counted
<1>2. ASSUME ConfigRead PROVE ControlOnly
  BY <1>2 DEF ConfigRead, Counted
<1>3. ASSUME NEW t \in Threads, Spawn(t) PROVE ControlOnly
  BY <1>3 DEF Spawn, Counted
<1>4. ASSUME Spawned PROVE ControlOnly
  BY <1>4 DEF Spawned, Counted
<1>5. ASSUME Joined PROVE ControlOnly
  BY <1>5 DEF Joined, Counted
<1>6. ASSUME LogStop PROVE ControlOnly
  BY <1>6 DEF LogStop, Counted
<1>7. ASSUME LogJoin PROVE ControlOnly
  BY <1>7 DEF LogJoin, Counted
<1>8. ASSUME LogThread PROVE ControlOnly
  BY <1>8 DEF LogThread, Counted
<1>9. ASSUME Signal PROVE ControlOnly
  BY <1>9 DEF Signal, Counted
<1>10. ASSUME NEW a \in Actors, Load(a) PROVE ControlOnly
  <2>1. TypeOK' /\ OneStopper' /\ MainAlone' /\ StopperTaken' /\ SpinsAboveLast'
    BY <1>10 DEF Load, LastThread
  <2>2. Counted' = Counted /\ running_thread' = running_thread
    BY <1>10 DEF Load, Counted
  <2>3. CASE a \in Threads /\ running_thread <= 1
    <3>1. Counted = {a}
      BY <1>10, <2>3, LastOneIsAlone DEF Load, Counted
    <3> QED
      BY <1>10, <2>1, <2>2, <2>3, <3>1 DEF Load, LastThread
  <2>4. CASE ~(a \in Threads /\ running_thread <= 1)
    BY <1>10, <2>1, <2>2, <2>4 DEF Load, LastThread, Counted
  <2> QED
    BY <2>3, <2>4
<1>11. ASSUME NEW a \in Actors, Spin(a) PROVE ControlOnly
  BY <1>11 DEF Spin, Counted
<1>12. ASSUME NEW a \in Actors, Enable(a) PROVE ControlOnly
  BY <1>12 DEF Enable, Counted
<1>13. ASSUME NEW a \in Actors, StopFinish(a) PROVE ControlOnly
  BY <1>13 DEF StopFinish, Counted
<1>14. ASSUME NEW a \in Actors, StopClose(a) PROVE ControlOnly
  BY <1>14 DEF StopClose, Counted
<1>15. ASSUME NEW t \in Threads, ServeBegin(t) PROVE ControlOnly
  BY <1>15 DEF ServeBegin, Counted
<1>16. ASSUME NEW t \in Threads, ServeEnd(t) PROVE ControlOnly
  BY <1>16 DEF ServeEnd, Counted
<1>17. ASSUME NEW t \in Threads, TakeTerminate(t) PROVE ControlOnly
  BY <1>17 DEF TakeTerminate, Counted
<1>18. ASSUME NEW t \in Threads, Terminate(t) PROVE ControlOnly
  BY <1>18 DEF Terminate, Counted
<1>19. ASSUME NEW t \in Threads, NEW a \in Actors, TakeStopper(t, a) PROVE ControlOnly
  BY <1>19 DEF TakeStopper, Counted
<1>20. ASSUME NEW t \in Threads, RunStopper(t) PROVE ControlOnly
  <2>1. (\E a \in Actors : stopper[a] = "dead") => t \in late
    BY <1>20 DEF RunStopper, Counted
  <2>2. crashed' => late # {}
    BY <1>20, <2>1 DEF RunStopper
  <2>3. crashed' \in BOOLEAN
    BY <1>20, Zenon DEF RunStopper
  <2> QED
    BY <1>20, <2>2, <2>3 DEF RunStopper, Counted
<1>21. CASE UNCHANGED vars
  BY <1>21 DEF vars, Counted, CountExact
<1>22. ASSUME ControlOnly PROVE Inv'
  BY <1>22 DEF CountExact
<1>23. ASSUME NEW t \in Threads, Enter(t) PROVE Inv'
  <2>1. Counted' = Counted \cup {t} /\ t \notin Counted
    BY <1>23 DEF Enter, Counted
  <2>a. Cardinality(Counted') = Cardinality(Counted) + 1
    BY <2>1, OneMore
  <2>2. CountExact'
    BY <1>23, <2>a DEF Enter, CountExact
  <2>3. Control'
    BY <1>23, <2>1 DEF Enter
  <2> QED
    BY <2>2, <2>3
<1>24. ASSUME NEW t \in Threads, Leave(t) PROVE Inv'
  <2>1. Counted' = Counted \ {t} /\ t \in Counted
    BY <1>24 DEF Leave, Counted
  <2>2. Cardinality(Counted') = Cardinality(Counted) - 1
    BY <2>1, CountedFinite, FS_RemoveElement
  <2>3. running_thread' = running_thread - 1 /\ CountExact'
    BY <1>24, <2>2 DEF Leave, CountExact
  <2>4. running_thread' \in Nat
    <3>1. Cardinality(Counted') \in Nat
      BY <2>1, CountedFinite, FS_RemoveElement, FS_CardinalityType
    <3> QED
      BY <2>3, <3>1 DEF CountExact
  <2>5. Control'
    BY <1>24, <2>1, <2>4 DEF Leave
  <2> QED
    BY <2>3, <2>5
<1> QED
  BY <1>1, <1>2, <1>3, <1>4, <1>5, <1>6, <1>7, <1>8, <1>9, <1>10, <1>11, <1>12,
     <1>13, <1>14, <1>15, <1>16, <1>17, <1>18, <1>19, <1>20, <1>21, <1>22,
     <1>23, <1>24 DEF Next, MainStep, StopStep, LoopStep

\* The inductive invariant holds in every reachable state.
THEOREM Invariance == Spec => []Inv
<1>1. Init => Inv
  BY InitInv
<1>2. Inv /\ [Next]_vars => Inv'
  BY NextInv
<1> QED
  BY <1>1, <1>2, PTL DEF Spec

\* running_thread is the number of threads inside loop(), for any number of
\* threads and any interleaving of starts, exits and the stop.
THEOREM CountIsExact == Spec => []CountExact
<1>1. Inv => CountExact
  BY DEF Inv
<1> QED
  BY <1>1, Invariance, PTL

\* When StopListenerThread goes on to close epollfd, nobody but itself and
\* threads that entered loop() after its decision is inside loop().
THEOREM QuietAtClose == Spec => []QuietBeforeClose
<1>1. Inv => QuietBeforeClose
  BY DEF Inv, Control
<1> QED
  BY <1>1, Invariance, PTL

\* The stopper whose frame is gone is run only if some thread entered loop()
\* after the decision.
THEOREM CrashIsLate == Spec => []CrashNeedsLateThread
<1>1. Inv => CrashNeedsLateThread
  BY DEF Inv, Control
<1> QED
  BY <1>1, Invariance, PTL

\* Type correctness; running_thread never goes below zero.
THEOREM TypeCorrect == Spec => []TypeOK
<1>1. Inv => TypeOK
  BY DEF Inv, Control
<1> QED
  BY <1>1, Invariance, PTL

\* In a stall one thread has taken the stopper and left, and, the counter
\* being above one, another is still in loop().
LEMMA StallHasThird == ASSUME Inv PROVE StallNeedsThirdThread
<1> SUFFICES ASSUME NEW t \in Threads, Stalled(t)
             PROVE  \E u, v \in Threads : /\ u # t /\ v # t /\ u # v
                                          /\ pc[u] = "done"
                                          /\ pc[v] \in {"wait", "busy"}
  BY DEF StallNeedsThirdThread
<1>1. PICK u \in Threads : u # t /\ pc[u] = "done"
  BY DEF Inv, Control, StopperTaken, Stalled
<1>2. running_thread > 1
  BY DEF Inv, Control, SpinsAboveLast, Stalled
<1>3. PICK v \in Counted : v # t
  BY <1>2, SomeOtherThread
<1>4. pc[v] \in {"wait", "busy"}
  BY <1>3, ShutdownAssumption DEF Counted, Inv, Control, TypeOK, LoopPC, Stopping, Actors,
     OneStopper, InStop, Stalled
<1> QED
  BY <1>1, <1>3, <1>4 DEF Counted

\* With fewer than three loop threads the stop cannot stall.
THEOREM StallTakesThree == Spec => []StallNeedsThirdThread
  BY StallHasThird, Invariance, PTL

\* A stalled stop never gets going again, whatever the signal, the
\* connections or main do.
THEOREM StallStays == Spec => StallIsPermanent
<1>1. ASSUME Inv, Next, NEW t \in Threads, Stalled(t) PROVE Stalled(t)'
  <2> USE <1>1, ShutdownAssumption DEF Inv, Control, TypeOK, LoopPC, MainPC, Stopping, Actors,
        OneStopper, InStop, MainAlone, Stalled, Goto
  <2>1. pc[Main] \in {"spawn", "join"} /\ stopper[Main] = "none"
    OBVIOUS
  <2>2. \A u \in Threads : u # t => pc[u] \in {"wait", "busy", "done"} /\ stopper[u] = "none"
    OBVIOUS
  <2>3. CASE MainStep \/ ConfigFails \/ LogThread \/ Signal
    BY <2>1, <2>2, <2>3 DEF MainStep, ConfigRead, Spawned, Joined, LogStop, LogJoin, Spawn,
       ConfigFails, LogThread, Signal
  <2>4. ASSUME NEW a \in Actors, StopStep(a) PROVE Stalled(t)'
    BY <2>1, <2>2, <2>4 DEF StopStep, Load, Spin, Enable, StopFinish, StopClose
  <2>5. ASSUME NEW u \in Threads, LoopStep(u) \/ ServeBegin(u) PROVE Stalled(t)'
    BY <2>1, <2>2, <2>5 DEF LoopStep, ServeBegin, Enter, ServeEnd, TakeTerminate, Terminate,
       TakeStopper, RunStopper, Leave
  <2> QED
    BY <2>3, <2>4, <2>5 DEF Next
<1>2. ASSUME UNCHANGED vars, NEW t \in Threads, Stalled(t) PROVE Stalled(t)'
  BY <1>2 DEF vars, Stalled
<1>3. Inv /\ [Next]_vars => [\A t \in Threads : Stalled(t) => Stalled(t)']_vars
  BY <1>1, <1>2
<1> QED
  BY <1>3, Invariance, PTL DEF Spec, StallIsPermanent
=============================================================================
