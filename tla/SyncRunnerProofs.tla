-------------------------- MODULE SyncRunnerProofs --------------------------
(***************************************************************************)
(* Proofs about SyncRunner, for any relationships, loops, delays and       *)
(* interval: types, the execution guard, the map of loops, the back-off.   *)
(***************************************************************************)
EXTENDS SyncRunner, TLAPS

USE FreshNames, DelayRange, IntervalPositive, EventBounds DEF stops

LEMMA ZeroSlept == 0 \in 0..Interval /\ InitialDelay \in InitialDelay..MaxDelay
OBVIOUS

LEMMA TypeInit == Init => TypeOK
BY DEF Init, TypeOK

\* A delay stays in its range, doubled or not.
LEMMA DelayInRange ==
    ASSUME NEW d \in InitialDelay..MaxDelay
    PROVE  Capped(2 * Capped(d)) \in InitialDelay..MaxDelay
BY DEF Capped

\* The configuration and the requests to start and stop.
LEMMA TypeHandler ==
    ASSUME TypeOK, NEW r \in Rels, Handler(r) \/ StartRefused(r) \/ Stop(r) \/ ManualDone(r)
    PROVE  TypeOK'
<1> USE DEF TypeOK, Stopped
<1>1. CASE Enable(r) \/ Disable(r) \/ Patch(r, "on") \/ Patch(r, "off") \/ Delete(r)
  BY <1>1 DEF Enable, Disable, Patch, Delete
<1>2. CASE DeleteConnection(r) \/ AskStart(r) \/ AskStop(r) \/ StartRefused(r)
  BY <1>2 DEF DeleteConnection, AskStart, AskStop, StartRefused
<1>3. CASE Repath(r) \/ Stop(r)
  BY <1>3 DEF Repath, Stop
<1>4. CASE ManualSync(r) \/ ManualDone(r)
  BY <1>4 DEF ManualSync, ManualDone
<1> QED
  BY <1>1, <1>2, <1>3, <1>4 DEF Handler

LEMMA TypeStart ==
    ASSUME TypeOK, NEW r \in Rels, NEW t \in Tasks, Start(r, t)
    PROVE  TypeOK'
<1>1. NewLoop(r) \in Loop
  BY DEF NewLoop, Loop
<1> QED
  BY <1>1 DEF Start, TypeOK

LEMMA TypeReturns ==
    ASSUME TypeOK, NEW t \in Tasks, NEW armed \in BOOLEAN, NEW delay \in InitialDelay..MaxDelay,
           NEW ok \in BOOLEAN, Returns(t, armed, delay, ok)
    PROVE  TypeOK'
<1>1. task[t] \in Loop
  BY DEF Returns, At, Live, TypeOK
<1>2. [task[t] EXCEPT !.at = "loop", !.slept = 0, !.ok = ok, !.armed = armed, !.delay = delay]
        \in Loop
  BY <1>1, ZeroSlept DEF Loop
<1>3. task' \in [Tasks -> Loop \cup {None}]
  <2> DEFINE new == [task[t] EXCEPT !.at = "loop", !.slept = 0, !.ok = ok,
                                    !.armed = armed, !.delay = delay]
  <2>1. task' = [task EXCEPT ![t] = new]
    BY DEF Returns
  <2>2. new \in Loop
    BY <1>2
  <2> HIDE DEF new
  <2> QED
    BY <2>1, <2>2 DEF TypeOK
<1> QED
  BY <1>3 DEF Returns, Released, TypeOK

LEMMA TypeSync ==
    ASSUME TypeOK, NEW t \in Tasks, SyncReturns(t)
    PROVE  TypeOK'
<1>1. task[t] \in Loop
  BY DEF SyncReturns, SyncOk, SyncTransient, SyncFails, Returns, At, Live, TypeOK
<1>2. CASE SyncOk(t)
  BY <1>2, ZeroSlept, TypeReturns DEF SyncOk
<1>3. CASE SyncTransient(t)
  <2>1. Capped(2 * Capped(task[t].delay)) \in InitialDelay..MaxDelay
    BY <1>1, DelayInRange DEF Loop
  <2> QED
    BY <1>3, <2>1, TypeReturns DEF SyncTransient
<1>4. CASE SyncFails(t)
  BY <1>1, <1>4, TypeReturns DEF SyncFails, Loop
<1> QED
  BY <1>2, <1>3, <1>4 DEF SyncReturns

LEMMA TypeRecheck ==
    ASSUME TypeOK, NEW t \in Tasks, task[t] \in Loop, NEW armed \in BOOLEAN, Recheck(t, armed)
    PROVE  TypeOK'
<1> DEFINE r    == task[t].rel
           next == [task[t] EXCEPT !.armed = armed, !.slept = 0,
                                   !.at = IF r \in connected THEN "wait" ELSE "loop"]
<1>1. next \in Loop
  BY ZeroSlept DEF Loop
<1>2. task' = [task EXCEPT ![t] = IF rel[r] = "on" THEN next ELSE None]
  BY DEF Recheck
<1>3. task' \in [Tasks -> Loop \cup {None}]
  <2> HIDE DEF next, r
  <2> QED
    BY <1>1, <1>2 DEF TypeOK
<1>4. UNCHANGED <<rel, connected, running, aborting, guard, toStart, toStop, stops, events>>
  BY DEF Recheck
<1> QED
  BY <1>3, <1>4 DEF TypeOK

LEMMA TypeLoop ==
    ASSUME TypeOK, NEW t \in Tasks,
           Acquire(t) \/ Event(t) \/ FilteredEvent(t) \/ Sleep(t) \/ Retry(t) \/ Periodic(t)
    PROVE  TypeOK'
<1>1. task[t] \in Loop
  BY DEF Acquire, Event, FilteredEvent, Sleep, Retry, Periodic, At, Live, TypeOK
<1>2. CASE Acquire(t)
  BY <1>1, <1>2 DEF Acquire, TypeOK, Loop
<1>3. CASE Event(t)
  BY <1>1, <1>3 DEF Event, TypeOK, Loop
<1>4. CASE FilteredEvent(t)
  BY <1>1, <1>4 DEF FilteredEvent, TypeOK, Loop
<1>5. CASE Sleep(t)
  BY <1>1, <1>5 DEF Sleep, TypeOK, Loop
<1>6. CASE Retry(t)
  BY <1>1, <1>6, TypeRecheck DEF Retry
<1>7. CASE Periodic(t)
  BY <1>1, <1>7, TypeRecheck DEF Periodic, Loop
<1> QED
  BY <1>2, <1>3, <1>4, <1>5, <1>6, <1>7

\* The steps of stop_all.
StopsAll ==
    \/ StopAll
    \/ \E S \in stopping : StopAllDropped(S) \/ \E t \in S : StopAllNext(S, t)

LEMMA TypeStep == TypeOK /\ [Next]_vars => TypeOK'
<1> SUFFICES ASSUME TypeOK, [Next]_vars PROVE TypeOK'
  OBVIOUS
<1>1. CASE StopsAll
  BY <1>1 DEF StopsAll, StopAll, StopAllDropped, StopAllNext, TypeOK
<1>2. ASSUME NEW r \in Rels, Handler(r) \/ Starting(r) \/ Stop(r) \/ ManualDone(r)
      PROVE  TypeOK'
  BY <1>2, TypeHandler, TypeStart DEF Starting
<1>3. ASSUME NEW t \in Tasks, AbortEnds(t) PROVE TypeOK'
  BY <1>3 DEF AbortEnds, Released, TypeOK
<1>4. ASSUME NEW t \in Tasks,
             \/ Acquire(t) \/ SyncReturns(t) \/ Event(t) \/ FilteredEvent(t)
             \/ Sleep(t) \/ Retry(t) \/ Periodic(t)
      PROVE  TypeOK'
  BY <1>4, TypeSync, TypeLoop
<1>5. CASE UNCHANGED vars
  BY <1>5 DEF vars, TypeOK
<1> QED
  BY <1>1, <1>2, <1>3, <1>4, <1>5 DEF Next, StopsAll

\* The state of the runner keeps its types; in particular the retry delay stays
\* between its initial and its maximal value however often it is doubled.
THEOREM TypeCorrect == Spec => []TypeOK
<1> QED
  BY TypeInit, TypeStep, PTL DEF Spec

-----------------------------------------------------------------------------
(* What the two compound steps of a loop leave behind. *)

LEMMA ReturnsEffect ==
    ASSUME TypeOK, NEW t \in Tasks, NEW armed, NEW delay, NEW ok, Returns(t, armed, delay, ok)
    PROVE  /\ Live(t) /\ task[t] \in Loop
           /\ \A u \in Tasks \ {t} : task'[u] = task[u]
           /\ task'[t].at = "loop" /\ task'[t].rel = task[t].rel
           /\ task'[t].ok = ok /\ task'[t].armed = armed /\ task'[t].delay = delay
           /\ UNCHANGED <<running, aborting, stops>>
           /\ guard' = Released(t)
<1>1. Live(t) /\ task[t] \in Loop
  BY DEF Returns, At, Live, TypeOK
<1> DEFINE new == [task[t] EXCEPT !.at = "loop", !.slept = 0, !.ok = ok,
                                  !.armed = armed, !.delay = delay]
<1>2. /\ new.at = "loop" /\ new.rel = task[t].rel
      /\ new.ok = ok /\ new.armed = armed /\ new.delay = delay
  BY <1>1 DEF Loop
<1>3. task' = [task EXCEPT ![t] = new]
  BY DEF Returns
<1> HIDE DEF new
<1>4. task'[t] = new /\ \A u \in Tasks \ {t} : task'[u] = task[u]
  BY <1>3 DEF TypeOK
<1> QED
  BY <1>1, <1>2, <1>4 DEF Returns

LEMMA SyncEffect ==
    ASSUME TypeOK, NEW t \in Tasks, SyncReturns(t)
    PROVE  /\ Live(t) /\ task[t] \in Loop
           /\ \A u \in Tasks \ {t} : task'[u] = task[u]
           /\ task'[t].at = "loop" /\ task'[t].rel = task[t].rel
           /\ task'[t].ok => task'[t].armed = FALSE /\ task'[t].delay = InitialDelay
           /\ UNCHANGED <<running, aborting, stops>>
           /\ guard' = Released(t)
<1>1. CASE SyncOk(t)
  BY <1>1, ReturnsEffect DEF SyncOk
<1>2. ASSUME NEW armed, NEW delay, Returns(t, armed, delay, FALSE)
      PROVE  /\ Live(t) /\ task[t] \in Loop
             /\ \A u \in Tasks \ {t} : task'[u] = task[u]
             /\ task'[t].at = "loop" /\ task'[t].rel = task[t].rel
             /\ task'[t].ok = FALSE
             /\ UNCHANGED <<running, aborting, stops>>
             /\ guard' = Released(t)
  BY <1>2, ReturnsEffect, ZenonT(30)
<1>3. CASE SyncTransient(t)
  BY <1>2, <1>3 DEF SyncTransient
<1>4. CASE SyncFails(t)
  BY <1>2, <1>4 DEF SyncFails
<1> QED
  BY <1>1, <1>3, <1>4 DEF SyncReturns

LEMMA TimerEffect ==
    ASSUME TypeOK, NEW t \in Tasks, Retry(t) \/ Periodic(t)
    PROVE  /\ Live(t) /\ task[t] \in Loop
           /\ \A u \in Tasks \ {t} : task'[u] = task[u]
           /\ \/ task'[t] = None
              \/ /\ task'[t].at \in {"wait", "loop"} /\ task'[t].rel = task[t].rel
                 /\ task'[t].ok = task[t].ok /\ task'[t].delay = task[t].delay
                 /\ task'[t].armed \in {FALSE, task[t].armed}
           /\ UNCHANGED <<running, aborting, guard, stops>>
<1>1. Live(t) /\ task[t] \in Loop
  BY DEF Retry, Periodic, At, Live, TypeOK
<1>2. PICK armed \in {FALSE, task[t].armed} : Recheck(t, armed)
  BY DEF Retry, Periodic
<1> DEFINE r    == task[t].rel
           next == [task[t] EXCEPT !.armed = armed, !.slept = 0,
                                   !.at = IF r \in connected THEN "wait" ELSE "loop"]
<1>3. /\ next.at \in {"wait", "loop"} /\ next.rel = task[t].rel /\ next.ok = task[t].ok
      /\ next.delay = task[t].delay /\ next.armed = armed
  BY <1>1 DEF Loop
<1>4. task' = [task EXCEPT ![t] = IF rel[r] = "on" THEN next ELSE None]
  BY <1>2 DEF Recheck
<1>5. UNCHANGED <<running, aborting, guard, stops>>
  BY <1>2 DEF Recheck
<1> HIDE DEF next, r
<1>6. task'[t] \in {next, None} /\ \A u \in Tasks \ {t} : task'[u] = task[u]
  BY <1>4 DEF TypeOK
<1> QED
  BY <1>1, <1>2, <1>3, <1>5, <1>6

-----------------------------------------------------------------------------
(* The execution guard. *)

\* A loop inside a synchronisation holds the guard of its relationship.
GuardHeld == \A t \in Tasks : task[t] # None /\ task[t].at = "sync" => guard[task[t].rel] = t

\* A step of the handlers changes no loop, and frees no guard that a loop holds.
LEMMA GuardHandler ==
    ASSUME TypeOK, NEW r \in Rels, Handler(r) \/ StartRefused(r) \/ Stop(r) \/ ManualDone(r)
    PROVE  /\ task' = task
           /\ \A q \in Rels, t \in Tasks : guard[q] = t => guard'[q] = t
<1> USE DEF TypeOK
<1>1. CASE ManualSync(r) \/ ManualDone(r)
  BY <1>1 DEF ManualSync, ManualDone
<1>2. CASE ~(ManualSync(r) \/ ManualDone(r))
  BY <1>2 DEF Handler, Enable, Disable, Patch, Delete, DeleteConnection, AskStart, AskStop, Repath,
              StartRefused, Stop
<1> QED
  BY <1>1, <1>2

LEMMA GuardLoop ==
    ASSUME TypeOK, GuardHeld, NEW t \in Tasks,
           \/ Acquire(t) \/ SyncReturns(t) \/ Event(t) \/ FilteredEvent(t)
           \/ Sleep(t) \/ Retry(t) \/ Periodic(t) \/ AbortEnds(t)
    PROVE  GuardHeld'
<1>1. CASE Acquire(t)
  BY <1>1 DEF Acquire, TypeOK, GuardHeld, Loop, At, Live
<1>2. CASE SyncReturns(t)
  <2>1. /\ \A u \in Tasks \ {t} : task'[u] = task[u]
        /\ task'[t].at = "loop"
        /\ guard' = Released(t)
    BY <1>2, SyncEffect
  <2> QED
    BY <2>1 DEF Released, TypeOK, GuardHeld, Loop
<1>3. CASE Event(t) \/ FilteredEvent(t) \/ Sleep(t)
  BY <1>3 DEF Event, FilteredEvent, Sleep, TypeOK, GuardHeld, Loop, At, Live
<1>4. CASE Retry(t) \/ Periodic(t)
  <2>1. /\ \A u \in Tasks \ {t} : task'[u] = task[u]
        /\ task'[t] = None \/ task'[t].at \in {"wait", "loop"}
        /\ guard' = guard
    BY <1>4, TimerEffect
  <2> QED
    BY <2>1 DEF TypeOK, GuardHeld, Loop
<1>5. CASE AbortEnds(t)
  BY <1>5 DEF AbortEnds, Released, TypeOK, GuardHeld, Loop
<1> QED
  BY <1>1, <1>2, <1>3, <1>4, <1>5

LEMMA GuardStep == TypeOK /\ GuardHeld /\ [Next]_vars => GuardHeld'
<1> SUFFICES ASSUME TypeOK, GuardHeld, [Next]_vars PROVE GuardHeld'
  OBVIOUS
<1>1. CASE StopsAll \/ UNCHANGED vars
  BY <1>1 DEF StopsAll, StopAll, StopAllDropped, StopAllNext, vars, GuardHeld
<1>2. ASSUME NEW r \in Rels, Handler(r) \/ StartRefused(r) \/ Stop(r) \/ ManualDone(r)
      PROVE  GuardHeld'
  BY <1>2, GuardHandler DEF GuardHeld, TypeOK, Loop
<1>3. ASSUME NEW r \in Rels, NEW t \in Tasks, Start(r, t) PROVE GuardHeld'
  BY <1>3 DEF Start, NewLoop, GuardHeld, TypeOK, Loop
<1>4. ASSUME NEW t \in Tasks,
             \/ Acquire(t) \/ SyncReturns(t) \/ Event(t) \/ FilteredEvent(t)
             \/ Sleep(t) \/ Retry(t) \/ Periodic(t) \/ AbortEnds(t)
      PROVE  GuardHeld'
  BY <1>4, GuardLoop
<1> QED
  BY <1>1, <1>2, <1>3, <1>4 DEF Next, StopsAll, Starting

\* OneSyncAtATime: however start, stop, aborts and the manual synchronisation
\* interleave, no two of them synchronise a relationship at once.
THEOREM SyncsExcludeEachOther == Spec => []OneSyncAtATime
<1>1. Init => GuardHeld
  BY DEF Init, GuardHeld
<1>2. TypeOK /\ GuardHeld => OneSyncAtATime
  BY DEF TypeOK, GuardHeld, OneSyncAtATime, Inside
<1> QED
  BY <1>1, <1>2, TypeInit, TypeStep, GuardStep, PTL DEF Spec

-----------------------------------------------------------------------------
(* The map of running loops. *)

\* A loop's own steps leave it in the map, under the relationship it was started for.
LEMMA OrphanLoop ==
    ASSUME TypeOK, NoOrphanLoop, NEW t \in Tasks,
           \/ Acquire(t) \/ SyncReturns(t) \/ Event(t) \/ FilteredEvent(t)
           \/ Sleep(t) \/ Retry(t) \/ Periodic(t)
    PROVE  NoOrphanLoop'
<1> USE DEF TypeOK, Loop, At, Live
<1>1. /\ \A u \in Tasks \ {t} : task'[u] = task[u]
      /\ task'[t] = None \/ task'[t].rel = task[t].rel
      /\ Live(t)
      /\ UNCHANGED <<running, aborting, stops>>
  <2>1. CASE Acquire(t) \/ Event(t) \/ FilteredEvent(t) \/ Sleep(t)
    BY <2>1 DEF Acquire, Event, FilteredEvent, Sleep
  <2>2. CASE SyncReturns(t)
    BY <2>2, SyncEffect
  <2>3. CASE Retry(t) \/ Periodic(t)
    BY <2>3, TimerEffect
  <2> QED
    BY <2>1, <2>2, <2>3
<1> QED
  BY <1>1 DEF NoOrphanLoop

LEMMA OrphanStep == TypeOK /\ NoOrphanLoop /\ [Next]_vars => NoOrphanLoop'
<1> SUFFICES ASSUME TypeOK, NoOrphanLoop, [Next]_vars PROVE NoOrphanLoop'
  OBVIOUS
<1> USE DEF TypeOK, NoOrphanLoop, Live
<1>1. CASE StopAll
  <2> DEFINE all == {t \in Tasks : \E r \in Rels : running[r] = t}
  <2>1. ASSUME NEW t \in Tasks \ deserted', Live(t)' PROVE \E S \in stopping' : t \in S
    <3>1. t \in Tasks \ deserted /\ Live(t) /\ stopping' = stopping \cup ({all} \ {{}})
      BY <1>1, <2>1 DEF StopAll
    <3>2. CASE running[task[t].rel] = t
      <4>1. t \in all
        BY <3>1, <3>2 DEF Loop
      <4> QED
        BY <3>1, <4>1
    <3>3. CASE \E S \in stopping : t \in S
      BY <3>1, <3>3
    <3> QED
      BY <3>1, <3>2, <3>3
  <2> QED
    BY <2>1
<1>2. ASSUME NEW S \in stopping, StopAllDropped(S) PROVE NoOrphanLoop'
  BY <1>2 DEF StopAllDropped
<1>3. ASSUME NEW S \in stopping, NEW t \in S, StopAllNext(S, t) PROVE NoOrphanLoop'
  <2>1. /\ stopping' = (stopping \ {S}) \cup ({S \ {t}} \ {{}})
        /\ task[t] = None \/ t \in aborting'
        /\ aborting \subseteq aborting'
        /\ UNCHANGED <<running, task, deserted>>
    BY <1>3 DEF StopAllNext
  <2>2. ASSUME NEW u \in Tasks \ {t}, NEW Q \in stopping, u \in Q
        PROVE  \E P \in stopping' : u \in P
    <3>1. CASE Q = S
      <4>1. u \in S \ {t}
        BY <2>2, <3>1
      <4>2. S \ {t} \in stopping'
        BY <2>1, <4>1
      <4> QED
        BY <4>1, <4>2
    <3>2. CASE Q # S
      BY <2>1, <2>2, <3>2
    <3> QED
      BY <3>1, <3>2
  <2> QED
    BY <2>1, <2>2
<1>4. ASSUME NEW r \in Rels, Stop(r) \/ Repath(r) PROVE NoOrphanLoop'
  BY <1>4 DEF Stop, Repath, Stopped, Loop
<1>5. ASSUME NEW r \in Rels, Handler(r) \/ StartRefused(r) \/ ManualDone(r), ~Repath(r)
      PROVE  NoOrphanLoop'
  BY <1>5 DEF Handler, Enable, Disable, Patch, Delete, DeleteConnection, AskStart, AskStop,
              ManualSync, StartRefused, ManualDone
<1>6. ASSUME NEW r \in Rels, NEW t \in Tasks, Start(r, t) PROVE NoOrphanLoop'
  BY <1>6 DEF Start, NewLoop, Loop
<1>7. ASSUME NEW t \in Tasks,
             \/ Acquire(t) \/ SyncReturns(t) \/ Event(t) \/ FilteredEvent(t)
             \/ Sleep(t) \/ Retry(t) \/ Periodic(t)
      PROVE  NoOrphanLoop'
  BY <1>7, OrphanLoop
<1>8. ASSUME NEW t \in Tasks, AbortEnds(t) PROVE NoOrphanLoop'
  BY <1>8 DEF AbortEnds
<1>9. CASE UNCHANGED vars
  BY <1>9 DEF vars
<1> QED
  BY <1>1, <1>2, <1>3, <1>4, <1>5, <1>6, <1>7, <1>8, <1>9 DEF Next, StopsAll, Starting

\* NoOrphanLoop: however start, stop, stop_all and changes of the configuration interleave,
\* a loop that runs on unaborted is the one the map has for its relationship, or is still
\* to be aborted by a stop_all; unless that stop_all was dropped.
THEOREM LoopsAreTracked == Spec => []NoOrphanLoop
<1>1. Init => NoOrphanLoop
  BY DEF Init, NoOrphanLoop, Live
<1> QED
  BY <1>1, TypeInit, TypeStep, OrphanStep, PTL DEF Spec

-----------------------------------------------------------------------------
(* The back-off. *)

LEMMA BackoffLoop ==
    ASSUME TypeOK, SuccessClearsBackoff, NEW t \in Tasks,
           \/ Acquire(t) \/ SyncReturns(t) \/ Event(t) \/ FilteredEvent(t)
           \/ Sleep(t) \/ Retry(t) \/ Periodic(t)
    PROVE  SuccessClearsBackoff'
<1>1. /\ \A u \in Tasks \ {t} : task'[u] = task[u]
      /\ UNCHANGED aborting
      /\ Live(t)
  <2>1. CASE Acquire(t) \/ Event(t) \/ FilteredEvent(t) \/ Sleep(t)
    BY <2>1 DEF Acquire, Event, FilteredEvent, Sleep, TypeOK, At, Live
  <2>2. CASE SyncReturns(t)
    BY <2>2, SyncEffect
  <2>3. CASE Retry(t) \/ Periodic(t)
    BY <2>3, TimerEffect
  <2> QED
    BY <2>1, <2>2, <2>3
<1>2. task'[t] # None /\ task'[t].ok => ~task'[t].armed /\ task'[t].delay = InitialDelay
  <2>1. CASE Acquire(t) \/ Event(t) \/ FilteredEvent(t) \/ Sleep(t)
    BY <2>1 DEF Acquire, Event, FilteredEvent, Sleep, SuccessClearsBackoff, TypeOK, Loop,
                At, Live
  <2>2. CASE SyncReturns(t)
    BY <2>2, SyncEffect
  <2>3. CASE Retry(t) \/ Periodic(t)
    BY <2>3, TimerEffect DEF SuccessClearsBackoff
  <2> QED
    BY <2>1, <2>2, <2>3
<1> QED
  BY <1>1, <1>2 DEF SuccessClearsBackoff, Live

LEMMA BackoffStep == TypeOK /\ SuccessClearsBackoff /\ [Next]_vars => SuccessClearsBackoff'
<1> SUFFICES ASSUME TypeOK, SuccessClearsBackoff, [Next]_vars PROVE SuccessClearsBackoff'
  OBVIOUS
<1> USE DEF TypeOK, SuccessClearsBackoff, Live
<1>1. CASE StopsAll
  BY <1>1 DEF StopsAll, StopAll, StopAllDropped, StopAllNext
<1>2. ASSUME NEW r \in Rels, Handler(r) \/ StartRefused(r) \/ Stop(r) \/ ManualDone(r)
      PROVE  SuccessClearsBackoff'
  BY <1>2 DEF Handler, Enable, Disable, Patch, Delete, DeleteConnection, AskStart, AskStop, Repath,
              ManualSync, StartRefused, Stop, Stopped, ManualDone
<1>3. ASSUME NEW r \in Rels, NEW t \in Tasks, Start(r, t) PROVE SuccessClearsBackoff'
  BY <1>3 DEF Start, NewLoop
<1>4. ASSUME NEW t \in Tasks,
             \/ Acquire(t) \/ SyncReturns(t) \/ Event(t) \/ FilteredEvent(t)
             \/ Sleep(t) \/ Retry(t) \/ Periodic(t)
      PROVE  SuccessClearsBackoff'
  BY <1>4, BackoffLoop
<1>5. ASSUME NEW t \in Tasks, AbortEnds(t) PROVE SuccessClearsBackoff'
  BY <1>5 DEF AbortEnds
<1>6. CASE UNCHANGED vars
  BY <1>6 DEF vars
<1> QED
  BY <1>1, <1>2, <1>3, <1>4, <1>5, <1>6 DEF Next, StopsAll, Starting

\* SuccessClearsBackoff: after a success no retry is pending and the delay is the
\* initial one, whatever failed before and whichever timer or event fired.
THEOREM SuccessForgetsFailures == Spec => []SuccessClearsBackoff
<1>1. Init => SuccessClearsBackoff
  BY DEF Init, SuccessClearsBackoff, Live
<1> QED
  BY <1>1, TypeInit, TypeStep, BackoffStep, PTL DEF Spec
=============================================================================
