----------------------------- MODULE SyncRunner -----------------------------
(***************************************************************************)
(* SyncRunner: the map of running sync loops, the loops, the per           *)
(* relationship execution guard, and the HTTP handlers that start and stop *)
(* loops or run one synchronisation by hand.                               *)
(*                                                                         *)
(* A handler that changes the configuration and then the runner does it in *)
(* two steps, and other handlers run between them: the second step is      *)
(* kept in toStart or toStop.  start and stop hold the lock of the map, so *)
(* each is one step; stop waits for the aborted task only for a while, so  *)
(* a task can outlive it.  stop_all empties the map, gives up the lock and *)
(* then aborts the loops one by one, waiting for each: meanwhile the rest  *)
(* run on, start can start a second one, and the server may drop the       *)
(* handler.  A handler that is dropped between its two steps has done what *)
(* Patch does, or nothing.                                                 *)
(***************************************************************************)
EXTENDS Naturals, FiniteSets

CONSTANTS
    Rels,           \* sync relationships
    Tasks,          \* identities of spawned loops
    None,           \* nothing
    Api,            \* the holder of a guard taken by a handler
    InitialDelay,   \* TRANSIENT_SYNC_RETRY_INITIAL_DELAY
    MaxDelay,       \* TRANSIENT_SYNC_RETRY_MAX_DELAY
    Interval,       \* the safety-net interval, in ticks of a sleeping loop
    MaxEvents,      \* bound: watcher and SSE events
    EventStorm      \* TRUE: events that the filter drops never end

ASSUME FreshNames == /\ None \notin Tasks \cup Rels
                     /\ Api \notin Tasks \cup {None}
ASSUME DelayRange == /\ InitialDelay \in Nat \ {0}
                     /\ MaxDelay \in Nat
                     /\ InitialDelay <= MaxDelay
ASSUME IntervalPositive == Interval \in Nat \ {0}
ASSUME EventBounds == MaxEvents \in Nat /\ EventStorm \in BOOLEAN

VARIABLES
    rel,        \* the configured relationships: "on", "off" or "gone"
    connected,  \* those whose connection is configured
    running,    \* the map of running loops: Rels -> Tasks or None
    task,       \* the spawned loops: Tasks -> Loop or None
    aborting,   \* loops aborted and not yet ended
    guard,      \* who holds the execution guard
    toStart,    \* handlers about to call start
    toStop,     \* handlers about to call stop
    stopping,   \* the calls of stop_all under way: the loops each has yet to abort
    deserted,   \* history: loops that a dropped call of stop_all left out of the map
    events      \* history: events so far

stops == <<stopping, deserted>>

vars == <<rel, connected, running, task, aborting, guard, toStart, toStop, stops, events>>

Loop == [rel   : Rels,
         at    : {"wait", "sync", "loop"},        \* for the guard, holding it, in select!
         armed : BOOLEAN,                         \* transient_retry_armed
         delay : InitialDelay..MaxDelay,          \* transient_retry_delay
         slept : 0..Interval,                     \* of the safety-net sleep
         ok    : BOOLEAN]                         \* history: the last synchronisation returned Ok

TypeOK ==
    /\ rel \in [Rels -> {"on", "off", "gone"}]
    /\ connected \subseteq Rels
    /\ running \in [Rels -> Tasks \cup {None}]
    /\ task \in [Tasks -> Loop \cup {None}]
    /\ aborting \subseteq Tasks
    /\ guard \in [Rels -> Tasks \cup {Api, None}]
    /\ toStart \subseteq Rels
    /\ toStop \subseteq Rels
    /\ stopping \subseteq SUBSET Tasks
    /\ deserted \subseteq Tasks
    /\ events \in Nat

\* The program has just started; the enabled relationships are about to be.  The
\* connection of one may be missing: deleted while the relationship was being created.
Init ==
    /\ rel \in [Rels -> {"on", "off"}]
    /\ connected \in SUBSET Rels
    /\ running = [r \in Rels |-> None]
    /\ task = [t \in Tasks |-> None]
    /\ aborting = {}
    /\ guard = [r \in Rels |-> None]
    /\ toStart = {r \in Rels : rel[r] = "on"}
    /\ toStop = {}
    /\ stopping = {}
    /\ deserted = {}
    /\ events = 0

\* Loops in execution that nobody has aborted.
Live(t) == task[t] # None /\ t \notin aborting

-----------------------------------------------------------------------------
(* Handlers: what they change in the configuration, and what they call next. *)

Enable(r) ==
    /\ rel[r] # "gone"
    /\ rel' = [rel EXCEPT ![r] = "on"]
    /\ toStart' = toStart \cup {r}
    /\ UNCHANGED <<connected, running, task, aborting, guard, toStop, stops, events>>

Disable(r) ==
    /\ rel[r] # "gone"
    /\ rel' = [rel EXCEPT ![r] = "off"]
    /\ toStop' = toStop \cup {r}
    /\ UNCHANGED <<connected, running, task, aborting, guard, toStart, stops, events>>

\* PATCH of the "enabled" field: the runner is not told.
Patch(r, v) ==
    /\ rel[r] # "gone"
    /\ rel' = [rel EXCEPT ![r] = v]
    /\ UNCHANGED <<connected, running, task, aborting, guard, toStart, toStop, stops, events>>

\* The runner is not told either.
Delete(r) ==
    /\ rel[r] # "gone"
    /\ rel' = [rel EXCEPT ![r] = "gone"]
    /\ UNCHANGED <<connected, running, task, aborting, guard, toStart, toStop, stops, events>>

\* A connection can only be deleted when no relationship is configured against it.
DeleteConnection(r) ==
    /\ rel[r] = "gone"
    /\ connected' = connected \ {r}
    /\ UNCHANGED <<rel, running, task, aborting, guard, toStart, toStop, stops, events>>

\* POST start, and resume_all for the enabled ones.
AskStart(r) ==
    /\ toStart' = toStart \cup {r}
    /\ UNCHANGED <<rel, connected, running, task, aborting, guard, toStop, stops, events>>

\* POST stop.
AskStop(r) ==
    /\ toStop' = toStop \cup {r}
    /\ UNCHANGED <<rel, connected, running, task, aborting, guard, toStart, stops, events>>

-----------------------------------------------------------------------------
(* start and stop. *)

NewLoop(r) ==
    [rel |-> r, at |-> "wait", armed |-> FALSE, delay |-> InitialDelay, slept |-> 0, ok |-> FALSE]

Start(r, t) ==
    /\ r \in toStart
    /\ toStart' = toStart \ {r}
    /\ running[r] = None
    /\ rel[r] = "on"
    /\ r \in connected
    /\ task[t] = None
    /\ \A q \in Rels : running[q] # t
    /\ \A S \in stopping : t \notin S
    /\ running' = [running EXCEPT ![r] = t]
    /\ task' = [task EXCEPT ![t] = NewLoop(r)]
    /\ deserted' = deserted \ {t}
    /\ UNCHANGED <<rel, connected, aborting, guard, toStop, stopping, events>>

\* An error, which the handlers only log.
StartRefused(r) ==
    /\ r \in toStart
    /\ \/ running[r] # None
       \/ rel[r] # "on"
       \/ r \notin connected
    /\ toStart' = toStart \ {r}
    /\ UNCHANGED <<rel, connected, running, task, aborting, guard, toStop, stops, events>>

\* What removing the entries of the relationships S does: their tasks are aborted.
Stopped(S) ==
    /\ running' = [r \in Rels |-> IF r \in S THEN None ELSE running[r]]
    /\ aborting' = aborting \cup {t \in Tasks : task[t] # None /\ \E r \in S : running[r] = t}

Stop(r) ==
    /\ r \in toStop
    /\ toStop' = toStop \ {r}
    /\ Stopped({r})
    /\ UNCHANGED <<rel, connected, task, guard, toStart, stops, events>>

\* stop_all takes every entry out of the map, and gives up the lock of the map.
StopAll ==
    /\ running' = [r \in Rels |-> None]
    /\ stopping' = stopping \cup ({{t \in Tasks : \E r \in Rels : running[r] = t}} \ {{}})
    /\ UNCHANGED <<rel, connected, task, aborting, guard, toStart, toStop, deserted, events>>

\* Mutant of StopAllNext: the first loop to abort is the only one.
StopAllFirst(S, t) ==
    /\ aborting' = IF task[t] = None THEN aborting ELSE aborting \cup {t}
    /\ stopping' = stopping \ {S}
    /\ UNCHANGED <<rel, connected, running, task, guard, toStart, toStop, deserted, events>>

\* It aborts the next of them, in no particular order: the loop before has ended, or has
\* been waited for long enough.
StopAllNext(S, t) ==
    /\ aborting' = IF task[t] = None THEN aborting ELSE aborting \cup {t}
    /\ stopping' = (stopping \ {S}) \cup ({S \ {t}} \ {{}})
    /\ UNCHANGED <<rel, connected, running, task, guard, toStart, toStop, deserted, events>>

\* The client of the pausing handler goes away while it waits for a loop: the handles
\* of the others are dropped, which leaves the loops running.
StopAllDropped(S) ==
    /\ stopping' = stopping \ {S}
    /\ deserted' = deserted \cup {t \in S : task[t] # None}
    /\ UNCHANGED <<rel, connected, running, task, aborting, guard, toStart, toStop, events>>

\* A change of paths stops the loop before it writes the configuration, and
\* starts it again afterwards.
Repath(r) ==
    /\ rel[r] # "gone"
    /\ Stopped({r})
    /\ toStart' = toStart \cup {r}
    /\ UNCHANGED <<rel, connected, task, guard, toStop, stops, events>>

\* Mutant of Released: the guard is freed whoever holds it.
ReleasedAll(t) == [r \in Rels |-> None]

Released(t) == [r \in Rels |-> IF guard[r] = t THEN None ELSE guard[r]]

\* The abort takes effect; the guard is dropped with the task.
AbortEnds(t) ==
    /\ t \in aborting
    /\ aborting' = aborting \ {t}
    /\ task' = [task EXCEPT ![t] = None]
    /\ guard' = Released(t)
    /\ UNCHANGED <<rel, connected, running, toStart, toStop, stops, events>>

-----------------------------------------------------------------------------
(* run_sync, by hand: it takes the guard if it is free, or gives up. *)

ManualSync(r) ==
    /\ rel[r] = "on"
    /\ guard[r] = None
    /\ guard' = [guard EXCEPT ![r] = Api]
    /\ UNCHANGED <<rel, connected, running, task, aborting, toStart, toStop, stops, events>>

ManualDone(r) ==
    /\ guard[r] = Api
    /\ guard' = [guard EXCEPT ![r] = None]
    /\ UNCHANGED <<rel, connected, running, task, aborting, toStart, toStop, stops, events>>

-----------------------------------------------------------------------------
(* run_sync_loop. *)

\* The loop t stands where it may go on.
At(t, where) == Live(t) /\ task[t].at = where

Acquire(t) ==
    /\ At(t, "wait")
    /\ guard[task[t].rel] = None
    /\ guard' = [guard EXCEPT ![task[t].rel] = t]
    /\ task' = [task EXCEPT ![t].at = "sync"]
    /\ UNCHANGED <<rel, connected, running, aborting, toStart, toStop, stops, events>>

\* The synchronisation returns, and the loop waits in a new select!.
Returns(t, armed, delay, ok) ==
    /\ At(t, "sync")
    /\ task' = [task EXCEPT ![t] = [task[t] EXCEPT !.at = "loop", !.slept = 0, !.ok = ok,
                                                   !.armed = armed, !.delay = delay]]
    /\ guard' = Released(t)
    /\ UNCHANGED <<rel, connected, running, aborting, toStart, toStop, stops, events>>

\* Mutant of SyncOk: the delay is not reset.
SyncOkSlow(t) == Returns(t, FALSE, task[t].delay, TRUE)

SyncOk(t) == Returns(t, FALSE, InitialDelay, TRUE)

\* Mutant of Capped: no maximal delay.
Uncapped(d) == d

Capped(d) == IF d < MaxDelay THEN d ELSE MaxDelay

\* A transient error arms the retry timer and doubles the next delay.
SyncTransient(t) == Returns(t, TRUE, Capped(2 * Capped(task[t].delay)), FALSE)

\* Any other error leaves the retry as it was.
SyncFails(t) == Returns(t, task[t].armed, task[t].delay, FALSE)

\* A change of the folder or of the remote that the loop acts upon.
Event(t) ==
    /\ At(t, "loop")
    /\ events < MaxEvents
    /\ events' = events + 1
    /\ task' = [task EXCEPT ![t].at = "wait"]
    /\ UNCHANGED <<rel, connected, running, aborting, guard, toStart, toStop, stops>>

\* A change of a file that the filter leaves out: continue, to a new select!
\* with a new sleep.
FilteredEvent(t) ==
    /\ At(t, "loop")
    /\ \/ EventStorm /\ UNCHANGED events
       \/ events < MaxEvents /\ events' = events + 1
    /\ task' = [task EXCEPT ![t].slept = 0]
    /\ UNCHANGED <<rel, connected, running, aborting, guard, toStart, toStop, stops>>

\* Time passes for the safety-net sleep.
Sleep(t) ==
    /\ At(t, "loop")
    /\ task[t].slept < Interval
    /\ task' = [task EXCEPT ![t].slept = @ + 1]
    /\ UNCHANGED <<rel, connected, running, aborting, guard, toStart, toStop, stops, events>>

\* Mutant of Recheck: only the connection is checked.
RecheckConnection(t, armed) ==
    /\ task' = [task EXCEPT ![t].armed = armed, ![t].slept = 0,
                            ![t].at = IF task[t].rel \in connected THEN "wait" ELSE "loop"]
    /\ UNCHANGED <<rel, connected, running, aborting, guard, toStart, toStop, stops, events>>

\* Both timers read the configuration again.  Disabled or deleted: the loop ends,
\* and its entry stays in the map.  No connection: to a new select!.
Recheck(t, armed) ==
    /\ LET r == task[t].rel
           next == [task[t] EXCEPT !.armed = armed, !.slept = 0,
                                   !.at = IF r \in connected THEN "wait" ELSE "loop"]
       IN task' = [task EXCEPT ![t] = IF rel[r] = "on" THEN next ELSE None]
    /\ UNCHANGED <<rel, connected, running, aborting, guard, toStart, toStop, stops, events>>

Retry(t) ==
    /\ At(t, "loop")
    /\ task[t].armed
    /\ Recheck(t, FALSE)

\* Mutant of Periodic: the safety net only serves retries.
PeriodicIfArmed(t) ==
    /\ At(t, "loop")
    /\ task[t].slept = Interval
    /\ task[t].armed
    /\ Recheck(t, TRUE)

Periodic(t) ==
    /\ At(t, "loop")
    /\ task[t].slept = Interval
    /\ Recheck(t, task[t].armed)

-----------------------------------------------------------------------------
Handler(r) ==
    \/ Enable(r)
    \/ Disable(r)
    \/ Patch(r, "on")
    \/ Patch(r, "off")
    \/ Delete(r)
    \/ DeleteConnection(r)
    \/ AskStart(r)
    \/ AskStop(r)
    \/ Repath(r)
    \/ ManualSync(r)

Starting(r) == (\E t \in Tasks : Start(r, t)) \/ StartRefused(r)

SyncReturns(t) == SyncOk(t) \/ SyncTransient(t) \/ SyncFails(t)

Next ==
    \/ StopAll
    \/ \E S \in stopping : StopAllDropped(S) \/ \E t \in S : StopAllNext(S, t)
    \/ \E r \in Rels : Handler(r) \/ Starting(r) \/ Stop(r) \/ ManualDone(r)
    \/ \E t \in Tasks :
        \/ Acquire(t)
        \/ SyncReturns(t)
        \/ Event(t)
        \/ FilteredEvent(t)
        \/ Sleep(t)
        \/ Retry(t)
        \/ Periodic(t)
        \/ AbortEnds(t)

Spec == Init /\ [][Next]_vars

\* Handlers and loops are polled, a synchronisation returns, time passes, and the
\* guard is a fair queue.
Fairness ==
    /\ \A r \in Rels : WF_vars(Starting(r)) /\ WF_vars(Stop(r)) /\ WF_vars(ManualDone(r))
    /\ \A t \in Tasks : /\ WF_vars(SyncReturns(t))
                         /\ WF_vars(Sleep(t))
                         /\ WF_vars(Periodic(t))
                         /\ WF_vars(AbortEnds(t))
                         /\ SF_vars(Acquire(t))

FairSpec == Spec /\ Fairness

-----------------------------------------------------------------------------
(* Properties. *)

\* Who is inside a synchronisation of r: loops, aborted ones included, and handlers.
Inside(r) == {t \in Tasks : task[t] # None /\ task[t].rel = r /\ task[t].at = "sync"}
             \cup (IF guard[r] = Api THEN {Api} ELSE {})

\* The execution guard: no two synchronisations of a relationship at once, though
\* a stopped loop may still be in one when its successor starts.
OneSyncAtATime ==
    \A r \in Rels : \A p, q \in Inside(r) : p = q

\* Every loop that nobody aborted is in the map under its relationship, where stop and
\* stop_all reach it, or a stop_all under way has yet to abort it; so a relationship has
\* at most one beside those.  Excepted are the loops of a stop_all that was dropped:
\* nothing reaches them again.
NoOrphanLoop ==
    \A t \in Tasks \ deserted :
        Live(t) => running[task[t].rel] = t \/ \E S \in stopping : t \in S

\* No retry is pending and no delay has grown after a success.
SuccessClearsBackoff ==
    \A t \in Tasks : Live(t) /\ task[t].ok => ~task[t].armed /\ task[t].delay = InitialDelay

\* A relationship that stays disabled or deleted is left by its loop, whether or not
\* somebody stops it, once events no longer restart the sleep.
DisabledLoopEnds ==
    \A r \in Rels :
        <>[](rel[r] # "on") => <>[](\A t \in Tasks : task[t] = None \/ task[t].rel # r)

\* The safety net: a loop that stays alive synchronises again and again, without any
\* event, as long as its relationship is enabled.
SafetyNetRuns ==
    \A t \in Tasks :
        <>[](Live(t) /\ rel[task[t].rel] = "on")
            => []<>(task[t] # None /\ task[t].at = "sync")

-----------------------------------------------------------------------------
(* Claims of the sources that the code does not keep. *)

\* SyncRunner: "Tracks running sync tasks for each relationship."  Not even apart from
\* the relationships that a handler is about to stop.
TrackedTasksRun ==
    \A r \in Rels : running[r] # None /\ r \notin toStop => task[running[r]] # None
=============================================================================
