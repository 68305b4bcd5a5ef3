---------------------------- MODULE MCSyncRunner ----------------------------
EXTENDS SyncRunner

CONSTANTS r1, r2, t1, t2

MCInit ==
    /\ Init
    /\ \A r \in Rels \ {r1} : rel[r] = "on" /\ r \in connected

Of(t, r) == task[t] # None /\ task[t].rel = r

\* Clients handle r1 in every way, and pause and resume everything, so that r2 is there to
\* be stopped with r1 and started again; its loop has no errors and no events.  Bounds: one
\* stop_all at a time, which is dropped only when live loops of r1 alone are left to it, and
\* no start is asked for that would be the second one pending.
MCNext ==
    \/ StopAll /\ stopping = {}
    \/ \E S \in stopping :
        \/ StopAllDropped(S) /\ \A t \in S : Of(t, r1)
        \/ \E t \in S : StopAllNext(S, t)
    \/ Handler(r1) /\ Cardinality(toStart') < 2
    \/ \E r \in Rels : AskStart(r) /\ toStart = {}
    \/ \E r \in Rels : Starting(r) \/ Stop(r) \/ ManualDone(r)
    \/ \E t \in Tasks :
        \/ Acquire(t)
        \/ SyncOk(t)
        \/ SyncReturns(t) /\ Of(t, r1)
        \/ Event(t) /\ Of(t, r1)
        \/ FilteredEvent(t) /\ Of(t, r1)
        \/ Sleep(t)
        \/ Retry(t)
        \/ Periodic(t)
        \/ AbortEnds(t)

MCSpec == MCInit /\ [][MCNext]_vars /\ Fairness
=============================================================================
