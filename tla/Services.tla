------------------------------ MODULE Services ------------------------------
(***************************************************************************)
(* The services around the synchronisation: the configuration and its      *)
(* background tasks, the requests and their tokens, the activity log, the  *)
(* self-update, the events that wake the loops, and the migration of paths.*)
(* They share no state that the models keep, so a behaviour runs one of    *)
(* them and leaves the others as they started.                             *)
(***************************************************************************)
EXTENDS Configuration, Credentials, ActivityLog, Updater, EventFlow, PathMigration

CONSTANT Bound      \* service -> the events from outside in its behaviours

Parts == {"configuration", "requests", "activity", "update", "events", "migration"}

ASSUME BoundAssumption == Bound \in [Parts -> 0..MaxEvents]

VARIABLE part       \* the service that runs

allVars == <<part, spare, confVars, credVars, logVars, updateVars, flowVars, moveVars>>

TypeOK ==
    /\ part \in Parts
    /\ spare \in 0..MaxEvents
    /\ ConfTypeOK /\ CredTypeOK /\ LogTypeOK /\ UpdateTypeOK /\ FlowTypeOK /\ MoveTypeOK

Init ==
    /\ part \in Parts
    /\ spare = Bound[part]
    /\ ConfInit /\ CredInit /\ LogInit /\ UpdateInit /\ FlowInit /\ MoveInit

moveOwn == <<local, storeVars, passVars, unacked, confirmed, exposed>>

\* Service p is the one that runs, and the variables of the others stay.
Only(p) ==
    /\ part = p /\ UNCHANGED part
    /\ IF p = "configuration" THEN TRUE ELSE UNCHANGED confVars
    /\ IF p = "requests"      THEN TRUE ELSE UNCHANGED credVars
    /\ IF p = "activity"      THEN TRUE ELSE UNCHANGED logVars
    /\ IF p = "update"        THEN TRUE ELSE UNCHANGED updateVars
    /\ IF p = "events"        THEN TRUE ELSE UNCHANGED flowVars
    /\ IF p = "migration"     THEN TRUE ELSE UNCHANGED moveOwn

Next ==
    \/ Only("configuration") /\ ConfNext
    \/ Only("requests")      /\ CredNext
    \/ Only("activity")      /\ LogNext
    \/ Only("update")        /\ UpdateNext
    \/ Only("events")        /\ FlowNext
    \/ Only("migration")     /\ MoveNext

\* What the tasks of a service do by themselves, they do in the end.  As only one
\* service runs, one formula states the fairness of a task of each of them.
Tasks ==
    \/ Only("configuration") /\ PingStep
    \/ Only("update")        /\ UpdateStep
    \/ Only("events")        /\ WatchStep
    \/ Only("migration")     /\ PassStep

Fairness ==
    /\ WF_allVars(Tasks)
    /\ WF_allVars(Only("events") /\ LoopStep)
    /\ WF_allVars(Only("events") /\ ListenStep)
    /\ \A q \in Reqs : WF_allVars(Only("requests") /\ Proceed(q))

Spec == Init /\ [][Next]_allVars /\ Fairness
=============================================================================
