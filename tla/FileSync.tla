------------------------------ MODULE FileSync ------------------------------
(***************************************************************************)
(* A bidirectional relationship: the passes of PullSync and PushSync on    *)
(* the same folder, remote tree and records.  The execution guard admits   *)
(* one job at a time: sync_relationship, which pulls and then pushes; a    *)
(* pull for an event of the remote; a push for a change of the folder.     *)
(***************************************************************************)
EXTENDS SyncState

CONSTANTS NumChunks, Chunks, DeleteRemoteToLocal, Refusable, Oversized,
          DeleteLocalToRemote

\* What PushSync and PullSync assume of theirs.
ASSUME RefusableFiles  == Refusable \subseteq Files
ASSUME OversizedType   == Oversized \subseteq Contents
ASSUME ChunkCount      == NumChunks \in Nat \ {0}
ASSUME ContentIsChunks == Contents = [1..NumChunks -> Chunks]
ASSUME DeleteFlags     == DeleteRemoteToLocal \in BOOLEAN /\ DeleteLocalToRemote \in BOOLEAN

VARIABLES
    pushAt, mode, todo, walked, seen, queue, batch, pend, succ, unacked, gone, unreadable,
    forbidden,
    ckpt, pullAt, root, wanted, plan, fetched, cur, doomed, brought, stray, touched, raced,
    job,        \* what holds the execution guard
    restored    \* history: put back by another client to what the checkpoint says

Push == INSTANCE PushSync
Pull == INSTANCE PullSync

pushVars == <<pushAt, mode, todo, walked, seen, queue, batch, pend, succ,
              unacked, gone, unreadable, forbidden>>
pullVars == <<ckpt, pullAt, root, wanted, plan, fetched, cur, doomed, brought,
              stray, touched, raced>>
vars     == <<worldVars, pushVars, pullVars, job, restored>>

Jobs == {"none", "both", "next", "pull", "push"}

TypeOK ==
    /\ Push!TypeOK
    /\ Pull!TypeOK
    /\ job \in Jobs
    /\ restored \subseteq Files

\* A folder and a remote tree that were never synchronised.
Init ==
    /\ Pull!Init
    /\ Push!PushInit
    /\ job = "none"
    /\ restored = {}

-----------------------------------------------------------------------------
(* sync_relationship: the pull, and if it returns no error the push. *)

SyncBegin ==
    /\ job = "none"
    /\ job' = "both"
    /\ Pull!PullStart
    /\ UNCHANGED <<pushVars, restored>>

\* sync_relationship goes on with the push.
SyncContinue(m) ==
    /\ job = "next"
    /\ job' = "push"
    /\ Push!PushStart(m)
    /\ UNCHANGED <<pullVars, restored>>

\* An event of the remote: a pull alone.
PullBegin ==
    /\ job = "none"
    /\ job' = "pull"
    /\ Pull!PullStart
    /\ UNCHANGED <<pushVars, restored>>

\* A change of the folder: a lite push alone.
PushBegin ==
    /\ job = "none"
    /\ job' = "push"
    /\ Push!PushStart("lite")
    /\ UNCHANGED <<pullVars, restored>>

\* Mutant of PullGoesOn: the cycle ends with the pull.
PullEndsJob ==
    /\ pullAt # "idle"
    /\ Pull!PullStep
    /\ job' = IF pullAt' # "idle" THEN job ELSE "none"
    /\ UNCHANGED <<pushVars, restored>>

PullGoesOn ==
    /\ pullAt # "idle"
    /\ Pull!PullStep
    /\ job' = IF pullAt' # "idle" THEN job ELSE IF job = "both" THEN "next" ELSE "none"
    /\ UNCHANGED <<pushVars, restored>>

PushGoesOn ==
    /\ pushAt # "idle"
    /\ Push!PushStep
    /\ job' = IF pushAt' # "idle" THEN job ELSE "none"
    /\ UNCHANGED <<pullVars, restored>>

\* Whatever ends a pass early ends the job: the guard is released.
Abort ==
    /\ job' = "none"
    /\ \/ Pull!PullAbort /\ UNCHANGED pushVars
       \/ Push!PushAbort /\ UNCHANGED pullVars
    /\ UNCHANGED restored

-----------------------------------------------------------------------------
UserWrite(f, c) ==
    /\ Push!UserWrite(f, c)
    /\ Pull!UserWrite(f, c)
    /\ UNCHANGED <<job, restored>>

UserDelete(f) ==
    /\ Push!UserDelete(f)
    /\ Pull!UserDelete(f)
    /\ UNCHANGED <<job, restored>>

RemoteChange(f, c) ==
    /\ Pull!RemoteChange(f, c)
    /\ restored' = IF ckpt # None /\ ckpt[f] = c THEN restored \cup {f} ELSE restored
    /\ UNCHANGED <<pushVars, job>>

\* Force Sync takes the guard, clears the checkpoint and runs the cycle at once.
ForceSync ==
    /\ job = "none"
    /\ Pull!ForceSync
    /\ UNCHANGED <<pushVars, job, restored>>

SetFilter(S) ==
    /\ job = "none"
    /\ FilterChange(S)
    /\ UNCHANGED <<pushVars, pullVars, job, restored>>

SetChildren(t) ==
    /\ job = "none"
    /\ ChildrenChange(t)
    /\ UNCHANGED <<pushVars, pullVars, job, restored>>

Engine ==
    \/ SyncBegin
    \/ PullBegin
    \/ PushBegin
    \/ \E m \in Push!Modes : SyncContinue(m)
    \/ PullGoesOn
    \/ PushGoesOn

Next ==
    \/ Engine
    \/ Abort
    \/ ForceSync
    \/ \E f \in Files : UserDelete(f)
    \/ \E f \in Files, c \in Contents : UserWrite(f, c)
    \/ \E f \in Files, c \in Contents \cup {None} : RemoteChange(f, c)
    \/ \E S \in SUBSET Files : SetFilter(S)
    \/ \E t \in Territories : SetChildren(t)

Spec == Init /\ [][Next]_vars

\* The periodic safety net keeps starting full cycles, and a job that is not
\* aborted runs to its end.
FairSpec ==
    /\ Spec
    /\ WF_vars(PullGoesOn) /\ WF_vars(PushGoesOn)
    /\ WF_vars(\E m \in Push!Modes : SyncContinue(m))
    /\ SF_vars(SyncBegin)

-----------------------------------------------------------------------------
(* Properties. *)

\* Equal size and mtime still mean equal content when both directions write
\* records and the puller writes files.
LiteSkipSound == Pull!LiteSkipSound

\* A change pushed after the checkpoint and undone by another client before the next
\* pull: the diff against the checkpoint does not show it.
Unnoticed(f) == f \in restored /\ ckpt # None /\ ckpt[f] = remote[f]

\* Once users, other clients and faults are done, the two sides agree on every file
\* that the filter matches and no child owns, unless a fault left it in one of the
\* states that no later pass repairs.
BothSidesAgree ==
    <>[](\A f \in included \ (forbidden \cup stray \cup raced \cup child.local \cup child.remote) :
            Push!Shadowed(f) \/ Unnoticed(f) \/ remote[f] = DataOf(local[f]))

-----------------------------------------------------------------------------
\* plan/sync-engine.yaml, conflict_detector: a file changed on both sides since the
\* last synchronisation is paused, "Do NOT sync either direction".
UnsyncedEditsKept ==
    [][\A f \in Files :
        Pull!PullAssemble(f) /\ local[f] # None /\ meta[f] # None =>
            local[f].data \in {meta[f].data, root[f]} \/ root[f] = meta[f].data]_vars
=============================================================================
