------------------------------ MODULE PullSync ------------------------------
(***************************************************************************)
(* pull_sync: one pass that brings the changes of the remote tree into the *)
(* local folder.  A pass asks for the difference between the checkpointed  *)
(* root and the present one, hashes the chunks of the local files it is    *)
(* about to replace, fetches the other chunks, assembles each file from    *)
(* both, removes what was deleted remotely, and stores the new root as the *)
(* checkpoint whether or not every file was brought.                       *)
(*                                                                         *)
(* A content is a sequence of NumChunks chunks.  The root hash of the      *)
(* remote tree is content addressed, so a root is the tree itself.         *)
(***************************************************************************)
EXTENDS SyncState

CONSTANTS
    NumChunks,            \* chunks in a file
    Chunks,               \* the chunks there are, identified with their hashes
    DeleteRemoteToLocal   \* delete_propagation.remote_to_local

ASSUME ChunkCount      == NumChunks \in Nat \ {0}
ASSUME ContentIsChunks == Contents = [1..NumChunks -> Chunks]
ASSUME RemoteFlag      == DeleteRemoteToLocal \in BOOLEAN

VARIABLES
    ckpt,       \* remote_root_hash of the stored checkpoint, or None
    pullAt,     \* where the pass is
    root,       \* root_hash of the diff being applied
    wanted,     \* files_added and files_modified still to be brought
    plan,       \* local_chunks: the content a wanted file had when it was planned
    fetched,    \* the chunks got from the remote
    cur,        \* the file just renamed into place, and the content assembled
    doomed,     \* files_deleted still to be removed
    brought,    \* history: brought or removed, and recorded, in this pass
    stray,      \* history: where the last pass left something the checkpoint does not say
    touched,    \* history: not as the engine last wrote it, or never written by it
    raced       \* history: changed between the rename and the reading of its mtime

jobVars   == <<pullAt, root, wanted, plan, fetched, cur, doomed, brought>>
pullVars  == <<ckpt, jobVars, stray, touched, raced>>
vars      == <<worldVars, pullVars>>

Tree == [Files -> Contents \cup {None}]

TypeOK ==
    /\ WorldTypeOK
    /\ ckpt \in Tree \cup {None}
    /\ pullAt \in {"idle", "fetch", "assemble", "record", "remove"}
    /\ root \in Tree
    /\ wanted \subseteq Files
    /\ plan \in Tree
    /\ fetched \subseteq Chunks
    /\ cur \in [file : Files, data : Contents] \cup {None}
    /\ doomed \subseteq Files
    /\ brought \subseteq Files
    /\ stray \subseteq Files
    /\ touched \subseteq Files
    /\ raced \subseteq Files

PullInit ==
    /\ ckpt = None
    /\ pullAt = "idle"
    /\ root = Empty /\ plan = Empty
    /\ wanted = {} /\ doomed = {} /\ brought = {} /\ fetched = {}
    /\ cur = None
    /\ stray = {} /\ touched = Present(local) /\ raced = {}

\* A new relationship: a remote tree, a folder that may hold files already.
Init ==
    /\ clock = 1
    /\ local \in [Files -> {[data |-> c, mtime |-> 1] : c \in Contents} \cup {None}]
    /\ remote \in Tree
    /\ meta = Empty
    /\ included = Files
    /\ child \in Territories
    /\ faults = 0
    /\ PullInit

-----------------------------------------------------------------------------
(* The environment. *)

UserWrite(f, c) ==
    /\ LocalWrite(f, c)
    /\ touched' = touched \cup {f}
    /\ raced' = raced \ {f}
    /\ UNCHANGED <<ckpt, jobVars, stray>>

UserDelete(f) ==
    /\ LocalRemove(f)
    /\ touched' = touched \cup {f}
    /\ UNCHANGED <<ckpt, jobVars, stray, raced>>

\* Another client of the remote.
RemoteChange(f, c) ==
    /\ clock < MaxClock
    /\ clock' = clock + 1
    /\ remote[f] # c
    /\ remote' = [remote EXCEPT ![f] = c]
    /\ UNCHANGED <<local, meta, included, child, faults, pullVars>>

\* A pass works on the filter and the relationships it was started with.
SetFilter(S) ==
    /\ pullAt = "idle"
    /\ FilterChange(S)
    /\ UNCHANGED pullVars

SetChildren(t) ==
    /\ pullAt = "idle"
    /\ ChildrenChange(t)
    /\ UNCHANGED pullVars

\* Force Sync clears the checkpoint before the pass: everything is asked for anew.
ForceSync ==
    /\ pullAt = "idle"
    /\ ckpt # None
    /\ Fault
    /\ ckpt' = None
    /\ UNCHANGED <<treeVars, included, child, jobVars, stray, touched, raced>>

-----------------------------------------------------------------------------
(* The pass. *)

\* Mutant of DiffChanged: modified files are left out.
DiffAdded(since, now) == {f \in Present(now) : since = None \/ since[f] = None}

\* What the remote answers to /sync/diff; without a checkpoint no deletion is known.
DiffChanged(since, now) ==
    {f \in Present(now) : since = None \/ since[f] # now[f]}
DiffDeleted(since, now) ==
    IF since = None THEN {} ELSE Present(since) \ Present(now)

PullStart ==
    /\ pullAt = "idle"
    /\ pullAt' = "fetch"
    /\ root' = remote
    /\ wanted' = (DiffChanged(ckpt, remote) \ child.remote) \cap included
    /\ doomed' = IF DeleteRemoteToLocal THEN DiffDeleted(ckpt, remote) \ child.remote ELSE {}
    /\ plan' = [f \in Files |-> IF f \in wanted' THEN DataOf(local[f]) ELSE None]
    /\ UNCHANGED <<worldVars, ckpt, fetched, cur, brought, stray, touched, raced>>

ChunksOf(c) == IF c = None THEN {} ELSE {c[i] : i \in 1..NumChunks}

\* The chunks of a wanted file that its local copy did not hold.
Needed(f) == ChunksOf(root[f]) \ ChunksOf(plan[f])

PullFetch ==
    /\ pullAt = "fetch"
    /\ pullAt' = "assemble"
    /\ fetched' = UNION {Needed(f) : f \in wanted}
    /\ UNCHANGED <<worldVars, ckpt, root, wanted, plan, cur, doomed, brought,
                   stray, touched, raced>>

\* One failing batch fails every wanted file; the pass goes on.
PullFetchFail ==
    /\ pullAt = "fetch"
    /\ Fault
    /\ pullAt' = "remove"
    /\ wanted' = {}
    /\ UNCHANGED <<treeVars, included, child, ckpt, root, plan, fetched, cur, doomed,
                   brought, stray, touched, raced>>

\* Where the local copy, as planned, held the chunk: the last such place.
OffsetOf(h, c) == CHOOSE i \in 1..NumChunks :
    c[i] = h /\ \A j \in 1..NumChunks : c[j] = h => j <= i

Reused(f) == {i \in 1..NumChunks : root[f][i] \in ChunksOf(plan[f])}

\* Mutant of Assembled: the places of reused chunks stay empty.
AssembledWithHoles(f) ==
    [i \in 1..NumChunks |-> IF i \in Reused(f) THEN None ELSE root[f][i]]

\* A reused chunk is read from the file as it is now, at the planned place.
Assembled(f) ==
    [i \in 1..NumChunks |->
        IF i \in Reused(f) THEN local[f].data[OffsetOf(root[f][i], plan[f])]
                           ELSE root[f][i]]

PullAssemble(f) ==
    /\ pullAt = "assemble"
    /\ f \in wanted
    /\ local[f] # None \/ Reused(f) = {}
    /\ \A i \in (1..NumChunks) \ Reused(f) : root[f][i] \in fetched
    /\ pullAt' = "record"
    /\ clock' = clock + 1
    /\ cur' = [file |-> f, data |-> Assembled(f)]
    /\ local' = [local EXCEPT ![f] = [data |-> Assembled(f), mtime |-> clock + 1]]
    /\ wanted' = wanted \ {f}
    /\ stray' = stray \cup {f}
    /\ touched' = IF Assembled(f) = root[f] THEN touched \ {f} ELSE touched \cup {f}
    /\ raced' = raced \ {f}
    /\ UNCHANGED <<remote, meta, included, child, faults, ckpt, root, plan, fetched,
                   doomed, brought>>

\* The local file to reuse is gone, or reading, writing or renaming fails.
PullAssembleFail(f) ==
    /\ pullAt = "assemble"
    /\ f \in wanted
    /\ \/ local[f] = None /\ Reused(f) # {} /\ UNCHANGED faults
       \/ Fault
    /\ wanted' = wanted \ {f}
    /\ UNCHANGED <<treeVars, included, child, ckpt, pullAt, root, plan, fetched, cur,
                   doomed, brought, stray, touched, raced>>

MtimeNow(f) == IF local[f] = None THEN clock ELSE local[f].mtime

\* Mutant of NewRecord: the content that was asked for is taken for the one assembled.
NewRecordOfRoot(f) == [data |-> root[f], mtime |-> MtimeNow(f)]

\* The record takes the mtime the file has now, or the present time if it is gone.
NewRecord(f) == [data |-> cur.data, mtime |-> MtimeNow(f)]

PullRecord ==
    /\ pullAt = "record"
    /\ pullAt' = "assemble"
    /\ cur' = None
    /\ LET f == cur.file
       IN /\ meta' = [meta EXCEPT ![f] = NewRecord(f)]
          /\ brought' = IF cur.data = root[f] THEN brought \cup {f} ELSE brought
          /\ raced' = IF local[f] # None /\ local[f].data # cur.data
                      THEN raced \cup {f} ELSE raced
    /\ UNCHANGED <<local, remote, clock, included, child, faults, ckpt, root, wanted,
                   plan, fetched, doomed, stray, touched>>

\* Storing the record fails: an error in the result, the pass goes on.
PullRecordFail ==
    /\ pullAt = "record"
    /\ Fault
    /\ pullAt' = "assemble"
    /\ cur' = None
    /\ UNCHANGED <<treeVars, included, child, ckpt, root, wanted, plan, fetched, doomed,
                   brought, stray, touched, raced>>

PullAssembled ==
    /\ pullAt = "assemble"
    /\ wanted = {}
    /\ pullAt' = "remove"
    /\ UNCHANGED <<worldVars, ckpt, root, wanted, plan, fetched, cur, doomed,
                   brought, stray, touched, raced>>

Removing(f) ==
    /\ pullAt = "remove"
    /\ f \in doomed
    /\ doomed' = doomed \ {f}

\* The filter is not asked, and the local file may hold newer edits.
PullRemove(f) ==
    /\ Removing(f)
    /\ local' = [local EXCEPT ![f] = None]
    /\ meta' = [meta EXCEPT ![f] = None]
    /\ brought' = brought \cup {f}
    /\ stray' = stray \cup {f}
    /\ touched' = touched \ {f}
    /\ UNCHANGED <<remote, clock, included, child, faults, ckpt, pullAt, root, wanted,
                   plan, fetched, cur, raced>>

\* The local file cannot be removed, or the record cannot.
PullRemoveFail(f) ==
    /\ Removing(f)
    /\ Fault
    /\ \/ local[f] # None /\ UNCHANGED <<local, stray, touched>>
       \/ /\ local' = [local EXCEPT ![f] = None]
          /\ stray' = stray \cup {f}
          /\ touched' = touched \ {f}
    /\ UNCHANGED <<remote, meta, clock, included, child, ckpt, pullAt, root, wanted,
                   plan, fetched, cur, brought, raced>>

PassOver ==
    /\ pullAt' = "idle"
    /\ root' = Empty /\ plan' = Empty
    /\ wanted' = {} /\ doomed' = {} /\ brought' = {} /\ fetched' = {}
    /\ cur' = None

\* What a pass without a checkpoint cannot see: records whose file the remote dropped.
Overlooked == IF ckpt = None THEN Present(meta) \ Present(root) ELSE {}

\* Mutant of NewCheckpoint: the root of the moment.
NewCheckpointLate == remote

\* The new checkpoint: the root that the diff led to.
NewCheckpoint == root

\* The checkpoint is stored whatever failed before.
PullCheckpoint ==
    /\ pullAt = "remove"
    /\ doomed = {}
    /\ ckpt' = NewCheckpoint
    /\ stray' = (stray \cup DiffChanged(ckpt, root) \cup DiffDeleted(ckpt, root)
                       \cup Overlooked) \ brought
    /\ PassOver
    /\ UNCHANGED <<worldVars, touched, raced>>

\* The pass ends early: stop aborts the task, a crash, the checkpoint cannot be stored.
PullAbort ==
    /\ pullAt # "idle"
    /\ Fault
    /\ PassOver
    /\ UNCHANGED <<treeVars, included, child, ckpt, stray, touched, raced>>

-----------------------------------------------------------------------------
PullStep ==
    \/ PullStart
    \/ PullFetch
    \/ PullFetchFail
    \/ PullRecord
    \/ PullRecordFail
    \/ PullAssembled
    \/ PullCheckpoint
    \/ \E f \in Files :
        \/ PullAssemble(f)
        \/ PullAssembleFail(f)
        \/ PullRemove(f)
        \/ PullRemoveFail(f)

User ==
    \/ \E f \in Files : UserDelete(f)
    \/ \E f \in Files, c \in Contents : UserWrite(f, c)

Next ==
    \/ PullStep
    \/ PullAbort
    \/ ForceSync
    \/ User
    \/ \E f \in Files, c \in Contents \cup {None} : RemoteChange(f, c)
    \/ \E S \in SUBSET Files : SetFilter(S)
    \/ \E t \in Territories : SetChildren(t)

Spec == Init /\ [][Next]_vars

\* The runner keeps starting passes, and a pass that meets no fault runs to its end.
FairSpec == Spec /\ WF_vars(PullStep)

-----------------------------------------------------------------------------
(* Properties. *)

\* Between passes the checkpoint is no better than the records: what it says the
\* remote holds was brought and recorded, except where a pass strayed.
CheckpointHonest ==
    pullAt = "idle" /\ ckpt # None =>
        \A f \in Present(ckpt) \ stray : DataOf(meta[f]) = ckpt[f]

\* What lite scans rest on, under a puller: equal size and mtime mean equal content,
\* unless the file was changed just before its mtime was read.
LiteSkipSound ==
    \A f \in Files \ raced :
        local[f] # None /\ LiteUnchanged(meta[f], local[f]) => meta[f].data = local[f].data

\* A file that no user touched since the engine wrote it, and that no pass strayed
\* on, ends as the remote has it.
PullConverges ==
    <>[](\A f \in Files \ (stray \cup touched) : DataOf(local[f]) = remote[f])

-----------------------------------------------------------------------------
(* Claims of the sources that the code does not keep. *)

\* assemble_file: "atomic-renames into place so a partial write can't leave a torn
\* file on disk", and the hash "matches the engine's whole-file hash".
AssembledMatchesRemote ==
    [][\A f \in Files : PullAssemble(f) => local'[f].data = root[f]]_vars
=============================================================================
