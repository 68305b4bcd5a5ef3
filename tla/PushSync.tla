------------------------------ MODULE PushSync ------------------------------
(***************************************************************************)
(* push_sync: one pass that makes the remote tree follow the local folder. *)
(* A pass walks the folder, inspects every entry, hashes the entries that  *)
(* a lite scan cannot skip, commits them in batches, falls back to one     *)
(* commit per file when a batch is refused, and finally deletes remotely   *)
(* what has a metadata record but was not seen.  Local programs run        *)
(* between any two steps; the task can be aborted, and a request can be    *)
(* applied by the server without its reply arriving.  A file too large for *)
(* a commit is streamed as it is on disk by then, not as it was hashed.    *)
(*                                                                         *)
(* metadata_by_path, the copy of the records a pass works on, is not a     *)
(* variable: the execution guard makes the pass the only writer of the     *)
(* records, so the copy is meta overlaid with pend.                        *)
(***************************************************************************)
EXTENDS SyncState

CONSTANTS
    Refusable,            \* files that the server may be answering 403 for
    Oversized,            \* contents with more chunks than a commit request may name
    DeleteLocalToRemote   \* delete_propagation.local_to_remote

ASSUME RefusableFiles == Refusable \subseteq Files
ASSUME OversizedType  == Oversized \subseteq Contents
ASSUME DeleteFlag     == DeleteLocalToRemote \in BOOLEAN

VARIABLES
    pushAt,      \* where the pass is
    mode,       \* "lite" or "full"
    todo,       \* the work list of the phase: entries to visit, inspect, isolate, delete
    walked,     \* what the walk found
    seen,       \* seen_remote_paths
    queue,      \* file_prep_requests: Files -> scanned mtime or None
    batch,      \* pending_batch: Files -> hashed content and scanned mtime, or None
    pend,       \* pending_metadata_updates
    succ,       \* successful_files of a per-file isolation, not yet recorded
    forbidden,  \* the files the server does answer 403 for
    unacked,    \* history: changed remotely by a request whose outcome no record tells
    gone,       \* history: absent from the folder at some moment of this pass
    unreadable  \* history: present, but its metadata could not be read in this pass

passVars == <<mode, walked, seen, queue, batch, pend, succ>>
pastVars == <<unacked, gone, unreadable>>
pushVars == <<pushAt, todo, passVars, pastVars, forbidden>>
vars     == <<worldVars, pushVars>>

Modes  == {"lite", "full"}
Phases == {"idle", "walk", "inspect", "prepare", "isolate", "delete"}

TypeOK ==
    /\ WorldTypeOK
    /\ pushAt \in Phases
    /\ mode \in Modes
    /\ todo \subseteq Files
    /\ walked \subseteq Files
    /\ seen \subseteq Files
    /\ queue \in [Files -> Nat \cup {None}]
    /\ batch \in [Files -> Version \cup {None}]
    /\ pend  \in [Files -> Version \cup {None}]
    /\ succ \subseteq Files
    /\ forbidden \subseteq Refusable
    /\ unacked \subseteq Files
    /\ gone \subseteq Files
    /\ unreadable \subseteq Files

PushInit ==
    /\ pushAt = "idle"
    /\ mode = "lite"
    /\ todo = {} /\ walked = {} /\ seen = {} /\ succ = {}
    /\ queue = Empty /\ batch = Empty /\ pend = Empty
    /\ forbidden \in SUBSET Refusable
    /\ unacked = {} /\ gone = {} /\ unreadable = {}

\* A new relationship: nothing pushed yet, the folder empty or not.
Init ==
    /\ clock = 1
    /\ local \in [Files -> {[data |-> c, mtime |-> 1] : c \in Contents} \cup {None}]
    /\ remote = Empty
    /\ meta = Empty
    /\ included = Files
    /\ child \in Territories
    /\ faults = 0
    /\ PushInit

-----------------------------------------------------------------------------
(* The environment. *)

UserWrite(f, c) ==
    /\ LocalWrite(f, c)
    /\ UNCHANGED pushVars

UserDelete(f) ==
    /\ LocalRemove(f)
    /\ gone' = IF pushAt = "idle" THEN gone ELSE gone \cup {f}
    /\ UNCHANGED <<pushAt, todo, passVars, unacked, unreadable, forbidden>>

\* A pass works on the filter it was started with: a change matters from the
\* next pass on.
SetFilter(S) ==
    /\ pushAt = "idle"
    /\ FilterChange(S)
    /\ UNCHANGED pushVars

\* The relationships are listed when a pass starts.
SetChildren(t) ==
    /\ pushAt = "idle"
    /\ ChildrenChange(t)
    /\ UNCHANGED pushVars

-----------------------------------------------------------------------------
(* Scan: walk the folder, then inspect the entries found. *)

PushStart(m) ==
    /\ pushAt = "idle"
    /\ pushAt' = "walk"
    /\ mode' = m
    /\ todo' = Files
    /\ gone' = Files \ Present(local)
    /\ UNCHANGED <<worldVars, walked, seen, queue, batch, pend, succ, unacked,
                   unreadable, forbidden>>

\* The walk reaches the place where f is, or is not; the folders of children are
\* left out.
PushWalk(f) ==
    /\ pushAt = "walk"
    /\ f \in todo
    /\ todo' = todo \ {f}
    /\ walked' = IF local[f] # None /\ f \notin child.local THEN walked \cup {f} ELSE walked
    /\ UNCHANGED <<worldVars, pushAt, mode, seen, queue, batch, pend, succ,
                   pastVars>>

PushWalked ==
    /\ pushAt = "walk"
    /\ todo = {}
    /\ pushAt' = "inspect"
    /\ todo' = walked
    /\ walked' = {}
    /\ UNCHANGED <<worldVars, mode, seen, queue, batch, pend, succ, pastVars>>

Inspecting(f) ==
    /\ pushAt = "inspect"
    /\ f \in todo
    /\ todo' = todo \ {f}

\* symlink_metadata fails: the entry is counted as failed and never seen.
PushInspectUnreadable(f) ==
    /\ Inspecting(f)
    /\ \/ local[f] = None /\ UNCHANGED <<unreadable, faults>>
       \/ local[f] # None /\ Fault /\ unreadable' = unreadable \cup {f}
    /\ UNCHANGED <<treeVars, included, child, pushAt, mode, walked, seen, queue, batch,
                   pend, succ, unacked, gone>>

\* The filter does not match: skipped, and not seen either.
PushInspectFiltered(f) ==
    /\ Inspecting(f)
    /\ f \notin included
    /\ UNCHANGED <<worldVars, pushAt, mode, walked, seen, queue, batch, pend,
                   succ, pastVars>>

\* The file vanishes between the two reads, before its mtime is known.
PushInspectVanished(f) ==
    /\ Inspecting(f)
    /\ f \in included
    /\ local[f] = None
    /\ seen' = seen \cup {f}
    /\ UNCHANGED <<worldVars, pushAt, mode, walked, queue, batch, pend, succ,
                   pastVars>>

\* Mutant of PushInspectSkip: a skipped file is not marked as seen.
PushInspectSkipUnseen(f) ==
    /\ Inspecting(f)
    /\ f \in included
    /\ local[f] # None
    /\ mode = "lite" /\ LiteUnchanged(meta[f], local[f])
    /\ UNCHANGED <<worldVars, pushAt, mode, walked, seen, queue, batch, pend, succ,
                   pastVars>>

PushInspectSkip(f) ==
    /\ Inspecting(f)
    /\ f \in included
    /\ local[f] # None
    /\ mode = "lite" /\ LiteUnchanged(meta[f], local[f])
    /\ seen' = seen \cup {f}
    /\ UNCHANGED <<worldVars, pushAt, mode, walked, queue, batch, pend, succ,
                   pastVars>>

PushInspectQueue(f) ==
    /\ Inspecting(f)
    /\ f \in included
    /\ local[f] # None
    /\ ~(mode = "lite" /\ LiteUnchanged(meta[f], local[f]))
    /\ seen' = seen \cup {f}
    /\ queue' = [queue EXCEPT ![f] = local[f].mtime]
    /\ UNCHANGED <<worldVars, pushAt, mode, walked, batch, pend, succ, pastVars>>

PushInspected ==
    /\ pushAt = "inspect"
    /\ todo = {}
    /\ pushAt' = "prepare"
    /\ UNCHANGED <<worldVars, mode, todo, walked, seen, queue, batch, pend, succ,
                   pastVars>>

-----------------------------------------------------------------------------
(* Prepare: hash a queued file as it is now, keep the mtime of the scan. *)

\* An oversized content is a batch of its own: more chunks than the batch limit.
Oversize(b) == \E f \in Present(b) : b[f].data \in Oversized

Preparing(f) ==
    /\ pushAt = "prepare"
    /\ queue[f] # None
    /\ ~Oversize(batch)
    /\ queue' = [queue EXCEPT ![f] = None]

PushPrepareFail(f) ==
    /\ Preparing(f)
    /\ local[f] = None
    /\ UNCHANGED <<worldVars, pushAt, mode, todo, walked, seen, batch, pend, succ,
                   pastVars>>

\* The hash is the recorded one: only the record's mtime is brought up to date.
PushHashSkip(f) ==
    /\ Preparing(f)
    /\ local[f] # None
    /\ DataOf(meta[f]) = local[f].data
    /\ pend' = IF meta[f].mtime = queue[f] THEN pend
               ELSE [pend EXCEPT ![f] = [data |-> local[f].data, mtime |-> queue[f]]]
    /\ UNCHANGED <<worldVars, pushAt, mode, todo, walked, seen, batch, succ,
                   pastVars>>

PushBatch(f) ==
    /\ Preparing(f)
    /\ local[f] # None
    /\ DataOf(meta[f]) # local[f].data
    /\ local[f].data \in Oversized => Present(batch) = {}
    /\ batch' = [batch EXCEPT ![f] = [data |-> local[f].data, mtime |-> queue[f]]]
    /\ UNCHANGED <<worldVars, pushAt, mode, todo, walked, seen, pend, succ,
                   pastVars>>

-----------------------------------------------------------------------------
(* Commit.  A batch may be flushed at any point where it is not empty: the *)
(* code flushes on its size limits, for progress reports and at the end.   *)

\* Mutant of Data: the metadata is committed with the content.
DataAndTime(b) == b

\* What the remote is sent for f, hashed as v: what was hashed, or the file streamed
\* as it is now.
Sent(f, v) == IF v.data \in Oversized THEN DataOf(local[f]) ELSE v.data

Data(b) == [f \in Files |-> IF b[f] = None THEN None ELSE Sent(f, b[f])]

\* A file is re-read before it is uploaded and must be as hashed; a streamed one
\* is only opened.
Ready(f, v) == local[f] # None /\ (v.data \in Oversized \/ local[f].data = v.data)

Verified(b) == \A f \in Present(b) : Ready(f, b[f])

\* The entries of b whose record says what was sent.
Told(b) == {f \in Present(b) : Sent(f, b[f]) = b[f].data}

Flushing ==
    /\ pushAt = "prepare"
    /\ Present(batch) # {}

\* blob_commit is all or nothing; its reply leads to the records being written.
PushCommit ==
    /\ Flushing
    /\ Verified(batch)
    /\ Present(batch) \cap forbidden = {}
    /\ remote' = Overlay(remote, Data(batch))
    /\ meta' = Overlay(meta, Overlay(pend, batch))
    /\ unacked' = (unacked \cup Present(batch)) \ Told(batch)
    /\ batch' = Empty
    /\ pend' = Empty
    /\ UNCHANGED <<local, clock, included, child, faults, pushAt, mode, todo, walked,
                   seen, queue, succ, gone, unreadable>>

\* What an abort leaves of the pass: nothing but what is stored.
Dropped ==
    /\ pushAt' = "idle"
    /\ todo' = {} /\ walked' = {} /\ seen' = {} /\ succ' = {}
    /\ queue' = Empty /\ batch' = Empty /\ pend' = Empty
    /\ gone' = {} /\ unreadable' = {}
    /\ UNCHANGED mode

\* The server commits the batch and the pass ends before the records are
\* written: the reply is lost, or the task or the process dies.
PushCommitLost ==
    /\ Flushing
    /\ Verified(batch)
    /\ Present(batch) \cap forbidden = {}
    /\ Fault
    /\ remote' = Overlay(remote, Data(batch))
    /\ unacked' = unacked \cup Present(batch)
    /\ Dropped
    /\ UNCHANGED <<local, meta, clock, included, child>>

\* Any error that is neither transient nor unrecoverable.
PushRejected ==
    /\ Flushing
    /\ \/ ~Verified(batch) /\ UNCHANGED faults
       \/ Present(batch) \cap forbidden # {} /\ UNCHANGED faults
       \/ Fault
    /\ pushAt' = "isolate"
    /\ todo' = Present(batch)
    /\ UNCHANGED <<treeVars, included, child, mode, walked, seen, queue, batch, pend,
                   succ, unacked, gone, unreadable>>

Isolating(f) ==
    /\ pushAt = "isolate"
    /\ f \in todo

PushIsolateOk(f) ==
    /\ Isolating(f)
    /\ Ready(f, batch[f])
    /\ f \notin forbidden
    /\ remote' = [remote EXCEPT ![f] = Sent(f, batch[f])]
    /\ succ' = succ \cup {f}
    /\ unacked' = unacked \cup {f}
    /\ todo' = todo \ {f}
    /\ UNCHANGED <<local, meta, clock, included, child, faults, pushAt, mode, walked,
                   seen, queue, batch, pend, gone, unreadable>>

\* The file changed since it was hashed, or is gone, or the server refuses it: failed.
PushIsolateFail(f) ==
    /\ Isolating(f)
    /\ \/ ~Ready(f, batch[f]) /\ UNCHANGED faults
       \/ Fault
    /\ todo' = todo \ {f}
    /\ UNCHANGED <<treeVars, included, child, pushAt, mode, walked, seen, queue, batch,
                   pend, succ, unacked, gone, unreadable>>

\* Mutant of PushIsolateForbidden: a refused file is only counted as failed.
PushIsolateForgotten(f) ==
    /\ Isolating(f)
    /\ Ready(f, batch[f])
    /\ f \in forbidden
    /\ todo' = todo \ {f}
    /\ UNCHANGED <<worldVars, pushAt, mode, walked, seen, queue, batch, pend, succ,
                   pastVars>>

\* 403: the file is recorded as synced, so that it is not tried again until it changes.
PushIsolateForbidden(f) ==
    /\ Isolating(f)
    /\ Ready(f, batch[f])
    /\ f \in forbidden
    /\ meta' = [meta EXCEPT ![f] = batch[f]]
    /\ todo' = todo \ {f}
    /\ UNCHANGED <<local, remote, clock, included, child, faults, pushAt, mode, walked,
                   seen, queue, batch, pend, succ, pastVars>>

\* Applied, but the reply is lost: a transient error, which aborts the pass and
\* with it the records of the files isolated before.
PushIsolateLost(f) ==
    /\ Isolating(f)
    /\ Ready(f, batch[f])
    /\ f \notin forbidden
    /\ Fault
    /\ remote' = [remote EXCEPT ![f] = Sent(f, batch[f])]
    /\ unacked' = unacked \cup {f}
    /\ Dropped
    /\ UNCHANGED <<local, meta, clock, included, child>>

\* Mutant of Won: the whole batch is recorded.
WonAll == batch

\* The records of the files that were isolated with success.
Won == [f \in Files |-> IF f \in succ THEN batch[f] ELSE None]

PushIsolated ==
    /\ pushAt = "isolate"
    /\ todo = {}
    /\ pushAt' = "prepare"
    /\ meta' = Overlay(meta, Overlay(pend, Won))
    /\ unacked' = unacked \ {f \in succ : batch[f].data \in Oversized => remote[f] = batch[f].data}
    /\ batch' = Empty /\ pend' = Empty /\ succ' = {}
    /\ UNCHANGED <<local, remote, clock, included, child, faults, mode, todo, walked,
                   seen, queue, gone, unreadable>>

-----------------------------------------------------------------------------
(* Deletions, and the end of the pass. *)

\* Mutant of Pending: the mtimes are read again when the records are written.
PendingRestamped ==
    [f \in Files |-> IF pend[f] # None /\ local[f] # None
                     THEN [pend[f] EXCEPT !.mtime = local[f].mtime] ELSE pend[f]]

\* The records still to be written when every file is prepared.
Pending == pend

\* Recorded, not seen, and not under the remote path of a child.
Unseen(m) == Present(m) \ (seen \cup child.remote)

\* Everything is prepared and flushed: write the remaining records, and list
\* what has a record but was not seen.
PushFilesDone ==
    /\ pushAt = "prepare"
    /\ queue = Empty /\ batch = Empty
    /\ pushAt' = "delete"
    /\ meta' = Overlay(meta, Pending)
    /\ pend' = Empty
    /\ todo' = IF DeleteLocalToRemote THEN Unseen(meta') ELSE {}
    /\ UNCHANGED <<local, remote, clock, included, child, faults, mode, walked, seen,
                   queue, batch, succ, pastVars>>

Deleting(f) ==
    /\ pushAt = "delete"
    /\ f \in todo
    /\ todo' = todo \ {f}

PushDelete(f) ==
    /\ Deleting(f)
    /\ f \notin forbidden
    /\ remote' = [remote EXCEPT ![f] = None]
    /\ meta' = [meta EXCEPT ![f] = None]
    /\ unacked' = unacked \ {f}
    /\ UNCHANGED <<local, clock, included, child, faults, pushAt, mode, walked, seen,
                   queue, batch, pend, succ, gone, unreadable>>

\* delete_file applied, its reply lost: an error like any other, the record stays.
PushDeleteLost(f) ==
    /\ Deleting(f)
    /\ f \notin forbidden
    /\ Fault
    /\ remote' = [remote EXCEPT ![f] = None]
    /\ unacked' = unacked \cup {f}
    /\ UNCHANGED <<local, meta, clock, included, child, pushAt, mode, walked, seen,
                   queue, batch, pend, succ, gone, unreadable>>

\* The server refuses: 403, 404 for a file it does not have, or any other failure.
PushDeleteRefused(f) ==
    /\ Deleting(f)
    /\ \/ f \in forbidden /\ UNCHANGED faults
       \/ remote[f] = None /\ UNCHANGED faults
       \/ Fault
    /\ UNCHANGED <<treeVars, included, child, pushAt, mode, walked, seen, queue, batch,
                   pend, succ, unacked, gone, unreadable>>

PushDone ==
    /\ pushAt = "delete"
    /\ todo = {}
    /\ Dropped
    /\ UNCHANGED <<worldVars, unacked>>

\* The pass ends early: a transient or unrecoverable error, an unreadable
\* directory, a failed metadata write, stop aborting the task, a crash.
PushAbort ==
    /\ pushAt # "idle"
    /\ Fault
    /\ Dropped
    /\ UNCHANGED <<treeVars, included, child, unacked, forbidden>>

-----------------------------------------------------------------------------
PushScan ==
    \/ \E m \in Modes : PushStart(m)
    \/ PushWalked
    \/ PushInspected
    \/ \E f \in Files :
        \/ PushWalk(f)
        \/ PushInspectUnreadable(f)
        \/ PushInspectFiltered(f)
        \/ PushInspectVanished(f)
        \/ PushInspectSkip(f)
        \/ PushInspectQueue(f)

PushTransfer ==
    \/ PushCommit
    \/ PushCommitLost
    \/ PushRejected
    \/ PushIsolated
    \/ \E f \in Files :
        \/ PushPrepareFail(f)
        \/ PushHashSkip(f)
        \/ PushBatch(f)
        \/ PushIsolateOk(f)
        \/ PushIsolateFail(f)
        \/ PushIsolateForbidden(f)
        \/ PushIsolateLost(f)

PushFinish ==
    \/ PushFilesDone
    \/ PushDone
    \/ \E f \in Files :
        \/ PushDelete(f)
        \/ PushDeleteLost(f)
        \/ PushDeleteRefused(f)

\* Permissions do not change.
PushStep == (PushScan \/ PushTransfer \/ PushFinish) /\ UNCHANGED forbidden

User ==
    \/ \E f \in Files : UserDelete(f)
    \/ \E f \in Files, c \in Contents : UserWrite(f, c)

Next ==
    \/ PushStep
    \/ PushAbort
    \/ User
    \/ \E S \in SUBSET Files : SetFilter(S)
    \/ \E t \in Territories : SetChildren(t)

Spec == Init /\ [][Next]_vars

\* The runner keeps starting passes (its safety-net timer), and a pass that is
\* neither aborted nor answered an error runs to its end.
FairSpec == Spec /\ WF_vars(PushStep)

-----------------------------------------------------------------------------
(* Properties. *)

\* What lite scans rest on: a file whose size and mtime are those of its record
\* still holds the content the record names, so skipping it loses no edit.
LiteSkipSound ==
    \A f \in Files :
        local[f] # None /\ LiteUnchanged(meta[f], local[f]) => meta[f].data = local[f].data

\* A record says what the remote holds, through batches, isolation, deletions and
\* aborts, except for a file whose last change no record tells (the reply was lost, or
\* it changed between being hashed and being streamed) and for the forbidden ones, which are recorded although they never reach the remote.
MetaMatchesRemote ==
    \A f \in Present(meta) :
        f \in unacked \cup forbidden \/ remote[f] = meta[f].data

\* A remote file is deleted only where deletions propagate, never under the remote
\* path of a child relationship, and only if in this pass the file was missing,
\* unreadable, left out by the filter, or in the folder of a child.
DeletesAreExplained ==
    \A f \in Files :
        remote[f] # None /\ remote'[f] = None =>
            /\ DeleteLocalToRemote /\ f \notin child.remote
            /\ f \in gone \cup unreadable \cup (Files \ included) \cup child.local
RemoteDeletesExplained == [][DeletesAreExplained]_vars

\* A lost outcome is repaired by a later pass unless the folder was put back to
\* what the record, or its absence, says: then every scan takes the file for unchanged.
Shadowed(f) == f \in unacked /\ DataOf(local[f]) = DataOf(meta[f])

\* Once the user is done and the faults are over, the passes bring every file the
\* filter matches and no child owns to the state it has in the folder.
PushConverges ==
    <>[](\A f \in included \ (forbidden \cup child.local \cup child.remote) :
            Shadowed(f) \/ remote[f] = DataOf(local[f]))

\* A file the server refuses is recorded as synced: once the user is done, no
\* pass, lite or full, keeps uploading it.
RefusedGoesQuiet ==
    <>[](\A f \in forbidden : batch[f] = None)

-----------------------------------------------------------------------------
(* Claims of the sources that the code does not keep. *)

\* push.rs, where the deletions are made: "File exists in metadata but not on
\* filesystem -- it was deleted".
DeletesOnlyWhatIsGone ==
    [][\A f \in Files : remote[f] # None /\ remote'[f] = None => f \in gone]_vars
=============================================================================
