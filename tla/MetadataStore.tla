--------------------------- MODULE MetadataStore ----------------------------
(***************************************************************************)
(* SyncMetadataStore for one relationship: the per-file records in their   *)
(* three formats and the pull checkpoint, as files of the local state      *)
(* database.  Every write of that database is one step, and the program    *)
(* can stop, or an operation fail, between two of them.                    *)
(*                                                                         *)
(* The records are written by the one synchronisation that holds the       *)
(* execution guard.  A change of the paths of a pull-only relationship     *)
(* clears everything; that handler does not take the guard, and Overlap    *)
(* says whether a synchronisation started by hand runs at the same time.   *)
(***************************************************************************)
EXTENDS Naturals, FiniteSets

CONSTANTS
    Files,      \* remote paths
    Records,    \* the values of a FileSyncMeta
    Buckets,    \* the bucket files of the current format
    BucketOf,   \* the bucket of a path: a prefix of its hash
    None,       \* no such file or record
    Overlap,    \* TRUE: a synchronisation can run while the state is cleared
    MaxMoves,   \* bound: changes of the relationship's paths
    MaxFaults   \* bound: failures and restarts

ASSUME BucketType   == BucketOf \in [Files -> Buckets]
ASSUME StoreBounds  == MaxMoves \in Nat /\ MaxFaults \in Nat
ASSUME OverlapFlag  == Overlap \in BOOLEAN
ASSUME NoRecordFile == None \notin Records \cup [Files -> Records \cup {None}] \cup Nat

VARIABLES
    single,     \* the oldest format: one file per record
    index,      \* the next format: one file for all, or None
    bucket,     \* the current format: the items of the bucket files
    manifest,   \* whether the manifest of the current format exists
    checkpoint, \* None, or which paths the pull that stored it worked for
    passAt,     \* where the synchronisation is
    born,       \* which paths it works for
    upd,        \* the records it is about to write
    loaded,     \* the index that a migration has loaded
    target,     \* the record it is about to delete
    clearAt,    \* where the clearing is
    doomed,     \* the files of the database left to delete
    moves,      \* how often the paths have changed
    cleared,    \* history: the value of moves when a clear last returned Ok
    removed,    \* history: records whose removal returned Ok, not written since
    torn,       \* history: records whose removal failed midway
    faults      \* history: failures and restarts so far

recordVars == <<single, index, bucket, manifest>>
passVars   == <<passAt, born, upd, loaded, target>>
clearVars  == <<clearAt, doomed, moves, cleared>>
pastVars   == <<removed, torn>>
vars       == <<recordVars, checkpoint, passVars, clearVars, pastVars, faults>>

Map   == [Files -> Records \cup {None}]
Empty == [f \in Files |-> None]
Present(m) == {f \in Files : m[f] # None}

TypeOK ==
    /\ single \in Map /\ bucket \in Map /\ index \in Map \cup {None}
    /\ manifest \in BOOLEAN
    /\ checkpoint \in Nat \cup {None}
    /\ passAt \in {"idle", "run", "store", "merge", "unlink"}
    /\ born \in Nat
    /\ upd \in Map /\ loaded \in Map
    /\ target \in Files \cup {None}
    /\ clearAt \in {"idle", "checkpoint", "single", "index", "bucket"}
    /\ doomed \subseteq Files \cup Buckets \cup {"manifest"}
    /\ moves \in Nat /\ cleared \in Nat
    /\ removed \subseteq Files /\ torn \subseteq Files
    /\ faults \in Nat

\* What an older version of the program left, in one of the formats, or nothing at all.
Init ==
    /\ \/ single \in Map /\ index = None /\ bucket = Empty /\ manifest = FALSE
       \/ single = Empty /\ index \in Map \ {Empty} /\ bucket = Empty /\ manifest = FALSE
       \/ single = Empty /\ index = None /\ bucket \in Map /\ manifest = TRUE
    /\ checkpoint \in {None, 0}
    /\ passAt = "idle" /\ born = 0 /\ upd = Empty /\ loaded = Empty /\ target = None
    /\ clearAt = "idle" /\ doomed = {} /\ moves = 0 /\ cleared = 0
    /\ removed = {} /\ torn = {} /\ faults = 0

-----------------------------------------------------------------------------
(* Reading. *)

\* Mutant of Index: a missing index is not made from the single files.
IndexOnly == index

\* load_legacy_file_meta_index.
Index == IF index # None THEN index ELSE single

\* Mutant of Get: the old formats are asked after the current one.
GetAnywhere(f) ==
    IF bucket[f] # None THEN bucket[f]
    ELSE IF Index[f] # None THEN Index[f] ELSE single[f]

\* get_file_meta.
Get(f) ==
    IF manifest THEN bucket[f]
    ELSE IF Index[f] # None THEN Index[f] ELSE single[f]

\* list_file_metas.
List ==
    IF manifest THEN bucket
    ELSE IF Present(Index) # {} THEN Index ELSE single

\* What an interrupted clear can leave: buckets without the manifest.
Leftover == {f \in Files : ~manifest /\ bucket[f] # None}

-----------------------------------------------------------------------------
(* A synchronisation. *)

PassStart ==
    /\ passAt = "idle"
    /\ Overlap \/ clearAt = "idle"
    /\ passAt' = "run"
    /\ born' = moves
    /\ UNCHANGED <<recordVars, checkpoint, upd, loaded, target, clearVars, pastVars, faults>>

\* set_file_metas_batch, first half: is there a manifest? If not, the old formats are read.
SetBegin(u) ==
    /\ passAt = "run"
    /\ upd' = u
    /\ passAt' = IF manifest THEN "merge" ELSE "store"
    /\ loaded' = IF manifest THEN loaded ELSE Index
    /\ UNCHANGED <<recordVars, checkpoint, born, target, clearVars, pastVars, faults>>

\* ensure_v2_storage: whole buckets and the manifest, in one write.
Migrate ==
    /\ passAt = "store"
    /\ LET written == {BucketOf[f] : f \in Present(loaded)}
       IN bucket' = [f \in Files |-> IF BucketOf[f] \in written THEN loaded[f] ELSE bucket[f]]
    /\ manifest' = TRUE
    /\ passAt' = "merge"
    /\ loaded' = Empty
    /\ UNCHANGED <<single, index, checkpoint, born, upd, target, clearVars, pastVars, faults>>

\* Mutant of Merged: a bucket is replaced, not merged.
MergedOver ==
    [f \in Files |-> IF \E g \in Present(upd) : BucketOf[g] = BucketOf[f]
                     THEN upd[f] ELSE bucket[f]]

\* The buckets with the new records merged into them.
Merged == [f \in Files |-> IF upd[f] # None THEN upd[f] ELSE bucket[f]]

Merge ==
    /\ passAt = "merge"
    /\ bucket' = Merged
    /\ removed' = removed \ Present(upd)
    /\ torn' = torn \ Present(upd)
    /\ passAt' = "run"
    /\ upd' = Empty
    /\ UNCHANGED <<single, index, manifest, checkpoint, born, loaded, target, clearVars, faults>>

\* delete_file_meta in the current format.
Delete(f) ==
    /\ passAt = "run"
    /\ manifest
    /\ bucket' = [bucket EXCEPT ![f] = None]
    /\ removed' = removed \cup {f}
    /\ torn' = torn \ {f}
    /\ UNCHANGED <<single, index, manifest, checkpoint, passVars, clearVars, faults>>

\* In an old one: first the index, which this creates if need be, ...
DeleteIndexed(f) ==
    /\ passAt = "run"
    /\ ~manifest
    /\ index' = IF Index[f] # None THEN [Index EXCEPT ![f] = None] ELSE index
    /\ target' = f
    /\ torn' = torn \cup {f}
    /\ passAt' = "unlink"
    /\ UNCHANGED <<single, bucket, manifest, checkpoint, born, upd, loaded, clearVars, removed,
                   faults>>

\* Mutant of Unlink: the file of the record is left.
UnlinkNothing ==
    /\ passAt = "unlink"
    /\ removed' = removed \cup {target}
    /\ torn' = torn \ ({target} \ Leftover)
    /\ passAt' = "run"
    /\ target' = None
    /\ UNCHANGED <<recordVars, checkpoint, born, upd, loaded, clearVars, faults>>

\* ... then the file of the record.
Unlink ==
    /\ passAt = "unlink"
    /\ single' = [single EXCEPT ![target] = None]
    /\ removed' = removed \cup {target}
    /\ torn' = torn \ ({target} \ Leftover)
    /\ passAt' = "run"
    /\ target' = None
    /\ UNCHANGED <<index, bucket, manifest, checkpoint, born, upd, loaded, clearVars, faults>>

\* A pull ends with a new checkpoint.
SetCheckpoint ==
    /\ passAt = "run"
    /\ checkpoint' = born
    /\ passAt' = "idle"
    /\ UNCHANGED <<recordVars, born, upd, loaded, target, clearVars, pastVars, faults>>

\* An error, an abort, or a restart of the program, which ends the clearing too.
PassFails ==
    /\ passAt # "idle"
    /\ faults < MaxFaults
    /\ faults' = faults + 1
    /\ passAt' = "idle" /\ upd' = Empty /\ loaded' = Empty /\ target' = None
    /\ clearAt' \in {clearAt, "idle"}
    /\ doomed' = IF clearAt' = "idle" THEN {} ELSE doomed
    /\ torn' = torn \cup (IF clearAt' = "idle" THEN Leftover ELSE {})
    /\ UNCHANGED <<recordVars, checkpoint, born, moves, cleared, removed>>

\* Force sync.
ClearCheckpoint ==
    /\ passAt = "idle"
    /\ checkpoint' = None
    /\ UNCHANGED <<recordVars, passVars, clearVars, pastVars, faults>>

-----------------------------------------------------------------------------
(* clear_relationship_state, for the paths that have just changed. *)

Move ==
    /\ clearAt = "idle"
    /\ Overlap \/ passAt = "idle"
    /\ moves < MaxMoves
    /\ moves' = moves + 1
    /\ clearAt' = "checkpoint"
    /\ UNCHANGED <<recordVars, checkpoint, passVars, doomed, cleared, pastVars, faults>>

\* Mutant of ClearBegin: the checkpoint stays.
ClearBeginLate ==
    /\ clearAt = "checkpoint"
    /\ clearAt' = "single"
    /\ doomed' = Present(single)
    /\ UNCHANGED <<recordVars, checkpoint, passVars, moves, cleared, pastVars, faults>>

\* The checkpoint goes, and the single files are listed.
ClearBegin ==
    /\ clearAt = "checkpoint"
    /\ checkpoint' = None
    /\ clearAt' = "single"
    /\ doomed' = Present(single)
    /\ UNCHANGED <<recordVars, passVars, moves, cleared, pastVars, faults>>

ClearSingle(f) ==
    /\ clearAt = "single"
    /\ f \in doomed
    /\ single' = [single EXCEPT ![f] = None]
    /\ doomed' = doomed \ {f}
    /\ UNCHANGED <<index, bucket, manifest, checkpoint, passVars, clearAt, moves, cleared,
                   pastVars, faults>>

ClearIndex ==
    /\ clearAt = "single"
    /\ doomed = {}
    /\ index' = None
    /\ clearAt' = "index"
    /\ UNCHANGED <<single, bucket, manifest, checkpoint, passVars, doomed, moves, cleared,
                   pastVars, faults>>

\* The directory of the current format is listed: buckets and manifest, in any order.
ClearList ==
    /\ clearAt = "index"
    /\ doomed' = {BucketOf[f] : f \in Present(bucket)} \cup (IF manifest THEN {"manifest"} ELSE {})
    /\ clearAt' = "bucket"
    /\ UNCHANGED <<recordVars, checkpoint, passVars, moves, cleared, pastVars, faults>>

ClearFile(x) ==
    /\ clearAt = "bucket"
    /\ x \in doomed
    /\ bucket' = [f \in Files |-> IF BucketOf[f] = x THEN None ELSE bucket[f]]
    /\ manifest' = (manifest /\ x # "manifest")
    /\ doomed' = doomed \ {x}
    /\ UNCHANGED <<single, index, checkpoint, passVars, clearAt, moves, cleared, pastVars, faults>>

ClearDone ==
    /\ clearAt = "bucket"
    /\ doomed = {}
    /\ clearAt' = "idle"
    /\ cleared' = moves
    /\ removed' = Files
    /\ torn' = {}
    /\ UNCHANGED <<recordVars, checkpoint, passVars, doomed, moves, faults>>

\* A deletion fails, or the program ends.
ClearFails ==
    /\ clearAt # "idle"
    /\ faults < MaxFaults
    /\ faults' = faults + 1
    /\ clearAt' = "idle"
    /\ doomed' = {}
    /\ torn' = torn \cup Leftover
    /\ UNCHANGED <<recordVars, checkpoint, passVars, moves, cleared, removed>>

-----------------------------------------------------------------------------
Pass ==
    \/ PassStart
    \/ \E u \in Map \ {Empty} : SetBegin(u)
    \/ Migrate
    \/ Merge
    \/ \E f \in Files : Delete(f) \/ DeleteIndexed(f)
    \/ Unlink
    \/ SetCheckpoint
    \/ PassFails
    \/ ClearCheckpoint

Clearing ==
    \/ Move
    \/ ClearBegin
    \/ \E f \in Files : ClearSingle(f)
    \/ ClearIndex
    \/ ClearList
    \/ \E x \in Buckets \cup {"manifest"} : ClearFile(x)
    \/ ClearDone
    \/ ClearFails

Next == Pass \/ Clearing

Spec == Init /\ [][Next]_vars

-----------------------------------------------------------------------------
(* Properties. *)

\* A record whose removal was reported as done is not read again, by get or by list,
\* through migrations, interrupted clears and leftovers of old formats, until it is
\* written again, unless an earlier removal of it failed midway.
RemovedStaysRemoved ==
    \A f \in removed \ torn : Get(f) = None /\ List[f] = None

\* get and list tell the same in every format and in the middle of a migration,
\* except for a record whose removal failed midway.
ReadsAgree == \A f \in Files \ torn : Get(f) = List[f]

\* A pull for new paths, cleared with success, does not start from the checkpoint of
\* the old ones.  ("Clear all sync state for a relationship so the next pull starts
\* from scratch".)
StartsFromScratch == checkpoint # None => checkpoint >= cleared

\* The files whose record no reader sees, but which the next migration or removal may
\* show: what an interrupted clear left in the buckets, a removal in a single file.
Limbo == {f \in Files : ~manifest /\ List[f] = None /\ ~(bucket[f] = None /\ single[f] = None)}

Abstract == INSTANCE RecordStore WITH records <- List, limbo <- Limbo

\* Whatever the format, and however an operation is cut short, the store behaves as
\* one map of records: a batch of writes changes the records it writes and no other,
\* and a record that comes back was in limbo.
ActsAsOneMap == Abstract!Spec
=============================================================================
