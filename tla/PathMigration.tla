--------------------------- MODULE PathMigration ---------------------------
(***************************************************************************)
(* A relationship whose root paths the user edits.  update_relationship    *)
(* stores the new paths and then a marker that names the old ones; the     *)
(* push passes that follow move the remote files to their new paths,       *)
(* adopt or upload what cannot be moved, forget the records of the old     *)
(* root without deleting anything remotely, and clear the marker when a    *)
(* whole pass had no error.  Symbolic links are never moved: they are      *)
(* created again after the files.                                          *)
(*                                                                         *)
(* Records of an older client may spell a path with the separators of      *)
(* another platform; a pass renames those files in the same way.           *)
(*                                                                         *)
(* A remote path is <<root, name, spelling>>.  The content comparison      *)
(* stands for the size and mtime test of a lite scan too (PushSync shows   *)
(* that the test is sound), and one upload for its batch.                  *)
(***************************************************************************)
EXTENDS OutsideEvents

CONSTANTS
    Names,       \* the entries of the local folder
    Links,       \* the entries that are symbolic links
    Legacy,      \* the files that an older client recorded with other separators
    Contents,    \* file contents and link targets
    Roots,       \* remote base paths
    Under        \* Under[r]: the roots whose paths lie under r

ASSUME EntryKinds   == Links \subseteq Names /\ Legacy \subseteq Names \ Links
ASSUME UnderItself  == /\ Under \in [Roots -> SUBSET Roots]
                       /\ \A r \in Roots : r \in Under[r]

Path == Roots \X Names \X {"plain", "legacy"}
Plain(r, n)    == <<r, n, "plain">>
LegacyOf(r, n) == <<r, n, "legacy">>

\* A SyncPathMigration: the old root, and whether the entries of the new local
\* folder are those of the old one (the same folder, or one that contains it).
Marker == [old : Roots, carries : BOOLEAN]

ASSUME NoneIsNothing == None \notin Contents /\ None \notin Marker

VARIABLES
    local,       \* Names -> Contents or None: the folder at the local path
    remote,      \* Path -> Contents or None
    meta,        \* Path -> Contents or None: the records
    root,        \* the relationship's remote path
    mig,         \* the stored marker, or None
    at,          \* where the pass is
    mode,        \* "lite" or "full"
    manual,      \* the pass was triggered by a request, not by the loop
    pass,        \* what the pass read when it started: the root and the marker
    todo,        \* entries left to inspect, then paths left to delete
    queue,       \* file_prep_requests and pending_symlinks, with what the scan read
    linked,      \* symlink_metadata_updates: links pushed, not recorded yet
    seen,        \* seen_remote_paths
    errs,        \* errors is not empty
    unacked,     \* history: remote paths changed by a request with no recorded outcome
    confirmed,   \* history: paths found on disk since the last change of the root
    exposed      \* history: a change of the root that the stored marker does not tell

storeVars == <<remote, meta, root, mig>>
passVars  == <<at, mode, manual, pass, todo, queue, linked, seen, errs>>
pastVars  == <<unacked, confirmed, exposed, spare>>
moveVars      == <<local, storeVars, passVars, pastVars>>

MoveTypeOK ==
    /\ local  \in [Names -> Contents \cup {None}]
    /\ remote \in [Path -> Contents \cup {None}]
    /\ meta   \in [Path -> Contents \cup {None}]
    /\ root \in Roots
    /\ mig \in Marker \cup {None}
    /\ at \in {"idle", "scan", "files", "links", "delete"}
    /\ mode \in {"lite", "full"}
    /\ manual \in BOOLEAN
    /\ pass \in [root : Roots, mig : Marker \cup {None}] \cup {None}
    /\ at # "idle" => pass \in [root : Roots, mig : Marker \cup {None}]
    /\ IF at = "delete" THEN todo \subseteq Path ELSE todo \subseteq Names
    /\ queue \in [Names -> Contents \cup {None}]
    /\ linked \in [Names -> Contents \cup {None}]
    /\ seen \subseteq Path
    /\ errs \in BOOLEAN
    /\ unacked \subseteq Path
    /\ confirmed \subseteq Path
    /\ exposed \in BOOLEAN
    /\ spare \in 0..MaxEvents

Nothing == [n \in Names |-> None]

\* A relationship that has synchronised its folder; an older client may have done
\* so for some of the legacy files.
SyncedAs(n, r, older) == IF n \in older THEN LegacyOf(r, n) ELSE Plain(r, n)

MoveInit ==
    /\ root \in Roots
    /\ local \in [Names -> Contents]
    /\ \E older \in SUBSET Legacy :
        remote = [p \in Path |-> IF p = SyncedAs(p[2], root, older) THEN local[p[2]] ELSE None]
    /\ meta = remote
    /\ confirmed = {p \in Path : meta[p] # None}
    /\ mig = None
    /\ at = "idle" /\ mode = "lite" /\ manual = FALSE
    /\ pass = None
    /\ todo = {} /\ queue = Nothing /\ linked = Nothing /\ seen = {} /\ errs = FALSE
    /\ unacked = {} /\ exposed = FALSE
    /\ spare \in 0..MaxEvents

Fault == Event

\* Mutant of Dropped: the errors of a pass are found by the next one.
DroppedKeepingErrors ==
    /\ at' = "idle"
    /\ mode' = "lite" /\ manual' = FALSE /\ pass' = None
    /\ todo' = {} /\ queue' = Nothing /\ linked' = Nothing /\ seen' = {} /\ errs' = errs

\* What an abort, a crash or a return leaves of a pass.
Dropped ==
    /\ at' = "idle"
    /\ mode' = "lite" /\ manual' = FALSE /\ pass' = None
    /\ todo' = {} /\ queue' = Nothing /\ linked' = Nothing /\ seen' = {} /\ errs' = FALSE

-----------------------------------------------------------------------------
(* The user: edits in the folder, and new root paths. *)

Edit(n, c) ==
    /\ Event
    /\ local[n] # c
    /\ local' = [local EXCEPT ![n] = c]
    /\ UNCHANGED <<storeVars, passVars, unacked, confirmed, exposed>>

\* The folder at the new local path: the same entries, or whatever is there.
Relocated(carries) ==
    IF carries THEN UNCHANGED local
    ELSE local' \in {Nothing, local}

\* The loop's task is aborted before the paths change; a pass that a request
\* triggered goes on with what it read.
LoopStopped == IF manual THEN UNCHANGED passVars ELSE Dropped

\* update_relationship: the configuration, then the marker.
UpdateRoot(r, carries) ==
    /\ Event
    /\ r # root \/ ~carries
    /\ root' = r
    /\ Relocated(carries)
    /\ mig' = [old |-> root, carries |-> carries]
    /\ LoopStopped
    /\ exposed' = (exposed \/ mig # None \/ (manual /\ at # "idle"))
    /\ confirmed' = {}
    /\ UNCHANGED <<remote, meta, unacked>>

\* The process stops between the two, or the marker cannot be stored.
UpdateRootUnmarked(r, carries) ==
    /\ Event
    /\ r # root \/ ~carries
    /\ root' = r
    /\ Relocated(carries)
    /\ Dropped
    /\ exposed' = TRUE
    /\ confirmed' = {}
    /\ UNCHANGED <<remote, meta, mig, unacked>>

-----------------------------------------------------------------------------
(* A pass: the scan. *)

PassStart(m, byRequest) ==
    /\ at = "idle"
    /\ at' = "scan"
    /\ mode' = m
    /\ manual' = byRequest
    /\ pass' = [root |-> root, mig |-> mig]
    /\ todo' = Names
    /\ UNCHANGED <<local, storeVars, queue, linked, seen, errs, pastVars>>

RemotePath(n) == Plain(pass.root, n)

\* migration_old_remote_path_for_entry
OldPath(n) ==
    IF pass.mig # None /\ pass.mig.carries THEN Plain(pass.mig.old, n) ELSE None

Inspecting(n) ==
    /\ at = "scan"
    /\ n \in todo

InspectAbsent(n) ==
    /\ Inspecting(n)
    /\ local[n] = None
    /\ todo' = todo \ {n}
    /\ UNCHANGED <<local, storeVars, at, mode, manual, pass, queue, linked, seen, errs, pastVars>>

\* Mutant of InspectEntry: a lite scan skips whatever has a record.
InspectEntryRecorded(n) ==
    /\ Inspecting(n)
    /\ local[n] # None
    /\ todo' = todo \ {n}
    /\ seen' = seen \cup {RemotePath(n)}
    /\ confirmed' = confirmed \cup {RemotePath(n)}
    /\ queue' = IF mode = "lite" /\ meta[RemotePath(n)] # None THEN queue
                ELSE [queue EXCEPT ![n] = local[n]]
    /\ UNCHANGED <<local, storeVars, at, mode, manual, pass, linked, errs, unacked, exposed,
                   spare>>

\* A lite scan skips what is as recorded.
InspectEntry(n) ==
    /\ Inspecting(n)
    /\ local[n] # None
    /\ todo' = todo \ {n}
    /\ seen' = seen \cup {RemotePath(n)}
    /\ confirmed' = confirmed \cup {RemotePath(n)}
    /\ queue' = IF mode = "lite" /\ meta[RemotePath(n)] = local[n] THEN queue
                ELSE [queue EXCEPT ![n] = local[n]]
    /\ UNCHANGED <<local, storeVars, at, mode, manual, pass, linked, errs, unacked, exposed,
                   spare>>

\* symlink_metadata fails and the entry is not seen, or read_link or the mtime
\* after it: an error.
InspectUnreadable(n) ==
    /\ Inspecting(n)
    /\ Fault
    /\ todo' = todo \ {n}
    /\ errs' = TRUE
    /\ \/ UNCHANGED <<seen, confirmed>>
       \/ /\ local[n] # None
          /\ seen' = seen \cup {RemotePath(n)}
          /\ confirmed' = confirmed \cup {RemotePath(n)}
    /\ UNCHANGED <<local, storeVars, at, mode, manual, pass, queue, linked, unacked, exposed>>

PassScanned ==
    /\ at = "scan"
    /\ todo = {}
    /\ at' = "files"
    /\ UNCHANGED <<local, storeVars, mode, manual, pass, todo, queue, linked, seen, errs, pastVars>>

-----------------------------------------------------------------------------
(* A pass: the files.  The moves are tried only for a path with no record. *)

Handling(n) ==
    /\ at = "files"
    /\ n \notin Links /\ queue[n] # None
    /\ queue' = [queue EXCEPT ![n] = None]

\* The record at src names the content, and the remote still holds it there.
Movable(src, n) ==
    /\ meta[RemotePath(n)] = None
    /\ src # None
    /\ src # RemotePath(n)
    /\ meta[src] = local[n]
    /\ remote[src] = local[n]

FromLegacy(n) == local[n] # None /\ Movable(LegacyOf(pass.root, n), n)
FromOldRoot(n) == local[n] # None /\ Movable(OldPath(n), n)

\* The new path already holds the content: an earlier pass moved it.
AtTarget(n) ==
    /\ local[n] # None
    /\ meta[RemotePath(n)] = None
    /\ OldPath(n) # None
    /\ remote[RemotePath(n)] = local[n]

\* The checks before were negative, or failed and were logged.
Not(tries) == IF tries THEN Fault ELSE UNCHANGED spare

FileVanished(n) ==
    /\ Handling(n)
    /\ local[n] = None
    /\ errs' = TRUE
    /\ UNCHANGED <<local, storeVars, at, mode, manual, pass, todo, linked, seen, pastVars>>

FileHashSkip(n) ==
    /\ Handling(n)
    /\ local[n] # None
    /\ meta[RemotePath(n)] = local[n]
    /\ UNCHANGED <<local, storeVars, at, mode, manual, pass, todo, linked, seen, errs, pastVars>>

\* rename_file, then the record of src is deleted and that of the new path stored.
Moved(src, n) ==
    /\ remote' = [remote EXCEPT ![src] = None, ![RemotePath(n)] = local[n]]
    /\ meta' = [meta EXCEPT ![src] = None, ![RemotePath(n)] = local[n]]
    /\ unacked' = unacked \ {src, RemotePath(n)}

FileNormalised(n) ==
    /\ Handling(n)
    /\ FromLegacy(n)
    /\ Moved(LegacyOf(pass.root, n), n)
    /\ UNCHANGED <<local, root, mig, at, mode, manual, pass, todo, linked, seen, errs, confirmed,
                   exposed, spare>>

\* Mutant of FileMigrated: the old record is kept.
FileMigratedKeeping(n) ==
    /\ Handling(n)
    /\ FromOldRoot(n)
    /\ Not(FromLegacy(n))
    /\ remote' = [remote EXCEPT ![OldPath(n)] = None, ![RemotePath(n)] = local[n]]
    /\ meta' = [meta EXCEPT ![RemotePath(n)] = local[n]]
    /\ UNCHANGED <<local, root, mig, at, mode, manual, pass, todo, linked, seen, errs, unacked,
                   confirmed, exposed>>

FileMigrated(n) ==
    /\ Handling(n)
    /\ FromOldRoot(n)
    /\ Not(FromLegacy(n))
    /\ Moved(OldPath(n), n)
    /\ UNCHANGED <<local, root, mig, at, mode, manual, pass, todo, linked, seen, errs, confirmed,
                   exposed>>

\* The rename is refused: an error, and the file waits for the next pass.
FileMigrationFailed(n) ==
    /\ Handling(n)
    /\ FromOldRoot(n)
    /\ Fault
    /\ errs' = TRUE
    /\ UNCHANGED <<local, storeVars, at, mode, manual, pass, todo, linked, seen, unacked, confirmed,
                   exposed>>

\* The rename is applied and its reply lost: an error for a migration, a warning
\* and an upload over it for a legacy path.
FileMoveLost(n) ==
    /\ Handling(n)
    /\ Fault
    /\ \/ /\ FromOldRoot(n)
          /\ remote' = [remote EXCEPT ![OldPath(n)] = None, ![RemotePath(n)] = local[n]]
          /\ unacked' = unacked \cup {OldPath(n), RemotePath(n)}
          /\ errs' = TRUE
          /\ UNCHANGED meta
       \/ /\ FromLegacy(n)
          /\ remote' = [remote EXCEPT ![LegacyOf(pass.root, n)] = None,
                                      ![RemotePath(n)] = local[n]]
          /\ meta' = [meta EXCEPT ![RemotePath(n)] = local[n]]
          /\ unacked' = unacked \cup {LegacyOf(pass.root, n)}
          /\ UNCHANGED errs
    /\ UNCHANGED <<local, root, mig, at, mode, manual, pass, todo, linked, seen, confirmed,
                   exposed>>

\* The process stops after the rename, or after the old record is deleted.
FileMoveCrash(n) ==
    /\ at = "files" /\ n \notin Links /\ queue[n] # None
    /\ local[n] # None
    /\ Fault
    /\ \E src \in {OldPath(n), LegacyOf(pass.root, n)} :
        /\ Movable(src, n)
        /\ remote' = [remote EXCEPT ![src] = None, ![RemotePath(n)] = local[n]]
        /\ \/ UNCHANGED meta
           \/ meta' = [meta EXCEPT ![src] = None]
        /\ unacked' = unacked \cup {src, RemotePath(n)}
    /\ Dropped
    /\ UNCHANGED <<local, root, mig, confirmed, exposed>>

FileAdopted(n) ==
    /\ Handling(n)
    /\ AtTarget(n)
    /\ Not(FromLegacy(n) \/ FromOldRoot(n))
    /\ meta' = [meta EXCEPT ![OldPath(n)] = None, ![RemotePath(n)] = local[n]]
    /\ unacked' = unacked \ {RemotePath(n)}
    /\ UNCHANGED <<local, remote, root, mig, at, mode, manual, pass, todo, linked, seen, errs,
                   confirmed, exposed>>

FileUploaded(n) ==
    /\ Handling(n)
    /\ local[n] # None
    /\ meta[RemotePath(n)] # local[n]
    /\ Not(FromLegacy(n) \/ FromOldRoot(n) \/ AtTarget(n))
    /\ remote' = [remote EXCEPT ![RemotePath(n)] = local[n]]
    /\ meta' = [meta EXCEPT ![RemotePath(n)] = local[n]]
    /\ unacked' = unacked \ {RemotePath(n)}
    /\ UNCHANGED <<local, root, mig, at, mode, manual, pass, todo, linked, seen, errs, confirmed,
                   exposed>>

\* The upload fails, or its reply is lost.
FileUploadFailed(n) ==
    /\ Handling(n)
    /\ local[n] # None
    /\ meta[RemotePath(n)] # local[n]
    /\ Fault
    /\ errs' = TRUE
    /\ \/ UNCHANGED <<remote, unacked>>
       \/ /\ remote' = [remote EXCEPT ![RemotePath(n)] = local[n]]
          /\ unacked' = unacked \cup {RemotePath(n)}
    /\ UNCHANGED <<local, meta, root, mig, at, mode, manual, pass, todo, linked, seen, confirmed,
                   exposed>>

FilesDone ==
    /\ at = "files"
    /\ \A n \in Names \ Links : queue[n] = None
    /\ at' = "links"
    /\ UNCHANGED <<local, storeVars, mode, manual, pass, todo, queue, linked, seen, errs, pastVars>>

-----------------------------------------------------------------------------
(* A pass: the links, several at a time; their records are written together. *)

Linking(n) ==
    /\ at = "links"
    /\ n \in Links /\ queue[n] # None
    /\ queue' = [queue EXCEPT ![n] = None]

\* A lite pass asks first and leaves a link that is there alone.
LinkCurrent(n) ==
    /\ Linking(n)
    /\ mode = "lite" /\ remote[RemotePath(n)] = queue[n]
    /\ linked' = [linked EXCEPT ![n] = queue[n]]
    /\ UNCHANGED <<local, storeVars, at, mode, manual, pass, todo, seen, errs, pastVars>>

LinkCreated(n) ==
    /\ Linking(n)
    /\ Not(mode = "lite" /\ remote[RemotePath(n)] = queue[n])
    /\ remote' = [remote EXCEPT ![RemotePath(n)] = queue[n]]
    /\ linked' = [linked EXCEPT ![n] = queue[n]]
    /\ unacked' = unacked \cup {RemotePath(n)}
    /\ UNCHANGED <<local, meta, root, mig, at, mode, manual, pass, todo, seen, errs,
                   confirmed, exposed>>

\* The link is refused, or created and the reply lost.
LinkFailed(n) ==
    /\ Linking(n)
    /\ Fault
    /\ errs' = TRUE
    /\ \/ UNCHANGED <<remote, unacked>>
       \/ /\ remote' = [remote EXCEPT ![RemotePath(n)] = queue[n]]
          /\ unacked' = unacked \cup {RemotePath(n)}
    /\ UNCHANGED <<local, meta, root, mig, at, mode, manual, pass, todo, linked, seen,
                   confirmed, exposed>>

-----------------------------------------------------------------------------
(* The end of a pass: records, deletions, the marker. *)

UnderBase(p, r) == p[1] \in Under[r]

\* The records that the pushed links add.
LinkRecords ==
    [p \in Path |-> IF p[3] = "plain" /\ p[1] = pass.root /\ linked[p[2]] # None
                    THEN linked[p[2]] ELSE meta[p]]

\* cleanup_unseen_migration_metadata, only when nothing went wrong so far.
Stale(m) ==
    IF pass.mig # None /\ ~errs
    THEN {p \in Path : m[p] # None /\ UnderBase(p, pass.mig.old) /\ p \notin seen}
    ELSE {}

\* Mutant of Deletable: the old root is not spared.
DeletableAnywhere(m) == {p \in Path : m[p] # None /\ p \notin seen}

\* Recorded, not found on disk, and not under the old root of a migration.
Deletable(m) ==
    {p \in Path : /\ m[p] # None
                  /\ p \notin seen
                  /\ pass.mig # None => ~UnderBase(p, pass.mig.old)}

LinksDone ==
    /\ at = "links"
    /\ queue = Nothing
    /\ at' = "delete"
    /\ meta' = [p \in Path |-> IF p \in Stale(LinkRecords) THEN None ELSE LinkRecords[p]]
    /\ unacked' = unacked \ {RemotePath(n) : n \in {k \in Names : linked[k] # None}}
    /\ linked' = Nothing
    /\ todo' = Deletable(meta')
    /\ UNCHANGED <<local, remote, root, mig, mode, manual, pass, queue, seen, errs,
                   confirmed, exposed, spare>>

Deleting(p) ==
    /\ at = "delete"
    /\ p \in todo
    /\ todo' = todo \ {p}

DeleteOk(p) ==
    /\ Deleting(p)
    /\ remote[p] # None
    /\ remote' = [remote EXCEPT ![p] = None]
    /\ meta' = [meta EXCEPT ![p] = None]
    /\ unacked' = unacked \ {p}
    /\ UNCHANGED <<local, root, mig, at, mode, manual, pass, queue, linked, seen, errs,
                   confirmed, exposed, spare>>

\* Refused, or answered 404 because it is gone; or deleted and the reply lost.
DeleteFailed(p) ==
    /\ Deleting(p)
    /\ errs' = TRUE
    /\ \/ remote[p] = None /\ UNCHANGED <<remote, unacked, spare>>
       \/ Fault /\ UNCHANGED <<remote, unacked>>
       \/ /\ Fault
          /\ remote' = [remote EXCEPT ![p] = None]
          /\ unacked' = unacked \cup {p}
    /\ UNCHANGED <<local, meta, root, mig, at, mode, manual, pass, queue, linked, seen,
                   confirmed, exposed>>

\* clear_path_migration, if the pass had a migration and no error.
Outcome == IF pass.mig # None /\ ~errs THEN None ELSE mig

PassDone ==
    /\ at = "delete"
    /\ todo = {}
    /\ mig' = Outcome
    /\ Dropped
    /\ UNCHANGED <<local, remote, meta, root, pastVars>>

PassAborted ==
    /\ at # "idle"
    /\ Fault
    /\ Dropped
    /\ UNCHANGED <<local, storeVars, unacked, confirmed, exposed>>

-----------------------------------------------------------------------------
FileStep(n) ==
    \/ FileVanished(n) \/ FileHashSkip(n) \/ FileNormalised(n) \/ FileMigrated(n)
    \/ FileMigrationFailed(n) \/ FileMoveLost(n) \/ FileMoveCrash(n)
    \/ FileAdopted(n) \/ FileUploaded(n) \/ FileUploadFailed(n)

PassStep ==
    \/ \E m \in {"lite", "full"}, q \in BOOLEAN : PassStart(m, q)
    \/ \E n \in Names :
        \/ InspectAbsent(n) \/ InspectEntry(n) \/ InspectUnreadable(n)
        \/ FileStep(n)
        \/ LinkCurrent(n) \/ LinkCreated(n) \/ LinkFailed(n)
    \/ PassScanned \/ FilesDone \/ LinksDone
    \/ \E p \in Path : DeleteOk(p) \/ DeleteFailed(p)
    \/ PassDone

User ==
    \/ \E n \in Names, c \in Contents \cup {None} : Edit(n, c)
    \/ \E r \in Roots, k \in BOOLEAN : UpdateRoot(r, k) \/ UpdateRootUnmarked(r, k)

MoveNext == PassStep \/ PassAborted \/ User

MoveSpec == MoveInit /\ [][MoveNext]_moveVars

\* The loop's safety-net timer starts passes, and a pass runs to its end.
MoveFairSpec == MoveSpec /\ WF_moveVars(PassStep)

-----------------------------------------------------------------------------
(* Properties. *)

\* A change of the root deletes nothing remotely: a pass deletes only paths whose
\* files it, or an earlier pass, found on disk under the present root, as long as
\* every change of the root has its marker when the next pass starts.
DeletesAreOfThisRoot ==
    [][\A p \in Path : remote[p] # None /\ remote'[p] = None /\ at = "delete"
            => exposed \/ p \in confirmed]_moveVars

\* A record names what the remote holds at its path, through moves, adoptions and
\* crashes between a rename and the records, unless the path's last request has no
\* recorded outcome.
RecordsHonest ==
    \A p \in Path : meta[p] # None => p \in unacked \/ remote[p] = meta[p]

\* Nothing repairs a path whose lost outcome the records happen to agree with.
Shadowed(p, c) == p \in unacked /\ meta[p] = c

\* Once the user and the faults are done, every entry is at its path of the
\* present root, whatever state the changes of the root left behind.
EntriesArrive ==
    <>[](\A n \in Names : local[n] # None =>
            \/ remote[Plain(root, n)] = local[n]
            \/ Shadowed(Plain(root, n), local[n]))

\* A record whose remote file is gone and which no entry of the folder has.
Unanswerable(p) == meta[p] # None /\ remote[p] = None

\* The marker is cleared in the end, unless a record is left whose remote file is
\* gone: its delete is answered 404, an error in every pass.
MigrationEnds == <>[](mig = None \/ \E p \in Path : Unanswerable(p))
=============================================================================
