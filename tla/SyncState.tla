----------------------------- MODULE SyncState -----------------------------
(***************************************************************************)
(* The state that the two directions of a synchronisation share: the local *)
(* folder, the remote tree, and the metadata store that remembers, for     *)
(* every file, what was last known to be the same on both sides.           *)
(*                                                                         *)
(* A file name is a member of Files, a content (and its hash: the hash is  *)
(* collision free) a member of Contents.  A local file and a metadata      *)
(* record are both a Version: a content and the modification time it was   *)
(* seen with.                                                              *)
(***************************************************************************)
EXTENDS Naturals, FiniteSets

CONSTANTS
    Files,      \* the paths of one relationship
    Contents,   \* what a file can hold, identified with its content hash
    SizeOf,     \* the length in bytes of a content
    Territories, \* what child relationships may own: see child
    None,       \* no such file, no such record
    MaxClock,   \* bound: changes made by users and other clients
    MaxFaults   \* bound: faults and changes of the filter and the children

Version == [data : Contents, mtime : Nat]

\* What belongs to children: files in their folders, files under their remote paths.
Territory == [local : SUBSET Files, remote : SUBSET Files]

ASSUME SizeOfType  == SizeOf \in [Contents -> Nat]
ASSUME NoneIsFresh == None \notin Contents /\ None \notin Version
ASSUME TerritoryType == Territories \subseteq Territory
ASSUME WorldBounds == MaxClock \in Nat /\ MaxFaults \in Nat

VARIABLES
    local,      \* Files -> Version or None, the folder on disk
    remote,     \* Files -> Contents or None, the tree of the remote database
    meta,       \* Files -> Version or None, the stored FileSyncMeta records
    clock,      \* logical time: the modification time of the latest local write
    included,   \* the files that the relationship's filter matches
    child,      \* the files in the local folders and under the remote paths of children
    faults      \* history: faults and changes of the filter and the children so far

treeVars  == <<local, remote, meta, clock>>
worldVars == <<treeVars, included, child, faults>>

WorldTypeOK ==
    /\ local  \in [Files -> Version \cup {None}]
    /\ remote \in [Files -> Contents \cup {None}]
    /\ meta   \in [Files -> Version \cup {None}]
    /\ clock  \in Nat
    /\ included \subseteq Files
    /\ child \in Territories
    /\ faults \in Nat

\* The entries of a partial map kept as a total function into None.
Present(m) == {f \in Files : m[f] # None}

\* m with every entry of upd written over it: a batch of metadata writes.
Overlay(m, upd) == [f \in Files |-> IF upd[f] # None THEN upd[f] ELSE m[f]]

Empty == [f \in Files |-> None]

DataOf(v) == IF v = None THEN None ELSE v.data

\* Mutant of LiteUnchanged: the modification time is not compared.
LiteUnchangedBySize(rec, file) == rec # None /\ SizeOf[rec.data] = SizeOf[file.data]

\* The cheap unchanged predicate of a lite scan: size and modification time.
\* Every record is stored as Synced, and its size is that of the content hashed.
LiteUnchanged(rec, file) ==
    /\ rec # None
    /\ SizeOf[rec.data] = SizeOf[file.data]
    /\ rec.mtime = file.mtime

-----------------------------------------------------------------------------
\* A local program writes the file; the file system stamps it with a fresh time.
LocalWrite(f, c) ==
    /\ clock < MaxClock
    /\ clock' = clock + 1
    /\ local' = [local EXCEPT ![f] = [data |-> c, mtime |-> clock + 1]]
    /\ UNCHANGED <<remote, meta, included, child, faults>>

LocalRemove(f) ==
    /\ local[f] # None
    /\ local' = [local EXCEPT ![f] = None]
    /\ UNCHANGED <<remote, meta, clock, included, child, faults>>

\* One more of the things that go wrong.
Fault == faults < MaxFaults /\ faults' = faults + 1

\* The user edits the filter.
FilterChange(S) ==
    /\ S # included
    /\ included' = S
    /\ Fault
    /\ UNCHANGED <<treeVars, child>>

\* Relationships inside this one are created, moved or deleted.  Their folders and
\* their remote paths need not be nested in the same way.
ChildrenChange(t) ==
    /\ t # child
    /\ child' = t
    /\ Fault
    /\ UNCHANGED <<treeVars, included>>
=============================================================================
