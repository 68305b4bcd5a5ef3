------------------------ MODULE PathMigrationProofs ------------------------
(***************************************************************************)
(* Proofs about PathMigration, for any entries, contents and roots and any *)
(* number of edits, faults and changes of the root: types, what a pass may *)
(* delete, and what the records may be trusted for.                        *)
(***************************************************************************)
EXTENDS PathMigration, TLAPS

USE MaxEventsIsNat, NoneIsNothing

-----------------------------------------------------------------------------
(* Paths. *)

LEMMA PlainPath ==
    ASSUME NEW r \in Roots, NEW n \in Names
    PROVE  /\ Plain(r, n) \in Path /\ Plain(r, n)[1] = r /\ Plain(r, n)[2] = n
           /\ LegacyOf(r, n) \in Path /\ LegacyOf(r, n) # Plain(r, n)
BY DEF Plain, LegacyOf, Path

\* Entries of one root have paths of their own.
LEMMA PlainApart ==
    ASSUME NEW r \in Roots, NEW n \in Names, NEW k \in Names, Plain(r, n) = Plain(r, k)
    PROVE  n = k
BY DEF Plain

\* The only path of an entry that is spelt as today.
LEMMA PlainOnly ==
    ASSUME NEW p \in Path, p[3] = "plain"
    PROVE  p = Plain(p[1], p[2]) /\ p[1] \in Roots /\ p[2] \in Names
BY DEF Plain, Path

LEMMA OldPathTyped ==
    ASSUME MoveTypeOK, at # "idle", NEW n \in Names
    PROVE  OldPath(n) \in Path \cup {None}
<1>1. pass \in [root : Roots, mig : Marker \cup {None}]
  BY DEF MoveTypeOK
<1>2. CASE pass.mig # None /\ pass.mig.carries
  <2>1. pass.mig \in Marker
    BY <1>1, <1>2
  <2>2. pass.mig.old \in Roots
    BY <2>1 DEF Marker
  <2> QED
    BY <1>2, <2>2, PlainPath DEF OldPath
<1> QED
  BY <1>2 DEF OldPath

-----------------------------------------------------------------------------
(* Types. *)

LEMMA MoveTypeInit == MoveInit => MoveTypeOK
<1> SUFFICES ASSUME MoveInit PROVE MoveTypeOK
  OBVIOUS
<1>1. remote \in [Path -> Contents \cup {None}]
  <2>1. PICK older \in SUBSET Legacy :
          remote = [p \in Path |-> IF p = SyncedAs(p[2], root, older) THEN local[p[2]] ELSE None]
    BY DEF MoveInit
  <2>2. \A p \in Path : p[2] \in Names
    BY DEF Path
  <2> QED
    BY <2>1, <2>2 DEF MoveInit
<1> QED
  BY <1>1 DEF MoveInit, MoveTypeOK, Nothing

\* What a pass leaves behind has its types.
LEMMA DroppedTyped ==
    ASSUME Dropped
    PROVE  /\ at' = "idle" /\ mode' \in {"lite", "full"} /\ manual' \in BOOLEAN /\ pass' = None
           /\ todo' \subseteq Names /\ queue' \in [Names -> Contents \cup {None}]
           /\ linked' \in [Names -> Contents \cup {None}]
           /\ seen' \subseteq Path /\ errs' \in BOOLEAN
BY DEF Dropped, Nothing

LEMMA TypeUser ==
    ASSUME MoveTypeOK, User
    PROVE  MoveTypeOK'
<1>1. CASE \E n \in Names, c \in Contents \cup {None} : Edit(n, c)
  BY <1>1 DEF Edit, Event, MoveTypeOK, storeVars, passVars
<1>2. ASSUME NEW r \in Roots, NEW k \in BOOLEAN, UpdateRoot(r, k) \/ UpdateRootUnmarked(r, k)
      PROVE  MoveTypeOK'
  <2>1. local' \in [Names -> Contents \cup {None}]
    BY <1>2 DEF UpdateRoot, UpdateRootUnmarked, Relocated, Nothing, MoveTypeOK
  <2>2. root' \in Roots /\ mig' \in Marker \cup {None}
    BY <1>2 DEF UpdateRoot, UpdateRootUnmarked, Marker, MoveTypeOK
  <2>3. spare' \in 0..MaxEvents
    BY <1>2 DEF UpdateRoot, UpdateRootUnmarked, Event, MoveTypeOK
  <2>4. UNCHANGED <<remote, meta, unacked>> /\ confirmed' = {}
    BY <1>2 DEF UpdateRoot, UpdateRootUnmarked
  <2>5. exposed' \in BOOLEAN
    BY <1>2, ZenonT(30) DEF UpdateRoot, UpdateRootUnmarked, MoveTypeOK
  <2>6. CASE Dropped
    BY <2>1, <2>2, <2>3, <2>4, <2>5, <2>6, DroppedTyped DEF MoveTypeOK
  <2>7. CASE UNCHANGED passVars
    BY <2>1, <2>2, <2>3, <2>4, <2>5, <2>7 DEF MoveTypeOK, passVars
  <2> QED
    BY <1>2, <2>6, <2>7 DEF UpdateRoot, UpdateRootUnmarked, LoopStopped
<1> QED
  BY <1>1, <1>2 DEF User

LEMMA TypeStart ==
    ASSUME MoveTypeOK, NEW m \in {"lite", "full"}, NEW q \in BOOLEAN, PassStart(m, q)
    PROVE  MoveTypeOK'
<1>1. pass' \in [root : Roots, mig : Marker \cup {None}]
  BY DEF PassStart, MoveTypeOK
<1> QED
  BY <1>1 DEF PassStart, MoveTypeOK, storeVars, pastVars

LEMMA TypeScan ==
    ASSUME MoveTypeOK, NEW n \in Names,
           InspectAbsent(n) \/ InspectEntry(n) \/ InspectUnreadable(n)
    PROVE  MoveTypeOK'
<1>2. ASSUME Inspecting(n) PROVE RemotePath(n) \in Path
  BY <1>2, PlainPath DEF Inspecting, RemotePath, MoveTypeOK
<1>3. CASE InspectAbsent(n)
  BY <1>3 DEF InspectAbsent, Inspecting, MoveTypeOK, storeVars, pastVars
<1>4. CASE InspectEntry(n)
  <2>1. local[n] \in Contents /\ RemotePath(n) \in Path
    BY <1>2, <1>4 DEF InspectEntry, MoveTypeOK
  <2>2. queue' \in [Names -> Contents \cup {None}]
    BY <1>4, <2>1 DEF InspectEntry, MoveTypeOK
  <2> QED
    BY <1>4, <2>1, <2>2 DEF InspectEntry, Inspecting, MoveTypeOK, storeVars
<1>5. CASE InspectUnreadable(n)
  <2>1. RemotePath(n) \in Path
    BY <1>2, <1>5 DEF InspectUnreadable
  <2> QED
    BY <1>5, <2>1 DEF InspectUnreadable, Inspecting, Fault, Event, MoveTypeOK, storeVars
<1> QED
  BY <1>3, <1>4, <1>5

LEMMA TypeFile ==
    ASSUME MoveTypeOK, NEW n \in Names, FileStep(n)
    PROVE  MoveTypeOK'
<1> USE DEF MoveTypeOK
<1>1. /\ at = "files" /\ local[n] \in Contents \cup {None}
      /\ RemotePath(n) \in Path /\ LegacyOf(pass.root, n) \in Path
      /\ OldPath(n) \in Path \cup {None}
  <2>1. at = "files"
    BY DEF FileStep, FileVanished, FileHashSkip, FileNormalised, FileMigrated,
           FileMigrationFailed, FileMoveLost, FileMoveCrash, FileAdopted, FileUploaded,
           FileUploadFailed, Handling
  <2>2. pass \in [root : Roots, mig : Marker \cup {None}]
    BY <2>1
  <2> QED
    BY <2>1, <2>2, PlainPath, OldPathTyped DEF RemotePath
<1>2. ASSUME Handling(n) PROVE queue' \in [Names -> Contents \cup {None}]
  BY <1>2 DEF Handling
<1>3. ASSUME NEW b \in BOOLEAN, Not(b) PROVE spare' \in 0..MaxEvents
  BY <1>3 DEF Not, Fault, Event
<1>4. CASE FileVanished(n) \/ FileHashSkip(n)
  BY <1>1, <1>2, <1>4 DEF FileVanished, FileHashSkip, storeVars, pastVars
<1>5. CASE FileNormalised(n)
  BY <1>1, <1>2, <1>5 DEF FileNormalised, Moved
<1>6. CASE FileMigrated(n)
  <2>1. FromLegacy(n) \in BOOLEAN
    BY DEF FromLegacy
  <2>2. spare' \in 0..MaxEvents
    BY <1>6, <2>1, <1>3 DEF FileMigrated
  <2>3. OldPath(n) \in Path
    BY <1>1, <1>6 DEF FileMigrated, FromOldRoot, Movable
  <2> QED
    BY <1>1, <1>2, <1>6, <2>2, <2>3 DEF FileMigrated, Moved
<1>7. CASE FileMigrationFailed(n)
  BY <1>1, <1>2, <1>7 DEF FileMigrationFailed, Fault, Event, storeVars
<1>8. CASE FileMoveLost(n)
  <2>1. /\ spare' \in 0..MaxEvents
        /\ UNCHANGED <<local, root, mig, at, mode, manual, pass, todo, linked, seen, confirmed,
                       exposed>>
    BY <1>8 DEF FileMoveLost, Fault, Event
  <2>2. /\ remote' \in [Path -> Contents \cup {None}] /\ unacked' \subseteq Path
        /\ meta' \in [Path -> Contents \cup {None}] /\ errs' \in BOOLEAN
    <3>1. ASSUME FromOldRoot(n) PROVE OldPath(n) \in Path
      BY <1>1, <3>1 DEF FromOldRoot, Movable
    <3> QED
      BY <1>1, <1>8, <3>1 DEF FileMoveLost
  <2>3. queue' \in [Names -> Contents \cup {None}]
    BY <1>2, <1>8 DEF FileMoveLost
  <2> QED
    BY <1>1, <2>1, <2>2, <2>3
<1>9. CASE FileMoveCrash(n)
  <2>1. PICK src \in {OldPath(n), LegacyOf(pass.root, n)} :
          /\ Movable(src, n)
          /\ remote' = [remote EXCEPT ![src] = None, ![RemotePath(n)] = local[n]]
          /\ \/ UNCHANGED meta
             \/ meta' = [meta EXCEPT ![src] = None]
          /\ unacked' = unacked \cup {src, RemotePath(n)}
    BY <1>9 DEF FileMoveCrash
  <2>2. src \in Path
    BY <1>1, <2>1 DEF Movable
  <2> QED
    BY <1>1, <1>9, <2>1, <2>2, DroppedTyped DEF FileMoveCrash, Fault, Event
<1>10. CASE FileAdopted(n)
  <2>1. spare' \in 0..MaxEvents
    BY <1>10 DEF FileAdopted, Not, Fault, Event
  <2>2. OldPath(n) \in Path
    BY <1>1, <1>10 DEF FileAdopted, AtTarget
  <2> QED
    BY <1>1, <1>2, <1>10, <2>1, <2>2 DEF FileAdopted
<1>11. CASE FileUploaded(n)
  <2>1. spare' \in 0..MaxEvents
    BY <1>11 DEF FileUploaded, Not, Fault, Event
  <2> QED
    BY <1>1, <1>2, <1>11, <2>1 DEF FileUploaded
<1>12. CASE FileUploadFailed(n)
  BY <1>1, <1>2, <1>12 DEF FileUploadFailed, Fault, Event
<1> QED
  BY <1>4, <1>5, <1>6, <1>7, <1>8, <1>9, <1>10, <1>11, <1>12 DEF FileStep

LEMMA LinkRecordsTyped ==
    ASSUME MoveTypeOK
    PROVE  LinkRecords \in [Path -> Contents \cup {None}]
<1>1. \A p \in Path : p[2] \in Names
  BY DEF Path
<1> QED
  BY <1>1 DEF LinkRecords, MoveTypeOK

LEMMA TypeLinks ==
    ASSUME MoveTypeOK, NEW n \in Names,
           LinkCurrent(n) \/ LinkCreated(n) \/ LinkFailed(n)
    PROVE  MoveTypeOK'
<1> USE DEF MoveTypeOK
<1>2. ASSUME Linking(n)
      PROVE  /\ at = "links" /\ queue[n] \in Contents \cup {None} /\ RemotePath(n) \in Path
             /\ queue' \in [Names -> Contents \cup {None}]
  BY <1>2, PlainPath DEF Linking, RemotePath
<1>3. CASE LinkCurrent(n)
  BY <1>2, <1>3 DEF LinkCurrent, storeVars, pastVars
<1>4. CASE LinkCreated(n)
  <2>1. spare' \in 0..MaxEvents
    BY <1>4 DEF LinkCreated, Not, Fault, Event
  <2> QED
    BY <1>2, <1>4, <2>1 DEF LinkCreated
<1>5. CASE LinkFailed(n)
  BY <1>2, <1>5 DEF LinkFailed, Fault, Event
<1> QED
  BY <1>3, <1>4, <1>5

LEMMA TypePhase ==
    ASSUME MoveTypeOK, PassScanned \/ FilesDone \/ LinksDone
    PROVE  MoveTypeOK'
<1> USE DEF MoveTypeOK
<1>1. CASE PassScanned \/ FilesDone
  BY <1>1 DEF PassScanned, FilesDone, storeVars, pastVars
<1>2. CASE LinksDone
  <2>1. meta' \in [Path -> Contents \cup {None}]
    BY <1>2, LinkRecordsTyped DEF LinksDone
  <2>2. todo' \subseteq Path
    BY <1>2 DEF LinksDone, Deletable
  <2>3. linked' \in [Names -> Contents \cup {None}]
    BY <1>2 DEF LinksDone, Nothing
  <2> QED
    BY <1>2, <2>1, <2>2, <2>3 DEF LinksDone
<1> QED
  BY <1>1, <1>2

LEMMA TypeEnd ==
    ASSUME MoveTypeOK,
           \/ \E p \in Path : DeleteOk(p) \/ DeleteFailed(p)
           \/ PassDone \/ PassAborted
    PROVE  MoveTypeOK'
<1> USE DEF MoveTypeOK
<1>1. ASSUME NEW p \in Path, DeleteOk(p) PROVE MoveTypeOK'
  BY <1>1 DEF DeleteOk, Deleting
<1>2. ASSUME NEW p \in Path, DeleteFailed(p) PROVE MoveTypeOK'
  <2>1. spare' \in 0..MaxEvents
    BY <1>2 DEF DeleteFailed, Fault, Event
  <2> QED
    BY <1>2, <2>1 DEF DeleteFailed, Deleting
<1>3. CASE PassDone
  BY <1>3, DroppedTyped DEF PassDone, Outcome, pastVars
<1>4. CASE PassAborted
  BY <1>4, DroppedTyped DEF PassAborted, Fault, Event, storeVars
<1> QED
  BY <1>1, <1>2, <1>3, <1>4

LEMMA MoveTypeNext == MoveTypeOK /\ [MoveNext]_moveVars => MoveTypeOK'
<1> SUFFICES ASSUME MoveTypeOK, [MoveNext]_moveVars PROVE MoveTypeOK'
  OBVIOUS
<1>1. CASE UNCHANGED moveVars
  BY <1>1 DEF MoveTypeOK, moveVars, storeVars, passVars, pastVars
<1>2. CASE User
  BY <1>2, TypeUser
<1>3. CASE PassAborted
  BY <1>3, TypeEnd
<1>4. CASE PassStep
  <2>1. ASSUME NEW m \in {"lite", "full"}, NEW q \in BOOLEAN, PassStart(m, q)
        PROVE  MoveTypeOK'
    BY <2>1, TypeStart
  <2>2. ASSUME NEW n \in Names,
               \/ InspectAbsent(n) \/ InspectEntry(n) \/ InspectUnreadable(n)
        PROVE  MoveTypeOK'
    BY <2>2, TypeScan
  <2>3. ASSUME NEW n \in Names, FileStep(n) PROVE MoveTypeOK'
    BY <2>3, TypeFile
  <2>4. ASSUME NEW n \in Names, LinkCurrent(n) \/ LinkCreated(n) \/ LinkFailed(n)
        PROVE  MoveTypeOK'
    BY <2>4, TypeLinks
  <2>5. CASE PassScanned \/ FilesDone \/ LinksDone
    BY <2>5, TypePhase
  <2>6. CASE (\E p \in Path : DeleteOk(p) \/ DeleteFailed(p)) \/ PassDone
    BY <2>6, TypeEnd
  <2> QED
    BY <1>4, <2>1, <2>2, <2>3, <2>4, <2>5, <2>6 DEF PassStep
<1> QED
  BY <1>1, <1>2, <1>3, <1>4 DEF MoveNext

\* The variables keep their types, for any entries, contents and roots: the state
\* of push_sync's migration code over every interleaving with the user.
THEOREM MoveTypeCorrect == MoveSpec => []MoveTypeOK
BY MoveTypeInit, MoveTypeNext, PTL DEF MoveSpec

-----------------------------------------------------------------------------
(* What a pass deletes.  The property speaks of one step; what makes it true is *)
(* where the records come from.                                                 *)

\* As long as every change of the root is told by the marker: the confirmed paths
\* are of the present root, and a record is confirmed or under the old root.
Settled ==
    ~exposed =>
        /\ \A p \in confirmed : p[1] = root
        /\ \A p \in Path : meta[p] # None =>
              p \in confirmed \/ (mig # None /\ UnderBase(p, mig.old))

\* A pass then works on the stored root and marker, what it handles it has seen, and
\* what it is about to delete is confirmed; so is everything that is recorded once
\* the records of the old root are gone.
Running ==
    ~exposed /\ at # "idle" =>
        /\ pass.root = root /\ pass.mig = mig
        /\ seen \subseteq confirmed
        /\ \A n \in Names : queue[n] # None \/ linked[n] # None => RemotePath(n) \in seen
        /\ at = "delete" => todo \subseteq confirmed
        /\ at = "delete" /\ ~errs /\ mig # None =>
              \A p \in Path : meta[p] # None => p \in confirmed

\* No pass, nothing left of one.
AtRest == at = "idle" => seen = {} /\ queue = Nothing /\ linked = Nothing

Owned == MoveTypeOK /\ AtRest /\ Settled /\ Running

\* A step of a file adds at most the record of its own path, and ends the pass or
\* leaves it where it is.
LEMMA FileEffect ==
    ASSUME MoveTypeOK, NEW n \in Names, FileStep(n)
    PROVE  /\ at = "files" /\ queue[n] # None
           /\ UNCHANGED <<root, mig, confirmed, exposed>>
           /\ \/ Dropped
              \/ /\ UNCHANGED <<at, pass, todo, linked, seen>>
                 /\ queue' = [queue EXCEPT ![n] = None]
           /\ \A p \in Path : meta'[p] # None => meta[p] # None \/ p = RemotePath(n)
<1>1. CASE FileVanished(n) \/ FileHashSkip(n)
  BY <1>1 DEF FileVanished, FileHashSkip, Handling, storeVars, pastVars
<1>2. CASE FileNormalised(n) \/ FileMigrated(n)
  BY <1>2 DEF FileNormalised, FileMigrated, Moved, Handling, MoveTypeOK
<1>3. CASE FileMigrationFailed(n) \/ FileUploadFailed(n)
  BY <1>3 DEF FileMigrationFailed, FileUploadFailed, Handling, storeVars
<1>4. CASE FileMoveLost(n)
  BY <1>4 DEF FileMoveLost, Handling, MoveTypeOK
<1>5. CASE FileMoveCrash(n)
  BY <1>5 DEF FileMoveCrash, MoveTypeOK
<1>6. CASE FileAdopted(n) \/ FileUploaded(n)
  BY <1>6 DEF FileAdopted, FileUploaded, Handling, MoveTypeOK
<1> QED
  BY <1>1, <1>2, <1>3, <1>4, <1>5, <1>6 DEF FileStep

LEMMA OwnedInit == MoveInit => AtRest /\ Settled /\ Running
<1> SUFFICES ASSUME MoveInit PROVE AtRest /\ Settled /\ Running
  OBVIOUS
<1>1. \A p \in Path : meta[p] # None => p[1] = root
  <2>1. PICK older \in SUBSET Legacy :
          remote = [p \in Path |-> IF p = SyncedAs(p[2], root, older) THEN local[p[2]] ELSE None]
    BY DEF MoveInit
  <2>2. \A p \in Path : SyncedAs(p[2], root, older)[1] = root
    BY DEF SyncedAs, Plain, LegacyOf
  <2> QED
    BY <2>1, <2>2 DEF MoveInit
<1> QED
  BY <1>1 DEF MoveInit, AtRest, Settled, Running

LEMMA OwnedUser ==
    ASSUME Owned, User
    PROVE  Settled' /\ Running'
<1> USE DEF Owned
<1>1. CASE \E n \in Names, c \in Contents \cup {None} : Edit(n, c)
  BY <1>1 DEF Edit, Settled, Running, UnderBase, RemotePath, storeVars, passVars
<1>2. ASSUME NEW r \in Roots, NEW k \in BOOLEAN, UpdateRoot(r, k)
      PROVE  Settled' /\ Running'
  <2> SUFFICES ASSUME ~exposed' PROVE Settled' /\ Running'
    BY DEF Settled, Running
  <2>1. ~exposed /\ mig = None /\ (manual => at = "idle")
    BY <1>2 DEF UpdateRoot
  <2>2. mig' = [old |-> root, carries |-> k] /\ confirmed' = {} /\ UNCHANGED meta
    BY <1>2 DEF UpdateRoot
  <2>3. mig' # None /\ mig'.old = root
    BY <2>2 DEF Marker, MoveTypeOK
  <2>4. \A p \in Path : meta[p] # None => p[1] = root
    BY <2>1 DEF Settled
  <2>5. \A p \in Path : meta'[p] # None => UnderBase(p, mig'.old)
    BY <2>2, <2>3, <2>4, UnderItself DEF UnderBase, MoveTypeOK
  <2>6. at' = "idle"
    BY <1>2, <2>1 DEF UpdateRoot, LoopStopped, Dropped, passVars
  <2> QED
    BY <2>2, <2>3, <2>5, <2>6 DEF Settled, Running, UnderBase
<1>3. ASSUME NEW r \in Roots, NEW k \in BOOLEAN, UpdateRootUnmarked(r, k)
      PROVE  Settled' /\ Running'
  BY <1>3 DEF UpdateRootUnmarked, Settled, Running
<1> QED
  BY <1>1, <1>2, <1>3 DEF User

LEMMA OwnedStart ==
    ASSUME Owned, NEW m \in {"lite", "full"}, NEW q \in BOOLEAN, PassStart(m, q)
    PROVE  Settled' /\ Running'
<1>1. UNCHANGED <<meta, root, mig, confirmed, exposed>>
  BY DEF PassStart, storeVars, pastVars
<1>2. seen = {} /\ queue = Nothing /\ linked = Nothing
  BY DEF PassStart, Owned, AtRest
<1> QED
  BY <1>1, <1>2 DEF PassStart, Owned, Settled, Running, UnderBase, RemotePath, Nothing

LEMMA AtRestNext == AtRest /\ [MoveNext]_moveVars => AtRest'
<1> SUFFICES ASSUME AtRest, [MoveNext]_moveVars PROVE AtRest'
  OBVIOUS
<1>1. CASE UNCHANGED moveVars
  BY <1>1 DEF AtRest, moveVars, passVars
<1>2. CASE Dropped
  BY <1>2 DEF Dropped, AtRest
<1>3. CASE UNCHANGED passVars
  BY <1>3 DEF AtRest, passVars
<1>4. CASE at' # "idle"
  BY <1>4 DEF AtRest
<1>5. CASE User
  <2>1. Dropped \/ UNCHANGED passVars
    BY <1>5 DEF User, Edit, UpdateRoot, UpdateRootUnmarked, LoopStopped
  <2> QED
    BY <1>2, <1>3, <2>1
<1>6. CASE PassAborted \/ PassDone
  BY <1>2, <1>6 DEF PassAborted, PassDone
<1>7. CASE \E m \in {"lite", "full"}, q \in BOOLEAN : PassStart(m, q)
  BY <1>4, <1>7 DEF PassStart
<1>8. CASE PassScanned \/ FilesDone \/ LinksDone
  BY <1>4, <1>8 DEF PassScanned, FilesDone, LinksDone
<1>9. ASSUME NEW n \in Names, InspectAbsent(n) \/ InspectEntry(n) \/ InspectUnreadable(n)
      PROVE  AtRest'
  BY <1>4, <1>9 DEF InspectAbsent, InspectEntry, InspectUnreadable, Inspecting
<1>10. ASSUME NEW n \in Names, FileStep(n) PROVE AtRest'
  <2>1. Dropped \/ at' = "files"
    BY <1>10 DEF FileStep, FileVanished, FileHashSkip, FileNormalised, FileMigrated,
           FileMigrationFailed, FileMoveLost, FileMoveCrash, FileAdopted, FileUploaded,
           FileUploadFailed, Handling
  <2> QED
    BY <1>2, <1>4, <2>1
<1>11. ASSUME NEW n \in Names, LinkCurrent(n) \/ LinkCreated(n) \/ LinkFailed(n) PROVE AtRest'
  BY <1>4, <1>11 DEF LinkCurrent, LinkCreated, LinkFailed, Linking
<1>12. ASSUME NEW p \in Path, DeleteOk(p) \/ DeleteFailed(p) PROVE AtRest'
  BY <1>4, <1>12 DEF DeleteOk, DeleteFailed, Deleting
<1> QED
  BY <1>1, <1>5, <1>6, <1>7, <1>8, <1>9, <1>10, <1>11, <1>12 DEF MoveNext, PassStep

LEMMA OwnedScan ==
    ASSUME Owned, NEW n \in Names,
           InspectAbsent(n) \/ InspectEntry(n) \/ InspectUnreadable(n)
    PROVE  Settled' /\ Running'
<1> USE DEF Owned
<1>1. /\ at = "scan" /\ UNCHANGED <<at, meta, root, mig, pass, linked, exposed>>
      /\ \/ UNCHANGED <<seen, confirmed>>
         \/ /\ seen' = seen \cup {RemotePath(n)}
            /\ confirmed' = confirmed \cup {RemotePath(n)}
      /\ \A k \in Names : queue'[k] # None => queue[k] # None \/ (k = n /\ RemotePath(n) \in seen')
  BY DEF InspectAbsent, InspectEntry, InspectUnreadable, Inspecting, storeVars, pastVars,
         MoveTypeOK
<1>2. pass.root \in Roots /\ RemotePath(n)[1] = pass.root
  BY <1>1, PlainPath DEF MoveTypeOK, RemotePath
<1>3. \A k \in Names : RemotePath(k)' = RemotePath(k)
  BY <1>1 DEF RemotePath
<1>4. Settled'
  BY <1>1, <1>2 DEF Settled, Running, UnderBase
<1>5. Running'
  BY <1>1, <1>3 DEF Running
<1> QED
  BY <1>4, <1>5

LEMMA OwnedFile ==
    ASSUME Owned, NEW n \in Names, FileStep(n)
    PROVE  Settled' /\ Running'
<1> USE DEF Owned
<1>1. /\ at = "files" /\ queue[n] # None
      /\ UNCHANGED <<root, mig, confirmed, exposed>>
      /\ \/ Dropped
         \/ /\ UNCHANGED <<at, pass, todo, linked, seen>>
            /\ queue' = [queue EXCEPT ![n] = None]
      /\ \A p \in Path : meta'[p] # None => meta[p] # None \/ p = RemotePath(n)
  BY FileEffect
<1>2. ~exposed => RemotePath(n) \in confirmed
  BY <1>1 DEF Running
<1>3. Settled'
  BY <1>1, <1>2 DEF Settled, UnderBase
<1>4. \A k \in Names : UNCHANGED pass => RemotePath(k)' = RemotePath(k)
  BY DEF RemotePath
<1>5. CASE Dropped
  BY <1>3, <1>5 DEF Dropped, Running
<1>6. CASE ~Dropped
  BY <1>1, <1>3, <1>4, <1>6 DEF Running, MoveTypeOK
<1> QED
  BY <1>5, <1>6

LEMMA OwnedLinks ==
    ASSUME Owned, NEW n \in Names, LinkCurrent(n) \/ LinkCreated(n) \/ LinkFailed(n)
    PROVE  Settled' /\ Running'
<1> USE DEF Owned
<1>1. /\ at = "links" /\ queue[n] # None
      /\ UNCHANGED <<at, meta, root, mig, pass, seen, confirmed, exposed>>
      /\ \A k \in Names : queue'[k] # None \/ linked'[k] # None =>
                            queue[k] # None \/ linked[k] # None
  BY DEF LinkCurrent, LinkCreated, LinkFailed, Linking, storeVars, pastVars, MoveTypeOK
<1>2. \A k \in Names : RemotePath(k)' = RemotePath(k)
  BY <1>1 DEF RemotePath
<1> QED
  BY <1>1, <1>2 DEF Settled, Running, UnderBase

\* The records of the links are those of seen paths.
LEMMA LinkRecordsOwned ==
    ASSUME Owned, at = "links", ~exposed, NEW p \in Path, LinkRecords[p] # None
    PROVE  meta[p] # None \/ p \in seen
<1>1. CASE p[3] = "plain" /\ p[1] = pass.root /\ linked[p[2]] # None
  <2>1. p = Plain(p[1], p[2]) /\ p[2] \in Names
    BY <1>1, PlainOnly
  <2>2. p = RemotePath(p[2])
    BY <1>1, <2>1 DEF RemotePath
  <2>3. RemotePath(p[2]) \in seen
    BY <1>1, <2>1 DEF Owned, Running
  <2> QED
    BY <2>2, <2>3
<1> QED
  BY <1>1 DEF LinkRecords

LEMMA OwnedPhase ==
    ASSUME Owned, PassScanned \/ FilesDone \/ LinksDone
    PROVE  Settled' /\ Running'
<1> USE DEF Owned
<1>1. CASE PassScanned \/ FilesDone
  <2>1. /\ at # "idle" /\ at' \in {"files", "links"}
        /\ UNCHANGED <<meta, root, mig, pass, queue, linked, seen, confirmed, exposed>>
    BY <1>1 DEF PassScanned, FilesDone, storeVars, pastVars
  <2>2. \A k \in Names : RemotePath(k)' = RemotePath(k)
    BY <2>1 DEF RemotePath
  <2> QED
    BY <2>1, <2>2 DEF Settled, Running, UnderBase
<1>2. CASE LinksDone
  <2> SUFFICES ASSUME ~exposed PROVE Settled' /\ Running'
    BY <1>2 DEF LinksDone, Settled, Running
  <2>1. /\ at = "links" /\ at' = "delete" /\ queue = Nothing /\ linked' = Nothing
        /\ UNCHANGED <<root, mig, pass, queue, seen, confirmed, exposed, errs>>
        /\ todo' = Deletable(meta')
    BY <1>2 DEF LinksDone
  <2>2. pass.root = root /\ pass.mig = mig /\ seen \subseteq confirmed
    BY <2>1 DEF Running
  <2>3. ASSUME NEW p \in Path, meta'[p] # None
        PROVE  /\ p \in confirmed \/ (mig # None /\ UnderBase(p, mig.old))
               /\ mig # None /\ ~errs /\ UnderBase(p, mig.old) => p \in seen
    <3>1. LinkRecords[p] # None /\ p \notin Stale(LinkRecords)
      BY <1>2, <2>3 DEF LinksDone
    <3>2. meta[p] # None \/ p \in seen
      BY <2>1, <3>1, LinkRecordsOwned
    <3> QED
      BY <2>2, <3>1, <3>2 DEF Stale, Settled
  <2>4. todo' \subseteq confirmed
    BY <2>1, <2>2, <2>3 DEF Deletable
  <2>5. Settled'
    BY <2>1, <2>3 DEF Settled, UnderBase
  <2>6. Running'
    BY <2>1, <2>2, <2>3, <2>4 DEF Running, Nothing
  <2> QED
    BY <2>5, <2>6
<1> QED
  BY <1>1, <1>2

LEMMA OwnedEnd ==
    ASSUME Owned,
           \/ \E p \in Path : DeleteOk(p) \/ DeleteFailed(p)
           \/ PassDone \/ PassAborted
    PROVE  Settled' /\ Running'
<1> USE DEF Owned
<1>1. ASSUME NEW p \in Path, DeleteOk(p) \/ DeleteFailed(p) PROVE Settled' /\ Running'
  <2>1. /\ at = "delete" /\ todo' \subseteq todo
        /\ UNCHANGED <<at, root, mig, pass, queue, linked, seen, confirmed, exposed>>
        /\ \A x \in Path : meta'[x] # None => meta[x] # None
        /\ errs => errs'
    BY <1>1 DEF DeleteOk, DeleteFailed, Deleting, MoveTypeOK
  <2>2. \A k \in Names : RemotePath(k)' = RemotePath(k)
    BY <2>1 DEF RemotePath
  <2> QED
    BY <2>1, <2>2 DEF Settled, Running, UnderBase
<1>2. CASE PassDone
  <2>1. at = "delete" /\ at' = "idle" /\ UNCHANGED <<meta, root, confirmed, exposed>>
    BY <1>2 DEF PassDone, Dropped, pastVars
  <2>2. CASE mig' = mig
    BY <2>1, <2>2 DEF Settled, Running, UnderBase
  <2>3. CASE mig' # mig
    BY <1>2, <2>1, <2>3 DEF PassDone, Outcome, Settled, Running, UnderBase
  <2> QED
    BY <2>2, <2>3
<1>3. CASE PassAborted
  BY <1>3 DEF PassAborted, Dropped, Settled, Running, UnderBase, storeVars
<1> QED
  BY <1>1, <1>2, <1>3

LEMMA OwnedNext == Owned /\ [MoveNext]_moveVars => Owned'
<1> SUFFICES ASSUME Owned, [MoveNext]_moveVars PROVE Settled' /\ Running'
  BY MoveTypeNext, AtRestNext DEF Owned
<1>1. CASE UNCHANGED moveVars
  BY <1>1 DEF Owned, Settled, Running, UnderBase, RemotePath, moveVars, storeVars, passVars,
              pastVars
<1>2. CASE User
  BY <1>2, OwnedUser
<1>3. CASE PassAborted
  BY <1>3, OwnedEnd
<1>4. CASE PassStep
  <2>1. ASSUME NEW m \in {"lite", "full"}, NEW q \in BOOLEAN, PassStart(m, q)
        PROVE  Settled' /\ Running'
    BY <2>1, OwnedStart
  <2>2. ASSUME NEW n \in Names,
               \/ InspectAbsent(n) \/ InspectEntry(n) \/ InspectUnreadable(n)
        PROVE  Settled' /\ Running'
    BY <2>2, OwnedScan
  <2>3. ASSUME NEW n \in Names, FileStep(n) PROVE Settled' /\ Running'
    BY <2>3, OwnedFile
  <2>4. ASSUME NEW n \in Names, LinkCurrent(n) \/ LinkCreated(n) \/ LinkFailed(n)
        PROVE  Settled' /\ Running'
    BY <2>4, OwnedLinks
  <2>5. CASE PassScanned \/ FilesDone \/ LinksDone
    BY <2>5, OwnedPhase
  <2>6. CASE (\E p \in Path : DeleteOk(p) \/ DeleteFailed(p)) \/ PassDone
    BY <2>6, OwnedEnd
  <2> QED
    BY <1>4, <2>1, <2>2, <2>3, <2>4, <2>5, <2>6 DEF PassStep
<1> QED
  BY <1>1, <1>2, <1>3, <1>4 DEF MoveNext

\* In the phase of the deletions, only a deletion takes a file from the remote, and
\* what it takes was on the list.
LEMMA DeletesFromTheList ==
    ASSUME MoveTypeOK, [MoveNext]_moveVars, at = "delete",
           NEW p \in Path, remote[p] # None, remote'[p] = None
    PROVE  p \in todo
<1>1. remote' # remote
  OBVIOUS
<1>2. ~User /\ ~PassAborted /\ ~UNCHANGED moveVars
  BY <1>1 DEF User, Edit, UpdateRoot, UpdateRootUnmarked, PassAborted, moveVars, storeVars
<1>3. PICK x \in Path : DeleteOk(x) \/ DeleteFailed(x)
  <2>1. ASSUME NEW n \in Names, FileStep(n) PROVE FALSE
    BY <2>1, FileEffect
  <2>2. ASSUME NEW n \in Names PROVE ~LinkCurrent(n) /\ ~LinkCreated(n) /\ ~LinkFailed(n)
    BY DEF LinkCurrent, LinkCreated, LinkFailed, Linking
  <2>3. ASSUME NEW n \in Names
        PROVE ~InspectAbsent(n) /\ ~InspectEntry(n) /\ ~InspectUnreadable(n)
    BY DEF InspectAbsent, InspectEntry, InspectUnreadable, Inspecting
  <2>4. ~PassScanned /\ ~FilesDone /\ ~LinksDone /\ ~PassDone
    BY <1>1 DEF PassScanned, FilesDone, LinksDone, PassDone
  <2>5. ~(\E m \in {"lite", "full"}, q \in BOOLEAN : PassStart(m, q))
    BY DEF PassStart
  <2> QED
    BY <1>2, <2>1, <2>2, <2>3, <2>4, <2>5 DEF MoveNext, PassStep
<1>4. p = x
  BY <1>3 DEF DeleteOk, DeleteFailed, MoveTypeOK
<1> QED
  BY <1>3, <1>4 DEF DeleteOk, DeleteFailed, Deleting

\* update_relationship followed by any passes, edits, aborts and crashes deletes no
\* remote file whose entry was not found on disk under the present root, for any
\* number of entries and roots, as long as the marker tells every change of the root.
THEOREM RootChangeDeletesNothing == MoveSpec => DeletesAreOfThisRoot
<1>1. MoveInit => Owned
  BY MoveTypeInit, OwnedInit DEF Owned
<1>2. Owned /\ [MoveNext]_moveVars =>
        [\A p \in Path : remote[p] # None /\ remote'[p] = None /\ at = "delete"
            => exposed \/ p \in confirmed]_moveVars
  <2> SUFFICES ASSUME Owned, [MoveNext]_moveVars, at = "delete",
                      NEW p \in Path, remote[p] # None, remote'[p] = None
               PROVE  exposed \/ p \in confirmed
    OBVIOUS
  <2>1. p \in todo
    BY DeletesFromTheList DEF Owned
  <2> QED
    BY <2>1 DEF Owned, Running
<1> QED
  BY <1>1, <1>2, OwnedNext, PTL DEF MoveSpec, DeletesAreOfThisRoot

-----------------------------------------------------------------------------
(* What the records may be trusted for. *)

\* A link that waits for its record is on the remote as it will be recorded.
LinksThere ==
    \A n \in Names : linked[n] # None =>
        /\ at = "links" /\ queue[n] = None
        /\ remote[RemotePath(n)] = linked[n]

Honest == MoveTypeOK /\ RecordsHonest /\ LinksThere

LEMMA HonestInit == MoveInit => RecordsHonest /\ LinksThere
BY DEF MoveInit, RecordsHonest, LinksThere, Nothing

\* Nothing is left of a pass that was dropped.
LEMMA DroppedLinks ==
    ASSUME Dropped
    PROVE  LinksThere'
BY DEF Dropped, LinksThere, Nothing

LEMMA HonestUser ==
    ASSUME Honest, User
    PROVE  RecordsHonest' /\ LinksThere'
<1>1. UNCHANGED <<remote, meta, unacked>> /\ (Dropped \/ UNCHANGED passVars)
  BY DEF User, Edit, UpdateRoot, UpdateRootUnmarked, LoopStopped, storeVars
<1>2. RecordsHonest'
  BY <1>1 DEF Honest, RecordsHonest
<1>3. CASE UNCHANGED passVars
  BY <1>1, <1>2, <1>3 DEF Honest, LinksThere, RemotePath, passVars
<1> QED
  BY <1>1, <1>2, <1>3, DroppedLinks

\* No link waits for its record before the links are pushed.
LEMMA NoLinkYet ==
    ASSUME Honest, at # "links", UNCHANGED linked \/ Dropped
    PROVE  LinksThere'
<1>1. CASE UNCHANGED linked
  BY <1>1 DEF Honest, LinksThere
<1> QED
  BY <1>1, DroppedLinks

LEMMA HonestFile ==
    ASSUME Honest, NEW n \in Names, FileStep(n)
    PROVE  RecordsHonest' /\ LinksThere'
<1> USE DEF Honest
<1>1. at = "files" /\ (Dropped \/ UNCHANGED linked)
  BY FileEffect
<1>2. LinksThere'
  BY <1>1, NoLinkYet
<1>3. pass.root \in Roots /\ RemotePath(n) \in Path /\ LegacyOf(pass.root, n) \in Path
  BY <1>1, PlainPath DEF MoveTypeOK, RemotePath
<1>4. OldPath(n) \in Path \cup {None}
  BY <1>1, OldPathTyped
<1> USE DEF MoveTypeOK
<1>5. CASE FileVanished(n) \/ FileHashSkip(n) \/ FileMigrationFailed(n)
  BY <1>5, <1>2
     DEF FileVanished, FileHashSkip, FileMigrationFailed, RecordsHonest, storeVars, pastVars
<1>6. ASSUME NEW src \in Path, Moved(src, n), src # RemotePath(n) PROVE RecordsHonest'
  BY <1>3, <1>6 DEF Moved, RecordsHonest
<1>7. CASE FileNormalised(n)
  BY <1>2, <1>3, <1>6, <1>7 DEF FileNormalised, FromLegacy, Movable
<1>8. CASE FileMigrated(n)
  BY <1>2, <1>4, <1>6, <1>8 DEF FileMigrated, FromOldRoot, Movable
<1>9. CASE FileMoveLost(n)
  <2>1. CASE FromOldRoot(n) /\ UNCHANGED meta
    <3>1. OldPath(n) \in Path
      BY <1>4, <2>1 DEF FromOldRoot, Movable
    <3> QED
      BY <1>2, <1>3, <1>9, <2>1, <3>1 DEF FileMoveLost, RecordsHonest
  <2>2. CASE ~(FromOldRoot(n) /\ UNCHANGED meta)
    BY <1>2, <1>3, <1>9, <2>2 DEF FileMoveLost, RecordsHonest
  <2> QED
    BY <2>1, <2>2
<1>10. CASE FileMoveCrash(n)
  BY <1>2, <1>3, <1>4, <1>10 DEF FileMoveCrash, Movable, RecordsHonest
<1>11. CASE FileAdopted(n)
  BY <1>2, <1>3, <1>4, <1>11 DEF FileAdopted, AtTarget, RecordsHonest
<1>12. CASE FileUploaded(n) \/ FileUploadFailed(n)
  BY <1>2, <1>3, <1>12 DEF FileUploaded, FileUploadFailed, RecordsHonest
<1> QED
  BY <1>5, <1>7, <1>8, <1>9, <1>10, <1>11, <1>12 DEF FileStep

LEMMA HonestLinks ==
    ASSUME Honest, NEW n \in Names, LinkCurrent(n) \/ LinkCreated(n) \/ LinkFailed(n)
    PROVE  RecordsHonest' /\ LinksThere'
<1> USE DEF Honest, MoveTypeOK
<1>1. /\ at = "links" /\ queue[n] # None /\ UNCHANGED <<at, meta, pass>>
      /\ queue' = [queue EXCEPT ![n] = None]
  BY DEF LinkCurrent, LinkCreated, LinkFailed, Linking, storeVars
<1>2. /\ pass.root \in Roots /\ RemotePath(n) \in Path
      /\ \A k \in Names : RemotePath(k)' = RemotePath(k) /\ RemotePath(k) \in Path
      /\ \A k \in Names : RemotePath(k) = RemotePath(n) => k = n
  BY <1>1, PlainPath, PlainApart DEF RemotePath
<1>3. linked[n] = None
  BY <1>1 DEF LinksThere
<1>4. CASE LinkCurrent(n)
  <2>1. UNCHANGED <<remote, unacked>> /\ linked' = [linked EXCEPT ![n] = queue[n]]
        /\ remote[RemotePath(n)] = queue[n]
    BY <1>4 DEF LinkCurrent, storeVars, pastVars
  <2> QED
    BY <1>1, <1>2, <2>1 DEF RecordsHonest, LinksThere
<1>5. CASE LinkCreated(n)
  <2>1. /\ remote' = [remote EXCEPT ![RemotePath(n)] = queue[n]]
        /\ linked' = [linked EXCEPT ![n] = queue[n]]
        /\ unacked' = unacked \cup {RemotePath(n)}
    BY <1>5 DEF LinkCreated
  <2> QED
    BY <1>1, <1>2, <2>1 DEF RecordsHonest, LinksThere
<1>6. CASE LinkFailed(n)
  <2>1. /\ \/ UNCHANGED <<remote, unacked>>
           \/ /\ remote' = [remote EXCEPT ![RemotePath(n)] = queue[n]]
              /\ unacked' = unacked \cup {RemotePath(n)}
        /\ UNCHANGED linked
    BY <1>6 DEF LinkFailed
  <2> QED
    BY <1>1, <1>2, <1>3, <2>1 DEF RecordsHonest, LinksThere
<1> QED
  BY <1>4, <1>5, <1>6

LEMMA HonestPhase ==
    ASSUME Honest, LinksDone
    PROVE  RecordsHonest' /\ LinksThere'
<1>1. at = "links" /\ linked' = Nothing /\ UNCHANGED remote
  BY DEF LinksDone
<1>2. LinksThere'
  BY <1>1 DEF LinksThere, Nothing
<1>3. ASSUME NEW p \in Path, meta'[p] # None PROVE p \in unacked' \/ remote[p] = meta'[p]
  <2>1. meta'[p] = LinkRecords[p]
    BY <1>3 DEF LinksDone
  <2>2. CASE p[3] = "plain" /\ p[1] = pass.root /\ linked[p[2]] # None
    <3>1. p = RemotePath(p[2]) /\ p[2] \in Names
      BY <2>2, PlainOnly DEF RemotePath
    <3>2. remote[p] = linked[p[2]]
      BY <2>2, <3>1 DEF Honest, LinksThere
    <3> QED
      BY <2>1, <2>2, <3>2 DEF LinkRecords
  <2>3. CASE ~(p[3] = "plain" /\ p[1] = pass.root /\ linked[p[2]] # None)
    <3>1. meta'[p] = meta[p]
      BY <2>1, <2>3 DEF LinkRecords
    <3>2. ASSUME NEW n \in Names, linked[n] # None PROVE p # RemotePath(n)
      BY <2>3, <3>2 DEF RemotePath, Plain
    <3>3. p \in unacked => p \in unacked'
      BY <3>2 DEF LinksDone
    <3> QED
      BY <1>3, <3>1, <3>3 DEF Honest, RecordsHonest
  <2> QED
    BY <2>2, <2>3
<1> QED
  BY <1>1, <1>2, <1>3 DEF RecordsHonest

LEMMA HonestEnd ==
    ASSUME Honest, NEW p \in Path, DeleteOk(p) \/ DeleteFailed(p)
    PROVE  RecordsHonest' /\ LinksThere'
<1>1. at = "delete" /\ UNCHANGED linked
  BY DEF DeleteOk, DeleteFailed, Deleting
<1>2. LinksThere'
  BY <1>1, NoLinkYet
<1> QED
  BY <1>2 DEF DeleteOk, DeleteFailed, Honest, RecordsHonest, MoveTypeOK

LEMMA HonestNext == Honest /\ [MoveNext]_moveVars => Honest'
<1> SUFFICES ASSUME Honest, [MoveNext]_moveVars PROVE RecordsHonest' /\ LinksThere'
  BY MoveTypeNext DEF Honest
<1>1. CASE UNCHANGED moveVars
  BY <1>1 DEF Honest, RecordsHonest, LinksThere, RemotePath, moveVars, storeVars, passVars,
              pastVars
<1>2. CASE User
  BY <1>2, HonestUser
<1>3. CASE PassAborted \/ PassDone
  <2>1. Dropped /\ UNCHANGED <<remote, meta, unacked>>
    BY <1>3 DEF PassAborted, PassDone, storeVars, pastVars
  <2> QED
    BY <2>1, DroppedLinks DEF Honest, RecordsHonest
<1>4. CASE \/ \E m \in {"lite", "full"}, q \in BOOLEAN : PassStart(m, q)
           \/ PassScanned \/ FilesDone
           \/ \E n \in Names : InspectAbsent(n) \/ InspectEntry(n) \/ InspectUnreadable(n)
  <2>1. at # "links" /\ UNCHANGED <<remote, meta, unacked, linked>>
    BY <1>4 DEF PassStart, PassScanned, FilesDone, InspectAbsent, InspectEntry,
                InspectUnreadable, Inspecting, storeVars, pastVars
  <2> QED
    BY <2>1, NoLinkYet DEF Honest, RecordsHonest
<1>5. ASSUME NEW n \in Names, FileStep(n) PROVE RecordsHonest' /\ LinksThere'
  BY <1>5, HonestFile
<1>6. ASSUME NEW n \in Names, LinkCurrent(n) \/ LinkCreated(n) \/ LinkFailed(n)
      PROVE  RecordsHonest' /\ LinksThere'
  BY <1>6, HonestLinks
<1>7. CASE LinksDone
  BY <1>7, HonestPhase
<1>8. ASSUME NEW p \in Path, DeleteOk(p) \/ DeleteFailed(p) PROVE RecordsHonest' /\ LinksThere'
  BY <1>8, HonestEnd
<1> QED
  BY <1>1, <1>2, <1>3, <1>4, <1>5, <1>6, <1>7, <1>8 DEF MoveNext, PassStep

\* Renames, adoptions, uploads, links and deletions, cut short by lost replies,
\* aborts and crashes, leave no record that claims what the remote does not hold,
\* except at paths whose last request has no recorded outcome.
THEOREM RecordsAreHonest == MoveSpec => []RecordsHonest
<1>1. MoveInit => Honest
  BY MoveTypeInit, HonestInit DEF Honest
<1>2. Honest => RecordsHonest
  BY DEF Honest
<1> QED
  BY <1>1, <1>2, HonestNext, PTL DEF MoveSpec
=============================================================================
