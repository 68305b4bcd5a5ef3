--------------------------- MODULE FileSyncProofs ---------------------------
(***************************************************************************)
(* Proofs about FileSync: its types, and LiteSkipSound when both           *)
(* directions write records and the puller writes files.  A step of a pass *)
(* is a step of PushSync or of PullSync on the common folder, tree and     *)
(* records, so the lemmas proved there are used for it.                    *)
(***************************************************************************)
EXTENDS FileSync, TLAPS

PushT == INSTANCE PushSyncProofs
PullT == INSTANCE PullSyncProofs

USE SizeOfType, NoneIsFresh, TerritoryType, WorldBounds, RefusableFiles, OversizedType,
    ChunkCount, ContentIsChunks, DeleteFlags

-----------------------------------------------------------------------------
(* The steps.  The two instances of a module are the same module twice.    *)

LEMMA SamePush ==
    /\ Push!PushStep <=> PushT!PushStep
    /\ Push!PushAbort <=> PushT!PushAbort
    /\ \A f \in Files : Push!UserDelete(f) <=> PushT!UserDelete(f)
    /\ \A f \in Files, c \in Contents : Push!UserWrite(f, c) <=> PushT!UserWrite(f, c)
BY SMT
DEF Push!PushStep, PushT!PushStep, Push!PushScan, PushT!PushScan, Push!PushTransfer,
    PushT!PushTransfer, Push!PushFinish, PushT!PushFinish, Push!Modes, PushT!Modes,
    Push!PushStart, PushT!PushStart, Push!PushWalked, PushT!PushWalked,
    Push!PushInspected, PushT!PushInspected, Push!PushWalk, PushT!PushWalk,
    Push!PushInspectUnreadable, PushT!PushInspectUnreadable, Push!PushInspectFiltered,
    PushT!PushInspectFiltered, Push!PushInspectVanished, PushT!PushInspectVanished,
    Push!PushInspectSkip, PushT!PushInspectSkip, Push!PushInspectQueue,
    PushT!PushInspectQueue, Push!PushCommit, PushT!PushCommit, Push!PushCommitLost,
    PushT!PushCommitLost, Push!PushRejected, PushT!PushRejected, Push!PushIsolated,
    PushT!PushIsolated, Push!PushPrepareFail, PushT!PushPrepareFail, Push!PushHashSkip,
    PushT!PushHashSkip, Push!PushBatch, PushT!PushBatch, Push!PushIsolateOk,
    PushT!PushIsolateOk, Push!PushIsolateFail, PushT!PushIsolateFail,
    Push!PushIsolateForbidden, PushT!PushIsolateForbidden, Push!PushIsolateLost,
    PushT!PushIsolateLost, Push!PushFilesDone, PushT!PushFilesDone, Push!PushDone,
    PushT!PushDone, Push!PushDelete, PushT!PushDelete, Push!PushDeleteLost,
    PushT!PushDeleteLost, Push!PushDeleteRefused, PushT!PushDeleteRefused, Push!Present,
    PushT!Present, Push!worldVars, PushT!worldVars, Push!pastVars, PushT!pastVars,
    Push!Inspecting, PushT!Inspecting, Push!Fault, PushT!Fault, Push!treeVars,
    PushT!treeVars, Push!LiteUnchanged, PushT!LiteUnchanged, Push!Flushing,
    PushT!Flushing, Push!Verified, PushT!Verified, Push!Overlay, PushT!Overlay, Push!Data,
    PushT!Data, Push!Told, PushT!Told, Push!Empty, PushT!Empty, Push!Dropped,
    PushT!Dropped, Push!Won, PushT!Won, Push!Preparing, PushT!Preparing, Push!DataOf,
    PushT!DataOf, Push!Isolating, PushT!Isolating, Push!Ready, PushT!Ready, Push!Sent,
    PushT!Sent, Push!Pending, PushT!Pending, Push!Unseen, PushT!Unseen, Push!Deleting,
    PushT!Deleting, Push!Oversize, PushT!Oversize, Push!PushAbort, PushT!PushAbort,
    Push!UserWrite, PushT!UserWrite, Push!LocalWrite, PushT!LocalWrite, Push!pushVars,
    PushT!pushVars, Push!passVars, PushT!passVars, Push!UserDelete, PushT!UserDelete,
    Push!LocalRemove, PushT!LocalRemove

LEMMA SamePull ==
    /\ Pull!PullStep <=> PullT!PullStep
    /\ Pull!PullAbort <=> PullT!PullAbort
    /\ Pull!ForceSync <=> PullT!ForceSync
    /\ \A f \in Files, c \in Contents \cup {None} :
        Pull!RemoteChange(f, c) <=> PullT!RemoteChange(f, c)
    /\ \A f \in Files : Pull!UserDelete(f) <=> PullT!UserDelete(f)
    /\ \A f \in Files, c \in Contents : Pull!UserWrite(f, c) <=> PullT!UserWrite(f, c)
BY SMT
DEF Pull!PullStep, PullT!PullStep, Pull!PullStart, PullT!PullStart, Pull!PullFetch,
    PullT!PullFetch, Pull!PullFetchFail, PullT!PullFetchFail, Pull!PullRecord,
    PullT!PullRecord, Pull!PullRecordFail, PullT!PullRecordFail, Pull!PullAssembled,
    PullT!PullAssembled, Pull!PullCheckpoint, PullT!PullCheckpoint, Pull!PullAssemble,
    PullT!PullAssemble, Pull!PullAssembleFail, PullT!PullAssembleFail, Pull!PullRemove,
    PullT!PullRemove, Pull!PullRemoveFail, PullT!PullRemoveFail, Pull!DiffChanged,
    PullT!DiffChanged, Pull!DiffDeleted, PullT!DiffDeleted, Pull!DataOf, PullT!DataOf,
    Pull!worldVars, PullT!worldVars, Pull!Needed, PullT!Needed, Pull!Fault, PullT!Fault,
    Pull!treeVars, PullT!treeVars, Pull!NewRecord, PullT!NewRecord, Pull!NewCheckpoint,
    PullT!NewCheckpoint, Pull!Overlooked, PullT!Overlooked, Pull!PassOver, PullT!PassOver,
    Pull!Reused, PullT!Reused, Pull!Assembled, PullT!Assembled, Pull!Removing,
    PullT!Removing, Pull!Present, PullT!Present, Pull!ChunksOf, PullT!ChunksOf,
    Pull!MtimeNow, PullT!MtimeNow, Pull!Empty, PullT!Empty, Pull!OffsetOf, PullT!OffsetOf,
    Pull!PullAbort, PullT!PullAbort, Pull!ForceSync, PullT!ForceSync, Pull!jobVars,
    PullT!jobVars, Pull!RemoteChange, PullT!RemoteChange, Pull!pullVars, PullT!pullVars,
    Pull!UserWrite, PullT!UserWrite, Pull!LocalWrite, PullT!LocalWrite, Pull!UserDelete,
    PullT!UserDelete, Pull!LocalRemove, PullT!LocalRemove

LEMMA SameTypes ==
    /\ Push!TypeOK <=> PushT!TypeOK
    /\ Pull!TypeOK <=> PullT!TypeOK
    /\ PushT!WorldTypeOK <=> PullT!WorldTypeOK
    /\ (PushT!WorldTypeOK <=> PullT!WorldTypeOK)'
BY DEF Push!TypeOK, PushT!TypeOK, Push!WorldTypeOK, PushT!WorldTypeOK, Push!Phases,
       PushT!Phases, Push!Modes, PushT!Modes, Push!Version, PushT!Version,
       Pull!TypeOK, PullT!TypeOK, Pull!WorldTypeOK, PullT!WorldTypeOK, Pull!Tree,
       PullT!Tree, Pull!Version, PullT!Version

\* Types of the two passes, as their modules prove them.
LEMMA PushTypes == PushT!TypeOK /\ [PushT!Next]_PushT!vars => PushT!TypeOK'
BY PushT!TypeStep DEF Version, PushT!Version, Territory, PushT!Territory

LEMMA PullTypes == PullT!Typed /\ [PullT!Next]_PullT!vars => PullT!Typed'
BY PullT!TypeStep DEF Version, PullT!Version, Territory, PullT!Territory

LEMMA PushStamps ==
    ASSUME PushT!TypeOK, PushT!PushStep \/ PushT!PushAbort, NEW f \in Files, PushT!Timely(f)
    PROVE  PushT!Timely(f)' /\ (PushT!Fitting(f) => PushT!Fitting(f)')
BY PushT!StampsPass DEF Version, PushT!Version, Territory, PushT!Territory

\* A step of the pull engine, or of another client of the remote.
PullSide ==
    \/ PullT!PullStep
    \/ PullT!PullAbort
    \/ PullT!ForceSync
    \/ \E f \in Files, c \in Contents \cup {None} : PullT!RemoteChange(f, c)

PushSide == PushT!PushStep \/ PushT!PushAbort

\* A local program is the same program for both directions.
UserSide ==
    \/ \E f \in Files : PushT!UserDelete(f) /\ PullT!UserDelete(f)
    \/ \E f \in Files, c \in Contents : PushT!UserWrite(f, c) /\ PullT!UserWrite(f, c)

\* The user of the application changes the filter or the relationships.
Settings ==
    /\ \/ \E S \in SUBSET Files : FilterChange(S)
       \/ \E t \in Territories : ChildrenChange(t)
    /\ UNCHANGED <<pushVars, pullVars>>

LEMMA StepKinds ==
    ASSUME Next
    PROVE  \/ PullSide /\ UNCHANGED pushVars
           \/ PushSide /\ UNCHANGED pullVars
           \/ UserSide
           \/ Settings
<1> DEFINE Goal == \/ PullSide /\ UNCHANGED pushVars
                   \/ PushSide /\ UNCHANGED pullVars
                   \/ UserSide
                   \/ Settings
<1>1. CASE SyncBegin \/ PullBegin \/ PullGoesOn
  <2>1. Pull!PullStep /\ UNCHANGED pushVars
    BY <1>1 DEF SyncBegin, PullBegin, PullGoesOn, Pull!PullStep
  <2> QED
    BY <2>1, SamePull DEF PullSide
<1>2. CASE PushBegin \/ PushGoesOn \/ \E m \in Push!Modes : SyncContinue(m)
  <2>1. Push!PushStep /\ UNCHANGED pullVars
    BY <1>2 DEF PushBegin, PushGoesOn, SyncContinue, Push!PushStep, Push!PushScan,
                Push!Modes, Push!PushStart
  <2> QED
    BY <2>1, SamePush DEF PushSide
<1>3. CASE Abort
  BY <1>3, SamePull, SamePush DEF Abort, PullSide, PushSide
<1>4. CASE ForceSync
  BY <1>4, SamePull DEF ForceSync, PullSide
<1>5. ASSUME NEW f \in Files, UserDelete(f) PROVE Goal
  BY <1>5, SamePull, SamePush DEF UserDelete, UserSide
<1>6. ASSUME NEW f \in Files, NEW c \in Contents, UserWrite(f, c) PROVE Goal
  BY <1>6, SamePull, SamePush DEF UserWrite, UserSide
<1>7. ASSUME NEW f \in Files, NEW c \in Contents \cup {None}, RemoteChange(f, c) PROVE Goal
  BY <1>7, SamePull DEF RemoteChange, PullSide
<1>8. ASSUME NEW S \in SUBSET Files, SetFilter(S) PROVE Goal
  BY <1>8 DEF SetFilter, Settings
<1>9. ASSUME NEW t \in Territories, SetChildren(t) PROVE Goal
  BY <1>9 DEF SetChildren, Settings
<1> QED
  BY <1>1, <1>2, <1>3, <1>4, <1>5, <1>6, <1>7, <1>8, <1>9, Next DEF Next, Engine

-----------------------------------------------------------------------------
(* Types. *)

\* The types of both passes, without the book-keeping of jobs; and Shape, which a
\* pull needs to put only contents into the folder.
Typed == PushT!TypeOK /\ PullT!Typed

LEMMA TypedPull ==
    ASSUME Typed, PullSide, UNCHANGED pushVars
    PROVE  Typed'
<1>1. PullT!Typed'
  BY PullTypes DEF Typed, PullSide, PullT!Next
<1>2. PushT!WorldTypeOK'
  BY <1>1, SameTypes DEF PullT!Typed, PullT!TypeOK
<1>3. PushT!TypeOK'
  BY <1>2 DEF Typed, PushT!TypeOK, pushVars
<1> QED
  BY <1>1, <1>3 DEF Typed

LEMMA TypedPush ==
    ASSUME Typed, PushSide, UNCHANGED pullVars
    PROVE  Typed'
<1>1. PushT!TypeOK'
  BY PushTypes DEF Typed, PushSide, PushT!Next
<1>2. PullT!WorldTypeOK'
  BY <1>1, SameTypes DEF PushT!TypeOK
<1>3. PullT!Typed'
  BY <1>2 DEF Typed, PullT!Typed, PullT!TypeOK, PullT!Shape, PullT!Present, pullVars
<1> QED
  BY <1>1, <1>3 DEF Typed

LEMMA TypedUser ==
    ASSUME Typed, UserSide
    PROVE  Typed'
<1>1. PushT!Next /\ PullT!Next
  BY DEF UserSide, PushT!Next, PushT!User, PullT!Next, PullT!User
<1> QED
  BY <1>1, PushTypes, PullTypes DEF Typed

LEMMA TypedSettings ==
    ASSUME Typed, Settings
    PROVE  Typed'
<1>1. /\ UNCHANGED <<local, remote, meta, clock>>
      /\ included' \subseteq Files /\ child' \in Territories /\ faults' \in Nat
  BY DEF Typed, Settings, FilterChange, ChildrenChange, Fault, treeVars, PushT!TypeOK,
         PushT!WorldTypeOK
<1> QED
  BY <1>1 DEF Typed, Settings, pushVars, pullVars, PushT!TypeOK, PushT!WorldTypeOK,
              PullT!Typed, PullT!TypeOK, PullT!WorldTypeOK, PullT!Shape, PullT!Present

LEMMA TypedInit == Init => Typed
<1> SUFFICES ASSUME Init PROVE Typed
  OBVIOUS
<1>1. PullT!Init
  BY DEF Init, Pull!Init, PullT!Init, Pull!PullInit, PullT!PullInit, Pull!Empty,
         PullT!Empty, Pull!Present, PullT!Present, Pull!Tree, PullT!Tree
<1>2. PullT!Typed
  BY <1>1, PullT!TypeInit DEF Version, PullT!Version, Territory, PullT!Territory
<1>3. PushT!TypeOK
  BY <1>2, SameTypes
  DEF Init, Push!PushInit, Push!Empty, PullT!Typed, PullT!TypeOK, PushT!TypeOK,
      PushT!Phases, PushT!Modes
<1> QED
  BY <1>2, <1>3 DEF Typed

LEMMA TypedStep == Typed /\ [Next]_vars => Typed'
<1> SUFFICES ASSUME Typed, [Next]_vars PROVE Typed'
  OBVIOUS
<1>1. CASE Next
  BY <1>1, StepKinds, TypedPull, TypedPush, TypedUser, TypedSettings
<1>2. CASE UNCHANGED vars
  BY <1>2 DEF vars, worldVars, treeVars, pushVars, pullVars, Typed, PushT!TypeOK,
              PushT!WorldTypeOK, PullT!Typed, PullT!TypeOK, PullT!WorldTypeOK, PullT!Shape,
              PullT!Present
<1> QED
  BY <1>1, <1>2

\* The execution guard, and the history of what other clients restored.
Guard == job \in Jobs /\ restored \subseteq Files

LEMMA GuardStep == Guard /\ [Next]_vars => Guard'
BY DEF Guard, Jobs, Next, Engine, SyncBegin, SyncContinue, PullBegin, PushBegin, PullGoesOn,
       PushGoesOn, Abort, UserWrite, UserDelete, RemoteChange, ForceSync, SetFilter,
       SetChildren, vars

\* The state of a pull and of a push keeps its types though each works on what the
\* other has changed; above all the records, which both write.
THEOREM TypeCorrect == Spec => []TypeOK
<1>1. Init => Guard
  BY DEF Init, Guard, Jobs
<1>2. Typed /\ Guard => TypeOK
  BY SameTypes DEF Typed, Guard, TypeOK, PullT!Typed
<1> QED
  BY <1>1, <1>2, TypedInit, TypedStep, GuardStep, PTL DEF Spec

-----------------------------------------------------------------------------
(* Modification times.  What a push has queued, hashed or set aside for a    *)
(* record must fit the file although pulls, too, replace files and records:  *)
(* a file that a pull writes has a time that nothing known of it has.        *)

Stamps ==
    /\ \A f \in Files : PushT!Timely(f)
    /\ \A f \in Files \ raced : PushT!Fitting(f)

LEMMA StampsInit == Init => Stamps
BY DEF Init, Pull!Init, Pull!PullInit, Push!PushInit, Stamps, PushT!Timely, PushT!InPast,
       PushT!Fitting, PushT!Fits, Pull!Empty, Push!Empty

LEMMA StampsPull ==
    ASSUME Typed, Stamps, PullSide, UNCHANGED pushVars
    PROVE  Stamps'
<1> USE DEF Typed, PullT!Typed, PullT!TypeOK, PullT!WorldTypeOK, PullT!Shape, PullT!Version,
            PushT!TypeOK, PushT!Version, PullT!worldVars, PullT!treeVars, Stamps,
            PushT!Timely, PushT!InPast, PushT!Fitting, PushT!Fits, pushVars
<1>1. CASE PullT!PullRecord
  <2>1. PICK f \in Files : f = cur.file
    BY <1>1 DEF PullT!PullRecord
  <2>2. /\ meta' = [meta EXCEPT ![f] = PullT!NewRecord(f)]
        /\ raced' = IF local[f] # None /\ local[f].data # cur.data
                     THEN raced \cup {f} ELSE raced
        /\ UNCHANGED <<local, clock>>
    BY <1>1, <2>1 DEF PullT!PullRecord
  <2>3. /\ meta'[f].mtime = PullT!MtimeNow(f) /\ meta'[f].data = cur.data
        /\ \A g \in Files \ {f} : meta'[g] = meta[g]
    BY <2>2 DEF PullT!NewRecord
  <2>4. PullT!MtimeNow(f) <= clock
    BY DEF PullT!MtimeNow
  <2>5. \A g \in Files : PushT!Timely(g)'
    BY <2>2, <2>3, <2>4
  <2>6. ASSUME NEW g \in Files \ raced' PROVE PushT!Fitting(g)'
    BY <2>2, <2>3, <2>6 DEF PullT!MtimeNow
  <2> QED
    BY <2>5, <2>6
<1>2. ASSUME NEW f \in Files, PullT!PullAssemble(f) PROVE Stamps'
  BY <1>2 DEF PullT!PullAssemble
<1>3. ASSUME NEW f \in Files, PullT!PullRemove(f) PROVE Stamps'
  BY <1>3 DEF PullT!PullRemove
<1>4. ASSUME NEW f \in Files, PullT!PullRemoveFail(f) PROVE Stamps'
  BY <1>4 DEF PullT!PullRemoveFail
<1>5. ASSUME NEW f \in Files, NEW c \in Contents \cup {None}, PullT!RemoteChange(f, c)
      PROVE  Stamps'
  BY <1>5 DEF PullT!RemoteChange, PullT!pullVars
<1>6. CASE UNCHANGED <<local, meta, raced, clock>>
  BY <1>6
<1>7. PullT!PullAbort \/ PullT!ForceSync => UNCHANGED <<local, meta, raced, clock>>
  BY DEF PullT!PullAbort, PullT!ForceSync
<1>8. ASSUME \/ PullT!PullStart \/ PullT!PullFetch \/ PullT!PullFetchFail
             \/ PullT!PullRecordFail \/ PullT!PullAssembled \/ PullT!PullCheckpoint
             \/ \E f \in Files : PullT!PullAssembleFail(f)
      PROVE  UNCHANGED <<local, meta, raced, clock>>
  BY <1>8 DEF PullT!PullStart, PullT!PullFetch, PullT!PullFetchFail, PullT!PullRecordFail,
              PullT!PullAssembled, PullT!PullCheckpoint, PullT!PullAssembleFail
<1> QED
  BY <1>1, <1>2, <1>3, <1>4, <1>5, <1>6, <1>7, <1>8 DEF PullSide, PullT!PullStep

LEMMA StampsStep == Typed /\ Stamps /\ [Next]_vars => Stamps'
<1> SUFFICES ASSUME Typed, Stamps, [Next]_vars PROVE Stamps'
  OBVIOUS
<1>1. CASE PushSide /\ UNCHANGED pullVars
  BY <1>1, PushStamps DEF Typed, PushSide, pullVars, Stamps
<1>2. CASE UserSide
  <2> USE DEF Typed, PushT!TypeOK, PushT!WorldTypeOK, PushT!Version, Stamps, PushT!Timely,
              PushT!InPast, PushT!Fitting, PushT!Fits, PushT!pushVars, PushT!passVars,
              PullT!pullVars
  <2>1. ASSUME NEW f \in Files, PushT!UserDelete(f), PullT!UserDelete(f) PROVE Stamps'
    BY <2>1 DEF PushT!UserDelete, PushT!LocalRemove, PullT!UserDelete
  <2>2. ASSUME NEW f \in Files, NEW c \in Contents, PushT!UserWrite(f, c),
               PullT!UserWrite(f, c)
        PROVE  Stamps'
    BY <2>2 DEF PushT!UserWrite, PushT!LocalWrite, PullT!UserWrite
  <2> QED
    BY <1>2, <2>1, <2>2 DEF UserSide
<1>3. CASE Settings \/ UNCHANGED vars
  <2>1. UNCHANGED <<local, meta, clock, queue, batch, pend, raced>>
    BY <1>3 DEF Settings, FilterChange, ChildrenChange, treeVars, worldVars, pushVars,
                pullVars, vars
  <2> QED
    BY <2>1 DEF Stamps, PushT!Timely, PushT!InPast, PushT!Fitting, PushT!Fits
<1> QED
  BY <1>1, <1>2, <1>3, StepKinds, StampsPull

\* LiteSkipSound: with both directions at work on the folder and the records, a lite
\* scan still never takes an edited file for an unchanged one, outside raced.
THEOREM LiteSkipsAreSound == Spec => []LiteSkipSound
<1>1. Stamps => LiteSkipSound
  BY DEF Stamps, PushT!Fitting, PushT!Fits, LiteSkipSound, Pull!LiteSkipSound,
         Pull!LiteUnchanged
<1> QED
  BY <1>1, TypedInit, TypedStep, StampsInit, StampsStep, PTL DEF Spec
=============================================================================
