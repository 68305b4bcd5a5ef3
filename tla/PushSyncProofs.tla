--------------------------- MODULE PushSyncProofs ---------------------------
(***************************************************************************)
(* Proofs about PushSync, for any files, contents, forbidden files and     *)
(* bounds: type correctness, LiteSkipSound, MetaMatchesRemote and          *)
(* RemoteDeletesExplained.                                                 *)
(***************************************************************************)
EXTENDS PushSync, TLAPS

USE NoneIsFresh

Versions == [Files -> Version \cup {None}]

LEMMA OverlayType ==
    ASSUME NEW S, NEW m \in [Files -> S \cup {None}], NEW u \in [Files -> S \cup {None}]
    PROVE  Overlay(m, u) \in [Files -> S \cup {None}]
BY DEF Overlay

\* What is uploaded is what the folder holds, verified or streamed.
LEMMA SentIsThere ==
    ASSUME WorldTypeOK, NEW f \in Files, NEW v, Ready(f, v)
    PROVE  Sent(f, v) = local[f].data /\ Sent(f, v) \in Contents
<1>1. local[f] \in Version
  BY DEF WorldTypeOK, Ready
<1> QED
  BY <1>1 DEF Ready, Sent, DataOf, Version

LEMMA DataType ==
    ASSUME WorldTypeOK, NEW b \in Versions
    PROVE  Data(b) \in [Files -> Contents \cup {None}]
<1> SUFFICES ASSUME NEW f \in Files, b[f] # None PROVE Sent(f, b[f]) \in Contents \cup {None}
  BY DEF Data
<1>1. b[f] \in Version /\ local[f] \in Version \cup {None}
  BY DEF Versions, WorldTypeOK
<1> QED
  BY <1>1 DEF Sent, DataOf, Version

LEMMA EmptyType ==
    /\ Empty \in Versions
    /\ Empty \in [Files -> Nat \cup {None}]
BY DEF Empty, Versions

-----------------------------------------------------------------------------
(* Types. *)

LEMMA TypeInit == Init => TypeOK
BY RefusableFiles, EmptyType, SMT
DEF Init, PushInit, TypeOK, WorldTypeOK, Versions, Empty, Version, Phases, Modes

\* What a scan step changes.
LEMMA TypeScan ==
    ASSUME TypeOK, PushScan, UNCHANGED forbidden
    PROVE  TypeOK'
<1> USE DEF TypeOK, WorldTypeOK, worldVars, treeVars, pastVars, Phases, Modes
<1>1. ASSUME NEW m \in Modes, PushStart(m) PROVE TypeOK'
  BY <1>1 DEF PushStart
<1>2. CASE PushWalked
  BY <1>2 DEF PushWalked
<1>3. CASE PushInspected
  BY <1>3 DEF PushInspected
<1>4. ASSUME NEW f \in Files, PushWalk(f) PROVE TypeOK'
  BY <1>4 DEF PushWalk
<1>5. ASSUME NEW f \in Files, PushInspectUnreadable(f) PROVE TypeOK'
  BY <1>5 DEF PushInspectUnreadable, Inspecting, Fault
<1>6. ASSUME NEW f \in Files, PushInspectFiltered(f) PROVE TypeOK'
  BY <1>6 DEF PushInspectFiltered, Inspecting
<1>7. ASSUME NEW f \in Files, PushInspectVanished(f) PROVE TypeOK'
  BY <1>7 DEF PushInspectVanished, Inspecting
<1>8. ASSUME NEW f \in Files, PushInspectSkip(f) PROVE TypeOK'
  BY <1>8 DEF PushInspectSkip, Inspecting
<1>9. ASSUME NEW f \in Files, PushInspectQueue(f) PROVE TypeOK'
  BY <1>9 DEF PushInspectQueue, Inspecting, Version
<1> QED
  BY <1>1, <1>2, <1>3, <1>4, <1>5, <1>6, <1>7, <1>8, <1>9, PushScan DEF PushScan

\* What a transfer step changes.
LEMMA TypeTransfer ==
    ASSUME TypeOK, PushTransfer, UNCHANGED forbidden
    PROVE  TypeOK'
<1> USE DEF TypeOK, WorldTypeOK, worldVars, treeVars, pastVars, Phases, Modes
<1>1. CASE PushCommit
  <2>1. /\ Data(batch) \in [Files -> Contents \cup {None}]
        /\ Overlay(pend, batch) \in Versions
    BY DataType, OverlayType DEF Versions
  <2>2. remote' \in [Files -> Contents \cup {None}] /\ meta' \in Versions
    BY <1>1, <2>1, OverlayType DEF PushCommit, Versions
  <2>3. Present(batch) \subseteq Files
    BY DEF Present
  <2> QED
    BY <1>1, <2>2, <2>3, EmptyType DEF PushCommit, Versions
<1>2. CASE PushCommitLost
  <2>1. remote' \in [Files -> Contents \cup {None}]
    BY <1>2, DataType, OverlayType DEF PushCommitLost, Versions
  <2>2. Present(batch) \subseteq Files
    BY DEF Present
  <2> QED
    BY <1>2, <2>1, <2>2, EmptyType DEF PushCommitLost, Dropped, Fault, Versions
<1>3. CASE PushRejected
  BY <1>3 DEF PushRejected, Present, Fault
<1>4. CASE PushIsolated
  <2>1. Won \in Versions
    BY DEF Versions, Won
  <2>2. meta' = Overlay(meta, Overlay(pend, Won))
    BY <1>4 DEF PushIsolated
  <2>3. meta' \in Versions
    BY <2>1, <2>2, OverlayType DEF Versions
  <2> QED
    BY <1>4, <2>3, EmptyType DEF PushIsolated, Versions
<1>5. ASSUME NEW f \in Files, PushPrepareFail(f) PROVE TypeOK'
  BY <1>5 DEF PushPrepareFail, Preparing
<1>6. ASSUME NEW f \in Files, PushHashSkip(f) PROVE TypeOK'
  BY <1>6 DEF PushHashSkip, Preparing, Version
<1>7. ASSUME NEW f \in Files, PushBatch(f) PROVE TypeOK'
  BY <1>7 DEF PushBatch, Preparing, Version
<1>8. ASSUME NEW f \in Files, PushIsolateOk(f) PROVE TypeOK'
  <2>1. Sent(f, batch[f]) \in Contents
    BY <1>8, SentIsThere DEF PushIsolateOk
  <2> QED
    BY <1>8, <2>1 DEF PushIsolateOk, Isolating
<1>9. ASSUME NEW f \in Files, PushIsolateFail(f) PROVE TypeOK'
  BY <1>9 DEF PushIsolateFail, Fault
<1>10. ASSUME NEW f \in Files, PushIsolateForbidden(f) PROVE TypeOK'
  BY <1>10 DEF PushIsolateForbidden
<1>11. ASSUME NEW f \in Files, PushIsolateLost(f) PROVE TypeOK'
  <2>1. Sent(f, batch[f]) \in Contents
    BY <1>11, SentIsThere DEF PushIsolateLost
  <2> QED
    <3>1. remote' \in [Files -> Contents \cup {None}] /\ unacked' \subseteq Files
      BY <1>11, <2>1 DEF PushIsolateLost
    <3> QED
      BY <1>11, <3>1, EmptyType DEF PushIsolateLost, Dropped, Fault, Versions
<1> QED
  BY <1>1, <1>2, <1>3, <1>4, <1>5, <1>6, <1>7, <1>8, <1>9, <1>10, <1>11, PushTransfer
  DEF PushTransfer

\* What the end of a pass changes.
LEMMA TypeFinish ==
    ASSUME TypeOK, PushFinish, UNCHANGED forbidden
    PROVE  TypeOK'
<1> USE DEF TypeOK, WorldTypeOK, worldVars, treeVars, pastVars, Phases, Modes
<1>1. CASE PushFilesDone
  <2>1. meta' \in Versions
    BY <1>1, OverlayType DEF PushFilesDone, Unseen, Pending, Versions
  <2>2. todo' \subseteq Files
    BY <1>1 DEF PushFilesDone, Unseen, Pending, Present
  <2> QED
    BY <1>1, <2>1, <2>2, EmptyType DEF PushFilesDone, Unseen, Pending, Versions
<1>2. CASE PushDone
  BY <1>2, EmptyType DEF PushDone, Dropped, Versions
<1>3. ASSUME NEW f \in Files, PushDelete(f) PROVE TypeOK'
  BY <1>3 DEF PushDelete, Deleting
<1>4. ASSUME NEW f \in Files, PushDeleteLost(f) PROVE TypeOK'
  BY <1>4 DEF PushDeleteLost, Deleting, Fault
<1>5. ASSUME NEW f \in Files, PushDeleteRefused(f) PROVE TypeOK'
  BY <1>5 DEF PushDeleteRefused, Deleting, Fault
<1> QED
  BY <1>1, <1>2, <1>3, <1>4, <1>5, PushFinish DEF PushFinish

LEMMA TypeStep == TypeOK /\ [Next]_vars => TypeOK'
<1> SUFFICES ASSUME TypeOK, [Next]_vars PROVE TypeOK'
  OBVIOUS
<1> USE DEF TypeOK, WorldTypeOK, worldVars, treeVars, pastVars, passVars, pushVars, Phases
<1>1. CASE PushStep
  BY <1>1, TypeScan, TypeTransfer, TypeFinish DEF PushStep
<1>2. CASE PushAbort
  BY <1>2, EmptyType DEF PushAbort, Dropped, Fault, Versions
<1>3. ASSUME NEW f \in Files, UserDelete(f) PROVE TypeOK'
  BY <1>3 DEF UserDelete, LocalRemove
<1>4. ASSUME NEW f \in Files, NEW c \in Contents, UserWrite(f, c) PROVE TypeOK'
  BY <1>4 DEF UserWrite, LocalWrite, Version
<1>5. ASSUME NEW S \in SUBSET Files, SetFilter(S) PROVE TypeOK'
  BY <1>5 DEF SetFilter, FilterChange, Fault
<1>6. ASSUME NEW t \in Territories, SetChildren(t) PROVE TypeOK'
  BY <1>6 DEF SetChildren, ChildrenChange, Fault
<1>7. CASE UNCHANGED vars
  BY <1>7 DEF vars
<1> QED
  BY <1>1, <1>2, <1>3, <1>4, <1>5, <1>6, <1>7 DEF Next, User

\* Every variable of a push pass, and the folder, the remote and the records it works
\* on, keep their types through every step of the pass, its aborts and the user.
THEOREM TypeCorrect == Spec => []TypeOK
<1> QED
  BY TypeInit, TypeStep, PTL DEF Spec

-----------------------------------------------------------------------------
(* Modification times.  A record gets the mtime of the scan and the content of *)
(* a later read; a write in between only makes the file newer than the record. *)

\* The times known of f are not from the future.
InPast(m, f) == m[f] # None => m[f].mtime <= clock

Timely(f) ==
    /\ InPast(local, f) /\ InPast(meta, f) /\ InPast(batch, f) /\ InPast(pend, f)
    /\ queue[f] # None => queue[f] <= clock

\* What may stand in a record of f: the content of the file, if it has the file's mtime.
Fits(m, f) ==
    m[f] # None /\ local[f] # None /\ local[f].mtime = m[f].mtime => local[f].data = m[f].data

Fitting(f) == Fits(meta, f) /\ Fits(batch, f) /\ Fits(pend, f)

Stamps == \A f \in Files : Timely(f) /\ Fitting(f)

LEMMA StampsInit == Init => Stamps
BY DEF Init, PushInit, Stamps, Timely, InPast, Fitting, Fits, Empty

\* What fits still fits when one map is written over another.
LEMMA FitOverlay ==
    ASSUME NEW f \in Files, NEW m, NEW u
    PROVE  /\ InPast(m, f) /\ InPast(u, f) => InPast(Overlay(m, u), f)
           /\ Fits(m, f) /\ Fits(u, f) => Fits(Overlay(m, u), f)
BY DEF InPast, Fits, Overlay

\* Each file by itself: the times of f stay in the past, and what fits f still does.
LEMMA StampsTransfer ==
    ASSUME TypeOK, PushTransfer, NEW f \in Files, Timely(f)
    PROVE  Timely(f)' /\ (Fitting(f) => Fitting(f)')
<1> DEFINE Goal == Timely(f)' /\ (Fitting(f) => Fitting(f)')
<1> USE DEF TypeOK, WorldTypeOK, worldVars, treeVars, pastVars, Timely, Fitting
<1>1. CASE PushCommit
  <2>1. /\ InPast(Overlay(meta, Overlay(pend, batch)), f)
        /\ Fitting(f) => Fits(Overlay(meta, Overlay(pend, batch)), f)
    BY FitOverlay
  <2> QED
    BY <1>1, <2>1 DEF PushCommit, InPast, Fits, Empty
<1>2. CASE PushCommitLost
  BY <1>2 DEF PushCommitLost, Dropped, InPast, Fits, Empty
<1>3. CASE PushRejected
  BY <1>3 DEF PushRejected, InPast, Fits
<1>4. CASE PushIsolated
  <2>1. InPast(Won, f) /\ (Fitting(f) => Fits(Won, f))
    BY DEF InPast, Fits, Won
  <2>2. /\ InPast(Overlay(meta, Overlay(pend, Won)), f)
        /\ Fitting(f) => Fits(Overlay(meta, Overlay(pend, Won)), f)
    BY <2>1, FitOverlay
  <2>3. meta' = Overlay(meta, Overlay(pend, Won))
    BY <1>4 DEF PushIsolated
  <2> QED
    BY <1>4, <2>2, <2>3 DEF PushIsolated, InPast, Fits, Empty
<1>5. ASSUME NEW g \in Files, PushPrepareFail(g) PROVE Goal
  BY <1>5 DEF PushPrepareFail, Preparing, InPast, Fits
<1>6. ASSUME NEW g \in Files, PushHashSkip(g) PROVE Goal
  BY <1>6 DEF PushHashSkip, Preparing, InPast, Fits
<1>7. ASSUME NEW g \in Files, PushBatch(g) PROVE Goal
  BY <1>7 DEF PushBatch, Preparing, InPast, Fits
<1>8. ASSUME NEW g \in Files, PushIsolateOk(g) PROVE Goal
  BY <1>8 DEF PushIsolateOk, InPast, Fits
<1>9. ASSUME NEW g \in Files, PushIsolateFail(g) PROVE Goal
  BY <1>9 DEF PushIsolateFail, InPast, Fits
<1>10. ASSUME NEW g \in Files, PushIsolateForbidden(g) PROVE Goal
  BY <1>10 DEF PushIsolateForbidden, InPast, Fits
<1>11. ASSUME NEW g \in Files, PushIsolateLost(g) PROVE Goal
  BY <1>11 DEF PushIsolateLost, Dropped, InPast, Fits, Empty
<1> QED
  BY <1>1, <1>2, <1>3, <1>4, <1>5, <1>6, <1>7, <1>8, <1>9, <1>10, <1>11, PushTransfer
  DEF PushTransfer

\* A scan reads the mtime of what is there; the rest of it records nothing.
LEMMA StampsScan ==
    ASSUME TypeOK, PushScan, NEW f \in Files, Timely(f)
    PROVE  Timely(f)' /\ (Fitting(f) => Fitting(f)')
<1> USE DEF TypeOK, WorldTypeOK, worldVars, treeVars, pastVars, Timely, Fitting
<1>1. ASSUME NEW g \in Files, PushInspectQueue(g)
      PROVE  Timely(f)' /\ (Fitting(f) => Fitting(f)')
  BY <1>1 DEF PushInspectQueue, Inspecting, InPast, Fits, Version
<1>2. CASE ~\E g \in Files : PushInspectQueue(g)
  <2>1. UNCHANGED <<local, clock, meta, queue, batch, pend>>
    BY <1>2, PushScan
    DEF PushScan, PushStart, PushWalked, PushInspected, PushWalk, PushInspectUnreadable,
        PushInspectFiltered, PushInspectVanished, PushInspectSkip
  <2> QED
    BY <2>1 DEF InPast, Fits
<1> QED
  BY <1>1, <1>2

LEMMA StampsFinish ==
    ASSUME TypeOK, PushFinish, NEW f \in Files, Timely(f)
    PROVE  Timely(f)' /\ (Fitting(f) => Fitting(f)')
<1> DEFINE Goal == Timely(f)' /\ (Fitting(f) => Fitting(f)')
<1> USE DEF TypeOK, WorldTypeOK, worldVars, treeVars, pastVars, Timely, Fitting
<1>1. CASE PushFilesDone
  <2>1. InPast(Overlay(meta, pend), f) /\ (Fitting(f) => Fits(Overlay(meta, pend), f))
    BY FitOverlay
  <2> QED
    BY <1>1, <2>1 DEF PushFilesDone, Pending, InPast, Fits, Empty
<1>2. CASE PushDone
  BY <1>2 DEF PushDone, Dropped, InPast, Fits, Empty
<1>3. ASSUME NEW g \in Files, PushDelete(g) PROVE Goal
  BY <1>3 DEF PushDelete, InPast, Fits
<1>4. ASSUME NEW g \in Files, PushDeleteLost(g) PROVE Goal
  BY <1>4 DEF PushDeleteLost, InPast, Fits
<1>5. ASSUME NEW g \in Files, PushDeleteRefused(g) PROVE Goal
  BY <1>5 DEF PushDeleteRefused, InPast, Fits
<1> QED
  BY <1>1, <1>2, <1>3, <1>4, <1>5, PushFinish DEF PushFinish

LEMMA StampsPass ==
    ASSUME TypeOK, PushStep \/ PushAbort, NEW f \in Files, Timely(f)
    PROVE  Timely(f)' /\ (Fitting(f) => Fitting(f)')
<1>1. CASE PushStep
  BY <1>1, StampsScan, StampsTransfer, StampsFinish DEF PushStep
<1>2. CASE PushAbort
  BY <1>2 DEF PushAbort, Dropped, TypeOK, WorldTypeOK, treeVars, Timely, InPast, Fitting,
              Fits, Empty
<1> QED
  BY <1>1, <1>2

LEMMA StampsStep == TypeOK /\ Stamps /\ [Next]_vars => Stamps'
<1> SUFFICES ASSUME TypeOK, Stamps, [Next]_vars PROVE Stamps'
  OBVIOUS
<1> USE DEF TypeOK, WorldTypeOK, worldVars, treeVars, pastVars, passVars, pushVars,
            Stamps, Timely, InPast, Fitting, Fits
<1>1. CASE PushStep \/ PushAbort
  BY <1>1, StampsPass
<1>2. ASSUME NEW f \in Files, UserDelete(f) PROVE Stamps'
  BY <1>2 DEF UserDelete, LocalRemove
<1>3. ASSUME NEW f \in Files, NEW c \in Contents, UserWrite(f, c) PROVE Stamps'
  BY <1>3 DEF UserWrite, LocalWrite, Version
<1>4. ASSUME NEW S \in SUBSET Files, SetFilter(S) PROVE Stamps'
  BY <1>4 DEF SetFilter, FilterChange
<1>5. ASSUME NEW t \in Territories, SetChildren(t) PROVE Stamps'
  BY <1>5 DEF SetChildren, ChildrenChange
<1>6. CASE UNCHANGED vars
  BY <1>6 DEF vars
<1> QED
  BY <1>1, <1>2, <1>3, <1>4, <1>5, <1>6 DEF Next, User

\* LiteSkipSound, for any number of files and any contents: a lite scan never takes
\* an edited file for an unchanged one.
THEOREM LiteSkipsAreSound == Spec => []LiteSkipSound
<1>1. Stamps => LiteSkipSound
  BY DEF Stamps, Fitting, Fits, LiteSkipSound, LiteUnchanged
<1> QED
  BY <1>1, TypeInit, TypeStep, StampsInit, StampsStep, PTL DEF Spec

-----------------------------------------------------------------------------
(* The records and the remote.  A file is in at most one of queue, batch and   *)
(* pend; pend holds new mtimes for contents already recorded; and what a       *)
(* per-file isolation has committed is unacknowledged until it is recorded.    *)

OnePlace ==
    /\ \A f \in Files : queue[f] # None => batch[f] = None /\ pend[f] = None
    /\ \A f \in Files : batch[f] # None => pend[f] = None
    /\ pushAt \in {"idle", "walk", "inspect", "delete"} => batch = Empty /\ pend = Empty
    /\ pushAt \in {"idle", "walk"} => queue = Empty

PendingKnown ==
    \A f \in Files : pend[f] # None => meta[f] # None /\ meta[f].data = pend[f].data

Isolation ==
    /\ pushAt = "isolate" => todo \subseteq Present(batch)
    /\ pushAt # "isolate" => succ = {}
    /\ \A f \in succ :
        /\ f \in unacked /\ batch[f] # None
        /\ batch[f].data \in Oversized \/ remote[f] = batch[f].data

Ledger == OnePlace /\ PendingKnown /\ Isolation /\ MetaMatchesRemote

LEMMA LedgerInit == Init => Ledger
BY DEF Init, PushInit, Ledger, OnePlace, PendingKnown, Isolation, MetaMatchesRemote,
       Present, Empty

LEMMA LedgerScan ==
    ASSUME TypeOK, Ledger, PushScan, UNCHANGED forbidden
    PROVE  Ledger'
<1> USE DEF TypeOK, WorldTypeOK, worldVars, treeVars, pastVars
<1>1. UNCHANGED <<remote, meta, batch, pend, succ, unacked>>
  BY PushScan
  DEF PushScan, PushStart, PushWalked, PushInspected, PushWalk, PushInspectUnreadable,
      PushInspectFiltered, PushInspectVanished, PushInspectSkip, PushInspectQueue
<1>2. PendingKnown' /\ MetaMatchesRemote'
  BY <1>1 DEF Ledger, PendingKnown, MetaMatchesRemote, Present
<1>3. pushAt \in {"idle", "walk", "inspect"} /\ pushAt' \in {"walk", "inspect", "prepare"}
  BY PushScan
  DEF PushScan, PushStart, PushWalked, PushInspected, PushWalk, PushInspectUnreadable,
      PushInspectFiltered, PushInspectVanished, PushInspectSkip, PushInspectQueue, Inspecting
<1>4. Isolation'
  BY <1>1, <1>3 DEF Ledger, Isolation
<1>5. OnePlace'
  <2>1. ASSUME NEW f \in Files, PushInspectQueue(f) PROVE OnePlace'
    BY <1>1, <2>1 DEF PushInspectQueue, Inspecting, Ledger, OnePlace, Empty
  <2>2. CASE ~\E f \in Files : PushInspectQueue(f)
    <3>1. queue' = queue /\ (pushAt' = "walk" => pushAt \in {"idle", "walk"})
      BY <2>2, PushScan
      DEF PushScan, PushStart, PushWalked, PushInspected, PushWalk, PushInspectUnreadable,
          PushInspectFiltered, PushInspectVanished, PushInspectSkip, Inspecting
    <3> QED
      BY <1>1, <1>3, <3>1 DEF Ledger, OnePlace
  <2> QED
    BY <2>1, <2>2
<1> QED
  BY <1>2, <1>4, <1>5 DEF Ledger

LEMMA LedgerTransfer ==
    ASSUME TypeOK, Ledger, PushTransfer, UNCHANGED forbidden
    PROVE  Ledger'
<1> USE DEF TypeOK, WorldTypeOK, worldVars, treeVars, pastVars, Ledger
<1>1. CASE PushCommit
  <2>1. OnePlace' /\ PendingKnown' /\ Isolation'
    BY <1>1 DEF PushCommit, Flushing, OnePlace, PendingKnown, Isolation, Empty
  <2>2. ASSUME NEW f \in Files, batch[f] # None
        PROVE  f \in unacked' \/ remote'[f] = meta'[f].data
    <3>1. Ready(f, batch[f])
      BY <1>1, <2>2 DEF PushCommit, Verified, Present
    <3>2. remote'[f] = Sent(f, batch[f]) /\ meta'[f] = batch[f]
      BY <1>1, <2>2, <3>1, SentIsThere DEF PushCommit, Overlay, Data
    <3> QED
      BY <1>1, <2>2, <3>2 DEF PushCommit, Told, Present
  <2>3. ASSUME NEW f \in Files, batch[f] = None, meta'[f] # None
        PROVE  /\ meta[f] # None /\ meta'[f].data = meta[f].data
               /\ remote'[f] = remote[f]
               /\ f \in unacked' <=> f \in unacked
    BY <1>1, <2>3 DEF PushCommit, Overlay, Data, PendingKnown, Present, Told
  <2> QED
    BY <2>1, <2>2, <2>3 DEF MetaMatchesRemote, Present
<1>2. CASE PushCommitLost
  <2>1. OnePlace' /\ PendingKnown' /\ Isolation'
    BY <1>2 DEF PushCommitLost, Dropped, OnePlace, PendingKnown, Isolation, Empty
  <2>2. ASSUME NEW f \in Files, f \notin unacked'
        PROVE  remote'[f] = remote[f] /\ f \notin unacked
    BY <1>2, <2>2 DEF PushCommitLost, Overlay, Data, Present
  <2> QED
    BY <1>2, <2>1, <2>2 DEF PushCommitLost, MetaMatchesRemote, Present
<1>3. CASE PushRejected
  BY <1>3 DEF PushRejected, Flushing, OnePlace, PendingKnown, Isolation, MetaMatchesRemote,
              Present
<1>4. CASE PushIsolated
  <2>1. OnePlace' /\ PendingKnown' /\ Isolation'
    BY <1>4 DEF PushIsolated, OnePlace, PendingKnown, Isolation, Empty
  <2>2. ASSUME NEW f \in succ PROVE f \in unacked' \/ remote'[f] = meta'[f].data
    <3>1. f \in Files /\ f \in unacked /\ batch[f] # None
      BY <2>2 DEF Isolation
    <3>2. batch[f].data \notin Oversized => remote[f] = batch[f].data
      BY <2>2 DEF Isolation
    <3>3. remote' = remote /\ meta'[f] = batch[f]
      BY <1>4, <2>2, <3>1 DEF PushIsolated, Won, Overlay
    <3>4. f \notin unacked' /\ batch[f].data \in Oversized => remote[f] = batch[f].data
      BY <1>4, <3>1 DEF PushIsolated
    <3> QED
      BY <3>2, <3>3, <3>4
  <2>3. ASSUME NEW f \in Files \ succ, meta'[f] # None
        PROVE  /\ meta[f] # None /\ meta'[f].data = meta[f].data
               /\ remote'[f] = remote[f]
               /\ f \in unacked' <=> f \in unacked
    BY <1>4, <2>3 DEF PushIsolated, Won, Overlay, PendingKnown
  <2> QED
    BY <2>1, <2>2, <2>3 DEF MetaMatchesRemote, Present
<1>5. ASSUME NEW f \in Files, PushPrepareFail(f) PROVE Ledger'
  BY <1>5 DEF PushPrepareFail, Preparing, OnePlace, PendingKnown, Isolation,
              MetaMatchesRemote, Present
<1>6. ASSUME NEW f \in Files, PushHashSkip(f) PROVE Ledger'
  <2>1. meta[f] # None /\ meta[f].data = local[f].data
    BY <1>6 DEF PushHashSkip, DataOf, Version
  <2>2. OnePlace' /\ PendingKnown'
    BY <1>6, <2>1 DEF PushHashSkip, Preparing, OnePlace, PendingKnown
  <2> QED
    BY <1>6, <2>2 DEF PushHashSkip, Preparing, Isolation, MetaMatchesRemote, Present
<1>7. ASSUME NEW f \in Files, PushBatch(f) PROVE Ledger'
  <2>1. OnePlace' /\ PendingKnown' /\ MetaMatchesRemote'
    BY <1>7 DEF PushBatch, Preparing, OnePlace, PendingKnown, MetaMatchesRemote, Present
  <2> QED
    BY <1>7, <2>1 DEF PushBatch, Preparing, Isolation
<1>8. ASSUME NEW f \in Files, PushIsolateOk(f) PROVE Ledger'
  <2>1. batch[f] # None
    BY <1>8 DEF PushIsolateOk, Isolating, Isolation, Present
  <2>2. Isolation'
    BY <1>8, <2>1 DEF PushIsolateOk, Isolating, Isolation, Present, Sent
  <2> QED
    BY <1>8, <2>2 DEF PushIsolateOk, Isolating, OnePlace, PendingKnown, MetaMatchesRemote,
                      Present
<1>9. ASSUME NEW f \in Files, PushIsolateFail(f) PROVE Ledger'
  BY <1>9 DEF PushIsolateFail, Isolating, OnePlace, PendingKnown, Isolation,
              MetaMatchesRemote, Present
<1>10. ASSUME NEW f \in Files, PushIsolateForbidden(f) PROVE Ledger'
  <2>1. batch[f] # None /\ pend[f] = None
    BY <1>10 DEF PushIsolateForbidden, Isolating, Isolation, Present, OnePlace
  <2>2. PendingKnown' /\ Isolation'
    BY <1>10, <2>1 DEF PushIsolateForbidden, Isolating, PendingKnown, Isolation, Present
  <2> QED
    BY <1>10, <2>2 DEF PushIsolateForbidden, Isolating, OnePlace, MetaMatchesRemote, Present
<1>11. ASSUME NEW f \in Files, PushIsolateLost(f) PROVE Ledger'
  <2>1. OnePlace' /\ PendingKnown' /\ Isolation'
    BY <1>11 DEF PushIsolateLost, Dropped, OnePlace, PendingKnown, Isolation, Empty
  <2> QED
    BY <1>11, <2>1 DEF PushIsolateLost, MetaMatchesRemote, Present
<1> QED
  BY <1>1, <1>2, <1>3, <1>4, <1>5, <1>6, <1>7, <1>8, <1>9, <1>10, <1>11, PushTransfer
  DEF PushTransfer

LEMMA LedgerFinish ==
    ASSUME TypeOK, Ledger, PushFinish, UNCHANGED forbidden
    PROVE  Ledger'
<1> USE DEF TypeOK, WorldTypeOK, worldVars, treeVars, pastVars, Ledger
<1>1. CASE PushFilesDone
  <2>1. OnePlace' /\ PendingKnown' /\ Isolation'
    BY <1>1 DEF PushFilesDone, Pending, OnePlace, PendingKnown, Isolation, Empty
  <2>2. ASSUME NEW f \in Files, meta'[f] # None
        PROVE  meta[f] # None /\ meta'[f].data = meta[f].data
    BY <1>1, <2>2 DEF PushFilesDone, Pending, Overlay, PendingKnown
  <2> QED
    BY <1>1, <2>1, <2>2 DEF PushFilesDone, Pending, MetaMatchesRemote, Present
<1>2. CASE PushDone
  BY <1>2 DEF PushDone, Dropped, OnePlace, PendingKnown, Isolation, MetaMatchesRemote,
              Present, Empty
<1>3. ASSUME NEW f \in Files, PushDelete(f) PROVE Ledger'
  <2>1. OnePlace' /\ Isolation' /\ MetaMatchesRemote'
    BY <1>3 DEF PushDelete, Deleting, OnePlace, Isolation, MetaMatchesRemote, Present
  <2>2. PendingKnown'
    BY <1>3 DEF PushDelete, Deleting, OnePlace, PendingKnown, Empty
  <2> QED
    BY <2>1, <2>2
<1>4. ASSUME NEW f \in Files, PushDeleteLost(f) PROVE Ledger'
  BY <1>4 DEF PushDeleteLost, Deleting, OnePlace, PendingKnown, Isolation,
              MetaMatchesRemote, Present
<1>5. ASSUME NEW f \in Files, PushDeleteRefused(f) PROVE Ledger'
  BY <1>5 DEF PushDeleteRefused, Deleting, OnePlace, PendingKnown, Isolation,
              MetaMatchesRemote, Present
<1> QED
  BY <1>1, <1>2, <1>3, <1>4, <1>5, PushFinish DEF PushFinish

LEMMA LedgerStep == TypeOK /\ Ledger /\ [Next]_vars => Ledger'
<1> SUFFICES ASSUME TypeOK, Ledger, [Next]_vars PROVE Ledger'
  OBVIOUS
<1> USE DEF TypeOK, WorldTypeOK, worldVars, treeVars, pastVars, passVars, pushVars,
            Ledger, OnePlace, PendingKnown, Isolation, MetaMatchesRemote, Present
<1>1. CASE PushStep
  BY <1>1, LedgerScan, LedgerTransfer, LedgerFinish DEF PushStep
<1>2. CASE PushAbort
  BY <1>2 DEF PushAbort, Dropped, Empty
<1>3. ASSUME NEW f \in Files, UserDelete(f) PROVE Ledger'
  BY <1>3 DEF UserDelete, LocalRemove
<1>4. ASSUME NEW f \in Files, NEW c \in Contents, UserWrite(f, c) PROVE Ledger'
  BY <1>4 DEF UserWrite, LocalWrite
<1>5. ASSUME NEW S \in SUBSET Files, SetFilter(S) PROVE Ledger'
  BY <1>5 DEF SetFilter, FilterChange
<1>6. ASSUME NEW t \in Territories, SetChildren(t) PROVE Ledger'
  BY <1>6 DEF SetChildren, ChildrenChange
<1>7. CASE UNCHANGED vars
  BY <1>7 DEF vars
<1> QED
  BY <1>1, <1>2, <1>3, <1>4, <1>5, <1>6, <1>7 DEF Next, User

\* MetaMatchesRemote: through batches, isolation, lost replies, aborts and deletions,
\* a stored record names what the remote holds, or the file is unacknowledged or forbidden.
THEOREM RecordsMatchRemote == Spec => []MetaMatchesRemote
<1>1. Ledger => MetaMatchesRemote
  BY DEF Ledger
<1> QED
  BY <1>1, TypeInit, TypeStep, LedgerInit, LedgerStep, PTL DEF Spec

-----------------------------------------------------------------------------
(* Deletions.  Whatever a pass has not seen when it comes to the deletions, it  *)
(* has lost in one of the ways that the property names.                        *)

Excused(f) == f \in gone \cup unreadable \cup (Files \ included) \cup child.local

Coverage ==
    /\ pushAt # "idle" => \A f \in Files : local[f] = None => f \in gone
    /\ pushAt = "walk" => \A f \in Files : f \in todo \cup walked \/ Excused(f)
    /\ pushAt = "inspect" => \A f \in Files : f \in todo \cup seen \/ Excused(f)
    /\ pushAt \in {"prepare", "isolate"} => \A f \in Files : f \in seen \/ Excused(f)
    /\ pushAt = "delete" =>
        \A f \in todo : DeleteLocalToRemote /\ f \notin child.remote /\ Excused(f)

LEMMA CoverageInit == Init => Coverage
BY DEF Init, PushInit, Coverage

LEMMA CoverageScan ==
    ASSUME TypeOK, Coverage, PushScan
    PROVE  Coverage'
<1> USE DEF TypeOK, worldVars, treeVars, pastVars, Coverage, Excused
<1>1. ASSUME NEW m \in Modes, PushStart(m) PROVE Coverage'
  BY <1>1 DEF PushStart, Present
<1>2. CASE PushWalked
  BY <1>2 DEF PushWalked
<1>3. CASE PushInspected
  BY <1>3 DEF PushInspected
<1>4. ASSUME NEW f \in Files, PushWalk(f) PROVE Coverage'
  BY <1>4 DEF PushWalk
<1>5. ASSUME NEW f \in Files, PushInspectUnreadable(f) PROVE Coverage'
  BY <1>5 DEF PushInspectUnreadable, Inspecting
<1>6. ASSUME NEW f \in Files, PushInspectFiltered(f) PROVE Coverage'
  BY <1>6 DEF PushInspectFiltered, Inspecting
<1>7. ASSUME NEW f \in Files, PushInspectVanished(f) PROVE Coverage'
  BY <1>7 DEF PushInspectVanished, Inspecting
<1>8. ASSUME NEW f \in Files, PushInspectSkip(f) PROVE Coverage'
  BY <1>8 DEF PushInspectSkip, Inspecting
<1>9. ASSUME NEW f \in Files, PushInspectQueue(f) PROVE Coverage'
  BY <1>9 DEF PushInspectQueue, Inspecting
<1> QED
  BY <1>1, <1>2, <1>3, <1>4, <1>5, <1>6, <1>7, <1>8, <1>9, PushScan DEF PushScan

\* A transfer neither sees nor loses a file; it stays between inspection and deletion.
LEMMA CoverageTransfer ==
    ASSUME TypeOK, Coverage, PushTransfer
    PROVE  Coverage'
<1> USE DEF worldVars, treeVars, pastVars
<1>1. \/ pushAt' = "idle"
      \/ /\ UNCHANGED <<local, included, child, seen, gone, unreadable>>
         /\ pushAt \in {"prepare", "isolate"} /\ pushAt' \in {"prepare", "isolate"}
  BY PushTransfer
  DEF PushTransfer, PushCommit, PushCommitLost, PushRejected, PushIsolated, PushPrepareFail,
      PushHashSkip, PushBatch, PushIsolateOk, PushIsolateFail, PushIsolateForbidden,
      PushIsolateLost, Flushing, Preparing, Isolating, Dropped
<1> QED
  BY <1>1 DEF Coverage, Excused

LEMMA CoverageFinish ==
    ASSUME TypeOK, Coverage, PushFinish
    PROVE  Coverage'
<1> USE DEF worldVars, treeVars, pastVars, Coverage, Excused
<1>1. CASE PushFilesDone
  BY <1>1 DEF PushFilesDone, Unseen, Pending, Present
<1>2. CASE PushDone
  BY <1>2 DEF PushDone, Dropped
<1>3. ASSUME NEW f \in Files, PushDelete(f) PROVE Coverage'
  BY <1>3 DEF PushDelete, Deleting
<1>4. ASSUME NEW f \in Files, PushDeleteLost(f) PROVE Coverage'
  BY <1>4 DEF PushDeleteLost, Deleting
<1>5. ASSUME NEW f \in Files, PushDeleteRefused(f) PROVE Coverage'
  BY <1>5 DEF PushDeleteRefused, Deleting
<1> QED
  BY <1>1, <1>2, <1>3, <1>4, <1>5, PushFinish DEF PushFinish

LEMMA CoverageStep == TypeOK /\ Coverage /\ [Next]_vars => Coverage'
<1> SUFFICES ASSUME TypeOK, Coverage, [Next]_vars PROVE Coverage'
  OBVIOUS
<1> USE DEF worldVars, treeVars, passVars, pastVars, pushVars
<1>1. CASE PushStep
  BY <1>1, CoverageScan, CoverageTransfer, CoverageFinish DEF PushStep
<1>2. CASE PushAbort
  BY <1>2 DEF PushAbort, Dropped, Coverage
<1>3. ASSUME NEW f \in Files, UserDelete(f) PROVE Coverage'
  BY <1>3 DEF UserDelete, LocalRemove, Coverage, Excused, TypeOK, WorldTypeOK
<1>4. ASSUME NEW f \in Files, NEW c \in Contents, UserWrite(f, c) PROVE Coverage'
  BY <1>4 DEF UserWrite, LocalWrite, Coverage, Excused, TypeOK, WorldTypeOK, Version
<1>5. ASSUME NEW S \in SUBSET Files, SetFilter(S) PROVE Coverage'
  BY <1>5 DEF SetFilter, FilterChange, Coverage
<1>6. ASSUME NEW t \in Territories, SetChildren(t) PROVE Coverage'
  BY <1>6 DEF SetChildren, ChildrenChange, Coverage
<1>7. CASE UNCHANGED vars
  BY <1>7 DEF vars, Coverage, Excused
<1> QED
  BY <1>1, <1>2, <1>3, <1>4, <1>5, <1>6, <1>7 DEF Next, User

\* The remote loses a file in no other step than a deletion.
LEMMA OnlyDeletionsDelete ==
    ASSUME TypeOK, Isolation, PushScan \/ PushTransfer,
           NEW f \in Files, remote[f] # None
    PROVE  remote'[f] # None
<1> USE DEF TypeOK, WorldTypeOK, worldVars, treeVars, pastVars
<1>1. CASE PushScan
  <2>1. remote' = remote
    BY <1>1
    DEF PushScan, PushStart, PushWalked, PushInspected, PushWalk, PushInspectUnreadable,
        PushInspectFiltered, PushInspectVanished, PushInspectSkip, PushInspectQueue
  <2> QED
    BY <2>1
<1>2. CASE PushCommit \/ PushCommitLost
  BY <1>2 DEF PushCommit, PushCommitLost, Overlay
<1>3. CASE \E g \in Files : PushIsolateOk(g) \/ PushIsolateLost(g)
  <2>1. PICK g \in Files : PushIsolateOk(g) \/ PushIsolateLost(g)
    BY <1>3
  <2>2. PICK c \in Contents : remote' = [remote EXCEPT ![g] = c]
    BY <2>1, SentIsThere DEF PushIsolateOk, PushIsolateLost
  <2> QED
    BY <2>2
<1>4. CASE ~(PushScan \/ PushCommit \/ PushCommitLost
             \/ \E g \in Files : PushIsolateOk(g) \/ PushIsolateLost(g))
  <2>1. remote' = remote
    BY <1>4, PushScan \/ PushTransfer
    DEF PushTransfer, PushRejected, PushIsolated, PushPrepareFail, PushHashSkip, PushBatch,
        PushIsolateFail, PushIsolateForbidden
  <2> QED
    BY <2>1
<1> QED
  BY <1>1, <1>2, <1>3, <1>4

LEMMA DeletionsStep ==
    TypeOK /\ Isolation /\ Coverage /\ [Next]_vars => [DeletesAreExplained]_vars
<1> SUFFICES ASSUME TypeOK, Isolation, Coverage, [Next]_vars,
                    NEW f \in Files, remote[f] # None, remote'[f] = None
             PROVE  DeleteLocalToRemote /\ f \notin child.remote /\ Excused(f)
  BY DEF DeletesAreExplained, Excused
<1>1. CASE PushFinish
  <2>1. PushDelete(f) \/ PushDeleteLost(f)
    BY <1>1 DEF PushFinish, PushFilesDone, PushDone, PushDelete, PushDeleteLost,
                PushDeleteRefused, worldVars, treeVars, TypeOK, WorldTypeOK
  <2> QED
    BY <2>1 DEF PushDelete, PushDeleteLost, Deleting, Coverage
<1>2. CASE PushScan \/ PushTransfer
  BY <1>2, OnlyDeletionsDelete
<1>3. CASE ~PushStep
  BY <1>3 DEF Next, User, PushAbort, UserDelete, UserWrite, SetFilter, SetChildren,
              LocalRemove, LocalWrite, FilterChange, ChildrenChange, worldVars, treeVars, vars
<1> QED
  BY <1>1, <1>2, <1>3 DEF PushStep

\* RemoteDeletesExplained: a pass deletes a remote file only where deletions propagate
\* and not under a child's remote path, and only if in that very pass the file was
\* missing, unreadable, filtered out or in a child's folder.
THEOREM DeletionsAreExplained == Spec => RemoteDeletesExplained
<1>1. Ledger => Isolation
  BY DEF Ledger
<1> QED
  BY <1>1, TypeInit, TypeStep, LedgerInit, LedgerStep, CoverageInit, CoverageStep,
     DeletionsStep, PTL DEF Spec, RemoteDeletesExplained
=============================================================================
