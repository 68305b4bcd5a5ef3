--------------------------- MODULE PullSyncProofs ---------------------------
(***************************************************************************)
(* Proofs about PullSync, for any files, chunks, lengths and bounds: type  *)
(* correctness, what a file is assembled to, LiteSkipSound and             *)
(* CheckpointHonest.                                                       *)
(***************************************************************************)
EXTENDS PullSync, TLAPS, WellFoundedInduction

USE NoneIsFresh, ChunkCount, ContentIsChunks

-----------------------------------------------------------------------------
(* Chunks. *)

\* A nonempty set of positions has a last one.
LEMMA LastPosition ==
    ASSUME NEW n \in Nat, NEW S, S \subseteq 1..n, S # {}
    PROVE  \E i \in S : \A j \in S : j <= i
<1> DEFINE T == {k \in Nat : n - k \in S}
<1>1. ASSUME NEW i \in S PROVE n - i \in T
  <2>1. i \in 1..n /\ n - i \in Nat /\ n - (n - i) = i
    OBVIOUS
  <2> QED
    BY <2>1
<1>2. T \subseteq Nat /\ T # {}
  BY <1>1
<1>3. PICK x \in T : \A y \in T : ~(<<y, x>> \in OpToRel(<, Nat))
  BY <1>2, WFMin, NatLessThanWellFounded
<1>4. \A y \in T : ~(y < x)
  BY <1>2, <1>3 DEF OpToRel
<1>5. ASSUME NEW j \in S PROVE j <= n - x
  <2>1. n - j \in T /\ j \in Nat /\ x \in Nat
    BY <1>1
  <2>2. ~(n - j < x)
    BY <2>1, <1>4
  <2> QED
    BY <2>1, <2>2
<1> QED
  BY <1>5

\* A chunk that a content holds is found at the offset taken for it.
LEMMA OffsetFinds ==
    ASSUME NEW c \in Contents, NEW h \in ChunksOf(c)
    PROVE  OffsetOf(h, c) \in 1..NumChunks /\ c[OffsetOf(h, c)] = h
<1> DEFINE S == {i \in 1..NumChunks : c[i] = h}
<1>1. S # {}
  BY DEF ChunksOf
<1>2. S \subseteq 1..NumChunks
  OBVIOUS
<1>3. \E i \in S : \A j \in S : j <= i
  BY <1>1, <1>2, LastPosition
<1>4. \E i \in 1..NumChunks : c[i] = h /\ \A j \in 1..NumChunks : c[j] = h => j <= i
  BY <1>3
<1> QED
  BY <1>4 DEF OffsetOf

LEMMA ChunksTyped ==
    ASSUME NEW c \in Contents \cup {None}
    PROVE  ChunksOf(c) \subseteq Chunks
BY DEF ChunksOf

-----------------------------------------------------------------------------
(* Types.  A wanted file is one that the root of the diff has, and a file is *)
(* recorded only after it was assembled.                                     *)

Shape ==
    /\ wanted \subseteq Present(root)
    /\ pullAt = "record" => cur \in [file : Files, data : Contents]

Typed == TypeOK /\ Shape

LEMMA EmptyTyped == Empty \in Tree /\ Empty \in [Files -> Version \cup {None}]
BY DEF Empty, Tree

LEMMA DiffTyped ==
    ASSUME NEW since, NEW now
    PROVE  DiffChanged(since, now) \subseteq Present(now) /\ Present(now) \subseteq Files
BY DEF DiffChanged, Present

\* An assembled file is a content: reused chunks come from a file that is there.
LEMMA AssembledTyped ==
    ASSUME Typed, NEW f \in wanted, local[f] # None \/ Reused(f) = {}
    PROVE  Assembled(f) \in Contents
<1>1. f \in Files /\ root[f] \in Contents
  BY DEF Typed, TypeOK, Shape, Present, Tree
<1>2. ASSUME NEW i \in Reused(f)
      PROVE  local[f].data[OffsetOf(root[f][i], plan[f])] \in Chunks
  <2>1. root[f][i] \in ChunksOf(plan[f]) /\ i \in 1..NumChunks
    BY <1>2 DEF Reused
  <2>2. plan[f] \in Contents
    BY <1>1, <2>1 DEF Typed, TypeOK, Tree, ChunksOf
  <2>3. local[f] \in Version
    BY <1>1, <1>2 DEF Typed, TypeOK, WorldTypeOK
  <2>4. OffsetOf(root[f][i], plan[f]) \in 1..NumChunks
    BY <2>1, <2>2, OffsetFinds
  <2> QED
    BY <2>3, <2>4 DEF Version
<1>3. \A i \in 1..NumChunks : root[f][i] \in Chunks
  BY <1>1
<1> QED
  BY <1>2, <1>3 DEF Assembled

LEMMA TypeInit == Init => Typed
<1> SUFFICES ASSUME Init PROVE Typed
  OBVIOUS
<1>1. WorldTypeOK
  BY EmptyTyped DEF Init, WorldTypeOK, Version, Tree
<1> QED
  BY <1>1, EmptyTyped DEF Init, PullInit, Typed, TypeOK, Shape, Present

LEMMA TypePass ==
    ASSUME Typed, PullStep
    PROVE  Typed'
<1> USE DEF Typed, TypeOK, WorldTypeOK, Shape, worldVars, treeVars
<1>1. CASE PullStart
  <2>1. wanted' \subseteq Present(remote) /\ wanted' \subseteq Files
    BY <1>1, DiffTyped DEF PullStart
  <2>2. doomed' \subseteq Files
    BY <1>1 DEF PullStart, DiffDeleted, Present
  <2>3. plan' \in Tree
    BY <1>1 DEF PullStart, DataOf, Version, Tree
  <2>4. root' \in Tree /\ wanted' \subseteq Present(root')
    BY <1>1, <2>1 DEF PullStart, Tree
  <2> QED
    BY <1>1, <2>1, <2>2, <2>3, <2>4 DEF PullStart, Present
<1>2. CASE PullFetch
  <2>1. \A f \in wanted : Needed(f) \subseteq Chunks
    BY ChunksTyped DEF Needed, Tree
  <2> QED
    BY <1>2, <2>1 DEF PullFetch, Present
<1>3. CASE PullFetchFail
  BY <1>3 DEF PullFetchFail, Fault, Present
<1>4. CASE PullRecord
  <2>1. cur.file \in Files /\ cur.data \in Contents
    BY <1>4 DEF PullRecord
  <2>2. NewRecord(cur.file) \in Version
    BY <2>1 DEF NewRecord, MtimeNow, Version
  <2>3. meta' \in [Files -> Version \cup {None}]
    BY <1>4, <2>2 DEF PullRecord
  <2> QED
    BY <1>4, <2>1, <2>3 DEF PullRecord, Present
<1>5. CASE PullRecordFail
  BY <1>5 DEF PullRecordFail, Fault, Present
<1>6. CASE PullAssembled
  BY <1>6 DEF PullAssembled, Present
<1>7. CASE PullCheckpoint
  <2>1. stray' \subseteq Files
    BY <1>7 DEF PullCheckpoint, DiffChanged, DiffDeleted, Overlooked, Present
  <2> QED
    BY <1>7, <2>1, EmptyTyped DEF PullCheckpoint, PassOver, NewCheckpoint, Present
<1>8. ASSUME NEW f \in Files, PullAssemble(f) PROVE Typed'
  <2>1. Assembled(f) \in Contents
    BY <1>8, AssembledTyped DEF PullAssemble
  <2>2. [data |-> Assembled(f), mtime |-> clock + 1] \in Version
    BY <2>1 DEF Version
  <2>3. local' \in [Files -> Version \cup {None}]
    BY <1>8, <2>2 DEF PullAssemble
  <2>4. cur' \in [file : Files, data : Contents]
    BY <1>8, <2>1 DEF PullAssemble
  <2> QED
    BY <1>8, <2>3, <2>4 DEF PullAssemble, Present
<1>9. ASSUME NEW f \in Files, PullAssembleFail(f) PROVE Typed'
  BY <1>9 DEF PullAssembleFail, Fault, Present
<1>10. ASSUME NEW f \in Files, PullRemove(f) PROVE Typed'
  BY <1>10 DEF PullRemove, Removing, Present
<1>11. ASSUME NEW f \in Files, PullRemoveFail(f) PROVE Typed'
  BY <1>11 DEF PullRemoveFail, Removing, Fault, Present
<1> QED
  BY <1>1, <1>2, <1>3, <1>4, <1>5, <1>6, <1>7, <1>8, <1>9, <1>10, <1>11, PullStep
  DEF PullStep

LEMMA TypeStep == Typed /\ [Next]_vars => Typed'
<1> SUFFICES ASSUME Typed, [Next]_vars PROVE Typed'
  OBVIOUS
<1> USE DEF Typed, TypeOK, WorldTypeOK, Shape, worldVars, treeVars, pullVars, jobVars
<1>1. CASE PullStep
  BY <1>1, TypePass DEF Typed
<1>2. CASE PullAbort
  BY <1>2, EmptyTyped DEF PullAbort, PassOver, Fault, Present
<1>3. CASE ForceSync
  BY <1>3 DEF ForceSync, Fault, Present
<1>4. ASSUME NEW f \in Files, UserDelete(f) PROVE Typed'
  BY <1>4 DEF UserDelete, LocalRemove, Present
<1>5. ASSUME NEW f \in Files, NEW c \in Contents, UserWrite(f, c) PROVE Typed'
  BY <1>5 DEF UserWrite, LocalWrite, Version, Present
<1>6. ASSUME NEW f \in Files, NEW c \in Contents \cup {None}, RemoteChange(f, c) PROVE Typed'
  BY <1>6 DEF RemoteChange, Present
<1>7. ASSUME NEW S \in SUBSET Files, SetFilter(S) PROVE Typed'
  BY <1>7 DEF SetFilter, FilterChange, Fault, Present
<1>8. ASSUME NEW t \in Territories, SetChildren(t) PROVE Typed'
  BY <1>8 DEF SetChildren, ChildrenChange, Fault, Present
<1>9. CASE UNCHANGED vars
  BY <1>9 DEF vars, Present
<1> QED
  BY <1>1, <1>2, <1>3, <1>4, <1>5, <1>6, <1>7, <1>8, <1>9 DEF Next, User

\* Every variable of a pull pass keeps its type; in particular what a pass puts
\* together from reused and fetched chunks is always a content of full length.
THEOREM TypeCorrect == Spec => []TypeOK
<1>1. Typed => TypeOK
  BY DEF Typed
<1> QED
  BY <1>1, TypeInit, TypeStep, PTL DEF Spec

-----------------------------------------------------------------------------
(* Assembly.  The mixture that TornAssembly exhibits needs a change of the   *)
(* file between the planning of its chunks and the reading of them.          *)

\* A file that still has the content it was planned with is assembled to what
\* the remote holds, whichever of its chunks are reused and wherever they lie.
AssemblyFaithful ==
    [][\A f \in Files : PullAssemble(f) /\ DataOf(local[f]) = plan[f] =>
            local'[f].data = root[f]]_vars

LEMMA FaithfulAssembly ==
    ASSUME Typed, NEW f \in wanted, DataOf(local[f]) = plan[f]
    PROVE  Assembled(f) = root[f]
<1>1. f \in Files /\ root[f] \in Contents
  BY DEF Typed, TypeOK, Shape, Present, Tree
<1>2. ASSUME NEW i \in Reused(f)
      PROVE  local[f].data[OffsetOf(root[f][i], plan[f])] = root[f][i]
  <2>1. root[f][i] \in ChunksOf(plan[f])
    BY <1>2 DEF Reused
  <2>2. plan[f] \in Contents /\ plan[f] # None
    BY <1>1, <2>1 DEF Typed, TypeOK, Tree, ChunksOf
  <2>3. local[f].data = plan[f]
    BY <2>2 DEF DataOf
  <2> QED
    BY <2>1, <2>2, <2>3, OffsetFinds
<1>3. Assembled(f) = [i \in 1..NumChunks |-> root[f][i]]
  BY <1>2 DEF Assembled
<1> QED
  BY <1>1, <1>3

\* AssemblyFaithful: assemble_file tears a file only if a local program changed it
\* after plan_local_chunks, for any number of chunks and any repetition among them.
THEOREM AssemblyIsFaithful == Spec => AssemblyFaithful
<1>1. ASSUME Typed, NEW f \in Files, PullAssemble(f), DataOf(local[f]) = plan[f]
      PROVE  local'[f].data = root[f]
  <2>1. Assembled(f) = root[f]
    BY <1>1, FaithfulAssembly DEF PullAssemble
  <2> QED
    BY <1>1, <2>1 DEF PullAssemble, Typed, TypeOK, WorldTypeOK
<1>2. Typed => \A f \in Files : PullAssemble(f) /\ DataOf(local[f]) = plan[f] =>
                                 local'[f].data = root[f]
  BY <1>1
<1> QED
  BY <1>2, TypeInit, TypeStep, PTL DEF Spec, AssemblyFaithful

-----------------------------------------------------------------------------
(* Modification times.  The puller writes files as well as records: a file   *)
(* it writes gets a time that no record has, and a record made of one        *)
(* content and the time of another is of a file in raced.                    *)

Stamps ==
    /\ \A f \in Files : local[f] # None => local[f].mtime <= clock
    /\ \A f \in Files : meta[f] # None => meta[f].mtime <= clock
    /\ \A f \in Files \ raced :
        local[f] # None /\ meta[f] # None /\ local[f].mtime = meta[f].mtime =>
            local[f].data = meta[f].data

LEMMA StampsInit == Init => Stamps
BY DEF Init, Stamps, Empty

\* Steps that change neither the folder nor the records nor raced.
LEMMA StampsQuiet ==
    ASSUME TypeOK, Stamps, UNCHANGED <<local, meta, raced>>, clock' \in {clock, clock + 1}
    PROVE  Stamps'
BY DEF TypeOK, WorldTypeOK, Stamps, Version

LEMMA StampsPass ==
    ASSUME Typed, Stamps, PullStep
    PROVE  Stamps'
<1> USE DEF Typed, TypeOK, WorldTypeOK, Shape, worldVars, treeVars
<1>1. CASE PullRecord
  <2>1. PICK f \in Files : f = cur.file
    BY <1>1 DEF PullRecord
  <2>2. /\ meta' = [meta EXCEPT ![f] = NewRecord(f)]
        /\ raced' = IF local[f] # None /\ local[f].data # cur.data
                     THEN raced \cup {f} ELSE raced
        /\ UNCHANGED <<local, clock>>
    BY <1>1, <2>1 DEF PullRecord
  <2>3. NewRecord(f).mtime = MtimeNow(f) /\ NewRecord(f).data = cur.data
    BY DEF NewRecord
  <2>4. MtimeNow(f) <= clock
    BY DEF MtimeNow, Stamps
  <2>5. ASSUME NEW g \in Files, g # f
        PROVE  meta'[g] = meta[g] /\ (g \in raced' <=> g \in raced)
    BY <2>2, <2>5
  <2>6. meta'[f] = NewRecord(f)
    BY <2>2
  <2> QED
    BY <2>2, <2>3, <2>4, <2>5, <2>6 DEF Stamps, MtimeNow
<1>2. ASSUME NEW f \in Files, PullAssemble(f) PROVE Stamps'
  BY <1>2 DEF PullAssemble, Stamps, Version
<1>3. ASSUME NEW f \in Files, PullRemove(f) PROVE Stamps'
  BY <1>3 DEF PullRemove, Stamps
<1>4. ASSUME NEW f \in Files, PullRemoveFail(f) PROVE Stamps'
  BY <1>4 DEF PullRemoveFail, Stamps
<1>5. CASE PullStart
  BY <1>5, StampsQuiet DEF PullStart
<1>6. CASE PullFetch
  BY <1>6, StampsQuiet DEF PullFetch
<1>7. CASE PullFetchFail
  BY <1>7, StampsQuiet DEF PullFetchFail
<1>8. CASE PullRecordFail
  BY <1>8, StampsQuiet DEF PullRecordFail
<1>9. CASE PullAssembled
  BY <1>9, StampsQuiet DEF PullAssembled
<1>10. CASE PullCheckpoint
  BY <1>10, StampsQuiet DEF PullCheckpoint
<1>11. ASSUME NEW f \in Files, PullAssembleFail(f) PROVE Stamps'
  BY <1>11, StampsQuiet DEF PullAssembleFail
<1> QED
  BY <1>1, <1>2, <1>3, <1>4, <1>5, <1>6, <1>7, <1>8, <1>9, <1>10, <1>11, PullStep
  DEF PullStep

LEMMA StampsStep == Typed /\ Stamps /\ [Next]_vars => Stamps'
<1> SUFFICES ASSUME Typed, Stamps, [Next]_vars PROVE Stamps'
  OBVIOUS
<1> USE DEF Typed, TypeOK, WorldTypeOK, worldVars, treeVars, pullVars
<1>1. CASE PullStep
  BY <1>1, StampsPass
<1>2. CASE PullAbort
  BY <1>2, StampsQuiet DEF PullAbort
<1>3. CASE ForceSync
  BY <1>3, StampsQuiet DEF ForceSync
<1>4. ASSUME NEW f \in Files, UserDelete(f) PROVE Stamps'
  BY <1>4 DEF UserDelete, LocalRemove, Stamps
<1>5. ASSUME NEW f \in Files, NEW c \in Contents, UserWrite(f, c) PROVE Stamps'
  BY <1>5 DEF UserWrite, LocalWrite, Stamps, Version
<1>6. ASSUME NEW f \in Files, NEW c \in Contents \cup {None}, RemoteChange(f, c) PROVE Stamps'
  BY <1>6, StampsQuiet DEF RemoteChange
<1>7. ASSUME NEW S \in SUBSET Files, SetFilter(S) PROVE Stamps'
  BY <1>7, StampsQuiet DEF SetFilter, FilterChange
<1>8. ASSUME NEW t \in Territories, SetChildren(t) PROVE Stamps'
  BY <1>8, StampsQuiet DEF SetChildren, ChildrenChange
<1>9. CASE UNCHANGED vars
  BY <1>9, StampsQuiet DEF vars
<1> QED
  BY <1>1, <1>2, <1>3, <1>4, <1>5, <1>6, <1>7, <1>8, <1>9 DEF Next, User

\* LiteSkipSound: apart from the window between rename and reading the mtime, a
\* record with the size and mtime of its file has the content of its file.
THEOREM LiteSkipsAreSound == Spec => []LiteSkipSound
<1>1. Stamps => LiteSkipSound
  BY DEF Stamps, LiteSkipSound, LiteUnchanged
<1> QED
  BY <1>1, TypeInit, TypeStep, StampsInit, StampsStep, PTL DEF Spec

-----------------------------------------------------------------------------
(* The checkpoint.  A pass moves it from ckpt to root.  What both say of a   *)
(* file is recorded already (Kept); what they say differently is recorded    *)
(* only for the files in brought (Delivered).                                *)

\* What the old checkpoint says is recorded, where no pass strayed.
Kept ==
    ckpt # None => \A f \in Present(ckpt) \ stray : DataOf(meta[f]) = ckpt[f]

\* What the pass has brought is recorded as the root has it.
Delivered ==
    /\ \A f \in brought : DataOf(meta[f]) = root[f]
    /\ brought \cap wanted = {}
    /\ doomed \cap Present(root) = {}
    /\ pullAt = "record" =>
        /\ cur.file \in stray
        /\ cur.file \notin wanted \cup brought
    /\ pullAt = "idle" => brought = {}

Progress == Kept /\ Delivered

LEMMA ProgressInit == Init => Progress
BY DEF Init, PullInit, Progress, Kept, Delivered

LEMMA ProgressPass ==
    ASSUME Typed, Progress, PullStep
    PROVE  Progress'
<1> USE DEF Typed, TypeOK, WorldTypeOK, Shape, worldVars, treeVars
<1>1. CASE PullStart
  BY <1>1 DEF PullStart, DiffDeleted, Progress, Kept, Delivered, Present
<1>2. CASE PullFetch
  BY <1>2 DEF PullFetch, Progress, Kept, Delivered, Present
<1>3. CASE PullFetchFail
  BY <1>3 DEF PullFetchFail, Progress, Kept, Delivered, Present
<1>4. CASE PullRecord
  <2>1. PICK f \in Files : f = cur.file
    BY <1>4 DEF PullRecord
  <2>2. /\ meta' = [meta EXCEPT ![f] = NewRecord(f)]
        /\ brought' = IF cur.data = root[f] THEN brought \cup {f} ELSE brought
        /\ UNCHANGED <<ckpt, root, wanted, doomed, stray>>
        /\ pullAt' = "assemble"
    BY <1>4, <2>1 DEF PullRecord
  <2>3. DataOf(meta'[f]) = cur.data
    <3>1. NewRecord(f) \in Version /\ NewRecord(f).data = cur.data
      BY <1>4, <2>1 DEF PullRecord, NewRecord, MtimeNow, Version
    <3> QED
      BY <2>2, <3>1 DEF DataOf
  <2>4. f \in stray /\ f \notin wanted \cup brought
    BY <1>4, <2>1 DEF PullRecord, Progress, Delivered
  <2>5. \A g \in Files \ {f} : meta'[g] = meta[g]
    BY <2>2
  <2>6. Kept'
    BY <2>2, <2>4, <2>5 DEF Progress, Kept, Present
  <2>7. Delivered'
    BY <2>2, <2>3, <2>4, <2>5 DEF Progress, Delivered, Present
  <2> QED
    BY <2>6, <2>7 DEF Progress
<1>5. CASE PullRecordFail
  BY <1>5 DEF PullRecordFail, Progress, Kept, Delivered, Present
<1>6. CASE PullAssembled
  BY <1>6 DEF PullAssembled, Progress, Kept, Delivered, Present
<1>7. CASE PullCheckpoint
  <2>1. ASSUME NEW f \in Present(root) \ stray' PROVE DataOf(meta[f]) = root[f]
    <3>1. CASE f \in brought
      BY <3>1 DEF Progress, Delivered
    <3>2. CASE f \notin brought
      <4>1. f \notin stray /\ f \notin DiffChanged(ckpt, root)
        BY <1>7, <2>1, <3>2 DEF PullCheckpoint
      <4>2. ckpt # None /\ ckpt[f] = root[f] /\ f \in Present(ckpt)
        BY <2>1, <4>1 DEF DiffChanged, Present
      <4> QED
        BY <4>1, <4>2 DEF Progress, Kept
    <3> QED
      BY <3>1, <3>2
  <2>2. ckpt' = root /\ meta' = meta
    BY <1>7 DEF PullCheckpoint, NewCheckpoint
  <2>3. Kept'
    BY <2>1, <2>2 DEF Kept, Present
  <2>4. Delivered'
    BY <1>7 DEF PullCheckpoint, PassOver, Delivered, Present
  <2> QED
    BY <2>3, <2>4 DEF Progress
<1>8. ASSUME NEW f \in Files, PullAssemble(f) PROVE Progress'
  BY <1>8 DEF PullAssemble, Progress, Kept, Delivered, Present
<1>9. ASSUME NEW f \in Files, PullAssembleFail(f) PROVE Progress'
  BY <1>9 DEF PullAssembleFail, Progress, Kept, Delivered, Present
<1>10. ASSUME NEW f \in Files, PullRemove(f) PROVE Progress'
  BY <1>10 DEF PullRemove, Removing, Progress, Kept, Delivered, Present, DataOf
<1>11. ASSUME NEW f \in Files, PullRemoveFail(f) PROVE Progress'
  BY <1>11 DEF PullRemoveFail, Removing, Progress, Kept, Delivered, Present
<1> QED
  BY <1>1, <1>2, <1>3, <1>4, <1>5, <1>6, <1>7, <1>8, <1>9, <1>10, <1>11, PullStep
  DEF PullStep

LEMMA ProgressStep == Typed /\ Progress /\ [Next]_vars => Progress'
<1> SUFFICES ASSUME Typed, Progress, [Next]_vars PROVE Progress'
  OBVIOUS
<1> USE DEF Progress, Kept, Delivered, Present, worldVars, treeVars, pullVars, jobVars
<1>1. CASE PullStep
  BY <1>1, ProgressPass DEF Progress
<1>2. CASE PullAbort
  BY <1>2 DEF PullAbort, PassOver
<1>3. CASE ForceSync
  BY <1>3 DEF ForceSync
<1>4. ASSUME NEW f \in Files, UserDelete(f) PROVE Progress'
  BY <1>4 DEF UserDelete, LocalRemove
<1>5. ASSUME NEW f \in Files, NEW c \in Contents, UserWrite(f, c) PROVE Progress'
  BY <1>5 DEF UserWrite, LocalWrite
<1>6. ASSUME NEW f \in Files, NEW c \in Contents \cup {None}, RemoteChange(f, c) PROVE Progress'
  BY <1>6 DEF RemoteChange
<1>7. ASSUME NEW S \in SUBSET Files, SetFilter(S) PROVE Progress'
  BY <1>7 DEF SetFilter, FilterChange
<1>8. ASSUME NEW t \in Territories, SetChildren(t) PROVE Progress'
  BY <1>8 DEF SetChildren, ChildrenChange
<1>9. CASE UNCHANGED vars
  BY <1>9 DEF vars
<1> QED
  BY <1>1, <1>2, <1>3, <1>4, <1>5, <1>6, <1>7, <1>8, <1>9 DEF Next, User

\* CheckpointHonest: whatever failed or was cut short in the passes before, the
\* stored checkpoint claims of no file more than its record does, except for stray.
THEOREM CheckpointIsHonest == Spec => []CheckpointHonest
<1>1. Progress => CheckpointHonest
  BY DEF Progress, Kept, CheckpointHonest
<1> QED
  BY <1>1, TypeInit, TypeStep, ProgressInit, ProgressStep, PTL DEF Spec
=============================================================================
