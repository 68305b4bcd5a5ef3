------------------------ MODULE MetadataStoreProofs -------------------------
(***************************************************************************)
(* Proofs about MetadataStore, for any files, records and buckets and any  *)
(* number of moves and faults: type correctness, and, when no              *)
(* synchronisation runs while the state is cleared, RemovedStaysRemoved,   *)
(* ReadsAgree, StartsFromScratch and the refinement of RecordStore.        *)
(***************************************************************************)
EXTENDS MetadataStore, TLAPS

USE BucketType, NoRecordFile, StoreBounds

-----------------------------------------------------------------------------
(* Types. *)

\* A removal that has reached its second write knows its file.
Typed == TypeOK /\ (passAt = "unlink" => target \in Files)

LEMMA EmptyTyped == Empty \in Map
BY DEF Empty, Map

LEMMA IndexTyped ==
    ASSUME TypeOK
    PROVE  Index \in Map
BY DEF TypeOK, Index

LEMMA TypeInit == Init => Typed
<1> SUFFICES ASSUME Init PROVE Typed
  OBVIOUS
<1>1. single \in Map /\ bucket \in Map /\ index \in Map \cup {None} /\ manifest \in BOOLEAN
  BY EmptyTyped DEF Init
<1>2. checkpoint \in Nat \cup {None}
  BY DEF Init
<1> QED
  BY <1>1, <1>2, EmptyTyped DEF Init, Typed, TypeOK

LEMMA TypePass ==
    ASSUME Typed, Pass
    PROVE  Typed'
<1> USE DEF Typed, TypeOK, recordVars, passVars, clearVars, pastVars
<1>1. CASE PassStart
  BY <1>1 DEF PassStart
<1>2. ASSUME NEW u \in Map \ {Empty}, SetBegin(u) PROVE Typed'
  BY <1>2, IndexTyped DEF SetBegin
<1>3. CASE Migrate
  BY <1>3, EmptyTyped DEF Migrate, Map
<1>4. CASE Merge
  BY <1>4, EmptyTyped DEF Merge, Merged, Map
<1>5. ASSUME NEW f \in Files, Delete(f) PROVE Typed'
  BY <1>5 DEF Delete, Map
<1>6. ASSUME NEW f \in Files, DeleteIndexed(f) PROVE Typed'
  <2>1. index' \in Map \cup {None}
    BY <1>6, IndexTyped DEF DeleteIndexed, Map
  <2> QED
    BY <1>6, <2>1 DEF DeleteIndexed
<1>7. CASE Unlink
  BY <1>7 DEF Unlink, Map
<1>8. CASE SetCheckpoint
  BY <1>8 DEF SetCheckpoint
<1>9. CASE PassFails
  <2>1. Leftover \subseteq Files
    BY DEF Leftover
  <2> QED
    BY <1>9, <2>1, EmptyTyped DEF PassFails
<1>10. CASE ClearCheckpoint
  BY <1>10 DEF ClearCheckpoint
<1> QED
  BY <1>1, <1>2, <1>3, <1>4, <1>5, <1>6, <1>7, <1>8, <1>9, <1>10, Pass DEF Pass

LEMMA TypeClearing ==
    ASSUME Typed, Clearing
    PROVE  Typed'
<1> USE DEF Typed, TypeOK, recordVars, passVars, clearVars, pastVars
<1>1. CASE Move
  BY <1>1 DEF Move
<1>2. CASE ClearBegin
  BY <1>2 DEF ClearBegin, Present
<1>3. ASSUME NEW f \in Files, ClearSingle(f) PROVE Typed'
  BY <1>3 DEF ClearSingle, Map
<1>4. CASE ClearIndex
  BY <1>4 DEF ClearIndex
<1>5. CASE ClearList
  <2>1. doomed' \subseteq Files \cup Buckets \cup {"manifest"}
    BY <1>5 DEF ClearList, Present
  <2> QED
    BY <1>5, <2>1 DEF ClearList
<1>6. ASSUME NEW x \in Buckets \cup {"manifest"}, ClearFile(x) PROVE Typed'
  BY <1>6 DEF ClearFile, Map
<1>7. CASE ClearDone
  BY <1>7 DEF ClearDone
<1>8. CASE ClearFails
  <2>1. Leftover \subseteq Files
    BY DEF Leftover
  <2> QED
    BY <1>8, <2>1 DEF ClearFails
<1> QED
  BY <1>1, <1>2, <1>3, <1>4, <1>5, <1>6, <1>7, <1>8, Clearing DEF Clearing

LEMMA TypeStep == Typed /\ [Next]_vars => Typed'
<1> SUFFICES ASSUME Typed, [Next]_vars PROVE Typed'
  OBVIOUS
<1>1. CASE UNCHANGED vars
  BY <1>1 DEF vars, Typed, TypeOK, recordVars, passVars, clearVars, pastVars
<1> QED
  BY <1>1, TypePass, TypeClearing DEF Next

\* Every file of the state database and every variable of the two tasks keeps its
\* type, also when the tasks overlap.
THEOREM TypeCorrect == Spec => []TypeOK
<1>1. Typed => TypeOK
  BY DEF Typed
<1> QED
  BY <1>1, TypeInit, TypeStep, PTL DEF Spec

-----------------------------------------------------------------------------
(* The discipline of the two tasks when they do not overlap. *)

Bare(m) == \A f \in Files : m[f] = None

Apart == passAt = "idle" \/ clearAt = "idle"

\* What a pass has learnt still holds when it acts on it.
PassKnows ==
    /\ passAt = "store" => ~manifest /\ loaded = Index
    /\ passAt = "merge" => manifest
    /\ passAt = "unlink" => ~manifest /\ Index[target] = None /\ target \in torn

\* What a clear has listed is all there is.
ClearKnows ==
    /\ clearAt = "single" => Present(single) \subseteq doomed
    /\ clearAt \in {"index", "bucket"} => Bare(single) /\ index = None
    /\ clearAt = "bucket" =>
        /\ \A f \in Present(bucket) : BucketOf[f] \in doomed
        /\ manifest => "manifest" \in doomed

\* An index that a removal made agrees with the single files, and buckets without a
\* manifest are leftovers of a clear that got past the older formats.
Formats ==
    /\ index # None =>
        \A f \in Files : single[f] # None /\ index[f] # None => index[f] = single[f]
    /\ ~manifest => Bare(bucket) \/ (Bare(single) /\ index = None)

Discipline == Apart /\ PassKnows /\ ClearKnows /\ Formats

LEMMA DisciplineInit == Init => Discipline
BY DEF Init, Discipline, Apart, PassKnows, ClearKnows, Formats, Bare, Empty

LEMMA DisciplinePass ==
    ASSUME ~Overlap, Typed, Discipline, Pass
    PROVE  Discipline'
<1> USE DEF Typed, TypeOK, recordVars, passVars, clearVars, pastVars, Discipline, Apart, PassKnows
<1>1. CASE PassStart
  BY <1>1 DEF PassStart, ClearKnows, Formats, Bare, Present, Index
<1>2. ASSUME NEW u \in Map \ {Empty}, SetBegin(u) PROVE Discipline'
  BY <1>2 DEF SetBegin, ClearKnows, Formats, Bare, Present, Index
<1>3. CASE Migrate
  BY <1>3 DEF Migrate, ClearKnows, Formats, Bare, Present
<1>4. CASE Merge
  BY <1>4 DEF Merge, ClearKnows, Formats, Bare, Present
<1>5. ASSUME NEW f \in Files, Delete(f) PROVE Discipline'
  BY <1>5 DEF Delete, ClearKnows, Formats, Bare, Present
<1>6. ASSUME NEW f \in Files, DeleteIndexed(f) PROVE Discipline'
  <2>1. Index \in Map
    BY IndexTyped
  <2>2. index' \in Map \cup {None} /\ Index'[f] = None
    BY <1>6, <2>1 DEF DeleteIndexed, Index, Map
  <2>3. ASSUME NEW g \in Files, index' # None, single[g] # None, index'[g] # None
        PROVE  index'[g] = single[g]
    BY <1>6, <2>1, <2>3 DEF DeleteIndexed, Index, Map, Formats
  <2>4. ASSUME Bare(single), index = None PROVE index' = None
    BY <1>6, <2>4 DEF DeleteIndexed, Index, Bare
  <2> QED
    BY <1>6, <2>2, <2>3, <2>4 DEF DeleteIndexed, ClearKnows, Formats, Bare
<1>7. CASE Unlink
  BY <1>7 DEF Unlink, ClearKnows, Formats, Bare, Map
<1>8. CASE SetCheckpoint
  BY <1>8 DEF SetCheckpoint, ClearKnows, Formats, Bare, Present
<1>9. CASE PassFails
  BY <1>9 DEF PassFails, ClearKnows, Formats, Bare, Present
<1>10. CASE ClearCheckpoint
  BY <1>10 DEF ClearCheckpoint, ClearKnows, Formats, Bare, Present, Index
<1> QED
  BY <1>1, <1>2, <1>3, <1>4, <1>5, <1>6, <1>7, <1>8, <1>9, <1>10, Pass DEF Pass

LEMMA DisciplineClearing ==
    ASSUME ~Overlap, Typed, Discipline, Clearing
    PROVE  Discipline'
<1> USE DEF Typed, TypeOK, recordVars, passVars, clearVars, pastVars, Discipline, Apart, PassKnows
<1>1. CASE Move
  BY <1>1 DEF Move, ClearKnows, Formats, Bare, Present
<1>2. CASE ClearBegin
  BY <1>2 DEF ClearBegin, ClearKnows, Formats, Bare
<1>3. ASSUME NEW f \in Files, ClearSingle(f) PROVE Discipline'
  BY <1>3 DEF ClearSingle, ClearKnows, Formats, Bare, Present, Map
<1>4. CASE ClearIndex
  BY <1>4 DEF ClearIndex, ClearKnows, Formats, Bare, Present
<1>5. CASE ClearList
  BY <1>5 DEF ClearList, ClearKnows, Formats, Bare, Present
<1>6. ASSUME NEW x \in Buckets \cup {"manifest"}, ClearFile(x) PROVE Discipline'
  BY <1>6 DEF ClearFile, ClearKnows, Formats, Bare, Present
<1>7. CASE ClearDone
  BY <1>7 DEF ClearDone, ClearKnows, Formats, Bare
<1>8. CASE ClearFails
  BY <1>8 DEF ClearFails, ClearKnows, Formats, Bare
<1> QED
  BY <1>1, <1>2, <1>3, <1>4, <1>5, <1>6, <1>7, <1>8, Clearing DEF Clearing

LEMMA DisciplineStep ==
    ASSUME ~Overlap
    PROVE  Typed /\ Discipline /\ [Next]_vars => Discipline'
<1> SUFFICES ASSUME Typed, Discipline, [Next]_vars PROVE Discipline'
  OBVIOUS
<1>1. CASE UNCHANGED vars
  BY <1>1 DEF vars, recordVars, passVars, clearVars, pastVars, Discipline, Apart, PassKnows,
              ClearKnows, Formats, Bare, Present, Index
<1> QED
  BY <1>1, DisciplinePass, DisciplineClearing DEF Next

-----------------------------------------------------------------------------
(* The checkpoint.  A pass stores the number of the paths it was started for; *)
(* while the state is cleared there is none.                                  *)

Scratch ==
    /\ cleared <= moves
    /\ passAt # "idle" => born = moves
    /\ clearAt \in {"single", "index", "bucket"} => checkpoint = None
    /\ StartsFromScratch

LEMMA ScratchInit == Init => Scratch
BY DEF Init, Scratch, StartsFromScratch

LEMMA ScratchStep ==
    ASSUME ~Overlap
    PROVE  Typed /\ Discipline /\ Scratch /\ [Next]_vars => Scratch'
<1> SUFFICES ASSUME Typed, Discipline, Scratch, [Next]_vars PROVE Scratch'
  OBVIOUS
<1> USE DEF Typed, TypeOK, Discipline, Apart, Scratch, StartsFromScratch,
            recordVars, passVars, clearVars, pastVars
<1>1. CASE PassStart
  BY <1>1 DEF PassStart
<1>2. CASE SetCheckpoint
  BY <1>2 DEF SetCheckpoint
<1>3. CASE PassFails
  BY <1>3 DEF PassFails
<1>4. CASE ClearCheckpoint
  BY <1>4 DEF ClearCheckpoint
<1>5. CASE Move
  BY <1>5 DEF Move
<1>6. CASE ClearBegin
  BY <1>6 DEF ClearBegin
<1>7. CASE ClearDone
  BY <1>7 DEF ClearDone
<1>8. CASE ClearFails
  BY <1>8 DEF ClearFails
<1>9. CASE \/ \E u \in Map \ {Empty} : SetBegin(u)
           \/ Migrate \/ Merge \/ Unlink
           \/ \E f \in Files : Delete(f) \/ DeleteIndexed(f)
  BY <1>9 DEF SetBegin, Migrate, Merge, Unlink, Delete, DeleteIndexed
<1>10. CASE \/ \E f \in Files : ClearSingle(f)
            \/ ClearIndex \/ ClearList
            \/ \E x \in Buckets \cup {"manifest"} : ClearFile(x)
  BY <1>10 DEF ClearSingle, ClearIndex, ClearList, ClearFile
<1>11. CASE UNCHANGED vars
  BY <1>11 DEF vars
<1> QED
  BY <1>1, <1>2, <1>3, <1>4, <1>5, <1>6, <1>7, <1>8, <1>9, <1>10, <1>11
  DEF Next, Pass, Clearing

\* StartsFromScratch, for any number of moves and faults: unless a synchronisation
\* overlaps the clearing, no checkpoint outlives a clear that returned Ok.
THEOREM PullsStartFromScratch ==
    ASSUME ~Overlap
    PROVE  Spec => []StartsFromScratch
<1>1. Scratch => StartsFromScratch
  BY DEF Scratch
<1> QED
  BY <1>1, TypeInit, TypeStep, DisciplineInit, DisciplineStep, ScratchInit, ScratchStep, PTL
  DEF Spec

-----------------------------------------------------------------------------
(* Removals.  A removed record is in no place from which a reader, a         *)
(* migration or the loss of the manifest could bring it back.                *)

Gone ==
    \A f \in removed \ torn :
        /\ bucket[f] = None
        /\ ~manifest => Index[f] = None /\ single[f] = None

\* The single file of a record outlives its entry in the index only in torn.
Agree ==
    \A f \in Files \ torn :
        ~manifest /\ index # None /\ single[f] # None => index[f] # None

\* So do buckets without a manifest, once the clear that left them has ended.
LeftoversTorn == clearAt # "bucket" => Leftover \subseteq torn

Removals == Gone /\ Agree /\ LeftoversTorn

LEMMA RemovalsInit == Init => Removals
BY DEF Init, Removals, Gone, Agree, LeftoversTorn, Leftover, Empty

LEMMA RemovalsPass ==
    ASSUME ~Overlap, Typed, Discipline, Removals, Pass
    PROVE  Removals'
<1> USE DEF Typed, TypeOK, Discipline, PassKnows, Removals, Gone, Agree,
            LeftoversTorn, Leftover, Apart,
            recordVars, passVars, clearVars, pastVars
<1>1. CASE PassStart
  BY <1>1 DEF PassStart, Index
<1>2. ASSUME NEW u \in Map \ {Empty}, SetBegin(u) PROVE Removals'
  BY <1>2 DEF SetBegin, Index
<1>3. CASE Migrate
  BY <1>3 DEF Migrate
<1>4. CASE Merge
  BY <1>4 DEF Merge, Merged, Present
<1>5. ASSUME NEW f \in Files, Delete(f) PROVE Removals'
  BY <1>5 DEF Delete, Map
<1>6. ASSUME NEW f \in Files, DeleteIndexed(f) PROVE Removals'
  <2>1. Index \in Map
    BY IndexTyped
  <2>2. \A g \in Files \ {f} : Index'[g] = Index[g]
    BY <1>6, <2>1 DEF DeleteIndexed, Index, Map
  <2>3. Gone'
    BY <1>6, <2>2 DEF DeleteIndexed
  <2>4. ASSUME NEW g \in Files \ torn', index' # None, single[g] # None PROVE index'[g] # None
    BY <1>6, <2>1, <2>4 DEF DeleteIndexed, Index, Map
  <2> QED
    BY <1>6, <2>3, <2>4 DEF DeleteIndexed
<1>7. CASE Unlink
  BY <1>7 DEF Unlink, Index, Map
<1>8. CASE SetCheckpoint
  BY <1>8 DEF SetCheckpoint, Index
<1>9. CASE PassFails
  BY <1>9 DEF PassFails, Index
<1>10. CASE ClearCheckpoint
  BY <1>10 DEF ClearCheckpoint, Index
<1> QED
  BY <1>1, <1>2, <1>3, <1>4, <1>5, <1>6, <1>7, <1>8, <1>9, <1>10, Pass DEF Pass

LEMMA RemovalsClearing ==
    ASSUME ~Overlap, Typed, Discipline, Removals, Clearing
    PROVE  Removals'
<1> USE DEF Typed, TypeOK, Discipline, ClearKnows, Removals, Gone, Agree,
            LeftoversTorn, Leftover,
            recordVars, passVars, clearVars, pastVars
<1>1. CASE Move
  BY <1>1 DEF Move, Index
<1>2. CASE ClearBegin
  BY <1>2 DEF ClearBegin, Index
<1>3. ASSUME NEW f \in Files, ClearSingle(f) PROVE Removals'
  BY <1>3 DEF ClearSingle, Index, Map
<1>4. CASE ClearIndex
  BY <1>4 DEF ClearIndex, Index
<1>5. CASE ClearList
  BY <1>5 DEF ClearList, Index
<1>6. ASSUME NEW x \in Buckets \cup {"manifest"}, ClearFile(x) PROVE Removals'
  BY <1>6 DEF ClearFile, Index, Bare
<1>7. CASE ClearDone
  BY <1>7 DEF ClearDone, Index, Bare, Present
<1>8. CASE ClearFails
  BY <1>8 DEF ClearFails, Index
<1> QED
  BY <1>1, <1>2, <1>3, <1>4, <1>5, <1>6, <1>7, <1>8, Clearing DEF Clearing

LEMMA RemovalsStep ==
    ASSUME ~Overlap
    PROVE  Typed /\ Discipline /\ Removals /\ [Next]_vars => Removals'
<1> SUFFICES ASSUME Typed, Discipline, Removals, [Next]_vars PROVE Removals'
  OBVIOUS
<1>1. CASE UNCHANGED vars
  BY <1>1 DEF vars, recordVars, pastVars, Removals, Gone, Agree, LeftoversTorn,
              Leftover, clearVars, Index
<1> QED
  BY <1>1, RemovalsPass, RemovalsClearing DEF Next

\* RemovedStaysRemoved: through migrations, interrupted clears and restarts a removed
\* record is not read again, unless an earlier removal of it failed midway.
THEOREM RemovalsLast ==
    ASSUME ~Overlap
    PROVE  Spec => []RemovedStaysRemoved
<1>1. Typed /\ Removals => RemovedStaysRemoved
  BY DEF Typed, TypeOK, Removals, Gone, RemovedStaysRemoved, Get, List
<1> QED
  BY <1>1, TypeInit, TypeStep, DisciplineInit, DisciplineStep, RemovalsInit, RemovalsStep, PTL
  DEF Spec

\* ReadsAgree: get_file_meta and list_file_metas tell the same of every record in every
\* format and at every moment of a migration, unless its removal failed midway.
THEOREM GetAgreesWithList ==
    ASSUME ~Overlap
    PROVE  Spec => []ReadsAgree
<1>1. ASSUME Typed, Removals, NEW f \in Files \ torn PROVE Get(f) = List[f]
  <2>1. CASE manifest
    BY <2>1 DEF Get, List
  <2>2. CASE ~manifest /\ index = None
    BY <2>2 DEF Get, List, Index
  <2>3. CASE ~manifest /\ index # None
    BY <1>1, <2>3 DEF Get, List, Index, Present, Removals, Agree
  <2> QED
    BY <2>1, <2>2, <2>3
<1>2. Typed /\ Removals => ReadsAgree
  BY <1>1 DEF ReadsAgree
<1> QED
  BY <1>2, TypeInit, TypeStep, DisciplineInit, DisciplineStep, RemovalsInit, RemovalsStep, PTL
  DEF Spec

\* A migration to the current format neither loses nor invents a record, wherever the
\* program stopped in the formats and clears before, unless its removal failed midway.
MigrationKeepsRecords ==
    [][Migrate => \A f \in Files \ torn : List'[f] = List[f]]_vars

\* MigrationKeepsRecords: ensure_v2_storage carries over just what readers saw.
THEOREM MigrationsKeepRecords ==
    ASSUME ~Overlap
    PROVE  Spec => MigrationKeepsRecords
<1>1. ASSUME Typed, Discipline, Removals, Migrate, NEW f \in Files \ torn
      PROVE  List'[f] = List[f]
  <2> USE DEF Typed, TypeOK, Discipline, PassKnows, Apart, Removals, LeftoversTorn
  <2>1. ~manifest /\ loaded = Index /\ bucket[f] = None /\ Index \in Map
    BY <1>1, IndexTyped DEF Migrate, Leftover
  <2>2. List'[f] = Index[f]
    BY <1>1, <2>1 DEF Migrate, List, Present
  <2>3. Index[f] = None => single[f] = None
    BY <1>1, <2>1 DEF Index, Agree
  <2> QED
    BY <2>1, <2>2, <2>3 DEF List, Present
<1>2. Typed /\ Discipline /\ Removals =>
        (Migrate => \A f \in Files \ torn : List'[f] = List[f])
  BY <1>1
<1> QED
  BY <1>2, TypeInit, TypeStep, DisciplineInit, DisciplineStep, RemovalsInit, RemovalsStep, PTL
  DEF Spec, MigrationKeepsRecords

-----------------------------------------------------------------------------
(* The refinement: List is the map of RecordStore, Limbo its limbo.  Reading *)
(* goes by manifest, index and single files, so the same write is a put, a   *)
(* removal, a step of a clear, a recovery or nothing, as the formats are.    *)

LEMMA ListTyped ==
    ASSUME TypeOK
    PROVE  List \in Map
BY IndexTyped DEF TypeOK, List

LEMMA ListTypedNext ==
    ASSUME TypeOK'
    PROVE  List' \in Map
BY DEF TypeOK, List, Index

LEMMA RefinesInit == Init => Abstract!Init
<1> SUFFICES ASSUME Init PROVE Abstract!Init
  OBVIOUS
<1>1. List \in Map
  BY TypeInit, ListTyped DEF Typed
<1>2. Limbo = {}
  BY DEF Init, Limbo, List, Index, Present, Empty, Map
<1> QED
  BY <1>1, <1>2 DEF Abstract!Init, Abstract!Map, Map

\* A step that writes no record is none of the map.
LEMMA RefinesQuiet ==
    ASSUME UNCHANGED recordVars
    PROVE  UNCHANGED <<List, Limbo>>
BY DEF recordVars, List, Limbo, Index, Present

LEMMA RefinesMigrate ==
    ASSUME Typed, Typed', Discipline, Migrate
    PROVE  Abstract!Next
<1> USE DEF Typed, TypeOK, Discipline, PassKnows, Formats
<1>1. List' = bucket' /\ Limbo' = {} /\ List' \in Map
  BY ListTypedNext DEF Migrate, List, Limbo
<1>2. loaded = Index /\ ~manifest /\ Index \in Map
  BY IndexTyped DEF Migrate
<1>3. CASE Bare(bucket)
  <2>1. ASSUME NEW f \in Files PROVE bucket'[f] = Index[f]
    BY <1>2, <1>3 DEF Migrate, Bare, Present
  <2>2. CASE Present(Index) # {}
    <3>1. \A f \in Files : List'[f] = List[f]
      BY <1>1, <1>2, <2>1, <2>2 DEF List
    <3> QED
      BY <1>1, <3>1 DEF Abstract!Next, Abstract!Recover, Abstract!Map, Map
  <2>3. CASE Present(Index) = {}
    <3>1. \A f \in Files : List'[f] = None
      BY <1>1, <2>1, <2>3 DEF Present
    <3> QED
      BY <1>1, <3>1 DEF Abstract!Next, Abstract!Clear, Abstract!Map, Map
  <2> QED
    BY <2>2, <2>3
<1>4. CASE Bare(single) /\ index = None
  <2>1. \A f \in Files : Index[f] = None /\ List[f] = None
    BY <1>2, <1>4 DEF Index, List, Bare
  <2>2. \A f \in Files : bucket'[f] = bucket[f]
    BY <1>2, <2>1 DEF Migrate, Present
  <2>3. \A f \in Files \ Limbo : bucket[f] = None
    BY <1>2, <2>1 DEF Limbo
  <2>4. \A f \in Files \ Limbo : List'[f] = List[f]
    BY <1>1, <2>1, <2>2, <2>3
  <2> QED
    BY <1>1, <2>4 DEF Abstract!Next, Abstract!Recover, Abstract!Map, Map
<1> QED
  BY <1>2, <1>3, <1>4

LEMMA RefinesMerge ==
    ASSUME Typed, Discipline, Merge
    PROVE  Abstract!Next
<1> USE DEF Typed, TypeOK, Discipline, PassKnows
<1>1. /\ manifest /\ manifest' /\ upd \in Map
      /\ bucket' = [f \in Files |-> IF upd[f] # None THEN upd[f] ELSE bucket[f]]
  BY DEF Merge, Merged
<1>2. List = bucket /\ List' = bucket' /\ Limbo = {} /\ Limbo' = {}
  BY <1>1 DEF List, Limbo
<1>3. Abstract!Put(upd)
  BY <1>1, <1>2 DEF Abstract!Put
<1> QED
  BY <1>1, <1>3 DEF Abstract!Next, Abstract!Map, Map

LEMMA RefinesDelete ==
    ASSUME Typed, Typed', NEW f \in Files, Delete(f)
    PROVE  Abstract!Next
<1> USE DEF Typed, TypeOK
<1>1. manifest /\ manifest' /\ bucket' = [bucket EXCEPT ![f] = None]
  BY DEF Delete
<1>2. List = bucket /\ List' = bucket' /\ Limbo' = {} /\ List' \in Map
  BY <1>1 DEF List, Limbo
<1>3. Abstract!Remove(f)
  BY <1>1, <1>2 DEF Abstract!Remove, Map
<1> QED
  BY <1>2, <1>3 DEF Abstract!Next, Abstract!Map, Map

\* The first write of a removal: it hides the record, or, if that leaves an empty
\* index, lets the single files show through.
LEMMA RefinesDeleteIndexed ==
    ASSUME Typed, Typed', Discipline, NEW f \in Files, DeleteIndexed(f)
    PROVE  [Abstract!Next]_<<List, Limbo>>
<1> USE DEF Typed, TypeOK, Discipline, Formats
<1>1. ~manifest /\ UNCHANGED <<single, bucket, manifest>> /\ Index \in Map /\ List' \in Map
  BY IndexTyped, ListTypedNext DEF DeleteIndexed
<1>2. CASE Index[f] = None
  <2>1. UNCHANGED recordVars
    BY <1>1, <1>2 DEF DeleteIndexed, recordVars
  <2> QED
    BY <2>1, RefinesQuiet
<1>3. CASE Index[f] # None
  <2>1. index' = [Index EXCEPT ![f] = None] /\ index' \in Map
    BY <1>1, <1>3 DEF DeleteIndexed, Map
  <2>2. Index' = index' /\ Index'[f] = None /\ \A g \in Files \ {f} : Index'[g] = Index[g]
    BY <1>1, <2>1 DEF Index, Map
  <2>3. List = Index
    BY <1>1, <1>3 DEF List, Present
  <2>4. CASE Present(Index') # {}
    <3>1. List' = Index'
      BY <1>1, <2>4 DEF List
    <3>2. Limbo' \subseteq Limbo \cup {f}
      BY <1>1, <2>2, <2>3, <3>1 DEF Limbo
    <3>3. Abstract!Remove(f)
      BY <2>2, <2>3, <3>1, <3>2 DEF Abstract!Remove
    <3> QED
      BY <1>1, <3>3 DEF Abstract!Next, Abstract!Map, Map
  <2>5. CASE Present(Index') = {}
    <3>1. List' = single
      BY <1>1, <2>5 DEF List
    <3>2. \A g \in Files \ {f} : Index[g] = None
      BY <2>2, <2>5 DEF Present
    <3>3. Bare(bucket)
      BY <1>1, <1>3 DEF Index, Bare
    <3>4. Limbo' = {}
      BY <1>1, <3>1, <3>3 DEF Limbo, Bare
    <3>5. \A g \in Files \ (Limbo \cup {f}) : single[g] = None
      BY <1>1, <2>3, <3>2 DEF Limbo
    <3>6. CASE single[f] = None
      <4>1. Abstract!Remove(f)
        BY <2>3, <3>1, <3>2, <3>4, <3>5, <3>6 DEF Abstract!Remove
      <4> QED
        BY <1>1, <4>1 DEF Abstract!Next, Abstract!Map, Map
    <3>7. CASE single[f] # None
      <4>1. single[f] = Index[f]
        BY <1>3, <3>7 DEF Index
      <4>2. Abstract!Recover
        BY <2>3, <3>1, <3>2, <3>4, <3>5, <4>1 DEF Abstract!Recover
      <4> QED
        BY <1>1, <4>2 DEF Abstract!Next, Abstract!Map, Map
    <3> QED
      BY <3>6, <3>7
  <2> QED
    BY <2>4, <2>5
<1> QED
  BY <1>2, <1>3

LEMMA RefinesUnlink ==
    ASSUME Typed, Typed', Discipline, Unlink
    PROVE  [Abstract!Next]_<<List, Limbo>>
<1> USE DEF Typed, TypeOK, Discipline, PassKnows
<1>1. /\ ~manifest /\ ~manifest' /\ target \in Files /\ Index[target] = None
      /\ single' = [single EXCEPT ![target] = None] /\ UNCHANGED <<index, bucket>>
      /\ List' \in Map
  BY ListTypedNext DEF Unlink
<1>2. \A g \in Files \ {target} : single'[g] = single[g]
  BY <1>1 DEF Map
<1>3. single'[target] = None
  BY <1>1 DEF Map
<1>4. \A g \in Files : Index'[g] = Index[g]
  BY <1>1, <1>2, <1>3 DEF Index
<1>5. CASE Present(Index) # {}
  <2>1. \A g \in Files : List'[g] = List[g]
    BY <1>1, <1>4, <1>5 DEF List, Present
  <2>2. Limbo' \subseteq Limbo
    BY <1>1, <1>2, <1>3, <2>1 DEF Limbo
  <2> QED
    BY <1>1, <2>1, <2>2 DEF Abstract!Next, Abstract!Recover, Abstract!Map, Map
<1>6. CASE Present(Index) = {}
  <2>1. List = single /\ List' = single'
    BY <1>1, <1>4, <1>6 DEF List, Present
  <2>2. Limbo' \subseteq Limbo \cup {target}
    BY <1>1, <1>2, <2>1 DEF Limbo
  <2>3. Abstract!Remove(target)
    BY <1>2, <1>3, <2>1, <2>2 DEF Abstract!Remove
  <2> QED
    BY <1>1, <2>3 DEF Abstract!Next, Abstract!Map, Map
<1> QED
  BY <1>5, <1>6

\* A clear removes records, never changes one; what it hides it leaves in limbo.
LEMMA RefinesClear ==
    ASSUME Typed, Typed', Discipline,
           \/ \E f \in Files : ClearSingle(f)
           \/ ClearIndex
           \/ \E x \in Buckets \cup {"manifest"} : ClearFile(x)
    PROVE  [Abstract!Next]_<<List, Limbo>>
<1> USE DEF Typed, TypeOK, Discipline, ClearKnows
<1>0. List' \in Map
  BY ListTypedNext
<1>1. ASSUME NEW f \in Files, ClearSingle(f) PROVE [Abstract!Next]_<<List, Limbo>>
  <2>1. /\ single' = [single EXCEPT ![f] = None] /\ UNCHANGED <<index, bucket, manifest>>
        /\ \A g \in Files : single'[g] \in {None, single[g]}
    BY <1>1 DEF ClearSingle, Map
  <2>2. CASE manifest
    BY <2>1, <2>2 DEF List, Limbo
  <2>3. CASE ~manifest /\ index # None /\ Present(index) # {}
    <3>1. List' = index /\ List = index
      BY <2>1, <2>3 DEF List, Index, Present
    <3>2. Limbo' \subseteq Limbo
      BY <2>1, <2>3, <3>1 DEF Limbo
    <3> QED
      BY <1>0, <3>1, <3>2 DEF Abstract!Next, Abstract!Recover, Abstract!Map, Map
  <2>4. CASE ~manifest /\ (index = None \/ Present(index) = {})
    <3>1. List = single /\ List' = single'
      BY <2>1, <2>4 DEF List, Index, Present
    <3>2. Limbo' \subseteq Limbo \cup {g \in Files : List[g] # None}
      BY <2>1, <2>4, <3>1 DEF Limbo
    <3>3. Abstract!Clear
      BY <2>1, <3>1, <3>2 DEF Abstract!Clear, Abstract!Present
    <3> QED
      BY <1>0, <3>3 DEF Abstract!Next, Abstract!Map, Map
  <2> QED
    BY <2>2, <2>3, <2>4
<1>2. CASE ClearIndex
  <2>1. UNCHANGED <<single, bucket, manifest>> /\ index' = None /\ Bare(single)
    BY <1>2 DEF ClearIndex, Present, Bare
  <2>2. CASE manifest
    BY <2>1, <2>2 DEF List, Limbo
  <2>3. CASE ~manifest
    <3>1. \A g \in Files : List'[g] = None
      BY <2>1, <2>3 DEF List, Index, Bare
    <3>2. Limbo' \subseteq Limbo \cup {g \in Files : List[g] # None}
      BY <2>1, <2>3, <3>1 DEF Limbo, Bare
    <3>3. Abstract!Clear
      BY <3>1, <3>2 DEF Abstract!Clear, Abstract!Present
    <3> QED
      BY <1>0, <3>3 DEF Abstract!Next, Abstract!Map, Map
  <2> QED
    BY <2>2, <2>3
<1>3. ASSUME NEW x \in Buckets \cup {"manifest"}, ClearFile(x)
      PROVE  [Abstract!Next]_<<List, Limbo>>
  <2>1. /\ UNCHANGED <<single, index>> /\ Bare(single) /\ index = None
        /\ \A g \in Files : bucket'[g] \in {None, bucket[g]}
        /\ manifest' => manifest
    BY <1>3 DEF ClearFile
  <2>2. CASE manifest /\ manifest'
    <3>1. List = bucket /\ List' = bucket' /\ Limbo' = {}
      BY <2>2 DEF List, Limbo
    <3> QED
      BY <1>0, <2>1, <3>1 DEF Abstract!Next, Abstract!Clear, Abstract!Map, Map
  <2>3. CASE manifest /\ ~manifest'
    <3>1. List = bucket /\ \A g \in Files : List'[g] = None
      BY <2>1, <2>3 DEF List, Index, Bare
    <3>2. Limbo' \subseteq {g \in Files : List[g] # None}
      BY <2>1, <3>1 DEF Limbo, Bare
    <3>3. Abstract!Clear
      BY <3>1, <3>2 DEF Abstract!Clear, Abstract!Present
    <3> QED
      BY <1>0, <3>3 DEF Abstract!Next, Abstract!Map, Map
  <2>4. CASE ~manifest
    <3>1. \A g \in Files : List[g] = None /\ List'[g] = None
      BY <2>1, <2>4 DEF List, Index, Bare
    <3>2. Limbo' \subseteq Limbo
      BY <2>1, <2>4, <3>1 DEF Limbo, Bare
    <3> QED
      BY <1>0, <3>1, <3>2 DEF Abstract!Next, Abstract!Recover, Abstract!Map, Map
  <2> QED
    BY <2>1, <2>2, <2>3, <2>4
<1> QED
  BY <1>1, <1>2, <1>3

LEMMA RefinesStep ==
    ASSUME ~Overlap
    PROVE  Typed /\ Typed' /\ Discipline /\ [Next]_vars => [Abstract!Next]_<<List, Limbo>>
<1> SUFFICES ASSUME Typed, Typed', Discipline, [Next]_vars
             PROVE  [Abstract!Next]_<<List, Limbo>>
  OBVIOUS
<1>1. CASE Migrate
  BY <1>1, RefinesMigrate
<1>2. CASE Merge
  BY <1>2, RefinesMerge
<1>3. ASSUME NEW f \in Files, Delete(f) PROVE [Abstract!Next]_<<List, Limbo>>
  BY <1>3, RefinesDelete
<1>4. ASSUME NEW f \in Files, DeleteIndexed(f) PROVE [Abstract!Next]_<<List, Limbo>>
  BY <1>4, RefinesDeleteIndexed
<1>5. CASE Unlink
  BY <1>5, RefinesUnlink
<1>6. CASE \/ \E f \in Files : ClearSingle(f)
           \/ ClearIndex
           \/ \E x \in Buckets \cup {"manifest"} : ClearFile(x)
  BY <1>6, RefinesClear
<1>7. CASE \/ PassStart \/ SetCheckpoint \/ PassFails \/ ClearCheckpoint
           \/ \E u \in Map \ {Empty} : SetBegin(u)
           \/ Move \/ ClearBegin \/ ClearList \/ ClearDone \/ ClearFails
           \/ UNCHANGED vars
  <2>1. UNCHANGED recordVars
    BY <1>7 DEF PassStart, SetCheckpoint, PassFails, ClearCheckpoint, SetBegin, Move, ClearBegin,
                ClearList, ClearDone, ClearFails, vars
  <2> QED
    BY <2>1, RefinesQuiet
<1> QED
  BY <1>1, <1>2, <1>3, <1>4, <1>5, <1>6, <1>7 DEF Next, Pass, Clearing

\* ActsAsOneMap: whatever the format and however an operation is cut short, what
\* readers list is one map of records, which a batch changes only where it writes, a
\* removal only at its file, and nothing invents: what comes back was in limbo.
THEOREM StoreRefinesMap ==
    ASSUME ~Overlap
    PROVE  Spec => ActsAsOneMap
<1> QED
  BY TypeInit, TypeStep, DisciplineInit, DisciplineStep, RefinesInit, RefinesStep, PTL
  DEF Spec, ActsAsOneMap, Abstract!Spec
=============================================================================
