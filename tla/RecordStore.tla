---------------------------- MODULE RecordStore -----------------------------
(***************************************************************************)
(* What the per-file records of a relationship promise their users: a map  *)
(* that a put changes only where it writes, and a removal only at its      *)
(* file.  A file whose removal failed midway is in limbo: one of its old   *)
(* records may come back.                                                  *)
(***************************************************************************)
CONSTANTS Files, Records, None

VARIABLES
    records,    \* the map: Files -> Records or None
    limbo       \* the files without a record that may get one back

Map == [Files -> Records \cup {None}]

Present(m) == {f \in Files : m[f] # None}

Init == records \in Map /\ limbo = {}

Put(upd) ==
    /\ records' = [f \in Files |-> IF upd[f] # None THEN upd[f] ELSE records[f]]
    /\ limbo' = limbo

\* A removal may bring other files back, those in limbo.
Remove(f) ==
    /\ records'[f] = None
    /\ \A g \in Files \ (limbo \cup {f}) : records'[g] = records[g]
    /\ limbo' \subseteq limbo \cup {f}

\* A clear removes one thing after the other.
Clear ==
    /\ \A f \in Files : records'[f] \in {None, records[f]}
    /\ limbo' \subseteq limbo \cup Present(records)

\* Some of the files in limbo have a record again; some are out of danger.
Recover ==
    /\ \A f \in Files \ limbo : records'[f] = records[f]
    /\ limbo' \subseteq limbo

Next ==
    \/ \E upd \in Map : Put(upd)
    \/ records' \in Map /\ ((\E f \in Files : Remove(f)) \/ Clear \/ Recover)

Spec == Init /\ [][Next]_<<records, limbo>>
=============================================================================
