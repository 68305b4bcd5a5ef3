--------------------------- MODULE ServicesProofs ---------------------------
(***************************************************************************)
(* Proofs about the services: the activity log, the self-update and the    *)
(* events that wake the loops, for any loggers, readers, paths, limits and *)
(* sizes, and the types of all services together.                          *)
(***************************************************************************)
EXTENDS Services, ConnectionsProofs, PathMigrationProofs, FiniteSetTheorems,
        WellFoundedInduction, TLAPS

-----------------------------------------------------------------------------
(* EventFlow.  While the watcher waits, the age of what is pending exceeds   *)
(* the longest wait by no more than the time since it last looked.           *)

Young(m, t) == \A p \in Watched : m[p] # None => m[p].age < MaxWait + t

Waits ==
    /\ draining # NoPaths => pending = NoPaths
    /\ Young(pending, timer)

FlowInv == FlowTypeOK /\ Waits

LEMMA FlowLimits ==
    /\ Debounce \in Nat \ {0} /\ MaxWait \in Nat \ {0} /\ OutSize \in Nat \ {0}
    /\ Slowest \in Nat
BY FlowAssumption

LEMMA FlowStart == FlowInit => FlowInv
<1> SUFFICES ASSUME FlowInit PROVE FlowInv
  OBVIOUS
<1>1. /\ <<>> \in Seq(Change) /\ Len(<<>>) = 0
      /\ NoPaths \in [Watched -> [kind : Kinds, age : Nat] \cup {None}]
      /\ NoPaths \in [Watched -> Kinds \cup {None}]
  BY DEF NoPaths
<1>2. Waits
  BY DEF FlowInit, Waits, Young, NoPaths
<1>3. raw \in Seq(Change) /\ out \in Seq(Change) /\ Len(out) <= OutSize
  BY <1>1, FlowLimits DEF FlowInit
<1>4. /\ pending \in [Watched -> [kind : Kinds, age : Nat] \cup {None}]
      /\ draining \in [Watched -> Kinds \cup {None}]
      /\ {latest, got} \subseteq [Watched -> Kinds \cup {None}]
  BY <1>1 DEF FlowInit
<1>5. /\ timer \in 0..Debounce /\ backoff \in 0..Slowest /\ heard \in 0..OutSize
  BY FlowLimits DEF FlowInit
<1>6. /\ busy \in BOOLEAN /\ folder \subseteq Watched
      /\ sse \in {"connecting", "open", "waiting", "ended"}
  BY DEF FlowInit
<1>7. FlowTypeOK
  BY <1>3, <1>4, <1>5, <1>6 DEF FlowTypeOK
<1> QED
  BY <1>2, <1>7 DEF FlowInv

Pendings == [Watched -> [kind : Kinds, age : Nat] \cup {None}]

\* At the end of a turn everything is taken out, or nothing is old.
LEMMA FlowTurn ==
    ASSUME FlowInv, draining = NoPaths, NEW m \in Pendings, Turn(m)
    PROVE  /\ timer' \in 0..Debounce /\ pending' \in Pendings
           /\ draining' \in [Watched -> Kinds \cup {None}]
           /\ Waits'
<1> USE FlowLimits DEF FlowInv, FlowTypeOK, Waits, Young, Pendings, NoPaths
<1>1. CASE FlushDue(m)
  <2>1. draining' \in [Watched -> Kinds \cup {None}]
    BY <1>1 DEF Turn
  <2>2. pending' = NoPaths /\ timer' = 0
    BY <1>1 DEF Turn
  <2>3. Waits'
    BY <2>2
  <2> QED
    BY <2>1, <2>2, <2>3
<1>2. CASE ~FlushDue(m)
  <2>1. ASSUME NEW p \in Watched, m[p] # None PROVE m[p].age < MaxWait
    <3>1. m[p].age \in Ages(m) /\ m[p].age \in Nat
      BY <2>1 DEF Ages
    <3> QED
      BY <1>2, <3>1 DEF FlushDue
  <2> QED
    BY <1>2, <2>1 DEF Turn
<1> QED
  BY <1>1, <1>2

LEMMA FlowWatch ==
    ASSUME FlowInv, WatchStep
    PROVE  FlowInv' /\ spare' = spare
<1> USE FlowLimits
<1>1. CASE WatchReceive
  <2>1. Head(raw) \in Change /\ raw' \in Seq(Change)
    BY <1>1 DEF WatchReceive, FlowInv, FlowTypeOK
  <2>2. PICK m \in Pendings : Turn(m)
    BY <1>1, <2>1 DEF WatchReceive, Gathered, FlowInv, FlowTypeOK, Change, Pendings
  <2> QED
    BY <1>1, <2>1, <2>2, FlowTurn
    DEF WatchReceive, FlowInv, FlowTypeOK, Pendings, listenVars
<1>2. CASE WatchTimeout
  <2>1. pending \in Pendings
    BY DEF FlowInv, FlowTypeOK, Pendings
  <2> QED
    BY <1>2, <2>1, FlowTurn DEF WatchTimeout, FlowInv, FlowTypeOK, Pendings, listenVars
<1>3. ASSUME NEW p \in Watched, WatchSend(p) PROVE FlowInv' /\ spare' = spare
  <2>1. [path |-> p, kind |-> draining[p]] \in Change
    BY <1>3 DEF WatchSend, FlowInv, FlowTypeOK, Change
  <2>2. out' \in Seq(Change) /\ Len(out') <= OutSize
    BY <1>3, <2>1 DEF WatchSend, FlowInv, FlowTypeOK
  <2> QED
    BY <1>3, <2>2 DEF WatchSend, FlowInv, FlowTypeOK, Waits, Young, NoPaths, listenVars
<1>4. CASE TimePasses
  <2>1. pending' \in Pendings
    BY <1>4 DEF TimePasses, FlowInv, FlowTypeOK, Pendings
  <2>2. Waits' /\ timer' \in 0..Debounce
    BY <1>4 DEF TimePasses, FlowInv, FlowTypeOK, Waits, Young, NoPaths
  <2> QED
    BY <1>4, <2>1, <2>2 DEF TimePasses, FlowInv, FlowTypeOK, Pendings, listenVars
<1> QED
  BY <1>1, <1>2, <1>3, <1>4, WatchStep DEF WatchStep

LEMMA FlowStep ==
    ASSUME FlowInv, spare \in 0..MaxEvents, FlowNext
    PROVE  FlowInv' /\ spare' \in 0..MaxEvents
<1> USE FlowLimits, MaxEventsIsNat
<1>1. ASSUME NEW p \in Watched, NEW k \in Kinds, NEW dirs \in SUBSET Watched,
             Changes(p, k, dirs)
      PROVE  FlowInv' /\ spare' \in 0..MaxEvents
  <2>1. raw' \in Seq(Change)
    BY <1>1 DEF Changes, FlowInv, FlowTypeOK, Change
  <2>2. latest' \in [Watched -> Kinds \cup {None}] /\ folder' \subseteq Watched
    BY <1>1 DEF Changes, FlowInv, FlowTypeOK
  <2> QED
    BY <1>1, <2>1, <2>2 DEF Changes, Event, FlowInv, FlowTypeOK, Waits, Young, listenVars
<1>2. CASE LoopStep
  <2>1. CASE LoopTakesChange
    <3>1. out' \in Seq(Change) /\ Len(out') <= OutSize /\ Head(out) \in Change
      BY <2>1 DEF LoopTakesChange, FlowInv, FlowTypeOK
    <3>2. got' \in [Watched -> Kinds \cup {None}]
      BY <2>1, <3>1 DEF LoopTakesChange, FlowInv, FlowTypeOK, Change
    <3> QED
      BY <2>1, <3>1, <3>2
      DEF LoopTakesChange, FlowInv, FlowTypeOK, Waits, Young, watchVars, listenVars
  <2>2. CASE LoopTakesAnnouncement
    <3>1. heard' \in 0..OutSize
      BY <2>2 DEF LoopTakesAnnouncement, FlowInv, FlowTypeOK
    <3> QED
      BY <2>2, <3>1 DEF LoopTakesAnnouncement, FlowInv, FlowTypeOK, Waits, Young, watchVars
  <2>3. CASE LoopSynced
    BY <2>3 DEF LoopSynced, FlowInv, FlowTypeOK, Waits, Young, watchVars, listenVars
  <2> QED
    BY <1>2, <2>1, <2>2, <2>3 DEF LoopStep
<1>3. CASE ListenStep \/ SseFails \/ SseCloses \/ SseAnnounces
  BY <1>3
  DEF ListenStep, SseConnects, SseWaits, SseFails, SseCloses, SseAnnounces, Event, FlowInv,
      FlowTypeOK, Waits, Young, watchVars
<1> QED
  BY <1>1, <1>2, <1>3, FlowWatch, FlowNext DEF FlowNext

LEMMA FlowSafe == FlowInv => FlowTypeOK /\ QuietPathWaits
BY FlowLimits DEF FlowInv, FlowTypeOK, Waits, Young, QuietPathWaits

-----------------------------------------------------------------------------
(* Updater. *)

\* A download writes to the staged file only while there is one.
Backed ==
    \A a \in Appliers :
        /\ In(a, "asked") => apply[a].file = "staged"
        /\ In(a, "downloading") /\ apply[a].file = "staged" => staged # None

UpdTyped == UpdateTypeOK /\ waiting + due \in 0..MaxScripts /\ Backed

LEMMA UpdateLimits ==
    Latest \in Nat /\ Blocks \in Nat \ {0} /\ MaxScripts \in Nat /\ 1 \in 1..Blocks /\ 0 \in Builds
BY UpdaterAssumption DEF Builds

\* How many scripts there are.
LEMMA Scripts == UpdTyped => waiting \in Nat /\ due \in Nat /\ waiting + due <= MaxScripts
<1>1. UpdTyped => {waiting, due} \subseteq 0..MaxScripts /\ waiting + due \in 0..MaxScripts
  BY DEF UpdTyped, UpdateTypeOK
<1> QED
  BY <1>1, UpdateLimits

LEMMA ScriptsKept ==
    ASSUME NEW w \in Nat, NEW d \in Nat, NEW v \in Nat, NEW e \in Nat,
           v + e <= MaxScripts, d + w <= e + v
    PROVE  {w, d} \subseteq 0..MaxScripts /\ w + d \in 0..MaxScripts
BY UpdateLimits

LEMMA WholeTyped ==
    ASSUME NEW b \in Builds
    PROVE  Whole(b) \in File /\ Whole(b)[1] = b
BY UpdateLimits DEF Whole, File

LEMMA UpdateStarts == UpdateInit => UpdTyped
<1> SUFFICES ASSUME UpdateInit PROVE UpdTyped
  OBVIOUS
<1>1. installed \in File
  BY UpdateLimits, WholeTyped DEF UpdateInit
<1>2. /\ running \in Builds /\ waiting + due \in 0..MaxScripts
      /\ {waiting, due} \subseteq 0..MaxScripts
  BY UpdateLimits DEF UpdateInit
<1>3. apply \in [Appliers -> Apply \cup {None}] /\ Backed
  BY DEF UpdateInit, NoApplies, Backed, In
<1> QED
  BY <1>1, <1>2, <1>3 DEF UpdateInit, UpdTyped, UpdateTypeOK

\* The end of a process, and what StartOf makes of it.
LEMMA EndedTyped ==
    ASSUME UpdTyped, Ended
    PROVE  /\ offer' = None /\ waiting' = 0
           /\ apply' \in [Appliers -> Apply \cup {None}]
           /\ \A a \in Appliers : apply'[a] = None
BY DEF Ended, NoApplies

LEMMA StartTyped ==
    ASSUME UpdTyped, NEW file \in File, NEW rest \in [Appliers -> Apply \cup {None}],
           StartOf(file, rest)
    PROVE  /\ running' \in Builds \cup {None}
           /\ offer' \in Response \cup {None}
           /\ apply' \in [Appliers -> Apply \cup {None}]
           /\ waiting' \in {0, waiting}
<1>1. CASE \E b \in Builds : file = Whole(b) /\ running' = file[1] /\ Ended
  BY <1>1, WholeTyped, EndedTyped
<1>2. CASE apply' = rest /\ UNCHANGED <<running, offer, waiting>>
  BY <1>2 DEF UpdTyped, UpdateTypeOK
<1> QED
  BY <1>1, <1>2 DEF StartOf

LEMMA RedirectedTyped ==
    ASSUME UpdTyped
    PROVE  Redirected \in [Appliers -> Apply \cup {None}]
<1>1. ASSUME NEW a \in Appliers, In(a, "downloading")
      PROVE  [apply[a] EXCEPT !.file = IF @ = "staged" THEN "installed" ELSE "gone"] \in Apply
  BY <1>1 DEF In, Apply, UpdTyped, UpdateTypeOK
<1> QED
  BY <1>1 DEF Redirected, UpdTyped, UpdateTypeOK

\* An apply goes on, well or not, without a change to the files.
LEMMA ApplyReplaced ==
    ASSUME UpdTyped, NEW a \in Appliers, NEW new \in Apply, apply' = [apply EXCEPT ![a] = new],
           new.at = "asked" => new.file = "staged",
           new.at = "downloading" /\ new.file = "staged" => staged' # None,
           staged # None => staged' # None
    PROVE  apply' \in [Appliers -> Apply \cup {None}] /\ Backed'
BY DEF UpdTyped, UpdateTypeOK, Backed, In

\* An apply gets to another step.
LEMMA ApplyMoves ==
    ASSUME UpdTyped, NEW a \in Appliers, apply[a] # None,
           NEW s \in {"downloading", "downloaded", "verified", "ok", "failed"},
           apply' = [apply EXCEPT ![a].at = s],
           s = "downloading" => staged' # None,
           staged # None => staged' # None
    PROVE  apply' \in [Appliers -> Apply \cup {None}] /\ Backed'
<1> DEFINE new == [apply[a] EXCEPT !.at = s]
<1>1. apply[a] \in Apply
  BY DEF UpdTyped, UpdateTypeOK
<1>2. new \in Apply /\ new.at = s /\ apply' = [apply EXCEPT ![a] = new]
  BY <1>1 DEF Apply
<1> HIDE DEF new
<1> QED
  BY <1>2, ApplyReplaced

LEMMA UpdateDownload ==
    ASSUME UpdTyped, spare \in 0..MaxEvents, NEW a \in Appliers,
           DownloadStart(a) \/ DownloadBlock(a) \/ DownloadEnd(a)
    PROVE  UpdTyped' /\ spare' \in 0..MaxEvents
<1> USE MaxEventsIsNat
<1> DEFINE Goal == UpdTyped' /\ spare' \in 0..MaxEvents
<1>0. /\ apply \in [Appliers -> Apply \cup {None}] /\ staged \in File \cup {None}
      /\ installed \in File
      /\ In(a, "asked") => apply[a].file = "staged"
      /\ In(a, "downloading") /\ apply[a].file = "staged" => staged # None
  BY DEF UpdTyped, UpdateTypeOK, Backed
<1>1. CASE DownloadStart(a)
  <2>2. Empty \in File /\ Empty # None
    BY NoneIsNoBuild DEF Empty, File
  <2>3. staged' \in File /\ staged' # None
    BY <1>1, <2>2 DEF DownloadStart
  <2>4. apply' \in [Appliers -> Apply \cup {None}] /\ Backed'
    BY <1>1, <2>3, ApplyMoves DEF DownloadStart, In
  <2> QED
    BY <1>1, <2>3, <2>4 DEF DownloadStart, UpdTyped, UpdateTypeOK
<1>2. CASE DownloadBlock(a)
  <2>1. PICK b \in Builds :
          /\ spare' = spare \/ Event
          /\ staged' = IF apply[a].file = "staged"
                       THEN [staged EXCEPT ![apply[a].written + 1] = b] ELSE staged
          /\ installed' = IF apply[a].file = "installed"
                          THEN [installed EXCEPT ![apply[a].written + 1] = b] ELSE installed
    BY <1>2 DEF DownloadBlock
  <2>2. apply[a] \in Apply /\ apply[a].written \in 0..Blocks /\ apply[a].written < Blocks
    BY <1>0, <1>2 DEF DownloadBlock, In, Apply
  <2>3. installed' \in File
    BY <1>0, <2>1, <2>2 DEF File
  <2>4. staged' \in File \cup {None} /\ (staged # None => staged' # None)
    <3>1. CASE apply[a].file = "staged"
      <4>1. staged \in File
        BY <1>0, <1>2, <3>1 DEF DownloadBlock
      <4> QED
        BY <2>1, <2>2, <3>1, <4>1, NoneIsNoBuild DEF File
    <3> QED
      BY <1>0, <2>1, <3>1
  <2>5. [apply[a] EXCEPT !.written = @ + 1] \in Apply
    BY <2>2, UpdateLimits DEF Apply
  <2>6. apply' = [apply EXCEPT ![a] = [apply[a] EXCEPT !.written = @ + 1]]
    BY <1>2 DEF DownloadBlock
  <2>7. apply[a].at = "downloading" /\ (apply[a].file = "staged" => staged # None)
    BY <1>0, <1>2 DEF DownloadBlock, In
  <2>8. apply' \in [Appliers -> Apply \cup {None}] /\ Backed'
    BY <2>2, <2>4, <2>5, <2>6, <2>7, ApplyReplaced DEF Apply
  <2> QED
    BY <1>2, <2>1, <2>3, <2>4, <2>8 DEF DownloadBlock, Event, UpdTyped, UpdateTypeOK
<1>3. CASE DownloadEnd(a)
  <2>2. apply' \in [Appliers -> Apply \cup {None}] /\ Backed'
    BY <1>3, ApplyMoves DEF DownloadEnd, In
  <2> QED
    BY <1>3, <2>2 DEF DownloadEnd, UpdTyped, UpdateTypeOK
<1> QED
  BY <1>1, <1>2, <1>3

\* No process any more, or another one: its applies are gone, its scripts are due.
LEMMA UpdateEnded ==
    ASSUME UpdTyped, Ended, due' = due + waiting, running' \in Builds \cup {None},
           installed' \in File, staged' \in File \cup {None}, UNCHANGED <<overlapped, applied, vouched>>
    PROVE  UpdTyped'
<1>1. apply' = NoApplies /\ offer' = None /\ waiting' = 0
  BY DEF Ended
<1>2. due' \in 0..MaxScripts /\ waiting' \in 0..MaxScripts /\ waiting' + due' \in 0..MaxScripts
  BY <1>1, UpdateLimits DEF UpdTyped, UpdateTypeOK
<1>3. apply' \in [Appliers -> Apply \cup {None}] /\ Backed'
  BY <1>1 DEF NoApplies, Backed, In
<1> QED
  BY <1>1, <1>2, <1>3 DEF UpdTyped, UpdateTypeOK

LEMMA UpdateApply ==
    ASSUME UpdTyped, spare \in 0..MaxEvents, NEW a \in Appliers, ApplyStep(a)
    PROVE  UpdTyped' /\ spare' \in 0..MaxEvents
<1> USE MaxEventsIsNat
<1>1. CASE DownloadStart(a) \/ DownloadBlock(a) \/ DownloadEnd(a)
  BY <1>1, UpdateDownload
<1>2. CASE Verify(a)
  <2>1. apply' \in [Appliers -> Apply \cup {None}] /\ Backed'
    <3>1. CASE SumMatches(a)
      BY <1>2, <3>1, ApplyMoves DEF Verify, In
    <3>2. CASE ~SumMatches(a)
      BY <1>2, <3>2, ApplyMoves DEF Verify, In
    <3> QED
      BY <3>1, <3>2
  <2> QED
    BY <1>2, <2>1 DEF Verify, UpdTyped, UpdateTypeOK
<1>3. CASE Spawn(a)
  <2>1. apply' \in [Appliers -> Apply \cup {None}] /\ Backed'
    BY <1>3, ApplyMoves DEF Spawn, In
  <2>2. waiting' \in 0..MaxScripts /\ due' \in 0..MaxScripts /\ waiting' + due' \in 0..MaxScripts
    BY <1>3, UpdateLimits DEF Spawn, UpdTyped, UpdateTypeOK
  <2>3. applied' \in Builds
    BY <1>3 DEF Spawn, In, UpdTyped, UpdateTypeOK, Apply
  <2> QED
    BY <1>3, <2>1, <2>2, <2>3 DEF Spawn, UpdTyped, UpdateTypeOK
<1>4. CASE ApplyFails(a)
  <2>1. apply' \in [Appliers -> Apply \cup {None}] /\ Backed'
    BY <1>4, ApplyMoves DEF ApplyFails, In
  <2> QED
    BY <1>4, <2>1 DEF ApplyFails, Event, UpdTyped, UpdateTypeOK
<1>5. CASE Exit(a)
  BY <1>5, UpdateEnded DEF Exit, UpdTyped, UpdateTypeOK
<1> QED
  BY <1>1, <1>2, <1>3, <1>4, <1>5 DEF ApplyStep

LEMMA UpdateStarted ==
    ASSUME UpdTyped, installed' \in File, staged' \in File \cup {None},
           NEW rest \in [Appliers -> Apply \cup {None}], StartOf(installed', rest),
           \A a \in Appliers : rest[a] # None =>
               /\ rest[a].at = "asked" => rest[a].file = "staged"
               /\ rest[a].at = "downloading" /\ rest[a].file = "staged" => staged' # None,
           due' \in Nat, due' + waiting' <= due + waiting,
           UNCHANGED <<overlapped, applied, vouched>>
    PROVE  UpdTyped'
<1>1. waiting \in Nat /\ due \in Nat /\ waiting + due <= MaxScripts
  BY Scripts
<1>2. CASE running' = installed'[1] /\ Ended /\ \E b \in Builds : installed' = Whole(b)
  <2>1. running' \in Builds
    BY <1>2, WholeTyped
  <2>2. apply' = NoApplies /\ offer' = None /\ waiting' = 0
    BY <1>2 DEF Ended
  <2>3. {waiting', due'} \subseteq 0..MaxScripts /\ waiting' + due' \in 0..MaxScripts
    <3>1. waiting' \in Nat
      BY <2>2
    <3> QED
      BY <1>1, <3>1, ScriptsKept
  <2>4. apply' \in [Appliers -> Apply \cup {None}] /\ Backed'
    BY <2>2 DEF NoApplies, Backed, In
  <2> QED
    BY <2>1, <2>2, <2>3, <2>4 DEF UpdTyped, UpdateTypeOK
<1>3. CASE apply' = rest /\ UNCHANGED <<running, offer, waiting>>
  <2>1. {waiting', due'} \subseteq 0..MaxScripts /\ waiting' + due' \in 0..MaxScripts
    <3>1. waiting' \in Nat
      BY <1>1, <1>3
    <3> QED
      BY <1>1, <3>1, ScriptsKept
  <2>2. Backed'
    BY <1>3 DEF UpdTyped, Backed, In
  <2> QED
    BY <1>3, <2>1, <2>2 DEF UpdTyped, UpdateTypeOK
<1> QED
  BY <1>2, <1>3 DEF StartOf

LEMMA UpdateNextTyped ==
    ASSUME UpdTyped, spare \in 0..MaxEvents, UpdateNext
    PROVE  UpdTyped' /\ spare' \in 0..MaxEvents
<1> USE MaxEventsIsNat
<1>1. ASSUME NEW o \in Response \cup {None}, Check(o) PROVE UpdTyped' /\ spare' \in 0..MaxEvents
  BY <1>1 DEF Check, VouchedBy, Response, Event, UpdTyped, UpdateTypeOK, Backed, In
<1>2. ASSUME NEW a \in Appliers, Ask(a) PROVE UpdTyped' /\ spare' \in 0..MaxEvents
  <2> DEFINE new == [version |-> offer.envelope, written |-> 0, file |-> "staged", at |-> "asked"]
  <2>1. new \in Apply
    BY <1>2, UpdateLimits DEF Ask, Available, UpdTyped, UpdateTypeOK, Response, Apply
  <2>2. apply' = [apply EXCEPT ![a] = new] /\ staged' = staged
    BY <1>2 DEF Ask
  <2>3. apply' \in [Appliers -> Apply \cup {None}] /\ Backed'
    BY <2>1, <2>2, ApplyReplaced
  <2> QED
    BY <1>2, <2>3 DEF Ask, UpdTyped, UpdateTypeOK
<1>3. ASSUME NEW a \in Appliers, ApplyStep(a) PROVE UpdTyped' /\ spare' \in 0..MaxEvents
  BY <1>3, UpdateApply
<1>4. CASE Relaunch
  <2> DEFINE rest == IF staged = None THEN apply ELSE Redirected
  <2>1. rest \in [Appliers -> Apply \cup {None}]
    BY RedirectedTyped DEF UpdTyped, UpdateTypeOK
  <2>2. \A a \in Appliers : rest[a] # None =>
            /\ rest[a].at = "asked" => rest[a].file = "staged"
            /\ ~(rest[a].at = "downloading" /\ rest[a].file = "staged")
    BY DEF UpdTyped, UpdateTypeOK, Apply, Backed, In, Redirected
  <2>3. installed' \in File /\ staged' \in File \cup {None}
    BY <1>4 DEF Relaunch, UpdTyped, UpdateTypeOK
  <2>4. /\ StartOf(installed', rest) /\ due > 0 /\ due' = due - 1 + (waiting - waiting')
        /\ UNCHANGED <<overlapped, applied, vouched, spare>>
    BY <1>4 DEF Relaunch
  <2>5. waiting' \in {0, waiting}
    BY <2>1, <2>3, <2>4, StartTyped
  <2>6. due' \in Nat /\ due' + waiting' <= due + waiting
    BY <2>4, <2>5, UpdateLimits DEF UpdTyped, UpdateTypeOK
  <2> HIDE DEF rest
  <2> QED
    BY <2>1, <2>2, <2>3, <2>4, <2>6, UpdateStarted
<1>5. CASE Quit
  BY <1>5, UpdateEnded DEF Quit, Event, UpdTyped, UpdateTypeOK
<1>6. CASE Launch
  <2>1. waiting' \in {0, waiting} /\ StartOf(installed', apply)
    BY <1>6, StartTyped DEF Launch, UpdTyped, UpdateTypeOK
  <2>2. due' \in Nat /\ due' + waiting' <= due + waiting
    BY <1>6, <2>1, UpdateLimits DEF Launch, UpdTyped, UpdateTypeOK
  <2> QED
    BY <1>6, <2>1, <2>2, UpdateStarted DEF Launch, Event, UpdTyped, UpdateTypeOK, Backed, In
<1> QED
  BY <1>1, <1>2, <1>3, <1>4, <1>5, <1>6, UpdateNext DEF UpdateNext, UpdateStep
-----------------------------------------------------------------------------
(* While no two applies overlap, the staged file is under the control of one *)
(* apply, and then of one script.                                            *)

\* An apply runs in the build that is installed, and no script waits before its own.
Careful(a) ==
    /\ running # None /\ installed = Whole(running)
    /\ apply[a].version \in vouched /\ apply[a].version > running
    /\ apply[a].file = "staged"
    /\ apply[a].at = "verified" => staged = Whole(apply[a].version)
    /\ due = 0 /\ (apply[a].at # "ok" => waiting = 0)

\* What a script will put in place was signed, and is newer than what it replaces.
Replaces == \E b \in vouched, c \in Builds : staged = Whole(b) /\ installed = Whole(c) /\ b > c

Alone ==
    /\ \E b \in Builds : installed = Whole(b)
    /\ {waiting, due} \subseteq {0, 1} /\ 0 \in {waiting, due}
    /\ \A a, c \in Appliers : apply[a] # None /\ apply[c] # None => a = c
    /\ \A a \in Appliers : apply[a] # None => Careful(a)
    /\ 1 \in {waiting, due} => Replaces

\* An offer that update_apply would accept carries a valid signature.
Told == offer # None /\ Genuine(offer) => offer.envelope \in vouched

UpdInv == UpdTyped /\ Told /\ (~overlapped => Alone)

LEMMA AloneStarts == UpdateInit => Alone /\ Told
BY UpdateLimits DEF UpdateInit, Alone, NoApplies, Told

\* A poll stores what it was told; the end of a process forgets it; no other step of the
\* update changes the offer.
LEMMA ToldStep ==
    ASSUME Told, UpdateNext
    PROVE  Told'
<1>1. ASSUME NEW o, Check(o) PROVE Told'
  BY <1>1 DEF Check, VouchedBy, Told, Genuine
<1>2. CASE offer' \in {offer, None} /\ vouched' = vouched
  BY <1>2 DEF Told, Genuine
<1>3. Relaunch \/ Quit \/ Launch => offer' \in {offer, None} /\ vouched' = vouched
  BY DEF Relaunch, Quit, Launch, StartOf, Ended
<1>4. ASSUME NEW a \in Appliers, Ask(a) \/ ApplyStep(a)
      PROVE  offer' \in {offer, None} /\ vouched' = vouched
  BY <1>4 DEF Ask, ApplyStep, DownloadStart, DownloadBlock, DownloadEnd, Verify, Spawn, ApplyFails,
              Exit, Ended
<1> QED
  BY <1>1, <1>2, <1>3, <1>4 DEF UpdateNext, UpdateStep

\* The parts of Alone after a step of the only apply there is.
LEMMA OnlyApply ==
    ASSUME UpdTyped, Alone, NEW a \in Appliers, apply[a] # None, NEW new,
           apply' = [apply EXCEPT ![a] = new]
    PROVE  apply'[a] = new /\ \A b \in Appliers : apply'[b] # None => b = a
BY DEF UpdTyped, UpdateTypeOK, Alone

LEMMA AloneApply ==
    ASSUME UpdTyped, Alone, NEW a \in Appliers, ApplyStep(a)
    PROVE  Alone'
<1>0. apply[a] # None /\ apply[a] \in Apply /\ Careful(a)
  BY DEF ApplyStep, DownloadStart, DownloadBlock, DownloadEnd, Verify, Spawn, ApplyFails, Exit,
         In, Alone, UpdTyped, UpdateTypeOK
<1>1. ASSUME NEW new \in Apply, apply' = [apply EXCEPT ![a] = new],
             new.version = apply[a].version, new.file = apply[a].file, new.at # "ok",
             new.at = "verified" => staged' = Whole(new.version),
             waiting = 0, UNCHANGED <<running, installed, waiting, due, vouched>>
      PROVE  Alone'
  <2>1. apply'[a] = new /\ \A b \in Appliers : apply'[b] # None => b = a
    BY <1>0, <1>1, OnlyApply
  <2>2. Careful(a)'
    BY <1>0, <1>1, <2>1 DEF Careful
  <2>3. waiting' = 0 /\ due' = 0
    BY <1>0, <1>1 DEF Careful
  <2>4. \E b \in Builds : installed' = Whole(b)
    BY <1>1 DEF Alone
  <2> QED
    BY <2>1, <2>2, <2>3, <2>4 DEF Alone
<1>2. ASSUME NEW s \in {"downloading", "downloaded", "verified", "failed"},
             apply' = [apply EXCEPT ![a].at = s], apply[a].at # "ok",
             s = "verified" => staged' = Whole(apply[a].version),
             UNCHANGED <<running, installed, waiting, due, vouched>>
      PROVE  Alone'
  <2> DEFINE new == [apply[a] EXCEPT !.at = s]
  <2>1. /\ new \in Apply /\ new.at = s /\ apply' = [apply EXCEPT ![a] = new]
        /\ new.version = apply[a].version /\ new.file = apply[a].file
    BY <1>0, <1>2 DEF Apply
  <2>2. waiting = 0
    BY <1>0, <1>2 DEF Careful
  <2> HIDE DEF new
  <2> QED
    BY <1>1, <1>2, <2>1, <2>2
<1>3. CASE DownloadStart(a) \/ DownloadEnd(a) \/ ApplyFails(a)
  BY <1>2, <1>3 DEF DownloadStart, DownloadEnd, ApplyFails, In
<1>4. CASE DownloadBlock(a)
  <2> DEFINE new == [apply[a] EXCEPT !.written = @ + 1]
  <2>1. /\ new \in Apply /\ new.at = "downloading" /\ apply' = [apply EXCEPT ![a] = new]
        /\ new.version = apply[a].version /\ new.file = apply[a].file
    BY <1>0, <1>4, UpdateLimits DEF DownloadBlock, In, Apply
  <2>2. waiting = 0 /\ installed' = installed
    BY <1>0, <1>4 DEF DownloadBlock, Careful, In
  <2> HIDE DEF new
  <2> QED
    BY <1>1, <1>4, <2>1, <2>2 DEF DownloadBlock
<1>5. CASE Verify(a)
  <2>1. CASE SumMatches(a)
    BY <1>2, <1>5, <2>1 DEF Verify, SumMatches, In
  <2>2. CASE ~SumMatches(a)
    BY <1>2, <1>5, <2>2 DEF Verify, In
  <2> QED
    BY <2>1, <2>2
<1>6. CASE Spawn(a)
  <2> DEFINE new == [apply[a] EXCEPT !.at = "ok"]
  <2>1. /\ new.at = "ok" /\ apply' = [apply EXCEPT ![a] = new]
        /\ new.version = apply[a].version /\ new.file = apply[a].file
    BY <1>0, <1>6 DEF Spawn, Apply
  <2>2. apply'[a] = new /\ \A b \in Appliers : apply'[b] # None => b = a
    BY <1>0, <2>1, OnlyApply
  <2>3. waiting' = 1 /\ due' = 0 /\ staged = Whole(apply[a].version)
    BY <1>0, <1>6 DEF Spawn, In, Careful
  <2>4. Careful(a)'
    BY <1>0, <1>6, <2>1, <2>2, <2>3 DEF Careful, Spawn
  <2>5. apply[a].version \in Builds /\ running \in Builds
    BY <1>0 DEF Apply, Careful, UpdTyped, UpdateTypeOK
  <2>6. Replaces'
    BY <1>0, <1>6, <2>3, <2>5 DEF Replaces, Careful, Spawn
  <2> QED
    BY <1>6, <2>2, <2>3, <2>4, <2>6 DEF Alone, Spawn
<1>7. CASE Exit(a)
  BY <1>7 DEF Exit, Ended, NoApplies, Alone, Replaces
<1> QED
  BY <1>3, <1>4, <1>5, <1>6, <1>7 DEF ApplyStep

\* A script moves what an apply verified over an older build, when no apply runs.
LEMMA RelaunchUpgrades ==
    ASSUME UpdTyped, Alone, Relaunch
    PROVE  /\ due = 1 /\ waiting = 0 /\ apply = NoApplies
           /\ \E b \in vouched, c \in Builds :
                 installed = Whole(c) /\ installed' = Whole(b) /\ b > c
<1>1. due = 1 /\ waiting = 0
  BY DEF Relaunch, Alone
<1>2. apply = NoApplies
  BY <1>1 DEF Alone, Careful, UpdTyped, UpdateTypeOK, NoApplies
<1>3. PICK b \in vouched, c \in Builds : staged = Whole(b) /\ installed = Whole(c) /\ b > c
  BY <1>1 DEF Alone, Replaces
<1>4. staged # None
  BY <1>3, WholeTyped, NoneIsNoBuild DEF UpdTyped, UpdateTypeOK
<1> QED
  BY <1>1, <1>2, <1>3, <1>4 DEF Relaunch

LEMMA AloneStep ==
    ASSUME UpdTyped, Told, ~overlapped => Alone, UpdateNext
    PROVE  ~overlapped' => Alone'
<1> SUFFICES ASSUME ~overlapped' PROVE Alone'
  OBVIOUS
<1>1. ASSUME NEW o \in Response \cup {None}, Check(o) PROVE Alone'
  BY <1>1 DEF Check, Alone, Careful, Replaces
<1>2. ASSUME NEW a \in Appliers, Ask(a) PROVE Alone'
  <2> DEFINE new == [version |-> offer.envelope, written |-> 0, file |-> "staged", at |-> "asked"]
  <2>1. ~overlapped /\ apply = NoApplies /\ installed = Whole(running) /\ ~(waiting + due > 0)
    BY <1>2 DEF Ask
  <2>2. waiting = 0 /\ due = 0
    BY <2>1, Scripts
  <2>3. apply'[a] = new /\ \A b \in Appliers : apply'[b] # None => b = a
    BY <1>2, <2>1 DEF Ask, NoApplies
  <2>4. running # None /\ offer.envelope > running /\ offer.envelope \in vouched'
    BY <1>2 DEF Ask, Available, Genuine, Told
  <2>5. Careful(a)'
    BY <1>2, <2>1, <2>2, <2>3, <2>4 DEF Ask, Careful
  <2> QED
    BY <1>2, <2>1, <2>2, <2>3, <2>5 DEF Ask, Alone
<1>3. ASSUME NEW a \in Appliers, ApplyStep(a) PROVE Alone'
  <2>1. overlapped' = overlapped
    BY <1>3 DEF ApplyStep, DownloadStart, DownloadBlock, DownloadEnd, Verify, Spawn, ApplyFails, Exit
  <2> QED
    BY <1>3, <2>1, AloneApply
<1>4. CASE Relaunch
  <2>1. Alone
    BY <1>4 DEF Relaunch
  <2>2. /\ due = 1 /\ waiting = 0 /\ apply = NoApplies
        /\ \E b \in Builds : installed' = Whole(b)
    BY <1>4, <2>1, RelaunchUpgrades DEF UpdTyped, UpdateTypeOK
  <2>3. waiting' = 0 /\ apply' = NoApplies
    BY <1>4, <2>2 DEF Relaunch, StartOf, Ended, NoApplies, Redirected, In
  <2>4. due' = 0
    BY <1>4, <2>2, <2>3 DEF Relaunch
  <2> QED
    BY <2>2, <2>3, <2>4 DEF Alone, NoApplies
<1>5. CASE Quit
  BY <1>5 DEF Quit, Ended, NoApplies, Alone, Replaces
<1>6. CASE Launch
  <2>1. Alone /\ UNCHANGED <<installed, staged, vouched>>
    BY <1>6 DEF Launch
  <2>2. CASE Ended
    <3>1. waiting' = 0 /\ apply' = NoApplies /\ due' = due + (waiting - 0)
      BY <1>6, <2>2 DEF Ended, Launch
    <3>2. due' \in {waiting, due}
      BY <2>1, <3>1 DEF Alone
    <3> QED
      BY <2>1, <3>1, <3>2 DEF Alone, Replaces, NoApplies
  <2>3. CASE apply' = apply /\ UNCHANGED <<running, offer, waiting>>
    <3>1. due' = due + (waiting - waiting)
      BY <1>6, <2>3 DEF Launch
    <3>2. due' = due
      BY <3>1, Scripts
    <3> QED
      BY <2>1, <2>3, <3>2 DEF Alone, Careful, Replaces
  <2> QED
    BY <1>6, <2>2, <2>3 DEF Launch, StartOf
<1> QED
  BY <1>1, <1>2, <1>3, <1>4, <1>5, <1>6 DEF UpdateNext, UpdateStep

\* The step of InstalledIsVerified.
LEMMA InstallStep ==
    ASSUME UpdTyped, ~overlapped => Alone, UpdateNext, installed' # installed, ~overlapped
    PROVE  (\E b \in vouched : installed' = Whole(b)) /\ installed'[1] > installed[1]
<1>1. CASE Relaunch
  <2>1. PICK b \in vouched, c \in Builds :
            installed = Whole(c) /\ installed' = Whole(b) /\ b > c
    BY <1>1, RelaunchUpgrades
  <2> QED
    BY <2>1, WholeTyped DEF UpdTyped, UpdateTypeOK
<1>2. CASE \E a \in Appliers : DownloadBlock(a)
  <2>1. PICK a \in Appliers : DownloadBlock(a)
    BY <1>2
  <2>2. apply[a].file = "staged"
    BY <2>1 DEF Alone, Careful, DownloadBlock, In
  <2> QED
    BY <2>1, <2>2 DEF DownloadBlock
<1> QED
  BY <1>1, <1>2
  DEF UpdateNext, UpdateStep, Check, Ask, ApplyStep, DownloadStart, DownloadEnd, Verify, Spawn,
      ApplyFails, Exit, Quit, Launch

-----------------------------------------------------------------------------
(* ActivityLog. *)

After(S, e) == {d \in S : d.t > e.t}

\* A list of the newest events that holds e, or at least n newer ones.
Covers(S, e, n) == e \in S \/ Cardinality(After(S, e)) >= n

Busy(l) == logger[l].at # "idle"
Logging(l) == logger[l].at \in {"stored", "indexing", "indexed"}

\* The synchronisations of the loggers differ, and what is logged as ended is none of
\* them, nor the one whose progress is known.
Separate ==
    /\ \A l \in Loggers : logger[l].of <= clock
    /\ \A d \in files : d.of <= clock
    /\ \A l, m \in Loggers : Busy(l) /\ Busy(m) /\ l # m => logger[l].of # logger[m].of
    /\ \A l \in Loggers : Logging(l) => logger[l].event \in files
                                        /\ logger[l].event.of = logger[l].of
    /\ \A l \in Loggers, d \in logged : Busy(l) /\ d.kind = "end" => d.of # logger[l].of
    /\ \A d \in logged : progress # None /\ d.kind = "end" => d.of # progress.of

\* What a reader holds was still going on when it began, and is all the progress that
\* it finds.
Ongoing ==
    \A r \in Readers :
        /\ \A d \in reader[r].before :
              reader[r].held # None /\ d.kind = "end" => d.of # reader[r].held.of
        /\ \A e \in reader[r].found : e.kind = "progress" => e = reader[r].held

\* Events that are sure, or will be when their logger returns.
Certain == sure \cup {logger[l].event : l \in {m \in Loggers : logger[m].at = "indexed"
                                                             /\ logger[m].alone}}

Scanning == \E r \in Readers : reader[r].at = "scanned"

Indexes ==
    /\ \A e \in Certain : index # NoIndex /\ Covers(Durable(index), e, Kept)
    /\ \A l \in Loggers, e \in Certain :
          logger[l].at = "indexing" => Covers(logger[l].base, e, Kept)
    /\ \A l \in Loggers : logger[l].at = "indexing" /\ logger[l].alone =>
          /\ ~Scanning
          /\ \A m \in Loggers : logger[m].at = "indexing" => m = l
    /\ Scanning => Certain = {}

Answers ==
    \A r \in Readers :
        /\ reader[r].certain \subseteq sure
        /\ reader[r].at = "done" => \A e \in reader[r].certain : Covers(reader[r].found, e, Shown)

LogInv == LogTypeOK /\ Separate /\ Ongoing /\ Indexes /\ Answers

LogEvents == {e \in Entry : e.kind # "progress"}
LoggerType == [at : {"idle", "syncing", "stored", "indexing", "indexed"},
               of : 0..MaxClock, event : Entry \cup {None}, base : SUBSET LogEvents,
               alone : BOOLEAN]
ReaderType == [at : {"idle", "reading", "scanned", "done"}, held : Entry \cup {None},
               found : SUBSET Entry, before : SUBSET Entry, certain : SUBSET Entry]

LEMMA LogLimits ==
    Shown \in Nat \ {0} /\ Kept \in Nat \ {0} /\ MaxClock \in Nat \ {0} /\ Shown <= Kept
BY LimitsAssumption

LEMMA LogTypes ==
    ASSUME LogTypeOK
    PROVE  /\ logger \in [Loggers -> LoggerType] /\ reader \in [Readers -> ReaderType]
           /\ files \subseteq LogEvents /\ logged \subseteq files /\ sure \subseteq logged
           /\ index \in (SUBSET Entry) \cup {NoIndex} /\ clock \in 0..MaxClock
           /\ progress \in {e \in Entry : e.kind = "progress"} \cup {None}
BY DEF LogTypeOK, LoggerType, ReaderType, LogEvents

\* Lists of events are finite.
LEMMA EntriesFinite == \A S \in SUBSET Entry : IsFiniteSet(S)
<1> DEFINE K == {"end", "heartbeat", "progress"}
           P == (0..MaxClock) \X ((0..MaxClock) \X K)
           f == [x \in P |-> [t |-> x[1], of |-> x[2][1], kind |-> x[2][2]]]
<1>1. IsFiniteSet(0..MaxClock)
  BY FS_Interval, LogLimits
<1>2. IsFiniteSet(K)
  <2>1. IsFiniteSet({"end"})
    BY FS_Singleton
  <2>2. IsFiniteSet({"end"} \cup {"heartbeat"})
    BY <2>1, FS_AddElement
  <2>3. IsFiniteSet(({"end"} \cup {"heartbeat"}) \cup {"progress"})
    BY <2>2, FS_AddElement
  <2>4. K = ({"end"} \cup {"heartbeat"}) \cup {"progress"}
    OBVIOUS
  <2> QED
    BY <2>3, <2>4
<1>3. IsFiniteSet(P)
  BY <1>1, <1>2, FS_Product
<1>4. f \in Surjection(P, Entry)
  <2>1. f \in [P -> Entry]
    BY DEF Entry
  <2>2. ASSUME NEW e \in Entry PROVE \E x \in P : f[x] = e
    <3>1. <<e.t, <<e.of, e.kind>>>> \in P
      BY DEF Entry
    <3>2. f[<<e.t, <<e.of, e.kind>>>>] = e
      BY <3>1 DEF Entry
    <3> QED
      BY <3>1, <3>2
  <2> HIDE DEF f, P
  <2> QED
    BY <2>1, <2>2 DEF Surjection
<1>5. IsFiniteSet(Entry)
  BY <1>3, <1>4, FS_Surjection
<1> QED
  BY <1>5, FS_Subset

\* A list of events that is not empty has a newest one.
LEMMA NewestExists ==
    ASSUME NEW S \in SUBSET Entry, S # {}
    PROVE  \E x \in S : \A y \in S : ~(y.t > x.t)
<1> DEFINE T == {MaxClock - d.t : d \in S}
<1>1. \A d \in S : d.t \in 0..MaxClock
  BY DEF Entry
<1>2. T \subseteq Nat /\ T # {}
  BY <1>1, LogLimits
<1>3. PICK k \in T : \A y \in T : ~(<<y, k>> \in OpToRel(<, Nat))
  BY <1>2, WFMin, NatLessThanWellFounded
<1>4. \A y \in T : ~(y < k)
  BY <1>2, <1>3 DEF OpToRel
<1>5. PICK x \in S : k = MaxClock - x.t
  OBVIOUS
<1>6. ASSUME NEW y \in S PROVE ~(y.t > x.t)
  <2>1. ~(MaxClock - y.t < MaxClock - x.t)
    BY <1>4, <1>5
  <2> QED
    BY <1>1, <2>1, LogLimits
<1> QED
  BY <1>6

\* What is newer than an event, in part of a list, in the list, and in the newest of it.
LEMMA CardLess ==
    ASSUME NEW S \in SUBSET Entry, NEW T \in SUBSET S
    PROVE  Cardinality(T) \in Nat /\ Cardinality(S) \in Nat /\ Cardinality(T) <= Cardinality(S)
BY EntriesFinite, FS_Subset, FS_CardinalityType

LEMMA NewestCovers ==
    ASSUME NEW S \in SUBSET Entry, NEW e \in Entry, NEW n \in Nat, Covers(S, e, n)
    PROVE  Covers(Newest(S, n), e, n)
<1>1. Newest(S, n) \subseteq S /\ Newest(S, n) \in SUBSET Entry
  BY DEF Newest
<1>2. CASE e \in Newest(S, n)
  BY <1>2 DEF Covers
<1>3. CASE e \notin Newest(S, n)
  <2>1. Cardinality(After(S, e)) \in Nat /\ Cardinality(After(S, e)) >= n
    <3>1. After(S, e) \in SUBSET S
      BY DEF After
    <3>2. Cardinality(After(S, e)) \in Nat
      BY <3>1, CardLess
    <3> QED
      BY <1>3, <3>2 DEF Covers, Newest, After
  <2> DEFINE N == After(S, e) \ Newest(S, n)
  <2>2. CASE N = {}
    <3>1. After(Newest(S, n), e) = After(S, e)
      BY <1>1, <2>2 DEF After
    <3> QED
      BY <2>1, <3>1 DEF Covers
  <2>3. CASE N # {}
    <3>1. N \in SUBSET Entry
      BY DEF After
    <3>2. PICK x \in N : \A y \in N : ~(y.t > x.t)
      BY <2>3, <3>1, NewestExists
    <3>3. x \in S /\ x.t > e.t
      BY <3>2 DEF After
    <3>4. Cardinality(After(S, x)) \in Nat /\ Cardinality(After(S, x)) >= n
      <4>1. After(S, x) \in SUBSET S
        BY DEF After
      <4>2. Cardinality(After(S, x)) \in Nat
        BY <4>1, CardLess
      <4>3. ~(Cardinality({d \in S : d.t > x.t}) < n)
        BY <3>2, <3>3 DEF Newest
      <4> QED
        BY <4>2, <4>3 DEF After
    <3>5. After(S, x) \subseteq After(Newest(S, n), e)
      <4>1. SUFFICES ASSUME NEW d \in S, d.t > x.t PROVE d \in Newest(S, n) /\ d.t > e.t
        BY DEF After
      <4>2. d.t \in Nat /\ x.t \in Nat /\ e.t \in Nat
        BY <3>3 DEF Entry
      <4>3. d.t > e.t
        BY <3>3, <4>1, <4>2
      <4> QED
        BY <3>2, <4>1, <4>3 DEF After
    <3>6. After(Newest(S, n), e) \in SUBSET Entry
      BY <1>1 DEF After
    <3>7. Cardinality(After(Newest(S, n), e)) \in Nat
          /\ Cardinality(After(S, x)) <= Cardinality(After(Newest(S, n), e))
      BY <3>5, <3>6, CardLess
    <3>8. Cardinality(After(Newest(S, n), e)) >= n
      BY <3>4, <3>7
    <3> QED
      BY <3>8 DEF Covers
  <2> QED
    BY <2>2, <2>3
<1> QED
  BY <1>2, <1>3

LEMMA CoversMore ==
    ASSUME NEW S \in SUBSET Entry, NEW R \in SUBSET S, NEW e \in Entry,
           NEW k \in Nat, NEW n \in Nat, n <= k, Covers(R, e, k)
    PROVE  Covers(S, e, n)
<1>1. CASE e \in R
  BY <1>1 DEF Covers
<1>2. CASE Cardinality(After(R, e)) >= k
  <2>1. After(S, e) \in SUBSET Entry /\ After(R, e) \in SUBSET After(S, e)
    BY DEF After
  <2>2. /\ Cardinality(After(R, e)) \in Nat /\ Cardinality(After(S, e)) \in Nat
        /\ Cardinality(After(R, e)) <= Cardinality(After(S, e))
    BY <2>1, CardLess
  <2>3. Cardinality(After(S, e)) >= n
    BY <1>2, <2>2
  <2> QED
    BY <2>3 DEF Covers
<1> QED
  BY <1>1, <1>2 DEF Covers

-----------------------------------------------------------------------------
(* The steps of the activity log. *)

LEMMA LogStarts == LogInit => LogInv
<1> SUFFICES ASSUME LogInit PROVE LogInv
  OBVIOUS
<1>1. 0 \in 0..MaxClock
  BY LogLimits
<1>2. Idle \in LoggerType /\ NoRead \in ReaderType
  BY <1>1 DEF Idle, NoRead, LoggerType, ReaderType
<1>3. files \subseteq LogEvents
  BY <1>1 DEF LogInit, LogEvents, Entry
<1>4. LogTypeOK
  BY <1>1, <1>2, <1>3 DEF LogInit, LogTypeOK, LoggerType, ReaderType, LogEvents
<1>5. Separate
  BY DEF LogInit, Separate, Busy, Logging, Idle
<1>6. Ongoing /\ Answers
  BY DEF LogInit, Ongoing, Answers, NoRead
<1>7. Certain = {}
  BY DEF LogInit, Certain, Idle
<1>8. Indexes
  BY <1>7 DEF LogInit, Indexes, Scanning, NoRead, Idle
<1> QED
  BY <1>4, <1>5, <1>6, <1>8 DEF LogInv

\* Changes of the index that are joined by another one.
LEMMA JoinedIs ==
    ASSUME LogTypeOK
    PROVE  /\ Joined \in [Loggers -> LoggerType]
           /\ \A l \in Loggers :
                /\ Joined[l].at = logger[l].at /\ Joined[l].of = logger[l].of
                /\ Joined[l].event = logger[l].event /\ Joined[l].base = logger[l].base
                /\ Joined[l].alone => logger[l].alone
                /\ Joined[l].at = "indexing" => ~Joined[l].alone
BY LogTypes DEF Joined, LoggerType

LEMMA ReturnedIs ==
    ASSUME LogTypeOK, NEW l \in Loggers
    PROVE  /\ Returned(l) \in LoggerType /\ Returned(l).at \in {"idle", "syncing"}
           /\ Returned(l).at = "syncing" =>
                 Returned(l).of = logger[l].of /\ logger[l].event.kind = "heartbeat"
           /\ Returned(l).of \in {0, logger[l].of}
<1>1. logger[l].of \in 0..MaxClock /\ 0 \in 0..MaxClock
  BY LogTypes, LogLimits DEF LoggerType
<1> QED
  BY <1>1 DEF Returned, Idle, LoggerType

\* What a step of a logger does to the loggers, but for reading the index.
LEMMA LoggerStep ==
    ASSUME LogTypeOK, NEW l \in Loggers, NEW new \in LoggerType,
           logger' = [logger EXCEPT ![l] = new]
    PROVE  /\ logger' \in [Loggers -> LoggerType] /\ logger'[l] = new
           /\ \A m \in Loggers : m # l => logger'[m] = logger[m]
BY LogTypes

LEMMA LogTyped ==
    ASSUME logger' \in [Loggers -> LoggerType], reader' \in [Readers -> ReaderType],
           files' \subseteq LogEvents, logged' \subseteq files', sure' \subseteq logged',
           index' \in (SUBSET Entry) \cup {NoIndex}, clock' \in 0..MaxClock,
           progress' \in {e \in Entry : e.kind = "progress"} \cup {None}
    PROVE  LogTypeOK'
BY DEF LogTypeOK, LoggerType, ReaderType, LogEvents

LEMMA Ticks ==
    ASSUME LogTypeOK, Tick
    PROVE  /\ clock' \in 0..MaxClock
           /\ \A n \in 0..MaxClock : n <= clock => n <= clock' /\ n # clock'
           /\ clock' <= clock'
<1>1. clock \in 0..MaxClock
  BY DEF LogTypeOK
<1> DEFINE c == clock + 1
<1>2. /\ c \in 0..MaxClock
      /\ \A n \in 0..MaxClock : n <= clock => n <= c /\ n # c
      /\ c <= c
  BY <1>1, LogLimits DEF Tick
<1>3. clock' = c
  BY DEF Tick
<1> HIDE DEF c
<1> QED
  BY <1>2, <1>3

\* A step that logs nothing, and neither begins nor shows a synchronisation.
LEMMA SeparateKept ==
    ASSUME LogInv, UNCHANGED <<clock, files, logged>>, progress' \in {progress, None},
           \A m \in Loggers :
               /\ logger'[m].of \in {0, logger[m].of}
               /\ logger'[m].at # "idle" => Busy(m) /\ logger'[m].of = logger[m].of
               /\ logger'[m].at \in {"stored", "indexing", "indexed"} =>
                     Logging(m) /\ logger'[m].event = logger[m].event
    PROVE  Separate'
<1>1. \A m \in Loggers : logger'[m].of <= clock
  BY LogLimits DEF LogInv, LogTypeOK, Separate
<1> QED
  BY <1>1 DEF LogInv, Separate, Busy, Logging

LEMMA LogBegins ==
    ASSUME LogInv, NEW l \in Loggers, SyncStart(l)
    PROVE  LogTypeOK' /\ Separate'
<1> DEFINE new == [logger[l] EXCEPT !.at = "syncing", !.of = clock']
<1>1. LogTypeOK /\ Separate /\ logger[l] \in LoggerType
  BY LogTypes DEF LogInv
<1>2. /\ clock' \in 0..MaxClock /\ clock' <= clock'
      /\ \A n \in 0..MaxClock : n <= clock => n <= clock' /\ n # clock'
  BY <1>1, Ticks DEF SyncStart
<1>3. new \in LoggerType /\ new.at = "syncing" /\ new.of = clock'
  BY <1>1, <1>2 DEF LoggerType
<1>4. logger' = [logger EXCEPT ![l] = new]
  BY <1>1 DEF SyncStart
<1> HIDE DEF new
<1>5. /\ logger' \in [Loggers -> LoggerType] /\ logger'[l] = new
      /\ \A m \in Loggers : m # l => logger'[m] = logger[m]
  BY <1>1, <1>3, <1>4, LoggerStep
<1>6. LogTypeOK'
  BY <1>1, <1>2, <1>5, LogTypes, LogTyped DEF SyncStart
<1>7. /\ \A m \in Loggers : m # l => logger[m].of <= clock' /\ logger[m].of # clock'
      /\ \A d \in files : d.of <= clock' /\ d.of # clock'
  BY <1>1, <1>2, LogTypes DEF Separate, LoggerType, LogEvents, Entry
<1>8. Separate'
  BY <1>1, <1>2, <1>3, <1>5, <1>7, LogTypes DEF Separate, Busy, Logging, SyncStart
<1> QED
  BY <1>6, <1>8

LEMMA LogShows ==
    ASSUME LogInv, NEW l \in Loggers, LogProgress(l)
    PROVE  LogTypeOK' /\ Separate'
<1>1. LogTypeOK /\ Separate /\ logger[l] \in LoggerType
  BY LogTypes DEF LogInv
<1>2. /\ clock' \in 0..MaxClock
      /\ \A n \in 0..MaxClock : n <= clock => n <= clock' /\ n # clock'
  BY <1>1, Ticks DEF LogProgress
<1>3. progress' \in {e \in Entry : e.kind = "progress"} /\ progress'.of = logger[l].of
  BY <1>1, <1>2 DEF LogProgress, LoggerType, Entry
<1>4. LogTypeOK'
  BY <1>1, <1>2, <1>3, LogTypes, LogTyped DEF LogProgress
<1>5. /\ \A m \in Loggers : logger[m].of <= clock'
      /\ \A d \in files : d.of <= clock'
  BY <1>1, <1>2, LogTypes DEF Separate, LoggerType, LogEvents, Entry
<1>6. Separate'
  BY <1>1, <1>3, <1>5 DEF Separate, Busy, Logging, LogProgress
<1> QED
  BY <1>4, <1>6

LEMMA LogStores ==
    ASSUME LogInv, NEW l \in Loggers, NEW kind \in {"end", "heartbeat"}, LogStored(l, kind)
    PROVE  LogTypeOK' /\ Separate'
<1> DEFINE e   == [t |-> clock', of |-> logger[l].of, kind |-> kind]
           new == [logger[l] EXCEPT !.at = "stored", !.event = e]
<1>1. LogTypeOK /\ Separate /\ logger[l] \in LoggerType
  BY LogTypes DEF LogInv
<1>2. /\ clock' \in 0..MaxClock
      /\ \A n \in 0..MaxClock : n <= clock => n <= clock' /\ n # clock'
  BY <1>1, Ticks DEF LogStored
<1>3. e \in LogEvents /\ e \in Entry /\ e.of = logger[l].of
  BY <1>1, <1>2 DEF LogEvents, Entry, LoggerType
<1>4. files' = files \cup {e} /\ logger' = [logger EXCEPT ![l] = new]
  BY <1>1 DEF LogStored
<1>5. new \in LoggerType /\ new.at = "stored" /\ new.of = logger[l].of /\ new.event = e
  BY <1>1, <1>3 DEF LoggerType
<1> HIDE DEF new, e
<1>6. /\ logger' \in [Loggers -> LoggerType] /\ logger'[l] = new
      /\ \A m \in Loggers : m # l => logger'[m] = logger[m]
  BY <1>1, <1>4, <1>5, LoggerStep
<1>7. LogTypeOK'
  BY <1>1, <1>2, <1>3, <1>4, <1>6, LogTypes, LogTyped DEF LogStored
<1>8. /\ \A m \in Loggers : logger[m].of <= clock'
      /\ \A d \in files' : d.of <= clock'
  BY <1>1, <1>2, <1>3, <1>4, LogTypes DEF Separate, LoggerType, LogEvents, Entry
<1>9. Separate'
  BY <1>1, <1>3, <1>4, <1>5, <1>6, <1>8 DEF Separate, Busy, Logging, LogStored
<1> QED
  BY <1>7, <1>9

LEMMA LogEnds ==
    ASSUME LogInv, NEW l \in Loggers, LogDone(l)
    PROVE  LogTypeOK' /\ Separate'
<1>1. LogTypeOK /\ Separate
  BY DEF LogInv
<1>2. /\ Returned(l) \in LoggerType /\ Returned(l).at \in {"idle", "syncing"}
      /\ Returned(l).at = "syncing" =>
            Returned(l).of = logger[l].of /\ logger[l].event.kind = "heartbeat"
      /\ Returned(l).of \in {0, logger[l].of}
  BY <1>1, ReturnedIs
<1>3. /\ logger' \in [Loggers -> LoggerType] /\ logger'[l] = Returned(l)
      /\ \A m \in Loggers : m # l => logger'[m] = logger[m]
  BY <1>1, <1>2, LoggerStep DEF LogDone
<1>4. logger[l].event \in files /\ logger[l].event.of = logger[l].of /\ Busy(l)
  BY <1>1 DEF LogDone, Separate, Logging, Busy
<1>5. LogTypeOK'
  BY <1>1, <1>3, <1>4, LogTypes, LogTyped DEF LogDone
<1>6. \A m \in Loggers : logger'[m].of <= clock
  BY <1>1, <1>2, <1>3, LogLimits, LogTypes DEF Separate
<1>7. \A m \in Loggers : logger'[m].at # "idle" => Busy(m) /\ logger'[m].of = logger[m].of
  BY <1>2, <1>3, <1>4 DEF Busy
<1>8. ASSUME NEW m \in Loggers, NEW d \in logged', logger'[m].at # "idle", d.kind = "end"
      PROVE  d.of # logger'[m].of
  <2>1. CASE d \in logged
    BY <1>1, <1>7, <1>8, <2>1 DEF Separate
  <2>2. CASE d = logger[l].event
    <3>1. m # l
      BY <1>2, <1>3, <1>8, <2>2
    <3> QED
      BY <1>1, <1>4, <1>7, <1>8, <2>2, <3>1 DEF Separate
  <2> QED
    BY <1>8, <2>1, <2>2 DEF LogDone
<1>9. \A m \in Loggers : logger'[m].at \in {"stored", "indexing", "indexed"} =>
        Logging(m) /\ logger'[m].event = logger[m].event
  BY <1>2, <1>3 DEF Logging
<1>10. Separate'
  BY <1>1, <1>6, <1>7, <1>8, <1>9 DEF Separate, Busy, Logging, LogDone
<1> QED
  BY <1>5, <1>10

\* An event, and the list made of an index that holds it.
LEMMA IndexedIs ==
    ASSUME LogInv, NEW l \in Loggers, Logging(l)
    PROVE  /\ logger[l].event \in LogEvents /\ logger[l].base \in SUBSET LogEvents
           /\ Indexed(l) \subseteq logger[l].base \cup {logger[l].event}
           /\ Indexed(l) \in SUBSET LogEvents /\ Indexed(l) \in SUBSET Entry
<1>1. logger[l].event \in LogEvents /\ logger[l].base \in SUBSET LogEvents
  BY LogTypes DEF LogInv, Separate, LoggerType
<1> QED
  BY <1>1 DEF Indexed, Newest, LogEvents

LEMMA LogReads ==
    ASSUME LogInv, NEW l \in Loggers, LogIndexRead(l)
    PROVE  /\ LogTypeOK' /\ Separate'
           /\ \A m \in Loggers : m # l => logger'[m] = Joined[m]
           /\ logger'[l].at = "indexing" /\ (logger'[l].alone => NobodyIndexing)
           /\ logger'[l].base = IF index = NoIndex THEN {} ELSE Durable(index)
<1> DEFINE base == IF index = NoIndex THEN {} ELSE Durable(index)
           new  == [Joined[l] EXCEPT !.at = "indexing", !.base = base, !.alone = NobodyIndexing]
<1>1. LogTypeOK
  BY DEF LogInv
<1>2. /\ Joined \in [Loggers -> LoggerType]
      /\ \A m \in Loggers : Joined[m].at = logger[m].at /\ Joined[m].of = logger[m].of
                           /\ Joined[m].event = logger[m].event
  BY <1>1, JoinedIs
<1>3. base \in SUBSET LogEvents /\ NobodyIndexing \in BOOLEAN
  <2>1. NobodyIndexing \in BOOLEAN
    BY DEF NobodyIndexing
  <2> QED
    BY <1>1, <2>1, LogTypes DEF Durable, LogEvents
<1>4. /\ new \in LoggerType /\ new.at = "indexing" /\ new.of = logger[l].of
      /\ new.event = logger[l].event /\ new.base = base /\ new.alone = NobodyIndexing
  BY <1>2, <1>3 DEF LoggerType
<1>5. logger' = [Joined EXCEPT ![l] = new]
  BY <1>2 DEF LogIndexRead
<1> HIDE DEF new
<1>6. /\ logger' \in [Loggers -> LoggerType] /\ logger'[l] = new
      /\ \A m \in Loggers : m # l => logger'[m] = Joined[m]
  BY <1>2, <1>4, <1>5
<1>7. LogTypeOK'
  BY <1>1, <1>6, LogTypes, LogTyped DEF LogIndexRead
<1>8. Separate'
  <2>1. \A m \in Loggers : logger'[m].of = logger[m].of /\ logger'[m].event = logger[m].event
    BY <1>2, <1>4, <1>6
  <2>2. \A m \in Loggers : Busy(m) <=> logger'[m].at # "idle"
    BY <1>2, <1>4, <1>6 DEF Busy, LogIndexRead
  <2>3. \A m \in Loggers : Logging(m) <=> logger'[m].at \in {"stored", "indexing", "indexed"}
    BY <1>2, <1>4, <1>6 DEF Logging, LogIndexRead
  <2> QED
    BY <2>1, <2>2, <2>3, SeparateKept DEF LogIndexRead
<1> QED
  BY <1>4, <1>6, <1>7, <1>8

LEMMA LogWrites ==
    ASSUME LogInv, NEW l \in Loggers, LogIndexWritten(l)
    PROVE  /\ LogTypeOK' /\ Separate'
           /\ \A m \in Loggers : m # l => logger'[m] = logger[m]
           /\ logger'[l].at = "indexed" /\ logger'[l].event = logger[l].event
           /\ logger'[l].alone = logger[l].alone
<1> DEFINE new == [logger[l] EXCEPT !.at = "indexed", !.base = {}]
<1>1. LogTypeOK /\ logger[l] \in LoggerType /\ Logging(l)
  BY LogTypes DEF LogInv, Logging, LogIndexWritten
<1>2. /\ new \in LoggerType /\ new.at = "indexed" /\ new.of = logger[l].of
      /\ new.event = logger[l].event /\ new.alone = logger[l].alone
  BY <1>1 DEF LoggerType
<1>3. logger' = [logger EXCEPT ![l] = new]
  BY <1>1 DEF LogIndexWritten
<1> HIDE DEF new
<1>4. /\ logger' \in [Loggers -> LoggerType] /\ logger'[l] = new
      /\ \A m \in Loggers : m # l => logger'[m] = logger[m]
  BY <1>1, <1>2, <1>3, LoggerStep
<1>5. index' \in SUBSET Entry
  BY <1>1, IndexedIs DEF LogIndexWritten
<1>6. LogTypeOK'
  BY <1>1, <1>4, <1>5, LogTypes, LogTyped DEF LogIndexWritten
<1>7. Separate'
  <2>1. \A m \in Loggers : logger'[m].of = logger[m].of /\ logger'[m].event = logger[m].event
    BY <1>2, <1>4
  <2>2. \A m \in Loggers : Busy(m) <=> logger'[m].at # "idle"
    BY <1>1, <1>2, <1>4 DEF Busy, Logging
  <2>3. \A m \in Loggers : Logging(m) <=> logger'[m].at \in {"stored", "indexing", "indexed"}
    BY <1>1, <1>2, <1>4 DEF Logging
  <2> QED
    BY <2>1, <2>2, <2>3, SeparateKept DEF LogIndexWritten
<1> QED
  BY <1>2, <1>4, <1>6, <1>7

LEMMA LogFailed ==
    ASSUME LogInv, NEW l \in Loggers, LogFails(l)
    PROVE  LogTypeOK' /\ Separate'
<1>1. LogTypeOK /\ Busy(l)
  BY DEF LogInv, Busy, LogFails
<1>2. /\ Returned(l) \in LoggerType /\ Returned(l).at \in {"idle", "syncing"}
      /\ Returned(l).at = "syncing" => Returned(l).of = logger[l].of
      /\ Returned(l).of \in {0, logger[l].of}
  BY <1>1, ReturnedIs
<1>3. /\ logger' \in [Loggers -> LoggerType] /\ logger'[l] = Returned(l)
      /\ \A m \in Loggers : m # l => logger'[m] = logger[m]
  BY <1>1, <1>2, LoggerStep DEF LogFails
<1>4. LogTypeOK'
  BY <1>1, <1>3, LogTypes, LogTyped DEF LogFails
<1>5. Separate'
  <2>1. \A m \in Loggers :
           /\ logger'[m].of \in {0, logger[m].of}
           /\ logger'[m].at # "idle" => Busy(m) /\ logger'[m].of = logger[m].of
           /\ logger'[m].at \in {"stored", "indexing", "indexed"} =>
                 Logging(m) /\ logger'[m].event = logger[m].event
    BY <1>1, <1>2, <1>3 DEF Busy, Logging
  <2> QED
    BY <2>1, SeparateKept DEF LogFails
<1> QED
  BY <1>4, <1>5

LEMMA LogRestarts ==
    ASSUME LogInv, LogRestart
    PROVE  LogTypeOK' /\ Separate'
<1>1. LogTypeOK /\ 0 \in 0..MaxClock
  BY LogLimits DEF LogInv
<1>2. Idle \in LoggerType /\ NoRead \in ReaderType
  BY <1>1 DEF Idle, NoRead, LoggerType, ReaderType
<1>3. LogTypeOK'
  BY <1>1, <1>2, LogTypes, LogTyped DEF LogRestart
<1>4. Separate'
  BY SeparateKept DEF LogRestart, Idle
<1> QED
  BY <1>3, <1>4

\* A step of a reader.
LEMMA ReadTyped ==
    ASSUME LogInv, NEW r \in Readers,
           ReadStart(r) \/ ReadIndex(r) \/ ReadScan(r) \/ ReadBackfill(r) \/ ReadDone(r)
    PROVE  /\ LogTypeOK' /\ Separate'
           /\ \A s \in Readers : s # r => reader'[s] = reader[s]
<1>1. LogTypeOK /\ reader[r] \in ReaderType
  BY LogTypes DEF LogInv
<1>2. ASSUME NEW new \in ReaderType, reader' = [reader EXCEPT ![r] = new]
      PROVE  reader' \in [Readers -> ReaderType] /\ \A s \in Readers : s # r => reader'[s] = reader[s]
  BY <1>1, <1>2, LogTypes
<1>3. /\ reader' \in [Readers -> ReaderType] /\ \A s \in Readers : s # r => reader'[s] = reader[s]
  <2>1. CASE ReadStart(r)
    <3>1. [at |-> "reading", held |-> progress, found |-> {}, before |-> logged, certain |-> sure]
             \in ReaderType
      BY <1>1, LogTypes DEF ReaderType, LogEvents
    <3> QED
      BY <1>2, <2>1, <3>1 DEF ReadStart
  <2>2. CASE ReadIndex(r)
    <3> DEFINE found == IF index = NoIndex THEN Optional(reader[r].held) ELSE Listed(r)
               new == [reader[r] EXCEPT !.at = "done", !.found = found]
    <3>1. found \in SUBSET Entry
      BY <1>1, LogTypes DEF Optional, Listed, Newest, Durable, ReaderType
    <3>2. new \in ReaderType
      BY <1>1, <3>1 DEF ReaderType
    <3>3. reader' = [reader EXCEPT ![r] = new]
      BY <1>1, <2>2 DEF ReadIndex
    <3> HIDE DEF new
    <3> QED
      BY <1>2, <3>2, <3>3
  <2>3. CASE ReadScan(r)
    <3> DEFINE found == Newest(files \cup Optional(reader[r].held), Shown)
               new == [reader[r] EXCEPT !.at = "scanned", !.found = found]
    <3>1. found \in SUBSET Entry
      BY <1>1, LogTypes DEF Optional, Newest, ReaderType, LogEvents
    <3>2. new \in ReaderType
      BY <1>1, <3>1 DEF ReaderType
    <3>3. reader' = [reader EXCEPT ![r] = new]
      BY <1>1, <2>3 DEF ReadScan
    <3> HIDE DEF new
    <3> QED
      BY <1>2, <3>2, <3>3
  <2>4. CASE ReadBackfill(r)
    <3> DEFINE new == [reader[r] EXCEPT !.at = "done"]
    <3>1. new \in ReaderType
      BY <1>1 DEF ReaderType
    <3>2. reader' = [reader EXCEPT ![r] = new]
      BY <1>1, <2>4 DEF ReadBackfill
    <3> HIDE DEF new
    <3> QED
      BY <1>2, <3>1, <3>2
  <2>5. CASE ReadDone(r)
    <3>1. NoRead \in ReaderType
      BY DEF NoRead, ReaderType
    <3> QED
      BY <1>2, <2>5, <3>1 DEF ReadDone
  <2> QED
    BY <2>1, <2>2, <2>3, <2>4, <2>5
<1>4. /\ UNCHANGED <<clock, files, progress, logged, sure>> /\ logger' \in {logger, Joined}
      /\ index' \in {index, reader[r].found}
  BY DEF ReadStart, ReadIndex, ReadScan, ReadBackfill, ReadDone
<1>5. LogTypeOK'
  <2>1. logger' \in [Loggers -> LoggerType]
    BY <1>1, <1>4, LogTypes, JoinedIs
  <2>2. index' \in (SUBSET Entry) \cup {NoIndex}
    BY <1>1, <1>4, LogTypes DEF ReaderType
  <2> QED
    BY <1>1, <1>3, <1>4, <2>1, <2>2, LogTypes, LogTyped
<1>6. Separate'
  <2>1. \A m \in Loggers : logger'[m].of = logger[m].of /\ logger'[m].event = logger[m].event
                         /\ logger'[m].at = logger[m].at
    BY <1>1, <1>4, JoinedIs
  <2> QED
    BY <1>4, <2>1, SeparateKept DEF Busy, Logging
<1> QED
  BY <1>3, <1>5, <1>6

LEMMA OngoingRead ==
    ASSUME LogInv, NEW r \in Readers,
           ReadStart(r) \/ ReadIndex(r) \/ ReadScan(r) \/ ReadBackfill(r) \/ ReadDone(r)
    PROVE  Ongoing'
<1>1. LogTypeOK /\ Separate /\ Ongoing /\ \A s \in Readers : s # r => reader'[s] = reader[s]
  BY ReadTyped DEF LogInv
<1>2. SUFFICES /\ \A d \in reader'[r].before :
                     reader'[r].held # None /\ d.kind = "end" => d.of # reader'[r].held.of
               /\ \A e \in reader'[r].found : e.kind = "progress" => e = reader'[r].held
  BY <1>1, <1>2 DEF Ongoing
<1>3. CASE ReadStart(r)
  BY <1>1, <1>3, LogTypes DEF ReadStart, Separate
<1>4. CASE ReadIndex(r)
  <2>1. /\ reader'[r].before = reader[r].before /\ reader'[r].held = reader[r].held
        /\ reader'[r].found = IF index = NoIndex THEN Optional(reader[r].held) ELSE Listed(r)
    BY <1>1, <1>4, LogTypes DEF ReadIndex, ReaderType
  <2>2. \A e \in reader'[r].found : e.kind = "progress" => e = reader[r].held
    BY <2>1 DEF Optional, Listed, Newest, Durable
  <2> QED
    BY <1>1, <2>1, <2>2 DEF Ongoing
<1>5. CASE ReadScan(r)
  <2>1. /\ reader'[r].before = reader[r].before /\ reader'[r].held = reader[r].held
        /\ reader'[r].found = Newest(files \cup Optional(reader[r].held), Shown)
    BY <1>1, <1>5, LogTypes DEF ReadScan, ReaderType
  <2>2. \A e \in reader'[r].found : e.kind = "progress" => e = reader[r].held
    BY <1>1, <2>1, LogTypes DEF Optional, Newest, LogEvents
  <2> QED
    BY <1>1, <2>1, <2>2 DEF Ongoing
<1>6. CASE ReadBackfill(r)
  <2>1. /\ reader'[r].before = reader[r].before /\ reader'[r].held = reader[r].held
        /\ reader'[r].found = reader[r].found
    BY <1>1, <1>6, LogTypes DEF ReadBackfill, ReaderType
  <2> QED
    BY <1>1, <2>1 DEF Ongoing
<1>7. CASE ReadDone(r)
  BY <1>1, <1>7, LogTypes DEF ReadDone, NoRead
<1> QED
  BY <1>3, <1>4, <1>5, <1>6, <1>7

\* A step that neither reads nor writes the index for a change of it.
LEMMA IndexesKept ==
    ASSUME LogInv, index' = index, Scanning' => Scanning, Certain' \subseteq Certain,
           \A m \in Loggers : logger'[m].at = "indexing" =>
               /\ logger[m].at = "indexing" /\ logger'[m].base = logger[m].base
               /\ logger'[m].alone => logger[m].alone
    PROVE  Indexes'
<1>1. \A e \in Certain' : index' # NoIndex /\ Covers(Durable(index), e, Kept)'
  BY DEF LogInv, Indexes, Covers, After, Durable
<1>2. \A l \in Loggers, e \in Certain' :
          logger'[l].at = "indexing" => Covers(logger[l].base, e, Kept)'
  BY DEF LogInv, Indexes, Covers, After
<1>3. \A l \in Loggers : logger'[l].at = "indexing" /\ logger'[l].alone =>
          ~Scanning' /\ \A m \in Loggers : logger'[m].at = "indexing" => m = l
  BY DEF LogInv, Indexes
<1>4. Scanning' => Certain' = {}
  BY DEF LogInv, Indexes
<1> QED
  BY <1>1, <1>2, <1>3, <1>4 DEF Indexes

LEMMA CertainKept ==
    ASSUME sure' \subseteq Certain,
           \A m \in Loggers : logger'[m].at = "indexed" /\ logger'[m].alone =>
               /\ logger[m].at = "indexed" /\ logger[m].alone
               /\ logger'[m].event = logger[m].event
    PROVE  Certain' \subseteq Certain
BY DEF Certain

LEMMA CertainIs ==
    ASSUME LogInv
    PROVE  /\ Certain \subseteq Entry /\ sure \subseteq Certain
           /\ Certain # {} => index # NoIndex /\ index \in SUBSET Entry
           /\ \A l \in Loggers : logger[l].at = "indexed" /\ logger[l].alone =>
                 logger[l].event \in Certain
<1>1. \A l \in Loggers : logger[l].at = "indexed" => logger[l].event \in Entry
  BY LogTypes DEF LogInv, Separate, Logging, LogEvents
<1>2. sure \subseteq Entry
  BY LogTypes DEF LogInv, LogEvents
<1>3. Certain # {} => index # NoIndex
  BY DEF LogInv, Indexes
<1>4. Certain # {} => index \in SUBSET Entry
  BY <1>3, LogTypes DEF LogInv
<1> QED
  BY <1>1, <1>2, <1>3, <1>4 DEF Certain

LEMMA IndexesOfLogger ==
    ASSUME LogInv, NEW l \in Loggers,
           \/ SyncStart(l) \/ LogProgress(l) \/ LogDone(l) \/ LogFails(l)
           \/ \E kind \in {"end", "heartbeat"} : LogStored(l, kind)
    PROVE  Indexes'
<1>1. LogTypeOK /\ Returned(l).at \in {"idle", "syncing"}
  BY ReturnedIs DEF LogInv
<1>2. index' = index /\ reader' = reader
  BY DEF SyncStart, LogProgress, LogStored, LogDone, LogFails
<1>3. \A m \in Loggers :
        \/ logger'[m] = logger[m]
        \/ m = l /\ logger'[m].at \in {"idle", "syncing", "stored"}
  <2>1. CASE SyncStart(l)
    BY <1>1, <2>1, LogTypes DEF SyncStart, LoggerType
  <2>2. CASE LogProgress(l)
    BY <2>2 DEF LogProgress
  <2>3. CASE LogDone(l) \/ LogFails(l)
    BY <1>1, <2>3, LogTypes DEF LogDone, LogFails
  <2>4. ASSUME NEW kind \in {"end", "heartbeat"}, LogStored(l, kind)
        PROVE  logger' = [logger EXCEPT ![l].at = "stored",
                                        ![l].event = [t |-> clock', of |-> logger[l].of, kind |-> kind]]
    BY <2>4 DEF LogStored
  <2>5. CASE \E kind \in {"end", "heartbeat"} : LogStored(l, kind)
    BY <1>1, <2>4, <2>5, LogTypes DEF LoggerType
  <2> QED
    BY <2>1, <2>2, <2>3, <2>5
<1>4. sure' \subseteq Certain
  BY CertainIs DEF SyncStart, LogProgress, LogStored, LogDone, LogFails
<1>5. Certain' \subseteq Certain
  BY <1>3, <1>4, CertainKept
<1>6. Scanning' => Scanning
  BY <1>2 DEF Scanning
<1> QED
  BY <1>2, <1>3, <1>5, <1>6, IndexesKept

LEMMA IndexesRestart ==
    ASSUME LogInv, LogRestart
    PROVE  Indexes'
<1>1. Certain' \subseteq Certain
  BY CertainIs, CertainKept DEF LogRestart, Idle
<1>2. ~Scanning'
  BY DEF LogRestart, Scanning, NoRead
<1> QED
  BY <1>1, <1>2, IndexesKept DEF LogRestart, Idle

\* The index is read: it covers what is settled, and a change that was alone no longer is.
LEMMA IndexesRead ==
    ASSUME LogInv, NEW l \in Loggers, LogIndexRead(l)
    PROVE  Indexes'
<1>1. /\ \A m \in Loggers : m # l => logger'[m] = Joined[m]
      /\ logger'[l].at = "indexing" /\ (logger'[l].alone => NobodyIndexing)
      /\ logger'[l].base = IF index = NoIndex THEN {} ELSE Durable(index)
  BY LogReads
<1>2. \A m \in Loggers :
        /\ Joined[m].at = logger[m].at /\ Joined[m].event = logger[m].event
        /\ Joined[m].base = logger[m].base
        /\ Joined[m].alone => logger[m].alone
        /\ Joined[m].at = "indexing" => ~Joined[m].alone
  BY JoinedIs DEF LogInv
<1>3. Certain' \subseteq Certain
  BY <1>1, <1>2, CertainIs, CertainKept DEF LogIndexRead
<1>4. index' = index /\ (Scanning <=> Scanning')
  BY DEF LogIndexRead, Scanning
<1>5. \A e \in Certain : index # NoIndex /\ Covers(Durable(index), e, Kept)
  BY DEF LogInv, Indexes
<1>6. \A m \in Loggers, e \in Certain' :
          logger'[m].at = "indexing" => Covers(logger[m].base, e, Kept)'
  <2>1. SUFFICES ASSUME NEW m \in Loggers, NEW e \in Certain, logger'[m].at = "indexing"
                 PROVE  Covers(logger'[m].base, e, Kept)
    BY <1>3 DEF Covers, After
  <2>2. CASE m = l
    BY <1>1, <1>5, <2>2
  <2>3. CASE m # l
    BY <1>1, <1>2, <2>1, <2>3 DEF LogInv, Indexes
  <2> QED
    BY <2>2, <2>3
<1>7. \A m \in Loggers : logger'[m].at = "indexing" /\ logger'[m].alone =>
          ~Scanning' /\ \A n \in Loggers : logger'[n].at = "indexing" => n = m
  BY <1>1, <1>2, <1>4 DEF NobodyIndexing, Scanning
<1>8. Scanning' => Certain' = {}
  BY <1>3, <1>4 DEF LogInv, Indexes
<1>9. \A e \in Certain' : index' # NoIndex /\ Covers(Durable(index), e, Kept)'
  BY <1>3, <1>4, <1>5 DEF Covers, After, Durable
<1> QED
  BY <1>6, <1>7, <1>8, <1>9 DEF Indexes

\* The index is written: it covers what was settled, and the new event.
LEMMA IndexesWrite ==
    ASSUME LogInv, NEW l \in Loggers, LogIndexWritten(l)
    PROVE  Indexes'
<1>1. /\ \A m \in Loggers : m # l => logger'[m] = logger[m]
      /\ logger'[l].at = "indexed" /\ logger'[l].event = logger[l].event
      /\ logger'[l].alone = logger[l].alone
  BY LogWrites
<1> DEFINE e0 == logger[l].event
           all == logger[l].base \cup {e0}
<1>2. /\ index' = Newest(all, Kept) /\ sure' = sure /\ reader' = reader
      /\ logger[l].at = "indexing"
  BY DEF LogIndexWritten, Indexed
<1>3. /\ e0 \in LogEvents /\ logger[l].base \in SUBSET LogEvents
      /\ index' \in SUBSET LogEvents /\ index' \in SUBSET Entry
  BY <1>2, IndexedIs DEF Logging, Indexed
<1>4. \A e \in Certain' : e \in Certain \/ (e = e0 /\ logger[l].alone)
  BY <1>1, <1>2 DEF Certain
<1>5. all \in SUBSET Entry /\ Certain \subseteq Entry /\ e0 \in Entry
      /\ Durable(index') = index'
  BY <1>3, CertainIs DEF LogEvents, Durable
<1>6. ASSUME NEW e \in Certain' PROVE Covers(index', e, Kept)
  <2>1. e \in Entry /\ Covers(all, e, Kept)
    <3>1. CASE e = e0
      BY <1>5, <3>1 DEF Covers
    <3>2. CASE e \in Certain
      <4>1. Covers(logger[l].base, e, Kept)
        BY <1>2, <3>2 DEF LogInv, Indexes
      <4> QED
        BY <1>5, <3>2, <4>1, CoversMore, LogLimits
    <3> QED
      BY <1>4, <3>1, <3>2
  <2> HIDE DEF all
  <2> QED
    BY <1>2, <1>5, <2>1, NewestCovers, LogLimits
<1>7. \A e \in Certain' : index' # NoIndex /\ Covers(Durable(index), e, Kept)'
  <2>1. index' # NoIndex
    BY <1>3, NoneIsNoEntry DEF NoIndex
  <2> QED
    BY <1>5, <1>6, <2>1 DEF Covers, After, Durable
<1>8. \A m \in Loggers, e \in Certain' :
          logger'[m].at = "indexing" => Covers(logger[m].base, e, Kept)'
  <2>1. SUFFICES ASSUME NEW m \in Loggers, NEW e \in Certain', logger'[m].at = "indexing"
                 PROVE  Covers(logger[m].base, e, Kept) /\ logger'[m] = logger[m]
    BY DEF Covers, After
  <2>2. m # l /\ logger'[m] = logger[m]
    BY <1>1, <2>1
  <2>3. ~logger[l].alone
    BY <1>2, <2>1, <2>2 DEF LogInv, Indexes
  <2> QED
    BY <1>4, <2>1, <2>2, <2>3 DEF LogInv, Indexes
<1>9. \A m \in Loggers : logger'[m].at = "indexing" /\ logger'[m].alone =>
          ~Scanning' /\ \A n \in Loggers : logger'[n].at = "indexing" => n = m
  BY <1>1, <1>2 DEF LogInv, Indexes, Scanning
<1>10. Scanning' => Certain' = {}
  BY <1>2, <1>4 DEF LogInv, Indexes, Scanning
<1> QED
  BY <1>7, <1>8, <1>9, <1>10 DEF Indexes

LEMMA IndexesReader ==
    ASSUME LogInv, NEW r \in Readers,
           ReadStart(r) \/ ReadIndex(r) \/ ReadScan(r) \/ ReadBackfill(r) \/ ReadDone(r)
    PROVE  Indexes'
<1>1. \A s \in Readers : s # r => reader'[s] = reader[s]
  BY ReadTyped
<1>2. CASE ReadStart(r) \/ ReadIndex(r) \/ ReadDone(r)
  <2>1. reader'[r].at # "scanned" /\ index' = index /\ logger' = logger /\ sure' = sure
    BY <1>2, LogTypes DEF ReadStart, ReadIndex, ReadDone, NoRead, LogInv, ReaderType
  <2>2. Scanning' => Scanning
    BY <1>1, <2>1 DEF Scanning
  <2>3. Certain' \subseteq Certain
    BY <2>1 DEF Certain
  <2> QED
    BY <2>1, <2>2, <2>3, IndexesKept
<1>3. CASE ReadScan(r)
  <2>1. index = NoIndex /\ index' = index /\ logger' = Joined /\ sure' = sure
    BY <1>3 DEF ReadScan
  <2>2. Certain = {}
    BY <2>1, CertainIs
  <2>3. \A m \in Loggers :
          /\ Joined[m].at = logger[m].at /\ Joined[m].event = logger[m].event
          /\ Joined[m].alone => logger[m].alone
          /\ Joined[m].at = "indexing" => ~Joined[m].alone
    BY JoinedIs DEF LogInv
  <2>4. Certain' \subseteq Certain
    BY <2>1, <2>3, CertainIs, CertainKept
  <2> QED
    BY <2>1, <2>2, <2>3, <2>4 DEF Indexes
<1>4. CASE ReadBackfill(r)
  <2>1. Certain = {} /\ Scanning /\ logger' = logger /\ sure' = sure
    BY <1>4 DEF LogInv, Indexes, Scanning, ReadBackfill
  <2>2. Certain' = {}
    BY <2>1 DEF Certain
  <2>3. \A l \in Loggers : ~(logger[l].at = "indexing" /\ logger[l].alone)
    BY <2>1 DEF LogInv, Indexes
  <2> QED
    BY <2>1, <2>2, <2>3 DEF Indexes
<1> QED
  BY <1>2, <1>3, <1>4

LEMMA AnswersKept ==
    ASSUME LogInv, reader' = reader, sure \subseteq sure'
    PROVE  Ongoing' /\ Answers'
BY DEF LogInv, Ongoing, Answers, Covers, After

LEMMA AnswersRead ==
    ASSUME LogInv, NEW r \in Readers,
           ReadStart(r) \/ ReadIndex(r) \/ ReadScan(r) \/ ReadBackfill(r) \/ ReadDone(r)
    PROVE  Answers'
<1>1. /\ \A s \in Readers : s # r => reader'[s] = reader[s]
      /\ sure' = sure /\ sure \subseteq Entry /\ reader[r].certain \subseteq sure
      /\ reader \in [Readers -> ReaderType] /\ reader[r] \in ReaderType
  BY ReadTyped, CertainIs, LogTypes
  DEF LogInv, Answers, ReadStart, ReadIndex, ReadScan, ReadBackfill, ReadDone
<1>2. SUFFICES /\ reader'[r].certain \subseteq sure
               /\ reader'[r].at = "done" =>
                     \A e \in reader'[r].certain : Covers(reader'[r].found, e, Shown)
  BY <1>1, <1>2 DEF LogInv, Answers, Covers, After
<1>3. CASE ReadStart(r) \/ ReadScan(r) \/ ReadDone(r)
  BY <1>1, <1>3 DEF ReadStart, ReadScan, ReadDone, NoRead, ReaderType
<1>4. CASE ReadIndex(r)
  <2> DEFINE all == Durable(index) \cup Optional(reader[r].held)
  <2>1. /\ reader'[r].certain = reader[r].certain
        /\ reader'[r].found = IF index = NoIndex THEN Optional(reader[r].held) ELSE Newest(all, Shown)
    BY <1>1, <1>4 DEF ReadIndex, ReaderType, Listed
  <2>2. ASSUME NEW e \in reader[r].certain PROVE Covers(reader'[r].found, e, Shown)
    <3>1. e \in Certain /\ e \in Entry /\ index # NoIndex /\ index \in SUBSET Entry
      BY <1>1, CertainIs
    <3>2. Covers(Durable(index), e, Kept)
      BY <3>1 DEF LogInv, Indexes
    <3>3. all \in SUBSET Entry /\ Durable(index) \in SUBSET all
      BY <1>1, <3>1 DEF Durable, Optional, ReaderType
    <3> HIDE DEF all
    <3>4. Covers(all, e, Shown)
      BY <3>1, <3>2, <3>3, CoversMore, LogLimits
    <3> QED
      BY <2>1, <3>1, <3>3, <3>4, NewestCovers, LogLimits
  <2> QED
    BY <1>1, <2>1, <2>2
<1>5. CASE ReadBackfill(r)
  <2>1. Certain = {}
    BY <1>5 DEF LogInv, Indexes, Scanning, ReadBackfill
  <2>2. reader[r].certain = {}
    BY <1>1, <2>1, CertainIs
  <2> QED
    BY <1>1, <1>5, <2>2 DEF ReadBackfill, ReaderType
<1> QED
  BY <1>3, <1>4, <1>5

LEMMA LogStep ==
    ASSUME LogInv, spare \in 0..MaxEvents, LogNext
    PROVE  LogInv' /\ spare' \in 0..MaxEvents
<1>1. ASSUME NEW l \in Loggers,
             \/ SyncStart(l) \/ LogProgress(l) \/ LogDone(l) \/ LogFails(l)
             \/ \E kind \in {"end", "heartbeat"} : LogStored(l, kind)
             \/ LogIndexRead(l) \/ LogIndexWritten(l)
      PROVE  LogInv'
  <2>1. LogTypeOK' /\ Separate'
    BY <1>1, LogBegins, LogShows, LogStores, LogEnds, LogFailed, LogReads, LogWrites
  <2>2. Indexes'
    BY <1>1, IndexesOfLogger, IndexesRead, IndexesWrite
  <2>3. reader' = reader /\ sure \subseteq sure'
    BY <1>1 DEF SyncStart, LogProgress, LogStored, LogDone, LogFails, LogIndexRead, LogIndexWritten
  <2> QED
    BY <2>1, <2>2, <2>3, AnswersKept DEF LogInv
<1>2. ASSUME NEW r \in Readers,
             ReadStart(r) \/ ReadIndex(r) \/ ReadScan(r) \/ ReadBackfill(r) \/ ReadDone(r)
      PROVE  LogInv'
  BY <1>2, ReadTyped, OngoingRead, IndexesReader, AnswersRead DEF LogInv
<1>3. ASSUME LogRestart PROVE LogInv'
  <2>1. Ongoing' /\ Answers'
    BY <1>3 DEF LogRestart, Ongoing, Answers, NoRead
  <2>2. LogTypeOK' /\ Separate' /\ Indexes'
    BY <1>3, LogRestarts, IndexesRestart
  <2> QED
    BY <2>1, <2>2 DEF LogInv
<1>4. spare' = spare \/ Event
  BY DEF LogNext, SyncStart, LogProgress, LogDone, LogFails, LogStored, LogIndexRead,
         LogIndexWritten, ReadStart, ReadIndex, ReadScan, ReadBackfill, ReadDone, LogRestart
<1>5. spare' \in 0..MaxEvents
  BY <1>4, MaxEventsIsNat DEF Event
<1> QED
  BY <1>1, <1>2, <1>3, <1>5 DEF LogNext

LEMMA LogSafe == LogInv => ProgressEnds /\ LoggedIsListed
<1> SUFFICES ASSUME LogInv PROVE ProgressEnds /\ LoggedIsListed
  OBVIOUS
<1>0. \A r \in Readers : reader[r].found \subseteq Entry
  BY LogTypes DEF LogInv, ReaderType
<1>1. ASSUME NEW r \in Readers, reader[r].at = "done",
             NEW e \in reader[r].found, NEW d \in reader[r].before,
             e.kind = "progress", d.kind = "end"
      PROVE  e.of # d.of
  <2>1. e = reader[r].held /\ e # None
    BY <1>0, <1>1, NoneIsNoEntry DEF LogInv, Ongoing
  <2>2. reader[r].held # None => d.of # e.of
    BY <1>1, <2>1 DEF LogInv, Ongoing
  <2> QED
    BY <1>1, <2>1, <2>2
<1>2. LoggedIsListed
  BY DEF LogInv, Answers, LoggedIsListed, Covers, After
<1> QED
  BY <1>1, <1>2 DEF ProgressEnds

-----------------------------------------------------------------------------
(* The services together. *)

\* A step takes one of the events from outside, or none.
LEMMA ConfSpare ==
    ASSUME spare \in 0..MaxEvents, ConfNext
    PROVE  spare' \in 0..MaxEvents
<1> DEFINE Goal == spare' = spare \/ Event
<1>1. ASSUME NEW c \in Conns, NEW k \in Connection, CreateConnection(c, k) \/ UpdateConnection(c, k)
      PROVE  Goal
  BY <1>1 DEF CreateConnection, UpdateConnection, Update
<1>2. ASSUME NEW c \in Conns, DeleteConnection(c) \/ ProbeLeaves(c) \/ ProbeUpgrades(c)
      PROVE  Goal
  BY <1>2 DEF DeleteConnection, ProbeLeaves, ProbeUpgrades, Update, UpdateOwn
<1>3. ASSUME NEW r \in Rels, NEW c \in Conns, CreateRelationshipCheck(r, c)
      PROVE  Goal
  BY <1>3 DEF CreateRelationshipCheck
<1>4. ASSUME NEW r \in Rels, CreateRelationshipStore(r) \/ DeleteRelationship(r)
      PROVE  Goal
  BY <1>4 DEF CreateRelationshipStore, DeleteRelationship, Update, UpdateOwn
<1>5. ASSUME NEW up \in SUBSET Conns, PingDone(up) PROVE Goal
  BY <1>5 DEF PingDone
<1>6. ASSUME RequestRefused \/ Reload \/ PingStart PROVE Goal
  BY <1>6 DEF RequestRefused, Reload, PingStart, Update
<1>7. Goal
  BY <1>1, <1>2, <1>3, <1>4, <1>5, <1>6
  DEF ConfNext, UserStep, StoreStep, LeaveStep, PingStep
<1> QED
  BY <1>7, MaxEventsIsNat DEF Event

\* The inductive invariants of the services.  The bound on the engine's era counts the
\* events that remain, which are those of the service that runs.
Sound ==
    /\ part \in Parts /\ spare \in 0..MaxEvents
    /\ IF part = "requests" THEN Justified ELSE CredTypeOK /\ RefusalsExplained
    /\ Resolved /\ Owned /\ Honest /\ LogInv /\ UpdInv /\ FlowInv

LEMMA JustifiedSafe == Justified => CredTypeOK /\ RefusalsExplained
<1> SUFFICES ASSUME Justified PROVE CredTypeOK /\ RefusalsExplained
  OBVIOUS
<1>1. ASSUME NEW q \in Reqs, At(q, "refused"), req[q].kind = "retrying", ~NoKey(q)
      PROVE  req[q].excuse
  <2>1. req[q].excuse \in BOOLEAN
    BY <1>1, Going DEF At, Justified, Request
  <2>2. req[q].excuse # FALSE
    BY <1>1 DEF At, Justified, Good, Unexcused
  <2> QED
    BY <2>1, <2>2, ZenonT(30)
<1> QED
  BY <1>1 DEF RefusalsExplained, Justified, Typed

LEMMA SoundStarts == Init => Sound
<1> SUFFICES ASSUME Init PROVE Sound
  OBVIOUS
<1>1. part \in Parts /\ spare \in 0..MaxEvents
  BY BoundAssumption, MaxEventsIsNat DEF Init
<1>2. Resolved /\ Owned /\ Honest
  BY ConfTypeInit, ResolvedInit, MoveTypeInit, OwnedInit, HonestInit
  DEF Init, Resolved, Owned, Honest
<1>3. Justified
  BY <1>1, CredTypeInit DEF Init, CredInit, Justified, Good, Unexcused
<1>4. LogInv /\ FlowInv /\ UpdInv
  BY LogStarts, FlowStart, UpdateStarts, AloneStarts DEF Init, UpdInv
<1> QED
  BY <1>1, <1>2, <1>3, <1>4, JustifiedSafe DEF Sound

LEMMA SoundRefusals == Sound => CredTypeOK /\ RefusalsExplained
BY JustifiedSafe DEF Sound

\* A service that does not run stays as it is.
LEMMA Still ==
    ASSUME Sound, spare' \in 0..MaxEvents
    PROVE  /\ UNCHANGED confVars   => Resolved'
           /\ UNCHANGED credVars   => CredTypeOK' /\ RefusalsExplained'
           /\ UNCHANGED logVars    => LogInv'
           /\ UNCHANGED updateVars => UpdInv'
           /\ UNCHANGED flowVars   => FlowInv'
           /\ UNCHANGED moveOwn    => Owned' /\ Honest'
<1>1. UNCHANGED confVars => Resolved'
  BY DEF Sound, Resolved, Resolves, PendingResolve, ConfTypeOK, confVars, configVars, healthVars
<1>2. UNCHANGED credVars => CredTypeOK' /\ RefusalsExplained'
  BY SoundRefusals DEF CredTypeOK, RefusalsExplained, At, NoKey, credVars
<1>3. UNCHANGED logVars => LogInv'
  <2> SUFFICES ASSUME UNCHANGED logVars PROVE LogInv'
    OBVIOUS
  <2>1. LogTypeOK'
    BY DEF Sound, LogInv, LogTypeOK, logVars
  <2>2. Separate' /\ Ongoing'
    BY DEF Sound, LogInv, Separate, Ongoing, Busy, Logging, logVars
  <2>3. Certain' = Certain /\ (Scanning' <=> Scanning)
    BY DEF Certain, Scanning, logVars
  <2>4. Indexes'
    BY <2>3, IndexesKept DEF Sound, logVars
  <2>5. Answers'
    BY DEF Sound, LogInv, Answers, Covers, After, logVars
  <2> QED
    BY <2>1, <2>2, <2>4, <2>5 DEF LogInv
<1>4. UNCHANGED updateVars => UpdInv'
  BY DEF Sound, UpdInv, UpdTyped, UpdateTypeOK, Backed, In, Told, Genuine, Alone, Careful, Replaces,
         updateVars
<1>5. UNCHANGED flowVars => FlowInv'
  BY DEF Sound, FlowInv, FlowTypeOK, Waits, Young, flowVars, watchVars, listenVars
<1>6. UNCHANGED moveOwn => Owned' /\ Honest'
  <2> SUFFICES ASSUME UNCHANGED moveOwn PROVE Owned' /\ Honest'
    OBVIOUS
  <2>1. MoveTypeOK'
    BY DEF Sound, Owned, MoveTypeOK, moveOwn, storeVars, passVars
  <2>2. AtRest' /\ Settled'
    BY DEF Sound, Owned, AtRest, Settled, moveOwn, storeVars, passVars
  <2>3. Running'
    BY DEF Sound, Owned, Running, RemotePath, moveOwn, storeVars, passVars
  <2>4. RecordsHonest' /\ LinksThere'
    BY DEF Sound, Honest, RecordsHonest, LinksThere, RemotePath, moveOwn, storeVars, passVars
  <2> QED
    BY <2>1, <2>2, <2>3, <2>4 DEF Owned, Honest
<1> QED
  BY <1>1, <1>2, <1>3, <1>4, <1>5, <1>6

LEMMA SoundStep ==
    ASSUME Sound, [Next]_allVars
    PROVE  Sound'
<1>0. /\ part \in Parts /\ spare \in 0..MaxEvents /\ Resolved /\ Owned /\ Honest
      /\ LogInv /\ UpdInv /\ FlowInv /\ (part = "requests" => Justified)
  BY DEF Sound
<1>1. CASE Only("configuration") /\ ConfNext
  <2>1. spare' \in 0..MaxEvents /\ Resolved' /\ part' # "requests" /\ part' \in Parts
    BY <1>0, <1>1, ConfSpare, ResolvedNext DEF Only
  <2> QED
    BY <1>1, <2>1, Still DEF Only, Sound
<1>2. CASE Only("requests") /\ CredNext
  <2>1. Justified' /\ part' = "requests" /\ part \in Parts /\ part' = part
    BY <1>0, <1>2, JustifiedNext DEF Only
  <2>2. spare' \in 0..MaxEvents
    BY <2>1 DEF Justified, Typed, Supply
  <2>3. Resolved' /\ LogInv' /\ UpdInv' /\ FlowInv' /\ Owned' /\ Honest'
    BY <1>2, <2>2, Still DEF Only
  <2> QED
    BY <2>1, <2>2, <2>3 DEF Sound
<1>3. CASE Only("activity") /\ LogNext
  <2>1. LogInv' /\ spare' \in 0..MaxEvents /\ part' # "requests" /\ part' \in Parts
    BY <1>0, <1>3, LogStep DEF Only
  <2> QED
    BY <1>3, <2>1, Still DEF Only, Sound
<1>4. CASE Only("update") /\ UpdateNext
  <2>1. UpdTyped' /\ spare' \in 0..MaxEvents /\ part' # "requests" /\ part' \in Parts
    BY <1>0, <1>4, UpdateNextTyped DEF Only, UpdInv
  <2>2. Told' /\ (~overlapped' => Alone')
    BY <1>0, <1>4, AloneStep, ToldStep DEF UpdInv
  <2> QED
    BY <1>4, <2>1, <2>2, Still DEF Only, Sound, UpdInv
<1>5. CASE Only("events") /\ FlowNext
  <2>1. FlowInv' /\ spare' \in 0..MaxEvents /\ part' # "requests" /\ part' \in Parts
    BY <1>0, <1>5, FlowStep DEF Only
  <2> QED
    BY <1>5, <2>1, Still DEF Only, Sound
<1>6. CASE Only("migration") /\ MoveNext
  <2>1. Owned' /\ Honest' /\ part' # "requests" /\ part' \in Parts
    BY <1>0, <1>6, OwnedNext, HonestNext DEF Only
  <2>2. spare' \in 0..MaxEvents
    BY <2>1 DEF Owned, MoveTypeOK
  <2> QED
    BY <1>6, <2>1, <2>2, Still DEF Only, Sound
<1>7. CASE UNCHANGED allVars
  <2>1. part' = part /\ spare' = spare /\ UNCHANGED <<confVars, credVars, logVars, updateVars, flowVars>>
        /\ UNCHANGED moveVars
    BY <1>7 DEF allVars
  <2>2. UNCHANGED moveOwn
    BY <2>1 DEF moveVars, moveOwn, pastVars
  <2>3. part = "requests" => Justified'
    BY <1>0, <2>1, JustifiedNext
  <2> QED
    BY <1>0, <2>1, <2>2, <2>3, Still DEF Sound
<1> QED
  BY <1>1, <1>2, <1>3, <1>4, <1>5, <1>6, <1>7 DEF Next

-----------------------------------------------------------------------------
(* Theorems. *)

\* Every step of every service keeps the types of all of them.
THEOREM TypeCorrect == Spec => []TypeOK
<1>1. Sound => TypeOK
  BY SoundRefusals DEF Sound, TypeOK, Resolved, Owned, LogInv, UpdInv, UpdTyped, FlowInv
<1> QED
  BY <1>1, SoundStarts, SoundStep, PTL DEF Spec

\* The coalescing task of start_fs_watcher holds a change less than max_wait_ms + debounce_ms
\* after the last event of its path, however the events of other paths keep coming; a path
\* with new events begins anew, and the time in the channels is not counted.
THEOREM QuietPathsWait == Spec => []QuietPathWaits
<1>1. Sound => QuietPathWaits
  BY FlowSafe DEF Sound
<1> QED
  BY <1>1, SoundStarts, SoundStep, PTL DEF Spec

\* update_apply, its download and the relauncher replace the executable only by a whole and
\* newer build that a response announced under a valid signature, through failures,
\* restarts and changes of the release, while applies do not overlap.
THEOREM InstallsAreVerified == Spec => InstalledIsVerified
<1>1. ASSUME Sound, [Next]_allVars
      PROVE  [installed' # installed /\ ~overlapped =>
                 /\ \E b \in vouched : installed' = Whole(b)
                 /\ installed'[1] > installed[1]]_updateVars
  <2>1. CASE Only("update") /\ UpdateNext
    BY <1>1, <2>1, InstallStep DEF Sound, UpdInv
  <2>2. CASE UNCHANGED updateVars
    BY <2>2
  <2> QED
    BY <1>1, <2>1, <2>2 DEF Next, Only, allVars
<1> QED
  BY <1>1, SoundStarts, SoundStep, PTL DEF Spec, InstalledIsVerified

\* get_events never shows a synchronisation that log_event has logged before as still
\* in progress, whatever reads, backfills, failures and restarts come between.
THEOREM EndedIsNotShown == Spec => []ProgressEnds
<1>1. Sound => ProgressEnds
  BY LogSafe DEF Sound
<1> QED
  BY <1>1, SoundStarts, SoundStep, PTL DEF Spec

\* get_events lists what log_event has logged, up to its limit, although the index is
\* read, changed and written without a lock: only overlapping changes lose events.
THEOREM EventsAreListed == Spec => []LoggedIsListed
<1>1. Sound => LoggedIsListed
  BY LogSafe DEF Sound
<1> QED
  BY <1>1, SoundStarts, SoundStep, PTL DEF Spec

\* update_relationship among the other services: of a root that the user has left,
\* the passes delete nothing remotely, as long as the marker tells every change of it.
THEOREM MigrationDeletesOnlyItsOwn == Spec => DeletesAreOfThisRoot
<1>1. ASSUME Sound, [Next]_allVars, at = "delete",
             NEW p \in Path, remote[p] # None, remote'[p] = None
      PROVE  exposed \/ p \in confirmed
  <2>1. CASE Only("migration") /\ MoveNext
    <3>1. p \in todo
      BY <1>1, <2>1, DeletesFromTheList DEF Sound, Owned
    <3> QED
      BY <1>1, <3>1 DEF Sound, Owned, Running
  <2>2. CASE UNCHANGED remote
    BY <1>1, <2>2
  <2> QED
    BY <1>1, <2>1, <2>2 DEF Next, Only, allVars, moveOwn, moveVars, storeVars
<1>2. Sound /\ [Next]_allVars =>
        [\A p \in Path : remote[p] # None /\ remote'[p] = None /\ at = "delete"
            => exposed \/ p \in confirmed]_moveVars
  BY <1>1
<1> QED
  BY <1>2, SoundStarts, SoundStep, PTL DEF Spec, DeletesAreOfThisRoot

\* What is proved of each of the other services alone holds of them together: the
\* managers, the clients of an engine and the migration of paths.
THEOREM OtherServicesKeepTheirInvariants ==
    Spec => [](RelationshipsResolve /\ RefusalsExplained /\ RecordsHonest)
<1>1. Sound => RelationshipsResolve /\ RefusalsExplained /\ RecordsHonest
  BY SoundRefusals DEF Sound, Resolved, Resolves, RelationshipsResolve, Honest
<1> QED
  BY <1>1, SoundStarts, SoundStep, PTL DEF Spec
=============================================================================
