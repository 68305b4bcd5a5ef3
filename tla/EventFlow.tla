----------------------------- MODULE EventFlow -----------------------------
(***************************************************************************)
(* What wakes the loop of a relationship between its timers.  The          *)
(* filesystem watcher gathers the changes of each path and passes on the   *)
(* last kind once the folder has been quiet for a while, or some path has  *)
(* waited for long; the channel to the loop is bounded, and the loop does  *)
(* not read it while it synchronises.  The SSE listener keeps a connection *)
(* to the engine open and passes on the changes that it announces.         *)
(*                                                                         *)
(* Time is counted in ticks; the watcher's task runs promptly, that is,    *)
(* no tick passes while it has something to do.  The operating system's    *)
(* notifications and the engine are external.  raw is the channel from the *)
(* notification callback with the system's queue behind it, unbounded      *)
(* here; kinds are those the watcher makes of them, and a file that is     *)
(* renamed away arrives as Modified.                                       *)
(***************************************************************************)
EXTENDS OutsideEvents, Sequences, FiniteSets

CONSTANTS
    Watched,    \* paths in the folder
    Debounce,   \* debounce_ms, in ticks
    MaxWait,    \* max_wait_ms, in ticks
    OutSize,    \* capacity of the channels to the loop (256)
    Slowest     \* bound: doublings of the listener's backoff up to its maximum

ASSUME FlowAssumption ==
    /\ {Debounce, MaxWait, OutSize} \subseteq Nat \ {0}
    /\ Slowest \in Nat

Kinds  == {"Created", "Modified", "Deleted"}
Change == [path : Watched, kind : Kinds]

VARIABLES
    raw,        \* events of the operating system that the watcher has not received
    pending,    \* path -> the kind of its last event and its age in ticks, or None
    timer,      \* ticks since the watcher began to wait
    draining,   \* path -> a kind that is being sent, or None
    out,        \* the channel to the loop
    busy,       \* the loop synchronises
    folder,     \* the paths that are directories
    latest,     \* history: path -> the kind of its last change, or None
    got,        \* history: path -> the kind that the loop received last, or None
    sse,        \* the listener: "connecting", "open", "waiting" or "ended"
    backoff,    \* doublings of its delay
    heard       \* the channel of the listener to the loop: announcements in it

watchVars  == <<raw, pending, timer, draining, folder, latest>>
listenVars == <<sse, backoff, heard>>
flowVars   == <<watchVars, out, busy, got, listenVars>>

NoPaths == [p \in Watched |-> None]

FlowTypeOK ==
    /\ raw \in Seq(Change)
    /\ pending \in [Watched -> [kind : Kinds, age : Nat] \cup {None}]
    /\ timer \in 0..Debounce
    /\ draining \in [Watched -> Kinds \cup {None}]
    /\ out \in Seq(Change) /\ Len(out) <= OutSize
    /\ busy \in BOOLEAN
    /\ folder \subseteq Watched
    /\ {latest, got} \subseteq [Watched -> Kinds \cup {None}]
    /\ sse \in {"connecting", "open", "waiting", "ended"}
    /\ backoff \in 0..Slowest
    /\ heard \in 0..OutSize

FlowInit ==
    /\ raw = <<>> /\ pending = NoPaths /\ timer = 0 /\ draining = NoPaths
    /\ out = <<>> /\ busy = FALSE
    /\ folder = {} /\ latest = NoPaths /\ got = NoPaths
    /\ sse \in {"connecting", "open"} /\ backoff = 0 /\ heard = 0

-----------------------------------------------------------------------------
(* The folder. *)

\* A file changes, or a directory takes its name, or gives it back.
Changes(p, k, dirs) ==
    /\ Event
    /\ \/ p \notin folder /\ dirs = folder
       \/ p \notin folder /\ latest[p] \in {None, "Deleted"} /\ k = "Created" /\ dirs = folder \cup {p}
       \/ p \in folder /\ k = "Deleted" /\ dirs = folder \ {p}
    /\ folder' = dirs
    /\ raw' = Append(raw, [path |-> p, kind |-> k])
    /\ latest' = [latest EXCEPT ![p] = k]
    /\ UNCHANGED <<pending, timer, draining, out, busy, got, listenVars>>

-----------------------------------------------------------------------------
(* The coalescing task of start_fs_watcher. *)

Ages(m) == {m[p].age : p \in {q \in Watched : m[q] # None}}

\* Mutant of FlushDue: the longest wait is not looked at.
FlushDueQuiet(m) == Ages(m) # {} /\ \A a \in Ages(m) : a >= Debounce

\* debounce_expired || max_wait_hit
FlushDue(m) ==
    /\ Ages(m) # {}
    /\ \/ \A a \in Ages(m) : a >= Debounce
       \/ \E a \in Ages(m) : a >= MaxWait

\* Mutant of Gathered: the first kind of a path stays.
GatheredFirst(c) ==
    [pending EXCEPT ![c.path] = IF @ = None THEN [kind |-> c.kind, age |-> 0]
                                ELSE [@ EXCEPT !.age = 0]]

\* The path's entry is replaced, its time included.
Gathered(c) == [pending EXCEPT ![c.path] = [kind |-> c.kind, age |-> 0]]

\* The end of a turn: everything pending is taken out to be sent, or waits.
Turn(m) ==
    /\ timer' = 0
    /\ IF FlushDue(m)
       THEN /\ pending' = NoPaths
            /\ draining' = [p \in Watched |-> IF m[p] = None THEN None ELSE m[p].kind]
       ELSE pending' = m /\ UNCHANGED draining

\* An event arrives; directories are skipped.
WatchReceive ==
    /\ raw # <<>> /\ draining = NoPaths
    /\ raw' = Tail(raw)
    /\ Turn(IF Head(raw).path \in folder THEN pending ELSE Gathered(Head(raw)))
    /\ UNCHANGED <<out, busy, folder, latest, got, listenVars, spare>>

WatchTimeout ==
    /\ raw = <<>> /\ draining = NoPaths
    /\ pending # NoPaths /\ timer = Debounce
    /\ Turn(pending)
    /\ UNCHANGED <<raw, out, busy, folder, latest, got, listenVars, spare>>

\* Mutant of WatchSend: the channel has no bound.
WatchSendUnbounded(p) ==
    /\ draining[p] # None
    /\ out' = Append(out, [path |-> p, kind |-> draining[p]])
    /\ draining' = [draining EXCEPT ![p] = None]
    /\ UNCHANGED <<raw, pending, timer, busy, folder, latest, got, listenVars, spare>>

\* output_sender.send waits for room.
WatchSend(p) ==
    /\ draining[p] # None
    /\ Len(out) < OutSize
    /\ out' = Append(out, [path |-> p, kind |-> draining[p]])
    /\ draining' = [draining EXCEPT ![p] = None]
    /\ UNCHANGED <<raw, pending, timer, busy, folder, latest, got, listenVars, spare>>

\* A tick, when the task has nothing to do but wait.
TimePasses ==
    /\ \/ /\ draining = NoPaths /\ raw = <<>>
          /\ pending # NoPaths /\ timer < Debounce
          /\ timer' = timer + 1
       \/ draining # NoPaths /\ Len(out) = OutSize /\ UNCHANGED timer
    /\ pending' = [p \in Watched |-> IF pending[p] = None THEN None
                                     ELSE [pending[p] EXCEPT !.age = @ + 1]]
    /\ UNCHANGED <<raw, draining, out, busy, folder, latest, got, listenVars, spare>>

-----------------------------------------------------------------------------
(* The loop of the relationship. *)

\* A local change: filtered, or a push follows.
LoopTakesChange ==
    /\ ~busy /\ out # <<>>
    /\ out' = Tail(out)
    /\ got' = [got EXCEPT ![Head(out).path] = Head(out).kind]
    /\ busy' \in BOOLEAN
    /\ UNCHANGED <<watchVars, listenVars, spare>>

\* A remote change: a pull follows.
LoopTakesAnnouncement ==
    /\ ~busy /\ heard > 0
    /\ heard' = heard - 1
    /\ busy' = TRUE
    /\ UNCHANGED <<watchVars, out, got, sse, backoff, spare>>

LoopSynced ==
    /\ busy
    /\ busy' = FALSE
    /\ UNCHANGED <<watchVars, out, got, listenVars, spare>>

-----------------------------------------------------------------------------
(* sse_listener_loop and connect_and_listen. *)

SseConnects ==
    /\ sse = "connecting"
    /\ sse' = "open"
    /\ UNCHANGED <<watchVars, out, busy, got, backoff, heard, spare>>

\* The connection fails or is refused, or the stream breaks.
SseFails ==
    /\ sse \in {"connecting", "open"}
    /\ Event
    /\ sse' = "waiting"
    /\ UNCHANGED <<watchVars, out, busy, got, backoff, heard>>

\* Mutant of SseCloses: a stream that ends cleanly ends the listener.
SseClosesForGood ==
    /\ sse = "open"
    /\ Event
    /\ sse' = "ended"
    /\ UNCHANGED <<watchVars, out, busy, got, backoff, heard>>

\* The engine closes the stream.
SseCloses ==
    /\ sse = "open"
    /\ Event
    /\ sse' = "waiting"
    /\ backoff' = 0
    /\ UNCHANGED <<watchVars, out, busy, got, heard>>

SseWaits ==
    /\ sse = "waiting"
    /\ sse' = "connecting"
    /\ backoff' = IF backoff < Slowest THEN backoff + 1 ELSE backoff
    /\ UNCHANGED <<watchVars, out, busy, got, heard, spare>>

\* A message with a change under the relationship's path; the send waits for room.
SseAnnounces ==
    /\ sse = "open"
    /\ Event
    /\ heard < OutSize
    /\ heard' = heard + 1
    /\ UNCHANGED <<watchVars, out, busy, got, sse, backoff>>

-----------------------------------------------------------------------------
WatchStep  == WatchReceive \/ WatchTimeout \/ TimePasses \/ \E p \in Watched : WatchSend(p)
LoopStep   == LoopTakesChange \/ LoopTakesAnnouncement \/ LoopSynced
ListenStep == SseConnects \/ SseWaits

FlowNext ==
    \/ \E p \in Watched, k \in Kinds, dirs \in SUBSET Watched : Changes(p, k, dirs)
    \/ WatchStep \/ LoopStep \/ ListenStep
    \/ SseFails \/ SseCloses \/ SseAnnounces

-----------------------------------------------------------------------------
(* Properties. *)

\* The coalescing map holds no path for MaxWait + Debounce after the path's last event, however
\* the other paths go on changing: their events do not put it off.  A path that goes on
\* changing itself starts anew with every event and is bounded by nothing, nor is the time
\* before the watcher receives an event, or in a flush that a full channel holds up.
QuietPathWaits ==
    \A p \in Watched : pending[p] # None => pending[p].age < MaxWait + Debounce

\* The loop learns in the end what last happened to every file: a path that was
\* deleted after it was written is not left as modified, also when its events
\* fall into different flushes or the channel is full.
LatestKindDelivered ==
    <>[](\A p \in Watched \ folder : got[p] = latest[p])

\* The listener is connected in the end, whatever streams and connections failed.
ListenerReturns == <>[](sse = "open")
=============================================================================
