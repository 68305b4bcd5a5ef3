---------------------------- MODULE ActivityLog ----------------------------
(***************************************************************************)
(* The activity log of one relationship.  The end of a synchronisation,    *)
(* and a heartbeat of its scan, is stored as a file of its own and added   *)
(* to an index of the latest events, which is read, changed and written    *)
(* without a lock; progress is kept in memory only.  A read takes the      *)
(* index, or scans the files and stores the index if there is none.        *)
(* Loops, handlers and reads interleave at every access to the state       *)
(* database.                                                               *)
(***************************************************************************)
EXTENDS OutsideEvents, FiniteSets

CONSTANTS
    Loggers,    \* the loop of the relationship and the handlers that synchronise it
    Readers,    \* requests for its events
    Shown,      \* the limit that get_events is called with (50)
    Kept,       \* LATEST_EVENTS_LIMIT (100)
    MaxClock    \* bound: synchronisations and activity events in one behaviour

ASSUME LimitsAssumption == /\ {Shown, Kept, MaxClock} \subseteq Nat \ {0}
                           /\ Shown <= Kept

\* A SyncEvent: its timestamp, its synchronisation and its kind.
Entry == [t : 0..MaxClock, of : 0..MaxClock, kind : {"end", "heartbeat", "progress"}]

ASSUME NoneIsNoEntry == None \notin Entry

\* There is no latest-events.json: no list of events.
NoIndex == {None}

VARIABLES
    clock,      \* timestamps given out so far
    files,      \* the events stored as files
    index,      \* latest-events.json, or NoIndex
    progress,   \* latest_progress: an event in memory, or None
    logger,     \* Loggers -> what it is doing
    reader,     \* Readers -> what it is doing
    logged,     \* history: events whose log_event has returned Ok
    sure        \* history: those whose change of the index overlapped no other

logVars == <<clock, files, index, progress, logger, reader, logged, sure>>

Idle   == [at |-> "idle", of |-> 0, event |-> None, base |-> {}, alone |-> TRUE]
NoRead == [at |-> "idle", held |-> None, found |-> {}, before |-> {}, certain |-> {}]

LogTypeOK ==
    /\ clock \in 0..MaxClock
    /\ files \subseteq {e \in Entry : e.kind # "progress"}
    /\ index \in (SUBSET Entry) \cup {NoIndex}
    /\ progress \in {e \in Entry : e.kind = "progress"} \cup {None}
    /\ logger \in [Loggers -> [at : {"idle", "syncing", "stored", "indexing", "indexed"},
                               of : 0..MaxClock, event : Entry \cup {None},
                               base : SUBSET {e \in Entry : e.kind # "progress"}, alone : BOOLEAN]]
    /\ reader \in [Readers -> [at : {"idle", "reading", "scanned", "done"},
                               held : Entry \cup {None}, found : SUBSET Entry,
                               before : SUBSET Entry, certain : SUBSET Entry]]
    /\ logged \subseteq files /\ sure \subseteq logged

\* The log of an earlier version may hold files and no index.
LogInit ==
    /\ clock = 0
    /\ files \in {{}, {[t |-> 0, of |-> 0, kind |-> "end"]}}
    /\ index = NoIndex
    /\ progress = None
    /\ logger = [l \in Loggers |-> Idle]
    /\ reader = [r \in Readers |-> NoRead]
    /\ logged = {} /\ sure = {}

Tick == clock < MaxClock /\ clock' = clock + 1

-----------------------------------------------------------------------------
(* Helpers on lists of events. *)

Durable(S) == {e \in S : e.kind # "progress"}

\* sort_dedupe_truncate: newest first, cut after n.
Newest(S, n) == {e \in S : Cardinality({d \in S : d.t > e.t}) < n}

Optional(e) == IF e = None THEN {} ELSE {e}

-----------------------------------------------------------------------------
(* log_event, called by a synchronisation while it runs and at its end. *)

\* The changes of the index that are under way when another one begins.
Joined == [l \in Loggers |-> IF logger[l].at = "indexing"
                             THEN [logger[l] EXCEPT !.alone = FALSE] ELSE logger[l]]

NobodyIndexing == /\ \A l \in Loggers : logger[l].at # "indexing"
                  /\ \A r \in Readers : reader[r].at # "scanned"

SyncStart(l) ==
    /\ logger[l].at = "idle"
    /\ Tick
    /\ logger' = [logger EXCEPT ![l].at = "syncing", ![l].of = clock']
    /\ UNCHANGED <<files, index, progress, reader, logged, sure, spare>>

LogProgress(l) ==
    /\ logger[l].at = "syncing"
    /\ Tick
    /\ progress' = [t |-> clock', of |-> logger[l].of, kind |-> "progress"]
    /\ UNCHANGED <<files, index, logger, reader, logged, sure, spare>>

LogStored(l, kind) ==
    /\ logger[l].at = "syncing"
    /\ Tick
    /\ LET e == [t |-> clock', of |-> logger[l].of, kind |-> kind] IN
        /\ files' = files \cup {e}
        /\ logger' = [logger EXCEPT ![l].at = "stored", ![l].event = e]
    /\ UNCHANGED <<index, progress, reader, logged, sure, spare>>

\* update_latest_events_index reads the index; nothing is an empty one.
LogIndexRead(l) ==
    /\ logger[l].at = "stored"
    /\ logger' = [Joined EXCEPT ![l].at = "indexing",
                                ![l].base = IF index = NoIndex THEN {} ELSE Durable(index),
                                ![l].alone = NobodyIndexing]
    /\ UNCHANGED <<clock, files, index, progress, reader, logged, sure, spare>>

\* Mutant of Indexed: the index is made of the new event alone.
IndexedAlone(l) == {logger[l].event}

\* The index with the event of l, made of the index that l has read.
Indexed(l) == Newest(logger[l].base \cup {logger[l].event}, Kept)

LogIndexWritten(l) ==
    /\ logger[l].at = "indexing"
    /\ index' = Indexed(l)
    /\ logger' = [logger EXCEPT ![l].at = "indexed", ![l].base = {}]
    /\ UNCHANGED <<clock, files, progress, reader, logged, sure, spare>>

\* The call is over: the synchronisation has ended, or goes on after a heartbeat.
Returned(l) ==
    IF logger[l].event # None /\ logger[l].event.kind = "heartbeat"
    THEN [Idle EXCEPT !.at = "syncing", !.of = logger[l].of]
    ELSE Idle

\* The progress of the relationship goes, whose ever it is.
LogDone(l) ==
    /\ logger[l].at = "indexed"
    /\ progress' = None
    /\ logged' = logged \cup {logger[l].event}
    /\ sure' = IF logger[l].alone THEN sure \cup {logger[l].event} ELSE sure
    /\ logger' = [logger EXCEPT ![l] = Returned(l)]
    /\ UNCHANGED <<clock, files, index, reader, spare>>

\* An access to the state database fails: log_event returns at once.
LogFails(l) ==
    /\ logger[l].at \in {"syncing", "stored", "indexing"}
    /\ Event
    /\ logger' = [logger EXCEPT ![l] = Returned(l)]
    /\ UNCHANGED <<clock, files, index, progress, reader, logged, sure>>

\* The process ends and starts again: what is in memory is gone.
LogRestart ==
    /\ Event
    /\ progress' = None
    /\ logger' = [l \in Loggers |-> Idle]
    /\ reader' = [r \in Readers |-> NoRead]
    /\ UNCHANGED <<clock, files, index, logged, sure>>

-----------------------------------------------------------------------------
(* get_events. *)

ReadStart(r) ==
    /\ reader[r].at = "idle"
    /\ reader' = [reader EXCEPT ![r] = [at |-> "reading", held |-> progress, found |-> {},
                                        before |-> logged, certain |-> sure]]
    /\ UNCHANGED <<clock, files, index, progress, logger, logged, sure, spare>>

\* Mutant of Listed: progress that the index holds is listed.
ListedRaw(r) == Newest(index \cup Optional(reader[r].held), Shown)

Listed(r) == Newest(Durable(index) \cup Optional(reader[r].held), Shown)

\* The index, or without any file just the progress.
ReadIndex(r) ==
    /\ reader[r].at = "reading"
    /\ index # NoIndex \/ files = {}
    /\ reader' = [reader EXCEPT ![r].at = "done",
                                ![r].found = IF index = NoIndex THEN Optional(reader[r].held)
                                             ELSE Listed(r)]
    /\ UNCHANGED <<clock, files, index, progress, logger, logged, sure, spare>>

ReadScan(r) ==
    /\ reader[r].at = "reading"
    /\ index = NoIndex /\ files # {}
    /\ reader' = [reader EXCEPT ![r].at = "scanned",
                                ![r].found = Newest(files \cup Optional(reader[r].held), Shown)]
    /\ logger' = Joined
    /\ UNCHANGED <<clock, files, index, progress, logged, sure, spare>>

\* The result of the scan becomes the index, progress included; a failure to
\* store it is ignored.
ReadBackfill(r) ==
    /\ reader[r].at = "scanned"
    /\ reader' = [reader EXCEPT ![r].at = "done"]
    /\ \/ index' = reader[r].found /\ UNCHANGED spare
       \/ UNCHANGED index /\ Event
    /\ UNCHANGED <<clock, files, progress, logger, logged, sure>>

ReadDone(r) ==
    /\ reader[r].at = "done"
    /\ reader' = [reader EXCEPT ![r] = NoRead]
    /\ UNCHANGED <<clock, files, index, progress, logger, logged, sure, spare>>

-----------------------------------------------------------------------------
LogNext ==
    \/ \E l \in Loggers :
        \/ SyncStart(l) \/ LogProgress(l)
        \/ \E kind \in {"end", "heartbeat"} : LogStored(l, kind)
        \/ LogIndexRead(l) \/ LogIndexWritten(l) \/ LogDone(l) \/ LogFails(l)
    \/ \E r \in Readers :
        ReadStart(r) \/ ReadIndex(r) \/ ReadScan(r) \/ ReadBackfill(r) \/ ReadDone(r)
    \/ LogRestart

-----------------------------------------------------------------------------
(* Properties. *)

\* A request for the events of a relationship that begins after a synchronisation
\* was logged never shows that synchronisation as still in progress, although a
\* racing backfill may have stored its progress in the index.
ProgressEnds ==
    \A r \in Readers : reader[r].at = "done" =>
        \A e \in reader[r].found, d \in reader[r].before :
            e.kind = "progress" /\ d.kind = "end" => e.of # d.of

\* An event that was logged before a request began is in its answer, or the answer
\* is full of newer ones; only events whose change of the index overlapped
\* another change of it may be missing.
LoggedIsListed ==
    \A r \in Readers : reader[r].at = "done" =>
        \A e \in reader[r].certain \ reader[r].found :
            Cardinality({d \in reader[r].found : d.t > e.t}) >= Shown
=============================================================================
