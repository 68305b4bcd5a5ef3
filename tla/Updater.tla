------------------------------ MODULE Updater ------------------------------
(***************************************************************************)
(* The self-update.  A poll of the release server stores an offer, which   *)
(* is available only if its manifest is signed, names the announced        *)
(* version and is newer than this build.  An apply downloads the artifact  *)
(* to one fixed name beside the executable, checks its sum against the     *)
(* manifest, starts a script that waits for the process to end and then    *)
(* moves the artifact over the executable and starts it.  Whatever the     *)
(* result of the apply, the process exits soon afterwards.  Nothing keeps  *)
(* two applies from running at the same time.                              *)
(*                                                                         *)
(* A build is a number; a file is what each of its blocks holds.  The      *)
(* release server and the shell are external.                              *)
(***************************************************************************)
EXTENDS OutsideEvents, FiniteSets

CONSTANTS
    Appliers,   \* requests to apply an update
    Latest,     \* bound: the builds are 0..Latest
    Blocks,     \* bound: blocks of an artifact
    MaxScripts  \* bound: scripts at a time

ASSUME UpdaterAssumption == Latest \in Nat /\ Blocks \in Nat \ {0} /\ MaxScripts \in Nat

Builds == 0..Latest
\* Block i of a file: the build whose block it is, or None for a hole or the end.
File   == [1..Blocks -> Builds \cup {None}]
Whole(b)  == [i \in 1..Blocks |-> b]
Empty     == [i \in 1..Blocks |-> None]

ASSUME NoneIsNoBuild == None \notin Builds \cup File

\* What the version endpoint answers: the announced version, the version in the
\* envelope, and whether the envelope carries a valid signature of a trusted key.
Response == [announced : Builds, envelope : Builds, signed : BOOLEAN]
\* An apply: the version it installs, the blocks written so far, which file the one
\* it writes to has become, and where it is.
Apply == [version : Builds, written : 0..Blocks, file : {"staged", "installed", "gone"},
             at : {"asked", "downloading", "downloaded", "verified", "ok", "failed"}]

VARIABLES
    running,    \* the build that runs, or None while the process is down
    installed,  \* the executable: a file
    staged,     \* aeordb-client.new: a file or None
    offer,      \* update_info: the last response that was stored, or None
    apply,      \* Appliers -> the apply or None
    waiting,    \* relauncher scripts that wait for this process to end
    due,        \* scripts whose process has ended
    overlapped, \* history: an apply began before an earlier one was over, or in a
                \* process whose executable has been replaced
    applied,    \* history: the build that was applied last, or None
    vouched     \* history: the builds that a response announced under a valid signature

updateVars == <<running, installed, staged, offer, apply, waiting, due, overlapped, applied,
                vouched>>

NoApplies == [a \in Appliers |-> None]

UpdateTypeOK ==
    /\ running \in Builds \cup {None}
    /\ installed \in File
    /\ staged \in File \cup {None}
    /\ offer \in Response \cup {None}
    /\ apply \in [Appliers -> Apply \cup {None}]
    /\ {waiting, due} \subseteq 0..MaxScripts
    /\ overlapped \in BOOLEAN
    /\ applied \in Builds \cup {None}
    /\ vouched \subseteq Builds

UpdateInit ==
    /\ running = 0 /\ installed = Whole(0) /\ staged = None
    /\ offer = None /\ apply = NoApplies /\ waiting = 0 /\ due = 0
    /\ overlapped = FALSE /\ applied = None /\ vouched = {}

\* Mutant of Genuine: the signature is not looked at.
GenuineUnsigned(o) == o.envelope = o.announced

\* verify_manifest_signature.
Genuine(o) == o.signed /\ o.envelope = o.announced

\* The history of signatures, apart from what the code makes of them.
VouchedBy(o) == IF o # None /\ o.signed /\ o.announced = o.envelope THEN {o.envelope} ELSE {}

\* check_inner: available, with is_newer.
Available(o) == o # None /\ Genuine(o) /\ o.announced > running

-----------------------------------------------------------------------------
(* Polls and applies. *)

\* check_once, at startup and on request: what the server answers is stored; an
\* error, a 404 or a 503 replaces the offer by nothing.
Check(o) ==
    /\ running # None
    /\ Event
    /\ offer' = o
    /\ vouched' = vouched \cup VouchedBy(o)
    /\ UNCHANGED <<running, installed, staged, apply, waiting, due, overlapped, applied>>

\* update_apply: refused unless the offer is available.
Ask(a) ==
    /\ running # None
    /\ Available(offer)
    /\ apply[a] = None
    /\ apply' = [apply EXCEPT ![a] = [version |-> offer.envelope, written |-> 0,
                                      file |-> "staged", at |-> "asked"]]
    /\ overlapped' = \/ overlapped
                     \/ apply # NoApplies
                     \/ waiting + due > 0
                     \/ installed # Whole(running)
    /\ UNCHANGED <<running, installed, staged, offer, waiting, due, applied, vouched, spare>>

In(a, step) == apply[a] # None /\ apply[a].at = step

\* download_to: the answer has come and the staged file is created or truncated.
DownloadStart(a) ==
    /\ In(a, "asked")
    /\ staged' = Empty
    /\ apply' = [apply EXCEPT ![a].at = "downloading"]
    /\ UNCHANGED <<running, installed, offer, waiting, due, overlapped, applied, vouched, spare>>

\* The next block, of the build asked for, or of another one that the server has
\* meanwhile put under the same name.
DownloadBlock(a) ==
    /\ In(a, "downloading")
    /\ apply[a].written < Blocks
    /\ \E b \in Builds :
        /\ \/ b = apply[a].version /\ UNCHANGED spare
           \/ b # apply[a].version /\ Event
        /\ staged' = IF apply[a].file = "staged"
                     THEN [staged EXCEPT ![apply[a].written + 1] = b] ELSE staged
        /\ installed' = IF apply[a].file = "installed"
                        THEN [installed EXCEPT ![apply[a].written + 1] = b] ELSE installed
    /\ apply' = [apply EXCEPT ![a].written = @ + 1]
    /\ UNCHANGED <<running, offer, waiting, due, overlapped, applied, vouched>>

DownloadEnd(a) ==
    /\ In(a, "downloading")
    /\ apply[a].written = Blocks
    /\ apply' = [apply EXCEPT ![a].at = "downloaded"]
    /\ UNCHANGED <<running, installed, staged, offer, waiting, due, overlapped, applied, vouched,
                   spare>>

\* verify_sha256, with the sum in the envelope.
SumMatches(a) == staged = Whole(apply[a].version)

Verify(a) ==
    /\ In(a, "downloaded")
    /\ apply' = [apply EXCEPT ![a].at = IF SumMatches(a) THEN "verified" ELSE "failed"]
    /\ UNCHANGED <<running, installed, staged, offer, waiting, due, overlapped, applied, vouched,
                   spare>>

\* spawn_relauncher, the last step that may fail.
Spawn(a) ==
    /\ In(a, "verified")
    /\ waiting + due < MaxScripts
    /\ waiting' = waiting + 1
    /\ apply' = [apply EXCEPT ![a].at = "ok"]
    /\ applied' = apply[a].version
    /\ UNCHANGED <<running, installed, staged, offer, due, overlapped, vouched, spare>>

ApplyFails(a) ==
    /\ In(a, "asked") \/ In(a, "downloading") \/ In(a, "verified")
    /\ Event
    /\ apply' = [apply EXCEPT ![a].at = "failed"]
    /\ UNCHANGED <<running, installed, staged, offer, waiting, due, overlapped, applied, vouched>>

-----------------------------------------------------------------------------
(* The process and the script. *)

\* The process is over: its applies are gone, its scripts notice.
Ended ==
    /\ offer' = None
    /\ apply' = NoApplies
    /\ waiting' = 0

\* Mutant of Exit: only a failed apply ends the process.
ExitFailed(a) ==
    /\ In(a, "failed")
    /\ Ended
    /\ running' = None /\ due' = due + waiting
    /\ UNCHANGED <<installed, staged, overlapped, applied, vouched, spare>>

\* The end of the task that update_apply spawns: 500 ms after the apply has
\* returned, well or not, the process exits.
Exit(a) ==
    /\ In(a, "ok") \/ In(a, "failed")
    /\ Ended
    /\ running' = None /\ due' = due + waiting
    /\ UNCHANGED <<installed, staged, overlapped, applied, vouched, spare>>

\* The user quits the client, or it crashes.
Quit ==
    /\ running # None
    /\ Event
    /\ Ended
    /\ running' = None /\ due' = due + waiting
    /\ UNCHANGED <<installed, staged, overlapped, applied, vouched>>

\* A complete executable starts, and takes the lock over from an instance that
\* still runs.  A broken one does not start, nor one that does not get the lock in
\* time; the applies go on as in rest.
StartOf(file, rest) ==
    \/ /\ \E b \in Builds : file = Whole(b)
       /\ running' = file[1]
       /\ Ended
    \/ /\ running # None \/ \A b \in Builds : file # Whole(b)
       /\ apply' = rest
       /\ UNCHANGED <<running, offer, waiting>>

\* The downloads that write to a file which mv moves or replaces.
Redirected ==
    [a \in Appliers |->
        IF ~In(a, "downloading") THEN apply[a]
        ELSE [apply[a] EXCEPT !.file = IF @ = "staged" THEN "installed" ELSE "gone"]]

\* A script whose process is gone: mv, then start.
Relaunch ==
    /\ due > 0
    /\ staged' = None
    /\ installed' = IF staged = None THEN installed ELSE staged
    /\ StartOf(installed', IF staged = None THEN apply ELSE Redirected)
    /\ due' = due - 1 + (waiting - waiting')
    /\ UNCHANGED <<overlapped, applied, vouched, spare>>

\* The user starts the client, maybe once more.
Launch ==
    /\ Event
    /\ StartOf(installed, apply)
    /\ due' = due + (waiting - waiting')
    /\ UNCHANGED <<installed, staged, overlapped, applied, vouched>>

ApplyStep(a) ==
    \/ DownloadStart(a) \/ DownloadBlock(a) \/ DownloadEnd(a) \/ Verify(a)
    \/ Spawn(a) \/ ApplyFails(a) \/ Exit(a)

UpdateStep == Relaunch \/ \E a \in Appliers : ApplyStep(a)

UpdateNext ==
    \/ \E o \in Response \cup {None} : Check(o)
    \/ \E a \in Appliers : Ask(a)
    \/ UpdateStep
    \/ Quit \/ Launch

-----------------------------------------------------------------------------
(* Properties. *)

\* The executable is replaced only by a whole build, newer than the one it was, which the
\* release server had announced under a valid signature to a poll; by then the offer may be
\* gone, or another one.  The exceptions are two applies at the same time, which share the
\* staged file, and an apply by an old build that still runs after its executable was
\* replaced: then anything may be installed.
InstalledIsVerified ==
    [][installed' # installed /\ ~overlapped =>
            /\ \E b \in vouched : installed' = Whole(b)
            /\ installed'[1] > installed[1]]_updateVars

\* An update that was applied takes effect in the end: the process exits, the script
\* finds it gone and the new build is the executable, also if the user quits the
\* client or starts it again in between.
UpdateTakesEffect ==
    <>[](applied = None \/ overlapped \/ installed = Whole(applied))
=============================================================================
