------------------------------- MODULE Scans -------------------------------
(***************************************************************************)
(* Scan runs, internal/app/scans.go with the scans table of                *)
(* internal/store/scans.go.                                                *)
(*                                                                         *)
(* The table's unique index lets one row be running; mu guards the run     *)
(* goroutine.  A start is a transaction that opens a row, then a critical  *)
(* section that begins the goroutine; a run ends with a transaction that   *)
(* closes the row, then a critical section that ends the goroutine.        *)
(* Between them anything may happen.                                       *)
(***************************************************************************)
EXTENDS Naturals, FiniteSets

CONSTANTS
  Dirs,             \* directories below the media folders
  Callers,          \* requests that start scans
  Requests,         \* what they ask for
  Attempts          \* of a request to supersede watch scans; 3 in the code

\* A manual scan, and force rescans of the library or of a part of it.
ASSUME ScansAssumption ==
  /\ Requests \subseteq {"manual", "library", "part"} /\ "manual" \in Requests
  /\ Attempts \in Nat \ {0}

VARIABLES
  scanRow,          \* kind of the running row, or "none"
  run,              \* the goroutine in Scans.run, and what it has yet to read
  caller,           \* where each request is
  disk              \* each directory since it was last read

scansVars == <<scanRow, run, caller, disk>>

Exclusive(request) == request # "manual"

\* What a scan reads.
Kinds == {"watch", "full", "part"}
KindOf(request) == IF request = "part" THEN "part" ELSE "full"

\* Read since it changed, changed, changed with its event lost, or left to the
\* owner's next scan.
Since == {"read", "changed", "lost", "left"}
Unread == {d \in Dirs : disk[d] # "read"}
Lost == {d \in Dirs : disk[d] = "lost"}

NoRun == [pc |-> "none", kind |-> "watch", cancelled |-> FALSE, byOwner |-> FALSE,
          requeue |-> FALSE, left |-> {}, done |-> FALSE]
NoCall == [pc |-> "idle", request |-> "manual", attempt |-> 1]

ScansInit ==
  /\ scanRow = "none" /\ run = NoRun
  /\ caller = [c \in Callers |-> NoCall]
  /\ disk = [d \in Dirs |-> "read"]

At(c, pc) == caller' = [caller EXCEPT ![c].pc = pc]
Leave(c) == caller' = [caller EXCEPT ![c] = NoCall]

-----------------------------------------------------------------------------
(* StartScan and StartRescan.                                              *)

WatchRuns == run.pc # "none" /\ run.kind = "watch"

\* supersedeWatchScan's critical section, on a running watch scan.
Cancelled(byOwner, requeue) ==
  [run EXCEPT !.cancelled = TRUE, !.byOwner = @ \/ byOwner, !.requeue = @ \/ requeue]

\* Mutant: a partial rescan supersedes like a full one.
ForgetsDirectories(request) == FALSE

\* A partial rescan does not read what the watch scan would have.
GivesBack(request) == request = "part"

Supersede(c, request, attempt) ==
  /\ run' = IF WatchRuns THEN Cancelled(KindOf(request) = "full", GivesBack(request)) ELSE run
  /\ caller' = [caller EXCEPT ![c] = [pc |-> IF WatchRuns THEN "wait" ELSE "open",
                                     request |-> request, attempt |-> attempt]]
  /\ UNCHANGED <<scanRow, disk>>

Ask(c, request) == caller[c].pc = "idle" /\ Supersede(c, request, 1)
Retry(c) == caller[c].pc = "supersede" /\ Supersede(c, caller[c].request, caller[c].attempt)

\* The request ends, or the store fails.
GiveUp(c) ==
  /\ caller[c].pc \in {"wait", "open"}
  /\ Leave(c)
  /\ UNCHANGED <<scanRow, run, disk>>

Again(c) ==
  caller' = [caller EXCEPT ![c].pc = "supersede", ![c].attempt = @ + 1]

\* startScan in the store: a running row is returned, or refuses a rescan.  A
\* request that ends between the commit and the read of the new row is gone.
OpenScan(c) ==
  /\ caller[c].pc = "open"
  /\ \/ /\ scanRow = "none"
        /\ scanRow' = KindOf(caller[c].request)
        /\ caller' = [caller EXCEPT ![c].pc = "opened", ![c].attempt = 1] \/ Leave(c)
     \/ /\ scanRow # "none"
        /\ IF Exclusive(caller[c].request) THEN At(c, "refused")
           ELSE IF scanRow = "watch" /\ caller[c].attempt < Attempts THEN Again(c) ELSE Leave(c)
        /\ UNCHANGED scanRow
  /\ UNCHANGED <<run, disk>>

\* StartRescan asks the memory, not the row, whether a watch scan refused it.
CheckRefusal(c) ==
  /\ caller[c].pc = "refused"
  /\ IF WatchRuns /\ caller[c].attempt < Attempts THEN Again(c) ELSE Leave(c)
  /\ UNCHANGED <<scanRow, run, disk>>

Begun(kind, dirs) == [NoRun EXCEPT !.pc = "scanning", !.kind = kind, !.left = dirs]
ToRead(kind) == IF kind = "full" THEN Dirs ELSE {}

\* start's critical section: no second goroutine beside a run.
Enter(c) ==
  LET kind == KindOf(caller[c].request) IN
  /\ caller[c].pc = "opened"
  /\ run' = IF run.pc # "none" THEN run ELSE Begun(kind, ToRead(kind))
  /\ Leave(c)
  /\ UNCHANGED <<scanRow, disk>>

-----------------------------------------------------------------------------
(* run.                                                                    *)

ReadDirectory(d) ==
  /\ run.pc = "scanning" /\ d \in run.left
  /\ run' = [run EXCEPT !.left = @ \ {d}]
  /\ disk' = [disk EXCEPT ![d] = "read"]
  /\ UNCHANGED <<scanRow, caller>>

\* A scan ends when it has read everything, between files when it is
\* superseded, or when it fails.
StopScanning ==
  /\ run.pc = "scanning"
  /\ \E done \in BOOLEAN :
       /\ done => run.left = {} \/ run.cancelled
       /\ run' = [run EXCEPT !.pc = "finishing", !.done = done]
  /\ UNCHANGED <<scanRow, caller, disk>>

\* FinishScan: the row is closed, or stays if the store fails.
FinishRow ==
  /\ run.pc = "finishing"
  /\ \/ run' = [run EXCEPT !.pc = "closing"] /\ scanRow' = "none"
     \/ run' = [run EXCEPT !.pc = "closing", !.done = FALSE] /\ UNCHANGED scanRow
  /\ UNCHANGED <<caller, disk>>

\* The deferred function: the goroutine ends and its waiters go on.
EndRun ==
  /\ run.pc = "closing"
  /\ run' = NoRun
  /\ caller' = [c \in Callers |-> IF caller[c].pc = "wait" THEN [caller[c] EXCEPT !.pc = "open"] ELSE caller[c]]
  /\ UNCHANGED scanRow

\* RecoverInterrupted and ResumeInterrupted, before any request of the new
\* process: the row is closed, and a manual scan or rescan begins again unless
\* the store refuses.  Changes before the start are left to the owner.
Recover ==
  /\ caller' = [c \in Callers |-> NoCall]
  /\ disk' = [d \in Dirs |-> "read"]
  /\ \/ scanRow' = "none" /\ run' = NoRun
     \/ scanRow \in {"full", "part"} /\ UNCHANGED scanRow /\ run' = Begun(scanRow, ToRead(scanRow))

-----------------------------------------------------------------------------
ScansTypeOK ==
  /\ scanRow \in Kinds \cup {"none"}
  /\ run \in [pc : {"none", "scanning", "finishing", "closing"}, kind : Kinds, cancelled : BOOLEAN,
              byOwner : BOOLEAN, requeue : BOOLEAN, left : SUBSET Dirs, done : BOOLEAN]
  /\ caller \in [Callers -> [pc : {"idle", "supersede", "wait", "open", "refused", "opened"},
                             request : Requests, attempt : 1..Attempts]]
  /\ disk \in [Dirs -> Since]
=============================================================================
