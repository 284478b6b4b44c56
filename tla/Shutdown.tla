------------------------------ MODULE Shutdown ------------------------------
(***************************************************************************)
(* The start and the orderly end of the process, cmd/mdm/main.go and       *)
(* events.go, over the event bus.                                          *)
(*                                                                         *)
(* Requests, jobs and the scan commit transactions that release content;   *)
(* after each commit the store publishes the release and the artifact      *)
(* subscriber starts a goroutine that removes the files.  Shutdown stops   *)
(* each part before the parts it feeds and waits for requests and for the  *)
(* scan only so long.                                                      *)
(***************************************************************************)
EXTENDS EventBus

CONSTANTS
  Screens,          \* the subscribers of the event streams
  Wakers,           \* the subscribers that wake the scheduler
  Releaser,         \* the artifact-release subscriber
  Requests, Jobs, TheScan   \* who commits

ASSUME ShutdownConstants ==
  Screens \subseteq Subs /\ Wakers \subseteq Subs /\ Releaser \in Subs \ (Screens \cup Wakers)

Writers == Requests \cup Jobs \cup {TheScan}

VARIABLES
  stage,            \* how far shutdown has come
  cancelled,        \* the background context
  writer,           \* "idle", "working", "committed" (not yet published), "ended"
  release,          \* the event number of what each writer published, 0: none
  dropped,          \* writers whose event met a closed bus
  outlasted,        \* requests and scans that did not end within their grace
  cleaning,         \* releases whose files a goroutine of artifacts.release removes
  removed           \* releases whose files are gone

shutVars == <<stage, cancelled, writer, release, dropped, outlasted, cleaning, removed>>

Stages == {"starting", "started", "serving", "screens", "drain", "wakers", "watch", "jobs",
           "scan", "bus", "files", "closed"}

ShutdownInit ==
  /\ BusInit
  /\ stage = "starting" /\ cancelled = FALSE
  /\ writer = [w \in Writers |-> "idle"]
  /\ release = [w \in Writers |-> 0]
  /\ dropped = {} /\ outlasted = {} /\ cleaning = {} /\ removed = {}

From(a, b) == stage = a /\ stage' = b
Rest == UNCHANGED <<cancelled, writer, release, dropped, outlasted, cleaning, removed>>

-----------------------------------------------------------------------------
(* Startup.                                                                *)

\* subscribeEvents, before the workers and the scan start.
StartSubscriber(s) == stage = "starting" /\ Subscribe(s) /\ UNCHANGED shutVars

StartBackground == From("starting", "started") /\ subs = Subs /\ Rest /\ UNCHANGED busVars

Listen == From("started", "serving") /\ Rest /\ UNCHANGED busVars

\* A later part of startup or the listener fails: the deferred half of shutdown runs.
StartupFails == From("started", "wakers") /\ Rest /\ UNCHANGED busVars

-----------------------------------------------------------------------------
(* Who commits.                                                            *)

\* A request is accepted while the listener is open; a job is claimed and the
\* scan runs until they are cancelled.
MayBegin(w) ==
  IF w \in Requests THEN stage \in {"serving", "screens"} ELSE stage # "starting" /\ ~cancelled

Begin(w) ==
  /\ writer[w] = "idle" /\ MayBegin(w)
  /\ writer' = [writer EXCEPT ![w] = "working"]
  /\ UNCHANGED <<busVars, stage, cancelled, release, dropped, outlasted, cleaning, removed>>

\* DB.commit: the transaction; a closed database takes none.
Commit(w) ==
  /\ writer[w] = "working" /\ stage # "closed"
  /\ writer' = [writer EXCEPT ![w] = "committed"]
  /\ UNCHANGED <<busVars, stage, cancelled, release, dropped, outlasted, cleaning, removed>>

\* DB.publish, right after the commit and in the same goroutine: the release is the
\* last of the transaction's n events.
PublishRelease(w, n) ==
  /\ writer[w] = "committed"
  /\ Publish(n)
  /\ writer' = [writer EXCEPT ![w] = "ended"]
  /\ IF busClosed THEN dropped' = dropped \cup {w} /\ UNCHANGED release
     ELSE release' = [release EXCEPT ![w] = published'] /\ UNCHANGED dropped
  /\ UNCHANGED <<stage, cancelled, outlasted, cleaning, removed>>

\* Ends without a release: nothing to remove, cancelled, or failed.
EndsQuietly(w) ==
  /\ writer[w] = "working"
  /\ writer' = [writer EXCEPT ![w] = "ended"]
  /\ UNCHANGED <<busVars, stage, cancelled, release, dropped, outlasted, cleaning, removed>>

Busy(w) == writer[w] \in {"working", "committed"}

\* The artifact subscriber's handler starts the removal and returns.
ReleaseArtifacts ==
  /\ run[Releaser] = "handling" /\ Handled(Releaser)
  /\ cleaning' = cleaning \cup {seen[Releaser]}
  /\ UNCHANGED <<stage, cancelled, writer, release, dropped, outlasted, removed>>

FilesRemoved(n) ==
  /\ n \in cleaning
  /\ cleaning' = cleaning \ {n}
  /\ removed' = removed \cup {n}
  /\ UNCHANGED <<busVars, stage, cancelled, writer, release, dropped, outlasted>>

-----------------------------------------------------------------------------
(* The order of shutdown.                                                  *)

StopSignal == From("serving", "screens") /\ Rest /\ UNCHANGED busVars

\* StopScreen and StopWorkers unsubscribe one after the other.
Dropped == IF stage = "screens" THEN Screens ELSE IF stage = "wakers" THEN Wakers ELSE {}
DropSubscriber(s) == s \in Dropped /\ Unsubscribe(s) /\ UNCHANGED shutVars

ScreensClosed ==
  /\ From("screens", "drain")
  /\ \A s \in Screens : leaver[s] = "returned"
  /\ Rest /\ UNCHANGED busVars

\* srv.Shutdown returns when no request runs, or after shutdownGrace.
Drain ==
  /\ From("drain", "wakers")
  /\ outlasted' = {w \in Requests : Busy(w)}
  /\ UNCHANGED <<busVars, cancelled, writer, release, dropped, cleaning, removed>>

WakersDropped ==
  /\ From("wakers", "watch")
  /\ \A s \in Wakers : leaver[s] = "returned"
  /\ Rest /\ UNCHANGED busVars

\* autoImport.Stop, then the background context is cancelled.
StopBackground ==
  /\ From("watch", "jobs")
  /\ cancelled' = TRUE
  /\ UNCHANGED <<busVars, writer, release, dropped, outlasted, cleaning, removed>>

\* Mutant: the workers, too, are waited for only so long.
GivesUpOnWorkers ==
  /\ From("jobs", "scan")
  /\ outlasted' = outlasted \cup {w \in Jobs : Busy(w)}
  /\ UNCHANGED <<busVars, cancelled, writer, release, dropped, cleaning, removed>>

WorkersDone ==
  /\ From("jobs", "scan")
  /\ \A w \in Jobs : ~Busy(w)
  /\ Rest /\ UNCHANGED busVars

\* Mutant: the scan is left to its cancellation.
DoesNotWaitForScan ==
  /\ From("scan", "bus")
  /\ Rest /\ UNCHANGED busVars

\* waitAtMost(scans.Wait, scanStopGrace).
WaitForScan ==
  /\ From("scan", "bus")
  /\ outlasted' = outlasted \cup {w \in {TheScan} : Busy(w)}
  /\ UNCHANGED <<busVars, cancelled, writer, release, dropped, cleaning, removed>>

CloseBus == stage = "bus" /\ Close /\ UNCHANGED shutVars

BusDrained == From("bus", "files") /\ closer = "returned" /\ Rest /\ UNCHANGED busVars

\* ingest.Wait, then the database.
CloseDatabase == From("files", "closed") /\ cleaning = {} /\ Rest /\ UNCHANGED busVars

LoopOf(s) == Loop(s) /\ ~(s = Releaser /\ run[s] = "handling") /\ UNCHANGED shutVars
CallOf(s) == Call(s) /\ UNCHANGED shutVars

Proceeds ==
  \/ ScreensClosed \/ Drain \/ WakersDropped \/ StopBackground
  \/ WorkersDone \/ WaitForScan \/ CloseBus \/ BusDrained \/ CloseDatabase
  \/ \E s \in Subs : DropSubscriber(s)
  \/ (CloseWaits \/ CloseReturns) /\ UNCHANGED shutVars

Finishes(w) == Commit(w) \/ EndsQuietly(w) \/ \E n \in 1..MaxBatch : PublishRelease(w, n)

ShutdownNext ==
  \/ \E w \in Writers : Begin(w) \/ Finishes(w)
  \/ StartBackground \/ Listen \/ StartupFails \/ \E s \in Subs : StartSubscriber(s)
  \/ ReleaseArtifacts \/ \E n \in cleaning : FilesRemoved(n)
  \/ \E s \in Subs : LoopOf(s) \/ CallOf(s)
  \/ StopSignal \/ Proceeds

ShutdownSpec == ShutdownInit /\ [][ShutdownNext]_<<busVars, shutVars>>

-----------------------------------------------------------------------------
(* Properties.                                                             *)

ShutdownTypeOK ==
  /\ BusTypeOK
  /\ stage \in Stages
  /\ cancelled \in BOOLEAN
  /\ writer \in [Writers -> {"idle", "working", "committed", "ended"}]
  /\ release \in [Writers -> 0..MaxEvents]
  /\ dropped \subseteq Writers /\ outlasted \subseteq Requests \cup {TheScan}
  /\ cleaning \subseteq 1..MaxEvents /\ removed \subseteq 1..MaxEvents

\* When the database closes, the files of every release have been removed, except
\* those of a request or a scan that outlasted its grace (events.go:36, main.go:346,
\* process-lifecycle.md "Artifact removals drained, not unsubscribed").
ReleasesReclaimed ==
  stage = "closed" =>
    /\ \A w \in Writers : release[w] # 0 => release[w] \in removed
    /\ dropped \cup {w \in Writers : writer[w] = "committed"} \subseteq outlasted

=============================================================================
