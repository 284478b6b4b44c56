----------------------------- MODULE ImportJobs -----------------------------
(***************************************************************************)
(* The import stages of a video and the jobs that carry them out:          *)
(* internal/store/jobs.go and ingest_results.go, the handlers of           *)
(* internal/app/ingest.go and the scanner's calls.                         *)
(*                                                                         *)
(* Every action but the environment's is one transaction, or one step of a *)
(* handler between two of them.  Scans, owner requests, viewers, removed   *)
(* locations, unplugged folders and restarts interleave with the jobs.     *)
(* Which due job of a kind is claimed first is left open: the classes are  *)
(* the Scheduler module's subject.                                         *)
(***************************************************************************)
EXTENDS Integers, FiniteSets, FiniteSetsExt

CONSTANTS
  Videos,
  Paths,            \* locations, naturals in path order; each in a folder of its own
  MaxAttempts,      \* domain.MaxJobAttempts
  Scenarios         \* bound: the stages that run, the others being done, and how often
                    \* each event of the environment may happen

Kinds == {"probe", "thumbnail", "seek_thumbnail", "preview", "fingerprint"}
forceKinds == {"probe", "thumbnail", "seek_thumbnail"}
Assets == {"seek_thumbnail", "preview"}    \* the files a viewer finds missing
Events == {"churn", "scan", "force", "retry", "lose", "edit", "park", "crash"}

ASSUME ImportConstants ==
  /\ Paths \subseteq Nat \ {0}
  /\ MaxAttempts \in Nat \ {0}
  /\ Scenarios \subseteq [staged : SUBSET Kinds, budget : [Events -> Nat]]

VARIABLES
  loc,              \* the registered locations of each video
  stage,            \* videos.*_state; "done" of a fingerprint: one is stored
  job,              \* the rows of each video and kind, see Row
  claim,            \* the domain.Job its handler holds
  parked,           \* locations under unavailable folders
  scan,             \* what the scan's pass is about to do for a video
  files,            \* published assets
  viewers,          \* assets a viewer saw done and found missing
  offered,          \* a failed activity of the video offers its retry
  staged,           \* the stages of the scenario
  left,             \* what is left of its budget
  owed,             \* ghost: forced rebuilds asked for and not yet concluded
  edited,           \* ghost: the owner's thumbnail edit is the newest word
  lapsed,           \* ghost: a crash came between a file's upsert and its jobs
  tries             \* ghost: claims of the row at each location that stayed available

libraryVars == <<loc, parked, files, viewers>>
ghostVars == <<owed, edited, lapsed, tries>>
importVars == <<loc, stage, job, claim, parked, scan, files, viewers, offered,
                staged, left, owed, edited, lapsed, tries>>

-----------------------------------------------------------------------------
(* A row: at most one is unfinished per video and kind, by a unique index; *)
(* ended holds the states of the finished ones beside it.                  *)

Row == [state : {"none", "queued", "running"}, force : BOOLEAN, asked : BOOLEAN, owner : BOOLEAN,
        late : BOOLEAN, attempts : Nat, cursor : Paths \cup {0},
        ended : SUBSET {"done", "failed"}]

Fresh(force, owner, ended) ==
  [state |-> "queued", force |-> force, asked |-> FALSE, owner |-> owner, late |-> FALSE,
   attempts |-> 0, cursor |-> 0, ended |-> ended]

Gone(ended) == [Fresh(FALSE, FALSE, ended) EXCEPT !.state = "none"]

\* Mutant: a finished row stands for the work.
QueueUnlessFinished(j, force, request) ==
  IF j.state = "none" THEN IF j.ended = {} THEN Fresh(force, force \/ request, {}) ELSE j
  ELSE [j EXCEPT !.force = @ \/ (force /\ j.state = "queued"),
                 !.asked = @ \/ (force /\ j.state = "running" /\ ~j.force)]

\* queueJob: finished rows go, an unfinished one takes the request in.
Queue(j, force, request) ==
  LET raised == j.state = "queued" /\ (force \/ request)
  IN  IF j.state = "none" THEN Fresh(force, force \/ request, {})
      ELSE [j EXCEPT !.ended = {},
              !.force = @ \/ (force /\ j.state = "queued"),
              !.asked = @ \/ (force /\ j.state = "running" /\ ~j.force),
              !.owner = @ \/ raised,
              !.late = @ /\ ~raised]

QueueAll(jobs, kinds, force, request) ==
  [k \in Kinds |-> IF k \in kinds \cap staged THEN Queue(jobs[k], force, request) ELSE jobs[k]]

\* ensureJob, for a stage that is pending: only a video without a row gets one.
Ensure(j, kind) ==
  LET kept == IF kind = "fingerprint" THEN {} ELSE j.ended \ {"failed"}
  IN  IF j.state = "none" /\ kept = {} THEN Fresh(FALSE, FALSE, {}) ELSE [j EXCEPT !.ended = kept]

\* Mutant: a row that goes back to queued drops its force request.
BackWithoutRequest(j, late, undo) ==
  [j EXCEPT !.state = "queued", !.asked = FALSE, !.late = late,
     !.attempts = IF undo THEN @ - 1 ELSE @, !.cursor = IF undo THEN 0 ELSE @]

\* A running row goes back to queued and takes its force request; undo takes
\* back the round the claim started.
Back(j, late, undo) ==
  [j EXCEPT !.state = "queued",
     !.force = @ \/ j.asked, !.owner = @ \/ j.asked, !.asked = FALSE,
     !.late = late /\ ~j.asked,
     !.attempts = IF undo THEN @ - 1 ELSE @,
     !.cursor = IF undo THEN 0 ELSE @]

\* A running row finishes; a force request queues a forced row beside it.
Finished(j, how) ==
  IF j.asked THEN Fresh(TRUE, TRUE, j.ended \cup {how}) ELSE Gone(j.ended \cup {how})

NoClaim == [phase |-> "none", path |-> 0, current |-> FALSE, last |-> FALSE,
            starts |-> FALSE, force |-> FALSE, owner |-> FALSE]

Unfinished(v) == {k \in Kinds : job[v][k].state # "none"}

NoScan == [step |-> "idle", kinds |-> {}, force |-> FALSE]

ImportInit ==
  /\ \E s \in Scenarios : staged = s.staged /\ left = s.budget
  /\ loc = [v \in Videos |-> {}]
  /\ stage = [v \in Videos |-> [k \in Kinds |-> IF k \in staged THEN "pending" ELSE "done"]]
  /\ job = [v \in Videos |-> [k \in Kinds |-> Gone({})]]
  /\ claim = [v \in Videos |-> [k \in Kinds |-> NoClaim]]
  /\ parked = {}
  /\ scan = [v \in Videos |-> NoScan]
  /\ files = [v \in Videos |-> {}] /\ viewers = [v \in Videos |-> {}]
  /\ offered = [v \in Videos |-> FALSE]
  /\ owed = [v \in Videos |-> {}] /\ edited = [v \in Videos |-> FALSE]
  /\ lapsed = [v \in Videos |-> FALSE]
  /\ tries = [v \in Videos |-> [k \in Kinds |-> [p \in Paths |-> MaxAttempts]]]

Spend(event) == left[event] > 0 /\ left' = [left EXCEPT ![event] = @ - 1]

-----------------------------------------------------------------------------
(* Locations and scans.  A pass handles one video at a time.               *)

ScanIdle == \A v \in Videos : scan[v] = NoScan

\* Claims of a video whose location generation, or location version, moved.
Stale(claims, gone) == [k \in Kinds |-> [claims[k] EXCEPT !.current = @ /\ claims[k].path \notin gone]]

\* UpsertVideo of a file at p whose content is v's: a new location, an updated
\* one, or one that other content leaves.
UpsertVideo(v, p, force) ==
  /\ ScanIdle /\ Spend("churn")
  /\ \A w \in Videos \ {v} : loc[w] # {p}
  /\ loc' = [w \in Videos |-> IF w = v THEN loc[v] \cup {p} ELSE loc[w] \ {p}]
  /\ claim' = [w \in Videos |->
       CASE loc'[w] # loc[w] -> Stale(claim[w], Paths)
         [] w = v /\ p \in loc[v] -> Stale(claim[v], {p})
         [] OTHER -> claim[w]]
  /\ scan' = [scan EXCEPT ![v] =
       [step |-> "enqueue", force |-> force,
        kinds |-> {k \in forceKinds : stage[v][k] # "done"} \cup
                  {k \in {"preview"} : stage[v]["probe"] = "done" /\ stage[v][k] # "done"}]]
  /\ UNCHANGED <<stage, job, parked, files, viewers, offered, owed, edited, lapsed>>

\* The pass meets an unchanged file: the states are those the pass began with.
MeetUnchanged(v, force) ==
  /\ ScanIdle /\ loc[v] # {} /\ Spend("scan")
  /\ scan' = [scan EXCEPT ![v] =
       [step |-> "repair", force |-> force,
        kinds |-> {k \in forceKinds : stage[v][k] = "pending"} \cup
                  {k \in {"preview"} : stage[v]["probe"] = "done" /\ stage[v][k] = "pending"} \cup
                  {k \in {"fingerprint"} : stage[v]["seek_thumbnail"] = "done" /\ stage[v][k] = "pending"}]]
  /\ UNCHANGED <<libraryVars, stage, job, claim, offered, owed, edited, lapsed>>

\* scanner.enqueue and EnqueueJobs, in a transaction after UpsertVideo's.
EnqueueJobs(v) ==
  /\ scan[v].step = "enqueue"
  /\ job' = [job EXCEPT ![v] = QueueAll(@, scan[v].kinds, FALSE, FALSE)]
  /\ scan' = [scan EXCEPT ![v] = IF scan[v].force THEN [@ EXCEPT !.step = "force"] ELSE NoScan]
  /\ lapsed' = [lapsed EXCEPT ![v] = FALSE]
  /\ UNCHANGED <<libraryVars, stage, claim, offered, left, owed, edited>>

\* Whether ensureJob finds the stage pending now.
StillPending(v, k) ==
  stage[v][k] = "pending" /\ (k = "fingerprint" => stage[v]["seek_thumbnail"] = "done")

EnsureJobs(v) ==
  /\ scan[v].step = "repair"
  /\ job' = [job EXCEPT ![v] = [k \in Kinds |->
       IF k \in scan[v].kinds \cap staged /\ StillPending(v, k) THEN Ensure(@[k], k) ELSE @[k]]]
  /\ scan' = [scan EXCEPT ![v] = IF scan[v].force THEN [@ EXCEPT !.step = "force"] ELSE NoScan]
  /\ lapsed' = [lapsed EXCEPT ![v] = FALSE]
  /\ UNCHANGED <<libraryVars, stage, claim, offered, left, owed, edited>>

\* ForceScanJobs.  A row whose forced run is under way needs no second one.
ForceScanJobs(v) ==
  /\ scan[v].step = "force" /\ Spend("force")
  /\ job' = [job EXCEPT ![v] = QueueAll(@, forceKinds, TRUE, FALSE)]
  /\ scan' = [scan EXCEPT ![v] = NoScan]
  /\ owed' = [owed EXCEPT ![v] = @ \cup
       {k \in forceKinds \cap staged : ~(job[v][k].state = "running" /\ job[v][k].force)}]
  /\ edited' = [edited EXCEPT ![v] = FALSE]
  /\ UNCHANGED <<libraryVars, stage, claim, offered, lapsed>>

\* DeleteVideoLocations by a scan, or removeLocationsUnder with the folder,
\* which also clears the cursor of queued rows at the location.  A video that
\* loses its last location leaves with its rows and is not followed.
RemoveLocation(v, p, folder) ==
  /\ p \in loc[v] /\ loc[v] # {p} /\ Spend("churn")
  /\ loc' = [loc EXCEPT ![v] = @ \ {p}]
  /\ claim' = [claim EXCEPT ![v] = Stale(@, Paths)]
  /\ job' = [job EXCEPT ![v] = [k \in Kinds |->
       IF folder /\ @[k].state = "queued" /\ @[k].cursor = p THEN [@[k] EXCEPT !.cursor = 0] ELSE @[k]]]
  /\ UNCHANGED <<stage, parked, scan, files, viewers, offered, owed, edited, lapsed>>

\* The scheduler's refresh finds a folder unavailable, or available again.
Park(p) == p \notin parked /\ Spend("park") /\ parked' = parked \cup {p}
Unpark(p) == p \in parked /\ parked' = parked \ {p} /\ UNCHANGED left

FolderTurns(p) ==
  /\ Park(p) \/ Unpark(p)
  /\ UNCHANGED <<loc, stage, job, claim, scan, files, viewers, offered, owed, edited, lapsed>>

-----------------------------------------------------------------------------
(* The owner and viewers.                                                  *)

\* resetFailedStages: the stages that go back to pending, of which previews
\* are queued only beside a finished probe.
ResetStages(v) ==
  {k \in {"thumbnail"} : stage[v][k] # "done"} \cup
  {k \in {"seek_thumbnail", "preview"} : stage[v][k] = "failed"}

Reset(v, kinds) == [stage EXCEPT ![v] = [k \in Kinds |-> IF k \in kinds THEN "pending" ELSE @[k]]]

\* Mutant: a retry queues the probe alone.
RetryProbeAlone(v) ==
  /\ stage[v]["probe"] = "failed" /\ Spend("retry")
  /\ stage' = Reset(v, {"probe"} \cup ResetStages(v))
  /\ job' = [job EXCEPT ![v] = QueueAll(@, {"probe"}, FALSE, TRUE)]
  /\ UNCHANGED <<libraryVars, claim, scan, offered, owed, edited, lapsed>>

RetryProbe(v) ==
  /\ stage[v]["probe"] = "failed" /\ Spend("retry")
  /\ stage' = Reset(v, {"probe"} \cup ResetStages(v))
  /\ job' = [job EXCEPT ![v] = QueueAll(@, {"probe"} \cup (ResetStages(v) \ {"preview"}), FALSE, TRUE)]
  /\ UNCHANGED <<libraryVars, claim, scan, offered, owed, edited, lapsed>>

\* Every queued job of the video is raised; a retry that finds none is refused.
RetryImport(v) ==
  LET probe == {k \in {"probe"} : stage[v][k] = "failed"}
      queued == {k \in probe \cup ResetStages(v) : k = "preview" => stage[v]["probe"] = "done"}
                \cup {k \in {"fingerprint"} : stage[v]["seek_thumbnail"] = "done" /\ "failed" \in job[v][k].ended}
      jobs == QueueAll(job[v], queued, FALSE, TRUE)
  IN  /\ offered[v] /\ Spend("retry")
      /\ \E k \in Kinds : jobs[k].state # "none"
      /\ stage' = Reset(v, probe \cup ResetStages(v))
      /\ job' = [job EXCEPT ![v] = [k \in Kinds |->
           IF jobs[k].state = "queued" THEN [jobs[k] EXCEPT !.owner = TRUE, !.late = FALSE] ELSE jobs[k]]]
      /\ offered' = [offered EXCEPT ![v] = FALSE]
      /\ UNCHANGED <<libraryVars, claim, scan, owed, edited, lapsed>>

\* markThumbnailDoneForContent, with which a thumbnail edit ends: it settles
\* a forced rebuild that is running, and no other.
EditThumbnail(v) ==
  LET j == job[v]["thumbnail"]
      settles == j.state = "running" /\ j.force
  IN  /\ loc[v] # {} /\ Spend("edit")
      /\ stage' = [stage EXCEPT ![v]["thumbnail"] = "done"]
      /\ job' = [job EXCEPT ![v]["thumbnail"].force = @ /\ ~settles]
      /\ owed' = [owed EXCEPT ![v] = IF settles /\ ~j.asked THEN @ \ {"thumbnail"} ELSE @]
      /\ edited' = [edited EXCEPT ![v] = ~(j.state = "queued" /\ j.force) /\ ~j.asked]
      /\ UNCHANGED <<libraryVars, claim, scan, offered, lapsed>>

LoseFile(v, a) ==
  /\ a \in files[v] /\ Spend("lose")
  /\ files' = [files EXCEPT ![v] = @ \ {a}]
  /\ UNCHANGED <<loc, stage, job, claim, parked, scan, viewers, offered, owed, edited, lapsed>>

\* Catalog reads the stage, then looks for the file, then asks for a new one.
FindMissing(v, a) ==
  /\ stage[v][a] = "done" /\ a \in staged \ files[v] /\ a \notin viewers[v]
  /\ viewers' = [viewers EXCEPT ![v] = @ \cup {a}]
  /\ UNCHANGED <<loc, stage, job, claim, parked, scan, files, offered, left, owed, edited, lapsed>>

\* RequeueMissingPreview and RequeueMissingSeekThumbnails; the latter drops
\* the fingerprint job that waits for the sprite.
RequeueMissing(v, a) ==
  LET jobs == QueueAll(job[v], {a}, FALSE, FALSE)
      waits == a = "seek_thumbnail" /\ jobs["fingerprint"].state = "queued"
  IN  /\ a \in viewers[v]
      /\ viewers' = [viewers EXCEPT ![v] = @ \ {a}]
      /\ IF stage[v][a] = "done"
         THEN /\ stage' = [stage EXCEPT ![v][a] = "pending"]
              /\ job' = [job EXCEPT ![v] =
                   IF waits THEN [jobs EXCEPT !["fingerprint"] = Gone(@.ended)] ELSE jobs]
         ELSE UNCHANGED <<stage, job>>
      /\ UNCHANGED <<loc, claim, parked, scan, files, offered, left, owed, edited, lapsed>>

-----------------------------------------------------------------------------
(* Claims.                                                                 *)

\* availableLocationCondition; a job that reads no source runs on without its folder.
Available(v, k) == IF k = "fingerprint" THEN loc[v] ELSE loc[v] \ parked

\* The first available location after the previous attempt's, else the first.
NextPath(v, k) ==
  LET after == {p \in Available(v, k) : p > job[v][k].cursor}
  IN  Min(IF after # {} THEN after ELSE Available(v, k))

\* Mutant: thumbnails wait for a probe that succeeded.
WaitsForProbeDone(v, k) ==
  /\ k \in {"thumbnail", "seek_thumbnail"} => stage[v]["probe"] = "done"
  /\ k = "seek_thumbnail" => \A w \in Videos :
       job[w]["thumbnail"].state = "none" \/ Available(w, "thumbnail") = {}
  /\ k = "fingerprint" => stage[v]["seek_thumbnail"] = "done"

\* ClaimConditionFor.  Sprites wait for every video's thumbnail that could run.
ClaimCondition(v, k) ==
  /\ k \in {"thumbnail", "seek_thumbnail"} => stage[v]["probe"] # "pending"
  /\ k = "seek_thumbnail" => \A w \in Videos :
       job[w]["thumbnail"].state = "none" \/ Available(w, "thumbnail") = {}
  /\ k = "fingerprint" => stage[v]["seek_thumbnail"] = "done"

Claimable(v, k) ==
  job[v][k].state = "queued" /\ ~job[v][k].late /\ Available(v, k) # {} /\ ClaimCondition(v, k)

\* Mutant: every claim takes its location for the round's last one.
EveryLocationLast(v, k, path) == TRUE

LastLocation(v, k, path) == \A p \in Available(v, k) : p <= path

ClaimJob(v, k) ==
  LET j == job[v][k]
      path == NextPath(v, k)
      starts == j.cursor = 0 \/ path <= j.cursor
  IN  /\ Claimable(v, k)
      /\ claim' = [claim EXCEPT ![v][k] =
           [phase |-> IF k = "preview" THEN "claimed" ELSE "reading", path |-> path, current |-> TRUE,
            last |-> LastLocation(v, k, path), starts |-> starts, force |-> j.force, owner |-> j.owner]]
      /\ job' = [job EXCEPT ![v][k] =
           [j EXCEPT !.state = "running", !.attempts = IF starts THEN @ + 1 ELSE @, !.cursor = path]]
      /\ UNCHANGED <<libraryVars, stage, scan, offered, left, owed, edited, lapsed>>

\* The retry delay of a failed round is over.
DelayEnds(v, k) ==
  /\ job[v][k].late
  /\ job' = [job EXCEPT ![v][k].late = FALSE]
  /\ UNCHANGED <<libraryVars, stage, claim, scan, offered, left, owed, edited, lapsed>>

-----------------------------------------------------------------------------
(* Handlers.                                                               *)

SetPhase(v, k, phase) == claim' = [claim EXCEPT ![v][k].phase = phase]

\* Preview reads the probe's state once, and has nothing to do without it.
PreviewBegins(v) ==
  /\ claim[v]["preview"].phase = "claimed"
  /\ SetPhase(v, "preview", IF stage[v]["probe"] = "done" THEN "reading" ELSE "over")
  /\ UNCHANGED <<libraryVars, stage, job, scan, offered, left, owed, edited, lapsed>>

\* What a stage's success queues, in the class and with the force of its job.
Following(k) ==
  CASE k = "probe" -> {"preview"} [] k = "seek_thumbnail" -> {"fingerprint"} [] OTHER -> {}

\* The forced run is concluded, unless the owner asked again since its claim.
Concluded(v, k) == IF job[v][k].asked THEN owed ELSE [owed EXCEPT ![v] = @ \ {k}]

\* The handler published its file, if any, and records the stage's result:
\* ApplyProbeForJob, SetThumbnailStateForJob, SetSeekThumbnailStateForJob and
\* ApplyFingerprintForJob write nothing for a claim that went stale.
RecordResult(v, k) ==
  LET c == claim[v][k]
  IN  /\ k # "preview" /\ c.phase = "reading"
      /\ SetPhase(v, k, "over")
      /\ files' = [files EXCEPT ![v] = @ \cup ({k} \cap Assets)]
      /\ IF c.current
         THEN /\ stage' = [stage EXCEPT ![v][k] = "done"]
              /\ job' = [job EXCEPT ![v] = QueueAll(@, Following(k), c.force, c.owner)]
              /\ owed' = IF c.force THEN Concluded(v, k) ELSE owed
         ELSE UNCHANGED <<stage, job, owed>>
      /\ UNCHANGED <<loc, parked, scan, viewers, offered, left, edited, lapsed>>

\* A row finished: the activity settles once none of the video is unfinished.
Settle(v, jobs) ==
  offered' = [offered EXCEPT ![v] =
    @ \/ (/\ \A k \in Kinds : jobs[k].state = "none"
          /\ \E k \in Kinds : "failed" \in jobs[k].ended)]

\* CompletePreviewForContent ends the stage and the row in one transaction.
CompletePreview(v) ==
  LET jobs == [job[v] EXCEPT !["preview"] = Finished(@, "done")]
  IN  /\ claim[v]["preview"].phase = "reading"
      /\ files' = [files EXCEPT ![v] = @ \cup {"preview"}]
      /\ stage' = [stage EXCEPT ![v]["preview"] = "done"]
      /\ job' = [job EXCEPT ![v] = jobs]
      /\ claim' = [claim EXCEPT ![v]["preview"] = NoClaim]
      /\ Settle(v, jobs)
      /\ UNCHANGED <<loc, parked, scan, viewers, left, owed, edited, lapsed>>

\* Mutant: a run whose location changed under it counts as done.
CompleteStale(v, k) ==
  LET jobs == [job[v] EXCEPT ![k] = Finished(@, "done")]
  IN  /\ claim[v][k].phase = "over"
      /\ job' = [job EXCEPT ![v] = jobs]
      /\ claim' = [claim EXCEPT ![v][k] = NoClaim]
      /\ Settle(v, jobs)
      /\ UNCHANGED <<libraryVars, stage, scan, left, owed, edited, lapsed>>

\* CompleteClaimedJob: a claim that went stale runs again.
Complete(v, k) ==
  LET j == job[v][k]
      jobs == [job[v] EXCEPT ![k] = IF claim[v][k].current THEN Finished(j, "done") ELSE Back(j, FALSE, FALSE)]
  IN  /\ claim[v][k].phase = "over"
      /\ job' = [job EXCEPT ![v] = jobs]
      /\ claim' = [claim EXCEPT ![v][k] = NoClaim]
      /\ Settle(v, jobs)
      /\ UNCHANGED <<libraryVars, stage, scan, left, owed, edited, lapsed>>

\* The handler fails: it may succeed next time, or would fail again; or its
\* folder cannot be read, which snoozeIfRootUnreadable parks first.
Breaks(v, k, how) ==
  /\ claim[v][k].phase = "reading"
  /\ SetPhase(v, k, how)
  /\ IF how = "snoozed"
     THEN k # "fingerprint" /\ Spend("park") /\ parked' = parked \cup {claim[v][k].path}
     ELSE UNCHANGED <<parked, left>>
  /\ UNCHANGED <<loc, stage, job, scan, files, viewers, offered, owed, edited, lapsed>>

\* AfterFailure: whether the failure is for good.
Terminal(j, c) ==
  /\ c.phase # "snoozed" /\ c.last /\ c.current
  /\ c.phase = "hopeless" \/ j.attempts >= MaxAttempts

\* Mutant: a failure is recorded by the force the job was claimed with.
RecordedByClaim(v, k) ==
  CASE k = "probe" -> stage[v][k] = "pending" \/ claim[v][k].force
    [] k \in {"thumbnail", "seek_thumbnail"} -> stage[v][k] # "done" \/ claim[v][k].force
    [] OTHER -> k = "preview"

\* recordTerminalFailure, by the row's force, not the claim's.
RecordsFailure(v, k) ==
  CASE k = "probe" -> stage[v][k] = "pending" \/ job[v][k].force
    [] k \in {"thumbnail", "seek_thumbnail"} -> stage[v][k] # "done" \/ job[v][k].force
    [] OTHER -> k = "preview"

\* FailClaimedJob.
Fail(v, k) ==
  LET c == claim[v][k]
      j == job[v][k]
      undo == c.phase = "snoozed" /\ c.starts
      waits == c.phase # "snoozed" /\ c.last /\ c.current
      jobs == [job[v] EXCEPT ![k] = IF Terminal(j, c) THEN Finished(j, "failed") ELSE Back(j, waits, undo)]
  IN  /\ c.phase \in {"failing", "hopeless", "snoozed"}
      /\ job' = [job EXCEPT ![v] = jobs]
      /\ claim' = [claim EXCEPT ![v][k] = NoClaim]
      /\ stage' = IF Terminal(j, c) /\ RecordsFailure(v, k)
                  THEN [stage EXCEPT ![v][k] = "failed"] ELSE stage
      /\ owed' = IF Terminal(j, c) /\ j.force THEN Concluded(v, k) ELSE owed
      /\ Settle(v, jobs)
      /\ UNCHANGED <<libraryVars, scan, left, edited, lapsed>>

\* Mutant: the next start leaves the interrupted rows running.
RestartForgets ==
  /\ Spend("crash")
  /\ claim' = [v \in Videos |-> [k \in Kinds |-> NoClaim]]
  /\ scan' = [v \in Videos |-> NoScan]
  /\ viewers' = [v \in Videos |-> {}]
  /\ parked' = {}
  /\ lapsed' = [v \in Videos |-> lapsed[v] \/ scan[v].step = "enqueue"]
  /\ UNCHANGED <<loc, stage, job, files, offered, owed, edited>>

\* The process ends; RequeueRunningJobs at the next start.
Restart ==
  /\ Spend("crash")
  /\ job' = [v \in Videos |-> [k \in Kinds |->
       IF job[v][k].state = "running" THEN Back(job[v][k], FALSE, FALSE) ELSE job[v][k]]]
  /\ claim' = [v \in Videos |-> [k \in Kinds |-> NoClaim]]
  /\ scan' = [v \in Videos |-> NoScan]
  /\ viewers' = [v \in Videos |-> {}]
  /\ parked' = {}
  /\ lapsed' = [v \in Videos |-> lapsed[v] \/ scan[v].step = "enqueue"]
  /\ UNCHANGED <<loc, stage, files, offered, owed, edited>>

-----------------------------------------------------------------------------

\* The steps of a handler and of recording its outcome.
Works(v, k) ==
  \/ RecordResult(v, k) \/ Complete(v, k) \/ Fail(v, k)
  \/ k = "preview" /\ (PreviewBegins(v) \/ CompletePreview(v))

\* A pass begins with a video, and goes on with it.
Scans(v) ==
  \/ \E p \in Paths, force \in BOOLEAN : UpsertVideo(v, p, force) /\ (force => left["force"] > 0)
  \/ \E force \in BOOLEAN : MeetUnchanged(v, force) /\ (force => left["force"] > 0)

ScanGoesOn(v) == EnqueueJobs(v) \/ EnsureJobs(v) \/ ForceScanJobs(v)

Others(v) ==
  \/ \E p \in Paths, folder \in BOOLEAN : RemoveLocation(v, p, folder)
  \/ RetryProbe(v) \/ RetryImport(v) \/ EditThumbnail(v)
  \/ \E a \in Assets : LoseFile(v, a) \/ FindMissing(v, a) \/ RequeueMissing(v, a)

\* Ghost: new rows count from zero the claims at each location available
\* throughout; any other location counts as tried.  A cursor cleared with its
\* folder begins another round, so it may cost every location one claim.
IsNew(v, k) ==
  /\ job'[v][k].state = "queued"
  /\ \/ job[v][k].state = "none"
     \/ job[v][k].state = "running" /\ job'[v][k].attempts = 0 /\ claim[v][k].phase # "snoozed"

IsClaimed(v, k) == job[v][k].state = "queued" /\ job'[v][k].state = "running"

IsCleared(v, k) ==
  /\ job[v][k].state = "queued" /\ job'[v][k].state = "queued"
  /\ job'[v][k].cursor # job[v][k].cursor

CountTries ==
  tries' = [v \in Videos |-> [k \in Kinds |-> [p \in Paths |->
    IF job'[v][k].state = "none" \/ p \notin loc'[v] \ parked' THEN MaxAttempts
    ELSE IF IsNew(v, k) THEN 0
    ELSE IF IsClaimed(v, k) /\ job'[v][k].cursor = p THEN Min({tries[v][k][p] + 1, MaxAttempts})
    ELSE IF IsCleared(v, k) THEN Max({tries[v][k][p], MaxAttempts - 1})
    ELSE tries[v][k][p]]]]

Kept == CountTries /\ UNCHANGED staged

Step ==
  \/ \E v \in Videos :
       \/ Scans(v) \/ ScanGoesOn(v) \/ Others(v)
       \/ \E k \in Kinds : ClaimJob(v, k) \/ Works(v, k) \/ DelayEnds(v, k)
            \/ \E how \in {"failing", "hopeless", "snoozed"} : Breaks(v, k, how)
  \/ \E p \in Paths : FolderTurns(p)
  \/ Restart

ImportNext == Step /\ Kept

ImportSpec == ImportInit /\ [][ImportNext]_importVars

-----------------------------------------------------------------------------
(* Properties.                                                             *)

\* Types, and what ties a row to its claim: a running row has one handler.
ImportTypeOK ==
  /\ loc \in [Videos -> SUBSET Paths] /\ parked \subseteq Paths
  /\ \A v, w \in Videos : v # w => loc[v] \cap loc[w] = {}
  /\ stage \in [Videos -> [Kinds -> {"pending", "done", "failed"}]]
  /\ job \in [Videos -> [Kinds -> Row]]
  /\ claim \in [Videos -> [Kinds ->
       [phase : {"none", "claimed", "reading", "over", "failing", "hopeless", "snoozed"},
        path : Paths \cup {0}, current : BOOLEAN, last : BOOLEAN, starts : BOOLEAN,
        force : BOOLEAN, owner : BOOLEAN]]]
  /\ scan \in [Videos -> [step : {"idle", "enqueue", "repair", "force"}, kinds : SUBSET Kinds, force : BOOLEAN]]
  /\ files \in [Videos -> SUBSET Assets] /\ viewers \in [Videos -> SUBSET Assets]
  /\ offered \in [Videos -> BOOLEAN] /\ left \in [Events -> Nat]
  /\ owed \in [Videos -> SUBSET forceKinds]
  /\ edited \in [Videos -> BOOLEAN] /\ lapsed \in [Videos -> BOOLEAN]
  /\ tries \in [Videos -> [Kinds -> [Paths -> 0..MaxAttempts]]]
  /\ \A v \in Videos, k \in Kinds : job[v][k].state = "running" <=> claim[v][k] # NoClaim

\* A probe or thumbnail that is pending has a job, or the scan is about to
\* queue one, or a restart fell between the two and the next pass will repair
\* it: stale completions, retries and edits never leave a stage without work.
PendingHasWork ==
  \A v \in Videos, k \in {"probe", "thumbnail"} :
    loc[v] # {} /\ stage[v][k] = "pending" =>
      job[v][k].state # "none" \/ scan[v].step = "enqueue" \/ lapsed[v]

\* A forced rebuild asked for is carried by the row until a forced run ends
\* it, across the end of an unforced run, failures, retries and restarts.
ForceHonoured ==
  \A v \in Videos : \A k \in owed[v] :
    job[v][k].state # "none" /\ (job[v][k].force \/ job[v][k].asked)

\* The owner's thumbnail edit stays done until another forced rebuild is
\* asked for, whatever the job that ran beside the edit comes to.
EditSurvives == \A v \in Videos : edited[v] => stage[v]["thumbnail"] = "done"

FailsForGood(v, k) ==
  /\ job[v][k].state = "running" /\ "failed" \notin job[v][k].ended
  /\ "failed" \in job'[v][k].ended

\* A job gives up only after MaxAttempts claims at each location that was
\* available all along, or, if a retry would fail again, after one at each.
GivesUpAfterAllLocations ==
  [][\A v \in Videos, k \in Kinds : FailsForGood(v, k) =>
      \A p \in Paths :
        tries[v][k][p] >= (IF claim[v][k].phase = "hopeless" THEN 1 ELSE MaxAttempts)]_importVars

\* jobs.go:105 says that EnsureJob repairs missing pending work: a stage it
\* found pending has an unfinished job after it.
RepairRestoresWork ==
  [][\A v \in Videos : scan[v].step = "repair" /\ scan'[v].step # "repair" /\ left' = left =>
      \A k \in scan[v].kinds \cap staged :
        StillPending(v, k) /\ (k = "preview" => stage[v]["probe"] = "done") =>
          job'[v][k].state # "none"]_importVars

\* fingerprints_test.go:255 says that a terminal rebuild failure leaves no
\* perpetual remaining work: a queued fingerprint has its sprite, or a sprite
\* job that will make it.
WaitingFingerprintHasSprites ==
  \A v \in Videos : job[v]["fingerprint"].state = "queued" =>
    stage[v]["seek_thumbnail"] = "done" \/ job[v]["seek_thumbnail"].state # "none"

-----------------------------------------------------------------------------
(* Liveness.  The scheduler claims what is claimable, handlers return and  *)
(* delays end; the scan goes on, a viewer's request under way is answered,  *)
(* and a folder that was parked is found available again.                  *)

ImportFairness ==
  /\ \A v \in Videos, k \in Kinds :
       /\ WF_importVars(ClaimJob(v, k) /\ Kept)
       /\ WF_importVars(Works(v, k) /\ Kept)
       /\ WF_importVars(DelayEnds(v, k) /\ Kept)
  /\ \A v \in Videos :
       /\ WF_importVars(ScanGoesOn(v) /\ Kept)
       /\ \A a \in Assets : WF_importVars(RequeueMissing(v, a) /\ Kept)
  /\ \A p \in Paths : WF_importVars(FolderTurns(p) /\ parked' = parked \ {p} /\ Kept)

FairImport == ImportSpec /\ ImportFairness

\* Every import settles: no job of a video stays unfinished for ever, so the
\* progress completes and a failed import is offered for retry.
ImportSettles == \A v \in Videos : []<>(Unfinished(v) = {})

\* A viewer that found a preview missing gets it back, or sees it failed.
MissingPreviewReturns ==
  \A v \in Videos : "preview" \in viewers[v] ~>
    "preview" \in files[v] \/ stage[v]["preview"] = "failed"
=============================================================================
