----------------------------- MODULE FaceLane -----------------------------
(***************************************************************************)
(* Face analysis and face images under changing settings:                  *)
(* internal/app/face_recognizer.go, face_images.go and                     *)
(* face_recognition_settings.go over internal/store/face_settings.go,      *)
(* faces.go, face_images.go, face_clear.go, content_queue.go and           *)
(* subject_jobs.go.                                                        *)
(*                                                                         *)
(* One person's face image and one video.  The face lane runs one job at a *)
(* time: it embeds the face (kind "image") or analyses the video ("video").*)
(* A switch of the recognizer raises the generation, deletes the vectors   *)
(* and queues the video and a sweep, which queues the stale faces and runs *)
(* beside the lane.  The video may leave the library and come back.  A     *)
(* transaction is one step.                                                *)
(***************************************************************************)
EXTENDS Naturals

CONSTANTS
  Recognizers, NoRecognizer,
  MaxRevision,      \* bound: changes of the face image, plus 1
  MaxSaves,         \* bound: settings saved
  MaxRestarts       \* bound: restarts of the process

ASSUME FaceConstants ==
  /\ NoRecognizer \notin Recognizers
  /\ MaxRevision \in Nat \ {0} /\ MaxSaves \in Nat /\ MaxRestarts \in Nat

VARIABLES
  enabled, recognizer, generation,   \* the settings
  runtime,          \* recognizers whose runtime is ready
  saves, restarts,  \* so far
  saver,            \* a save that has committed and owes SettingsChanged
  asked,            \* a request for the video's analysis has found the feature on
  revision,         \* of the person's image, 0: the person is gone
  hasFace,          \* the person has an image
  present,          \* the video is registered in the library
  strayed,          \* it was away with a result when a switch queued the analysed ones
  vector,           \* the person_face_vectors row
  centroid,         \* the recognizer of the video's face vectors
  result,           \* the video's face_results row
  imageJob, videoJob, sweepJob,      \* the jobs rows
  laneOpen,         \* the scheduler's last look found the lane's kinds not paused
  lane,             \* the goroutine of the lane's job
  faceRun,          \* FaceRecognizer.run
  sweeper,          \* the goroutine of the sweep: "idle", "working", "swept"
  helper,           \* the recognizer whose helper process runs
  overlooked        \* a sweep met a job that had stored a vector since deleted

faceVars == <<enabled, recognizer, generation, runtime, saves, restarts, saver, asked, revision,
              hasFace, present, strayed, vector, centroid, result, imageJob, videoJob, sweepJob, laneOpen, lane, faceRun,
              sweeper, helper, overlooked>>
settingVars == <<enabled, recognizer, generation, saves, restarts, saver, asked>>
personVars == <<revision, hasFace, present, strayed>>
dataVars == <<vector, centroid, result>>
jobVars == <<imageJob, videoJob, sweepJob>>
laneVars == <<laneOpen, lane, faceRun, sweeper, helper>>

NoSave == [enabled |-> FALSE, to |-> NoRecognizer]
NoVector == [of |-> 0, by |-> NoRecognizer]
NoResult == [state |-> "none", by |-> NoRecognizer]
NoJob == [state |-> "none", again |-> FALSE]
JobRow(state) == [state |-> state, again |-> FALSE]
NoRun == [on |-> FALSE, by |-> NoRecognizer, cancelled |-> FALSE]
NoLane == [pc |-> "idle", kind |-> "image", by |-> NoRecognizer, under |-> 0, of |-> 0,
           embedded |-> FALSE, allowed |-> FALSE, outcome |-> "ok"]

\* The owner has just given the person a face.
FaceInit ==
  /\ enabled \in BOOLEAN /\ recognizer \in Recognizers /\ generation = 0
  /\ runtime \in SUBSET Recognizers
  /\ saves = 0 /\ restarts = 0 /\ saver = NoSave /\ asked = FALSE
  /\ revision = 1 /\ hasFace = TRUE /\ present = TRUE /\ strayed = FALSE
  /\ vector = NoVector /\ centroid = NoRecognizer /\ result = NoResult
  /\ imageJob = JobRow("queued") /\ videoJob = NoJob /\ sweepJob = NoJob
  /\ laneOpen = FALSE /\ lane = NoLane /\ faceRun = NoRun
  /\ sweeper = "idle" /\ helper = NoRecognizer
  /\ overlooked = FALSE

Current == vector.of = revision /\ vector.by = recognizer
StaleFace == hasFace /\ ~Current

-----------------------------------------------------------------------------
(* The owner.                                                              *)

\* Mutant: a request over a running job is taken for done.
RequestedOnce(job) == IF job.state \in {"queued", "running"} THEN job ELSE JobRow("queued")

\* queueSubjectJob: a request over a running job runs it again.
Requested(job) ==
  CASE job.state = "running" -> [job EXCEPT !.again = TRUE]
    [] job.state = "queued" -> job
    [] OTHER -> JobRow("queued")

\* queueContentSubject: the video waits for its analysis, without a result.  It
\* is queued only while it is registered and neither queued nor running.
Queueable == present /\ videoJob = NoJob
QueueContent ==
  /\ Queueable
  /\ videoJob' = JobRow("queued") /\ result' = NoResult /\ strayed' = FALSE

\* SaveFaceSettings, with switchFaceRecognizer when the recognizer changes.  An
\* analysed video that is away keeps its result.
SaveFaceSettings(on, to) ==
  /\ saver = NoSave /\ saves < MaxSaves
  /\ saves' = saves + 1
  /\ saver' = [enabled |-> on, to |-> to]
  /\ enabled' = on /\ recognizer' = to
  /\ IF to = recognizer THEN UNCHANGED <<generation, dataVars, jobVars, strayed, overlooked>>
     ELSE /\ generation' = generation + 1
          /\ overlooked' = FALSE
          /\ vector' = IF vector.by = to THEN vector ELSE NoVector
          /\ centroid' = IF centroid = to THEN centroid ELSE NoRecognizer
          /\ IF Queueable /\ result # NoResult THEN QueueContent
             ELSE UNCHANGED <<videoJob, result>> /\ strayed' = (result # NoResult)
          /\ sweepJob' = Requested(sweepJob)
          /\ UNCHANGED imageJob
  /\ UNCHANGED <<runtime, restarts, asked, revision, hasFace, present, laneVars>>

\* SettingsChanged, under the same lock as the save.
SettingsChanged ==
  /\ saver # NoSave
  /\ faceRun' = [faceRun EXCEPT !.cancelled =
       @ \/ (faceRun.on /\ (~saver.enabled \/ faceRun.by # saver.to))]
  /\ helper' = IF ~faceRun.on /\ ~saver.enabled THEN NoRecognizer ELSE helper
  /\ saver' = NoSave
  /\ UNCHANGED <<enabled, recognizer, generation, runtime, saves, restarts, asked, personVars,
                 dataVars, jobVars, laneOpen, lane, sweeper, overlooked>>

\* A runtime is downloaded, or found broken.
RuntimeTurns(r) ==
  /\ runtime' = IF r \in runtime THEN runtime \ {r} ELSE runtime \cup {r}
  /\ UNCHANGED <<settingVars, personVars, dataVars, jobVars, laneVars, overlooked>>

\* The owner sets or replaces the face, or removes it.
ChangeFace(there) ==
  /\ revision \in 1..(MaxRevision - 1) /\ (hasFace \/ there)
  /\ revision' = revision + 1
  /\ hasFace' = there
  /\ imageJob' = IF there THEN Requested(imageJob) ELSE imageJob
  /\ overlooked' = FALSE
  /\ UNCHANGED <<settingVars, runtime, present, strayed, dataVars, videoJob, sweepJob, laneVars>>

VideoRest == UNCHANGED <<runtime, revision, hasFace, vector, centroid, imageJob, sweepJob, laneVars, overlooked>>

\* A scan removes the video's last registered location, or finds its file again.
VideoMoves ==
  /\ present' = ~present
  /\ UNCHANGED <<settingVars, strayed, result, videoJob>> /\ VideoRest

\* The owner asks for the library or retries the video: the setting is read ...
AskForVideo ==
  /\ enabled /\ ~asked /\ asked' = TRUE
  /\ UNCHANGED <<enabled, recognizer, generation, saves, restarts, saver>>
  /\ UNCHANGED <<present, strayed, result, videoJob>> /\ VideoRest

\* ... and the video queued: QueueLibrary takes one without a done result,
\* RetryVideo any.
QueueVideo ==
  /\ asked /\ asked' = FALSE
  /\ \/ QueueContent
     \/ /\ ~Queueable \/ result.state = "done"
        /\ UNCHANGED <<videoJob, result, strayed>>
  /\ UNCHANGED <<enabled, recognizer, generation, saves, restarts, saver, present>> /\ VideoRest

\* queueAfterSeekStage reads the setting in its own transaction: an import takes
\* a video never queued, a forced one any.
FollowUp ==
  /\ enabled /\ QueueContent
  /\ UNCHANGED <<settingVars, present>> /\ VideoRest

ClearPeople ==
  /\ revision # 0
  /\ generation' = generation + 1
  /\ revision' = 0 /\ hasFace' = FALSE
  /\ vector' = NoVector /\ centroid' = NoRecognizer /\ result' = NoResult
  /\ videoJob' = IF enabled /\ Queueable THEN JobRow("queued") ELSE videoJob
  /\ strayed' = FALSE /\ overlooked' = FALSE
  /\ UNCHANGED <<enabled, recognizer, saves, restarts, saver, asked, runtime, present, imageJob,
                 sweepJob, laneVars>>

-----------------------------------------------------------------------------
(* The lane: claim, begin, FaceImage or FaceJob, start, work, end.         *)

Unchanged == UNCHANGED <<settingVars, runtime, personVars, overlooked, sweepJob, sweeper>>
LaneGoes(pc) == lane' = [lane EXCEPT !.pc = pc]
Ends(outcome) == lane' = [lane EXCEPT !.pc = "ending", !.outcome = outcome]

ReadPaused ==
  /\ laneOpen' = (enabled /\ recognizer \in runtime)
  /\ UNCHANGED <<dataVars, jobVars, lane, faceRun, helper>> /\ Unchanged

ClaimLane(kind) ==
  /\ laneOpen /\ lane.pc = "idle"
  /\ lane' = [NoLane EXCEPT !.pc = "claimed", !.kind = kind]
  /\ \/ kind = "image" /\ imageJob.state = "queued"
        /\ imageJob' = JobRow("running") /\ UNCHANGED videoJob
     \/ kind = "video" /\ videoJob.state = "queued" /\ present
        /\ videoJob' = JobRow("running") /\ UNCHANGED imageJob
  /\ UNCHANGED <<dataVars, laneOpen, faceRun, helper>> /\ Unchanged

\* The claim drops the job of a video that is away and finds no other.
DropVideo ==
  /\ laneOpen /\ lane.pc = "idle"
  /\ videoJob.state = "queued" /\ ~present
  /\ videoJob' = NoJob
  /\ UNCHANGED <<dataVars, imageJob, laneOpen, lane, faceRun, helper>> /\ Unchanged

BeginRun ==
  /\ lane.pc = "claimed" /\ LaneGoes("reading")
  /\ faceRun' = [NoRun EXCEPT !.on = TRUE]
  /\ UNCHANGED <<dataVars, imageJob, videoJob, laneOpen, helper>> /\ Unchanged

LaneOnly == UNCHANGED <<dataVars, imageJob, videoJob, laneOpen, faceRun, helper>> /\ Unchanged

\* The recognizer, the generation and the face with its vector in one read.
ReadSubject ==
  /\ lane.pc = "reading" /\ ~faceRun.cancelled
  /\ IF lane.kind = "image" /\ ~hasFace THEN Ends("ok")
     ELSE lane' = [lane EXCEPT !.pc = "starting", !.by = recognizer, !.under = generation,
                               !.of = revision, !.embedded = Current]
  /\ LaneOnly

\* start reads the settings ...
ReadSettings ==
  /\ lane.pc = "starting" /\ ~faceRun.cancelled
  /\ lane' = [lane EXCEPT !.pc = "read", !.allowed = enabled /\ recognizer = lane.by]
  /\ LaneOnly

\* ... and records the recognizer; the first frame or face starts the helper.
StartWork ==
  /\ lane.pc = "read"
  /\ faceRun' = [faceRun EXCEPT !.by = lane.by]
  /\ IF ~lane.allowed \/ faceRun.cancelled
     THEN Ends("snooze") /\ UNCHANGED helper
     ELSE /\ LaneGoes("working")
          /\ helper' = IF lane.kind = "image" /\ lane.embedded THEN helper ELSE lane.by
  /\ UNCHANGED <<dataVars, imageJob, videoJob, laneOpen>> /\ Unchanged

\* A database call or a frame finds its context cancelled.
Interrupted ==
  /\ lane.pc \in {"reading", "starting", "working"} /\ faceRun.cancelled
  /\ Ends("snooze")
  /\ LaneOnly

\* The helper does not start, which marks the runtime, or the database or, for
\* a video, a frame fails.
WorkFails ==
  /\ \/ lane.pc \in {"reading", "starting", "working"} /\ Ends("error") /\ UNCHANGED runtime
     \/ lane.pc = "working" /\ helper = lane.by /\ Ends("snooze") /\ runtime' = runtime \ {lane.by}
  /\ UNCHANGED <<settingVars, personVars, overlooked, dataVars, jobVars, laneOpen, faceRun, sweeper, helper>>

\* Mutant: the generation is not compared.
StoresAnyGeneration ==
  /\ lane.pc = "working" /\ lane.kind = "image" /\ ~faceRun.cancelled
  /\ Ends("ok")
  /\ overlooked' = FALSE
  /\ vector' = IF hasFace /\ ~lane.embedded THEN [of |-> lane.of, by |-> lane.by] ELSE vector
  /\ UNCHANGED <<centroid, result, jobVars, laneOpen, faceRun, helper, settingVars, runtime, personVars, sweeper>>

\* StoreFaceImageVector.
StoreVector ==
  /\ lane.pc = "working" /\ lane.kind = "image" /\ ~faceRun.cancelled
  /\ IF lane.under # generation \/ (hasFace /\ lane.of # revision)
     THEN Ends("snooze") /\ UNCHANGED <<vector, overlooked>>
     ELSE /\ Ends("ok")
          /\ overlooked' = FALSE
          /\ vector' = IF hasFace /\ ~lane.embedded THEN [of |-> lane.of, by |-> lane.by] ELSE vector
  /\ UNCHANGED <<centroid, result, jobVars, laneOpen, faceRun, helper, settingVars, runtime, personVars, sweeper>>

\* FaceStore.Store: the result and the end of the row in one transaction.  For a
\* video that has left only the row ends; what was stored stays for its return.
StoreAnalysis ==
  /\ lane.pc = "working" /\ lane.kind = "video" /\ ~faceRun.cancelled
  /\ IF lane.under # generation
     THEN Ends("snooze") /\ UNCHANGED <<centroid, result, videoJob>>
     ELSE /\ Ends("ok")
          /\ videoJob' = NoJob
          /\ IF present THEN /\ result' = [state |-> "done", by |-> lane.by]
                             /\ centroid' \in {NoRecognizer, lane.by}
             ELSE UNCHANGED <<centroid, result>>
  /\ UNCHANGED <<vector, imageJob, laneOpen, faceRun, helper>> /\ Unchanged

EndRun ==
  /\ lane.pc = "ending" /\ LaneGoes("closing")
  /\ faceRun' = NoRun
  /\ UNCHANGED <<dataVars, imageJob, videoJob, laneOpen, helper>> /\ Unchanged

\* closeIdleHelper; a queued job may wait for its retry.
CloseIdleHelper ==
  /\ lane.pc = "closing" /\ LaneGoes("recording")
  /\ \/ helper' = NoRecognizer
     \/ /\ "queued" \in {imageJob.state, videoJob.state}
        /\ enabled /\ recognizer \in runtime
        /\ UNCHANGED helper
  /\ UNCHANGED <<dataVars, imageJob, videoJob, laneOpen, faceRun>> /\ Unchanged

\* completeSubjectJob and failSubjectJob; a counted failure waits or is the last.
ImageJobAfter(outcome) ==
  CASE outcome = "ok" -> {IF imageJob.again THEN JobRow("queued") ELSE NoJob}
    [] outcome = "snooze" -> {JobRow("queued")}
    [] outcome = "error" -> {JobRow("queued"), IF imageJob.again THEN JobRow("queued") ELSE JobRow("failed")}

RecordImage ==
  /\ lane.pc = "recording" /\ lane.kind = "image"
  /\ imageJob' \in ImageJobAfter(lane.outcome)
  /\ lane' = NoLane
  /\ UNCHANGED <<dataVars, videoJob, laneOpen, faceRun, helper>> /\ Unchanged

\* A stored analysis ended its row; failContentJob ends the others.
RecordVideo ==
  /\ lane.pc = "recording" /\ lane.kind = "video"
  /\ \/ lane.outcome = "ok" /\ UNCHANGED <<videoJob, result>>
     \/ lane.outcome # "ok" /\ videoJob' = JobRow("queued") /\ UNCHANGED result
     \/ lane.outcome = "error" /\ videoJob' = NoJob /\ result' = [NoResult EXCEPT !.state = "failed"]
  /\ lane' = NoLane
  /\ UNCHANGED <<vector, centroid, imageJob, laneOpen, faceRun, helper>> /\ Unchanged

-----------------------------------------------------------------------------
(* The sweep, beside the lane, and the restart.                            *)

ClaimSweep ==
  /\ sweepJob.state = "queued" /\ sweeper = "idle"
  /\ sweepJob' = JobRow("running") /\ sweeper' = "working"
  /\ UNCHANGED <<settingVars, runtime, personVars, dataVars, imageJob, videoJob, laneOpen, lane, faceRun, helper, overlooked>>

\* The lane's job has stored its vector and its row still says running.
StoredOnly == imageJob.state = "running" /\ ~imageJob.again
  /\ lane.pc \in {"ending", "closing", "recording"} /\ lane.outcome = "ok"

\* QueueStaleFaceImages skips a person whose job is unfinished.
QueueStaleFaceImages ==
  /\ sweeper = "working" /\ sweeper' = "swept"
  /\ imageJob' = IF StaleFace /\ imageJob.state \notin {"queued", "running"} THEN JobRow("queued") ELSE imageJob
  /\ overlooked' = (overlooked \/ (StaleFace /\ StoredOnly))
  /\ UNCHANGED <<settingVars, runtime, personVars, dataVars, videoJob, sweepJob, laneOpen, lane, faceRun, helper>>

RecordSweep ==
  /\ sweeper = "swept" /\ sweeper' = "idle"
  /\ sweepJob' = IF sweepJob.again THEN JobRow("queued") ELSE NoJob
  /\ UNCHANGED <<settingVars, runtime, personVars, dataVars, imageJob, videoJob, laneOpen, lane, faceRun, helper, overlooked>>

\* RequeueRunningJobs.
Requeued(job) == IF job.state = "running" THEN JobRow("queued") ELSE job

RestartFaces ==
  /\ restarts < MaxRestarts
  /\ restarts' = restarts + 1
  /\ saver' = NoSave /\ asked' = FALSE
  /\ imageJob' = Requeued(imageJob) /\ videoJob' = Requeued(videoJob) /\ sweepJob' = Requeued(sweepJob)
  /\ laneOpen' = FALSE /\ lane' = NoLane /\ faceRun' = NoRun /\ sweeper' = "idle" /\ helper' = NoRecognizer
  /\ overlooked' = (overlooked /\ imageJob.state # "running")
  /\ UNCHANGED <<enabled, recognizer, generation, saves, runtime, personVars, dataVars>>

LaneStep ==
  \/ BeginRun \/ ReadSubject \/ ReadSettings \/ StartWork \/ Interrupted \/ WorkFails
  \/ StoreVector \/ StoreAnalysis \/ EndRun \/ CloseIdleHelper \/ RecordImage \/ RecordVideo

VideoStep == VideoMoves \/ AskForVideo \/ QueueVideo \/ FollowUp \/ DropVideo

SweepStep == ClaimSweep \/ QueueStaleFaceImages \/ RecordSweep

FaceNext ==
  \/ \E on \in BOOLEAN, to \in Recognizers : SaveFaceSettings(on, to)
  \/ SettingsChanged
  \/ \E r \in Recognizers : RuntimeTurns(r)
  \/ \E there \in BOOLEAN : ChangeFace(there)
  \/ VideoStep \/ ClearPeople
  \/ ReadPaused \/ \E kind \in {"image", "video"} : ClaimLane(kind)
  \/ LaneStep \/ SweepStep \/ RestartFaces

FaceSpec == FaceInit /\ [][FaceNext]_faceVars

-----------------------------------------------------------------------------
(* Properties.                                                             *)

JobRows == [state : {"none", "queued", "running", "failed"}, again : BOOLEAN]
AnyRecognizer == Recognizers \cup {NoRecognizer}

FaceTypeOK ==
  /\ enabled \in BOOLEAN /\ recognizer \in Recognizers /\ generation \in 0..(MaxSaves + 1)
  /\ runtime \subseteq Recognizers /\ saves \in 0..MaxSaves /\ restarts \in 0..MaxRestarts
  /\ saver \in [enabled : BOOLEAN, to : AnyRecognizer]
  /\ revision \in 0..MaxRevision /\ {hasFace, asked, present, strayed} \subseteq BOOLEAN
  /\ vector \in [of : 0..MaxRevision, by : AnyRecognizer] /\ centroid \in AnyRecognizer
  /\ result \in [state : {"none", "done", "failed"}, by : AnyRecognizer]
  /\ {imageJob, videoJob, sweepJob} \subseteq JobRows
  /\ laneOpen \in BOOLEAN /\ helper \in AnyRecognizer /\ sweeper \in {"idle", "working", "swept"}
  /\ lane.pc \in {"idle", "claimed", "reading", "starting", "read", "working", "ending", "closing", "recording"}
  /\ faceRun \in [on : BOOLEAN, by : AnyRecognizer, cancelled : BOOLEAN]

\* Everything stored is of the recognizer that is set, whatever ran while it was
\* switched, and with the feature off no helper outlives the lane's last job
\* (face_settings.go:41, face_recognizer.go:145).  The exception is the result of
\* a video that was away at a switch: its vectors go, and its result stays
\* (face_settings.go:90) until it is queued again.
SettingsObeyed ==
  /\ {vector.by, centroid} \subseteq {recognizer, NoRecognizer}
  /\ result.by \in {recognizer, NoRecognizer} \/ strayed
  /\ ~enabled /\ saver = NoSave /\ lane.pc = "idle" => helper = NoRecognizer

\* A face without a current vector has work that will embed it, unless its last
\* attempt failed for good: "a queue_face_images job, which queues every face
\* again" (face_settings.go:73).  The exception is a face whose job had stored a
\* vector, since deleted by a switch, when the sweep met its running row
\* (face_images.go:50): nothing embeds it until the next request.
StaleFaceHasJob ==
  StaleFace =>
    \/ imageJob.state \in {"queued", "failed"}
    \/ imageJob.state = "running" /\ ~StoredOnly
    \/ sweepJob.state = "queued" \/ sweepJob.again \/ sweeper = "working"
    \/ overlooked
=============================================================================
