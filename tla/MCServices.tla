----------------------------- MODULE MCServices -----------------------------
(***************************************************************************)
(* Small instances of three parts that share no state: the start and end   *)
(* of the process over the event bus, the generated files of one content,  *)
(* and the face lane.  A behaviour is about one of them, chosen at the     *)
(* start, and the others rest.                                             *)
(*                                                                         *)
(* The process has a wake-up and the release subscriber, a request, a job  *)
(* and the scan.  A face and a video meet two changes: settings saved, a   *)
(* restart, a broken runtime, a replaced face, cleared people.             *)
(***************************************************************************)
EXTENDS Shutdown, Artifacts, FaceLane, FiniteSets, TLC

CONSTANT r1     \* the recognizer set at first

VARIABLE about
Services == {"process", "files", "faces"}

vars == <<about, busVars, shutVars, artVars, faceVars>>

ServicesInit ==
  /\ about \in Services
  /\ ShutdownInit /\ ArtInit /\ FaceInit
  /\ about # "files" => kind = "preview"
  /\ recognizer = r1
  /\ about # "faces" => enabled /\ runtime = {}

OfProcess ==
  about = "process" /\ UNCHANGED <<about, artVars, faceVars>>
OfFiles ==
  about = "files" /\ UNCHANGED <<about, busVars, shutVars, faceVars>>
OfFaces ==
  about = "faces" /\ UNCHANGED <<about, busVars, shutVars, artVars>>

\* The steps of the bus in which the rest of the process takes no part.
OfBus == OfProcess /\ UNCHANGED shutVars

\* The next-state relation of one part, action by action.
ServicesNext ==
  \/ \E s \in Subs : OfProcess /\ StartSubscriber(s)
  \/ OfProcess /\ StartBackground
  \/ OfProcess /\ Listen
  \/ OfProcess /\ StartupFails
  \/ \E w \in Writers : OfProcess /\ Begin(w)
  \/ \E w \in Writers : OfProcess /\ Commit(w)
  \/ \E w \in Writers : OfProcess /\ EndsQuietly(w)
  \/ \E w \in Writers, n \in 1..MaxBatch : OfProcess /\ PublishRelease(w, n)
  \/ OfProcess /\ ReleaseArtifacts
  \/ \E n \in cleaning : OfProcess /\ FilesRemoved(n)
  \/ OfProcess /\ StopSignal
  \/ \E s \in Subs : OfProcess /\ DropSubscriber(s)
  \/ OfProcess /\ ScreensClosed
  \/ OfProcess /\ Drain
  \/ OfProcess /\ WakersDropped
  \/ OfProcess /\ StopBackground
  \/ OfProcess /\ WorkersDone
  \/ OfProcess /\ WaitForScan
  \/ OfProcess /\ CloseBus
  \/ OfProcess /\ BusDrained
  \/ OfProcess /\ CloseDatabase
  \/ \E s \in Subs : OfBus /\ Enqueue(s)
  \/ \E s \in Subs : OfBus /\ StopSubscriber(s)
  \/ \E s \in Subs : OfBus /\ Unsubscribed(s)
  \/ \E s \in Subs : OfBus /\ CloseSignals(s)
  \/ OfBus /\ CloseWaits
  \/ OfBus /\ CloseReturns
  \/ \E s \in Subs : OfBus /\ Stopped(s)
  \/ \E s \in Subs : OfBus /\ WakesUp(s)
  \/ \E s \in Subs : OfBus /\ GoesOn(s)
  \/ \E s \in Subs : OfBus /\ NothingNext(s)
  \/ \E s \in Subs : OfBus /\ Deliver(s)
  \/ \E s \in Subs \ {Releaser} : OfBus /\ Handled(s)
  \/ OfFiles /\ Register
  \/ OfFiles /\ Unreference
  \/ \E force \in BOOLEAN : OfFiles /\ Claim(force)
  \/ OfFiles /\ Lock
  \/ OfFiles /\ Stage
  \/ OfFiles /\ Place
  \/ OfFiles /\ SwitchBuild
  \/ OfFiles /\ RemoveOld
  \/ OfFiles /\ GenerationFails
  \/ OfFiles /\ Record
  \/ OfFiles /\ Cleanup
  \/ OfFiles /\ BeginRemoval
  \/ \E b \in Builds : OfFiles /\ RemoveBuild(b)
  \/ OfFiles /\ EndRemoval
  \/ OfFiles /\ Crash
  \/ OfFiles /\ ReadPointer
  \/ OfFiles /\ OpenFirst
  \/ OfFiles /\ ReadSecond
  \/ OfFiles /\ ResolveAgain
  \/ OfFiles /\ EndRead
  \/ \E on \in BOOLEAN, to \in Recognizers : OfFaces /\ SaveFaceSettings(on, to)
  \/ OfFaces /\ SettingsChanged
  \/ \E r \in Recognizers : OfFaces /\ RuntimeTurns(r)
  \/ \E there \in BOOLEAN : OfFaces /\ ChangeFace(there)
  \/ OfFaces /\ VideoMoves
  \/ OfFaces /\ AskForVideo
  \/ OfFaces /\ QueueVideo
  \/ OfFaces /\ FollowUp
  \/ OfFaces /\ ClearPeople
  \/ OfFaces /\ ReadPaused
  \/ \E k \in {"image", "video"} : OfFaces /\ ClaimLane(k)
  \/ OfFaces /\ DropVideo
  \/ OfFaces /\ BeginRun
  \/ OfFaces /\ ReadSubject
  \/ OfFaces /\ ReadSettings
  \/ OfFaces /\ StartWork
  \/ OfFaces /\ Interrupted
  \/ OfFaces /\ WorkFails
  \/ OfFaces /\ StoreVector
  \/ OfFaces /\ StoreAnalysis
  \/ OfFaces /\ EndRun
  \/ OfFaces /\ CloseIdleHelper
  \/ OfFaces /\ RecordImage
  \/ OfFaces /\ RecordVideo
  \/ OfFaces /\ ClaimSweep
  \/ OfFaces /\ QueueStaleFaceImages
  \/ OfFaces /\ RecordSweep
  \/ OfFaces /\ RestartFaces

ServicesSpec == ServicesInit /\ [][ServicesNext]_vars

\* Bound: of the writers, two begin.
TwoCommit == Cardinality({w \in Writers : writer[w] # "idle"}) <= 2

\* Bound: of saves, restarts, broken runtimes, a replaced face, cleared people
\* and the video's analysis, two happen.
Number(b) == IF b THEN 1 ELSE 0
TwoChanges ==
  about = "faces" =>
    saves + restarts + Cardinality(Recognizers \ runtime) + Number(revision # 1)
      + Number(asked \/ ~present \/ videoJob # NoJob \/ result # NoResult) <= 2

\* Bound: generations and videos together, and one build of which only a part is left.
FewFiles ==
  about = "files" =>
    /\ made + videos <= IF kind = "seek" THEN 3 ELSE 4
    /\ Cardinality({b \in Left : ~Whole(b)}) <= 1

\* Every part keeps its types.
ServicesTypeOK ==
  /\ ShutdownTypeOK /\ ArtTypeOK /\ FaceTypeOK
=============================================================================
