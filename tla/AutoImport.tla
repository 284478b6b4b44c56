----------------------------- MODULE AutoImport -----------------------------
(***************************************************************************)
(* Automatic import, internal/app/auto_import.go, composed with the scan   *)
(* runs it starts and stops (Scans).                                       *)
(*                                                                         *)
(* The watcher reports changed directories; a timer moves the ones that    *)
(* have settled into one watch scan.  Disabling and a change of the media  *)
(* folders hold the starts, supersede the scan that runs, and afterwards   *)
(* the watches are armed again by a goroutine of their own.                *)
(*                                                                         *)
(* mu is one step; startMu is held from the start of a batch's scan until  *)
(* the outcome of that start is known, setMu by a disabling in progress,   *)
(* armMu by the one goroutine that arms.                                   *)
(***************************************************************************)
EXTENDS Scans

CONSTANTS
  Holders,          \* requests that disable automatic import or change the folders
  Arms              \* goroutines in armTree

VARIABLES
  enabled,
  notice,           \* directories whose notification is on its way
  dirty, inflight,  \* as in the code
  timer,            \* a timer runs
  batch,            \* the goroutine in fire; finished: a scan ended since it took its directories
  rerun,
  holder,           \* where each of Holders is
  watching,         \* the watcher has a session
  arm,              \* where each of Arms is
  watchState,
  problem,          \* events_lost, or unwatched: a folder or a directory is not watched
  lostNew,          \* the problem is a loss, and lostGen # scanLostGen
  uncovered         \* the arming asked for last left something unwatched

dirVars == <<notice, dirty, inflight, timer, batch, rerun>>
watchVars == <<watching, arm, watchState, problem, lostNew, uncovered>>
autoVars == <<enabled, dirVars, holder, watchVars>>
vars == <<scansVars, autoVars>>

NoBatch == [pc |-> "idle", dirs |-> {}, finished |-> FALSE]
Ended == [NoBatch EXCEPT !.pc = "ending"]
NoHold == [pc |-> "idle", op |-> "folders", batch |-> {}, gaveUp |-> FALSE]
NoArm == [pc |-> "none", stale |-> FALSE]

\* Start arms the watches if the saved setting is on, and starts no scan.
FirstArms(on) ==
  {[b \in Arms |-> IF on /\ a = b THEN [NoArm EXCEPT !.pc = "waiting"] ELSE NoArm] : a \in Arms}

StateOf(on) == IF on THEN "starting" ELSE "off"

AutoInit ==
  /\ ScansInit
  /\ enabled \in BOOLEAN /\ arm \in FirstArms(enabled) /\ watchState = StateOf(enabled)
  /\ notice = {} /\ dirty = {} /\ inflight = {}
  /\ timer = FALSE /\ rerun = FALSE /\ batch = NoBatch
  /\ holder = [h \in Holders |-> NoHold]
  /\ watching = FALSE /\ problem = "none" /\ lostNew = FALSE /\ uncovered = FALSE

Holding == \E h \in Holders : holder[h].pc \notin {"idle", "disarm"}
SettingBusy == \E h \in Holders : holder[h].op = "disable" /\ holder[h].pc # "idle"
StartHeld == batch.pc \in {"opening", "opened", "refused", "failed"}

-----------------------------------------------------------------------------
(* Changes on disk and their notifications.                                *)

Becomes(dirs, since) == disk' = [d \in Dirs |-> IF d \in dirs THEN since ELSE disk[d]]

Change(d) ==
  /\ enabled /\ watching
  /\ Becomes({d}, "changed") /\ notice' = notice \cup {d}
  /\ UNCHANGED <<scanRow, run, caller, enabled, dirty, inflight, timer, batch, rerun, holder, watchVars>>

Changed(d) ==
  /\ d \in notice
  /\ notice' = notice \ {d}
  /\ IF enabled THEN dirty' = dirty \cup {d} /\ timer' = TRUE ELSE UNCHANGED <<dirty, timer>>
  /\ UNCHANGED <<scansVars, enabled, inflight, batch, rerun, holder, watchVars>>

\* The system drops the notification and the watcher reports an overflow.
EventsLost(d) ==
  /\ d \in notice /\ enabled
  /\ notice' = notice \ {d} /\ Becomes({d} \cap Unread, "lost")
  /\ problem' = "events_lost" /\ watchState' = "limited" /\ lostNew' = TRUE
  /\ UNCHANGED <<scanRow, run, caller, enabled, dirty, inflight, timer, batch, rerun, holder, watching, arm, uncovered>>

-----------------------------------------------------------------------------
(* fire and start.                                                         *)

\* A timer that fires once the import is off finds nothing to do; one that meets
\* a batch is repeated after it.
Fire ==
  /\ timer /\ timer' = FALSE
  /\ rerun' = (rerun \/ (enabled /\ batch.pc # "idle"))
  /\ IF enabled /\ batch.pc = "idle" /\ ~Holding /\ inflight = {} /\ dirty # {}
     THEN batch' = [pc |-> "settling", dirs |-> dirty, finished |-> FALSE] /\ dirty' = {}
     ELSE UNCHANGED <<batch, dirty>>
  /\ UNCHANGED <<scansVars, enabled, notice, inflight, holder, watchVars>>

\* settledSplit: the unsettled directories go back and are looked at later.
Settle ==
  /\ batch.pc = "settling"
  /\ \E moving \in SUBSET batch.dirs :
       LET settled == batch.dirs \ moving IN
       /\ batch' = IF settled = {} THEN Ended ELSE [batch EXCEPT !.dirs = settled, !.pc = "starting"]
       /\ IF enabled /\ moving # {} THEN dirty' = dirty \cup moving /\ timer' = TRUE
          ELSE UNCHANGED <<dirty, timer>>
  /\ UNCHANGED <<scansVars, enabled, notice, inflight, rerun, holder, watchVars>>

\* start takes startMu, then decides.
Start ==
  /\ batch.pc = "starting"
  /\ \/ ~enabled /\ batch' = Ended /\ UNCHANGED <<dirty, inflight>>
     \/ enabled /\ Holding /\ batch' = Ended /\ dirty' = dirty \cup batch.dirs /\ UNCHANGED inflight
     \/ enabled /\ ~Holding /\ batch' = [batch EXCEPT !.pc = "opening"] /\ inflight' = batch.dirs /\ UNCHANGED dirty
  /\ UNCHANGED <<scansVars, enabled, notice, timer, rerun, holder, watchVars>>

\* StartWatchScan in the store.
OpenWatchScan ==
  /\ batch.pc = "opening"
  /\ \/ /\ scanRow = "none"
        /\ scanRow' = "watch"
        /\ \E pc \in {"opened", "failed"} : batch' = [batch EXCEPT !.pc = pc]
     \/ /\ scanRow # "none"
        /\ batch' = [batch EXCEPT !.pc = "refused"]
        /\ UNCHANGED scanRow
     \/ /\ batch' = [batch EXCEPT !.pc = "failed"]
        /\ UNCHANGED scanRow
  /\ UNCHANGED <<run, caller, disk, enabled, notice, dirty, inflight, timer, rerun, holder, watchVars>>

\* The scan runs; reading its counts may fail all the same.
EnterWatchScan ==
  /\ batch.pc = "opened"
  /\ run' = IF run.pc # "none" THEN run ELSE Begun("watch", batch.dirs)
  /\ batch' = Ended \/ batch' = [batch EXCEPT !.pc = "failed"]
  /\ UNCHANGED <<scanRow, caller, disk, enabled, notice, dirty, inflight, timer, rerun, holder, watchVars>>

\* Mutant: a refused start relies on the end of the scan that refused it.
NotStartedUnseen ==
  /\ batch.pc \in {"refused", "failed"}
  /\ inflight' = {}
  /\ IF enabled THEN dirty' = dirty \cup batch.dirs /\ timer' = (timer \/ batch.pc = "failed")
     ELSE UNCHANGED <<dirty, timer>>
  /\ batch' = Ended
  /\ UNCHANGED <<scansVars, enabled, notice, rerun, holder, watchVars>>

\* A start that failed is tried again; one that was refused is scheduled by the
\* end of that scan, or here if that end came first.
NotStarted ==
  /\ batch.pc \in {"refused", "failed"}
  /\ inflight' = {}
  /\ IF enabled
     THEN dirty' = dirty \cup batch.dirs /\ timer' = (timer \/ batch.pc = "failed" \/ batch.finished)
     ELSE UNCHANGED <<dirty, timer>>
  /\ batch' = Ended
  /\ UNCHANGED <<scansVars, enabled, notice, rerun, holder, watchVars>>

EndBatch ==
  /\ batch.pc = "ending"
  /\ batch' = NoBatch
  /\ rerun' = FALSE
  /\ timer' = (timer \/ (rerun /\ dirty # {}))
  /\ UNCHANGED <<scansVars, enabled, notice, dirty, inflight, holder, watchVars>>

-----------------------------------------------------------------------------
(* The scans' callbacks, in their critical sections.                       *)

\* ScanStarted.
EnterScan(c) ==
  /\ Enter(c)
  /\ lostNew' = (lostNew /\ run.pc # "none")
  /\ UNCHANGED <<enabled, dirVars, holder, watching, arm, watchState, problem, uncovered>>

\* Mutant: any manual scan clears the loss.
ClearsAnyLoss == run.kind # "watch" /\ run.done /\ problem = "events_lost"

\* A full manual scan that began after the last loss.
ClearsLoss == run.kind = "full" /\ run.done /\ problem = "events_lost" /\ ~lostNew

\* Directories of a watch scan that failed, or that an owner's full scan
\* superseded, do not go back.
OwnersTurn ==
  IF run.kind = "watch" /\ ~run.requeue /\ (run.byOwner \/ ~run.done) THEN run.left \cap Unread ELSE {}

\* ScanFinished.
FinishScan ==
  /\ EndRun
  /\ dirty' = IF run.kind = "watch" /\ run.requeue /\ enabled THEN dirty \cup inflight ELSE dirty
  /\ inflight' = IF run.kind = "watch" THEN {} ELSE inflight
  /\ problem' = IF ClearsLoss THEN "none" ELSE problem
  /\ watchState' = IF ClearsLoss /\ watchState = "limited" THEN "active" ELSE watchState
  /\ timer' = (timer \/ (enabled /\ dirty' # {}))
  /\ batch' = [batch EXCEPT !.finished = batch.pc \in {"settling", "starting", "opening", "refused", "failed"}]
  /\ Becomes(OwnersTurn, "left")
  /\ UNCHANGED <<enabled, notice, rerun, holder, watching, arm, lostNew, uncovered>>

ScanSteps(c) ==
  /\ \/ \E request \in Requests : Ask(c, request)
     \/ Retry(c) \/ GiveUp(c) \/ OpenScan(c) \/ CheckRefusal(c)
  /\ UNCHANGED autoVars

RunSteps ==
  /\ (\E d \in Dirs : ReadDirectory(d)) \/ StopScanning \/ FinishRow
  /\ UNCHANGED autoVars

-----------------------------------------------------------------------------
(* holdStarts, SetEnabled, FoldersChanging and FoldersChanged.             *)

HoldMoves(h, pc) == holder' = [holder EXCEPT ![h].pc = pc]

\* A disabling holds setMu to its end.
Hold(h, op) ==
  /\ holder[h].pc = "idle"
  /\ op = "disable" => enabled /\ ~SettingBusy
  /\ holder' = [holder EXCEPT ![h] = [NoHold EXCEPT !.pc = "quiesce", !.op = op]]
  /\ UNCHANGED <<scansVars, enabled, dirVars, watchVars>>

Clones(h) == holder' = [holder EXCEPT ![h].pc = "supersede", ![h].batch = inflight]

\* Mutant: a start that is under way is not waited for.
QuiesceAtOnce(h) ==
  /\ holder[h].pc = "quiesce"
  /\ Clones(h)
  /\ UNCHANGED <<scansVars, enabled, dirVars, watchVars>>

\* quiesceStarts, and the copy of inflight: no start begins between them.
Quiesce(h) ==
  /\ holder[h].pc = "quiesce" /\ ~StartHeld
  /\ Clones(h)
  /\ UNCHANGED <<scansVars, enabled, dirVars, watchVars>>

HoldSupersedes(h) ==
  /\ holder[h].pc = "supersede"
  /\ IF WatchRuns
     THEN run' = Cancelled(FALSE, FALSE) /\ HoldMoves(h, "wait")
     ELSE UNCHANGED run /\ holder' = [holder EXCEPT ![h].pc = "held", ![h].batch = {}]
  /\ UNCHANGED <<scanRow, caller, disk, enabled, dirVars, watchVars>>

\* The watch scan has ended, or the request has.
HoldWaited(h) ==
  /\ holder[h].pc = "wait"
  /\ \/ ~WatchRuns /\ HoldMoves(h, "held")
     \/ holder' = [holder EXCEPT ![h].pc = "held", ![h].gaveUp = TRUE]
  /\ UNCHANGED <<scansVars, enabled, dirVars, watchVars>>

\* requeueLocked.
Requeue(h) ==
  /\ dirty' = dirty \cup holder[h].batch
  /\ inflight' = IF holder[h].batch = {} THEN inflight ELSE {}

FoldersChanging(h) ==
  /\ holder[h].pc = "held" /\ holder[h].op = "folders"
  /\ Requeue(h)
  /\ holder' = [holder EXCEPT ![h].pc = "changing", ![h].batch = {}]
  /\ UNCHANGED <<scansVars, enabled, notice, timer, batch, rerun, watchVars>>

\* arm: the goroutines that arm already are out of date.
Arm ==
  \E a \in {b \in Arms : arm[b].pc = "none"} :
    arm' = [b \in Arms |-> IF a = b THEN [pc |-> "waiting", stale |-> FALSE] ELSE [arm[b] EXCEPT !.stale = arm[b].pc # "none"]]

Rearm == Arm /\ watchState' = "starting" /\ problem' = "none" /\ lostNew' = FALSE /\ uncovered' = FALSE

FoldersChanged(h) ==
  /\ holder[h].pc = "changing" /\ ~SettingBusy
  /\ holder' = [holder EXCEPT ![h] = NoHold]
  /\ IF enabled THEN Rearm /\ timer' = (timer \/ dirty # {})
     ELSE UNCHANGED <<arm, watchState, problem, lostNew, uncovered, timer>>
  /\ UNCHANGED <<scansVars, enabled, notice, dirty, inflight, batch, rerun, watching>>

\* SaveAutoImport fails, as it does for a request that has ended: what was
\* superseded goes back.
DisableFails(h) ==
  /\ holder[h].pc = "held" /\ holder[h].op = "disable"
  /\ Requeue(h)
  /\ timer' = (timer \/ dirty' # {})
  /\ holder' = [holder EXCEPT ![h] = NoHold]
  /\ UNCHANGED <<scansVars, enabled, notice, batch, rerun, watchVars>>

AllStale == [b \in Arms |-> [arm[b] EXCEPT !.stale = arm[b].pc # "none"]]

Disable(h) ==
  /\ holder[h].pc = "held" /\ holder[h].op = "disable" /\ ~holder[h].gaveUp
  /\ enabled' = FALSE
  /\ dirty' = {} /\ inflight' = {} /\ timer' = FALSE
  /\ problem' = "none" /\ lostNew' = FALSE /\ uncovered' = FALSE /\ watchState' = "off" /\ arm' = AllStale
  /\ Becomes(Dirs, "read")
  /\ holder' = [holder EXCEPT ![h].pc = "disarm", ![h].batch = {}]
  /\ UNCHANGED <<scanRow, run, caller, notice, batch, rerun, watching>>

\* watcher.Disarm: nothing is reported after it.
Disarm == watching' = FALSE /\ notice' = {}

DisarmAfter(h) ==
  /\ holder[h].pc = "disarm"
  /\ Disarm
  /\ holder' = [holder EXCEPT ![h] = NoHold]
  /\ UNCHANGED <<scansVars, enabled, dirty, inflight, timer, batch, rerun, arm, watchState, problem, lostNew, uncovered>>

Enable ==
  /\ ~enabled /\ ~SettingBusy
  /\ enabled' = TRUE
  /\ Rearm
  /\ UNCHANGED <<scansVars, dirVars, holder, watching>>

-----------------------------------------------------------------------------
(* armTree.                                                                *)

Leaves(a) == arm' = [arm EXCEPT ![a] = NoArm]

Covers(a, all) == uncovered' = IF arm[a].stale THEN uncovered ELSE ~all

\* WatchProblem: what is not watched.
Unwatched ==
  /\ problem' = "unwatched" /\ lostNew' = FALSE /\ watchState' = "limited"

\* What a session has not reported is dropped as it stops.
DropSession == notice' = {} /\ Becomes(notice \cap Unread, "left")

\* The folders cannot be listed; the watches that exist stay.
CannotList(a) ==
  /\ arm[a].pc = "waiting"
  /\ Leaves(a)
  /\ Covers(a, FALSE)
  /\ IF arm[a].stale THEN UNCHANGED <<watchState, problem, lostNew>> ELSE Unwatched
  /\ UNCHANGED <<scansVars, enabled, dirVars, holder, watching>>

OutOfDateWith(a, off) ==
  /\ Leaves(a)
  /\ IF off THEN Disarm ELSE UNCHANGED <<watching, notice>>
  /\ UNCHANGED <<watchState, problem>>

\* Mutant: an arming that is out of date just ends.
LeftBehind(a) == OutOfDateWith(a, FALSE)

\* disarmIfOff.
OutOfDate(a) == OutOfDateWith(a, ~enabled)

\* armMu is taken and the generation checked.
CheckGeneration(a) ==
  /\ arm[a].pc = "waiting" /\ \A b \in Arms : arm[b].pc \notin {"checked", "armed"}
  /\ \/ arm[a].stale /\ OutOfDate(a)
     \/ ~arm[a].stale /\ arm' = [arm EXCEPT ![a].pc = "checked"] /\ UNCHANGED <<watching, notice, watchState, problem>>
  /\ UNCHANGED <<scansVars, enabled, dirty, inflight, timer, batch, rerun, holder, lostNew, uncovered>>

\* No media folder exists.
NoFolders(a) ==
  /\ arm[a].pc = "checked"
  /\ Leaves(a)
  /\ watching' = FALSE /\ DropSession
  /\ Covers(a, TRUE)
  /\ watchState' = IF arm[a].stale THEN watchState ELSE "off"
  /\ UNCHANGED <<scanRow, run, caller, enabled, dirty, inflight, timer, batch, rerun, holder, problem, lostNew>>

\* watcher.Arm: a new session, which may meet the watch limit or a folder that
\* cannot be read; or none, when no watcher can be created.
ArmWatcher(a) ==
  /\ arm[a].pc = "checked"
  /\ arm' = [arm EXCEPT ![a].pc = "armed"]
  /\ DropSession
  /\ \/ watching' = TRUE /\ Covers(a, TRUE) /\ UNCHANGED <<problem, lostNew, watchState>>
     \/ /\ watching' \in BOOLEAN /\ Covers(a, FALSE)
        /\ IF enabled THEN Unwatched ELSE UNCHANGED <<problem, lostNew, watchState>>
  /\ UNCHANGED <<scanRow, run, caller, enabled, dirty, inflight, timer, batch, rerun, holder>>

\* Mutant: the generation is not checked again after Arm.
FinishUnchecked(a) ==
  /\ arm[a].pc = "armed"
  /\ Leaves(a)
  /\ watchState' = IF problem = "none" THEN "active" ELSE "limited"
  /\ UNCHANGED <<scansVars, enabled, dirVars, holder, watching, problem, lostNew, uncovered>>

\* An Arm that failed has reported its problem.
FinishArming(a) ==
  /\ arm[a].pc = "armed"
  /\ \/ arm[a].stale /\ OutOfDate(a)
     \/ /\ ~arm[a].stale /\ Leaves(a)
        /\ watchState' = IF problem = "none" THEN "active" ELSE "limited"
        /\ UNCHANGED <<watching, notice, problem>>
  /\ UNCHANGED <<scansVars, enabled, dirty, inflight, timer, batch, rerun, holder, lostNew, uncovered>>

Restart ==
  /\ Recover
  /\ UNCHANGED enabled /\ arm' \in FirstArms(enabled) /\ watchState' = StateOf(enabled)
  /\ notice' = {} /\ dirty' = {} /\ inflight' = {}
  /\ timer' = FALSE /\ rerun' = FALSE /\ batch' = NoBatch
  /\ holder' = [h \in Holders |-> NoHold]
  /\ watching' = FALSE /\ problem' = "none" /\ lostNew' = FALSE /\ uncovered' = FALSE

-----------------------------------------------------------------------------
AutoNext ==
  \/ \E d \in Dirs : Change(d) \/ Changed(d) \/ EventsLost(d)
  \/ Fire \/ Settle \/ Start \/ OpenWatchScan \/ EnterWatchScan \/ NotStarted \/ EndBatch
  \/ \E c \in Callers : ScanSteps(c) \/ EnterScan(c)
  \/ RunSteps \/ FinishScan
  \/ \E h \in Holders :
       \/ \E op \in {"disable", "folders"} : Hold(h, op)
       \/ Quiesce(h) \/ HoldSupersedes(h) \/ HoldWaited(h)
       \/ FoldersChanging(h) \/ FoldersChanged(h)
       \/ DisableFails(h) \/ Disable(h) \/ DisarmAfter(h)
  \/ Enable
  \/ \E a \in Arms : CannotList(a) \/ CheckGeneration(a) \/ NoFolders(a) \/ ArmWatcher(a) \/ FinishArming(a)
  \/ Restart

AutoSpec == AutoInit /\ [][AutoNext]_vars

-----------------------------------------------------------------------------
(* Properties.                                                             *)

AutoTypeOK ==
  /\ ScansTypeOK
  /\ enabled \in BOOLEAN /\ timer \in BOOLEAN /\ rerun \in BOOLEAN
  /\ notice \subseteq Dirs /\ dirty \subseteq Dirs /\ inflight \subseteq Dirs
  /\ batch \in [pc : {"idle", "settling", "starting", "opening", "opened", "refused", "failed", "ending"},
                dirs : SUBSET Dirs, finished : BOOLEAN]
  /\ holder \in [Holders -> [pc : {"idle", "quiesce", "supersede", "wait", "held", "changing", "disarm"},
                             op : {"disable", "folders"}, batch : SUBSET Dirs, gaveUp : BOOLEAN]]
  /\ watching \in BOOLEAN /\ lostNew \in BOOLEAN /\ uncovered \in BOOLEAN
  /\ arm \in [Arms -> [pc : {"none", "waiting", "checked", "armed"}, stale : BOOLEAN]]
  /\ watchState \in {"off", "starting", "active", "limited"}
  /\ problem \in {"none", "events_lost", "unwatched"}
  /\ ~enabled => watchState = "off"

\* scans.go:158: a start "uses the long-lived lifecycle context rather than request
\* cancellation".  No scan is left running: a running row has the goroutine that
\* will close it, or a start that is about to begin one.
RunningRowHasRun ==
  scanRow # "none" =>
    run.pc \in {"scanning", "finishing"} \/ batch.pc = "opened" \/ \E c \in Callers : caller[c].pc = "opened"

\* A change is never forgotten: while automatic import is on, a directory that
\* was not read since it changed is on its way, dirty, in a batch, in front of
\* the scan that runs, or in the hands of a request that will put it back; or
\* its event was lost, or it was left to the owner.
ChangeHasReader ==
  enabled /\ RunningRowHasRun =>
    {d \in Dirs : disk[d] = "changed"} \subseteq
      notice \cup dirty \cup inflight \cup batch.dirs \cup run.left \cup UNION {holder[h].batch : h \in Holders}

\* Dirty directories do not wait for ever: something that runs will schedule
\* them, be it a timer, the batch before them, a hold or the scan that runs.
DirtyIsScheduled ==
  enabled /\ dirty # {} => timer \/ batch.pc # "idle" \/ Holding \/ scanRow # "none" \/ run.pc # "none"

\* Once a folder change has held the starts, and once automatic import is off,
\* no watch scan runs or is about to; unless the request gave up waiting.
NoWatchScanWhileHeld ==
  (\E h \in Holders : holder[h].pc \in {"held", "changing"} /\ ~holder[h].gaveUp) \/ ~enabled =>
    ~WatchRuns /\ ~StartHeld

\* "for lost events, when a manual scan finishes done and no further loss was
\* reported since that scan started": the state goes from a loss to active only
\* when every directory whose event was lost has been read since.
LossStaysUntilRead ==
  [][problem = "events_lost" /\ watchState' = "active" => Lost = {}]_vars

\* When no arming or disarming is under way, whatever the order in which they
\* overtook each other: nothing is watched while automatic import is off; and
\* while it is on, nothing is watched only if the last arming failed or found no
\* media folder.
WatchesMatchSetting ==
  (\A a \in Arms : arm[a].pc = "none") /\ (\A h \in Holders : holder[h].pc # "disarm") =>
    /\ watching => enabled
    /\ enabled /\ ~watching => uncovered \/ watchState = "off"

\* The end of a scan has not taken the directories of a start that overtook it.
NotOvertaken == batch.pc \in {"opening", "opened"} => inflight = batch.dirs
=============================================================================
