-------------------------- MODULE AutoImportProofs --------------------------
(***************************************************************************)
(* Proofs about automatic import (AutoImport over Scans).                  *)
(*                                                                         *)
(* A running row has one owner; a hold waits for the start that is under   *)
(* way and for the watch scan, and no start begins while it lasts; while   *)
(* automatic import is off every arming is out of date and ends by         *)
(* disarming; and a directory that changed is, at every moment, somewhere  *)
(* a reader will find it.                                                  *)
(***************************************************************************)
EXTENDS AutoImport, TLAPS

RunStates == [pc : {"none", "scanning", "finishing", "closing"}, kind : Kinds, cancelled : BOOLEAN,
              byOwner : BOOLEAN, requeue : BOOLEAN, left : SUBSET Dirs, done : BOOLEAN]
CallerStates == [pc : {"idle", "supersede", "wait", "open", "refused", "opened"},
                 request : Requests, attempt : 1..Attempts]
BatchStates == [pc : {"idle", "settling", "starting", "opening", "opened", "refused", "failed",
                      "ending"},
                dirs : SUBSET Dirs, finished : BOOLEAN]
HolderStates == [pc : {"idle", "quiesce", "supersede", "wait", "held", "changing", "disarm"},
                 op : {"disable", "folders"}, batch : SUBSET Dirs, gaveUp : BOOLEAN]
ArmStates == [pc : {"none", "waiting", "checked", "armed"}, stale : BOOLEAN]

\* A running row is closed by its one owner: the run, or a start about to begin it.
RunOwns == run.pc \in {"scanning", "finishing"}
BatchOwns == batch.pc = "opened"
CallerOwns(c) == caller[c].pc = "opened"

OneOwner ==
  /\ RunOwns \/ BatchOwns \/ (\E c \in Callers : CallerOwns(c)) => scanRow # "none"
  /\ RunOwns => ~BatchOwns
  /\ RunOwns \/ BatchOwns => \A c \in Callers : ~CallerOwns(c)
  /\ \A b, c \in Callers : CallerOwns(b) /\ CallerOwns(c) => b = c

\* A hold is past the starts it waited for, and then past the watch scan.
HoldHolds ==
  /\ \A h \in Holders :
       /\ holder[h].pc \in {"supersede", "wait", "held", "changing"} => ~StartHeld
       /\ holder[h].pc \in {"held", "changing"} /\ ~holder[h].gaveUp => ~WatchRuns
  /\ ~enabled => ~WatchRuns /\ ~StartHeld

Current(a) == arm[a].pc # "none" /\ ~arm[a].stale
HasArmMu(a) == arm[a].pc \in {"checked", "armed"}
Awaited == \E a \in Arms : arm[a].pc = "waiting" /\ ~arm[a].stale

\* Of the armings only the last is up to date, and none is while the import is
\* off; one that went out of date as it began has the last one behind it.
WatchOwed ==
  /\ ~watching => notice = {}
  /\ \A a, b \in Arms : Current(a) /\ Current(b) => a = b
  /\ \A a, b \in Arms : HasArmMu(a) /\ HasArmMu(b) => a = b
  /\ enabled =>
       \A a \in Arms : arm[a].pc = "checked" /\ arm[a].stale => uncovered \/ Awaited
  /\ enabled /\ ~watching =>
       \/ uncovered \/ Awaited
       \/ \E a \in Arms : arm[a].pc = "checked" /\ ~arm[a].stale
       \/ watchState = "off" /\ \A a \in Arms : ~Current(a)
  /\ ~enabled => \A a \in Arms : arm[a].pc # "none" => arm[a].stale
  /\ ~enabled /\ watching =>
       (\E a \in Arms : arm[a].pc = "armed") \/ (\E h \in Holders : holder[h].pc = "disarm")
  /\ \A h \in Holders : holder[h].pc = "disarm" => holder[h].op = "disable" /\ ~enabled

\* A full scan that began after the last loss has yet to read what was lost.
LossCovered ==
  /\ problem # "none" => watchState \in {"limited", "off"}
  /\ run.kind # "watch" => ~run.cancelled
  /\ run.done => run.pc \in {"finishing", "closing"} /\ (run.left = {} \/ run.cancelled)
  /\ run.kind = "full" /\ run.pc # "none" /\ ~lostNew /\ problem = "events_lost" =>
       Lost \subseteq run.left

\* What the batch and inflight say of each other and of the scans.
BatchShape ==
  /\ inflight # {} => StartHeld \/ WatchRuns \/ ~RunningRowHasRun
  /\ rerun => batch.pc # "idle"
  /\ batch.pc = "refused" => batch.finished \/ scanRow # "none" \/ run.pc # "none"
  /\ batch.pc \in {"settling", "starting"} => inflight = {}
  /\ StartHeld => inflight \subseteq batch.dirs
  /\ batch.pc \in {"idle", "ending"} => batch.dirs = {}

AutoInv ==
  /\ AutoTypeOK /\ OneOwner /\ HoldHolds /\ WatchOwed /\ LossCovered /\ BatchShape

\* Who will schedule the dirty directories.
DirtyOwed ==
  enabled /\ dirty # {} => timer \/ rerun \/ Holding \/ scanRow # "none" \/ run.pc # "none"

\* The directories holders have taken and not given back.
HeldBack == UNION {holder[h].batch : h \in {g \in Holders : holder[g].pc \in {"wait", "held"}}}
ChangedDirs == {d \in Dirs : disk[d] = "changed"}
Pending == notice \cup dirty \cup batch.dirs \cup HeldBack

\* A changed directory is pending or inflight; and what the watch scan that runs
\* has in flight is still in front of it, unless it is pending all the same.
ChangesKept ==
  /\ ~enabled => ChangedDirs = {}
  /\ \A h \in Holders :
       holder[h].pc \in {"idle", "quiesce", "changing", "disarm"} => holder[h].batch = {}
  /\ enabled /\ RunningRowHasRun =>
       /\ ChangedDirs \subseteq Pending \cup inflight
       /\ \A h \in Holders :
            holder[h].pc \in {"supersede", "wait", "held"} => inflight \subseteq holder[h].batch
       /\ WatchRuns => inflight \cap ChangedDirs \subseteq run.left \cup Pending
       /\ WatchRuns /\ run.cancelled /\ ~run.byOwner /\ ~run.requeue =>
            inflight \cap ChangedDirs \subseteq Pending

-----------------------------------------------------------------------------
(* The steps, by who takes them.                                           *)

DiskStep(d) == Change(d) \/ Changed(d) \/ EventsLost(d)
BatchStep ==
  \/ Fire \/ Settle \/ Start \/ OpenWatchScan \/ EnterWatchScan \/ NotStarted \/ EndBatch
CallerStep(c, request) ==
  \/ /\ Ask(c, request) \/ Retry(c) \/ GiveUp(c) \/ OpenScan(c) \/ CheckRefusal(c)
     /\ UNCHANGED autoVars
  \/ EnterScan(c)
HolderStep(h, op) ==
  \/ Hold(h, op) \/ Quiesce(h) \/ HoldSupersedes(h) \/ HoldWaited(h) \/ FoldersChanging(h)
  \/ FoldersChanged(h) \/ DisableFails(h) \/ Disable(h) \/ DisarmAfter(h)
ArmStep(a) ==
  CannotList(a) \/ CheckGeneration(a) \/ NoFolders(a) \/ ArmWatcher(a) \/ FinishArming(a)

LEMMA StepsByActor ==
  ASSUME AutoNext
  PROVE  \/ \E d \in Dirs : DiskStep(d)
         \/ RunSteps
         \/ BatchStep
         \/ \E c \in Callers, request \in Requests : CallerStep(c, request)
         \/ FinishScan \/ Enable \/ Restart
         \/ \E h \in Holders, op \in {"disable", "folders"} : HolderStep(h, op)
         \/ \E a \in Arms : ArmStep(a)
<1>1. "manual" \in Requests /\ "disable" \in {"disable", "folders"}
  BY ScansAssumption
<1>2. ASSUME NEW c \in Callers, ScanSteps(c)
      PROVE  \E request \in Requests : CallerStep(c, request)
  BY <1>1, <1>2 DEF ScanSteps, CallerStep
<1>3. ASSUME NEW c \in Callers, EnterScan(c)
      PROVE  \E request \in Requests : CallerStep(c, request)
  BY <1>1, <1>3 DEF CallerStep
<1>4. ASSUME NEW h \in Holders,
             \/ \E op \in {"disable", "folders"} : Hold(h, op)
             \/ Quiesce(h) \/ HoldSupersedes(h) \/ HoldWaited(h)
             \/ FoldersChanging(h) \/ FoldersChanged(h)
             \/ DisableFails(h) \/ Disable(h) \/ DisarmAfter(h)
      PROVE  \E op \in {"disable", "folders"} : HolderStep(h, op)
  BY <1>1, <1>4 DEF HolderStep
<1> QED
  BY <1>2, <1>3, <1>4 DEF AutoNext, DiskStep, BatchStep, ArmStep

-----------------------------------------------------------------------------
(* Who changes what.                                                       *)

LEMMA RowMoves ==
  ASSUME AutoNext
  PROVE  \/ scanRow' = scanRow
         \/ OpenWatchScan \/ Restart
         \/ FinishRow /\ UNCHANGED autoVars
         \/ \E c \in Callers : OpenScan(c) /\ UNCHANGED autoVars
<1>1. CASE \E d \in Dirs : DiskStep(d)
  BY <1>1 DEF DiskStep, Change, Becomes, Changed, EventsLost, scansVars
<1>2. CASE RunSteps
  BY <1>2 DEF RunSteps, ReadDirectory, StopScanning, scansVars
<1>3. CASE BatchStep
  BY <1>3 DEF BatchStep, Fire, Settle, Start, EnterWatchScan, NotStarted, EndBatch, scansVars
<1>4. CASE \E c \in Callers, request \in Requests : CallerStep(c, request)
  BY <1>4 DEF CallerStep, Ask, Supersede, Retry, GiveUp, Leave, CheckRefusal, Again, EnterScan,
    Enter, scansVars
<1>5. CASE FinishScan \/ Enable \/ Restart
  BY <1>5 DEF FinishScan, EndRun, Enable, Rearm, Arm, scansVars
<1>6. CASE \E h \in Holders, op \in {"disable", "folders"} : HolderStep(h, op)
  BY <1>6 DEF HolderStep, Hold, Quiesce, Clones, HoldSupersedes, HoldMoves, HoldWaited,
    FoldersChanging, Requeue, FoldersChanged, Rearm, Arm, DisableFails, Disable, Becomes,
    DisarmAfter, Disarm, scansVars
<1>7. CASE \E a \in Arms : ArmStep(a)
  BY <1>7 DEF ArmStep, CannotList, NoFolders, CheckGeneration, OutOfDate, OutOfDateWith, Disarm,
    ArmWatcher, FinishArming, scansVars
<1> QED
  BY <1>1, <1>2, <1>3, <1>4, <1>5, <1>6, <1>7, StepsByActor

LEMMA RunMoves ==
  ASSUME AutoNext
  PROVE  \/ run' = run
         \/ \E d \in Dirs : ReadDirectory(d) /\ UNCHANGED autoVars
         \/ EnterWatchScan \/ FinishScan \/ Restart
         \/ (StopScanning \/ FinishRow) /\ UNCHANGED autoVars
         \/ \E c \in Callers, request \in Requests : Ask(c, request) /\ UNCHANGED autoVars
         \/ \E c \in Callers : EnterScan(c)
         \/ \E c \in Callers : Retry(c) /\ UNCHANGED autoVars
         \/ \E h \in Holders : HoldSupersedes(h)
<1>1. CASE \E d \in Dirs : DiskStep(d)
  BY <1>1 DEF DiskStep, Change, Becomes, Changed, EventsLost, scansVars
<1>2. CASE RunSteps
  BY <1>2 DEF RunSteps, scansVars
<1>3. CASE BatchStep
  BY <1>3 DEF BatchStep, Fire, Settle, Start, OpenWatchScan, NotStarted, EndBatch, scansVars
<1>4. CASE \E c \in Callers, request \in Requests : CallerStep(c, request)
  BY <1>4 DEF CallerStep, GiveUp, Leave, OpenScan, At, Again, CheckRefusal, scansVars
<1>5. CASE FinishScan \/ Enable \/ Restart
  BY <1>5 DEF Enable, Rearm, Arm, scansVars
<1>6. CASE \E h \in Holders, op \in {"disable", "folders"} : HolderStep(h, op)
  BY <1>6 DEF HolderStep, Hold, Quiesce, Clones, HoldWaited, HoldMoves, FoldersChanging, Requeue,
    FoldersChanged, Rearm, Arm, DisableFails, Disable, Becomes, DisarmAfter, Disarm, scansVars
<1>7. CASE \E a \in Arms : ArmStep(a)
  BY <1>7 DEF ArmStep, CannotList, NoFolders, CheckGeneration, OutOfDate, OutOfDateWith, Disarm,
    ArmWatcher, FinishArming, scansVars
<1> QED
  BY <1>1, <1>2, <1>3, <1>4, <1>5, <1>6, <1>7, StepsByActor

LEMMA CallerMoves ==
  ASSUME AutoNext
  PROVE  \/ caller' = caller
         \/ \E c \in Callers, request \in Requests : Ask(c, request) /\ UNCHANGED autoVars
         \/ \E c \in Callers : EnterScan(c)
         \/ \E c \in Callers : (Retry(c) \/ GiveUp(c) \/ OpenScan(c) \/ CheckRefusal(c))
            /\ UNCHANGED autoVars
         \/ FinishScan \/ Restart
<1>1. CASE \E d \in Dirs : DiskStep(d)
  BY <1>1 DEF DiskStep, Change, Becomes, Changed, EventsLost, scansVars
<1>2. CASE RunSteps
  BY <1>2 DEF RunSteps, ReadDirectory, StopScanning, FinishRow, scansVars
<1>3. CASE BatchStep
  BY <1>3 DEF BatchStep, Fire, Settle, Start, OpenWatchScan, EnterWatchScan, NotStarted,
    EndBatch, scansVars
<1>4. CASE \E c \in Callers, request \in Requests : CallerStep(c, request)
  BY <1>4 DEF CallerStep, scansVars
<1>5. CASE FinishScan \/ Enable \/ Restart
  BY <1>5 DEF Enable, Rearm, Arm, scansVars
<1>6. CASE \E h \in Holders, op \in {"disable", "folders"} : HolderStep(h, op)
  BY <1>6 DEF HolderStep, Hold, Quiesce, Clones, HoldSupersedes, HoldMoves, HoldWaited,
    FoldersChanging, Requeue, FoldersChanged, Rearm, Arm, DisableFails, Disable, Becomes,
    DisarmAfter, Disarm, scansVars
<1>7. CASE \E a \in Arms : ArmStep(a)
  BY <1>7 DEF ArmStep, CannotList, NoFolders, CheckGeneration, OutOfDate, OutOfDateWith, Disarm,
    ArmWatcher, FinishArming, scansVars
<1> QED
  BY <1>1, <1>2, <1>3, <1>4, <1>5, <1>6, <1>7, StepsByActor

LEMMA DiskMoves ==
  ASSUME AutoNext
  PROVE  \/ disk' = disk
         \/ \E d \in Dirs : Change(d) \/ EventsLost(d)
         \/ \E d \in Dirs : ReadDirectory(d) /\ UNCHANGED autoVars
         \/ FinishScan \/ Restart
         \/ \E h \in Holders : Disable(h)
         \/ \E a \in Arms : NoFolders(a) \/ ArmWatcher(a)
<1>1. CASE \E d \in Dirs : DiskStep(d)
  BY <1>1 DEF DiskStep, Changed, scansVars
<1>2. CASE RunSteps
  BY <1>2 DEF RunSteps, StopScanning, FinishRow, scansVars
<1>3. CASE BatchStep
  BY <1>3 DEF BatchStep, Fire, Settle, Start, OpenWatchScan, EnterWatchScan, NotStarted,
    EndBatch, scansVars
<1>4. CASE \E c \in Callers, request \in Requests : CallerStep(c, request)
  BY <1>4 DEF CallerStep, Ask, Supersede, Retry, GiveUp, Leave, OpenScan, At, Again,
    CheckRefusal, EnterScan, Enter, scansVars
<1>5. CASE FinishScan \/ Enable \/ Restart
  BY <1>5 DEF Enable, Rearm, Arm, scansVars
<1>6. CASE \E h \in Holders, op \in {"disable", "folders"} : HolderStep(h, op)
  BY <1>6 DEF HolderStep, Hold, Quiesce, Clones, HoldSupersedes, HoldMoves, HoldWaited,
    FoldersChanging, Requeue, FoldersChanged, Rearm, Arm, DisableFails, DisarmAfter, Disarm,
    scansVars
<1>7. CASE \E a \in Arms : ArmStep(a)
  BY <1>7 DEF ArmStep, CannotList, CheckGeneration, OutOfDate, OutOfDateWith, Disarm, FinishArming,
    scansVars
<1> QED
  BY <1>1, <1>2, <1>3, <1>4, <1>5, <1>6, <1>7, StepsByActor

LEMMA EnabledMoves ==
  ASSUME AutoNext
  PROVE  \/ enabled' = enabled
         \/ Enable
         \/ \E h \in Holders : Disable(h)
<1>1. CASE \E d \in Dirs : DiskStep(d)
  BY <1>1 DEF DiskStep, Change, Becomes, Changed, EventsLost
<1>2. CASE RunSteps
  BY <1>2 DEF RunSteps, ReadDirectory, StopScanning, FinishRow, autoVars
<1>3. CASE BatchStep
  BY <1>3 DEF BatchStep, Fire, Settle, Start, OpenWatchScan, EnterWatchScan, NotStarted, EndBatch
<1>4. CASE \E c \in Callers, request \in Requests : CallerStep(c, request)
  BY <1>4 DEF CallerStep, Ask, Supersede, Retry, GiveUp, Leave, OpenScan, At, Again,
    CheckRefusal, EnterScan, Enter, autoVars
<1>5. CASE FinishScan \/ Enable \/ Restart
  BY <1>5 DEF FinishScan, EndRun, Restart, Recover
<1>6. CASE \E h \in Holders, op \in {"disable", "folders"} : HolderStep(h, op)
  BY <1>6 DEF HolderStep, Hold, Quiesce, Clones, HoldSupersedes, HoldMoves, HoldWaited,
    FoldersChanging, Requeue, FoldersChanged, Rearm, Arm, DisableFails, DisarmAfter, Disarm
<1>7. CASE \E a \in Arms : ArmStep(a)
  BY <1>7 DEF ArmStep, CannotList, NoFolders, CheckGeneration, OutOfDate, OutOfDateWith, Disarm,
    ArmWatcher, FinishArming
<1> QED
  BY <1>1, <1>2, <1>3, <1>4, <1>5, <1>6, <1>7, StepsByActor

LEMMA BatchMoves ==
  ASSUME AutoNext
  PROVE  \/ batch' = batch
         \/ Fire \/ Settle \/ Start \/ OpenWatchScan \/ EnterWatchScan \/ NotStarted \/
               EndBatch \/ FinishScan \/ Restart
<1>1. CASE \E d \in Dirs : DiskStep(d)
  BY <1>1 DEF DiskStep, Change, Becomes, Changed, EventsLost, dirVars
<1>2. CASE RunSteps
  BY <1>2 DEF RunSteps, ReadDirectory, StopScanning, FinishRow, dirVars, autoVars
<1>3. CASE BatchStep
  BY <1>3 DEF BatchStep, dirVars
<1>4. CASE \E c \in Callers, request \in Requests : CallerStep(c, request)
  BY <1>4 DEF CallerStep, Ask, Supersede, Retry, GiveUp, Leave, OpenScan, At, Again,
    CheckRefusal, EnterScan, Enter, dirVars, autoVars
<1>5. CASE FinishScan \/ Enable \/ Restart
  BY <1>5 DEF Enable, Rearm, Arm, dirVars
<1>6. CASE \E h \in Holders, op \in {"disable", "folders"} : HolderStep(h, op)
  BY <1>6 DEF HolderStep, Hold, Quiesce, Clones, HoldSupersedes, HoldMoves, HoldWaited,
    FoldersChanging, Requeue, FoldersChanged, Rearm, Arm, DisableFails, Disable, Becomes,
    DisarmAfter, Disarm, dirVars
<1>7. CASE \E a \in Arms : ArmStep(a)
  BY <1>7 DEF ArmStep, CannotList, NoFolders, CheckGeneration, OutOfDate, OutOfDateWith, Disarm,
    ArmWatcher, FinishArming, dirVars
<1> QED
  BY <1>1, <1>2, <1>3, <1>4, <1>5, <1>6, <1>7, StepsByActor

LEMMA HolderMoves ==
  ASSUME AutoNext
  PROVE  \/ holder' = holder
         \/ Restart
         \/ \E h \in Holders, op \in {"disable", "folders"} : Hold(h, op)
         \/ \E h \in Holders : Quiesce(h) \/ HoldSupersedes(h) \/ HoldWaited(h) \/
               FoldersChanging(h) \/ FoldersChanged(h) \/ DisableFails(h) \/ Disable(h) \/
               DisarmAfter(h)
<1>1. CASE \E d \in Dirs : DiskStep(d)
  BY <1>1 DEF DiskStep, Change, Becomes, Changed, EventsLost
<1>2. CASE RunSteps
  BY <1>2 DEF RunSteps, ReadDirectory, StopScanning, FinishRow, autoVars
<1>3. CASE BatchStep
  BY <1>3 DEF BatchStep, Fire, Settle, Start, OpenWatchScan, EnterWatchScan, NotStarted, EndBatch
<1>4. CASE \E c \in Callers, request \in Requests : CallerStep(c, request)
  BY <1>4 DEF CallerStep, Ask, Supersede, Retry, GiveUp, Leave, OpenScan, At, Again,
    CheckRefusal, EnterScan, Enter, autoVars
<1>5. CASE FinishScan \/ Enable \/ Restart
  BY <1>5 DEF FinishScan, EndRun, Enable, Rearm, Arm
<1>6. CASE \E h \in Holders, op \in {"disable", "folders"} : HolderStep(h, op)
  BY <1>6 DEF HolderStep
<1>7. CASE \E a \in Arms : ArmStep(a)
  BY <1>7 DEF ArmStep, CannotList, NoFolders, CheckGeneration, OutOfDate, OutOfDateWith, Disarm,
    ArmWatcher, FinishArming
<1> QED
  BY <1>1, <1>2, <1>3, <1>4, <1>5, <1>6, <1>7, StepsByActor

LEMMA InflightMoves ==
  ASSUME AutoNext
  PROVE  \/ inflight' = inflight
         \/ Start \/ NotStarted \/ FinishScan \/ Restart
         \/ \E h \in Holders : FoldersChanging(h) \/ DisableFails(h) \/ Disable(h)
<1>1. CASE \E d \in Dirs : DiskStep(d)
  BY <1>1 DEF DiskStep, Change, Becomes, Changed, EventsLost, dirVars
<1>2. CASE RunSteps
  BY <1>2 DEF RunSteps, ReadDirectory, StopScanning, FinishRow, dirVars, autoVars
<1>3. CASE BatchStep
  BY <1>3 DEF BatchStep, Fire, Settle, OpenWatchScan, EnterWatchScan, EndBatch, dirVars
<1>4. CASE \E c \in Callers, request \in Requests : CallerStep(c, request)
  BY <1>4 DEF CallerStep, Ask, Supersede, Retry, GiveUp, Leave, OpenScan, At, Again,
    CheckRefusal, EnterScan, Enter, dirVars, autoVars
<1>5. CASE FinishScan \/ Enable \/ Restart
  BY <1>5 DEF Enable, Rearm, Arm, dirVars
<1>6. CASE \E h \in Holders, op \in {"disable", "folders"} : HolderStep(h, op)
  BY <1>6 DEF HolderStep, Hold, Quiesce, Clones, HoldSupersedes, HoldMoves, HoldWaited,
    FoldersChanged, Rearm, Arm, DisarmAfter, Disarm, dirVars
<1>7. CASE \E a \in Arms : ArmStep(a)
  BY <1>7 DEF ArmStep, CannotList, NoFolders, CheckGeneration, OutOfDate, OutOfDateWith, Disarm,
    ArmWatcher, FinishArming, dirVars
<1> QED
  BY <1>1, <1>2, <1>3, <1>4, <1>5, <1>6, <1>7, StepsByActor

LEMMA DirtyMoves ==
  ASSUME AutoNext
  PROVE  \/ dirty' = dirty
         \/ \E d \in Dirs : Changed(d)
         \/ Fire \/ Settle \/ Start \/ NotStarted \/ FinishScan \/ Restart
         \/ \E h \in Holders : FoldersChanging(h) \/ DisableFails(h) \/ Disable(h)
<1>1. CASE \E d \in Dirs : DiskStep(d)
  BY <1>1 DEF DiskStep, Change, Becomes, EventsLost, dirVars
<1>2. CASE RunSteps
  BY <1>2 DEF RunSteps, ReadDirectory, StopScanning, FinishRow, dirVars, autoVars
<1>3. CASE BatchStep
  BY <1>3 DEF BatchStep, OpenWatchScan, EnterWatchScan, EndBatch, dirVars
<1>4. CASE \E c \in Callers, request \in Requests : CallerStep(c, request)
  BY <1>4 DEF CallerStep, Ask, Supersede, Retry, GiveUp, Leave, OpenScan, At, Again,
    CheckRefusal, EnterScan, Enter, dirVars, autoVars
<1>5. CASE FinishScan \/ Enable \/ Restart
  BY <1>5 DEF Enable, Rearm, Arm, dirVars
<1>6. CASE \E h \in Holders, op \in {"disable", "folders"} : HolderStep(h, op)
  BY <1>6 DEF HolderStep, Hold, Quiesce, Clones, HoldSupersedes, HoldMoves, HoldWaited,
    FoldersChanged, Rearm, Arm, DisarmAfter, Disarm, dirVars
<1>7. CASE \E a \in Arms : ArmStep(a)
  BY <1>7 DEF ArmStep, CannotList, NoFolders, CheckGeneration, OutOfDate, OutOfDateWith, Disarm,
    ArmWatcher, FinishArming, dirVars
<1> QED
  BY <1>1, <1>2, <1>3, <1>4, <1>5, <1>6, <1>7, StepsByActor

LEMMA NoticeMoves ==
  ASSUME AutoNext
  PROVE  \/ notice' = notice
         \/ \E d \in Dirs : Change(d) \/ Changed(d) \/ EventsLost(d)
         \/ Restart
         \/ \E h \in Holders : DisarmAfter(h)
         \/ \E a \in Arms : CheckGeneration(a) \/ NoFolders(a) \/ ArmWatcher(a) \/ FinishArming(a)
<1>1. CASE \E d \in Dirs : DiskStep(d)
  BY <1>1 DEF DiskStep, dirVars
<1>2. CASE RunSteps
  BY <1>2 DEF RunSteps, ReadDirectory, StopScanning, FinishRow, dirVars, autoVars
<1>3. CASE BatchStep
  BY <1>3 DEF BatchStep, Fire, Settle, Start, OpenWatchScan, EnterWatchScan, NotStarted,
    EndBatch, dirVars
<1>4. CASE \E c \in Callers, request \in Requests : CallerStep(c, request)
  BY <1>4 DEF CallerStep, Ask, Supersede, Retry, GiveUp, Leave, OpenScan, At, Again,
    CheckRefusal, EnterScan, Enter, dirVars, autoVars
<1>5. CASE FinishScan \/ Enable \/ Restart
  BY <1>5 DEF FinishScan, EndRun, Enable, Rearm, Arm, dirVars
<1>6. CASE \E h \in Holders, op \in {"disable", "folders"} : HolderStep(h, op)
  BY <1>6 DEF HolderStep, Hold, Quiesce, Clones, HoldSupersedes, HoldMoves, HoldWaited,
    FoldersChanging, Requeue, FoldersChanged, Rearm, Arm, DisableFails, Disable, Becomes, dirVars
<1>7. CASE \E a \in Arms : ArmStep(a)
  BY <1>7 DEF ArmStep, CannotList, dirVars
<1> QED
  BY <1>1, <1>2, <1>3, <1>4, <1>5, <1>6, <1>7, StepsByActor

LEMMA TimerMoves ==
  ASSUME AutoNext
  PROVE  \/ UNCHANGED <<timer, rerun>>
         \/ \E d \in Dirs : Changed(d)
         \/ Fire \/ Settle \/ NotStarted \/ EndBatch \/ FinishScan \/ Restart
         \/ \E h \in Holders : FoldersChanged(h) \/ DisableFails(h) \/ Disable(h)
<1>1. CASE \E d \in Dirs : DiskStep(d)
  BY <1>1 DEF DiskStep, Change, Becomes, EventsLost, dirVars
<1>2. CASE RunSteps
  BY <1>2 DEF RunSteps, ReadDirectory, StopScanning, FinishRow, dirVars, autoVars
<1>3. CASE BatchStep
  BY <1>3 DEF BatchStep, Start, OpenWatchScan, EnterWatchScan, dirVars
<1>4. CASE \E c \in Callers, request \in Requests : CallerStep(c, request)
  BY <1>4 DEF CallerStep, Ask, Supersede, Retry, GiveUp, Leave, OpenScan, At, Again,
    CheckRefusal, EnterScan, Enter, dirVars, autoVars
<1>5. CASE FinishScan \/ Enable \/ Restart
  BY <1>5 DEF Enable, Rearm, Arm, dirVars
<1>6. CASE \E h \in Holders, op \in {"disable", "folders"} : HolderStep(h, op)
  BY <1>6 DEF HolderStep, Hold, Quiesce, Clones, HoldSupersedes, HoldMoves, HoldWaited,
    FoldersChanging, Requeue, DisarmAfter, Disarm, dirVars
<1>7. CASE \E a \in Arms : ArmStep(a)
  BY <1>7 DEF ArmStep, CannotList, NoFolders, CheckGeneration, OutOfDate, OutOfDateWith, Disarm,
    ArmWatcher, FinishArming, dirVars
<1> QED
  BY <1>1, <1>2, <1>3, <1>4, <1>5, <1>6, <1>7, StepsByActor

LEMMA ArmMoves ==
  ASSUME AutoNext
  PROVE  \/ UNCHANGED <<arm, watching>>
         \/ Enable \/ Restart
         \/ \E h \in Holders : FoldersChanged(h) \/ Disable(h) \/ DisarmAfter(h)
         \/ \E a \in Arms : ArmStep(a)
<1>1. CASE \E d \in Dirs : DiskStep(d)
  BY <1>1 DEF DiskStep, Change, Becomes, Changed, EventsLost, watchVars
<1>2. CASE RunSteps
  BY <1>2 DEF RunSteps, ReadDirectory, StopScanning, FinishRow, watchVars, autoVars
<1>3. CASE BatchStep
  BY <1>3 DEF BatchStep, Fire, Settle, Start, OpenWatchScan, EnterWatchScan, NotStarted,
    EndBatch, watchVars
<1>4. CASE \E c \in Callers, request \in Requests : CallerStep(c, request)
  BY <1>4 DEF CallerStep, Ask, Supersede, Retry, GiveUp, Leave, OpenScan, At, Again,
    CheckRefusal, EnterScan, Enter, watchVars, autoVars
<1>5. CASE FinishScan \/ Enable \/ Restart
  BY <1>5 DEF FinishScan, EndRun, watchVars
<1>6. CASE \E h \in Holders, op \in {"disable", "folders"} : HolderStep(h, op)
  BY <1>6 DEF HolderStep, Hold, Quiesce, Clones, HoldSupersedes, HoldMoves, HoldWaited,
    FoldersChanging, Requeue, DisableFails, watchVars
<1>7. CASE \E a \in Arms : ArmStep(a)
  BY <1>7 DEF ArmStep, watchVars
<1> QED
  BY <1>1, <1>2, <1>3, <1>4, <1>5, <1>6, <1>7, StepsByActor

LEMMA StateMoves ==
  ASSUME AutoNext
  PROVE  \/ UNCHANGED <<watchState, problem, lostNew, uncovered>>
         \/ \E d \in Dirs : EventsLost(d)
         \/ \E c \in Callers : EnterScan(c)
         \/ FinishScan \/ Enable \/ Restart
         \/ \E h \in Holders : FoldersChanged(h) \/ Disable(h)
         \/ \E a \in Arms : CannotList(a) \/ NoFolders(a) \/ ArmWatcher(a) \/ FinishArming(a)
<1>1. CASE \E d \in Dirs : DiskStep(d)
  BY <1>1 DEF DiskStep, Change, Becomes, Changed, watchVars
<1>2. CASE RunSteps
  BY <1>2 DEF RunSteps, ReadDirectory, StopScanning, FinishRow, watchVars, autoVars
<1>3. CASE BatchStep
  BY <1>3 DEF BatchStep, Fire, Settle, Start, OpenWatchScan, EnterWatchScan, NotStarted,
    EndBatch, watchVars
<1>4. CASE \E c \in Callers, request \in Requests : CallerStep(c, request)
  BY <1>4 DEF CallerStep, Ask, Supersede, Retry, GiveUp, Leave, OpenScan, At, Again,
    CheckRefusal, watchVars, autoVars
<1>5. CASE FinishScan \/ Enable \/ Restart
  BY <1>5 DEF watchVars
<1>6. CASE \E h \in Holders, op \in {"disable", "folders"} : HolderStep(h, op)
  BY <1>6 DEF HolderStep, Hold, Quiesce, Clones, HoldSupersedes, HoldMoves, HoldWaited,
    FoldersChanging, Requeue, DisableFails, DisarmAfter, Disarm, watchVars
<1>7. CASE \E a \in Arms : ArmStep(a)
  BY <1>7 DEF ArmStep, CheckGeneration, OutOfDate, OutOfDateWith, Disarm, watchVars
<1> QED
  BY <1>1, <1>2, <1>3, <1>4, <1>5, <1>6, <1>7, StepsByActor

-----------------------------------------------------------------------------
(* Records.                                                                *)

LEMMA AutoNow ==
  ASSUME AutoTypeOK
  PROVE  /\ run \in RunStates /\ batch \in BatchStates
         /\ \A c \in Callers : caller[c] \in CallerStates
         /\ \A h \in Holders : holder[h] \in HolderStates
         /\ \A a \in Arms : arm[a] \in ArmStates
         /\ caller \in [Callers -> CallerStates] /\ holder \in [Holders -> HolderStates]
         /\ arm \in [Arms -> ArmStates]
         /\ batch.dirs \subseteq Dirs /\ run.left \subseteq Dirs
         /\ batch.pc \in {"idle", "settling", "starting", "opening", "opened", "refused", "failed",
                          "ending"}
         /\ scanRow \in Kinds \cup {"none"} /\ disk \in [Dirs -> Since]
         /\ notice \subseteq Dirs /\ dirty \subseteq Dirs /\ inflight \subseteq Dirs
         /\ enabled \in BOOLEAN /\ timer \in BOOLEAN /\ rerun \in BOOLEAN /\ watching \in BOOLEAN
         /\ lostNew \in BOOLEAN /\ uncovered \in BOOLEAN
<1>1. run \in RunStates /\ batch \in BatchStates
  BY DEF AutoTypeOK, ScansTypeOK, RunStates, BatchStates
<1>2. /\ caller \in [Callers -> CallerStates] /\ holder \in [Holders -> HolderStates]
      /\ arm \in [Arms -> ArmStates]
  BY DEF AutoTypeOK, ScansTypeOK, CallerStates, HolderStates, ArmStates
<1>3. /\ scanRow \in Kinds \cup {"none"} /\ disk \in [Dirs -> Since]
      /\ notice \subseteq Dirs /\ dirty \subseteq Dirs /\ inflight \subseteq Dirs
      /\ enabled \in BOOLEAN /\ timer \in BOOLEAN /\ rerun \in BOOLEAN /\ watching \in BOOLEAN
      /\ lostNew \in BOOLEAN /\ uncovered \in BOOLEAN
  BY DEF AutoTypeOK, ScansTypeOK
<1>4. /\ batch.dirs \subseteq Dirs /\ run.left \subseteq Dirs
      /\ batch.pc \in {"idle", "settling", "starting", "opening", "opened", "refused", "failed",
                       "ending"}
  BY <1>1 DEF RunStates, BatchStates
<1> QED
  BY <1>1, <1>2, <1>3, <1>4

LEMMA RestRecords ==
  /\ NoRun \in RunStates /\ NoRun.pc = "none" /\ NoRun.kind = "watch" /\ ~NoRun.cancelled
  /\ NoRun.left = {} /\ ~NoRun.done
  /\ NoCall \in CallerStates /\ NoCall.pc = "idle"
  /\ NoBatch \in BatchStates /\ NoBatch.pc = "idle" /\ NoBatch.dirs = {} /\ ~NoBatch.finished
  /\ Ended \in BatchStates /\ Ended.pc = "ending" /\ Ended.dirs = {}
  /\ NoHold \in HolderStates /\ NoHold.pc = "idle" /\ NoHold.batch = {} /\ ~NoHold.gaveUp
  /\ NoArm \in ArmStates /\ NoArm.pc = "none" /\ ~NoArm.stale
<1>1. NoRun \in RunStates
  BY DEF NoRun, RunStates, Kinds
<1>2. /\ NoRun.pc = "none" /\ NoRun.kind = "watch" /\ ~NoRun.cancelled
      /\ NoRun.left = {} /\ ~NoRun.done
  BY DEF NoRun
<1>3. NoCall \in CallerStates /\ NoCall.pc = "idle"
  BY ScansAssumption DEF NoCall, CallerStates
<1>4. NoBatch \in BatchStates /\ NoBatch.pc = "idle" /\ NoBatch.dirs = {} /\ ~NoBatch.finished
  BY DEF NoBatch, BatchStates
<1>5. Ended \in BatchStates /\ Ended.pc = "ending" /\ Ended.dirs = {}
  BY <1>4 DEF Ended, BatchStates
<1>6. NoHold \in HolderStates /\ NoHold.pc = "idle" /\ NoHold.batch = {} /\ ~NoHold.gaveUp
  BY DEF NoHold, HolderStates
<1>7. NoArm \in ArmStates /\ NoArm.pc = "none" /\ ~NoArm.stale
  BY DEF NoArm, ArmStates
<1> QED
  BY <1>1, <1>2, <1>3, <1>4, <1>5, <1>6, <1>7

LEMMA BegunEffect ==
  ASSUME NEW kind \in Kinds, NEW dirs \in SUBSET Dirs
  PROVE  /\ Begun(kind, dirs) \in RunStates /\ Begun(kind, dirs).pc = "scanning"
         /\ Begun(kind, dirs).kind = kind /\ Begun(kind, dirs).left = dirs
         /\ ~Begun(kind, dirs).cancelled /\ ~Begun(kind, dirs).done
<1>1. Begun(kind, dirs) = [NoRun EXCEPT !.pc = "scanning", !.kind = kind, !.left = dirs]
  BY DEF Begun
<1> QED
  BY <1>1, RestRecords DEF RunStates

LEMMA CancelledEffect ==
  ASSUME AutoTypeOK, NEW byOwner \in BOOLEAN, NEW requeue \in BOOLEAN
  PROVE  /\ Cancelled(byOwner, requeue) \in RunStates
         /\ Cancelled(byOwner, requeue).pc = run.pc /\ Cancelled(byOwner, requeue).kind = run.kind
         /\ Cancelled(byOwner, requeue).left = run.left
         /\ Cancelled(byOwner, requeue).done = run.done /\ Cancelled(byOwner, requeue).cancelled
         /\ Cancelled(byOwner, requeue).byOwner = (run.byOwner \/ byOwner)
         /\ Cancelled(byOwner, requeue).requeue = (run.requeue \/ requeue)
<1>1. Cancelled(byOwner, requeue) =
        [run EXCEPT !.cancelled = TRUE, !.byOwner = run.byOwner \/ byOwner,
                    !.requeue = run.requeue \/ requeue]
  BY DEF Cancelled
<1>2. run \in RunStates
  BY AutoNow
<1> QED
  BY <1>1, <1>2 DEF RunStates

\* The run reads a directory, stops, and closes its row.
LEMMA ReadEffect ==
  ASSUME AutoTypeOK, NEW d \in Dirs, ReadDirectory(d)
  PROVE  /\ run' \in RunStates /\ run.pc = "scanning" /\ run'.pc = "scanning"
         /\ run'.kind = run.kind /\ run'.cancelled = run.cancelled /\ run'.byOwner = run.byOwner
         /\ run'.requeue = run.requeue /\ run'.done = run.done /\ run'.left = run.left \ {d}
         /\ disk' = [disk EXCEPT ![d] = "read"]
<1>1. run' = [run EXCEPT !.left = run.left \ {d}]
  BY DEF ReadDirectory
<1>2. run \in RunStates /\ run.left \ {d} \in SUBSET Dirs
  BY AutoNow
<1> QED
  BY <1>1, <1>2 DEF ReadDirectory, RunStates

LEMMA StopEffect ==
  ASSUME AutoTypeOK, StopScanning
  PROVE  /\ run' \in RunStates /\ run.pc = "scanning" /\ run'.pc = "finishing"
         /\ run'.kind = run.kind /\ run'.cancelled = run.cancelled /\ run'.byOwner = run.byOwner
         /\ run'.requeue = run.requeue /\ run'.left = run.left
         /\ run'.done => run.left = {} \/ run.cancelled
<1>1. PICK done \in BOOLEAN : /\ done => run.left = {} \/ run.cancelled
                              /\ run' = [run EXCEPT !.pc = "finishing", !.done = done]
  BY DEF StopScanning
<1>2. run \in RunStates
  BY AutoNow
<1> QED
  BY <1>1, <1>2 DEF StopScanning, RunStates

LEMMA FinishRowEffect ==
  ASSUME AutoTypeOK, FinishRow
  PROVE  /\ run' \in RunStates /\ run.pc = "finishing" /\ run'.pc = "closing"
         /\ run'.kind = run.kind /\ run'.cancelled = run.cancelled /\ run'.byOwner = run.byOwner
         /\ run'.requeue = run.requeue /\ run'.left = run.left /\ run'.done \in {run.done, FALSE}
         /\ scanRow' \in {scanRow, "none"}
<1>1. \/ run' = [run EXCEPT !.pc = "closing"]
      \/ run' = [run EXCEPT !.pc = "closing", !.done = FALSE]
  BY DEF FinishRow
<1>2. run \in RunStates
  BY AutoNow
<1>3. CASE run' = [run EXCEPT !.pc = "closing"]
  BY <1>2, <1>3 DEF FinishRow, RunStates
<1>4. CASE run' = [run EXCEPT !.pc = "closing", !.done = FALSE]
  BY <1>2, <1>4 DEF FinishRow, RunStates
<1> QED
  BY <1>1, <1>3, <1>4

\* The batch.
LEMMA FireEffect ==
  ASSUME AutoTypeOK, Fire
  PROVE  \/ batch' = batch /\ dirty' = dirty
         \/ /\ batch.pc = "idle" /\ ~Holding /\ inflight = {} /\ dirty # {} /\ dirty' = {}
            /\ batch' \in BatchStates /\ batch'.pc = "settling" /\ batch'.dirs = dirty
<1>1. \/ batch' = batch /\ dirty' = dirty
      \/ /\ batch.pc = "idle" /\ ~Holding /\ inflight = {} /\ dirty # {} /\ dirty' = {}
         /\ batch' = [pc |-> "settling", dirs |-> dirty, finished |-> FALSE]
  BY DEF Fire
<1>2. dirty \in SUBSET Dirs
  BY AutoNow
<1>3. CASE batch' = [pc |-> "settling", dirs |-> dirty, finished |-> FALSE]
  <2>1. batch' \in BatchStates
    BY <1>2, <1>3 DEF BatchStates
  <2>2. batch'.pc = "settling" /\ batch'.dirs = dirty
    BY <1>3
  <2> QED
    BY <1>1, <2>1, <2>2
<1> QED
  BY <1>1, <1>3

LEMMA SettleEffect ==
  ASSUME AutoTypeOK, Settle
  PROVE  \E moving \in SUBSET batch.dirs :
           /\ batch' \in BatchStates /\ batch'.dirs = batch.dirs \ moving /\ batch.pc = "settling"
           /\ (batch'.pc = "ending" /\ batch'.dirs = {}) \/ batch'.pc = "starting"
           /\ IF enabled /\ moving # {} THEN dirty' = dirty \cup moving /\ timer' = TRUE
              ELSE UNCHANGED <<dirty, timer>>
<1>1. PICK moving \in SUBSET batch.dirs :
        /\ batch' = IF batch.dirs \ moving = {} THEN Ended
                    ELSE [batch EXCEPT !.dirs = batch.dirs \ moving, !.pc = "starting"]
        /\ IF enabled /\ moving # {} THEN dirty' = dirty \cup moving /\ timer' = TRUE
           ELSE UNCHANGED <<dirty, timer>>
  BY DEF Settle
<1>2. batch \in BatchStates /\ batch.dirs \ moving \in SUBSET Dirs /\ batch.pc = "settling"
  BY AutoNow DEF Settle
<1>3. CASE batch.dirs \ moving = {}
  BY <1>1, <1>2, <1>3, RestRecords
<1>4. CASE batch.dirs \ moving # {}
  <2>1. batch' = [batch EXCEPT !.dirs = batch.dirs \ moving, !.pc = "starting"]
    BY <1>1, <1>4
  <2>2. batch' \in BatchStates /\ batch'.dirs = batch.dirs \ moving /\ batch'.pc = "starting"
    BY <1>2, <2>1 DEF BatchStates
  <2> QED
    BY <1>1, <1>2, <2>2
<1> QED
  BY <1>3, <1>4

LEMMA StartEffect ==
  ASSUME AutoTypeOK, Start
  PROVE  /\ batch' \in BatchStates /\ batch.pc = "starting"
         /\ \/ ~enabled /\ batch'.pc = "ending" /\ batch'.dirs = {} /\ UNCHANGED <<dirty, inflight>>
            \/ /\ enabled /\ Holding /\ batch'.pc = "ending" /\ batch'.dirs = {}
               /\ dirty' = dirty \cup batch.dirs /\ inflight' = inflight
            \/ /\ enabled /\ ~Holding /\ batch'.pc = "opening" /\ batch'.dirs = batch.dirs
               /\ inflight' = batch.dirs /\ dirty' = dirty
<1>1. CASE batch' = Ended /\ (~enabled \/ Holding)
  BY <1>1, RestRecords DEF Start
<1>2. CASE enabled /\ ~Holding
  <2>1. batch' = [batch EXCEPT !.pc = "opening"] /\ batch \in BatchStates
    BY <1>2, AutoNow DEF Start
  <2>2. batch' \in BatchStates /\ batch'.pc = "opening" /\ batch'.dirs = batch.dirs
    BY <2>1 DEF BatchStates
  <2> QED
    BY <1>2, <2>2 DEF Start
<1> QED
  BY <1>1, <1>2 DEF Start

LEMMA OpenWatchEffect ==
  ASSUME AutoTypeOK, OpenWatchScan
  PROVE  /\ batch' \in BatchStates /\ batch.pc = "opening" /\ batch'.dirs = batch.dirs
         /\ batch'.finished = batch.finished /\ batch'.pc \in {"opened", "refused", "failed"}
         /\ batch'.pc = "opened" => scanRow = "none" /\ scanRow' = "watch"
         /\ batch'.pc = "refused" => scanRow' # "none"
         /\ scanRow' = scanRow \/ (scanRow = "none" /\ scanRow' = "watch")
<1>1. \/ /\ \E pc \in {"opened", "failed"} : batch' = [batch EXCEPT !.pc = pc]
         /\ scanRow = "none" /\ scanRow' = "watch"
      \/ batch' = [batch EXCEPT !.pc = "refused"] /\ scanRow # "none" /\ scanRow' = scanRow
      \/ batch' = [batch EXCEPT !.pc = "failed"] /\ scanRow' = scanRow
  BY DEF OpenWatchScan
<1>2. batch \in BatchStates
  BY AutoNow
<1>3. ASSUME NEW pc \in {"opened", "refused", "failed"}, batch' = [batch EXCEPT !.pc = pc]
      PROVE  /\ batch' \in BatchStates /\ batch'.dirs = batch.dirs
             /\ batch'.finished = batch.finished /\ batch'.pc = pc
  BY <1>2, <1>3 DEF BatchStates
<1>4. batch.pc = "opening"
  BY DEF OpenWatchScan
<1>5. CASE \E pc \in {"opened", "failed"} : batch' = [batch EXCEPT !.pc = pc]
  BY <1>1, <1>3, <1>4, <1>5
<1>6. CASE batch' = [batch EXCEPT !.pc = "refused"]
  BY <1>1, <1>3, <1>4, <1>6
<1> QED
  BY <1>1, <1>3, <1>4, <1>5, <1>6

LEMMA EnterWatchEffect ==
  ASSUME AutoTypeOK, EnterWatchScan
  PROVE  /\ batch' \in BatchStates /\ batch.pc = "opened"
         /\ \/ batch'.pc = "ending" /\ batch'.dirs = {}
            \/ batch'.pc = "failed" /\ batch'.dirs = batch.dirs
         /\ \/ run.pc # "none" /\ run' = run
            \/ /\ run.pc = "none" /\ run' \in RunStates /\ run'.pc = "scanning"
               /\ run'.kind = "watch" /\ run'.left = batch.dirs /\ ~run'.cancelled /\ ~run'.done
<1>1. batch \in BatchStates /\ batch.dirs \in SUBSET Dirs /\ "watch" \in Kinds
  BY AutoNow DEF Kinds
<1>2. CASE batch' = Ended
  BY <1>1, <1>2, RestRecords, BegunEffect DEF EnterWatchScan
<1>3. CASE batch' = [batch EXCEPT !.pc = "failed"]
  <2>1. batch' \in BatchStates /\ batch'.pc = "failed" /\ batch'.dirs = batch.dirs
    BY <1>1, <1>3 DEF BatchStates
  <2> QED
    BY <1>1, <2>1, BegunEffect DEF EnterWatchScan
<1> QED
  BY <1>2, <1>3 DEF EnterWatchScan

LEMMA FinishEffect ==
  ASSUME AutoTypeOK, FinishScan
  PROVE  /\ batch' \in BatchStates /\ batch'.pc = batch.pc /\ batch'.dirs = batch.dirs
         /\ batch.pc \in {"settling", "starting", "opening", "refused", "failed"} => batch'.finished
         /\ run' = NoRun /\ run.pc = "closing" /\ scanRow' = scanRow
<1>1. /\ batch' = [batch EXCEPT !.finished =
                     batch.pc \in {"settling", "starting", "opening", "refused", "failed"}]
      /\ batch \in BatchStates
  BY AutoNow DEF FinishScan
<1>2. PICK over \in BOOLEAN :
        /\ over <=> batch.pc \in {"settling", "starting", "opening", "refused", "failed"}
        /\ batch' = [batch EXCEPT !.finished = over]
  <2>1. (batch.pc \in {"settling", "starting", "opening", "refused", "failed"}) \in BOOLEAN
    OBVIOUS
  <2> QED
    BY <1>1, <2>1
<1>3. batch' \in BatchStates /\ batch'.pc = batch.pc /\ batch'.dirs = batch.dirs
      /\ batch'.finished = over
  BY <1>1, <1>2 DEF BatchStates
<1> QED
  BY <1>2, <1>3 DEF FinishScan, EndRun

\* Callers.
LEMMA CallerTo ==
  ASSUME AutoTypeOK, NEW c \in Callers, NEW to \in CallerStates,
         caller' = [caller EXCEPT ![c] = to]
  PROVE  /\ caller' \in [Callers -> CallerStates] /\ caller'[c] = to
         /\ \A b \in Callers \ {c} : caller'[b] = caller[b]
<1>1. caller \in [Callers -> CallerStates]
  BY AutoNow
<1> QED
  BY <1>1

LEMMA SupersedeEffect ==
  ASSUME AutoTypeOK, NEW c \in Callers, NEW request \in Requests, NEW attempt \in 1..Attempts,
         Supersede(c, request, attempt)
  PROVE  /\ caller' \in [Callers -> CallerStates] /\ caller'[c].pc \in {"wait", "open"}
         /\ \A b \in Callers \ {c} : caller'[b] = caller[b]
         /\ \/ run' = run
            \/ /\ WatchRuns /\ run' \in RunStates /\ run'.pc = run.pc /\ run'.kind = run.kind
               /\ run'.left = run.left /\ run'.done = run.done
               /\ run'.cancelled /\ (run'.byOwner \/ run'.requeue)
<1>1. PICK pc \in {"wait", "open"} :
        caller' = [caller EXCEPT ![c] = [pc |-> pc, request |-> request, attempt |-> attempt]]
  BY DEF Supersede
<1>2. [pc |-> pc, request |-> request, attempt |-> attempt] \in CallerStates
  BY DEF CallerStates
<1>3. /\ caller' \in [Callers -> CallerStates] /\ caller'[c].pc \in {"wait", "open"}
      /\ \A b \in Callers \ {c} : caller'[b] = caller[b]
  BY <1>1, <1>2, CallerTo
<1>4. CASE ~WatchRuns
  BY <1>3, <1>4 DEF Supersede
<1>5. CASE WatchRuns
  <2>1. (KindOf(request) = "full") \in BOOLEAN /\ GivesBack(request) \in BOOLEAN
    BY DEF GivesBack
  <2>2. (KindOf(request) = "full") \/ GivesBack(request)
    BY DEF KindOf, GivesBack
  <2>3. run' = Cancelled(KindOf(request) = "full", GivesBack(request))
    BY <1>5 DEF Supersede
  <2>4. /\ run' \in RunStates /\ run'.pc = run.pc /\ run'.kind = run.kind
        /\ run'.left = run.left /\ run'.done = run.done /\ run'.cancelled
        /\ run'.byOwner = (run.byOwner \/ KindOf(request) = "full")
        /\ run'.requeue = (run.requeue \/ GivesBack(request))
    BY <2>1, <2>3, CancelledEffect
  <2> QED
    BY <1>3, <1>5, <2>2, <2>4
<1> QED
  BY <1>4, <1>5

LEMMA AgainEffect ==
  ASSUME AutoTypeOK, NEW c \in Callers, Again(c), caller[c].attempt < Attempts
  PROVE  /\ caller' \in [Callers -> CallerStates] /\ caller'[c].pc = "supersede"
         /\ \A b \in Callers \ {c} : caller'[b] = caller[b]
<1>1. caller \in [Callers -> CallerStates] /\ caller[c] \in CallerStates
  BY AutoNow
<1>2. caller[c].attempt \in 1..Attempts /\ Attempts \in Nat
  BY <1>1, ScansAssumption DEF CallerStates
<1>3. caller[c].attempt + 1 \in 1..Attempts
  BY <1>2
<1>4. caller' = [caller EXCEPT ![c] = [caller[c] EXCEPT !.pc = "supersede",
                                                        !.attempt = caller[c].attempt + 1]]
  BY <1>1 DEF Again
<1>5. [caller[c] EXCEPT !.pc = "supersede", !.attempt = caller[c].attempt + 1] \in CallerStates
  BY <1>1, <1>3 DEF CallerStates
<1>6. [caller[c] EXCEPT !.pc = "supersede", !.attempt = caller[c].attempt + 1].pc = "supersede"
  BY <1>1 DEF CallerStates
<1> QED
  BY <1>4, <1>5, <1>6, CallerTo

LEMMA LeaveEffect ==
  ASSUME AutoTypeOK, NEW c \in Callers, Leave(c)
  PROVE  /\ caller' \in [Callers -> CallerStates] /\ caller'[c].pc = "idle"
         /\ \A b \in Callers \ {c} : caller'[b] = caller[b]
<1>1. caller' = [caller EXCEPT ![c] = NoCall] /\ NoCall \in CallerStates /\ NoCall.pc = "idle"
  BY RestRecords DEF Leave
<1> QED
  BY <1>1, CallerTo

LEMMA OpenScanEffect ==
  ASSUME AutoTypeOK, NEW c \in Callers, OpenScan(c)
  PROVE  /\ caller' \in [Callers -> CallerStates]
         /\ \A b \in Callers \ {c} : caller'[b] = caller[b]
         /\ caller'[c].pc = "opened" => scanRow = "none" /\ scanRow' \in {"full", "part"}
         /\ scanRow' = scanRow \/ (scanRow = "none" /\ scanRow' \in {"full", "part"})
<1>1. caller \in [Callers -> CallerStates] /\ caller[c] \in CallerStates
  BY AutoNow
<1>2. ASSUME caller' = [caller EXCEPT ![c].pc = "opened", ![c].attempt = 1]
      PROVE  /\ caller' \in [Callers -> CallerStates]
             /\ \A b \in Callers \ {c} : caller'[b] = caller[b]
  <2>1. 1 \in 1..Attempts
    BY ScansAssumption
  <2>2. [caller[c] EXCEPT !.pc = "opened", !.attempt = 1] \in CallerStates
    BY <1>1, <2>1 DEF CallerStates
  <2>3. caller' = [caller EXCEPT ![c] = [caller[c] EXCEPT !.pc = "opened", !.attempt = 1]]
    BY <1>1, <1>2
  <2> QED
    BY <2>2, <2>3, CallerTo
<1>3. ASSUME At(c, "refused")
      PROVE  /\ caller' \in [Callers -> CallerStates] /\ caller'[c].pc = "refused"
             /\ \A b \in Callers \ {c} : caller'[b] = caller[b]
  <2>1. [caller[c] EXCEPT !.pc = "refused"] \in CallerStates
    BY <1>1 DEF CallerStates
  <2>2. caller' = [caller EXCEPT ![c] = [caller[c] EXCEPT !.pc = "refused"]]
    BY <1>1, <1>3 DEF At
  <2>3. [caller[c] EXCEPT !.pc = "refused"].pc = "refused"
    BY <1>1 DEF CallerStates
  <2> QED
    BY <2>1, <2>2, <2>3, CallerTo
<1>4. CASE scanRow = "none" /\ scanRow' = KindOf(caller[c].request)
  <2>1. scanRow' \in {"full", "part"}
    BY <1>4 DEF KindOf
  <2>2. Leave(c) \/ caller' = [caller EXCEPT ![c].pc = "opened", ![c].attempt = 1]
    BY <1>4 DEF OpenScan, Kinds, KindOf
  <2> QED
    BY <1>2, <1>4, <2>1, <2>2, LeaveEffect
<1>5. CASE scanRow # "none" /\ scanRow' = scanRow
  <2>1. At(c, "refused") \/ (Again(c) /\ caller[c].attempt < Attempts) \/ Leave(c)
    BY <1>5 DEF OpenScan
  <2> QED
    BY <1>3, <1>5, <2>1, AgainEffect, LeaveEffect
<1> QED
  BY <1>4, <1>5 DEF OpenScan

LEMMA EndRunEffect ==
  ASSUME AutoTypeOK, EndRun
  PROVE  /\ caller' \in [Callers -> CallerStates]
         /\ \A c \in Callers : caller'[c].pc = "opened" <=> caller[c].pc = "opened"
<1>1. ASSUME NEW c \in Callers
      PROVE  /\ caller'[c] \in CallerStates
             /\ caller'[c].pc = "opened" <=> caller[c].pc = "opened"
  <2>1. caller[c] \in CallerStates
    BY AutoNow
  <2>2. caller'[c] = IF caller[c].pc = "wait" THEN [caller[c] EXCEPT !.pc = "open"] ELSE caller[c]
    BY DEF EndRun
  <2>3. CASE caller[c].pc = "wait"
    BY <2>1, <2>2, <2>3 DEF CallerStates
  <2> QED
    BY <2>1, <2>2, <2>3
<1>2. caller' = [c \in Callers |-> caller'[c]]
  BY DEF EndRun
<1> QED
  BY <1>1, <1>2

\* A caller comes to own the running row only by opening it.
LEMMA CallersEffect ==
  ASSUME AutoTypeOK, AutoNext
  PROVE  /\ caller' \in [Callers -> CallerStates]
         /\ \A c \in Callers :
              CallerOwns(c)' => CallerOwns(c) \/ (OpenScan(c) /\ UNCHANGED autoVars)
<1>1. CASE caller' = caller
  BY <1>1, AutoNow DEF CallerOwns
<1>2. CASE \E c \in Callers, request \in Requests : Ask(c, request) /\ UNCHANGED autoVars
  <2>1. PICK c \in Callers, request \in Requests : Supersede(c, request, 1)
    BY <1>2 DEF Ask
  <2>2. 1 \in 1..Attempts
    BY ScansAssumption
  <2> QED
    BY <2>1, <2>2, SupersedeEffect DEF CallerOwns
<1>3. CASE \E c \in Callers : EnterScan(c)
  <2>1. PICK c \in Callers : Leave(c)
    BY <1>3 DEF EnterScan, Enter
  <2> QED
    BY <2>1, LeaveEffect DEF CallerOwns
<1>4. CASE \E c \in Callers : (Retry(c) \/ GiveUp(c) \/ OpenScan(c) \/ CheckRefusal(c))
        /\ UNCHANGED autoVars
  <2>1. PICK c \in Callers : (Retry(c) \/ GiveUp(c) \/ OpenScan(c) \/ CheckRefusal(c))
          /\ UNCHANGED autoVars
    BY <1>4
  <2>2. CASE Retry(c)
    <3>1. caller[c].request \in Requests /\ caller[c].attempt \in 1..Attempts
      BY AutoNow DEF CallerStates
    <3> QED
      BY <2>2, <3>1, SupersedeEffect DEF Retry, CallerOwns
  <2>3. CASE GiveUp(c)
    BY <2>3, LeaveEffect DEF GiveUp, CallerOwns
  <2>4. CASE CheckRefusal(c)
    BY <2>4, LeaveEffect, AgainEffect DEF CheckRefusal, CallerOwns
  <2>5. CASE OpenScan(c)
    BY <2>1, <2>5, OpenScanEffect DEF CallerOwns
  <2> QED
    BY <2>1, <2>2, <2>3, <2>4, <2>5
<1>5. CASE FinishScan
  BY <1>5, EndRunEffect DEF FinishScan, CallerOwns
<1>6. CASE Restart
  BY <1>6, RestRecords DEF Restart, Recover, CallerOwns
<1> QED
  BY <1>1, <1>2, <1>3, <1>4, <1>5, <1>6, CallerMoves

\* Holders.
LEMMA HolderTo ==
  ASSUME AutoTypeOK, NEW h \in Holders, NEW to \in HolderStates,
         holder' = [holder EXCEPT ![h] = to]
  PROVE  /\ holder' \in [Holders -> HolderStates] /\ holder'[h] = to
         /\ \A g \in Holders \ {h} : holder'[g] = holder[g]
<1>1. holder \in [Holders -> HolderStates]
  BY AutoNow
<1> QED
  BY <1>1

LEMMA HolderGoes ==
  ASSUME AutoTypeOK, NEW h \in Holders,
         NEW pc \in {"idle", "quiesce", "supersede", "wait", "held", "changing", "disarm"},
         holder' = [holder EXCEPT ![h].pc = pc]
  PROVE  /\ holder' \in [Holders -> HolderStates]
         /\ holder'[h].pc = pc /\ holder'[h].batch = holder[h].batch
         /\ holder'[h].gaveUp = holder[h].gaveUp /\ holder'[h].op = holder[h].op
         /\ \A g \in Holders \ {h} : holder'[g] = holder[g]
<1>1. holder \in [Holders -> HolderStates] /\ holder[h] \in HolderStates
  BY AutoNow
<1> DEFINE to == [holder[h] EXCEPT !.pc = pc]
<1>2. to \in HolderStates /\ to.pc = pc /\ to.batch = holder[h].batch
      /\ to.gaveUp = holder[h].gaveUp /\ to.op = holder[h].op
  BY <1>1 DEF HolderStates
<1>3. holder' = [holder EXCEPT ![h] = to]
  BY <1>1
<1>4. /\ holder' \in [Holders -> HolderStates] /\ holder'[h] = to
      /\ \A g \in Holders \ {h} : holder'[g] = holder[g]
  <2> HIDE DEF to
  <2> QED
    BY <1>2, <1>3, HolderTo
<1> QED
  BY <1>2, <1>4

LEMMA HolderTakes ==
  ASSUME AutoTypeOK, NEW h \in Holders,
         NEW pc \in {"idle", "quiesce", "supersede", "wait", "held", "changing", "disarm"},
         NEW dirs \in SUBSET Dirs,
         holder' = [holder EXCEPT ![h].pc = pc, ![h].batch = dirs]
  PROVE  /\ holder' \in [Holders -> HolderStates]
         /\ holder'[h].pc = pc /\ holder'[h].batch = dirs /\ holder'[h].gaveUp = holder[h].gaveUp
         /\ holder'[h].op = holder[h].op
         /\ \A g \in Holders \ {h} : holder'[g] = holder[g]
<1>1. holder \in [Holders -> HolderStates] /\ holder[h] \in HolderStates
  BY AutoNow
<1> DEFINE to == [holder[h] EXCEPT !.pc = pc, !.batch = dirs]
<1>2. to \in HolderStates /\ to.pc = pc /\ to.batch = dirs /\ to.gaveUp = holder[h].gaveUp
      /\ to.op = holder[h].op
  BY <1>1 DEF HolderStates
<1>3. holder' = [holder EXCEPT ![h] = to]
  BY <1>1
<1>4. /\ holder' \in [Holders -> HolderStates] /\ holder'[h] = to
      /\ \A g \in Holders \ {h} : holder'[g] = holder[g]
  <2> HIDE DEF to
  <2> QED
    BY <1>2, <1>3, HolderTo
<1> QED
  BY <1>2, <1>4

LEMMA HoldEffect ==
  ASSUME AutoTypeOK, NEW h \in Holders, NEW op \in {"disable", "folders"}, Hold(h, op)
  PROVE  /\ holder' \in [Holders -> HolderStates]
         /\ holder'[h].pc = "quiesce" /\ holder'[h].batch = {} /\ ~holder'[h].gaveUp
         /\ holder'[h].op = op
         /\ \A g \in Holders \ {h} : holder'[g] = holder[g]
<1>1. [NoHold EXCEPT !.pc = "quiesce", !.op = op] \in HolderStates
  BY RestRecords DEF HolderStates
<1>2. /\ [NoHold EXCEPT !.pc = "quiesce", !.op = op].pc = "quiesce"
      /\ [NoHold EXCEPT !.pc = "quiesce", !.op = op].batch = {}
      /\ ~[NoHold EXCEPT !.pc = "quiesce", !.op = op].gaveUp
      /\ [NoHold EXCEPT !.pc = "quiesce", !.op = op].op = op
  BY DEF NoHold
<1>3. holder' = [holder EXCEPT ![h] = [NoHold EXCEPT !.pc = "quiesce", !.op = op]]
  BY DEF Hold
<1> QED
  BY <1>1, <1>2, <1>3, HolderTo

LEMMA QuiesceEffect ==
  ASSUME AutoTypeOK, NEW h \in Holders, Quiesce(h)
  PROVE  /\ holder' \in [Holders -> HolderStates] /\ ~StartHeld
         /\ holder[h].pc = "quiesce" /\ holder'[h].pc = "supersede"
         /\ holder'[h].batch = inflight /\ holder'[h].gaveUp = holder[h].gaveUp
         /\ holder'[h].op = holder[h].op
         /\ \A g \in Holders \ {h} : holder'[g] = holder[g]
<1>1. inflight \in SUBSET Dirs
  BY AutoNow
<1>2. holder' = [holder EXCEPT ![h].pc = "supersede", ![h].batch = inflight]
  BY DEF Quiesce, Clones
<1>3. holder[h].pc = "quiesce" /\ ~StartHeld
  BY DEF Quiesce
<1> QED
  BY <1>1, <1>2, <1>3, HolderTakes

LEMMA SupersedesEffect ==
  ASSUME AutoTypeOK, NEW h \in Holders, HoldSupersedes(h)
  PROVE  /\ holder' \in [Holders -> HolderStates] /\ holder[h].pc = "supersede"
         /\ holder'[h].gaveUp = holder[h].gaveUp /\ holder'[h].op = holder[h].op
         /\ \A g \in Holders \ {h} : holder'[g] = holder[g]
         /\ \/ /\ WatchRuns /\ run' \in RunStates /\ run'.pc = run.pc /\ run'.kind = run.kind
               /\ run'.left = run.left /\ run'.done = run.done /\ run'.cancelled
               /\ run'.byOwner = run.byOwner /\ run'.requeue = run.requeue
               /\ holder'[h].pc = "wait" /\ holder'[h].batch = holder[h].batch
            \/ /\ ~WatchRuns /\ run' = run /\ holder'[h].pc = "held" /\ holder'[h].batch = {}
<1>1. holder[h].pc = "supersede"
  BY DEF HoldSupersedes
<1>2. CASE WatchRuns
  <2>1. run' = Cancelled(FALSE, FALSE) /\ holder' = [holder EXCEPT ![h].pc = "wait"]
    BY <1>2 DEF HoldSupersedes, HoldMoves
  <2>2. /\ run' \in RunStates /\ run'.pc = run.pc /\ run'.kind = run.kind
        /\ run'.left = run.left /\ run'.done = run.done /\ run'.cancelled
        /\ run'.byOwner = (run.byOwner \/ FALSE) /\ run'.requeue = (run.requeue \/ FALSE)
    BY <2>1, CancelledEffect
  <2>3. run.byOwner \in BOOLEAN /\ run.requeue \in BOOLEAN
    BY AutoNow DEF RunStates
  <2>4. /\ holder' \in [Holders -> HolderStates] /\ holder'[h].pc = "wait"
        /\ holder'[h].batch = holder[h].batch
        /\ holder'[h].gaveUp = holder[h].gaveUp /\ holder'[h].op = holder[h].op
        /\ \A g \in Holders \ {h} : holder'[g] = holder[g]
    BY <2>1, HolderGoes
  <2> QED
    BY <1>1, <1>2, <2>2, <2>3, <2>4
<1>3. CASE ~WatchRuns
  <2>1. run' = run /\ holder' = [holder EXCEPT ![h].pc = "held", ![h].batch = {}]
    BY <1>3 DEF HoldSupersedes
  <2>2. {} \in SUBSET Dirs
    OBVIOUS
  <2>3. /\ holder' \in [Holders -> HolderStates] /\ holder'[h].pc = "held"
        /\ holder'[h].batch = {}
        /\ holder'[h].gaveUp = holder[h].gaveUp /\ holder'[h].op = holder[h].op
        /\ \A g \in Holders \ {h} : holder'[g] = holder[g]
    BY <2>1, <2>2, HolderTakes
  <2> QED
    BY <1>1, <1>3, <2>1, <2>3
<1> QED
  BY <1>2, <1>3

LEMMA WaitedEffect ==
  ASSUME AutoTypeOK, NEW h \in Holders, HoldWaited(h)
  PROVE  /\ holder' \in [Holders -> HolderStates] /\ holder[h].pc = "wait"
         /\ holder'[h].pc = "held" /\ holder'[h].batch = holder[h].batch
         /\ holder'[h].op = holder[h].op /\ (~holder'[h].gaveUp => ~WatchRuns)
         /\ \A g \in Holders \ {h} : holder'[g] = holder[g]
<1>1. \/ ~WatchRuns /\ holder' = [holder EXCEPT ![h].pc = "held"]
      \/ holder' = [holder EXCEPT ![h].pc = "held", ![h].gaveUp = TRUE]
  BY DEF HoldWaited, HoldMoves
<1>2. holder[h].pc = "wait"
  BY DEF HoldWaited
<1>3. CASE ~WatchRuns /\ holder' = [holder EXCEPT ![h].pc = "held"]
  BY <1>2, <1>3, HolderGoes
<1>4. CASE holder' = [holder EXCEPT ![h].pc = "held", ![h].gaveUp = TRUE]
  <2>1. holder \in [Holders -> HolderStates] /\ holder[h] \in HolderStates
    BY AutoNow
  <2> DEFINE to == [holder[h] EXCEPT !.pc = "held", !.gaveUp = TRUE]
  <2>2. to \in HolderStates /\ to.pc = "held" /\ to.batch = holder[h].batch /\ to.gaveUp = TRUE
        /\ to.op = holder[h].op
    BY <2>1 DEF HolderStates
  <2>3. holder' = [holder EXCEPT ![h] = to]
    BY <1>4, <2>1
  <2> HIDE DEF to
  <2> QED
    BY <1>2, <2>2, <2>3, HolderTo
<1> QED
  BY <1>1, <1>3, <1>4

LEMMA ChangingEffect ==
  ASSUME AutoTypeOK, NEW h \in Holders, FoldersChanging(h)
  PROVE  /\ holder' \in [Holders -> HolderStates]
         /\ holder[h].pc = "held" /\ holder[h].op = "folders" /\ holder'[h].pc = "changing"
         /\ holder'[h].batch = {} /\ holder'[h].gaveUp = holder[h].gaveUp
         /\ holder'[h].op = holder[h].op
         /\ \A g \in Holders \ {h} : holder'[g] = holder[g]
<1>1. holder' = [holder EXCEPT ![h].pc = "changing", ![h].batch = {}]
  BY DEF FoldersChanging
<1>2. holder[h].pc = "held" /\ holder[h].op = "folders"
  BY DEF FoldersChanging
<1>3. {} \in SUBSET Dirs
  OBVIOUS
<1> QED
  BY <1>1, <1>2, <1>3, HolderTakes

LEMMA DisableEffect ==
  ASSUME AutoTypeOK, NEW h \in Holders, Disable(h)
  PROVE  /\ holder' \in [Holders -> HolderStates]
         /\ holder[h].pc = "held" /\ holder[h].op = "disable" /\ ~holder[h].gaveUp
         /\ holder'[h].pc = "disarm" /\ holder'[h].op = "disable" /\ holder'[h].batch = {}
         /\ \A g \in Holders \ {h} : holder'[g] = holder[g]
<1>1. holder' = [holder EXCEPT ![h].pc = "disarm", ![h].batch = {}]
  BY DEF Disable
<1>2. holder[h].pc = "held" /\ holder[h].op = "disable" /\ ~holder[h].gaveUp
  BY DEF Disable
<1>3. {} \in SUBSET Dirs
  OBVIOUS
<1> QED
  BY <1>1, <1>2, <1>3, HolderTakes

\* The end of a request that held the starts.
LEMMA LetGoEffect ==
  ASSUME AutoTypeOK, NEW h \in Holders, FoldersChanged(h) \/ DisableFails(h) \/ DisarmAfter(h)
  PROVE  /\ holder' \in [Holders -> HolderStates] /\ holder'[h] = NoHold
         /\ \A g \in Holders \ {h} : holder'[g] = holder[g]
<1>1. holder' = [holder EXCEPT ![h] = NoHold] /\ NoHold \in HolderStates
  BY RestRecords DEF FoldersChanged, DisableFails, DisarmAfter
<1> QED
  BY <1>1, HolderTo

\* Whoever holds the starts, only its own request moves.
LEMMA HolderEffect ==
  ASSUME AutoTypeOK, NEW h \in Holders, NEW op \in {"disable", "folders"}, HolderStep(h, op)
  PROVE  /\ holder' \in [Holders -> HolderStates]
         /\ \A g \in Holders \ {h} : holder'[g] = holder[g]
<1>1. CASE Hold(h, op)
  BY <1>1, HoldEffect
<1>2. CASE Quiesce(h)
  BY <1>2, QuiesceEffect
<1>3. CASE HoldSupersedes(h)
  BY <1>3, SupersedesEffect
<1>4. CASE HoldWaited(h)
  BY <1>4, WaitedEffect
<1>5. CASE FoldersChanging(h)
  BY <1>5, ChangingEffect
<1>6. CASE Disable(h)
  BY <1>6, DisableEffect
<1>7. CASE FoldersChanged(h) \/ DisableFails(h) \/ DisarmAfter(h)
  BY <1>7, LetGoEffect
<1> QED
  BY <1>1, <1>2, <1>3, <1>4, <1>5, <1>6, <1>7 DEF HolderStep

\* Arming: a new goroutine puts the others out of date.
LEMMA ArmEffect ==
  ASSUME AutoTypeOK, Arm
  PROVE  /\ arm' \in [Arms -> ArmStates]
         /\ \E a \in Arms :
              /\ arm[a].pc = "none" /\ arm'[a].pc = "waiting" /\ ~arm'[a].stale
              /\ \A b \in Arms \ {a} :
                   arm'[b].pc = arm[b].pc /\ (arm'[b].stale <=> arm[b].pc # "none")
<1>1. PICK a \in Arms :
        /\ arm[a].pc = "none"
        /\ arm' = [b \in Arms |-> IF a = b THEN [pc |-> "waiting", stale |-> FALSE]
                                  ELSE [arm[b] EXCEPT !.stale = arm[b].pc # "none"]]
  BY DEF Arm
<1>2. [pc |-> "waiting", stale |-> FALSE] \in ArmStates
  BY DEF ArmStates
<1>3. ASSUME NEW b \in Arms \ {a}
      PROVE  /\ arm'[b] \in ArmStates /\ arm'[b].pc = arm[b].pc
             /\ arm'[b].stale <=> arm[b].pc # "none"
  <2>1. arm[b] \in ArmStates /\ arm'[b] = [arm[b] EXCEPT !.stale = arm[b].pc # "none"]
    BY <1>1, AutoNow
  <2>2. PICK late \in BOOLEAN :
          (late <=> arm[b].pc # "none") /\ arm'[b] = [arm[b] EXCEPT !.stale = late]
    <3>1. (arm[b].pc # "none") \in BOOLEAN
      OBVIOUS
    <3> QED
      BY <2>1, <3>1
  <2> QED
    BY <2>1, <2>2 DEF ArmStates
<1>4. arm'[a] = [pc |-> "waiting", stale |-> FALSE]
  BY <1>1
<1>5. arm' = [b \in Arms |-> arm'[b]]
  BY <1>1
<1>6. \A b \in Arms : arm'[b] \in ArmStates
  BY <1>2, <1>3, <1>4
<1>7. arm' \in [Arms -> ArmStates]
  BY <1>5, <1>6
<1> QED
  BY <1>1, <1>3, <1>4, <1>7

LEMMA AllStaleEffect ==
  ASSUME AutoTypeOK, arm' = AllStale
  PROVE  /\ arm' \in [Arms -> ArmStates]
         /\ \A b \in Arms : arm'[b].pc = arm[b].pc /\ (arm'[b].stale <=> arm[b].pc # "none")
<1>1. ASSUME NEW b \in Arms
      PROVE  /\ arm'[b] \in ArmStates /\ arm'[b].pc = arm[b].pc
             /\ arm'[b].stale <=> arm[b].pc # "none"
  <2>1. arm[b] \in ArmStates /\ arm'[b] = [arm[b] EXCEPT !.stale = arm[b].pc # "none"]
    BY AutoNow DEF AllStale
  <2>2. PICK late \in BOOLEAN :
          (late <=> arm[b].pc # "none") /\ arm'[b] = [arm[b] EXCEPT !.stale = late]
    <3>1. (arm[b].pc # "none") \in BOOLEAN
      OBVIOUS
    <3> QED
      BY <2>1, <3>1
  <2> QED
    BY <2>1, <2>2 DEF ArmStates
<1>2. arm' = [b \in Arms |-> arm'[b]]
  BY DEF AllStale
<1> QED
  BY <1>1, <1>2

LEMMA ArmTo ==
  ASSUME AutoTypeOK, NEW a \in Arms, NEW pc \in {"none", "waiting", "checked", "armed"},
         arm' = [arm EXCEPT ![a].pc = pc]
  PROVE  /\ arm' \in [Arms -> ArmStates] /\ arm'[a].pc = pc /\ arm'[a].stale = arm[a].stale
         /\ \A b \in Arms \ {a} : arm'[b] = arm[b]
<1>1. arm \in [Arms -> ArmStates] /\ arm[a] \in ArmStates
  BY AutoNow
<1> DEFINE to == [arm[a] EXCEPT !.pc = pc]
<1>2. to \in ArmStates /\ to.pc = pc /\ to.stale = arm[a].stale
  BY <1>1 DEF ArmStates
<1>3. arm' = [arm EXCEPT ![a] = to]
  BY <1>1
<1> HIDE DEF to
<1> QED
  BY <1>1, <1>2, <1>3

LEMMA ArmGone ==
  ASSUME AutoTypeOK, NEW a \in Arms, arm' = [arm EXCEPT ![a] = NoArm]
  PROVE  /\ arm' \in [Arms -> ArmStates] /\ arm'[a].pc = "none"
         /\ \A b \in Arms \ {a} : arm'[b] = arm[b]
<1>1. arm \in [Arms -> ArmStates] /\ NoArm \in ArmStates /\ NoArm.pc = "none"
  BY AutoNow, RestRecords
<1> QED
  BY <1>1

LEMMA FirstArmsEffect ==
  ASSUME NEW on \in BOOLEAN, NEW first \in FirstArms(on)
  PROVE  /\ first \in [Arms -> ArmStates]
         /\ \A b \in Arms : first[b].pc \in {"none", "waiting"} /\ ~first[b].stale
         /\ on => \E b \in Arms : first[b].pc = "waiting"
         /\ ~on => \A b \in Arms : first[b].pc = "none"
         /\ \A b, c \in Arms : first[b].pc = "waiting" /\ first[c].pc = "waiting" => b = c
<1>1. PICK a \in Arms :
        first = [b \in Arms |-> IF on /\ a = b THEN [NoArm EXCEPT !.pc = "waiting"] ELSE NoArm]
  BY DEF FirstArms
<1>2. /\ [NoArm EXCEPT !.pc = "waiting"] \in ArmStates
      /\ [NoArm EXCEPT !.pc = "waiting"].pc = "waiting" /\ ~[NoArm EXCEPT !.pc = "waiting"].stale
  BY DEF NoArm, ArmStates
<1>3. NoArm \in ArmStates /\ NoArm.pc = "none" /\ ~NoArm.stale
  BY RestRecords
<1> QED
  BY <1>1, <1>2, <1>3

\* Everything that can happen to the run.
LEMMA RunChanges ==
  ASSUME AutoTypeOK, AutoNext
  PROVE  /\ run' \in RunStates
         /\ \/ run' = run
            \/ /\ EnterWatchScan /\ run.pc = "none" /\ run'.pc = "scanning" /\ run'.kind = "watch"
               /\ run'.left = batch.dirs /\ ~run'.cancelled /\ ~run'.done
            \/ /\ \E c \in Callers : EnterScan(c)
               /\ run.pc = "none" /\ run'.pc = "scanning" /\ run'.kind \in {"full", "part"}
               /\ (run'.kind = "full" => run'.left = Dirs) /\ ~run'.cancelled /\ ~run'.done
            \/ /\ WatchRuns /\ run'.pc = run.pc /\ run'.kind = run.kind /\ run'.left = run.left
               /\ run'.done = run.done /\ run'.cancelled
               /\ \/ UNCHANGED <<scanRow, disk, autoVars>> /\ (run'.byOwner \/ run'.requeue)
                  \/ \E h \in Holders : HoldSupersedes(h)
            \/ \E d \in Dirs : ReadDirectory(d) /\ UNCHANGED autoVars
            \/ (StopScanning \/ FinishRow) /\ UNCHANGED autoVars
            \/ FinishScan /\ run' = NoRun
            \/ /\ Restart
               /\ \/ run' = NoRun /\ scanRow' = "none"
                  \/ /\ run'.pc = "scanning" /\ run'.kind \in {"full", "part"}
                     /\ scanRow' = run'.kind /\ ~run'.cancelled /\ ~run'.done
<1>1. CASE run' = run
  BY <1>1, AutoNow
<1>2. CASE EnterWatchScan
  BY <1>2, EnterWatchEffect, AutoNow
<1>3. CASE \E c \in Callers : EnterScan(c)
  <2>1. PICK c \in Callers : EnterScan(c)
    BY <1>3
  <2> DEFINE kind == KindOf(caller[c].request)
  <2>2. kind \in Kinds /\ kind \in {"full", "part"} /\ ToRead(kind) \in SUBSET Dirs
        /\ (kind = "full" => ToRead(kind) = Dirs)
    BY DEF KindOf, Kinds, ToRead
  <2>3. run' = IF run.pc # "none" THEN run ELSE Begun(kind, ToRead(kind))
    BY <2>1 DEF EnterScan, Enter
  <2> HIDE DEF kind
  <2> QED
    BY <2>1, <2>2, <2>3, BegunEffect, AutoNow
<1>4. CASE \E c \in Callers, request \in Requests : Ask(c, request) /\ UNCHANGED autoVars
  <2>1. PICK c \in Callers, request \in Requests :
          Supersede(c, request, 1) /\ UNCHANGED autoVars
    BY <1>4 DEF Ask
  <2>2. 1 \in 1..Attempts /\ UNCHANGED <<scanRow, disk>>
    BY <2>1, ScansAssumption DEF Supersede
  <2> QED
    BY <2>1, <2>2, SupersedeEffect, AutoNow
<1>5. CASE \E c \in Callers : Retry(c) /\ UNCHANGED autoVars
  <2>1. PICK c \in Callers :
          Supersede(c, caller[c].request, caller[c].attempt) /\ UNCHANGED autoVars
    BY <1>5 DEF Retry
  <2>2. caller[c].request \in Requests /\ caller[c].attempt \in 1..Attempts
    BY AutoNow DEF CallerStates
  <2>3. UNCHANGED <<scanRow, disk>>
    BY <2>1 DEF Supersede
  <2> QED
    BY <2>1, <2>2, <2>3, SupersedeEffect, AutoNow
<1>6. CASE \E h \in Holders : HoldSupersedes(h)
  BY <1>6, SupersedesEffect, AutoNow
<1>7. CASE \E d \in Dirs : ReadDirectory(d) /\ UNCHANGED autoVars
  BY <1>7, ReadEffect
<1>8. CASE (StopScanning \/ FinishRow) /\ UNCHANGED autoVars
  BY <1>8, StopEffect, FinishRowEffect
<1>9. CASE FinishScan
  BY <1>9, FinishEffect, RestRecords
<1>10. CASE Restart
  <2>1. CASE scanRow' = "none" /\ run' = NoRun
    BY <1>10, <2>1, RestRecords
  <2>2. CASE scanRow \in {"full", "part"} /\ scanRow' = scanRow
             /\ run' = Begun(scanRow, ToRead(scanRow))
    <3>1. scanRow \in Kinds /\ ToRead(scanRow) \in SUBSET Dirs
      BY <2>2 DEF Kinds, ToRead
    <3> QED
      BY <1>10, <2>2, <3>1, BegunEffect
  <2> QED
    BY <1>10, <2>1, <2>2 DEF Restart, Recover
<1> QED
  BY <1>1, <1>2, <1>3, <1>4, <1>5, <1>6, <1>7, <1>8, <1>9, <1>10, RunMoves

\* Everything that can happen to the batch.
LEMMA BatchChanges ==
  ASSUME AutoTypeOK, AutoNext
  PROVE  batch' \in BatchStates
<1>1. CASE batch' = batch
  BY <1>1, AutoNow
<1>2. CASE Fire
  BY <1>2, FireEffect, AutoNow
<1>3. CASE Settle
  BY <1>3, SettleEffect
<1>4. CASE Start
  BY <1>4, StartEffect
<1>5. CASE OpenWatchScan
  BY <1>5, OpenWatchEffect
<1>6. CASE EnterWatchScan
  BY <1>6, EnterWatchEffect
<1>7. CASE FinishScan
  BY <1>7, FinishEffect
<1>8. CASE NotStarted \/ EndBatch \/ Restart
  BY <1>8, RestRecords DEF NotStarted, EndBatch, Restart
<1> QED
  BY <1>1, <1>2, <1>3, <1>4, <1>5, <1>6, <1>7, <1>8, BatchMoves

LEMMA HolderChanges ==
  ASSUME AutoTypeOK, AutoNext
  PROVE  holder' \in [Holders -> HolderStates]
<1>1. CASE holder' = holder
  BY <1>1, AutoNow
<1>2. CASE Restart
  BY <1>2, RestRecords DEF Restart
<1>3. CASE \E h \in Holders, op \in {"disable", "folders"} : Hold(h, op)
  BY <1>3, HoldEffect
<1>4. CASE \E h \in Holders : Quiesce(h) \/ HoldSupersedes(h) \/ HoldWaited(h) \/
             FoldersChanging(h) \/ FoldersChanged(h) \/ DisableFails(h) \/ Disable(h) \/
             DisarmAfter(h)
  BY <1>4, QuiesceEffect, SupersedesEffect, WaitedEffect, ChangingEffect, DisableEffect, LetGoEffect
<1> QED
  BY <1>1, <1>2, <1>3, <1>4, HolderMoves

LEMMA ArmChanges ==
  ASSUME AutoTypeOK, AutoNext
  PROVE  arm' \in [Arms -> ArmStates]
<1>1. CASE UNCHANGED <<arm, watching>>
  BY <1>1, AutoNow
<1>2. CASE Enable
  BY <1>2, ArmEffect DEF Enable, Rearm
<1>3. CASE Restart
  BY <1>3, AutoNow, FirstArmsEffect DEF Restart
<1>4. CASE \E h \in Holders : FoldersChanged(h) \/ Disable(h) \/ DisarmAfter(h)
  BY <1>4, ArmEffect, AllStaleEffect, AutoNow DEF FoldersChanged, Rearm, Disable, DisarmAfter
<1>5. CASE \E a \in Arms : ArmStep(a)
  BY <1>5, ArmTo, ArmGone
     DEF ArmStep, CannotList, CheckGeneration, NoFolders, ArmWatcher, FinishArming, OutOfDate,
         OutOfDateWith, Leaves
<1> QED
  BY <1>1, <1>2, <1>3, <1>4, <1>5, ArmMoves

-----------------------------------------------------------------------------
(* Types.                                                                  *)


LEMMA BecomesTyped ==
  ASSUME AutoTypeOK, NEW dirs, NEW since \in Since, Becomes(dirs, since)
  PROVE  disk' \in [Dirs -> Since]
BY AutoNow DEF Becomes

LEMMA ScanTypes ==
  ASSUME AutoTypeOK, AutoNext
  PROVE  scanRow' \in Kinds \cup {"none"} /\ disk' \in [Dirs -> Since]
<1>1. scanRow' \in Kinds \cup {"none"}
  <2>1. scanRow \in Kinds \cup {"none"}
    BY AutoNow
  <2>2. CASE OpenWatchScan \/ Restart \/ FinishRow
    BY <2>1, <2>2 DEF OpenWatchScan, Restart, Recover, FinishRow, Kinds
  <2>3. CASE \E c \in Callers : OpenScan(c)
    BY <2>1, <2>3, OpenScanEffect DEF Kinds
  <2> QED
    BY <2>1, <2>2, <2>3, RowMoves
<1>2. disk' \in [Dirs -> Since]
  <2>1. disk \in [Dirs -> Since] /\ {"read", "changed", "lost", "left"} \subseteq Since
    BY AutoNow DEF Since
  <2>2. CASE \E d \in Dirs : Change(d) \/ EventsLost(d)
    BY <2>1, <2>2, BecomesTyped DEF Change, EventsLost
  <2>3. CASE \E d \in Dirs : ReadDirectory(d)
    BY <2>1, <2>3 DEF ReadDirectory
  <2>4. CASE \/ FinishScan \/ (\E h \in Holders : Disable(h))
             \/ \E a \in Arms : NoFolders(a) \/ ArmWatcher(a)
    BY <2>1, <2>4, BecomesTyped DEF FinishScan, Disable, NoFolders, ArmWatcher, DropSession
  <2>5. CASE Restart
    BY <2>1, <2>5 DEF Restart, Recover
  <2> QED
    BY <2>1, <2>2, <2>3, <2>4, <2>5, DiskMoves
<1> QED
  BY <1>1, <1>2

LEMMA DirTypes ==
  ASSUME AutoTypeOK, AutoNext
  PROVE  notice' \subseteq Dirs /\ dirty' \subseteq Dirs /\ inflight' \subseteq Dirs
<1>1. /\ notice \subseteq Dirs /\ dirty \subseteq Dirs /\ inflight \subseteq Dirs
      /\ batch.dirs \subseteq Dirs /\ \A h \in Holders : holder[h].batch \subseteq Dirs
  BY AutoNow DEF HolderStates
<1>2. notice' \subseteq Dirs
  <2>1. CASE \E d \in Dirs : Change(d) \/ Changed(d) \/ EventsLost(d)
    BY <1>1, <2>1 DEF Change, Changed, EventsLost
  <2>2. CASE Restart \/ (\E h \in Holders : DisarmAfter(h))
    BY <2>2 DEF Restart, DisarmAfter, Disarm
  <2>3. CASE \E a \in Arms : CheckGeneration(a) \/ NoFolders(a) \/ ArmWatcher(a) \/ FinishArming(a)
    BY <1>1, <2>3
       DEF CheckGeneration, NoFolders, ArmWatcher, FinishArming, OutOfDate, OutOfDateWith, Disarm,
           DropSession
  <2> QED
    BY <1>1, <2>1, <2>2, <2>3, NoticeMoves
<1>3. dirty' \subseteq Dirs
  <2>1. CASE (\E d \in Dirs : Changed(d)) \/ Fire \/ Start \/ NotStarted \/ Restart
    BY <1>1, <2>1 DEF Changed, Fire, Start, NotStarted, Restart
  <2>2. CASE Settle
    BY <1>1, <2>2, SettleEffect
  <2>3. CASE FinishScan
    BY <1>1, <2>3 DEF FinishScan
  <2>4. CASE \E h \in Holders : FoldersChanging(h) \/ DisableFails(h) \/ Disable(h)
    BY <1>1, <2>4 DEF FoldersChanging, DisableFails, Disable, Requeue
  <2> QED
    BY <1>1, <2>1, <2>2, <2>3, <2>4, DirtyMoves
<1>4. inflight' \subseteq Dirs
  <2>1. CASE Start \/ NotStarted \/ Restart
    BY <1>1, <2>1 DEF Start, NotStarted, Restart
  <2>2. CASE FinishScan
    BY <1>1, <2>2 DEF FinishScan
  <2>3. CASE \E h \in Holders : FoldersChanging(h) \/ DisableFails(h) \/ Disable(h)
    BY <1>1, <2>3 DEF FoldersChanging, DisableFails, Disable, Requeue
  <2> QED
    BY <1>1, <2>1, <2>2, <2>3, InflightMoves
<1> QED
  BY <1>2, <1>3, <1>4

LEMMA FlagTypes ==
  ASSUME AutoTypeOK, AutoNext
  PROVE  /\ enabled' \in BOOLEAN /\ timer' \in BOOLEAN /\ rerun' \in BOOLEAN
         /\ watching' \in BOOLEAN /\ lostNew' \in BOOLEAN /\ uncovered' \in BOOLEAN
<1>1. /\ enabled \in BOOLEAN /\ timer \in BOOLEAN /\ rerun \in BOOLEAN
      /\ watching \in BOOLEAN /\ lostNew \in BOOLEAN /\ uncovered \in BOOLEAN
  BY AutoNow
<1>2. enabled' \in BOOLEAN
  BY <1>1, EnabledMoves DEF Enable, Disable
<1>3. timer' \in BOOLEAN /\ rerun' \in BOOLEAN
  <2>1. CASE (\E d \in Dirs : Changed(d)) \/ Fire \/ Restart
    BY <1>1, <2>1 DEF Changed, Fire, Restart
  <2>2. CASE Settle
    BY <1>1, <2>2 DEF Settle
  <2>3. CASE NotStarted \/ EndBatch \/ FinishScan
    BY <1>1, <2>3, Zenon DEF NotStarted, EndBatch, FinishScan
  <2>4. CASE \E h \in Holders : FoldersChanged(h) \/ DisableFails(h) \/ Disable(h)
    BY <1>1, <2>4, Zenon DEF FoldersChanged, DisableFails, Disable
  <2> QED
    BY <1>1, <2>1, <2>2, <2>3, <2>4, TimerMoves
<1>4. watching' \in BOOLEAN
  <2>1. CASE Enable \/ Restart
    BY <1>1, <2>1 DEF Enable, Restart
  <2>2. CASE \E h \in Holders : FoldersChanged(h) \/ Disable(h) \/ DisarmAfter(h)
    BY <1>1, <2>2 DEF FoldersChanged, Disable, DisarmAfter, Disarm
  <2>3. CASE \E a \in Arms : ArmStep(a)
    BY <1>1, <2>3
       DEF ArmStep, CannotList, CheckGeneration, NoFolders, ArmWatcher, FinishArming, OutOfDate,
           OutOfDateWith, Disarm
  <2> QED
    BY <1>1, <2>1, <2>2, <2>3, ArmMoves
<1>5. lostNew' \in BOOLEAN
  <2>1. CASE (\E d \in Dirs : EventsLost(d)) \/ FinishScan \/ Enable \/ Restart
    BY <1>1, <2>1 DEF EventsLost, FinishScan, Enable, Rearm, Restart
  <2>2. CASE \E c \in Callers : EnterScan(c)
    BY <1>1, <2>2, Zenon DEF EnterScan
  <2>3. CASE \E h \in Holders : FoldersChanged(h) \/ Disable(h)
    BY <1>1, <2>3 DEF FoldersChanged, Rearm, Disable
  <2>4. CASE \E a \in Arms : CannotList(a) \/ NoFolders(a) \/ ArmWatcher(a) \/ FinishArming(a)
    BY <1>1, <2>4 DEF CannotList, NoFolders, ArmWatcher, FinishArming, Unwatched
  <2> QED
    BY <1>1, <2>1, <2>2, <2>3, <2>4, StateMoves
<1>6. uncovered' \in BOOLEAN
  <2>1. CASE \E d \in Dirs : EventsLost(d)
    BY <1>1, <2>1 DEF EventsLost
  <2>2. CASE (\E c \in Callers : EnterScan(c)) \/ FinishScan \/ Enable \/ Restart
    BY <1>1, <2>2 DEF EnterScan, FinishScan, Enable, Rearm, Restart
  <2>3. CASE \E h \in Holders : FoldersChanged(h) \/ Disable(h)
    BY <1>1, <2>3 DEF FoldersChanged, Rearm, Disable
  <2>4. CASE \E a \in Arms : CannotList(a) \/ NoFolders(a) \/ ArmWatcher(a) \/ FinishArming(a)
    BY <1>1, <2>4 DEF CannotList, NoFolders, ArmWatcher, FinishArming, Covers
  <2> QED
    BY <1>1, <2>1, <2>2, <2>3, <2>4, StateMoves
<1> QED
  BY <1>2, <1>3, <1>4, <1>5, <1>6

LEMMA StateTypes ==
  ASSUME AutoTypeOK, WatchOwed, AutoNext
  PROVE  /\ watchState' \in {"off", "starting", "active", "limited"}
         /\ problem' \in {"none", "events_lost", "unwatched"}
         /\ ~enabled' => watchState' = "off"
<1>1. /\ watchState \in {"off", "starting", "active", "limited"}
      /\ problem \in {"none", "events_lost", "unwatched"}
      /\ ~enabled => watchState = "off"
      /\ enabled \in BOOLEAN
  BY DEF AutoTypeOK
<1>2. CASE UNCHANGED <<watchState, problem, lostNew, uncovered>>
  BY <1>1, <1>2, EnabledMoves DEF Enable, Disable
<1>3. CASE \E d \in Dirs : EventsLost(d)
  BY <1>1, <1>3 DEF EventsLost
<1>4. CASE \E c \in Callers : EnterScan(c)
  BY <1>1, <1>4 DEF EnterScan
<1>5. CASE FinishScan
  BY <1>1, <1>5 DEF FinishScan
<1>6. CASE Enable
  BY <1>6 DEF Enable, Rearm
<1>7. CASE Restart
  BY <1>1, <1>7 DEF Restart, StateOf
<1>8. CASE \E h \in Holders : FoldersChanged(h)
  BY <1>1, <1>8 DEF FoldersChanged, Rearm
<1>9. CASE \E h \in Holders : Disable(h)
  BY <1>9 DEF Disable
<1>10. CASE \E a \in Arms : CannotList(a) \/ NoFolders(a) \/ ArmWatcher(a)
  <2>1. PICK a \in Arms : CannotList(a) \/ NoFolders(a) \/ ArmWatcher(a)
    BY <1>10
  <2>2. ~enabled => arm[a].stale
    BY <2>1 DEF WatchOwed, CannotList, NoFolders, ArmWatcher
  <2> QED
    BY <1>1, <2>1, <2>2 DEF CannotList, NoFolders, ArmWatcher, Unwatched
<1>11. CASE \E a \in Arms : FinishArming(a)
  <2>1. PICK a \in Arms : FinishArming(a)
    BY <1>11
  <2>2. ~enabled => arm[a].stale
    BY <2>1 DEF WatchOwed, FinishArming
  <2> QED
    BY <1>1, <2>1, <2>2 DEF FinishArming, OutOfDate, OutOfDateWith
<1> QED
  BY <1>2, <1>3, <1>4, <1>5, <1>6, <1>7, <1>8, <1>9, <1>10, <1>11, StateMoves

LEMMA TypeStep ==
  ASSUME AutoTypeOK, WatchOwed, AutoNext
  PROVE  AutoTypeOK'
<1>1. /\ run' \in RunStates /\ batch' \in BatchStates /\ caller' \in [Callers -> CallerStates]
      /\ holder' \in [Holders -> HolderStates] /\ arm' \in [Arms -> ArmStates]
  BY RunChanges, BatchChanges, CallersEffect, HolderChanges, ArmChanges
<1> QED
  BY <1>1, ScanTypes, DirTypes, FlagTypes, StateTypes
     DEF AutoTypeOK, ScansTypeOK, RunStates, BatchStates, CallerStates, HolderStates, ArmStates

-----------------------------------------------------------------------------
(* One owner.                                                              *)

\* Every change of a batch, for the steps that follow.
LEMMA BatchPhases ==
  ASSUME AutoTypeOK, AutoNext
  PROVE  /\ BatchOwns' => \/ BatchOwns /\ ~EnterWatchScan
                          \/ OpenWatchScan /\ scanRow = "none" /\ scanRow' = "watch"
         /\ StartHeld' => StartHeld \/ (Start /\ enabled /\ ~Holding)
         /\ ~StartHeld' /\ StartHeld => EnterWatchScan \/ NotStarted \/ Restart
<1>1. CASE batch' = batch
  <2>1. ~EnterWatchScan
    BY <1>1, EnterWatchEffect
  <2> QED
    BY <1>1, <2>1 DEF BatchOwns, StartHeld
<1>2. CASE Fire
  BY <1>1, <1>2, FireEffect DEF BatchOwns, StartHeld
<1>3. CASE Settle
  BY <1>3, SettleEffect DEF BatchOwns, StartHeld
<1>4. CASE Start
  BY <1>4, StartEffect DEF BatchOwns, StartHeld
<1>5. CASE OpenWatchScan
  BY <1>5, OpenWatchEffect DEF BatchOwns, StartHeld
<1>6. CASE EnterWatchScan
  BY <1>6, EnterWatchEffect DEF BatchOwns, StartHeld
<1>7. CASE FinishScan
  <2>1. ~EnterWatchScan
    BY <1>7, FinishEffect, EnterWatchEffect
  <2> QED
    BY <1>7, <2>1, FinishEffect DEF BatchOwns, StartHeld
<1>8. CASE NotStarted \/ EndBatch \/ Restart
  BY <1>8, RestRecords DEF NotStarted, EndBatch, Restart, BatchOwns, StartHeld
<1> QED
  BY <1>1, <1>2, <1>3, <1>4, <1>5, <1>6, <1>7, <1>8, BatchMoves

\* The run comes to own the row from a start.
LEMMA RunPhases ==
  ASSUME AutoTypeOK, AutoNext
  PROVE  /\ RunOwns' => \/ RunOwns /\ ~(FinishRow /\ UNCHANGED autoVars)
                        \/ EnterWatchScan /\ run.pc = "none"
                        \/ (\E c \in Callers : EnterScan(c)) /\ run.pc = "none"
                        \/ Restart /\ scanRow' # "none"
         /\ WatchRuns' => WatchRuns \/ EnterWatchScan
<1>1. CASE run' = run
  <2>1. ~FinishRow
    BY <1>1, FinishRowEffect
  <2> QED
    BY <1>1, <2>1 DEF RunOwns, WatchRuns
<1>2. CASE EnterWatchScan /\ run.pc = "none"
  BY <1>2
<1>3. CASE (\E c \in Callers : EnterScan(c)) /\ run.pc = "none" /\ run'.kind \in {"full", "part"}
  BY <1>3 DEF WatchRuns
<1>4. CASE WatchRuns /\ run'.pc = run.pc /\ run'.kind = run.kind
  <2>1. RunOwns' => ~(FinishRow /\ UNCHANGED autoVars)
    BY FinishRowEffect DEF RunOwns
  <2> QED
    BY <1>4, <2>1 DEF RunOwns, WatchRuns
<1>5. CASE \E d \in Dirs : ReadDirectory(d)
  BY <1>5, ReadEffect, FinishRowEffect DEF RunOwns, WatchRuns
<1>6. CASE (StopScanning \/ FinishRow) /\ UNCHANGED autoVars
  BY <1>6, StopEffect, FinishRowEffect DEF RunOwns, WatchRuns
<1>7. CASE run' = NoRun
  BY <1>7, RestRecords DEF RunOwns, WatchRuns
<1>8. CASE Restart /\ run'.kind \in {"full", "part"} /\ scanRow' = run'.kind
  BY <1>8 DEF WatchRuns
<1> QED
  BY <1>1, <1>2, <1>3, <1>4, <1>5, <1>6, <1>7, <1>8, RunChanges

LEMMA OwnerStep ==
  ASSUME AutoTypeOK, OneOwner, AutoNext
  PROVE  OneOwner'
<1>1. CASE OpenWatchScan
  <2>1. run' = run /\ caller' = caller
    BY <1>1 DEF OpenWatchScan
  <2>2. (RunOwns' <=> RunOwns) /\ \A c \in Callers : CallerOwns(c)' <=> CallerOwns(c)
    BY <2>1 DEF RunOwns, CallerOwns
  <2>3. /\ batch.pc = "opening" /\ (BatchOwns' => scanRow = "none" /\ scanRow' = "watch")
        /\ scanRow' = scanRow \/ (scanRow = "none" /\ scanRow' = "watch")
    BY <1>1, OpenWatchEffect DEF BatchOwns
  <2> QED
    BY <2>2, <2>3 DEF OneOwner
<1>2. CASE EnterWatchScan
  <2>1. scanRow' = scanRow /\ caller' = caller /\ BatchOwns
    BY <1>2 DEF EnterWatchScan, BatchOwns
  <2>2. ~BatchOwns' /\ \A c \in Callers : CallerOwns(c)' <=> CallerOwns(c)
    BY <1>2, <2>1, EnterWatchEffect DEF BatchOwns, CallerOwns
  <2> QED
    BY <2>1, <2>2 DEF OneOwner
<1>3. CASE \E c \in Callers : OpenScan(c) /\ UNCHANGED autoVars
  <2>1. PICK c \in Callers : OpenScan(c) /\ UNCHANGED autoVars
    BY <1>3
  <2>2. run' = run /\ batch' = batch
    BY <2>1 DEF OpenScan, autoVars, dirVars
  <2>3. (RunOwns' <=> RunOwns) /\ (BatchOwns' <=> BatchOwns)
    BY <2>2 DEF RunOwns, BatchOwns
  <2>4. /\ \A b \in Callers \ {c} : CallerOwns(b)' <=> CallerOwns(b)
        /\ CallerOwns(c)' => scanRow = "none" /\ scanRow' # "none"
        /\ scanRow # "none" => scanRow' # "none"
    BY <2>1, OpenScanEffect DEF CallerOwns
  <2>5. CASE CallerOwns(c)'
    BY <2>3, <2>4, <2>5 DEF OneOwner
  <2>6. CASE ~CallerOwns(c)'
    <3>1. \A b \in Callers : CallerOwns(b)' => CallerOwns(b)
      BY <2>4, <2>6
    <3> QED
      BY <2>3, <2>4, <3>1 DEF OneOwner
  <2> QED
    BY <2>5, <2>6
<1>4. CASE \E c \in Callers : EnterScan(c)
  <2>1. PICK c \in Callers : EnterScan(c)
    BY <1>4
  <2>2. scanRow' = scanRow /\ batch' = batch /\ CallerOwns(c) /\ Leave(c)
    BY <2>1 DEF EnterScan, Enter, CallerOwns, dirVars
  <2>3. (BatchOwns' <=> BatchOwns) /\ ~CallerOwns(c)'
        /\ \A b \in Callers \ {c} : CallerOwns(b)' <=> CallerOwns(b)
    BY <2>2, LeaveEffect DEF BatchOwns, CallerOwns
  <2> QED
    BY <2>2, <2>3 DEF OneOwner
<1>5. CASE FinishRow /\ UNCHANGED autoVars
  <2>1. caller' = caller /\ batch' = batch /\ RunOwns /\ ~RunOwns'
    BY <1>5, FinishRowEffect DEF FinishRow, autoVars, dirVars, RunOwns
  <2>2. (BatchOwns' <=> BatchOwns) /\ \A b \in Callers : CallerOwns(b)' <=> CallerOwns(b)
    BY <2>1 DEF BatchOwns, CallerOwns
  <2> QED
    BY <2>1, <2>2 DEF OneOwner
<1>6. CASE Restart
  <2>1. ~BatchOwns' /\ \A b \in Callers : ~CallerOwns(b)'
    BY <1>6, RestRecords DEF Restart, Recover, BatchOwns, CallerOwns
  <2>2. RunOwns' => scanRow' # "none"
    BY <1>6, RestRecords DEF Restart, Recover, RunOwns
  <2> QED
    BY <2>1, <2>2 DEF OneOwner
<1>7. CASE /\ ~OpenWatchScan /\ ~EnterWatchScan /\ ~Restart /\ ~(FinishRow /\ UNCHANGED autoVars)
           /\ ~\E c \in Callers : OpenScan(c) /\ UNCHANGED autoVars
           /\ ~\E c \in Callers : EnterScan(c)
  <2>1. scanRow' = scanRow
    BY <1>7, RowMoves
  <2>2. (RunOwns' => RunOwns) /\ (BatchOwns' => BatchOwns)
    BY <1>7, RunPhases, BatchPhases
  <2>3. \A b \in Callers : CallerOwns(b)' => CallerOwns(b)
    BY <1>7, CallersEffect
  <2> QED
    BY <2>1, <2>2, <2>3 DEF OneOwner
<1> QED
  BY <1>1, <1>2, <1>3, <1>4, <1>5, <1>6, <1>7

-----------------------------------------------------------------------------
(* Holds.                                                                  *)

\* What can happen to one request that holds the starts.
LEMMA HolderSelf ==
  ASSUME AutoTypeOK, AutoNext, NEW h \in Holders
  PROVE  \/ holder'[h] = holder[h]
         \/ holder'[h] = NoHold /\
              (Restart \/ FoldersChanged(h) \/ DisableFails(h) \/ DisarmAfter(h))
         \/ \E op \in {"disable", "folders"} : Hold(h, op)
         \/ Quiesce(h) \/ HoldSupersedes(h) \/ HoldWaited(h) \/ FoldersChanging(h) \/ Disable(h)
<1>1. CASE Restart
  BY <1>1 DEF Restart
<1>2. CASE \E g \in Holders, op \in {"disable", "folders"} : Hold(g, op)
  BY <1>2, HoldEffect
<1>3. CASE \E g \in Holders : Quiesce(g) \/ HoldSupersedes(g) \/ HoldWaited(g) \/
             FoldersChanging(g) \/ FoldersChanged(g) \/ DisableFails(g) \/ Disable(g) \/
             DisarmAfter(g)
  BY <1>3, QuiesceEffect, SupersedesEffect, WaitedEffect, ChangingEffect, DisableEffect, LetGoEffect
<1> QED
  BY <1>1, <1>2, <1>3, HolderMoves

LEMMA HolderPhases ==
  ASSUME AutoTypeOK, AutoNext, NEW h \in Holders
  PROVE  /\ holder'[h].pc \in {"supersede", "wait", "held", "changing"} =>
              holder[h].pc \in {"supersede", "wait", "held", "changing"} \/ Quiesce(h)
         /\ holder'[h].pc \in {"held", "changing"} /\ ~holder'[h].gaveUp =>
              \/ holder[h].pc \in {"held", "changing"} /\ ~holder[h].gaveUp
              \/ ~WatchRuns /\ (HoldSupersedes(h) \/ HoldWaited(h))
<1>1. CASE holder'[h] = holder[h]
  BY <1>1
<1>2. CASE holder'[h] = NoHold
  BY <1>2, RestRecords
<1>3. CASE \E op \in {"disable", "folders"} : Hold(h, op)
  BY <1>3, HoldEffect
<1>4. CASE Quiesce(h)
  BY <1>4, QuiesceEffect
<1>5. CASE HoldSupersedes(h)
  BY <1>5, SupersedesEffect
<1>6. CASE HoldWaited(h)
  BY <1>6, WaitedEffect
<1>7. CASE FoldersChanging(h) \/ Disable(h)
  BY <1>7, ChangingEffect, DisableEffect
<1> QED
  BY <1>1, <1>2, <1>3, <1>4, <1>5, <1>6, <1>7, HolderSelf

LEMMA HoldStep ==
  ASSUME AutoTypeOK, HoldHolds, AutoNext
  PROVE  HoldHolds'
<1>1. CASE Start
  <2>1. holder' = holder /\ enabled' = enabled /\ run' = run
    BY <1>1 DEF Start, scansVars
  <2>2. StartHeld' => StartHeld \/ (enabled /\ ~Holding)
    BY <1>1, BatchPhases
  <2>3. (WatchRuns' <=> WatchRuns)
    BY <2>1 DEF WatchRuns
  <2> QED
    BY <2>1, <2>2, <2>3 DEF HoldHolds, Holding
<1>2. CASE EnterWatchScan
  <2>1. holder' = holder /\ enabled' = enabled /\ StartHeld
    BY <1>2 DEF EnterWatchScan, StartHeld
  <2> QED
    BY <2>1 DEF HoldHolds
<1>3. CASE ~Start /\ ~EnterWatchScan
  <2>1. (StartHeld' => StartHeld) /\ (WatchRuns' => WatchRuns)
    BY <1>3, BatchPhases, RunPhases
  <2>2. ASSUME NEW h \in Holders
        PROVE  /\ holder'[h].pc \in {"supersede", "wait", "held", "changing"} => ~StartHeld'
               /\ holder'[h].pc \in {"held", "changing"} /\ ~holder'[h].gaveUp => ~WatchRuns'
    <3>1. Quiesce(h) => ~StartHeld
      BY DEF Quiesce
    <3> QED
      BY <2>1, <3>1, HolderPhases DEF HoldHolds
  <2>3. ASSUME ~enabled'
        PROVE  ~WatchRuns' /\ ~StartHeld'
    <3>1. CASE ~enabled
      BY <2>1, <3>1 DEF HoldHolds
    <3>2. CASE \E h \in Holders : Disable(h)
      BY <2>1, <3>2 DEF HoldHolds, Disable
    <3> QED
      BY <2>3, <3>1, <3>2, EnabledMoves DEF Enable
  <2> QED
    BY <2>2, <2>3 DEF HoldHolds
<1> QED
  BY <1>1, <1>2, <1>3

-----------------------------------------------------------------------------
(* Arming.                                                                 *)

\* Who is about to disarm.
LEMMA DisarmPhases ==
  ASSUME AutoTypeOK, AutoNext, NEW h \in Holders
  PROVE  /\ holder'[h].pc = "disarm" => holder'[h] = holder[h] \/ Disable(h)
         /\ holder[h].pc = "disarm" => holder'[h] = holder[h] \/ DisarmAfter(h) \/ Restart
<1>1. CASE holder'[h] = NoHold
  BY <1>1, HolderSelf, RestRecords DEF FoldersChanged, DisableFails, Hold, Quiesce,
    HoldSupersedes, HoldWaited, FoldersChanging, Disable
<1>2. CASE \E op \in {"disable", "folders"} : Hold(h, op)
  BY <1>2, HoldEffect DEF Hold
<1>3. CASE Quiesce(h) \/ HoldSupersedes(h) \/ HoldWaited(h)
  BY <1>3, QuiesceEffect, SupersedesEffect, WaitedEffect
<1>4. CASE FoldersChanging(h) \/ Disable(h)
  BY <1>4, ChangingEffect, DisableEffect
<1> QED
  BY <1>1, <1>2, <1>3, <1>4, HolderSelf

\* Only a session reports.
LEMMA NoticeWatched ==
  ASSUME AutoTypeOK, WatchOwed, AutoNext
  PROVE  ~watching' => notice' = {}
<1>1. ~watching => notice = {}
  BY DEF WatchOwed
<1>2. CASE Restart \/ \E h \in Holders : DisarmAfter(h)
  BY <1>2 DEF Restart, DisarmAfter, Disarm
<1>3. CASE \E a \in Arms : CheckGeneration(a) \/ NoFolders(a) \/ ArmWatcher(a) \/ FinishArming(a)
  <2>1. CASE \E a \in Arms : NoFolders(a) \/ ArmWatcher(a)
    BY <2>1 DEF NoFolders, ArmWatcher, DropSession
  <2>2. CASE \E a \in Arms : OutOfDate(a)
    BY <1>1, <2>2 DEF OutOfDate, OutOfDateWith, Disarm
  <2>3. CASE UNCHANGED <<watching, notice>>
    BY <1>1, <2>3
  <2> QED
    BY <1>3, <2>1, <2>2, <2>3 DEF CheckGeneration, FinishArming
<1>4. CASE \E d \in Dirs : Change(d) \/ Changed(d) \/ EventsLost(d)
  BY <1>1, <1>4 DEF Change, Changed, EventsLost, watchVars
<1>5. CASE notice' = notice /\ \E a \in Arms : CannotList(a)
  BY <1>1, <1>5 DEF CannotList
<1>6. CASE notice' = notice /\ \E h \in Holders : FoldersChanged(h) \/ Disable(h)
  BY <1>1, <1>6 DEF FoldersChanged, Disable
<1>7. CASE Enable
  BY <1>1, <1>7 DEF Enable, dirVars
<1>8. CASE notice' = notice /\ watching' = watching
  BY <1>1, <1>8
<1> QED
  BY <1>2, <1>3, <1>4, <1>5, <1>6, <1>7, <1>8, NoticeMoves, ArmMoves DEF ArmStep

\* A new arming is the only one up to date, and the last one is awaited.
LEMMA NewArming ==
  ASSUME AutoTypeOK, WatchOwed, Arm, enabled',
         \A h \in Holders : holder'[h].pc # "disarm", ~watching' => notice' = {}
  PROVE  WatchOwed'
<1>1. PICK a \in Arms :
        /\ arm[a].pc = "none" /\ arm'[a].pc = "waiting" /\ ~arm'[a].stale
        /\ \A b \in Arms \ {a} :
             arm'[b].pc = arm[b].pc /\ (arm'[b].stale <=> arm[b].pc # "none")
  BY ArmEffect
<1>2. Awaited'
  BY <1>1 DEF Awaited
<1>3. \A b \in Arms : Current(b)' => b = a
  BY <1>1 DEF Current
<1>4. \A b, c \in Arms : HasArmMu(b)' /\ HasArmMu(c)' => b = c
  <2>1. \A b \in Arms : HasArmMu(b)' => HasArmMu(b)
    BY <1>1 DEF HasArmMu
  <2> QED
    BY <2>1 DEF WatchOwed
<1> QED
  BY <1>2, <1>3, <1>4 DEF WatchOwed

LEMMA RestartedWatch ==
  ASSUME AutoTypeOK, Restart
  PROVE  WatchOwed'
<1>1. \A h \in Holders : holder'[h].pc = "idle"
  BY RestRecords DEF Restart
<1>2. /\ arm' \in FirstArms(enabled) /\ enabled' = enabled /\ enabled \in BOOLEAN /\ ~watching'
      /\ notice' = {}
  BY AutoNow DEF Restart
<1>3. /\ \A b \in Arms : arm'[b].pc \in {"none", "waiting"} /\ ~arm'[b].stale
      /\ enabled => \E b \in Arms : arm'[b].pc = "waiting"
      /\ ~enabled => \A b \in Arms : arm'[b].pc = "none"
      /\ \A b, c \in Arms : arm'[b].pc = "waiting" /\ arm'[c].pc = "waiting" => b = c
  BY <1>2, FirstArmsEffect
<1> QED
  BY <1>1, <1>2, <1>3 DEF WatchOwed, Current, HasArmMu, Awaited

LEMMA DisabledWatch ==
  ASSUME AutoTypeOK, WatchOwed, NEW h \in Holders, Disable(h), ~watching' => notice' = {}
  PROVE  WatchOwed'
<1>1. ~enabled' /\ arm' = AllStale
  BY DEF Disable
<1>2. \A a \in Arms : arm'[a].pc = arm[a].pc /\ (arm'[a].stale <=> arm[a].pc # "none")
  BY <1>1, AllStaleEffect
<1>3. /\ holder'[h].pc = "disarm"
      /\ \A g \in Holders : holder'[g].pc = "disarm" => holder'[g].op = "disable"
  BY DisableEffect DEF WatchOwed
<1> QED
  BY <1>1, <1>2, <1>3 DEF WatchOwed, Current, HasArmMu

LEMMA DisarmedWatch ==
  ASSUME AutoTypeOK, WatchOwed, NEW h \in Holders, DisarmAfter(h)
  PROVE  WatchOwed'
<1>1. ~watching' /\ notice' = {} /\ arm' = arm /\ enabled' = enabled /\ ~enabled
  BY DEF DisarmAfter, Disarm, WatchOwed
<1>2. \A g \in Holders : holder'[g].pc = "disarm" => holder'[g] = holder[g]
  BY LetGoEffect, RestRecords
<1> QED
  BY <1>1, <1>2 DEF WatchOwed, Current, HasArmMu

\* An arming that ends leaves the others as they were.
LEMMA ArmingEnds ==
  ASSUME AutoTypeOK, WatchOwed, NEW a \in Arms, Leaves(a), arm[a].pc # "none", enabled' = enabled,
         holder' = holder, ~watching' => notice' = {},
         arm[a].stale => uncovered' = uncovered,
         enabled /\ ~watching' =>
           \/ uncovered' \/ Awaited'
           \/ \E b \in Arms : arm'[b].pc = "checked" /\ ~arm'[b].stale
           \/ watchState' = "off" /\ \A b \in Arms : ~Current(b)',
         ~arm[a].stale => uncovered' \/ ~\E b \in Arms : arm'[b].pc = "checked",
         ~enabled /\ watching' => watching /\ arm[a].pc # "armed"
  PROVE  WatchOwed'
<1>1. arm'[a].pc = "none" /\ \A b \in Arms \ {a} : arm'[b] = arm[b]
  BY ArmGone DEF Leaves
<1>2. \A b \in Arms : /\ Current(b)' => Current(b)
                      /\ HasArmMu(b)' => HasArmMu(b)
                      /\ arm'[b].pc # "none" => arm'[b] = arm[b]
  BY <1>1 DEF Current, HasArmMu
<1>3. enabled' => \A b \in Arms : arm'[b].pc = "checked" /\ arm'[b].stale => uncovered' \/ Awaited'
  <2>1. CASE arm[a].stale
    <3>1. Awaited => Awaited'
      BY <1>1, <2>1 DEF Awaited
    <3> QED
      BY <1>2, <2>1, <3>1 DEF WatchOwed
  <2> QED
    BY <2>1
<1>4. ~enabled' /\ watching' =>
        (\E b \in Arms : arm'[b].pc = "armed") \/ (\E h \in Holders : holder'[h].pc = "disarm")
  BY <1>1 DEF WatchOwed
<1> QED
  BY <1>2, <1>3, <1>4 DEF WatchOwed

\* An arming that goes on keeps its place among the others.
LEMMA ArmingGoesOn ==
  ASSUME AutoTypeOK, WatchOwed, NEW a \in Arms, NEW pc \in {"checked", "armed"},
         arm' = [arm EXCEPT ![a].pc = pc], arm[a].pc # "none"
  PROVE  /\ arm'[a].pc = pc /\ arm'[a].stale = arm[a].stale
         /\ \A b \in Arms \ {a} : arm'[b] = arm[b]
         /\ \A b, c \in Arms : Current(b)' /\ Current(c)' => b = c
         /\ ~enabled => \A b \in Arms : arm'[b].pc # "none" => arm'[b].stale
<1>1. /\ arm'[a].pc = pc /\ arm'[a].stale = arm[a].stale
      /\ \A b \in Arms \ {a} : arm'[b] = arm[b]
  BY ArmTo
<1>2. \A b \in Arms : Current(b)' => Current(b)
  BY <1>1 DEF Current
<1> QED
  BY <1>1, <1>2 DEF WatchOwed

LEMMA CannotListWatch ==
  ASSUME AutoTypeOK, WatchOwed, NEW a \in Arms, CannotList(a), ~watching' => notice' = {}
  PROVE  WatchOwed'
<1>1. /\ arm[a].pc = "waiting" /\ Leaves(a) /\ enabled' = enabled /\ holder' = holder
      /\ watching' = watching /\ (arm[a].stale => uncovered' = uncovered /\ watchState' = watchState)
      /\ (~arm[a].stale => uncovered')
  BY DEF CannotList, Covers
<1>2. arm'[a].pc = "none" /\ \A b \in Arms \ {a} : arm'[b] = arm[b]
  BY <1>1, ArmGone DEF Leaves
<1>3. ASSUME arm[a].stale, enabled, ~watching
      PROVE  \/ uncovered' \/ Awaited'
             \/ \E b \in Arms : arm'[b].pc = "checked" /\ ~arm'[b].stale
             \/ watchState' = "off" /\ \A b \in Arms : ~Current(b)'
  BY <1>1, <1>2, <1>3 DEF WatchOwed, Awaited, Current
<1> QED
  BY <1>1, <1>3, ArmingEnds

LEMMA NoFoldersWatch ==
  ASSUME AutoTypeOK, WatchOwed, NEW a \in Arms, NoFolders(a)
  PROVE  WatchOwed'
<1>1. /\ arm[a].pc = "checked" /\ Leaves(a) /\ enabled' = enabled /\ holder' = holder
      /\ ~watching' /\ notice' = {}
      /\ (arm[a].stale => uncovered' = uncovered) /\ (~arm[a].stale => watchState' = "off")
  BY DEF NoFolders, Covers, DropSession
<1>2. arm'[a].pc = "none" /\ \A b \in Arms \ {a} : arm'[b] = arm[b]
  BY <1>1, ArmGone DEF Leaves
<1>3. ~\E b \in Arms : arm'[b].pc = "checked"
  BY <1>1, <1>2 DEF WatchOwed, HasArmMu
<1>4. arm[a].stale /\ enabled => uncovered' \/ Awaited'
  BY <1>1, <1>2 DEF WatchOwed, Awaited
<1>5. ~arm[a].stale => \A b \in Arms : ~Current(b)'
  BY <1>1, <1>2 DEF WatchOwed, Current
<1> QED
  BY <1>1, <1>3, <1>4, <1>5, ArmingEnds

\* OutOfDate and the last part of an arming.
LEMMA OutOfDateWatch ==
  ASSUME AutoTypeOK, WatchOwed, NEW a \in Arms, CheckGeneration(a) \/ FinishArming(a), arm[a].stale,
         ~watching' => notice' = {}
  PROVE  WatchOwed'
<1>1. /\ arm[a].pc # "none" /\ OutOfDate(a) /\ holder' = holder /\ enabled' = enabled
      /\ uncovered' = uncovered
  BY DEF CheckGeneration, FinishArming
<1>2. /\ Leaves(a) /\ watchState' = watchState /\ (enabled => watching' = watching)
      /\ (~enabled => ~watching')
  BY <1>1 DEF OutOfDate, OutOfDateWith, Disarm
<1>3. arm'[a].pc = "none" /\ \A b \in Arms \ {a} : arm'[b] = arm[b]
  BY <1>2, ArmGone DEF Leaves
<1>4. ASSUME enabled, ~watching
      PROVE  \/ uncovered' \/ Awaited'
             \/ \E b \in Arms : arm'[b].pc = "checked" /\ ~arm'[b].stale
             \/ watchState' = "off" /\ \A b \in Arms : ~Current(b)'
  BY <1>1, <1>2, <1>3, <1>4 DEF WatchOwed, Awaited, Current
<1> QED
  BY <1>1, <1>2, <1>4, ArmingEnds

LEMMA CheckedWatch ==
  ASSUME AutoTypeOK, WatchOwed, NEW a \in Arms, CheckGeneration(a), ~arm[a].stale,
         ~watching' => notice' = {}
  PROVE  WatchOwed'
<1>1. /\ arm[a].pc = "waiting" /\ \A b \in Arms : ~HasArmMu(b)
      /\ arm' = [arm EXCEPT ![a].pc = "checked"] /\ enabled' = enabled /\ holder' = holder
      /\ watching' = watching /\ uncovered' = uncovered /\ watchState' = watchState
  BY DEF CheckGeneration, HasArmMu
<1>2. /\ arm'[a].pc = "checked" /\ arm'[a].stale = arm[a].stale
      /\ \A b \in Arms \ {a} : arm'[b] = arm[b]
      /\ \A b, c \in Arms : Current(b)' /\ Current(c)' => b = c
      /\ ~enabled => \A b \in Arms : arm'[b].pc # "none" => arm'[b].stale
  BY <1>1, ArmingGoesOn
<1>3. \A b \in Arms : HasArmMu(b)' => b = a
  BY <1>1, <1>2 DEF HasArmMu
<1>4. \A b \in Arms : ~(arm'[b].pc = "checked" /\ arm'[b].stale)
  BY <1>2, <1>3 DEF HasArmMu
<1>5. enabled
  BY <1>1 DEF WatchOwed
<1> QED
  BY <1>1, <1>2, <1>3, <1>4, <1>5 DEF WatchOwed

LEMMA ArmedWatch ==
  ASSUME AutoTypeOK, WatchOwed, NEW a \in Arms, ArmWatcher(a)
  PROVE  WatchOwed'
<1>1. /\ arm[a].pc = "checked" /\ arm' = [arm EXCEPT ![a].pc = "armed"] /\ enabled' = enabled
      /\ holder' = holder /\ notice' = {} /\ (arm[a].stale => uncovered' = uncovered)
      /\ (watching' \/ arm[a].stale \/ uncovered')
  BY DEF ArmWatcher, DropSession, Covers
<1>2. /\ arm'[a].pc = "armed" /\ arm'[a].stale = arm[a].stale
      /\ \A b \in Arms \ {a} : arm'[b] = arm[b]
      /\ \A b, c \in Arms : Current(b)' /\ Current(c)' => b = c
      /\ ~enabled => \A b \in Arms : arm'[b].pc # "none" => arm'[b].stale
  BY <1>1, ArmingGoesOn
<1>3. \A b \in Arms : HasArmMu(b)' => b = a
  BY <1>1, <1>2 DEF HasArmMu, WatchOwed
<1>4. \A b \in Arms : arm'[b].pc # "checked"
  BY <1>2, <1>3 DEF HasArmMu
<1>5. enabled /\ arm[a].stale => uncovered' \/ Awaited'
  BY <1>1, <1>2 DEF WatchOwed, Awaited
<1> QED
  BY <1>1, <1>2, <1>3, <1>4, <1>5 DEF WatchOwed

LEMMA FinishedWatch ==
  ASSUME AutoTypeOK, WatchOwed, NEW a \in Arms, FinishArming(a), ~arm[a].stale,
         ~watching' => notice' = {}
  PROVE  WatchOwed'
<1>1. /\ arm[a].pc = "armed" /\ Leaves(a) /\ enabled' = enabled /\ holder' = holder
      /\ watching' = watching /\ uncovered' = uncovered
  BY DEF FinishArming
<1>2. arm'[a].pc = "none" /\ \A b \in Arms \ {a} : arm'[b] = arm[b]
  BY <1>1, ArmGone DEF Leaves
<1>3. enabled /\ Current(a) /\ \A b \in Arms : Current(b) => b = a
  BY <1>1 DEF WatchOwed, Current
<1>4. ~\E b \in Arms : arm'[b].pc = "checked"
  BY <1>1, <1>2 DEF WatchOwed, HasArmMu
<1>5. ~watching => uncovered
  BY <1>1, <1>3 DEF WatchOwed, Current, Awaited
<1> QED
  BY <1>1, <1>3, <1>4, <1>5, ArmingEnds

\* The other steps only read what the watching is owed.
LEMMA WatchLeftAlone ==
  ASSUME AutoTypeOK, WatchOwed, AutoNext, UNCHANGED <<arm, watching, enabled>>,
         ~Restart, ~Enable, ~\E h \in Holders : FoldersChanged(h) \/ Disable(h) \/ DisarmAfter(h),
         ~\E a \in Arms : ArmStep(a)
  PROVE  WatchOwed'
<1>1. \A h \in Holders : /\ holder'[h].pc = "disarm" => holder'[h] = holder[h]
                         /\ holder[h].pc = "disarm" => holder'[h] = holder[h]
  BY DisarmPhases
<1>2. uncovered' = uncovered
  BY StateMoves DEF EventsLost, EnterScan, FinishScan, ArmStep
<1>3. ~watching /\ watchState = "off" => watchState' = "off"
  BY StateMoves DEF EventsLost, EnterScan, FinishScan, ArmStep, WatchOwed
<1>4. ~watching' => notice' = {}
  BY NoticeWatched
<1> QED
  BY <1>1, <1>2, <1>3, <1>4 DEF WatchOwed, Current, HasArmMu, Awaited

LEMMA WatchStep ==
  ASSUME AutoTypeOK, WatchOwed, AutoNext
  PROVE  WatchOwed'
<1>0. ~watching' => notice' = {}
  BY NoticeWatched
<1>1. CASE Enable
  <2>1. holder' = holder /\ enabled' /\ Arm /\ ~SettingBusy
    BY <1>1 DEF Enable, Rearm
  <2>2. \A h \in Holders : holder'[h].pc # "disarm"
    BY <2>1 DEF SettingBusy, WatchOwed
  <2> QED
    BY <1>0, <2>1, <2>2, NewArming
<1>2. CASE Restart
  BY <1>2, RestartedWatch
<1>3. CASE \E h \in Holders : FoldersChanged(h)
  <2>1. PICK h \in Holders : FoldersChanged(h)
    BY <1>3
  <2>2. watching' = watching /\ enabled' = enabled /\ ~SettingBusy
    BY <2>1 DEF FoldersChanged
  <2>3. \A g \in Holders : holder[g].pc # "disarm"
    BY <2>2 DEF SettingBusy, WatchOwed
  <2>4. \A g \in Holders : holder'[g].pc # "disarm"
    BY <2>1, <2>3, LetGoEffect, RestRecords
  <2>5. CASE enabled
    <3>1. Arm
      BY <2>1, <2>5 DEF FoldersChanged, Rearm
    <3> QED
      BY <1>0, <2>2, <2>4, <2>5, <3>1, NewArming
  <2>6. CASE ~enabled
    <3>1. arm' = arm
      BY <2>1, <2>6 DEF FoldersChanged
    <3> QED
      BY <1>0, <2>2, <2>3, <2>4, <2>6, <3>1 DEF WatchOwed, Current, HasArmMu
  <2> QED
    BY <2>5, <2>6
<1>4. CASE \E h \in Holders : Disable(h)
  BY <1>0, <1>4, DisabledWatch
<1>5. CASE \E h \in Holders : DisarmAfter(h)
  BY <1>5, DisarmedWatch
<1>6. CASE \E a \in Arms : ArmStep(a)
  BY <1>0, <1>6, CannotListWatch, NoFoldersWatch, OutOfDateWatch, CheckedWatch, ArmedWatch,
     FinishedWatch DEF ArmStep
<1>7. CASE /\ ~Enable /\ ~Restart /\ ~\E a \in Arms : ArmStep(a)
           /\ ~\E h \in Holders : FoldersChanged(h) \/ Disable(h) \/ DisarmAfter(h)
  <2>1. UNCHANGED <<arm, watching, enabled>>
    BY <1>7, ArmMoves, EnabledMoves
  <2> QED
    BY <1>7, <2>1, WatchLeftAlone
<1> QED
  BY <1>1, <1>2, <1>3, <1>4, <1>5, <1>6, <1>7

-----------------------------------------------------------------------------
(* Losses.                                                                 *)

LEMMA LostMoves ==
  ASSUME AutoTypeOK, AutoNext
  PROVE  /\ Lost' \subseteq Lost \/ \E d \in Dirs : EventsLost(d)
         /\ \A d \in Dirs : ReadDirectory(d) => Lost' \subseteq Lost \ {d}
<1>1. ASSUME NEW d \in Dirs, ReadDirectory(d)
      PROVE  Lost' \subseteq Lost \ {d}
  BY <1>1, AutoNow DEF ReadDirectory, Lost
<1>2. ASSUME NEW dirs, NEW since \in {"read", "changed", "left"}, Becomes(dirs, since)
      PROVE  Lost' \subseteq Lost
  BY <1>2 DEF Becomes, Lost
<1>3. Lost' \subseteq Lost \/ \E d \in Dirs : EventsLost(d)
  <2>1. CASE disk' = disk
    BY <2>1 DEF Lost
  <2>2. CASE \E d \in Dirs : Change(d)
    BY <1>2, <2>2 DEF Change
  <2>3. CASE \/ FinishScan \/ (\E h \in Holders : Disable(h))
             \/ \E a \in Arms : NoFolders(a) \/ ArmWatcher(a)
    BY <1>2, <2>3 DEF FinishScan, Disable, NoFolders, ArmWatcher, DropSession
  <2>4. CASE Restart
    BY <2>4 DEF Restart, Recover, Lost
  <2> QED
    BY <1>1, <2>1, <2>2, <2>3, <2>4, DiskMoves
<1> QED
  BY <1>1, <1>3

\* A loss is announced until it is read: what is lost stays in front of the
\* full scan that will clear the announcement.
LEMMA LossAnnounced ==
  ASSUME AutoTypeOK, LossCovered, AutoNext
  PROVE  problem' # "none" => watchState' \in {"limited", "off"}
<1>1. problem # "none" => watchState \in {"limited", "off"}
  BY DEF LossCovered
<1>2. CASE UNCHANGED <<watchState, problem, lostNew, uncovered>>
  BY <1>1, <1>2
<1>3. CASE (\E d \in Dirs : EventsLost(d)) \/ (\E c \in Callers : EnterScan(c))
  BY <1>1, <1>3 DEF EventsLost, EnterScan
<1>4. CASE FinishScan
  BY <1>1, <1>4 DEF FinishScan
<1>5. CASE Enable \/ Restart
  BY <1>5 DEF Enable, Rearm, Restart
<1>6. CASE \E h \in Holders : FoldersChanged(h) \/ Disable(h)
  BY <1>1, <1>6 DEF FoldersChanged, Rearm, Disable
<1>7. CASE \E a \in Arms : CannotList(a) \/ NoFolders(a) \/ ArmWatcher(a) \/ FinishArming(a)
  BY <1>1, <1>7
     DEF CannotList, NoFolders, ArmWatcher, FinishArming, OutOfDate, OutOfDateWith, Unwatched
<1> QED
  BY <1>2, <1>3, <1>4, <1>5, <1>6, <1>7, StateMoves

LEMMA DoneMeansRead ==
  ASSUME AutoTypeOK, LossCovered, AutoNext
  PROVE  /\ run'.kind # "watch" => ~run'.cancelled
         /\ run'.done => /\ run'.pc \in {"finishing", "closing"}
                         /\ run'.left = {} \/ run'.cancelled
<1> USE DEF LossCovered
<1>1. CASE run' = run
  BY <1>1
<1>2. CASE ~run'.cancelled /\ ~run'.done
  BY <1>2
<1>3. CASE WatchRuns /\ run'.pc = run.pc /\ run'.kind = run.kind /\ run'.left = run.left
           /\ run'.done = run.done /\ run'.cancelled
  BY <1>3 DEF WatchRuns
<1>4. CASE \E d \in Dirs : ReadDirectory(d)
  BY <1>4, ReadEffect
<1>5. CASE StopScanning
  BY <1>5, StopEffect
<1>6. CASE FinishRow
  BY <1>6, FinishRowEffect
<1>7. CASE run' = NoRun
  BY <1>7, RestRecords
<1> QED
  BY <1>1, <1>2, <1>3, <1>4, <1>5, <1>6, <1>7, RunChanges

LEMMA LossStep ==
  ASSUME AutoTypeOK, LossCovered, AutoNext
  PROVE  LossCovered'
<1>1. ASSUME run'.kind = "full", run'.pc # "none", ~lostNew', problem' = "events_lost"
      PROVE  Lost' \subseteq run'.left
  <2>1. ~\E d \in Dirs : EventsLost(d)
    BY <1>1 DEF EventsLost
  <2>2. Lost' \subseteq Lost
    BY <2>1, LostMoves
  <2>3. CASE \E c \in Callers : EnterScan(c)
    <3>1. CASE run.pc # "none"
      <4>1. run' = run /\ problem' = problem /\ (lostNew' <=> lostNew)
        BY <2>3, <3>1 DEF EnterScan, Enter
      <4> QED
        BY <1>1, <2>2, <4>1 DEF LossCovered
    <3>2. CASE run.pc = "none"
      <4>1. run'.left = Dirs
        <5>1. PICK kind \in {"full", "part"} : run' = Begun(kind, ToRead(kind))
          BY <2>3, <3>2 DEF EnterScan, Enter, KindOf
        <5>2. kind \in Kinds /\ ToRead(kind) \in SUBSET Dirs
          BY DEF Kinds, ToRead
        <5>3. kind = "full"
          BY <1>1, <5>1, <5>2, BegunEffect
        <5> QED
          BY <5>1, <5>2, <5>3, BegunEffect DEF ToRead
      <4> QED
        BY <4>1 DEF Lost
    <3> QED
      BY <3>1, <3>2
  <2>4. CASE ~\E c \in Callers : EnterScan(c)
    <3>1. ~Restart /\ ~Enable /\ ~\E h \in Holders : Disable(h)
      BY <1>1 DEF Restart, Enable, Rearm, Disable
    <3>2. problem = "events_lost" /\ ~lostNew
      <4>1. CASE UNCHANGED <<watchState, problem, lostNew, uncovered>>
        BY <1>1, <4>1
      <4>2. CASE FinishScan
        BY <1>1, <4>2 DEF FinishScan
      <4>3. CASE \E h \in Holders : FoldersChanged(h)
        BY <1>1, <4>3 DEF FoldersChanged, Rearm
      <4>4. CASE \E a \in Arms : \/ CannotList(a) \/ NoFolders(a) \/ ArmWatcher(a)
                                 \/ FinishArming(a)
        <5>1. CASE \E a \in Arms : CannotList(a)
          BY <1>1, <5>1 DEF CannotList, Unwatched
        <5>2. CASE \E a \in Arms : NoFolders(a)
          BY <1>1, <5>2 DEF NoFolders
        <5>3. CASE \E a \in Arms : ArmWatcher(a)
          BY <1>1, <5>3 DEF ArmWatcher, Unwatched
        <5>4. CASE \E a \in Arms : FinishArming(a)
          BY <1>1, <5>4 DEF FinishArming, OutOfDate, OutOfDateWith
        <5> QED
          BY <4>4, <5>1, <5>2, <5>3, <5>4
      <4> QED
        BY <2>1, <2>4, <3>1, <4>1, <4>2, <4>3, <4>4, StateMoves
    <3>3. CASE \E d \in Dirs : ReadDirectory(d)
      <4>1. PICK d \in Dirs : ReadDirectory(d)
        BY <3>3
      <4>2. Lost' \subseteq Lost \ {d}
        BY <4>1, LostMoves
      <4> QED
        BY <1>1, <3>2, <4>1, <4>2, ReadEffect DEF LossCovered
    <3>4. CASE run'.kind = run.kind /\ run'.left = run.left /\ run.pc # "none"
      BY <1>1, <2>2, <3>2, <3>4 DEF LossCovered
    <3>5. CASE StopScanning \/ FinishRow
      BY <3>4, <3>5, StopEffect, FinishRowEffect
    <3> QED
      BY <1>1, <2>4, <3>1, <3>3, <3>4, <3>5, RunChanges, RestRecords DEF WatchRuns
  <2> QED
    BY <2>3, <2>4
<1> QED
  BY <1>1, LossAnnounced, DoneMeansRead DEF LossCovered

-----------------------------------------------------------------------------
(* The batch and inflight.                                                 *)

\* A row that no scan will close stays so.
LEMMA StuckStays ==
  ASSUME AutoTypeOK, OneOwner, AutoNext, ~RunningRowHasRun, ~Restart
  PROVE  ~RunningRowHasRun'
<1>1. /\ scanRow # "none" /\ ~RunOwns /\ ~BatchOwns /\ \A c \in Callers : ~CallerOwns(c)
  BY DEF RunningRowHasRun, RunOwns, BatchOwns, CallerOwns
<1>2. ~EnterWatchScan /\ ~\E c \in Callers : EnterScan(c)
  BY <1>1 DEF EnterWatchScan, BatchOwns, EnterScan, Enter, CallerOwns
<1>3. ~RunOwns' /\ ~BatchOwns'
  BY <1>1, <1>2, RunPhases, BatchPhases
<1>4. \A c \in Callers : ~CallerOwns(c)'
  BY <1>1, CallersEffect, OpenScanEffect DEF CallerOwns
<1>5. scanRow' # "none"
  <2>1. CASE OpenWatchScan
    BY <1>1, <2>1, OpenWatchEffect
  <2>2. CASE FinishRow
    BY <1>1, <2>2, FinishRowEffect DEF RunOwns
  <2>3. CASE \E c \in Callers : OpenScan(c)
    BY <1>1, <2>3, OpenScanEffect
  <2> QED
    BY <1>1, <2>1, <2>2, <2>3, RowMoves
<1> QED
  BY <1>3, <1>4, <1>5 DEF RunningRowHasRun, RunOwns, BatchOwns, CallerOwns

\* When a start that was on its way lets go, its scan runs, or none ever will.
LEMMA EnteredOrStuck ==
  ASSUME AutoTypeOK, OneOwner, EnterWatchScan
  PROVE  (run.pc = "none" /\ WatchRuns') \/ ~RunningRowHasRun'
<1>1. /\ BatchOwns /\ ~RunOwns /\ scanRow # "none" /\ \A c \in Callers : ~CallerOwns(c)
  BY DEF OneOwner, EnterWatchScan, BatchOwns
<1>2. CASE run.pc = "none"
  BY <1>2, EnterWatchEffect DEF WatchRuns
<1>3. CASE run.pc # "none"
  <2>1. run' = run /\ scanRow' = scanRow /\ caller' = caller /\ batch'.pc # "opened"
    BY <1>3, EnterWatchEffect DEF EnterWatchScan
  <2> QED
    BY <1>1, <2>1 DEF RunningRowHasRun, RunOwns, CallerOwns
<1> QED
  BY <1>2, <1>3

LEMMA InflightHasScan ==
  ASSUME AutoTypeOK, OneOwner, BatchShape, AutoNext
  PROVE  inflight' # {} => StartHeld' \/ WatchRuns' \/ ~RunningRowHasRun'
<1>1. inflight # {} => StartHeld \/ WatchRuns \/ ~RunningRowHasRun
  BY DEF BatchShape
<1>2. CASE Restart \/ NotStarted \/ (\E h \in Holders : Disable(h))
  BY <1>2 DEF Restart, NotStarted, Disable
<1>3. CASE Start
  <2>1. CASE StartHeld'
    BY <2>1
  <2>2. CASE ~StartHeld'
    <3>1. inflight' = inflight /\ run' = run /\ scanRow' = scanRow /\ caller' = caller
      BY <1>3, <2>2, StartEffect DEF Start, StartHeld, scansVars
    <3>2. ~StartHeld /\ ~BatchOwns /\ ~BatchOwns'
      BY <1>3, <2>2, StartEffect DEF StartHeld, BatchOwns
    <3> QED
      BY <1>1, <3>1, <3>2 DEF WatchRuns, RunningRowHasRun, BatchOwns
  <2> QED
    BY <2>1, <2>2
<1>4. CASE EnterWatchScan
  BY <1>4, EnteredOrStuck
<1>5. CASE ~Restart /\ ~NotStarted /\ ~Start /\ ~EnterWatchScan /\ ~\E h \in Holders : Disable(h)
  <2>1. inflight' # {} => inflight # {}
    BY <1>5, InflightMoves DEF FinishScan, FoldersChanging, DisableFails, Requeue
  <2>2. StartHeld => StartHeld'
    BY <1>5, BatchPhases
  <2>3. ~RunningRowHasRun => ~RunningRowHasRun'
    BY <1>5, StuckStays
  <2>4. WatchRuns => WatchRuns' \/ inflight' = {}
    <3>1. CASE FinishScan
      BY <3>1 DEF FinishScan, WatchRuns
    <3>2. CASE ~FinishScan
      BY <1>5, <3>2, RunChanges, ReadEffect, StopEffect, FinishRowEffect DEF WatchRuns
    <3> QED
      BY <3>1, <3>2
  <2> QED
    BY <1>1, <2>1, <2>2, <2>3, <2>4
<1> QED
  BY <1>2, <1>3, <1>4, <1>5

\* A refused start was refused by a scan that is not over, or knows that it is.
LEMMA RefusedKnows ==
  ASSUME AutoTypeOK, BatchShape, AutoNext
  PROVE  batch'.pc = "refused" => batch'.finished \/ scanRow' # "none" \/ run'.pc # "none"
<1>1. batch.pc = "refused" => batch.finished \/ scanRow # "none" \/ run.pc # "none"
  BY DEF BatchShape
<1>2. CASE OpenWatchScan
  BY <1>2, OpenWatchEffect
<1>3. CASE FinishScan
  BY <1>3, FinishEffect
<1>4. CASE Fire
  <2>1. scanRow' = scanRow /\ run' = run
    BY <1>4 DEF Fire, scansVars
  <2>2. batch' = batch \/ batch'.pc = "settling"
    BY <1>4, FireEffect
  <2> QED
    BY <1>1, <2>1, <2>2
<1>5. CASE Settle \/ Start \/ EnterWatchScan
  BY <1>5, SettleEffect, StartEffect, EnterWatchEffect
<1>6. CASE NotStarted \/ EndBatch \/ Restart
  BY <1>6, RestRecords DEF NotStarted, EndBatch, Restart
<1>7. CASE batch' = batch /\ ~Restart /\ ~FinishScan /\ ~OpenWatchScan
  <2>1. scanRow # "none" => scanRow' # "none" \/ run'.pc # "none"
    <3>1. CASE FinishRow
      BY <3>1, FinishRowEffect
    <3>2. CASE \E c \in Callers : OpenScan(c)
      BY <3>2, OpenScanEffect
    <3> QED
      BY <1>7, <3>1, <3>2, RowMoves
  <2>2. run.pc # "none" => run'.pc # "none"
    BY <1>7, RunChanges, ReadEffect, StopEffect, FinishRowEffect
  <2> QED
    BY <1>1, <1>7, <2>1, <2>2
<1> QED
  BY <1>2, <1>3, <1>4, <1>5, <1>6, <1>7, BatchMoves

LEMMA BatchDirs ==
  ASSUME AutoTypeOK, BatchShape, AutoNext
  PROVE  /\ rerun' => batch'.pc # "idle"
         /\ batch'.pc \in {"settling", "starting"} => inflight' = {}
         /\ StartHeld' => inflight' \subseteq batch'.dirs
         /\ batch'.pc \in {"idle", "ending"} => batch'.dirs = {}
<1>1. /\ rerun => batch.pc # "idle"
      /\ batch.pc \in {"settling", "starting"} => inflight = {}
      /\ StartHeld => inflight \subseteq batch.dirs
      /\ batch.pc \in {"idle", "ending"} => batch.dirs = {}
  BY DEF BatchShape
<1>2. CASE Fire
  <2>1. inflight' = inflight /\ (rerun' => rerun \/ batch.pc # "idle")
        /\ (batch.pc # "idle" => batch' = batch)
    BY <1>2 DEF Fire
  <2> QED
    BY <1>1, <1>2, <2>1, FireEffect DEF StartHeld
<1>3. CASE Settle
  BY <1>1, <1>3, SettleEffect DEF StartHeld, Settle
<1>4. CASE Start
  BY <1>1, <1>4, StartEffect DEF StartHeld, Start
<1>5. CASE OpenWatchScan
  <2>1. inflight' = inflight /\ rerun' = rerun
    BY <1>5 DEF OpenWatchScan
  <2> QED
    BY <1>1, <1>5, <2>1, OpenWatchEffect DEF StartHeld
<1>6. CASE EnterWatchScan
  <2>1. inflight' = inflight /\ rerun' = rerun
    BY <1>6 DEF EnterWatchScan
  <2> QED
    BY <1>1, <1>6, <2>1, EnterWatchEffect DEF StartHeld
<1>7. CASE FinishScan
  <2>1. inflight' \in {{}, inflight} /\ rerun' = rerun
    BY <1>7 DEF FinishScan
  <2> QED
    BY <1>1, <1>7, <2>1, FinishEffect DEF StartHeld
<1>8. CASE NotStarted \/ EndBatch \/ Restart
  BY <1>8, RestRecords DEF NotStarted, EndBatch, Restart, StartHeld
<1>9. CASE batch' = batch /\ ~Fire /\ ~Start /\ ~NotStarted /\ ~Restart /\ ~FinishScan
  <2>1. inflight' \in {{}, inflight}
    BY <1>9, InflightMoves DEF FoldersChanging, DisableFails, Disable, Requeue
  <2>2. rerun' => rerun
    BY <1>9, TimerMoves
       DEF Changed, Settle, EndBatch, FoldersChanged, DisableFails, Disable
  <2> QED
    BY <1>1, <1>9, <2>1, <2>2 DEF StartHeld
<1> QED
  BY <1>2, <1>3, <1>4, <1>5, <1>6, <1>7, <1>8, <1>9, BatchMoves

LEMMA BatchStepKeeps ==
  ASSUME AutoTypeOK, OneOwner, BatchShape, AutoNext
  PROVE  BatchShape'
BY InflightHasScan, RefusedKnows, BatchDirs DEF BatchShape

-----------------------------------------------------------------------------
(* Changes.                                                                *)

LEMMA ChangedMoves ==
  ASSUME AutoTypeOK, AutoNext
  PROVE  /\ ChangedDirs' \subseteq ChangedDirs \/ \E d \in Dirs : Change(d)
         /\ \A d \in Dirs : Change(d) => ChangedDirs' \subseteq ChangedDirs \cup {d}
         /\ \A d \in Dirs : ReadDirectory(d) => d \notin ChangedDirs'
         /\ \A d \in Dirs : EventsLost(d) => d \notin ChangedDirs'
         /\ (\E a \in Arms : NoFolders(a) \/ ArmWatcher(a)) => notice \cap ChangedDirs' = {}
         /\ FinishScan => OwnersTurn \cap ChangedDirs' = {}
         /\ (\E h \in Holders : Disable(h)) => ChangedDirs' = {}
         /\ Restart => ChangedDirs' = {}
<1>1. disk \in [Dirs -> Since] /\ notice \subseteq Dirs
  BY AutoNow
<1>2. ASSUME NEW dirs, NEW since \in {"read", "lost", "left"}, Becomes(dirs, since)
      PROVE  ChangedDirs' \subseteq ChangedDirs /\ dirs \cap ChangedDirs' = {}
  BY <1>2 DEF Becomes, ChangedDirs
<1>3. ASSUME NEW d \in Dirs, Change(d)
      PROVE  ChangedDirs' \subseteq ChangedDirs \cup {d}
  BY <1>3 DEF Change, Becomes, ChangedDirs
<1>4. ASSUME NEW d \in Dirs, ReadDirectory(d)
      PROVE  ChangedDirs' \subseteq ChangedDirs /\ d \notin ChangedDirs'
  BY <1>1, <1>4 DEF ReadDirectory, ChangedDirs
<1>5. ASSUME NEW d \in Dirs, EventsLost(d)
      PROVE  ChangedDirs' \subseteq ChangedDirs /\ d \notin ChangedDirs'
  <2>1. ChangedDirs' \subseteq ChangedDirs /\ ({d} \cap Unread) \cap ChangedDirs' = {}
    BY <1>2, <1>5 DEF EventsLost
  <2>2. d \in ChangedDirs => d \in Unread
    BY DEF ChangedDirs, Unread
  <2> QED
    BY <2>1, <2>2
<1>6. ASSUME NEW a \in Arms, NoFolders(a) \/ ArmWatcher(a)
      PROVE  ChangedDirs' \subseteq ChangedDirs /\ notice \cap ChangedDirs' = {}
  <2>1. ChangedDirs' \subseteq ChangedDirs /\ (notice \cap Unread) \cap ChangedDirs' = {}
    BY <1>2, <1>6 DEF NoFolders, ArmWatcher, DropSession
  <2>2. ChangedDirs \subseteq Unread
    BY DEF ChangedDirs, Unread
  <2> QED
    BY <2>1, <2>2
<1>7. FinishScan => ChangedDirs' \subseteq ChangedDirs /\ OwnersTurn \cap ChangedDirs' = {}
  BY <1>2 DEF FinishScan
<1>8. (\E h \in Holders : Disable(h)) => ChangedDirs' = {}
  <2>1. (\E h \in Holders : Disable(h)) => Dirs \cap ChangedDirs' = {}
    BY <1>2 DEF Disable
  <2> QED
    BY <2>1 DEF ChangedDirs
<1>9. Restart => ChangedDirs' = {}
  BY DEF Restart, Recover, ChangedDirs
<1>10. ChangedDirs' \subseteq ChangedDirs \/ \E d \in Dirs : Change(d)
  <2>1. CASE disk' = disk
    BY <2>1 DEF ChangedDirs
  <2> QED
    BY <1>4, <1>5, <1>6, <1>7, <1>8, <1>9, <2>1, DiskMoves
<1> QED
  BY <1>3, <1>4, <1>5, <1>6, <1>7, <1>8, <1>9, <1>10

\* What is pending stays pending while automatic import is on: only a scan that
\* begins takes it, into inflight.
LEMMA NoticeKept ==
  ASSUME AutoTypeOK, WatchOwed, AutoNext, enabled, ~Restart
  PROVE  notice \cap ChangedDirs' \subseteq Pending'
<1>1. CASE notice' = notice \/ \E d \in Dirs : Change(d)
  BY <1>1 DEF Change, Pending
<1>2. CASE \E d \in Dirs : Changed(d)
  BY <1>2 DEF Changed, Pending
<1>3. CASE \E d \in Dirs : EventsLost(d)
  <2>1. PICK d \in Dirs : EventsLost(d)
    BY <1>3
  <2>2. notice' = notice \ {d} /\ d \notin ChangedDirs'
    BY <2>1, ChangedMoves DEF EventsLost
  <2> QED
    BY <2>2 DEF Pending
<1>4. CASE \E h \in Holders : DisarmAfter(h)
  BY <1>4 DEF WatchOwed, DisarmAfter
<1>5. CASE \E a \in Arms : CheckGeneration(a) \/ FinishArming(a)
  BY <1>5 DEF CheckGeneration, FinishArming, OutOfDate, OutOfDateWith, Pending
<1>6. CASE \E a \in Arms : NoFolders(a) \/ ArmWatcher(a)
  BY <1>6, ChangedMoves
<1> QED
  BY <1>1, <1>2, <1>3, <1>4, <1>5, <1>6, NoticeMoves

LEMMA DirtyKept ==
  ASSUME AutoTypeOK, AutoNext, enabled', ~Restart
  PROVE  dirty \subseteq Pending'
<1>1. CASE dirty' = dirty \/ (\E d \in Dirs : Changed(d)) \/ Start \/ NotStarted \/ FinishScan
  BY <1>1 DEF Changed, Start, NotStarted, FinishScan, Pending
<1>2. CASE Fire
  BY <1>2, FireEffect DEF Pending
<1>3. CASE Settle
  BY <1>3, SettleEffect DEF Pending
<1>4. CASE \E h \in Holders : FoldersChanging(h) \/ DisableFails(h)
  BY <1>4 DEF FoldersChanging, DisableFails, Requeue, Pending
<1>5. CASE \E h \in Holders : Disable(h)
  BY <1>5 DEF Disable
<1> QED
  BY <1>1, <1>2, <1>3, <1>4, <1>5, DirtyMoves

LEMMA BatchKept ==
  ASSUME AutoTypeOK, BatchShape, AutoNext, enabled, ~Restart, ~EnterWatchScan
  PROVE  batch.dirs \subseteq Pending'
<1>1. CASE batch' = batch
  BY <1>1 DEF Pending
<1>2. CASE Fire
  BY <1>1, <1>2, FireEffect DEF BatchShape
<1>3. CASE Settle
  BY <1>3, SettleEffect DEF Pending
<1>4. CASE Start
  BY <1>4, StartEffect DEF Pending
<1>5. CASE OpenWatchScan
  BY <1>5, OpenWatchEffect DEF Pending
<1>6. CASE NotStarted
  BY <1>6 DEF NotStarted, Pending
<1>7. CASE EndBatch
  BY <1>7 DEF EndBatch, BatchShape
<1>8. CASE FinishScan
  BY <1>8, FinishEffect DEF Pending
<1> QED
  BY <1>1, <1>2, <1>3, <1>4, <1>5, <1>6, <1>7, <1>8, BatchMoves

LEMMA HeldBackKept ==
  ASSUME AutoTypeOK, AutoNext, enabled', ~Restart
  PROVE  HeldBack \subseteq Pending'
<1> SUFFICES ASSUME NEW h \in Holders, holder[h].pc \in {"wait", "held"}, NEW d \in holder[h].batch
             PROVE  d \in Pending'
  BY DEF HeldBack
<1>1. CASE holder'[h] = holder[h]
  BY <1>1 DEF HeldBack, Pending
<1>2. CASE FoldersChanging(h) \/ DisableFails(h)
  BY <1>2 DEF FoldersChanging, DisableFails, Requeue, Pending
<1>3. CASE HoldWaited(h)
  BY <1>3, WaitedEffect DEF HeldBack, Pending
<1>4. CASE Disable(h)
  BY <1>4 DEF Disable
<1>5. ~FoldersChanged(h) /\ ~DisarmAfter(h) /\ ~Quiesce(h) /\ ~HoldSupersedes(h)
      /\ ~\E op \in {"disable", "folders"} : Hold(h, op)
  BY DEF FoldersChanged, DisarmAfter, Quiesce, HoldSupersedes, Hold
<1> QED
  BY <1>1, <1>2, <1>3, <1>4, <1>5, HolderSelf

LEMMA PendingKept ==
  ASSUME AutoInv, AutoNext, enabled, enabled', ~Restart
  PROVE  Pending \cap ChangedDirs' \subseteq Pending' \/ EnterWatchScan
BY NoticeKept, DirtyKept, BatchKept, HeldBackKept DEF AutoInv, Pending

\* What was in flight is read, or pending again.
LEMMA InflightKept ==
  ASSUME AutoInv, ChangesKept, AutoNext, enabled, enabled', ~Restart, RunningRowHasRun
  PROVE  inflight \cap ChangedDirs' \subseteq inflight' \cup Pending'
<1>1. AutoTypeOK /\ BatchShape /\ LossCovered
  BY DEF AutoInv
<1>2. CASE inflight' = inflight
  BY <1>2
<1>3. CASE Start
  BY <1>3 DEF BatchShape, AutoInv, Start
<1>4. CASE NotStarted
  <2>1. inflight \subseteq batch.dirs
    BY <1>1, <1>4 DEF BatchShape, NotStarted, StartHeld
  <2>2. batch.dirs \subseteq dirty'
    BY <1>4 DEF NotStarted
  <2> QED
    BY <2>1, <2>2 DEF Pending
<1>5. CASE \E h \in Holders : FoldersChanging(h) \/ DisableFails(h)
  <2>1. PICK h \in Holders : FoldersChanging(h) \/ DisableFails(h)
    BY <1>5
  <2>2. holder[h].pc = "held" /\ holder[h].batch \subseteq dirty'
    BY <2>1 DEF FoldersChanging, DisableFails, Requeue
  <2>3. inflight \subseteq holder[h].batch
    BY <2>2 DEF ChangesKept
  <2> QED
    BY <2>2, <2>3 DEF Pending
<1>6. CASE \E h \in Holders : Disable(h)
  BY <1>6 DEF Disable
<1>7. CASE FinishScan
  <2>1. CASE run.kind # "watch"
    BY <1>7, <2>1 DEF FinishScan
  <2>2. CASE run.kind = "watch" /\ run.requeue
    BY <1>7, <2>2 DEF FinishScan, Pending
  <2>3. CASE run.kind = "watch" /\ ~run.requeue
    <3>1. WatchRuns /\ ~EnterWatchScan
      <4>1. WatchRuns
        BY <1>1, <1>7, <2>3, FinishEffect DEF WatchRuns
      <4>2. ~EnterWatchScan
        BY <1>1, <1>7, FinishEffect, EnterWatchEffect
      <4> QED
        BY <4>1, <4>2
    <3>2. /\ inflight \cap ChangedDirs \subseteq run.left \cup Pending
          /\ run.cancelled /\ ~run.byOwner => inflight \cap ChangedDirs \subseteq Pending
      BY <2>3, <3>1 DEF ChangesKept
    <3>3. /\ ChangedDirs' \subseteq ChangedDirs /\ OwnersTurn \cap ChangedDirs' = {}
          /\ Pending \cap ChangedDirs' \subseteq Pending'
      <4>1. ~\E d \in Dirs : Change(d)
        BY <1>1, <1>7, FinishEffect, RestRecords DEF Change
      <4> QED
        BY <1>1, <1>7, <3>1, <4>1, ChangedMoves, PendingKept
    <3>4. CASE run.byOwner \/ ~run.done
      <4>1. OwnersTurn = run.left \cap Unread
        BY <2>3, <3>4 DEF OwnersTurn
      <4>2. ChangedDirs \subseteq Unread
        BY DEF ChangedDirs, Unread
      <4> QED
        BY <3>2, <3>3, <4>1, <4>2
    <3>5. CASE ~run.byOwner /\ run.done
      BY <1>1, <3>2, <3>3, <3>5 DEF LossCovered
    <3> QED
      BY <3>4, <3>5
  <2> QED
    BY <2>1, <2>2, <2>3
<1> QED
  BY <1>2, <1>3, <1>4, <1>5, <1>6, <1>7, InflightMoves

\* inflight grows only when a start takes a batch, and a batch is pending.
LEMMA InflightGrows ==
  ASSUME AutoInv, AutoNext
  PROVE  inflight' \subseteq inflight \/ (Start /\ ~Holding /\ inflight' \subseteq batch'.dirs)
<1>1. CASE Start
  BY <1>1, StartEffect DEF AutoInv
<1>2. CASE NotStarted \/ FinishScan \/ Restart
  BY <1>2 DEF NotStarted, FinishScan, Restart
<1>3. CASE \E h \in Holders : FoldersChanging(h) \/ DisableFails(h) \/ Disable(h)
  BY <1>3 DEF FoldersChanging, DisableFails, Disable, Requeue
<1> QED
  BY <1>1, <1>2, <1>3, InflightMoves

\* A watch scan that runs on still has in front of it what it had, or has read it.
LEMMA ReaderGoesOn ==
  ASSUME AutoTypeOK, AutoNext, WatchRuns', RunningRowHasRun', OneOwner, ~EnterWatchScan
  PROVE  /\ WatchRuns /\ run.left \cap ChangedDirs' \subseteq run'.left
         /\ run'.cancelled /\ ~run'.byOwner /\ ~run'.requeue =>
              \/ run.cancelled /\ ~run.byOwner /\ ~run.requeue
              \/ \E h \in Holders : HoldSupersedes(h)
<1>1. WatchRuns
  BY RunPhases
<1>2. CASE run' = run
  BY <1>1, <1>2
<1>3. CASE run'.kind \in {"full", "part"}
  BY <1>3 DEF WatchRuns
<1>4. CASE /\ run'.left = run.left
           /\ run'.byOwner \/ run'.requeue \/ \E h \in Holders : HoldSupersedes(h)
  BY <1>1, <1>4
<1>5. CASE \E d \in Dirs : ReadDirectory(d)
  <2>1. PICK d \in Dirs : ReadDirectory(d)
    BY <1>5
  <2>2. d \notin ChangedDirs'
    BY <2>1, ChangedMoves
  <2> QED
    BY <1>1, <2>1, <2>2, ReadEffect
<1>6. CASE StopScanning \/ FinishRow
  BY <1>1, <1>6, StopEffect, FinishRowEffect
<1>7. CASE run' = NoRun
  BY <1>7, RestRecords DEF WatchRuns
<1> QED
  BY <1>2, <1>3, <1>4, <1>5, <1>6, <1>7, RunChanges

LEMMA OffHasNoChange ==
  ASSUME AutoInv, ChangesKept, AutoNext, ~enabled'
  PROVE  ChangedDirs' = {}
<1>1. AutoTypeOK
  BY DEF AutoInv
<1>2. CASE \E h \in Holders : Disable(h)
  BY <1>1, <1>2, ChangedMoves
<1>3. CASE ~enabled
  BY <1>1, <1>3, ChangedMoves DEF ChangesKept, Change
<1> QED
  BY <1>2, <1>3, EnabledMoves DEF Enable

\* Only a request that is past the starts and has not put them back holds any.
LEMMA HoldersLetGo ==
  ASSUME AutoInv, ChangesKept, AutoNext, NEW h \in Holders,
         holder'[h].pc \in {"idle", "quiesce", "changing", "disarm"}
  PROVE  holder'[h].batch = {}
<1>1. AutoTypeOK
  BY DEF AutoInv
<1>2. CASE holder'[h] = holder[h]
  BY <1>2 DEF ChangesKept
<1>3. CASE holder'[h] = NoHold
  BY <1>3, RestRecords
<1>4. CASE \E op \in {"disable", "folders"} : Hold(h, op)
  BY <1>1, <1>4, HoldEffect
<1>5. CASE Quiesce(h) \/ HoldSupersedes(h) \/ HoldWaited(h)
  BY <1>1, <1>5, QuiesceEffect, SupersedesEffect, WaitedEffect
<1>6. CASE FoldersChanging(h) \/ Disable(h)
  BY <1>1, <1>6, ChangingEffect, DisableEffect
<1> QED
  BY <1>1, <1>2, <1>3, <1>4, <1>5, <1>6, HolderSelf

\* A request past the starts holds what is in flight.
LEMMA HoldersTook ==
  ASSUME AutoInv, ChangesKept, AutoNext, ~Restart, RunningRowHasRun, NEW h \in Holders,
         holder'[h].pc \in {"supersede", "wait", "held"}
  PROVE  inflight' \subseteq holder'[h].batch
<1>1. AutoTypeOK
  BY DEF AutoInv
<1>2. CASE inflight' \subseteq inflight
  <2>1. CASE Quiesce(h)
    BY <1>1, <1>2, <2>1, QuiesceEffect
  <2>2. CASE HoldSupersedes(h) /\ ~WatchRuns
    <3>1. inflight = {}
      BY <2>2 DEF AutoInv, HoldHolds, BatchShape, HoldSupersedes
    <3> QED
      BY <1>2, <3>1
  <2>3. CASE /\ holder[h].pc \in {"supersede", "wait", "held"}
             /\ holder'[h].batch = holder[h].batch
    <3>1. inflight \subseteq holder[h].batch
      <4>1. CASE enabled
        BY <2>3, <4>1 DEF ChangesKept
      <4>2. CASE ~enabled
        BY <4>2 DEF AutoInv, HoldHolds, BatchShape
      <4> QED
        BY <4>1, <4>2
    <3> QED
      BY <1>2, <2>3, <3>1
  <2>4. CASE holder'[h] = NoHold
    BY <2>4, RestRecords
  <2>5. CASE \E op \in {"disable", "folders"} : Hold(h, op)
    BY <1>1, <2>5, HoldEffect
  <2>6. CASE HoldSupersedes(h) /\ WatchRuns
    BY <1>1, <2>3, <2>6, SupersedesEffect
  <2>7. CASE HoldWaited(h)
    BY <1>1, <2>3, <2>7, WaitedEffect
  <2>8. CASE FoldersChanging(h) \/ Disable(h)
    BY <1>1, <2>8, ChangingEffect, DisableEffect
  <2> QED
    BY <1>1, <2>1, <2>2, <2>3, <2>4, <2>5, <2>6, <2>7, <2>8, HolderSelf
<1>3. CASE Start /\ ~Holding
  BY <1>3 DEF Start, Holding
<1> QED
  BY <1>2, <1>3, InflightGrows

\* A changed directory stays within reach of a reader.
LEMMA ReachKept ==
  ASSUME AutoInv, NotOvertaken, ChangesKept, AutoNext, enabled, enabled', ~Restart,
         RunningRowHasRun, RunningRowHasRun'
  PROVE  /\ ChangedDirs' \subseteq Pending' \cup inflight'
         /\ WatchRuns' => inflight' \cap ChangedDirs' \subseteq run'.left \cup Pending'
         /\ WatchRuns' /\ run'.cancelled /\ ~run'.byOwner /\ ~run'.requeue =>
              inflight' \cap ChangedDirs' \subseteq Pending'
<1>1. /\ ChangedDirs \subseteq Pending \cup inflight
      /\ WatchRuns => inflight \cap ChangedDirs \subseteq run.left \cup Pending
      /\ WatchRuns /\ run.cancelled /\ ~run.byOwner /\ ~run.requeue =>
           inflight \cap ChangedDirs \subseteq Pending
  BY DEF ChangesKept
<1>2. AutoTypeOK /\ OneOwner
  BY DEF AutoInv
<1>3. CASE EnterWatchScan
  <2>1. run.pc = "none" /\ WatchRuns'
    BY <1>2, <1>3, EnteredOrStuck
  <2>2. run'.left = batch.dirs /\ ~run'.cancelled /\ inflight' = inflight /\ inflight = batch.dirs
    BY <1>2, <1>3, <2>1, EnterWatchEffect DEF EnterWatchScan, NotOvertaken
  <2>3. notice' = notice /\ dirty' = dirty /\ HeldBack' = HeldBack
    BY <1>3 DEF EnterWatchScan, HeldBack
  <2>4. ChangedDirs' = ChangedDirs
    BY <1>3 DEF EnterWatchScan, ChangedDirs
  <2> QED
    BY <1>1, <2>2, <2>3, <2>4 DEF Pending
<1>4. CASE ~EnterWatchScan
  <2>1. Pending \cap ChangedDirs' \subseteq Pending'
    BY <1>4, PendingKept
  <2>2. inflight \cap ChangedDirs' \subseteq inflight' \cup Pending'
    BY InflightKept
  <2>3. ChangedDirs' \subseteq ChangedDirs \cup Pending'
    <3>1. ASSUME NEW d \in Dirs, Change(d)
          PROVE  d \in Pending' /\ ChangedDirs' \subseteq ChangedDirs \cup {d}
      BY <1>2, <3>1, ChangedMoves DEF Change, Pending
    <3> QED
      BY <1>2, <3>1, ChangedMoves
  <2>4. inflight' \subseteq inflight \cup Pending'
    BY InflightGrows DEF Pending
  <2>5. ASSUME WatchRuns'
        PROVE  inflight' \cap ChangedDirs' \subseteq run'.left \cup Pending'
    <3>1. WatchRuns /\ run.left \cap ChangedDirs' \subseteq run'.left
      BY <1>2, <1>4, <2>5, ReaderGoesOn
    <3> QED
      BY <1>1, <2>1, <2>3, <2>4, <3>1
  <2>6. ASSUME WatchRuns', run'.cancelled, ~run'.byOwner, ~run'.requeue
        PROVE  inflight' \cap ChangedDirs' \subseteq Pending'
    <3>1. WatchRuns
      BY <1>2, <1>4, <2>6, ReaderGoesOn
    <3>2. CASE run.cancelled /\ ~run.byOwner /\ ~run.requeue
      BY <1>1, <2>1, <2>3, <2>4, <3>1, <3>2
    <3>3. CASE \E h \in Holders : HoldSupersedes(h)
      <4>1. PICK h \in Holders : HoldSupersedes(h)
        BY <3>3
      <4>2. /\ holder'[h].pc = "wait" /\ holder'[h].batch = holder[h].batch
            /\ holder[h].pc = "supersede" /\ inflight' = inflight
        BY <1>2, <3>1, <4>1, SupersedesEffect DEF HoldSupersedes, dirVars
      <4>3. inflight \subseteq holder[h].batch
        BY <4>2 DEF ChangesKept
      <4> QED
        BY <4>2, <4>3 DEF Pending, HeldBack
    <3> QED
      BY <1>2, <1>4, <2>6, <3>2, <3>3, ReaderGoesOn
  <2> QED
    BY <1>1, <2>1, <2>2, <2>3, <2>5, <2>6
<1> QED
  BY <1>3, <1>4

LEMMA ChangesStep ==
  ASSUME AutoInv, NotOvertaken, ChangesKept, AutoNext
  PROVE  ChangesKept'
<1>1. AutoTypeOK /\ OneOwner
  BY DEF AutoInv
<1>2. ~enabled' => ChangedDirs' = {}
  BY OffHasNoChange
<1>3. \A h \in Holders :
        holder'[h].pc \in {"idle", "quiesce", "changing", "disarm"} => holder'[h].batch = {}
  BY HoldersLetGo
<1>4. CASE Restart
  <2>1. /\ ChangedDirs' = {} /\ inflight' = {}
        /\ \A h \in Holders : holder'[h].pc = "idle"
    BY <1>1, <1>4, ChangedMoves, RestRecords DEF Restart
  <2> QED
    BY <1>2, <1>3, <2>1 DEF ChangesKept
<1>5. ASSUME ~Restart, enabled', RunningRowHasRun'
      PROVE  /\ ChangedDirs' \subseteq Pending' \cup inflight'
             /\ \A h \in Holders :
                  holder'[h].pc \in {"supersede", "wait", "held"} =>
                    inflight' \subseteq holder'[h].batch
             /\ WatchRuns' => inflight' \cap ChangedDirs' \subseteq run'.left \cup Pending'
             /\ WatchRuns' /\ run'.cancelled /\ ~run'.byOwner /\ ~run'.requeue =>
                  inflight' \cap ChangedDirs' \subseteq Pending'
  <2>1. RunningRowHasRun
    BY <1>1, <1>5, StuckStays
  <2>2. \A h \in Holders :
          holder'[h].pc \in {"supersede", "wait", "held"} => inflight' \subseteq holder'[h].batch
    BY <1>5, <2>1, HoldersTook
  <2>3. CASE enabled
    BY <1>5, <2>1, <2>2, <2>3, ReachKept
  <2>4. CASE ~enabled
    <3>1. ChangedDirs = {} /\ ~\E d \in Dirs : Change(d)
      BY <2>4 DEF ChangesKept, Change
    <3>2. ChangedDirs' = {}
      BY <1>1, <3>1, ChangedMoves
    <3> QED
      BY <2>2, <3>2
  <2> QED
    BY <2>3, <2>4
<1> QED
  BY <1>2, <1>3, <1>4, <1>5 DEF ChangesKept

-----------------------------------------------------------------------------
(* The invariant.                                                          *)

LEMMA InitHolds ==
  ASSUME AutoInit
  PROVE  AutoInv /\ ChangesKept
<1>1. /\ scanRow = "none" /\ run = NoRun /\ caller = [c \in Callers |-> NoCall]
      /\ disk = [d \in Dirs |-> "read"] /\ holder = [h \in Holders |-> NoHold] /\ batch = NoBatch
      /\ enabled \in BOOLEAN /\ arm \in FirstArms(enabled) /\ watchState = StateOf(enabled)
      /\ notice = {} /\ dirty = {} /\ inflight = {}
      /\ timer = FALSE /\ rerun = FALSE /\ watching = FALSE /\ problem = "none" /\ lostNew = FALSE
      /\ uncovered = FALSE
  BY DEF AutoInit, ScansInit
<1>2. /\ \A h \in Holders : holder[h].pc = "idle" /\ holder[h].batch = {}
      /\ \A c \in Callers : caller[c].pc = "idle"
      /\ run.pc = "none" /\ run.kind = "watch" /\ ~run.done
      /\ batch.pc = "idle" /\ batch.dirs = {}
      /\ run \in RunStates /\ batch \in BatchStates /\ caller \in [Callers -> CallerStates]
      /\ holder \in [Holders -> HolderStates]
  BY <1>1, RestRecords
<1>3. /\ arm \in [Arms -> ArmStates]
      /\ \A b \in Arms : arm[b].pc \in {"none", "waiting"} /\ ~arm[b].stale
      /\ enabled => \E b \in Arms : arm[b].pc = "waiting"
      /\ ~enabled => \A b \in Arms : arm[b].pc = "none"
      /\ \A b, c \in Arms : arm[b].pc = "waiting" /\ arm[c].pc = "waiting" => b = c
  BY <1>1, FirstArmsEffect
<1>4. AutoTypeOK
  <2>1. /\ scanRow \in Kinds \cup {"none"} /\ disk \in [Dirs -> Since]
        /\ notice \subseteq Dirs /\ dirty \subseteq Dirs /\ inflight \subseteq Dirs
        /\ timer \in BOOLEAN /\ rerun \in BOOLEAN /\ watching \in BOOLEAN /\ lostNew \in BOOLEAN
        /\ uncovered \in BOOLEAN
        /\ watchState \in {"off", "starting", "active", "limited"}
        /\ problem \in {"none", "events_lost", "unwatched"}
        /\ ~enabled => watchState = "off"
    BY <1>1 DEF Since, StateOf
  <2> QED
    BY <1>1, <1>2, <1>3, <2>1
       DEF AutoTypeOK, ScansTypeOK, RunStates, BatchStates, CallerStates, HolderStates, ArmStates
<1>5. OneOwner /\ HoldHolds
  BY <1>2 DEF OneOwner, HoldHolds, RunOwns, BatchOwns, CallerOwns, StartHeld, WatchRuns
<1>6. WatchOwed
  BY <1>1, <1>2, <1>3 DEF WatchOwed, Current, HasArmMu, Awaited
<1>7. LossCovered
  BY <1>1, <1>2 DEF LossCovered
<1>8. BatchShape
  BY <1>1, <1>2 DEF BatchShape, StartHeld
<1>9. ChangesKept
  BY <1>1, <1>2 DEF ChangesKept, ChangedDirs, WatchRuns
<1> QED
  BY <1>4, <1>5, <1>6, <1>7, <1>8, <1>9 DEF AutoInv

LEMMA InvariantStep ==
  ASSUME AutoInv, AutoNext
  PROVE  AutoInv'
BY TypeStep, OwnerStep, HoldStep, WatchStep, LossStep, BatchStepKeeps DEF AutoInv

LEMMA InvariantStays ==
  ASSUME AutoInv, UNCHANGED vars
  PROVE  AutoInv'
<1>1. UNCHANGED <<scanRow, run, caller, disk, enabled, notice, dirty, inflight, timer, batch,
                  rerun, holder, watching, arm, watchState, problem, lostNew, uncovered>>
  BY DEF vars, scansVars, autoVars, dirVars, watchVars
<1>2. AutoTypeOK' /\ OneOwner'
  BY <1>1
     DEF AutoInv, AutoTypeOK, ScansTypeOK, OneOwner, RunOwns, BatchOwns, CallerOwns
<1>3. HoldHolds' /\ WatchOwed' /\ LossCovered'
  BY <1>1
     DEF AutoInv, HoldHolds, StartHeld, WatchRuns, WatchOwed, Current, HasArmMu, Awaited,
         LossCovered, Lost
<1>4. BatchShape'
  BY <1>1 DEF AutoInv, BatchShape, StartHeld, WatchRuns, RunningRowHasRun
<1> QED
  BY <1>2, <1>3, <1>4 DEF AutoInv

LEMMA ChangesStay ==
  ASSUME ChangesKept, UNCHANGED vars
  PROVE  ChangesKept'
<1>1. UNCHANGED <<scanRow, run, caller, disk, enabled, notice, dirty, inflight, timer, batch,
                  rerun, holder, watching, arm, watchState, problem, lostNew, uncovered>>
  BY DEF vars, scansVars, autoVars, dirVars, watchVars
<1>2. ChangedDirs' = ChangedDirs /\ Pending' = Pending /\ (WatchRuns' <=> WatchRuns)
      /\ (RunningRowHasRun' <=> RunningRowHasRun)
  BY <1>1 DEF ChangedDirs, Pending, HeldBack, WatchRuns, RunningRowHasRun
<1> QED
  BY <1>1, <1>2 DEF ChangesKept

\* The inductive invariant of automatic import and the scan runs.
THEOREM AutoInvariant == AutoSpec => []AutoInv
<1>1. AutoInit => AutoInv
  BY InitHolds
<1>2. AutoInv /\ [AutoNext]_vars => AutoInv'
  BY InvariantStep, InvariantStays
<1> QED
  BY <1>1, <1>2, PTL DEF AutoSpec

\* Every variable keeps its type, and while automatic import is off its state
\* says so (auto_import.go:265).
THEOREM AutoTyped == AutoSpec => []AutoTypeOK
<1>1. AutoInv => AutoTypeOK
  BY DEF AutoInv
<1> QED
  BY <1>1, AutoInvariant, PTL

\* holdStarts (auto_import.go:214): once a folder change has held the starts, and
\* once automatic import is off, no watch scan runs or is about to.
THEOREM HoldsAreKept == AutoSpec => []NoWatchScanWhileHeld
<1>1. AutoInv => NoWatchScanWhileHeld
  BY DEF AutoInv, HoldHolds, NoWatchScanWhileHeld
<1> QED
  BY <1>1, AutoInvariant, PTL

\* armTree (auto_import.go:397): when every arming and disarming has ended, nothing
\* is watched while automatic import is off; and while it is on, nothing is watched
\* only if the last arming failed or found no media folder.
THEOREM WatchFollowsSetting == AutoSpec => []WatchesMatchSetting
<1>1. AutoInv => WatchesMatchSetting
  <2>1. AutoInv => enabled \in BOOLEAN /\ watching \in BOOLEAN
    BY AutoNow DEF AutoInv
  <2> QED
    BY <2>1 DEF AutoInv, WatchOwed, WatchesMatchSetting, Awaited
<1> QED
  BY <1>1, AutoInvariant, PTL

\* ScanFinished (auto_import.go:468): the state goes from a loss to active only
\* when every directory whose event was lost has been read since.
THEOREM LossIsRead == AutoSpec => LossStaysUntilRead
<1>1. AutoInv /\ [AutoNext]_vars =>
        [problem = "events_lost" /\ watchState' = "active" => Lost = {}]_vars
  <2> SUFFICES ASSUME AutoInv, AutoNext, problem = "events_lost", watchState' = "active"
               PROVE  Lost = {}
    OBVIOUS
  <2>1. watchState \in {"limited", "off"}
    BY DEF AutoInv, LossCovered
  <2>2. FinishScan \/ \E a \in Arms : FinishArming(a)
    BY <2>1, StateMoves DEF EventsLost, EnterScan, Enable, Rearm, Restart, StateOf,
      FoldersChanged, Disable, CannotList, NoFolders, ArmWatcher, Unwatched
  <2>3. CASE FinishScan
    <3>1. run.kind = "full" /\ run.done /\ ~lostNew
      BY <2>1, <2>3 DEF FinishScan, ClearsLoss
    <3>2. Lost \subseteq run.left /\ run.left = {}
      BY <3>1 DEF AutoInv, LossCovered
    <3> QED
      BY <3>2
  <2>4. CASE \E a \in Arms : FinishArming(a)
    BY <2>1, <2>4 DEF FinishArming, OutOfDate, OutOfDateWith
  <2> QED
    BY <2>2, <2>3, <2>4
<1> QED
  BY <1>1, AutoInvariant, PTL DEF AutoSpec, LossStaysUntilRead

\* A change is never forgotten (auto_import.go:228 to 610), as long as the end of
\* a watch scan does not take the directories of a start that overtook it.
THEOREM ChangeIsRead == AutoSpec /\ []NotOvertaken => []ChangeHasReader
<1>1. AutoInit => AutoInv /\ ChangesKept
  BY InitHolds
<1>2. AutoInv /\ ChangesKept /\ NotOvertaken /\ [AutoNext]_vars => ChangesKept'
  BY ChangesStep, ChangesStay
<1>3. ChangesKept => ChangeHasReader
  <2> SUFFICES ASSUME ChangesKept, enabled, RunningRowHasRun
               PROVE  ChangedDirs \subseteq notice \cup dirty \cup inflight \cup batch.dirs
                        \cup run.left \cup UNION {holder[h].batch : h \in Holders}
    BY DEF ChangeHasReader, ChangedDirs
  <2>1. ChangedDirs \subseteq Pending \cup inflight
    BY DEF ChangesKept
  <2>2. HeldBack \subseteq UNION {holder[h].batch : h \in Holders}
    BY DEF HeldBack
  <2> QED
    BY <2>1, <2>2 DEF Pending
<1> QED
  BY <1>1, <1>2, <1>3, AutoInvariant, PTL DEF AutoSpec

-----------------------------------------------------------------------------
(* Who will schedule the dirty directories.                                *)

\* No other request has directories in hand when a disabling takes effect.
DisablesAlone ==
  \A g, h \in Holders :
    g # h /\ holder[g].pc = "held" /\ holder[g].op = "disable" => holder[h].batch = {}

\* What is discarded while automatic import is off does not come back.
OffIsEmpty ==
  ~enabled => dirty = {} /\ inflight = {} /\ \A h \in Holders : holder[h].batch = {}

LEMMA OffStep ==
  ASSUME AutoInv, DisablesAlone, OffIsEmpty, AutoNext
  PROVE  OffIsEmpty'
<1>1. AutoTypeOK
  BY DEF AutoInv
<1>2. CASE \E h \in Holders : Disable(h)
  <2>1. PICK h \in Holders : Disable(h)
    BY <1>2
  <2>2. dirty' = {} /\ inflight' = {}
    BY <2>1 DEF Disable
  <2>3. \A g \in Holders : holder'[g].batch = {}
    BY <1>1, <2>1, DisableEffect DEF DisablesAlone
  <2> QED
    BY <2>2, <2>3 DEF OffIsEmpty
<1>3. CASE ~enabled /\ ~\E h \in Holders : Disable(h)
  <2>1. /\ dirty = {} /\ inflight = {} /\ \A h \in Holders : holder[h].batch = {}
        /\ ~StartHeld
    BY <1>3 DEF OffIsEmpty, AutoInv, HoldHolds
  <2>2. dirty' = {}
    <3>1. CASE (\E d \in Dirs : Changed(d)) \/ Fire \/ Start \/ NotStarted \/ FinishScan \/ Restart
      BY <1>3, <2>1, <3>1 DEF Changed, Fire, Start, NotStarted, FinishScan, Restart
    <3>2. CASE Settle
      BY <1>3, <2>1, <3>2 DEF Settle
    <3>3. CASE \E h \in Holders : FoldersChanging(h) \/ DisableFails(h)
      BY <2>1, <3>3 DEF FoldersChanging, DisableFails, Requeue
    <3> QED
      BY <1>3, <2>1, <3>1, <3>2, <3>3, DirtyMoves
  <2>3. inflight' = {}
    BY <1>3, <2>1, InflightGrows DEF Start, AutoInv
  <2>4. ASSUME NEW h \in Holders
        PROVE  holder'[h].batch = {}
    BY <1>1, <1>3, <2>1, HolderSelf, RestRecords, HoldEffect, QuiesceEffect, SupersedesEffect,
      WaitedEffect, ChangingEffect
  <2> QED
    BY <2>2, <2>3, <2>4 DEF OffIsEmpty
<1> QED
  BY <1>2, <1>3, EnabledMoves DEF OffIsEmpty, Enable

\* A hold lets go of the starts only after it has scheduled what is dirty.
LEMMA HoldingStays ==
  ASSUME AutoTypeOK, WatchOwed, AutoNext, Holding, enabled', ~Restart
  PROVE  Holding' \/ (dirty' # {} => timer')
<1>1. PICK h \in Holders : holder[h].pc \notin {"idle", "disarm"}
  BY DEF Holding
<1>2. CASE holder'[h] = holder[h]
  BY <1>1, <1>2 DEF Holding
<1>3. CASE FoldersChanged(h)
  <2>1. enabled
    BY <1>3 DEF FoldersChanged
  <2> QED
    BY <1>3, <2>1 DEF FoldersChanged
<1>4. CASE DisableFails(h)
  BY <1>4 DEF DisableFails
<1>5. CASE Disable(h) \/ DisarmAfter(h) \/ \E op \in {"disable", "folders"} : Hold(h, op)
  BY <1>1, <1>5 DEF Disable, DisarmAfter, Hold
<1>6. CASE Quiesce(h)
  BY <1>6, QuiesceEffect DEF Holding
<1>7. CASE HoldSupersedes(h)
  BY <1>7, SupersedesEffect DEF Holding
<1>8. CASE HoldWaited(h)
  BY <1>8, WaitedEffect DEF Holding
<1>9. CASE FoldersChanging(h)
  BY <1>9, ChangingEffect DEF Holding
<1> QED
  BY <1>2, <1>3, <1>4, <1>5, <1>6, <1>7, <1>8, <1>9, HolderSelf

\* The timer is stopped only when it fires into a batch, a hold or a scan.
LEMMA TimerStays ==
  ASSUME AutoInv, AutoNext, timer, enabled', ~Restart, ~timer'
  PROVE  Fire
<1>1. CASE UNCHANGED <<timer, rerun>>
  BY <1>1
<1>2. CASE \E d \in Dirs : Changed(d)
  BY <1>2 DEF Changed
<1>3. CASE Settle
  BY <1>3 DEF Settle
<1>4. CASE NotStarted \/ EndBatch \/ FinishScan
  BY <1>4 DEF NotStarted, EndBatch, FinishScan
<1>5. CASE \E h \in Holders : FoldersChanged(h) \/ DisableFails(h) \/ Disable(h)
  BY <1>5 DEF FoldersChanged, DisableFails, Disable
<1> QED
  BY <1>1, <1>2, <1>3, <1>4, <1>5, TimerMoves

LEMMA FireSchedules ==
  ASSUME AutoInv, Fire, enabled, dirty' # {}
  PROVE  rerun' \/ Holding' \/ scanRow' # "none" \/ run'.pc # "none"
<1>1. UNCHANGED <<scansVars, holder, inflight>>
  BY DEF Fire
<1>2. CASE batch.pc # "idle"
  BY <1>2 DEF Fire
<1>3. CASE Holding
  BY <1>1, <1>3 DEF Holding
<1>4. CASE batch.pc = "idle" /\ inflight # {}
  <2>1. WatchRuns \/ ~RunningRowHasRun
    BY <1>4 DEF AutoInv, BatchShape, StartHeld
  <2> QED
    BY <1>1, <2>1 DEF WatchRuns, RunningRowHasRun, scansVars
<1> QED
  BY <1>2, <1>3, <1>4 DEF Fire

\* A batch that ends looks again when it was asked to.
LEMMA RerunStays ==
  ASSUME AutoInv, AutoNext, rerun, enabled', ~Restart
  PROVE  rerun' \/ (dirty' # {} => timer')
<1>1. CASE EndBatch
  BY <1>1 DEF EndBatch
<1>2. CASE ~EndBatch
  BY <1>2, TimerMoves
     DEF Changed, Fire, Settle, NotStarted, FinishScan, FoldersChanged, DisableFails, Disable
<1> QED
  BY <1>1, <1>2

\* The end of a scan schedules what is dirty.
LEMMA ScanStays ==
  ASSUME AutoInv, AutoNext, scanRow # "none" \/ run.pc # "none", enabled', ~Restart
  PROVE  scanRow' # "none" \/ run'.pc # "none" \/ (dirty' # {} => timer')
<1>1. AutoTypeOK
  BY DEF AutoInv
<1>2. CASE FinishScan
  BY <1>2 DEF FinishScan
<1>3. CASE ~FinishScan /\ run.pc # "none"
  BY <1>1, <1>3, RunChanges, ReadEffect, StopEffect, FinishRowEffect
<1>4. CASE ~FinishScan /\ scanRow # "none"
  <2>1. CASE OpenWatchScan
    BY <1>1, <1>4, <2>1, OpenWatchEffect
  <2>2. CASE FinishRow
    BY <1>1, <2>2, FinishRowEffect
  <2>3. CASE \E c \in Callers : OpenScan(c)
    BY <1>1, <1>4, <2>3, OpenScanEffect
  <2> QED
    BY <1>4, <2>1, <2>2, <2>3, RowMoves
<1> QED
  BY <1>2, <1>3, <1>4

\* Directories become dirty with the timer, under a hold, or behind a scan.
LEMMA DirtyGrows ==
  ASSUME AutoInv, AutoNext, enabled, enabled', ~Restart, ~(dirty' \subseteq dirty)
  PROVE  timer' \/ Holding' \/ scanRow' # "none" \/ run'.pc # "none"
<1>1. AutoTypeOK
  BY DEF AutoInv
<1>2. CASE \E d \in Dirs : Changed(d)
  BY <1>2 DEF Changed
<1>3. CASE Fire
  BY <1>3 DEF Fire
<1>4. CASE Settle
  BY <1>4 DEF Settle
<1>5. CASE Start
  BY <1>1, <1>5, StartEffect DEF Start, Holding
<1>6. CASE NotStarted
  <2>1. batch.pc = "failed" \/ batch.finished \/ scanRow # "none" \/ run.pc # "none"
    BY <1>6 DEF NotStarted, AutoInv, BatchShape
  <2>2. scanRow' = scanRow /\ run' = run
    BY <1>6 DEF NotStarted, scansVars
  <2>3. batch.pc = "failed" \/ batch.finished => timer'
    BY <1>6 DEF NotStarted
  <2> QED
    BY <2>1, <2>2, <2>3
<1>7. CASE FinishScan
  BY <1>7 DEF FinishScan
<1>8. CASE \E h \in Holders : FoldersChanging(h)
  BY <1>1, <1>8, ChangingEffect DEF Holding
<1>9. CASE \E h \in Holders : DisableFails(h) \/ Disable(h)
  BY <1>9 DEF DisableFails, Disable
<1> QED
  BY <1>2, <1>3, <1>4, <1>5, <1>6, <1>7, <1>8, <1>9, DirtyMoves

LEMMA DirtyStep ==
  ASSUME AutoInv, OffIsEmpty, DirtyOwed, AutoNext
  PROVE  DirtyOwed'
<1> SUFFICES ASSUME enabled', dirty' # {}
             PROVE  timer' \/ rerun' \/ Holding' \/ scanRow' # "none" \/ run'.pc # "none"
  BY DEF DirtyOwed
<1>1. ~Restart /\ enabled
  <2>1. ~Restart
    BY DEF Restart
  <2>2. enabled
    BY EnabledMoves DEF OffIsEmpty, Enable, dirVars, Disable
  <2> QED
    BY <2>1, <2>2
<1>2. CASE Fire
  BY <1>1, <1>2, FireSchedules
<1>3. CASE ~(dirty' \subseteq dirty)
  BY <1>1, <1>3, DirtyGrows
<1>4. CASE dirty' \subseteq dirty /\ ~Fire
  <2>1. timer \/ rerun \/ Holding \/ scanRow # "none" \/ run.pc # "none"
    BY <1>1, <1>4 DEF DirtyOwed
  <2>2. timer => timer'
    BY <1>1, <1>4, TimerStays
  <2>3. Holding => Holding' \/ timer'
    BY <1>1, HoldingStays DEF AutoInv
  <2> QED
    BY <1>1, <2>1, <2>2, <2>3, RerunStays, ScanStays
<1> QED
  BY <1>2, <1>3, <1>4

\* scheduleLocked's callers (auto_import.go:355, 468, 519): dirty directories do
\* not wait for ever, as long as no disabling discards what a folder change has
\* in hand and will put back.
THEOREM DirtyWillBeScanned == AutoSpec /\ []DisablesAlone => []DirtyIsScheduled
<1>1. AutoInit => OffIsEmpty /\ DirtyOwed
  <2> SUFFICES ASSUME AutoInit
               PROVE  dirty = {} /\ inflight = {} /\ \A h \in Holders : holder[h].batch = {}
    BY DEF OffIsEmpty, DirtyOwed
  <2> QED
    BY RestRecords DEF AutoInit
<1>2. AutoInv /\ DisablesAlone /\ OffIsEmpty /\ DirtyOwed /\ [AutoNext]_vars =>
        OffIsEmpty' /\ DirtyOwed'
  <2> SUFFICES ASSUME AutoInv, DisablesAlone, OffIsEmpty, DirtyOwed, [AutoNext]_vars
               PROVE  OffIsEmpty' /\ DirtyOwed'
    OBVIOUS
  <2>1. CASE AutoNext
    BY <2>1, OffStep, DirtyStep
  <2>2. CASE UNCHANGED vars
    BY <2>2 DEF vars, scansVars, autoVars, dirVars, OffIsEmpty, DirtyOwed, Holding
  <2> QED
    BY <2>1, <2>2
<1>3. AutoInv /\ DirtyOwed => DirtyIsScheduled
  BY DEF AutoInv, BatchShape, DirtyOwed, DirtyIsScheduled
<1> QED
  BY <1>1, <1>2, <1>3, AutoInvariant, PTL DEF AutoSpec

-----------------------------------------------------------------------------
(* The running row that no goroutine will close.                           *)

\* A start commits its row and goes no further: its request ends, or reading
\* the new row fails.
StartLeaves ==
  scanRow = "none" /\ scanRow' # "none"
    /\ batch'.pc # "opened" /\ \A c \in Callers : caller'[c].pc # "opened"

\* The store fails when the run closes its row.
RowStays == run.pc = "finishing" /\ run'.pc = "closing" /\ scanRow' = scanRow

\* A start enters beside a run that has closed its row and has yet to end.
EntersTooEarly ==
  run.pc = "closing" /\ run' = run
    /\ \/ batch.pc = "opened" /\ batch'.pc # "opened"
       \/ \E c \in Callers : caller[c].pc = "opened" /\ caller'[c].pc # "opened"

Strands == StartLeaves \/ RowStays \/ EntersTooEarly

\* What a start that is on its way with the row can do: enter.
LEMMA CallerEnters ==
  ASSUME AutoTypeOK, AutoNext, ~Restart,
         NEW c \in Callers, CallerOwns(c), ~CallerOwns(c)'
  PROVE  EnterScan(c)
<1>1. caller[c].pc = "opened" /\ caller'[c].pc # "opened"
  BY DEF CallerOwns
<1>2. ~FinishScan
  BY <1>1, EndRunEffect DEF FinishScan
<1>3. ASSUME NEW b \in Callers, NEW request \in Requests, Ask(b, request) PROVE FALSE
  <2>1. b # c /\ Supersede(b, request, 1) /\ 1 \in 1..Attempts
    BY <1>1, <1>3, ScansAssumption DEF Ask
  <2> QED
    BY <1>1, <2>1, SupersedeEffect
<1>4. ASSUME NEW b \in Callers, Retry(b) \/ GiveUp(b) \/ OpenScan(b) \/ CheckRefusal(b)
      PROVE  FALSE
  <2>1. b # c
    BY <1>1, <1>4 DEF Retry, GiveUp, OpenScan, CheckRefusal
  <2>2. caller[b].request \in Requests /\ caller[b].attempt \in 1..Attempts
    BY AutoNow DEF CallerStates
  <2> QED
    BY <1>1, <1>4, <2>1, <2>2, SupersedeEffect, LeaveEffect, OpenScanEffect, AgainEffect
    DEF Retry, GiveUp, CheckRefusal
<1>5. PICK b \in Callers : EnterScan(b)
  BY <1>1, <1>2, <1>3, <1>4, CallerMoves
<1>6. b = c
  BY <1>1, <1>5, LeaveEffect DEF EnterScan, Enter
<1> QED
  BY <1>5, <1>6

\* And what the batch with the row can do: the same.
LEMMA BatchEnters ==
  ASSUME AutoTypeOK, AutoNext, ~Restart, BatchOwns, ~BatchOwns'
  PROVE  EnterWatchScan
<1>1. batch.pc = "opened" /\ batch' # batch
  BY DEF BatchOwns
<1>2. ~Fire /\ ~Settle /\ ~Start /\ ~OpenWatchScan /\ ~NotStarted /\ ~EndBatch
  BY <1>1, FireEffect DEF Settle, Start, OpenWatchScan, NotStarted, EndBatch
<1>3. ~FinishScan
  BY FinishEffect DEF BatchOwns
<1> QED
  BY <1>1, <1>2, <1>3, BatchMoves

\* A step after which the row has no run, though it had one.
LEMMA StrandingSteps ==
  ASSUME AutoTypeOK, OneOwner, AutoNext, RunningRowHasRun, ~RunningRowHasRun'
  PROVE  Strands
<1>1. /\ scanRow' # "none" /\ ~RunOwns' /\ ~BatchOwns' /\ \A c \in Callers : ~CallerOwns(c)'
  BY DEF RunningRowHasRun, RunOwns, BatchOwns, CallerOwns
<1>2. CASE scanRow = "none"
  BY <1>1, <1>2 DEF Strands, StartLeaves, BatchOwns, CallerOwns
<1>3. ~Restart
  <2>1. ASSUME scanRow \in {"full", "part"}, run' = Begun(scanRow, ToRead(scanRow)) PROVE FALSE
    <3>1. scanRow \in Kinds /\ ToRead(scanRow) \in SUBSET Dirs
      BY <2>1 DEF Kinds, ToRead
    <3> QED
      BY <1>1, <2>1, <3>1, BegunEffect DEF RunOwns
  <2> QED
    BY <1>1, <2>1 DEF Restart, Recover
<1>4. CASE RunOwns
  <2>1. ~FinishScan
    BY <1>4, FinishEffect DEF RunOwns
  <2>2. FinishRow
    BY <1>1, <1>3, <1>4, <2>1, RunChanges, ReadEffect, StopEffect DEF RunOwns
  <2> QED
    BY <1>1, <2>2, FinishRowEffect DEF Strands, RowStays
<1>5. CASE BatchOwns
  <2>1. EnterWatchScan
    BY <1>1, <1>3, <1>5, BatchEnters
  <2>2. run' = run /\ run.pc # "none"
    BY <1>1, <2>1, EnterWatchEffect DEF RunOwns
  <2>3. run.pc = "closing"
    BY <1>1, <2>2, AutoNow DEF RunStates, RunOwns
  <2> QED
    BY <1>1, <1>5, <2>2, <2>3 DEF Strands, EntersTooEarly, BatchOwns
<1>6. ASSUME NEW c \in Callers, CallerOwns(c) PROVE Strands
  <2> DEFINE kind == KindOf(caller[c].request)
  <2>1. run' = IF run.pc # "none" THEN run ELSE Begun(kind, ToRead(kind))
    BY <1>1, <1>3, <1>6, CallerEnters DEF EnterScan, Enter
  <2>2. kind \in Kinds /\ ToRead(kind) \in SUBSET Dirs
    BY DEF KindOf, Kinds, ToRead
  <2> HIDE DEF kind
  <2>3. run' = run /\ run.pc # "none"
    BY <1>1, <2>1, <2>2, BegunEffect DEF RunOwns
  <2>4. run.pc = "closing"
    BY <1>1, <2>3, AutoNow DEF RunStates, RunOwns
  <2> QED
    BY <1>1, <1>6, <2>3, <2>4 DEF Strands, EntersTooEarly, CallerOwns
<1> QED
  BY <1>2, <1>4, <1>5, <1>6 DEF RunningRowHasRun, RunOwns, BatchOwns, CallerOwns

\* scans.go:158 and store/scans.go: in three ways only does a running row lose
\* the goroutine that will close it: a start commits its row and goes no
\* further, the store fails to close the row, or a start enters while the run
\* before it has closed its row and has yet to end.
THEOREM OnlyTheseStrand ==
  AutoSpec => [][RunningRowHasRun /\ ~RunningRowHasRun' => Strands]_vars
<1>1. AutoInv /\ [AutoNext]_vars => [RunningRowHasRun /\ ~RunningRowHasRun' => Strands]_vars
  BY StrandingSteps DEF AutoInv
<1> QED
  BY <1>1, AutoInvariant, PTL DEF AutoSpec

\* scans.go:158, as the run that refutes it would have it: where none of the
\* three happens, no scan is left running without its goroutine.
THEOREM ScansGoOn == AutoSpec /\ [][~Strands]_vars => []RunningRowHasRun
<1>1. AutoInit => RunningRowHasRun
  BY DEF AutoInit, ScansInit, RunningRowHasRun
<1>2. AutoInv /\ RunningRowHasRun /\ [AutoNext]_vars /\ [~Strands]_vars => RunningRowHasRun'
  <2>1. CASE UNCHANGED vars
    BY <2>1 DEF vars, scansVars, autoVars, dirVars, RunningRowHasRun
  <2> QED
    BY <2>1, StrandingSteps DEF AutoInv
<1> QED
  BY <1>1, <1>2, AutoInvariant, PTL DEF AutoSpec

\* RecoverInterrupted (scans.go): once a row is stranded nothing but the next
\* process closes it, and until then every start finds it running.
THEOREM StrandedUntilRestart ==
  AutoSpec => [][~RunningRowHasRun /\ RunningRowHasRun' => Restart]_vars
<1>1. AutoInv /\ [AutoNext]_vars => [~RunningRowHasRun /\ RunningRowHasRun' => Restart]_vars
  BY StuckStays DEF AutoInv
<1> QED
  BY <1>1, AutoInvariant, PTL DEF AutoSpec
=============================================================================
