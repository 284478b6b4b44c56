----------------------------- MODULE Scheduler -----------------------------
(***************************************************************************)
(* The job scheduler, internal/jobs/scheduler.go and loop.go, composed     *)
(* with its slots (Capacity) and its media folders (Roots).                *)
(*                                                                         *)
(* One loop goroutine takes turns: it refreshes the folders, reads the due *)
(* kinds, serves the classes in order, visits the disks in turn and claims *)
(* one job per visit; then it sleeps until a wake-up or a timer.  A        *)
(* granted job runs on a goroutine of its own, which records its outcome,  *)
(* returns its slots and calls Wake.  Everything else that returns slots   *)
(* calls Wake too; the call is a step of its own (owed, then wake).        *)
(*                                                                         *)
(* The queue is what the scheduler sees of the jobs table; a row has one   *)
(* location here (ImportJobs models rows with several).                    *)
(***************************************************************************)
EXTENDS Capacity, Sequences, SequencesExt

CONSTANTS
  Folders, Paths, NoPath, DiskAt,   \* as in Roots
  Rows, NoRow,      \* rows of the jobs table
  KindOf,           \* kind of each row
  FolderOf,         \* media folder of each row's location
  ClassOf,          \* priority class of each row, 0 is the most urgent
  LastClass,        \* the least urgent class
  DiskOrder,        \* the disks in key order
  KindOrder,        \* ScheduledJobKinds
  ShareStates,      \* what the shares may turn into
  RetryStates,      \* what a counted failure may leave a row in
  Faults            \* bound: which of "store" and "pause" happen

VARIABLES
  folderPath, share, known, resolvers, recheck, minuteUp, refresh, owed, \* Roots
  wake,             \* the token in Loop.wake
  loop,             \* where the loop is in its turn
  nextGroup, nextKind,
  row,              \* state of each row: "stranded" is running with nobody left to end it
  proc,             \* what each job goroutine is doing
  paused,           \* kinds whose feature is off
  strayClaims       \* claims under each folder since it became unavailable, up to 2

R == INSTANCE Roots

rootVars == <<folderPath, share, known, resolvers, recheck, minuteUp, refresh, owed>>
schedVars == <<capVars, rootVars, wake, loop, nextGroup, nextKind, row, proc, paused, strayClaims>>
turnVars == <<wake, loop, nextGroup, nextKind>>
queueVars == <<row, proc, paused, strayClaims>>

ASSUME SchedulerConstants ==
  /\ NoPath \notin Paths /\ DiskAt \in [Paths -> Disks]
  /\ NoRow \notin Rows
  /\ KindOf \in [Rows -> Kinds] /\ FolderOf \in [Rows -> Folders]
  /\ LastClass \in Nat /\ ClassOf \in [Rows -> 0..LastClass]
  /\ ShareStates \subseteq {"readable", "unreadable", "silent"}
  /\ RetryStates \subseteq {"queued", "delayed", "failed"} /\ RetryStates # {}
  /\ DiskOrder \in Seq(Disks) /\ Disks = ToSet(DiskOrder)
  /\ KindOrder \in Seq(Kinds) /\ Kinds = ToSet(KindOrder)
  /\ Faults \subseteq {"store", "pause"}

NoClass == LastClass + 1
FreeProc == [row |-> NoRow, phase |-> "free", outcome |-> "none"]

\* A turn before it knows anything.
Turn(pc, timer) ==
  [pc |-> pc, timer |-> timer, since |-> {}, groups |-> <<>>, due |-> [k \in Kinds |-> NoClass],
   paused |-> {}, empty |-> {}, class |-> 0, idle |-> 0, disk |-> NoDisk, left |-> {}, kind |-> NoKind,
   avoid |-> {}]

SchedInit ==
  /\ CapInit
  /\ R!RootsInit
  /\ NoPath \notin {folderPath[f] : f \in Folders}
  /\ wake = FALSE
  /\ loop = Turn("prepare", {})
  /\ nextGroup = 0 /\ nextKind = [d \in AllDisks |-> 0]
  /\ row \in [Rows -> {"absent", "queued", "delayed"}]
  /\ proc = [j \in JobIds |-> FreeProc]
  /\ paused = {}
  /\ strayClaims = [f \in Folders |-> 0]

-----------------------------------------------------------------------------
(* Loop.                                                                   *)

Sleep(timer) == loop' = Turn("asleep", timer)

\* A step that cannot read the database waits out WorkerRetry.
StepFails ==
  /\ "store" \in Faults
  /\ loop.pc \in {"prepare", "due", "until"} /\ refresh = "idle"
  /\ Sleep({"retry"})
  /\ UNCHANGED <<capVars, rootVars, wake, nextGroup, nextKind, queueVars>>

BeginStep ==
  /\ loop.pc = "prepare" /\ refresh = "idle"
  /\ R!BeginRefresh
  /\ loop' = [loop EXCEPT !.since = {r \in Rows : row[r] = "delayed"}]
  /\ UNCHANGED <<capVars, wake, nextGroup, nextKind, queueVars>>

AwaitFolders ==
  /\ R!EndRefresh \/ R!ParkUnanswered
  /\ UNCHANGED <<capVars, turnVars, queueVars>>

FoldersOn(d) == {f \in R!Available : known[f].disk = d}

Serving == {d \in Disks : FoldersOn(d) # {}}

IndexIn(x, seq) == CHOOSE i \in DOMAIN seq : seq[i] = x
InKeyOrder(ds) ==
  \A a, b \in DOMAIN ds : a < b => IndexIn(ds[a], DiskOrder) < IndexIn(ds[b], DiskOrder)

\* snapshot and setDisks: the disks with an available folder, in key order,
\* then the kinds that read no source file.
TakeSnapshot ==
  /\ loop.pc = "prepare"
  /\ R!EndTurn
  /\ SetDisks(Serving)
  /\ \E ds \in Bijection(1..Cardinality(Serving), Serving) :
       /\ InKeyOrder(ds)
       /\ loop' = [loop EXCEPT !.pc = "due",
            !.groups = Append([i \in DOMAIN ds |-> [disk |-> ds[i], folders |-> FoldersOn(ds[i])]],
                              [disk |-> NoDisk, folders |-> {}])]
  /\ UNCHANGED <<wake, nextGroup, nextKind, queueVars>>

Least(S) == IF S = {} THEN NoClass ELSE Min(S)

\* DueJobKinds and the paused kinds.
ReadDue ==
  /\ loop.pc = "due"
  /\ loop' = [loop EXCEPT !.pc = "visit", !.paused = paused,
       !.due = [k \in Kinds |-> Least({ClassOf[r] : r \in {q \in Rows : row[q] = "queued" /\ KindOf[q] = k}})]]
  /\ UNCHANGED <<capVars, rootVars, wake, nextGroup, nextKind, queueVars>>

-----------------------------------------------------------------------------
(* grantClass and grantIn.                                                 *)

ReadsSource(k) == Demand[k].read > 0
KindsOn(d) == SelectSeq(KindOrder, LAMBDA k : ReadsSource(k) <=> d # NoDisk)

\* The kinds of the disk without those that have no due job of this class, were
\* found empty or are paused.
KindsToTry(d) ==
  {k \in Kinds : /\ ReadsSource(k) <=> d # NoDisk
                 /\ loop.due[k] <= loop.class
                 /\ <<d, k>> \notin loop.empty
                 /\ k \notin loop.paused}

\* A visit tries its kinds in turn from the one after the last granted on.
TurnOf(k) ==
  (IndexIn(k, KindsOn(loop.disk)) - 1 - nextKind[loop.disk]) % Len(KindsOn(loop.disk))
NextToTry(k) == k \in loop.left /\ \A q \in loop.left : TurnOf(k) <= TurnOf(q)

VisitDisk ==
  /\ loop.pc = "visit" /\ loop.idle < Len(loop.groups)
  /\ LET at == nextGroup % Len(loop.groups)
         d == loop.groups[at + 1].disk
     IN  /\ nextGroup' = (at + 1) % Len(loop.groups)
         /\ loop' = [loop EXCEPT !.pc = "kind", !.disk = d, !.left = KindsToTry(d)]
  /\ UNCHANGED <<capVars, rootVars, wake, nextKind, queueVars>>

\* Mutant: the loop over the classes runs once too often.
EndClassOneMore ==
  /\ loop.pc = "visit" /\ loop.idle = Len(loop.groups)
  /\ loop' = [loop EXCEPT !.pc = IF loop.class > LastClass THEN "until" ELSE "visit",
                          !.class = @ + 1, !.idle = 0, !.empty = {}]
  /\ UNCHANGED <<capVars, rootVars, wake, nextGroup, nextKind, queueVars>>

\* A full turn over the disks granted nothing.
EndClass ==
  /\ loop.pc = "visit" /\ loop.idle = Len(loop.groups)
  /\ loop' = [loop EXCEPT !.pc = IF loop.class = LastClass THEN "until" ELSE "visit",
                          !.class = IF loop.class = LastClass THEN 0 ELSE @ + 1,
                          !.idle = 0, !.empty = {}]
  /\ UNCHANGED <<capVars, rootVars, wake, nextGroup, nextKind, queueVars>>

EndVisit ==
  /\ loop.pc = "kind" /\ loop.left = {}
  /\ loop' = [loop EXCEPT !.pc = "visit", !.idle = @ + 1, !.disk = NoDisk]
  /\ UNCHANGED <<capVars, rootVars, wake, nextGroup, nextKind, queueVars>>

SkipKind ==
  /\ loop.pc = "kind"
  /\ \E k \in loop.left :
       /\ NextToTry(k) /\ ~CanReserveJob(loop.disk, k)
       /\ loop' = [loop EXCEPT !.left = @ \ {k}]
  /\ UNCHANGED <<capVars, rootVars, wake, nextGroup, nextKind, queueVars>>

\* Mutant: the unavailable folders are those of the turn's start.
ReserveKindFromSnapshot(j) ==
  /\ loop.pc = "kind" /\ proc[j].phase = "free"
  /\ \E k \in loop.left :
       /\ NextToTry(k)
       /\ ReserveJob(j, loop.disk, k)
       /\ loop' = [loop EXCEPT !.pc = "claim", !.kind = k,
            !.avoid = Folders \ UNION {loop.groups[i].folders : i \in DOMAIN loop.groups}]
  /\ proc' = [proc EXCEPT ![j].phase = "reserved"]
  /\ UNCHANGED <<rootVars, wake, nextGroup, nextKind, row, paused, strayClaims>>

\* The slots are taken before the claim, which reads the folders that are
\* unavailable now.
ReserveKind(j) ==
  /\ loop.pc = "kind" /\ proc[j].phase = "free"
  /\ \E k \in loop.left :
       /\ NextToTry(k)
       /\ ReserveJob(j, loop.disk, k)
       /\ loop' = [loop EXCEPT !.pc = "claim", !.kind = k, !.avoid = R!Unavailable]
  /\ proc' = [proc EXCEPT ![j].phase = "reserved"]
  /\ UNCHANGED <<rootVars, wake, nextGroup, nextKind, row, paused, strayClaims>>

GroupFolders == UNION {loop.groups[i].folders : i \in {n \in DOMAIN loop.groups : loop.groups[n].disk = loop.disk}}

\* Mutant: the claim does not look at the state of the row.
ClaimableAnyState ==
  {r \in Rows : /\ row[r] \in {"queued", "running"} /\ KindOf[r] = loop.kind
                /\ ClassOf[r] <= loop.class
                /\ loop.disk # NoDisk => FolderOf[r] \in GroupFolders \ loop.avoid}

\* What ClaimJobOn may take for the loop's claim.
Claimable ==
  {r \in Rows : /\ row[r] = "queued" /\ KindOf[r] = loop.kind
                /\ ClassOf[r] <= loop.class
                /\ loop.disk # NoDisk => FolderOf[r] \in GroupFolders \ loop.avoid}

MostUrgent(rs) == {r \in rs : \A q \in rs : ClassOf[r] <= ClassOf[q]}

Claim(j) ==
  /\ loop.pc = "claim" /\ proc[j].phase = "reserved"
  /\ \E r \in MostUrgent(Claimable) :
       /\ row' = [row EXCEPT ![r] = "running"]
       /\ proc' = [proc EXCEPT ![j] = [row |-> r, phase |-> "handling", outcome |-> "none"]]
       /\ strayClaims' = [strayClaims EXCEPT ![FolderOf[r]] =
            IF FolderOf[r] \in R!Unavailable /\ loop.disk # NoDisk /\ @ < 2 THEN @ + 1 ELSE @]
  /\ nextKind' = [nextKind EXCEPT ![loop.disk] =
       IndexIn(loop.kind, KindsOn(loop.disk)) % Len(KindsOn(loop.disk))]
  /\ loop' = [loop EXCEPT !.pc = "visit", !.idle = 0, !.disk = NoDisk, !.left = {},
                          !.kind = NoKind, !.avoid = {}]
  /\ UNCHANGED <<capVars, rootVars, wake, nextGroup, paused>>

\* ErrNoJob: the slots go back without a Wake, and the visit goes on.
ClaimNothing(j) ==
  /\ loop.pc = "claim" /\ proc[j].phase = "reserved"
  /\ Claimable = {}
  /\ ReleaseJob(j)
  /\ proc' = [proc EXCEPT ![j] = FreeProc]
  /\ loop' = [loop EXCEPT !.pc = "kind", !.kind = NoKind, !.avoid = {},
                          !.left = @ \ {loop.kind},
                          !.empty = @ \cup {<<loop.disk, loop.kind>>}]
  /\ UNCHANGED <<rootVars, wake, nextGroup, nextKind, row, paused, strayClaims>>

ClaimFails(j) ==
  /\ "store" \in Faults
  /\ loop.pc = "claim" /\ proc[j].phase = "reserved"
  /\ ReleaseJob(j)
  /\ proc' = [proc EXCEPT ![j] = FreeProc]
  /\ Sleep({"retry"})
  /\ UNCHANGED <<rootVars, wake, nextGroup, nextKind, row, paused, strayClaims>>

-----------------------------------------------------------------------------
(* untilNextCheck and Loop.wait.                                           *)

\* Mutant: the lookup starts when the turn ends.
EndTurnFromNow ==
  /\ loop.pc = "until"
  /\ Sleep((IF \E r \in Rows : row[r] = "delayed" THEN {"due"} ELSE {})
           \cup (IF R!Unavailable # {} THEN {"recheck"} ELSE {}))
  /\ UNCHANGED <<capVars, rootVars, wake, nextGroup, nextKind, queueVars>>

\* A row that was waiting when the turn began and is due by now is found too,
\* and the loop steps again at once.
EndTurn ==
  /\ loop.pc = "until"
  /\ IF \E r \in loop.since : row[r] = "queued"
     THEN loop' = Turn("prepare", {})
     ELSE Sleep((IF \E r \in Rows : row[r] = "delayed" THEN {"due"} ELSE {})
                \cup (IF R!Unavailable # {} THEN {"recheck"} ELSE {}))
  /\ UNCHANGED <<capVars, rootVars, wake, nextGroup, nextKind, queueVars>>

WakeUp ==
  /\ loop.pc = "asleep" /\ wake
  /\ wake' = FALSE
  /\ loop' = Turn("prepare", {})
  /\ UNCHANGED <<capVars, rootVars, nextGroup, nextKind, queueVars>>

\* The recheck's timer fires once its minute is over.
TimerFires ==
  /\ loop.pc = "asleep"
  /\ \/ loop.timer \cap {"retry", "fired"} # {}
     \/ "recheck" \in loop.timer /\ (minuteUp \/ R!Unavailable = {})
  /\ loop' = Turn("prepare", {})
  /\ UNCHANGED <<capVars, rootVars, wake, nextGroup, nextKind, queueVars>>

CallWake ==
  /\ R!CallWake
  /\ wake' = TRUE
  /\ UNCHANGED <<capVars, loop, nextGroup, nextKind, queueVars>>

-----------------------------------------------------------------------------
(* process, on the job's goroutine.                                        *)

Moves(j, phase, outcome) ==
  /\ proc' = [proc EXCEPT ![j].phase = phase, ![j].outcome = outcome]
  /\ UNCHANGED <<capVars, turnVars, row, paused, strayClaims>>

\* A split job has its parts back before its handler returns.  A failure of a
\* job that reads its source is checked against its folder, one the handler
\* snoozed itself is not.
HandlerReturns(j) ==
  /\ proc[j].phase = "handling" /\ job[j].lent = 0
  /\ \/ Moves(j, "recording", "ok")
     \/ Moves(j, "recording", "snooze")
     \/ Moves(j, IF ReadsSource(job[j].kind) THEN "checking" ELSE "recording", "error")
  /\ UNCHANGED rootVars

\* rootReadable; a folder the scheduler does not know is not checked, and one
\* that does not answer in time counts as unreadable.
CheckFolder(j) ==
  LET f == FolderOf[proc[j].row] IN
  /\ proc[j].phase = "checking"
  /\ IF f \in R!Known /\ share[known[f].path] # "readable"
     THEN Moves(j, "parking", "snooze")
     ELSE Moves(j, "recording", "error")
  /\ UNCHANGED rootVars

Park(j) ==
  /\ proc[j].phase = "parking"
  /\ R!MarkUnavailable(FolderOf[proc[j].row])
  /\ Moves(j, "recording", proc[j].outcome)

Outcomes(outcome) ==
  CASE outcome = "ok" -> {"done"}
    [] outcome = "snooze" -> {"queued"}
    [] outcome = "error" -> RetryStates

\* CompleteClaimedJob and FailClaimedJob.
Record(j) ==
  /\ proc[j].phase = "recording"
  /\ \E s \in Outcomes(proc[j].outcome) : row' = [row EXCEPT ![proc[j].row] = s]
  /\ proc' = [proc EXCEPT ![j] = [FreeProc EXCEPT !.phase = "ended"]]
  /\ UNCHANGED <<capVars, rootVars, turnVars, paused, strayClaims>>

\* The store fails: the row stays running until the next start requeues it.
RecordFails(j) ==
  /\ "store" \in Faults
  /\ proc[j].phase = "recording"
  /\ row' = [row EXCEPT ![proc[j].row] = "stranded"]
  /\ proc' = [proc EXCEPT ![j] = [FreeProc EXCEPT !.phase = "ended"]]
  /\ UNCHANGED <<capVars, rootVars, turnVars, paused, strayClaims>>

FinishJob(j) ==
  /\ proc[j].phase = "ended"
  /\ ReleaseJob(j)
  /\ proc' = [proc EXCEPT ![j] = FreeProc]
  /\ owed' = TRUE
  /\ UNCHANGED <<folderPath, share, known, resolvers, recheck, minuteUp, refresh,
                 turnVars, row, paused, strayClaims>>

-----------------------------------------------------------------------------
(* Everything else that takes slots; each return of a slot calls Wake.     *)

OweWake == owed' = TRUE /\ UNCHANGED <<folderPath, share, known, resolvers, recheck, minuteUp, refresh>>

BorrowPart(j) ==
  /\ proc[j].phase = "handling"
  /\ \E part \in LentDemands : TryAcquire(j, part)
  /\ UNCHANGED <<rootVars, turnVars, queueVars>>

ReturnPart(j) == ReleaseLent(j) /\ OweWake /\ UNCHANGED <<turnVars, queueVars>>

ScanSteps(r) ==
  \/ \E d \in Disks : AcquireScanRead(r, d) \/ KeepScanAhead(r, d)
  \/ RetryScanRead(r)

ScanReads(r) == ScanSteps(r) /\ UNCHANGED <<rootVars, turnVars, queueVars>>

\* Mutant: a scan read that gives up wakes nobody.
ScanReturnsUnlessCancelled(r) ==
  /\ \/ (ReleaseScanRead(r) \/ EndScanAhead(r)) /\ OweWake
     \/ CancelScanRead(r) /\ UNCHANGED rootVars
  /\ UNCHANGED <<turnVars, queueVars>>

ScanReturns(r) ==
  /\ CancelScanRead(r) \/ ReleaseScanRead(r) \/ EndScanAhead(r)
  /\ OweWake
  /\ UNCHANGED <<turnVars, queueVars>>

\* A stream under a folder whose disk is known.
OpenStream(v) ==
  /\ \E f \in R!Known : known[f].disk # NoDisk /\ HoldForeground(v, known[f].disk)
  /\ UNCHANGED <<rootVars, turnVars, queueVars>>

CloseStream(v) == ReleaseForeground(v) /\ OweWake /\ UNCHANGED <<turnVars, queueVars>>

-----------------------------------------------------------------------------
(* The queue's other writers, the folders and time.                        *)

\* A committed enqueue; its event wakes the scheduler.
Enqueue(r) ==
  /\ row[r] = "absent"
  /\ row' = [row EXCEPT ![r] = "queued"]
  /\ OweWake
  /\ UNCHANGED <<capVars, turnVars, proc, paused, strayClaims>>

SetPaused(ks) ==
  /\ "pause" \in Faults
  /\ ks # paused
  /\ paused' = ks
  /\ IF paused \subseteq ks THEN UNCHANGED rootVars ELSE OweWake
  /\ UNCHANGED <<capVars, turnVars, row, proc, strayClaims>>

\* A retry delay ends; a loop that sleeps until then steps.
BecomesDue(r) ==
  /\ row[r] = "delayed"
  /\ row' = [row EXCEPT ![r] = "queued"]
  /\ loop' = IF loop.pc = "asleep" /\ "due" \in loop.timer
             THEN [loop EXCEPT !.timer = @ \cup {"fired"}] ELSE loop
  /\ UNCHANGED <<capVars, rootVars, wake, nextGroup, nextKind, proc, paused, strayClaims>>

FolderSteps ==
  /\ \/ \E p \in Paths, s \in ShareStates : R!ShareTurns(p, s)
     \/ R!MinutePasses
     \/ R!RequestRecheck
  /\ UNCHANGED <<capVars, turnVars, queueVars>>

FolderReads(r) == R!ResolverReads(r) /\ UNCHANGED <<capVars, turnVars, queueVars>>

FolderAnswers(r) ==
  /\ R!ResolverAnswers(r)
  /\ strayClaims' = [f \in Folders |-> IF f \in R!Unavailable' THEN strayClaims[f] ELSE 0]
  /\ UNCHANGED <<capVars, turnVars, row, proc, paused>>

-----------------------------------------------------------------------------
LoopStep ==
  \/ StepFails \/ BeginStep \/ AwaitFolders \/ TakeSnapshot \/ ReadDue
  \/ VisitDisk \/ EndClass \/ EndVisit \/ SkipKind
  \/ \E j \in JobIds : ReserveKind(j) \/ Claim(j) \/ ClaimNothing(j) \/ ClaimFails(j)
  \/ EndTurn \/ WakeUp \/ TimerFires

JobStep(j) ==
  \/ HandlerReturns(j) \/ CheckFolder(j) \/ Park(j) \/ Record(j) \/ RecordFails(j)
  \/ FinishJob(j) \/ ReturnPart(j)

SchedNext ==
  \/ LoopStep
  \/ CallWake
  \/ \E j \in JobIds : JobStep(j) \/ BorrowPart(j)
  \/ \E r \in Readers : ScanReads(r) \/ ScanReturns(r)
  \/ \E v \in Viewers : OpenStream(v) \/ CloseStream(v)
  \/ \E r \in Rows : Enqueue(r) \/ BecomesDue(r)
  \/ \E ks \in SUBSET Kinds : SetPaused(ks)
  \/ FolderSteps
  \/ \E r \in resolvers : FolderReads(r) \/ FolderAnswers(r)

SchedSpec == SchedInit /\ [][SchedNext]_schedVars

Succeeds(j) == HandlerReturns(j) /\ proc'[j].outcome = "ok"

\* The loop and the goroutines of jobs, resolutions and wake-ups run, and a job
\* that runs again and again succeeds; a scan need not end and a stream need
\* not close.
SchedFairness ==
  /\ WF_schedVars(LoopStep) /\ WF_schedVars(CallWake)
  /\ WF_schedVars(R!MinutePasses /\ FolderSteps)
  /\ \A r \in R!Resolvers : WF_schedVars(FolderReads(r)) /\ WF_schedVars(FolderAnswers(r))
  /\ \A j \in JobIds : WF_schedVars(JobStep(j)) /\ SF_schedVars(Succeeds(j))
  /\ \A r \in Rows : WF_schedVars(BecomesDue(r))

SchedFairSpec == SchedSpec /\ SchedFairness

-----------------------------------------------------------------------------
(* Properties.                                                             *)

Turns ==
  [pc : {"prepare", "due", "visit", "kind", "claim", "until", "asleep"},
   timer : SUBSET {"due", "recheck", "retry", "fired"}, since : SUBSET Rows,
   groups : Seq([disk : AllDisks, folders : SUBSET Folders]),
   due : [Kinds -> 0..NoClass], paused : SUBSET Kinds, empty : SUBSET (AllDisks \X Kinds),
   class : 0..LastClass, idle : Nat, disk : AllDisks, left : SUBSET Kinds,
   kind : Kinds \cup {NoKind}, avoid : SUBSET Folders]

Procs ==
  [row : Rows \cup {NoRow},
   phase : {"free", "reserved", "handling", "checking", "parking", "recording", "ended"},
   outcome : {"none", "ok", "snooze", "error"}]

SchedTypeOK ==
  /\ CapTypeOK /\ R!RootsTypeOK
  /\ wake \in BOOLEAN
  /\ loop \in Turns /\ loop.idle <= Len(loop.groups)
  /\ nextGroup \in Nat
  /\ row \in [Rows -> {"absent", "queued", "delayed", "running", "stranded", "done", "failed"}]
  /\ proc \in [JobIds -> Procs]
  /\ paused \subseteq Kinds
  /\ strayClaims \in [Folders -> 0..2]

\* Each running row has exactly one goroutine that will record its outcome, and
\* no goroutine works on a row that is not running, across claims, failures,
\* store errors and restarts.
RowsRunOnce ==
  \A r \in Rows :
    Cardinality({j \in JobIds : proc[j].row = r}) = IF row[r] = "running" THEN 1 ELSE 0

\* The loop sleeps, nothing is about to wake it, and no timer has run out.
Resting ==
  /\ loop.pc = "asleep" /\ ~wake /\ ~owed
  /\ \A j \in JobIds : proc[j].phase # "ended"
  /\ loop.timer \cap {"retry", "fired"} = {}
  /\ ~("recheck" \in loop.timer /\ minuteUp)

DiskOfRow(r) == IF ReadsSource(KindOf[r]) THEN known[FolderOf[r]].disk ELSE NoDisk

Runnable(r) ==
  /\ row[r] = "queued" /\ KindOf[r] \notin paused
  /\ ReadsSource(KindOf[r]) => FolderOf[r] \in R!Available
  /\ CanReserveJob(DiskOfRow(r), KindOf[r])

\* The loop never sleeps through work: when it rests, a due job of a feature
\* that is on and of a readable folder lacks slots, or a scan read that took its
\* slot after the job was refused is under way and wakes the loop when it ends.
NoSleepThroughWork ==
  Resting => \A r \in Rows : Runnable(r) => ReadersIn("reading", DiskOfRow(r)) # {}

\* "A claim reads them when it is made rather than at the start of the turn,
\* because a job that snoozes mid-turn parks its folder and is requeued at
\* once": at most one claim, the one under way when the folder is parked, still
\* takes a job under a folder before the folder is resolved again.
ParkedClaimedOnce == \A f \in Folders : strayClaims[f] <= 1

\* "step serves the classes strictly in order": a job of a class is not started
\* while a job of a more urgent class, due since the turn read the due kinds,
\* with the same demand on the same folder, waits for that slot.
ClassesInOrder ==
  [][\A r, q \in Rows :
       /\ row[r] = "queued" /\ row'[r] = "running" /\ row[q] = "queued"
       /\ loop.due[KindOf[q]] <= ClassOf[q] /\ ClassOf[q] < ClassOf[r]
       /\ Demand[KindOf[q]] = Demand[KindOf[r]] /\ FolderOf[q] = FolderOf[r]
       => \/ KindOf[q] \in loop.paused
          \/ running[KindOf[q]] = Concurrency[KindOf[q]]]_schedVars

\* No job waits forever: a queued row of a readable folder is claimed, whatever
\* disk, kind and class the other rows have.
QueuedRowRuns ==
  \A r \in Rows :
    row[r] = "queued" ~> row[r] # "queued" \/ share[folderPath[FolderOf[r]]] # "readable"

=============================================================================
