# A TLA+ model of VVMDM's background work

VVMDM (`src/`, the Go module `github.com/syudead/vv`) is a self-hosted video
library: one Go process, one SQLite database, a React front end.  Its own core
logic is what happens in the background while people watch videos: folders are
scanned, files become rows, each file goes through five stages (probe, thumbnail,
sprite sheets, preview, fingerprint) on a scheduler that shares disks, processor
slots and network shares between jobs, scans and streams; commits are announced
on an event bus; generated files are published and removed beside their readers;
and requests under way must end when what allows them is taken away.  This
directory models those parts, checks them with TLC and proves with TLAPS, for
every value of the constants, all that the passing runs check of their safety, and
of what the violated runs refute the part that holds.

## 1. Inventory

State, operations and neighbours of each component; "hard" names what a test
hardly reaches, "correct" what makes it right.

**Scheduler slots** (`internal/jobs/capacity.go`, `internal/domain/job_demand.go`).
State: slots in use per disk and per process, running jobs per kind, scan reads
waiting per disk, streams per disk, the channel that wakes scan reads.
Operations: `reserveJob`, `releaseJob`, `tryAcquire`/`releaseLent` for the parts
of a split job, `acquireScanRead`, `keepScanAhead`, `holdForeground`, `setDisks`.
Called by the scheduler, the media extractions, the scanner and the HTTP streams.
Hard: a slot returned between a look at the table and the wait for it; a wait
cancelled when its slot is granted; a priority of scans over jobs that must not
starve either.  Correct: limits hold, every slot is given back once, no wake-up
is lost, scans go first, a disk with a stream takes no new job.

**Media folder availability** (`internal/jobs/roots.go`).  State: per folder its
path, disk, whether it is unavailable, being resolved, late; the recheck request
and the time of the last check.  Operations: `refresh` with one goroutine per
folder and a timeout, `parkUnanswered`, `markUnavailable`, `recheck`.  Hard: an
answer that arrives after the turn gave up, or after the folder was moved; a
folder that comes back.  Correct: a turn serves only what was resolved for the
present path, late answers count and wake the scheduler, folders come back.

**Job scheduler** (`internal/jobs/scheduler.go`, `loop.go`).  State: the loop's
turn, the rotation over disks and kinds, the wake-up token, the timer; one
goroutine per granted job.  It reads folders, due kinds and paused features,
serves priority classes in order, visits disks in turn and claims one job per
visit.  Hard: everything above while the loop decides to sleep; claims against a
folder that was just parked; failures of the store.  Correct: it never sleeps
through work, each running row has one goroutine, every queued row is reached.

**Import jobs and stage results** (`internal/store/jobs.go`,
`ingest_results.go`, `internal/app/ingest.go`, `internal/domain/job*.go`).
State: one row per video and kind (state, attempts, force, class, location of
the attempt), the stage columns of the video, and a claim's copy of what it read.
Operations: enqueue, ensure, force, claim, complete, fail, snooze, restart, and
the stage results each handler applies.  Hard: a request that meets a running
row; files that move or vanish under a running job; the transaction of a result
and the transaction of the completion, with others between them.  Correct: a
stage that is not done has a job, a forced rebuild is not forgotten, a failure
is given up only after every location was tried, every import comes to rest.
The import activity log, thumbnail edits and the viewers' requests for missing
files (`internal/app/catalog.go`) act on the same rows.

**Scanner, scan runs and automatic import** (`internal/scanner`,
`internal/app/scans.go`, `auto_import.go`, `internal/store/scans.go`,
`internal/watcher`).  State: the one running row in
the database and the one run goroutine in memory, with its cancellation; the
dirty directories, the batch in flight, the timer, the holds, the arming
generation, the watch state and its problem.  Operations: manual scans and force rescans, which
supersede watch scans; the batch that settles and starts a watch scan; disabling
and folder changes, which hold the starts; re-arming; the reports of the watcher.
Hard: a row is opened and closed in transactions, the goroutine begins and ends
under a lock, with anything between; four mutexes; a batch whose start is refused
by a scan that is just ending; armings that fail or overtake each other; events lost.
Correct: a running row has a goroutine, no change is forgotten, nothing starts
while starts are held, the watches follow the setting.

**Event bus and process** (`internal/eventbus/bus.go`, `cmd/mdm/main.go`,
`events.go`).  State: the subscriptions, each with a queue, a signal channel and a
goroutine; the stage of startup and shutdown.  Commits publish events to
subscribers in order; `unsubscribe` drops a queue, `Close` drains it.  Shutdown
stops each part before those it feeds, and waits for requests and for the scan a
limited time.  Hard: a signal that finds the channel full; a batch appended to
one queue after the other beside their readers; a commit whose event meets a
closed bus.  Correct: one order of events for all; when an unsubscribe returns, no
call of its handler is active and none follows; no wake-up lost; the files of every
release removed before the database closes.

**Generated files** (`internal/artifacts`, `internal/app/artifacts.go`).  State:
builds and a pointer per artifact, the content's lock.  A forced rebuild writes
the next build, switches the pointer and removes the old one; the removal of a
content without videos takes everything.  Hard: readers without locks; a content
that goes and comes back; a crash between two renames, a rename or a removal that
fails halfway.  Correct: done means published, readers find what was published,
nothing is leaked.

**Faces** (`internal/app/face_recognizer.go`, `face_images.go`,
`internal/store/face_settings.go`, `face_images.go`, `subject_jobs.go`).  State:
the recognizer and its generation, vectors, results, the lane's jobs, the helper
process.  Hard: a switch of the recognizer, or of the whole feature, under a
running job; a video that leaves the library and returns.  Correct: nothing of another recognizer is stored, stale faces have
work, no helper outlives the feature.

**Answers under way** (`internal/httpapi/auth.go`, `visibility.go`, `peer.go`,
`api_tokens.go`).  State: the ledgers of tracked requests and the generation of
guests.  A request is registered before its credential is read; logouts, deleted
tokens, unpaired peers and videos made private abort what they find; a timer
looks again at what nobody aborts.  Hard: each of those between any two steps of
a request.  Correct: no answer runs on unallowed.

**Sign-in** (`internal/app/auth.go`, `login_throttle.go`, `internal/store/auth.go`).
State: the account, its sessions, the slots of password hashing, per source the
reservations and failures.  Hard: the account changes while a password is being
verified; the many ways an attempt ends; eviction of sources.  Correct: a session
stands for the password the account has; every attempt is counted once.

**Peer link** (`internal/app/pairing.go`, `pairing_connection.go`,
`internal/peer`, `internal/store/peer.go`).  State: the stored link, its connection
with loop, attempt, generation and shown state.  Operations: pair, unpair, change
the address, forward a request; a 401 revokes.  Hard: reports about an old
generation, loops of removed links, an owner who pairs again at once.  Correct: a
stored link is always tried again.

**Others**: content queues of tags and judgements, the assistant, the face
runtime, AI providers and plugins, HTTP API, ffmpeg and transcoding, playlists and
other owner data, desktop window, screens.  `PROJECT.json` lists each with its
status; section 8 says why they are not modelled.

How they interact: the scanner and the owner write rows through the store; each
commit publishes an event; the events of queued jobs call `Scheduler.Wake`, those
of released contents start a removal.  The scheduler takes slots, claims a row,
runs the handler of its kind on a goroutine of its own, records the outcome,
returns the slots and wakes itself.  Scans and streams take slots of the same
table.  A failed job whose folder cannot be read parks the folder, and the recheck
of a folder wakes the scheduler.

## 2. Modules

| Module | Models | EXTENDS / INSTANCE |
| --- | --- | --- |
| `Capacity` | the slot table and all who take slots | |
| `Roots` | folder resolution beside the loop's turns | |
| `Scheduler` | the loop, job goroutines, wake-ups | EXTENDS `Capacity`, INSTANCE `Roots` |
| `ImportJobs` | rows and stages of the import kinds | |
| `Scans` | the running scan: row, goroutine, requests | |
| `AutoImport` | batches of changed directories, holds, arming | EXTENDS `Scans` |
| `Broadcast` | what the bus promises, abstractly | |
| `EventBus` | queues, signals, goroutines, unsubscribe, close | INSTANCE `Broadcast` |
| `Shutdown` | start and end of the process, releases | EXTENDS `EventBus` |
| `Artifacts` | generation, rebuild, removal, readers | |
| `FaceLane` | face settings, the lane's jobs, the sweep | |
| `Responses` | answers under way and revocations | |
| `Logins` | attempts to sign in, changes of the account, throttle | |
| `Peering` | one link: loop, forwarded requests, owner | |
| `CapacityProofs`, `RootsProofs`, `ImportJobsProofs`, `AutoImportProofs` | the theorems of one part each | their modules, TLAPS |
| `SchedulerProofs` | the theorems of the scheduler, on those of its slots | EXTENDS `Scheduler`, `CapacityProofs` |
| `ShutdownProofs` | the theorems of the bus and of the process | EXTENDS `Shutdown`, TLAPS |
| `ServicesProofs` | those of `Artifacts`, `FaceLane` and their instance | EXTENDS `MCServices`, `ShutdownProofs` |
| `AdmissionProofs` | those of `Responses`, `Logins`, `Peering` and their instance | EXTENDS `MCAdmission`, `CapacityProofs` |
| `MCRoots`, `MCScheduler`, `MCSchedulerSafe`, `MCImportJobs`, `MCAutoImport` | instances for TLC | |
| `MCServices` | an instance for TLC of `Shutdown`, `Artifacts`, `FaceLane` | |
| `MCAdmission` | an instance for TLC of `Capacity`, `Responses`, `Logins`, `Peering` | |

`MCServices` and `MCAdmission` hold parts that share no state, each with the
conjunct `about = ...`: the parts are independent questions, and one run of each
crosses no states of one with another's.

**Capacity.**  `reads`, `cpu`, `classifier`, `faceLane`, `running`, `waiting`,
`foreground` are the fields of `capacity`; `job`, `reader` and `viewer` hold what
each job goroutine, scan and stream has.  Closing the Go channel at a release
marks every scan read that waits as `signalled`; it looks at the table again in a
later step.  Actions are named for the methods.

**Roots.**  `known` is `roots.known`; each goroutine of `resolveOne` is a record
in `resolvers` that first reads the share and then enters the critical section,
two steps with anything between them.  A share is readable, unreadable or silent
(it blocks its reader).  The turn's timeout may fire at any time while an answer
is missing.

**Scheduler.**  `loop.pc` is the place in the turn: `prepare` (folders),
`due` (due kinds, paused features), `visit`, `kind`, `claim`, `until` (the next
check), `asleep`.  The reservation, the claim and the end of a claim are separate
steps, as are a job's record in the store, the return of its slots and the call
of `Wake` (`owed`, then `wake`).  A retry delay that has not ended is the row
state `delayed`; a row whose outcome the store could not record is `stranded`
until the next start.

**ImportJobs.**  `stage` is the state column of each video and kind, `job` the
row, `claim` the handler's copy of the row with its phase.  A handler is several
steps: it reads (`Begin`), generates, applies its result in one transaction and
completes or fails the row in another.  A scan's pass is the upsert and then its
jobs, two transactions.  The environment scans, forces, retries, edits
thumbnails, moves and unplugs locations, loses generated files and restarts the
process, within a budget of each (`Scenarios`).

**Scans.**  `scanRow` is the running row, `run` the goroutine of `Scans.run`:
`scanning`, `finishing` (before `FinishScan` commits), `closing` (before the
deferred critical section).  `caller` is where each request is between
`supersedeWatchScan`, the store's `startScan` and the critical section of `start`.
`disk` says of each directory whether it was read since it changed, and if not,
whether its event was lost or it was left to the owner.

**AutoImport.**  `dirty`, `inflight`, `timer`, `rerun`, `enabled`, `problem` are
the code's fields.  `batch` is the goroutine of `fire`: `settling` and `starting`
outside every lock, `opening` to `failed` under `startMu`.  `holder` are the
requests in `holdStarts` and after it; `Hold` is `holding++`, `Quiesce` the wait
for `startMu`.  `arm` are the goroutines of `armTree`, `stale` an older
generation; an arming may fail to list the folders (`CannotList`), find none
(`NoFolders`), get no watcher or meet the watch limit (`ArmWatcher`), and
`uncovered` remembers that the last one left something unwatched.  The end of a scan (`FinishScan`) runs the callback `ScanFinished` in
the same critical section, as the code does.

**EventBus.**  `queue`, `closing`, `ready`, `stop` are the fields of a
subscription, `run` its goroutine's place; `publishing` are the queues a Publish
that holds the bus lock has still to reach, so a goroutine may take an event of a
batch before another queue has it.  Events are numbered.  The refinement maps the
announcement to the moment a Publish takes the lock, a member's position to the
last event its handler began, `active` to the handlers that run.  A member whose
goroutine has ended or whose unsubscribe has returned is gone: in `Broadcast` none
goes while its handler runs, and one that is gone handles nothing.

**Shutdown.**  `stage` follows `main.go` from `subscribeEvents` to the closed
database, with a failed startup.  A writer (request, job, the scan) commits and
then publishes, two steps, as `DB.commit` and `DB.publish` are.  The artifact
subscriber's handler starts a goroutine per release (`cleaning`).

**Artifacts.**  `files` holds per build the numbers of the generation whose files
lie at its two paths; `gen` is the generating job, whose two renames, switch and
removal are single steps, each of which may fail (`GenerationFails`); `removal` and
`removing` the removal under the content's exclusive lock, which goes on after a
build that it could not remove, or only in part (`RemovedFrom`); `leaked` says that
a failure or a crash may have left files.  `Accepted` is what the code takes for
published: a preview that matches its manifest, a sprite whose metadata can be read; `viewing` a reader, which resolves the pointer, opens and, for a
preview, compares with the manifest, and resolves again once if it found nothing.

**FaceLane.**  `imageJob`, `videoJob`, `sweepJob` are the subject rows with
`force_requested` (`again`); `lane` the goroutine of the lane's job from its claim
to its record, `faceRun` what `SettingsChanged` may cancel, `helper` the process.
`present` says whether the video is registered, `asked` that a request has read the
setting and is about to queue it (two transactions), `strayed` that the video was
away with a result at a switch, which queues registered ones only.

**Responses.**  `answer` is a request: its place in the boundary and in the
lookup, the state of its two `trackedRequest`s (`session`, `guest`), its timer
(`check`) and whether the revocation under way spares it (`kept`).  `handler` is
who revokes: the row is deleted in one step, the ledger's section collects in
another, and each abort is one more.

**Logins.**  `attempt` is the goroutine of a call from its reservation to its
commit, with the account it read; `throttle` and `order` are `sources` and their
order of use.  A password is named by the version of the account that first had it.

**Peering.**  `conn` are the connections made, with the state shown, the
goroutines that hold the present `generation`, the wake-up token and the loop;
`loop`, `forward` and `owner` the goroutines of `runLink`, of a forwarded request
and of the owner's call; `revokeMu` is held between `marking` and `marked`.

## 3. Runs

All constants are in the `.cfg` files; the bounds are these.

| Run | Instance | States | What it shows |
| --- | --- | --- | --- |
| `roots` | 1 folder that moves between 2 paths on 2 disks, silent and unreadable shares | 90 thousand | a turn serves what is resolved, late answers count and wake, readable folders return |
| `scheduler` | 2 disks, 2 rows of 2 kinds, 2 job goroutines, one sort of disturbance at a time | 412 thousand | no sleep through work, no second claim under a parked folder, one goroutine per running row |
| `scheduler_live` | 1 disk, 2 rows of different classes | 125 thousand | every queued row of a readable folder is claimed |
| `scheduler_classes` | 3 rows, 2 classes | violation | the strict order of classes does not hold across the passes of a turn |
| `imports` | 1 video, three scenarios: rescans beside a restart, requests of the owner, locations | 413 thousand | no lost work, force honoured, edits survive, a job gives up only after all locations |
| `imports_live` | 2 videos, three scenarios: stages that wait for others, a lost preview, a whole import beside a restart | 50 thousand | imports settle, a lost preview returns |
| `imports_sprites` | 1 video, sprite, preview and fingerprint | violation | a fingerprint that nothing can claim |
| `imports_repair` | 1 video, two scenarios | violation | a pending stage beside a done row that `EnsureJobs` leaves alone |
| `auto_import` | 1 directory, 1 request, 1 folder change or disabling, 2 armings that may fail, 2 attempts | 1.75 million | no change forgotten, dirty directories scheduled, holds respected, lost events shown until read, watches follow the setting |
| `scans_stuck` | the same | violation | a request that ends after its commit leaves a running row without a goroutine |
| `services` | the process: 2 subscribers, 2 events in batches of up to 2, a request, a job and the scan; the files: 2 switched builds, up to 3 generations and 2 videos; the faces: 2 recognizers, 1 face, 1 video | 1.01 million | the bus implements `Broadcast`, no wake-up and no removal is lost; done means published, readers find their build, nothing is leaked but by a failure or a crash; face settings are obeyed and stale faces have work |
| `admission` | the slots: 2 disks (1 and 3 slots), 2 jobs, 1 scan, 2 streams; the answers: 2 requests, 2 handlers, 3 changes; the sign-in: 2 attempts, 2 sources, 1 slot; the link: 2 connections, 1 forwarded request, 1 owner's call | 541 thousand | conservation of slots, limits, no lost wake-up, priority of the scan, streams alone; no answer runs on unallowed; every attempt counted once, no old password signs in; a stored link is tried again |

Why these bounds are enough to meet the cases.

- A lost wake-up, a cancelled wait or an overtaking needs two parties and one
  slot; the second disk has more slots, so that a job, a lent part and a scan
  share it.  Two job goroutines are the least that let one park the folder of the
  other's claim.
- `roots` has at most two resolutions under way (`TwoResolvers`): one that hangs
  on the old path and one on the new.
- In `scheduler` the disturbances (a scan, a stream, lent parts, a lost share, a
  failing store, a feature switched off) come one sort at a time
  (`OneDisturbance`; a row that waits out a retry delay counts as one), a scan
  meets one row that has not run, the minute between checks ends and folders are
  rechecked while no job is under way (`QuietRechecks`): each pair
  only multiplies states that `admission` and `roots` already cross.
- Three locations are the least at which the wrap-around of a round differs from
  its direction; the scenarios about the probe have one (`OneLocation`).
  `MaxAttempts` and the retry schedule are those of the code, counted in rounds.
- In `auto_import` two of a batch, the request, the folder change or disabling,
  the owner's scan and the armings are under way at once (`TwoAtOnce`), beside
  the watch scan.  Two attempts instead of three still lose and win the race with
  a watch scan.  No request is under way while a failed arming has left something
  unwatched (`WatchedForRequests`).  A library rescan combines what a manual scan and a partial
  rescan do and is left out.  The behaviours stop at a row without a goroutine
  (`RunningRowHasRun`, which `scans_stuck` is about) and at an overtaken end
  (`NotOvertaken`, section 5).
- In `services` two of the three writers begin (`TwoCommit`): one that is late and
  one in time; with two events one batch of two or two batches meet the close.
  Of the changes around the faces (saved settings, a restart, a broken runtime, a
  replaced face, cleared people, a video that is queued, analysed or away) two happen
  (`TwoChanges`).
  A third build and a second video are the least that let a read meet two
  switches, and a content go and come back; generations and videos together are
  four, of a sprite three, and one build at a time is there in part (`FewFiles`).
- In `admission` both requests meet one change, or one meets three
  (`ThreeTaken`).  One source is remembered, so that every second one evicts.
  The link meets one turn of its owner or of its node, or is paired again
  (`TurnOrPairing`), with two of its goroutines at work at once (`TwoAtWork`).

`imports`, `imports_live`, `services` and `admission` say `CHECK_DEADLOCK FALSE`,
because the budgets run out, the process ends and an idle library is the aim; the
others check deadlock.

Symmetry is used only in `scheduler` (job goroutines), `auto_import` (armings)
and `admission` (handlers), which have no liveness.

With the coverage of TLC every action fires in some passing run.  One branch does
not: a queue that is closing takes no more events (`Enqueue`); the code sets the
flag only after the subscription left the bus, so this look is a precaution.

### Fairness

- `RootsFairSpec`: time passes, the loop keeps turning, a goroutine whose share
  answers goes on.  Shares need not answer.
- `SchedFairSpec`: the loop, the pending `Wake` calls and the job goroutines run.
  A job that is handled again and again succeeds some time (strong fairness of
  `Succeeds`); a scan need not end, a stream need not close.
- `FairImport`: a row that stays claimable is claimed (`scheduler_live` is why),
  handlers, scans and viewers' requests go on, retry delays end, and an unplugged
  folder comes back: the code promises nothing for the files of one that does not.

## 4. Proofs

Each module below proves its theorems for every value of the constants, under the
assumptions the module it is about declares (`ASSUME ...Constants`, evaluated by
TLC in every run of it).  Eight theorems state a further hypothesis of their own:
`ChangeIsRead`, `DirtyWillBeScanned`, `ScansGoOn`, `FingerprintsKeepSprites` and
`RepairsRestore` name the steps at which the code does otherwise (section 5),
`LinkIsTried` and the last part of `AdmissionKeep` how many calls the owner makes
at once, and `ThrottleIsBounded` that the attempts can be counted.
The harder inductive invariants (`Noticed`, `Ranked`, `StageOK`, `PeeringInv`,
those of the batches) held on the instance of a run, checked by TLC, before they
were proved.

**`CapacityProofs`** (`CapacityConstants`: limits and demands are numbers, kinds
have a demand):

- `TypeCorrect`: `CapSpec => []CapTypeOK`.
- `LimitsHold`: `[]WithinCapacity`.  Taking is guarded by `Fits`; the lemmas
  `TakeType`, `GiveBackType`, `FitsWithin` and `GiveBackWithin` say what taking
  and giving back do to the table.
- `NoReadSleepsPastItsSlot`: `[]NoMissedSlot`.  Each step that can make a slot
  free also signals the waiting reads, and a scan read goes to sleep only in the
  step that found no slot.
- `ReadsTakeTurns`: the action property `ReadsGiveWay`, from who can add to the
  reads of a disk.
- `SlotsAreConserved`: `[]SlotsConserved`.  Each counter is the number of the
  goroutines that hold what it counts; the lemmas are about one holder more or
  less in a finite set, and about what each operation adds and gives back.
- `ScanSlotIsKept`: the action property `ScanKeepsSlot`, from which slots a job, a
  lent part or a stream can take while a scan is between two reads.

**`RootsProofs`** (`RootsConstants`):

- `TurnsServeResolved`: `[]TurnServesResolved`, and
- `NoLateAnswerLost`: the action property `LateAnswerWakes`.

The inductive invariant `Awaited` says who waits for the answer of each folder
being resolved: the turn, beside a goroutine of that turn, or, once the folder is
marked late, the `Wake` its answer will call.

**`SchedulerProofs`** (`SchedulerConstants`):

- `SchedTyped`: `[]SchedTypeOK`, which needs the shape of a turn: what the loop
  holds reserved and which disks and kinds are left at each of its places.
- `SchedulerImplementsCapacity`: `SchedSpec => CapSpec`, so that all theorems of
  the slots hold for the scheduler, and `SchedulerKeepsSlots` states the three
  about limits, conservation and wake-ups.
- `SchedulerKeepsFolders`: the two theorems of `Roots` hold in the scheduler, where
  job goroutines park folders and returned slots owe wake-ups beside the folders'
  own steps.
- `EachRowRunsOnce`: `[]RowsRunOnce`, from `RowsOwned`: a running row belongs to the
  goroutine whose claim made it so, until that goroutine records its end.
- `ParkedFolderIsLeft`: `[]ParkedClaimedOnce`, from `StrayOnce`: only a claim that
  had read the folders before the parking can still take a row of it.
- `NeverSleepsThroughWork`: `[]NoSleepThroughWork`, the property the scheduler
  exists for.  The invariant `Noticed` says that the loop is either alert (it was
  woken, or will be, or still has the row before it in its turn) or has caught
  every row it passed: each was idle, blocked by the scan it gave way to, or did
  not fit even without the slots the loop itself holds.  Only a step of the loop
  that begins a new turn ends an alert; every step beside the loop either takes
  slots, which keeps what did not fit from fitting, or owes a wake-up.
- `ClassesInOrderUnlessWoken`: an action property beside the one
  `scheduler_classes` refutes.  A claim never takes a less urgent row of the same
  kind.  One of another kind with the same demand on the same folder it takes only
  once a wake-up has been called or is owed, or past a row that waited out a delay
  when the turn began, whose feature is off, whose disk a scan reads or whose kind
  is at its limit.  The invariant `Ranked` adds to `Noticed` that, while the loop is
  not alert, every row of the classes before the present one was passed, and that
  a reservation takes its slots from no row that was passed for want of them.  Each
  of the exceptions is needed: TLC finds the property false without any one of them.

**`ImportJobsProofs`** (`ImportConstants`):

- `ImportTyped`: `[]ImportTypeOK`.
- `PendingKeepsWork`: `[]PendingHasWork`.  `StageOK` relates a stage, its row and
  the claim of its handler; `Covered` adds that a pending probe or thumbnail
  without a row belongs to the scan that is about to enqueue it, or has lapsed in
  a crash between a scan's two transactions.
- `ForceIsHonoured`: the property `ForceHonoured`: what is owed is carried by the
  row's force, or by the force that was asked for while the row ran.
- `EditsSurvive`: `[]EditSurvives`: a stage whose thumbnail was edited is done and
  its row carries no force.
- `LocationsAreTried`: the action property `GivesUpAfterAllLocations`.  The tries of
  each location count the rounds: those at or before the cursor have one more than
  those after it.
- `FingerprintsKeepSprites`: `WaitingFingerprintHasSprites` holds in every behaviour
  without two steps: a viewer's request for sprites whose job has recorded its
  result and has yet to complete (`LateRequest`), and a sprite job that fails for
  good (`SpriteGivesUp`).  `RepairsRestore`: so does `RepairRestoresWork` without
  late requests and without a preview job that its probe outpaces
  (`PreviewOutpaced`).  The two runs of section 5 are therefore violated by these
  steps alone; no retry, stale completion, forced rebuild or restart does it.

A step is first described stage by stage by one of a dozen kinds of `StageStep`;
each kind is shown once to keep `StageOK`, and each action to be of these kinds.

**`AutoImportProofs`** (`ScansAssumption`):

- `AutoTyped`: `[]AutoTypeOK`.
- `HoldsAreKept`: `[]NoWatchScanWhileHeld`.  A start needs that nobody holds; a
  holder waits for a start under way (`HoldHolds`); only the watch scan's own entry
  begins one; a running row has one owner that will close it (`OneOwner`).
- `WatchFollowsSetting`: `[]WatchesMatchSetting`.  Only the last arming is up to
  date.  While automatic import is off, a watch that is left belongs to an arming
  that will still disarm, or to the disabling that will; while it is on, a missing
  watch is owed by the arming under way, or was recorded as not covered, or no
  folder exists (`WatchOwed`).
- `LossIsRead`: the action property `LossStaysUntilRead`, from `LossCovered`: what
  was lost while a full scan runs is still among what it has to read.
- `ChangeIsRead`: `AutoSpec /\ []NotOvertaken => []ChangeHasReader`: a changed
  directory is pending or in the batch, and the batch belongs to a start, to a
  watch scan or to a stuck row (`BatchShape`, `ChangesKept`).
- `DirtyWillBeScanned`: `AutoSpec /\ []DisablesAlone => []DirtyIsScheduled`.
- `OnlyTheseStrand`: a running row loses its goroutine by exactly three steps
  (`Strands`): a start that goes no further than its commit, a close the store
  refuses, and a start that enters beside a run that has closed its row.
  `ScansGoOn`: without them `[]RunningRowHasRun`, the property `scans_stuck`
  refutes; and `StrandedUntilRestart`: such a row gets a goroutine again only by the
  next start of the process.

`NotOvertaken` is the bound of the run, too; `DisablesAlone` says that a disabling
takes effect while no other request holds a batch, which the run has by its single
holder.  Section 5 tells what happens without them.

**`ShutdownProofs`**: the bus, for all subscribers and numbers of events and
batches (`BusConstants`), and the process (`ShutdownConstants`).

- `NoWakeUpLost`: `[]QueuesAwake`.
- `BusRefinesBroadcast`: `BusSpec => BusImplementsBroadcast`, the initial states
  and every step mapped to a step of `Broadcast` or a stutter.
- `NoReleaseLost`: `[]ReleasesReclaimed`, from `Quiescence` (who may still commit
  at each stage) and `Releasing` (every event the release subscriber began is
  being removed or removed).
- `ProcessRefinesBroadcast`: a step of the process is a step of the bus or leaves
  it alone (`BusPart`), so `BusInv` and the refinement carry over.

`BusInv` says what each queue holds: consecutive events after the last one its
handler began, up to the last published or, where the Publish under way has still
to come, up to the one before its batch.  Without it neither the order nor
`Close`'s drain can be shown; it needs the lock's discipline and the order in
which `Close` and `unsubscribe` set their flags.  `Endings` adds that an unsubscribe
returns only after its goroutine, so no step of a handler is one of a member that
is gone.

**`ServicesProofs`** (`ArtConstants`, `FaceConstants`, with those of the process):

- `ArtifactsTyped`, and of the generated files `DoneIsPublished`
  (`[]DoneMeansPublished`), `BuildIsFound` (`[]ReaderFindsBuild`) and `NothingIsLeft`
  (`[]UnreferencedReclaimed`).  The invariant says which files lie at the paths of
  each build at each step of the generating job and of a removal, in which step a
  failure may leave them, and for a reader which build it can still find after the
  switches it met.
- `FaceTyped`, and of the faces `SettingsAreObeyed` (`[]SettingsObeyed`) and
  `StaleFaceIsOwed` (`[]StaleFaceHasJob`): the lane's job stores only for the
  generation it read, a result of another recognizer is one of a video that was away
  at the switch, and a stale face has a row, a sweep to come, or was overlooked
  (section 5).
- `ServicesImplement`: a behaviour of the composition is one of each part, since
  each of its steps is one of a part while the others rest (`PartsStep`).  So
  `ServicesTyped` (`[]ServicesTypeOK`) and `ServicesKeep`, which states all that the
  run `services` checks, the refinement of `Broadcast` included, of
  `ServicesSpec` itself.

**`AdmissionProofs`** (`ResponsesConstants`, `LoginsConstants`, `PeeringConstants`):

- `AnswersStayAllowed`: `[]AnswersAreAllowed`.  The invariant has to reach back
  before the answer: `Credentialed` speaks of every request that nothing but an
  abort keeps from being served, `Guested` also of a lookup whose generation still
  stands, and `SwitchesPrivate` of the videos a switch under way made private.
  `Allowed` says what a request's own step may not do (`MoveAllowed`), and that
  suffices (`AllowedKeeps`); `RespStep` treats each revocation.
- `ReservationsAreCounted`: `[]ReservationsCounted`, and `HashingIsLimited`: the
  slots of password hashing are those of the attempts that hash, at most
  `VerifySlots`.  Each step of an attempt enters, leaves, stays or is refused at its
  source (`StepKinds`), and a source that is evicted has nobody to count.
- `SignInsMatch`: the action property `SignInsMatchAccount`, from `SignedIn`: whatever
  was stored or read under the account's version is the account, and only an
  attempt that is over has a session.
- `ListMatchesCounts`: the list of sources and their counts never part: a source is
  on `order`, once, exactly while something is counted for it.  The list is a
  sequence of sources, which `LoginsTyped` needs; the lemmas say what taking
  members out of a sequence (`Without`) leaves and in which order.
- `ThrottleIsBounded`: the throttle remembers at most `MaxSources` sources or as many
  as there are attempts, since only a source somebody waits in survives an
  eviction.
- `PeeringTyped`: `[]PeeringTypeOK`, for any number of the owner's calls at once.
- `LinkIsTried`: `[]LinksKeepTrying`, where the
  owner's calls come one at a time (`OneAtATime`, as in the run).  `OwnerHas` says
  what a call of the owner relies on at each of its steps; `Tried` that a link
  removed leaves no loop but to the call that still drops it, and that a stored
  one has its loop or is handed to one.

- `AdmissionImplement`: a behaviour of the composition with the slots is one of each
  part.  So `AdmissionTyped` (`[]AdmissionTypeOK`) and `AdmissionKeep`, which states
  what else the run `admission` checks of `AdmissionSpec` itself.

Only model-checked is all liveness (`RootsFairSpec`, `SchedFairSpec`, `FairImport`):
fairness and ENABLED are outside the prover.

## 5. What the code does otherwise than it says

Four runs are violated, each by one behaviour of the code.

- `scheduler_classes`: the comment at `scheduler.go:148` and
  `docs/design-docs/job-scheduling.md` say that classes are served strictly in
  order.  A turn makes one pass per class; a slot that is returned between the
  passes goes to the less urgent class although a more urgent row of the same
  demand waits.  `ClassesInOrderUnlessWoken` says what remains of the order.
- `imports_sprites`: a forced rebuild of the sprites that fails for good turns the
  stage from done to failed and leaves a queued fingerprint job, whose claim
  condition wants done sprites.  `fingerprints_test.go:254` states that such
  work must not remain.  `FingerprintsKeepSprites` names the two steps that do it.
- `imports_repair`: a preview handler that finds the probe unfinished returns
  without a result; if the probe ends before the row is completed, its request
  for a preview meets the running row and the completion then marks the row
  done.  The stage is pending, the row is done, and `EnsureJobs`, which discards
  only failed rows, leaves it.  A request for new sprites that falls between a
  sprite job's result and its completion ends in the same way.  `RepairsRestore`
  shows that nothing else does.
- `scans_stuck`: `startScan` commits the running row, publishes the change and
  reads the row back with the request's context.  If the client has gone by then,
  the read fails, `Scans.start` returns without a goroutine and the row is running
  until the next start of the process; later scans return it or are refused, and folder
  changes are refused too.  Two more ways lead to such a row.  `FinishScan` may fail.
  And `run` closes its row before its deferred function clears `running`: a start
  that opens a row in between meets `running` and begins no goroutine.
  `OnlyTheseStrand` shows that there is no fourth way.

The passing runs leave out, by a named bound or an exception in the property, what
modelling showed beside these:

- **The overtaken end** (`NotOvertaken` in `AutoImport`).  A watch scan is
  superseded by a folder change or a failing disabling whose request does not
  wait for its end, so `inflight` is emptied early and the next batch may begin; if
  its row is opened before the old run's deferred function, the end of the old scan empties `inflight`
  again.  A partial rescan that supersedes the new batch then gives nothing back,
  and its directories are not read.  The comment at `scans.go:505` says that the
  next scan's start cannot overtake the completion; this holds for the goroutine,
  not for the row and the batch.
- **A loss that hides another problem** (`problem` and `uncovered` in `AutoImport`).
  `WatchProblem` (`auto_import.go:374`) replaces whatever problem is recorded.  An
  arming meets the watch limit; then the watcher loses events, and the loss replaces
  the limit; the next manual scan clears the loss, and with it the only problem, and
  the state is `active` although directories are unwatched.  TLC shows it for
  `watchState = "active" => watching /\ ~uncovered` with one arming and
  without `WatchedForRequests`.
  `folder-watching.md:89` says of `active` that every directory is watched, and line
  93 lets only another arming clear a problem that is not a loss.
- **A sprite without its sheets** (`Accepted` in `Artifacts`).  A sprite is published
  by one rename of its directory and so complete as soon as its metadata can be read
  (`store.go:555`).  Its removal is an `os.RemoveAll`, which takes the entries one by
  one.  When it fails or the process ends halfway, `sprite.json` may be left without
  its sheets; an ordinary job of the content that comes back adopts it
  (`store.go:283`), the stage is done, and the repair of missing files looks at the
  metadata only.  With `Whole(pointer)` in place of `Accepted(pointer)`,
  `DoneMeansPublished` is violated; as it stands it says what remains: a preview is
  whole, a sprite has its metadata.
- **The sweep beside a face job** (`overlooked` in `FaceLane`).  The sweep passes
  over faces whose job is running (`store/face_images.go:45`).  A job that stored
  its vector before the switch deleted it, and has not recorded its end, is such a
  job: nothing embeds that face until the next request.  `face_settings.go:72` says
  that the sweep queues every face again.
- **A result of a video away at a switch** (`strayed` in `FaceLane`).  A switch
  deletes the vectors of every video but queues registered ones only; the result of
  one that is away stays done, of the recognizer before (`face_settings.go:90`),
  and it is not queued when the video comes back, nor by a request for the library,
  which passes over done results.  `face_settings.go:41` and
  `docs/design-docs/face-recognition.md:566` speak of every analysed video, which may
  mean the registered ones.
- **A reader after two rebuilds** (`switches` in `Artifacts`).  A reader resolves
  the pointer twice at most; two rebuilds during one read leave it without a
  file, where `builds.go:13` says that a reader never finds the artifact missing.
- **A revoked link shown as unreachable** (`Peering`).  One failed request finds
  the link unrevoked; another's 401 marks it and shows it revoked; then the first
  one's interruption and failure overwrite the state until the next start.
  `docs/design-docs/peer-library.md:127` has no way back from revoked but the
  removal of the link.
- **An attempt that began before a corrected address** (`Peering`).  `runLink`
  reads the link before `connect` takes the generation, and a forwarded request
  holds no generation at all: either may ask at the old address and revoke the
  link with the corrected one, which `pairing_connection.go:37` and
  `TestInterruptedAttemptRevokesNothing` say must not happen.
- **Two calls of the owner at once** (`Peering`, one at a time in the run).
  `Pair` may add its link between another call's `DeleteLink` and `dropConn`, and
  a second `Unpair` may delete a link that was paired since; the link is left
  without a loop.  `LinkIsTried` therefore assumes `OneAtATime`.
- **A folder change beside a disabling** (`AutoImport`, one of them in the run).
  A folder change whose start holds a batch puts it back into `dirty`
  (`auto_import.go:228`, `:328`) although a disabling beside it has just discarded
  what was pending, as its comment says (`auto_import.go:277`).  Automatic import is
  then switched on again with dirty directories and no timer.  With two holders
  instead of one TLC shows it; `DirtyWillBeScanned` assumes `DisablesAlone`.

## 6. Abstractions

- An SQLite transaction is one step; BEGIN IMMEDIATE serialises the writers.
  Store errors are in `Scheduler`, `Logins` and `Shutdown` (a commit that does not
  happen).
- `Roots` has its own folders and paths; nested folders and the ownership of a
  path by the longest folder are not modelled.
- In `Scheduler` a row has one location and kinds keep only their demand; in
  `ImportJobs` a claim takes any row of its kind (claim order within a kind is
  the scheduler's subject) and slots do not matter.
- A video that loses its last location is removed by the scanner in a later
  step; that removal is not followed.  Finished rows that the code deletes or keeps
  with `done` are told apart only where a later operation does.
- In `AutoImport` a directory is changed only while it is watched; what changed
  before, like what is pending when watches are replaced or a batch fails, is
  left to the owner's next scan and marked so.  Periods (quiet, settle) have no
  length: a timer may fire at any time.  The end of the process is `Restart`, at
  any moment.
- In `Shutdown` a request that outlasts the ten seconds of `srv.Shutdown` may
  commit when the bus is closed: its files stay until the content is generated or
  released again, as the property says.
- In `Artifacts` every generation is told apart by its manifest's size, and the
  sheets of a sprite are one path.  A crash, a removal or a look at the references
  that fails, and a record that fails after publication leave files that only the
  next generation or removal of the content takes (`leaked`).
- In `FaceLane` one face and one video stand for all; people made or merged by a
  result, the cast rule and the retry delays are not modelled.
- In `Responses` API tokens and secrets of peers are both credentials that last;
  the check of the bearer's form before the ledger is left out.
- In `Logins` the name and the password are one thing an attempt knows; failures
  leave their window at any time, in their order.
- In `Peering` there is one node, an owner's call and the interruption of a
  connection it looked up are one step, the loops of stored links have begun
  before the first request of the owner; certificates and their confirmation, the
  folder snapshots, the delays between attempts and the limit of eight links are
  left out.

## 7. Plan

What is left, in this order.

1. Runs of their own for the overtaken end, the hidden problem, the sprite without
   sheets, the sweep beside a face job and the revoked link; two holders at once.
2. `ImportStage`: the abstract promise of one stage (wanted, done or failed, and
   what may turn one into the other), implemented by `ImportJobs`.
3. `ImportActivity`: entries, settling and retry offers over the rows.
4. Thumbnail edits with their sessions, and the assistant's turns.
5. Proofs: what holds at `Peering` with several calls of the owner at once.

## 8. Not modelled

- Playlists, groups, tags, people and other owner data: single SQL transactions
  over rows that no other actor changes meanwhile, each tested at its
  transaction.  Automatic tags and duplicate judgements are one request to another
  server and one transaction each; their queue is the subject queue of `FaceLane`.
- The walk, the identification of files by a content key, and the detection of
  moves in the scanner: algorithms over file contents.
- The assistant, AI providers and plugins: calls of other servers and of
  sandboxed code, without state that others share.
- The face runtime: a download and a helper process, seen as ready or not.
- HTTP routing, generated API code, request parsing and rendering, ffmpeg and the
  byte formats, the desktop window and the React front end: no concurrent state of
  their own, and most of the repository's lines.

This is why the map covers a small share of the repository's lines: some
nine tenths of them are generated API code, routers and renderers, SQL over
owner data, media formats and the front end.  The map names the lines the definitions translate and no
others.
