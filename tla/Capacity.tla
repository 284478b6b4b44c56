------------------------------ MODULE Capacity ------------------------------
(***************************************************************************)
(* The slot counters of internal/jobs/capacity.go and the goroutines that  *)
(* take and return slots concurrently: job goroutines, the scan's          *)
(* content-key reads and the owner's foreground readers.                   *)
(*                                                                         *)
(* Every action is one critical section of capacity.mu.  The only place    *)
(* where a goroutine sleeps is acquireScanRead, which leaves the mutex to  *)
(* wait on the channel `changed`; closing the channel is the Broadcast of  *)
(* the readers' signalled flags.                                           *)
(***************************************************************************)
EXTENDS Integers, FiniteSets, FiniteSetsExt

CONSTANTS
  Disks,            \* keys of the disks that hold media folders
  NoDisk,           \* the group of the kinds that read no source file
  Kinds,            \* job kinds
  NoKind,           \* kind of a job goroutine that is not running
  JobIds,           \* job goroutines
  Readers,          \* scan goroutines
  Viewers,          \* foreground readers: streams, transcodes, frame reads
  SlotsOf,          \* read slots of each disk, by its type
  CPUSlots, ClassifierSlots, FaceLaneSlots,
  Demand,           \* slots each kind holds while it runs
  Concurrency,      \* most jobs of each kind at once
  LentDemands,      \* what one further part of a splitting job may borrow
  MaxLent           \* most parts of one job on lent slots

AllDisks == Disks \cup {NoDisk}
Resources == [read : 0..1, cpu : 0..1, classifier : 0..1, faceLane : 0..1]

ASSUME CapacityConstants ==
  /\ IsFiniteSet(JobIds) /\ IsFiniteSet(Readers) /\ IsFiniteSet(Viewers)
  /\ NoDisk \notin Disks /\ NoKind \notin Kinds
  /\ SlotsOf \in [Disks -> Nat \ {0}]
  /\ CPUSlots \in Nat /\ ClassifierSlots \in Nat /\ FaceLaneSlots \in Nat
  /\ Demand \in [Kinds -> Resources]
  /\ Concurrency \in [Kinds -> Nat]
  /\ LentDemands \subseteq Resources /\ LentDemands # {}
  /\ MaxLent \in Nat

VARIABLES
  cpuUsed, classifierUsed, faceLaneUsed,
  served,           \* disks in capacity.readSlots; setDisks replaces them
  readUsed,         \* read slots in use on each disk
  running,          \* jobs of each kind, lent slots not counted
  foreground,       \* open foreground readers of each disk
  scanWaiting,      \* scan reads waiting for each disk
  scanAhead,        \* scans that read again on each disk
  scanHeld,         \* read slots scans hold on each disk
  job,              \* what each job goroutine holds
  reader,           \* where each scan goroutine is in acquireScanRead
  viewer            \* disk each foreground reader holds, or NoDisk

slotVars == <<cpuUsed, classifierUsed, faceLaneUsed, readUsed>>
scanVars == <<scanWaiting, scanAhead, scanHeld, reader>>
capVars == <<slotVars, scanVars, served, running, foreground, job, viewer>>

\* What a job goroutine holds: its grant and the parts it runs on lent slots.
NoPart == CHOOSE p \in LentDemands : TRUE
Granted(k, d) == [kind |-> k, disk |-> d, lent |-> 0, part |-> NoPart]
FreeJob == Granted(NoKind, NoDisk)
WithLent(j, n, part) == [kind |-> job[j].kind, disk |-> job[j].disk, lent |-> n, part |-> part]

\* Where a scan goroutine stands, with no wakeup pending.
At(rd, pc, d) == [pc |-> pc, disk |-> d, signalled |-> FALSE, ahead |-> rd.ahead]
Ahead(rd, d) == [pc |-> rd.pc, disk |-> rd.disk, signalled |-> rd.signalled, ahead |-> d]

CapInit ==
  /\ cpuUsed = 0 /\ classifierUsed = 0 /\ faceLaneUsed = 0
  /\ served = {}
  /\ readUsed = [d \in AllDisks |-> 0]
  /\ running = [k \in Kinds |-> 0]
  /\ foreground = [d \in AllDisks |-> 0]
  /\ scanWaiting = [d \in AllDisks |-> 0]
  /\ scanAhead = [d \in AllDisks |-> 0]
  /\ scanHeld = [d \in AllDisks |-> 0]
  /\ job = [j \in JobIds |-> FreeJob]
  /\ reader = [r \in Readers |->
                [pc |-> "idle", disk |-> NoDisk, signalled |-> FALSE, ahead |-> NoDisk]]
  /\ viewer = [v \in Viewers |-> NoDisk]

-----------------------------------------------------------------------------
(* Slot arithmetic.                                                        *)

\* A map lookup of readSlots: a disk the scheduler does not serve has none.
ReadSlots(d) == IF d \in served THEN SlotsOf[d] ELSE 0

ReadLimit(d, slots) ==
  IF foreground[d] > 0 /\ slots > 1 THEN 1 ELSE slots

\* Mutant: jobs that read the disk count as the scan's own reads.
KeptLessAllReads(d) ==
  IF scanAhead[d] > readUsed[d] THEN scanAhead[d] - readUsed[d] ELSE 0

\* The slots a scan between two reads keeps free from jobs.
Kept(d) == IF scanAhead[d] > scanHeld[d] THEN scanAhead[d] - scanHeld[d] ELSE 0

\* Mutant: the CPU check forgets the demand it is about to add.
FitsBeforeAdding(d, demand) ==
  /\ cpuUsed <= CPUSlots
  /\ classifierUsed + demand.classifier <= ClassifierSlots
  /\ faceLaneUsed + demand.faceLane <= FaceLaneSlots
  /\ demand.read > 0 =>
       /\ scanWaiting[d] = 0
       /\ readUsed[d] + demand.read + Kept(d) <= ReadLimit(d, ReadSlots(d))

\* Mutant: a waiting scan read does not keep jobs off its disk.
FitsPastWaitingScan(d, demand) ==
  /\ cpuUsed + demand.cpu <= CPUSlots
  /\ classifierUsed + demand.classifier <= ClassifierSlots
  /\ faceLaneUsed + demand.faceLane <= FaceLaneSlots
  /\ demand.read > 0 => readUsed[d] + demand.read + Kept(d) <= ReadLimit(d, ReadSlots(d))

Fits(d, demand) ==
  /\ cpuUsed + demand.cpu <= CPUSlots
  /\ classifierUsed + demand.classifier <= ClassifierSlots
  /\ faceLaneUsed + demand.faceLane <= FaceLaneSlots
  /\ demand.read > 0 =>
       /\ scanWaiting[d] = 0
       /\ readUsed[d] + demand.read + Kept(d) <= ReadLimit(d, ReadSlots(d))

Take(d, demand) ==
  /\ cpuUsed' = cpuUsed + demand.cpu
  /\ classifierUsed' = classifierUsed + demand.classifier
  /\ faceLaneUsed' = faceLaneUsed + demand.faceLane
  /\ readUsed' = [readUsed EXCEPT ![d] = @ + demand.read]

GiveBack(d, demand) ==
  /\ cpuUsed' = cpuUsed - demand.cpu
  /\ classifierUsed' = classifierUsed - demand.classifier
  /\ faceLaneUsed' = faceLaneUsed - demand.faceLane
  /\ readUsed' = [readUsed EXCEPT ![d] = @ - demand.read]

\* Closing `changed` wakes every scan read that waits on it.
Signalled(rd) ==
  IF rd.pc = "waiting"
    THEN [pc |-> rd.pc, disk |-> rd.disk, signalled |-> TRUE, ahead |-> rd.ahead]
    ELSE rd

Broadcast == reader' = [r \in Readers |-> Signalled(reader[r])]

-----------------------------------------------------------------------------
(* Job goroutines: the grant, its lent slots and its release.              *)

CanReserveJob(d, k) == running[k] < Concurrency[k] /\ Fits(d, Demand[k])

ReserveJob(j, d, k) ==
  /\ job[j].kind = NoKind
  /\ CanReserveJob(d, k)
  /\ Take(d, Demand[k])
  /\ running' = [running EXCEPT ![k] = @ + 1]
  /\ job' = [job EXCEPT ![j] = Granted(k, d)]
  /\ UNCHANGED <<scanVars, served, foreground, viewer>>

ReleaseJob(j) ==
  /\ job[j].kind # NoKind /\ job[j].lent = 0
  /\ running' = [running EXCEPT ![job[j].kind] = @ - 1]
  /\ GiveBack(job[j].disk, Demand[job[j].kind])
  /\ job' = [job EXCEPT ![j] = FreeJob]
  /\ Broadcast
  /\ UNCHANGED <<scanWaiting, scanAhead, scanHeld, served, foreground, viewer>>

\* One further part of a job that reads its source; every part of one split
\* has the same demand.
TryAcquire(j, part) ==
  /\ job[j].kind # NoKind /\ job[j].disk # NoDisk
  /\ job[j].lent < MaxLent
  /\ job[j].lent > 0 => part = job[j].part
  /\ Fits(job[j].disk, part)
  /\ Take(job[j].disk, part)
  /\ job' = [job EXCEPT ![j] = WithLent(j, job[j].lent + 1, part)]
  /\ UNCHANGED <<scanVars, served, running, foreground, viewer>>

ReleaseLent(j) ==
  /\ job[j].lent > 0
  /\ GiveBack(job[j].disk, job[j].part)
  /\ job' = [job EXCEPT ![j] =
               WithLent(j, job[j].lent - 1, IF job[j].lent = 1 THEN NoPart ELSE job[j].part)]
  /\ Broadcast
  /\ UNCHANGED <<scanWaiting, scanAhead, scanHeld, served, running, foreground, viewer>>

-----------------------------------------------------------------------------
(* Scan reads.  A disk the scheduler does not serve counts its slots from  *)
(* its type.                                                               *)

ScanSlotFree(d) == readUsed[d] < ReadLimit(d, SlotsOf[d])

TakeScanSlot(r, d) ==
  /\ readUsed' = [readUsed EXCEPT ![d] = @ + 1]
  /\ scanHeld' = [scanHeld EXCEPT ![d] = @ + 1]
  /\ reader' = [reader EXCEPT ![r] = At(reader[r], "reading", d)]

AcquireScanRead(r, d) ==
  /\ reader[r].pc = "idle"
  /\ \/ /\ ScanSlotFree(d)
        /\ TakeScanSlot(r, d)
        /\ UNCHANGED scanWaiting
     \/ /\ ~ScanSlotFree(d)
        /\ scanWaiting' = [scanWaiting EXCEPT ![d] = @ + 1]
        /\ reader' = [reader EXCEPT ![r] = At(reader[r], "waiting", d)]
        /\ UNCHANGED <<readUsed, scanHeld>>
  /\ UNCHANGED <<cpuUsed, classifierUsed, faceLaneUsed, scanAhead, served, running,
                 foreground, job, viewer>>

\* The closed channel was seen; the loop of acquireScanRead checks again.
RetryScanRead(r) ==
  /\ reader[r].pc = "waiting" /\ reader[r].signalled
  /\ \/ /\ ScanSlotFree(reader[r].disk)
        /\ TakeScanSlot(r, reader[r].disk)
        /\ scanWaiting' = [scanWaiting EXCEPT ![reader[r].disk] = @ - 1]
     \/ /\ ~ScanSlotFree(reader[r].disk)
        /\ reader' = [reader EXCEPT ![r] = At(reader[r], "waiting", reader[r].disk)]
        /\ UNCHANGED <<readUsed, scanHeld, scanWaiting>>
  /\ UNCHANGED <<cpuUsed, classifierUsed, faceLaneUsed, scanAhead, served, running,
                 foreground, job, viewer>>

\* Mutant: acquireScanRead returns the context's error before it counts down.
CancelScanReadEarly(r) ==
  /\ reader[r].pc = "waiting"
  /\ reader' = [reader EXCEPT ![r] = At(reader[r], "idle", NoDisk)]
  /\ UNCHANGED <<slotVars, scanWaiting, scanAhead, scanHeld, served, running, foreground, job, viewer>>

\* The scan's context ended while the read waited.
CancelScanRead(r) ==
  /\ reader[r].pc = "waiting"
  /\ scanWaiting' = [scanWaiting EXCEPT ![reader[r].disk] = @ - 1]
  /\ reader' = [reader EXCEPT ![r] = At(reader[r], "idle", NoDisk)]
  /\ UNCHANGED <<slotVars, scanAhead, scanHeld, served, running, foreground, job, viewer>>

ReleaseScanRead(r) ==
  LET d == reader[r].disk IN
  /\ reader[r].pc = "reading"
  /\ readUsed' = [readUsed EXCEPT ![d] = @ - 1]
  /\ scanHeld' = [scanHeld EXCEPT ![d] = @ - 1]
  /\ reader' = [q \in Readers |->
       IF q = r THEN At(reader[q], "idle", NoDisk)
                ELSE Signalled(reader[q])]
  /\ UNCHANGED <<cpuUsed, classifierUsed, faceLaneUsed, scanWaiting, scanAhead, served,
                 running, foreground, job, viewer>>

KeepScanAhead(r, d) ==
  /\ reader[r].pc = "idle" /\ reader[r].ahead = NoDisk
  /\ scanAhead' = [scanAhead EXCEPT ![d] = @ + 1]
  /\ reader' = [reader EXCEPT ![r] = Ahead(reader[r], d)]
  /\ UNCHANGED <<slotVars, scanWaiting, scanHeld, served, running, foreground, job, viewer>>

EndScanAhead(r) ==
  /\ reader[r].pc = "idle" /\ reader[r].ahead # NoDisk
  /\ scanAhead' = [scanAhead EXCEPT ![reader[r].ahead] = @ - 1]
  /\ reader' = [q \in Readers |->
       IF q = r THEN Ahead(reader[q], NoDisk) ELSE Signalled(reader[q])]
  /\ UNCHANGED <<slotVars, scanWaiting, scanHeld, served, running, foreground, job, viewer>>

-----------------------------------------------------------------------------
(* Foreground readers and the scheduler's view of the disks.               *)

HoldForeground(v, d) ==
  /\ viewer[v] = NoDisk
  /\ foreground' = [foreground EXCEPT ![d] = @ + 1]
  /\ viewer' = [viewer EXCEPT ![v] = d]
  /\ UNCHANGED <<slotVars, scanVars, served, running, job>>

\* Mutant: lifting the foreground limit wakes no scan read.
ReleaseForegroundSilently(v) ==
  /\ viewer[v] # NoDisk
  /\ foreground' = [foreground EXCEPT ![viewer[v]] = @ - 1]
  /\ viewer' = [viewer EXCEPT ![v] = NoDisk]
  /\ UNCHANGED <<slotVars, scanVars, served, running, job>>

ReleaseForeground(v) ==
  /\ viewer[v] # NoDisk
  /\ foreground' = [foreground EXCEPT ![viewer[v]] = @ - 1]
  /\ viewer' = [viewer EXCEPT ![v] = NoDisk]
  /\ Broadcast
  /\ UNCHANGED <<slotVars, scanWaiting, scanAhead, scanHeld, served, running, job>>

SetDisks(ds) ==
  /\ served' = ds
  /\ Broadcast
  /\ UNCHANGED <<slotVars, scanWaiting, scanAhead, scanHeld, running, foreground, job, viewer>>

-----------------------------------------------------------------------------
DiskOf(k) == IF Demand[k].read > 0 THEN Disks ELSE {NoDisk}

CapNext ==
  \/ \E j \in JobIds, k \in Kinds : \E d \in DiskOf(k) : ReserveJob(j, d, k)
  \/ \E j \in JobIds : ReleaseJob(j)
  \/ \E j \in JobIds, part \in LentDemands : TryAcquire(j, part)
  \/ \E j \in JobIds : ReleaseLent(j)
  \/ \E r \in Readers, d \in Disks : AcquireScanRead(r, d)
  \/ \E r \in Readers : RetryScanRead(r)
  \/ \E r \in Readers : CancelScanRead(r)
  \/ \E r \in Readers : ReleaseScanRead(r)
  \/ \E r \in Readers, d \in Disks : KeepScanAhead(r, d)
  \/ \E r \in Readers : EndScanAhead(r)
  \/ \E v \in Viewers, d \in Disks : HoldForeground(v, d)
  \/ \E v \in Viewers : ReleaseForeground(v)
  \/ \E ds \in SUBSET Disks : SetDisks(ds)

CapSpec == CapInit /\ [][CapNext]_capVars

-----------------------------------------------------------------------------
(* Properties.                                                             *)

JobStates == [kind : Kinds \cup {NoKind}, disk : AllDisks, lent : 0..MaxLent, part : LentDemands]
ReaderStates == [pc : {"idle", "waiting", "reading"}, disk : AllDisks,
                 signalled : BOOLEAN, ahead : AllDisks]

CapTypeOK ==
  /\ cpuUsed \in Int /\ classifierUsed \in Int /\ faceLaneUsed \in Int
  /\ served \in SUBSET Disks
  /\ readUsed \in [AllDisks -> Int]
  /\ running \in [Kinds -> Int]
  /\ foreground \in [AllDisks -> Int]
  /\ scanWaiting \in [AllDisks -> Int]
  /\ scanAhead \in [AllDisks -> Int]
  /\ scanHeld \in [AllDisks -> Int]
  /\ job \in [JobIds -> JobStates]
  /\ reader \in [Readers -> ReaderStates]
  /\ viewer \in [Viewers -> AllDisks]

\* The parts a job goroutine runs: 0 on its own grant, the rest on lent slots.
Parts(j) == IF job[j].kind = NoKind THEN {} ELSE 0..job[j].lent
PartDemand(j, i) == IF i = 0 THEN Demand[job[j].kind] ELSE job[j].part

RunningParts == {p \in JobIds \X (0..MaxLent) : p[2] \in Parts(p[1])}
JobReads(d) == {p \in RunningParts : job[p[1]].disk = d /\ PartDemand(p[1], p[2]).read = 1}
JobsOnCPU == {p \in RunningParts : PartDemand(p[1], p[2]).cpu = 1}
JobsClassifying == {p \in RunningParts : PartDemand(p[1], p[2]).classifier = 1}
JobsOnFaceLane == {p \in RunningParts : PartDemand(p[1], p[2]).faceLane = 1}
ReadersIn(pc, d) == {r \in Readers : reader[r].pc = pc /\ reader[r].disk = d}

\* No slot leaks and none is returned twice: every counter of capacity.go is
\* the number of goroutines that hold what it counts, whatever the order in
\* which jobs, lent parts, scan reads, cancellations and viewers come and go.
SlotsConserved ==
  /\ cpuUsed = Cardinality(JobsOnCPU)
  /\ classifierUsed = Cardinality(JobsClassifying)
  /\ faceLaneUsed = Cardinality(JobsOnFaceLane)
  /\ \A k \in Kinds : running[k] = Cardinality({j \in JobIds : job[j].kind = k})
  /\ \A d \in Disks :
       /\ readUsed[d] = Cardinality(JobReads(d)) + Cardinality(ReadersIn("reading", d))
       /\ scanHeld[d] = Cardinality(ReadersIn("reading", d))
       /\ scanWaiting[d] = Cardinality(ReadersIn("waiting", d))
       /\ scanAhead[d] = Cardinality({r \in Readers : reader[r].ahead = d})
       /\ foreground[d] = Cardinality({v \in Viewers : viewer[v] = d})

\* The limits of capacity.go hold although setDisks, foreground readers and
\* lent slots change what a grant is measured against: reads of one disk stay
\* within the slots of its type, jobs of one kind within its cap.
WithinCapacity ==
  /\ cpuUsed <= CPUSlots
  /\ classifierUsed <= ClassifierSlots
  /\ faceLaneUsed <= FaceLaneSlots
  /\ \A k \in Kinds : running[k] <= Concurrency[k]
  /\ \A d \in Disks : readUsed[d] <= SlotsOf[d]

\* No lost wakeup in acquireScanRead: a scan read sleeps on a channel that is
\* still open only while its disk really has no slot for it, so every change
\* that frees a slot or lifts the limit must have closed the channel.
NoMissedSlot ==
  \A r \in Readers :
    reader[r].pc = "waiting" /\ ~reader[r].signalled => ~ScanSlotFree(reader[r].disk)

\* "A waiting scan read takes the next free slot of its disk before any job":
\* while a read waits, only a scan read raises the reads of the disk.  And
\* while a foreground reader has a disk open, a new background read is the
\* only one on it; grants made before are not revoked.
ReadsGiveWay ==
  [][\A d \in Disks :
       readUsed'[d] > readUsed[d] =>
         /\ scanWaiting[d] > 0 => scanHeld'[d] > scanHeld[d]
         /\ foreground[d] > 0 => readUsed'[d] <= 1]_capVars

\* A job or a lent part taken while a scan works through a folder leaves a
\* slot the scan's next read can take at once (KeepAhead).
ScanKeepsSlot ==
  [][\A d \in Disks :
       /\ readUsed'[d] > readUsed[d]
       /\ scanHeld'[d] = scanHeld[d]
       /\ \E r \in Readers : reader[r].ahead = d /\ reader[r].pc = "idle"
       /\ \A r \in ReadersIn("reading", d) : reader[r].ahead = d
       => readUsed'[d] < ReadLimit(d, ReadSlots(d))]_capVars
=============================================================================
