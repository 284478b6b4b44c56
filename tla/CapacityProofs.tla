--------------------------- MODULE CapacityProofs ---------------------------
(***************************************************************************)
(* What Capacity promises for every set of disks, kinds, jobs and readers: *)
(* its counters keep their types, no limit of a resource is exceeded, no   *)
(* scan read sleeps through a free slot, reads take turns, every counter   *)
(* is the number of its holders, and a scan finds the slot it is owed.     *)
(***************************************************************************)
EXTENDS Capacity, FiniteSetTheorems, TLAPS

\* The counters' arithmetic needs these facts of the constants only.
LEMMA DemandFields ==
  ASSUME NEW demand \in Resources
  PROVE  /\ demand.read \in 0..1 /\ demand.cpu \in 0..1
         /\ demand.classifier \in 0..1 /\ demand.faceLane \in 0..1
BY DEF Resources

\* What a job goroutine can hold.
LEMMA JobRecords ==
  /\ NoPart \in LentDemands
  /\ \A k \in Kinds \cup {NoKind}, d \in AllDisks : Granted(k, d) \in JobStates
  /\ FreeJob \in JobStates
BY CapacityConstants DEF Granted, FreeJob, NoPart, AllDisks, JobStates

\* Where a scan goroutine can be.
LEMMA ReaderRecords ==
  ASSUME CapTypeOK, NEW r \in Readers, NEW d \in AllDisks
  PROVE  /\ \A pc \in {"idle", "waiting", "reading"} : At(reader[r], pc, d) \in ReaderStates
         /\ Ahead(reader[r], d) \in ReaderStates
         /\ Signalled(reader[r]) \in ReaderStates
         /\ reader[r].disk \in AllDisks /\ reader[r].ahead \in AllDisks
BY DEF CapTypeOK, At, Ahead, Signalled, ReaderStates

\* Taking slots keeps the counters integers.
LEMMA TakeType ==
  ASSUME CapTypeOK, NEW d \in AllDisks, NEW demand \in Resources, Take(d, demand)
  PROVE  /\ cpuUsed' \in Int /\ classifierUsed' \in Int /\ faceLaneUsed' \in Int
         /\ readUsed' \in [AllDisks -> Int]
BY DemandFields DEF CapTypeOK, Take

\* And so does returning them.
LEMMA GiveBackType ==
  ASSUME CapTypeOK, NEW d \in AllDisks, NEW demand \in Resources, GiveBack(d, demand)
  PROVE  /\ cpuUsed' \in Int /\ classifierUsed' \in Int /\ faceLaneUsed' \in Int
         /\ readUsed' \in [AllDisks -> Int]
BY DemandFields DEF CapTypeOK, GiveBack

\* Every step keeps the types: one case per critical section of capacity.mu.
LEMMA TypeStep == CapTypeOK /\ [CapNext]_capVars => CapTypeOK'
<1> SUFFICES ASSUME CapTypeOK, [CapNext]_capVars PROVE CapTypeOK'
  OBVIOUS
<1> USE CapacityConstants
<1>1. ASSUME NEW j \in JobIds, NEW k \in Kinds, NEW d \in DiskOf(k), ReserveJob(j, d, k)
      PROVE  CapTypeOK'
  <2>1. d \in AllDisks /\ Demand[k] \in Resources
    BY <1>1 DEF DiskOf, AllDisks
  <2>2. running' \in [Kinds -> Int]
    BY <1>1 DEF ReserveJob, CapTypeOK
  <2>3. job' \in [JobIds -> JobStates]
    BY <1>1, <2>1, JobRecords DEF ReserveJob, CapTypeOK
  <2> QED
    BY <1>1, <2>1, <2>2, <2>3, TakeType DEF ReserveJob, CapTypeOK, scanVars
<1>2. ASSUME NEW j \in JobIds, ReleaseJob(j) PROVE CapTypeOK'
  <2>1. job[j].disk \in AllDisks /\ job[j].kind \in Kinds
    BY <1>2 DEF CapTypeOK, ReleaseJob, JobStates
  <2>2. Demand[job[j].kind] \in Resources
    BY <2>1
  <2>3. running' \in [Kinds -> Int]
    BY <1>2, <2>1 DEF ReleaseJob, CapTypeOK
  <2>4. job' \in [JobIds -> JobStates]
    BY <1>2, JobRecords DEF ReleaseJob, CapTypeOK
  <2>5. reader' \in [Readers -> ReaderStates]
    BY <1>2, ReaderRecords, <2>1 DEF ReleaseJob, Broadcast
  <2> QED
    BY <1>2, <2>1, <2>2, <2>3, <2>4, <2>5, GiveBackType DEF ReleaseJob, CapTypeOK
<1>3. ASSUME NEW j \in JobIds, NEW part \in LentDemands, TryAcquire(j, part) PROVE CapTypeOK'
  <2>1. job[j].disk \in AllDisks /\ part \in Resources
    BY DEF CapTypeOK, JobStates
  <2>2. WithLent(j, job[j].lent + 1, part) \in JobStates
    BY <1>3 DEF TryAcquire, CapTypeOK, JobStates, WithLent
  <2>3. job' \in [JobIds -> JobStates]
    BY <1>3, <2>2 DEF TryAcquire, CapTypeOK
  <2> QED
    BY <1>3, <2>1, <2>3, TakeType DEF TryAcquire, CapTypeOK, scanVars
<1>4. ASSUME NEW j \in JobIds, ReleaseLent(j) PROVE CapTypeOK'
  <2>1. job[j].disk \in AllDisks /\ job[j].part \in Resources
    BY DEF CapTypeOK, JobStates
  <2>2. \A part \in LentDemands : WithLent(j, job[j].lent - 1, part) \in JobStates
    BY <1>4 DEF ReleaseLent, CapTypeOK, JobStates, WithLent
  <2>3. job[j].part \in LentDemands
    BY DEF CapTypeOK, JobStates
  <2>4. job' \in [JobIds -> JobStates]
    BY <1>4, <2>2, <2>3, JobRecords DEF ReleaseLent, CapTypeOK
  <2>5. reader' \in [Readers -> ReaderStates]
    BY <1>4, ReaderRecords, <2>1 DEF ReleaseLent, Broadcast
  <2> QED
    BY <1>4, <2>1, <2>4, <2>5, GiveBackType DEF ReleaseLent, CapTypeOK
<1>5. ASSUME NEW r \in Readers, NEW d \in Disks, AcquireScanRead(r, d) PROVE CapTypeOK'
  <2>1. d \in AllDisks
    BY DEF AllDisks
  <2>2. reader' \in [Readers -> ReaderStates]
    BY <1>5, <2>1, ReaderRecords DEF AcquireScanRead, TakeScanSlot, CapTypeOK
  <2> QED
    BY <1>5, <2>1, <2>2 DEF AcquireScanRead, TakeScanSlot, CapTypeOK
<1>6. ASSUME NEW r \in Readers, RetryScanRead(r) PROVE CapTypeOK'
  <2>1. reader[r].disk \in AllDisks
    BY DEF CapTypeOK, ReaderStates
  <2>2. reader' \in [Readers -> ReaderStates]
    BY <1>6, <2>1, ReaderRecords DEF RetryScanRead, TakeScanSlot, CapTypeOK
  <2> QED
    BY <1>6, <2>1, <2>2 DEF RetryScanRead, TakeScanSlot, CapTypeOK
<1>7. ASSUME NEW r \in Readers, CancelScanRead(r) PROVE CapTypeOK'
  <2>1. reader[r].disk \in AllDisks /\ NoDisk \in AllDisks
    BY DEF CapTypeOK, ReaderStates, AllDisks
  <2>2. reader' \in [Readers -> ReaderStates]
    BY <1>7, <2>1, ReaderRecords DEF CancelScanRead, CapTypeOK
  <2> QED
    BY <1>7, <2>1, <2>2 DEF CancelScanRead, CapTypeOK, slotVars
<1>8. ASSUME NEW r \in Readers, ReleaseScanRead(r) PROVE CapTypeOK'
  <2>1. reader[r].disk \in AllDisks /\ NoDisk \in AllDisks
    BY DEF CapTypeOK, ReaderStates, AllDisks
  <2>2. reader' \in [Readers -> ReaderStates]
    BY <1>8, <2>1, ReaderRecords DEF ReleaseScanRead
  <2> QED
    BY <1>8, <2>1, <2>2 DEF ReleaseScanRead, CapTypeOK
<1>9. ASSUME NEW r \in Readers, NEW d \in Disks, KeepScanAhead(r, d) PROVE CapTypeOK'
  <2>1. d \in AllDisks
    BY DEF AllDisks
  <2>2. reader' \in [Readers -> ReaderStates]
    BY <1>9, <2>1, ReaderRecords DEF KeepScanAhead, CapTypeOK
  <2> QED
    BY <1>9, <2>1, <2>2 DEF KeepScanAhead, CapTypeOK, slotVars
<1>10. ASSUME NEW r \in Readers, EndScanAhead(r) PROVE CapTypeOK'
  <2>1. reader[r].ahead \in AllDisks /\ NoDisk \in AllDisks
    BY DEF CapTypeOK, ReaderStates, AllDisks
  <2>2. reader' \in [Readers -> ReaderStates]
    BY <1>10, <2>1, ReaderRecords DEF EndScanAhead
  <2> QED
    BY <1>10, <2>1, <2>2 DEF EndScanAhead, CapTypeOK, slotVars
<1>11. ASSUME NEW v \in Viewers, NEW d \in Disks, HoldForeground(v, d) PROVE CapTypeOK'
  BY <1>11 DEF HoldForeground, CapTypeOK, AllDisks, slotVars, scanVars
<1>12. ASSUME NEW v \in Viewers, ReleaseForeground(v) PROVE CapTypeOK'
  <2>1. viewer[v] \in AllDisks /\ NoDisk \in AllDisks
    BY DEF CapTypeOK, AllDisks
  <2>2. reader' \in [Readers -> ReaderStates]
    BY <1>12, <2>1, ReaderRecords DEF ReleaseForeground, Broadcast
  <2> QED
    BY <1>12, <2>1, <2>2 DEF ReleaseForeground, CapTypeOK, slotVars
<1>13. ASSUME NEW ds \in SUBSET Disks, SetDisks(ds) PROVE CapTypeOK'
  <2>1. NoDisk \in AllDisks
    BY DEF AllDisks
  <2>2. reader' \in [Readers -> ReaderStates]
    BY <1>13, <2>1, ReaderRecords DEF SetDisks, Broadcast
  <2> QED
    BY <1>13, <2>2 DEF SetDisks, CapTypeOK, slotVars
<1>14. CASE UNCHANGED capVars
  BY <1>14 DEF CapTypeOK, capVars, slotVars, scanVars
<1> QED
  BY <1>1, <1>2, <1>3, <1>4, <1>5, <1>6, <1>7, <1>8, <1>9, <1>10, <1>11, <1>12, <1>13, <1>14
  DEF CapNext

\* Every counter of capacity.go, and every place a goroutine may be in, keeps
\* its type in every reachable state.
THEOREM TypeCorrect == CapSpec => []CapTypeOK
<1>1. CapInit => CapTypeOK
  BY CapacityConstants, JobRecords DEF CapInit, CapTypeOK, AllDisks, ReaderStates
<1> QED
  BY <1>1, TypeStep, PTL DEF CapSpec

-----------------------------------------------------------------------------
(* The limits.                                                             *)

\* A grant that fits leaves every limited resource within its limit.
LEMMA FitsWithin ==
  ASSUME CapTypeOK, WithinCapacity, NEW d \in AllDisks, NEW demand \in Resources,
         demand.read > 0 => d \in Disks, Fits(d, demand), Take(d, demand)
  PROVE  /\ cpuUsed' <= CPUSlots /\ classifierUsed' <= ClassifierSlots
         /\ faceLaneUsed' <= FaceLaneSlots
         /\ \A e \in Disks : readUsed'[e] <= SlotsOf[e]
<1>1. \A e \in Disks : SlotsOf[e] \in Nat /\ SlotsOf[e] > 0
  BY CapacityConstants
<1>2. /\ cpuUsed' <= CPUSlots /\ classifierUsed' <= ClassifierSlots
      /\ faceLaneUsed' <= FaceLaneSlots
  BY DEF Fits, Take
<1>3. ASSUME NEW e \in Disks PROVE readUsed'[e] <= SlotsOf[e]
  <2>1. e \in AllDisks /\ readUsed[e] \in Int /\ readUsed[e] <= SlotsOf[e]
    BY DEF AllDisks, CapTypeOK, WithinCapacity
  <2>2. CASE e # d \/ demand.read = 0
    BY <2>1, <2>2, DemandFields DEF Take, CapTypeOK
  <2>3. CASE e = d /\ demand.read # 0
    <3>1. demand.read \in Int /\ demand.read > 0
      BY <2>3, DemandFields
    <3>2. ReadLimit(d, ReadSlots(d)) <= SlotsOf[d] /\ ReadLimit(d, ReadSlots(d)) \in Int
      BY <1>1, <2>3 DEF ReadLimit, ReadSlots
    <3>3. Kept(d) \in Int /\ Kept(d) >= 0
      BY DEF Kept, CapTypeOK
    <3>4. readUsed[d] + demand.read + Kept(d) <= ReadLimit(d, ReadSlots(d))
      BY <3>1 DEF Fits
    <3>5. readUsed'[d] = readUsed[d] + demand.read
      BY DEF Take, CapTypeOK
    <3> QED
      BY <1>1, <2>1, <2>3, <3>1, <3>2, <3>3, <3>4, <3>5
  <2> QED
    BY <2>2, <2>3
<1> QED
  BY <1>2, <1>3

\* A release lowers the counters, so it breaks no limit.
LEMMA GiveBackWithin ==
  ASSUME CapTypeOK, WithinCapacity, NEW d \in AllDisks, NEW demand \in Resources,
         GiveBack(d, demand)
  PROVE  /\ cpuUsed' <= CPUSlots /\ classifierUsed' <= ClassifierSlots
         /\ faceLaneUsed' <= FaceLaneSlots
         /\ \A e \in Disks : readUsed'[e] <= SlotsOf[e]
<1>1. \A e \in Disks : readUsed'[e] <= readUsed[e] /\ readUsed'[e] \in Int
                        /\ readUsed[e] \in Int
  BY DemandFields DEF CapTypeOK, GiveBack, AllDisks
<1> QED
  BY <1>1, DemandFields, CapacityConstants DEF CapTypeOK, WithinCapacity, GiveBack

\* A scan goroutine that waits or reads does so on a disk of a media folder, so
\* its slots are counted.
Located == \A r \in Readers : reader[r].pc # "idle" => reader[r].disk \in Disks

\* The inductive invariant: the two safety properties need only the types and
\* the readers' disks.
CapInv == CapTypeOK /\ Located /\ WithinCapacity /\ NoMissedSlot

\* A wakeup sent to every reader leaves none asleep.
LEMMA BroadcastWakes ==
  ASSUME CapTypeOK, NEW r \in Readers
  PROVE  /\ ~(Signalled(reader[r]).pc = "waiting" /\ ~Signalled(reader[r]).signalled)
         /\ Signalled(reader[r]).pc = reader[r].pc
         /\ Signalled(reader[r]).disk = reader[r].disk
BY DEF CapTypeOK, ReaderStates, Signalled

\* A step that changes no reader, lowers no count of reads and ends no
\* foreground reader frees no slot.
LEMMA NoSlotFreed ==
  ASSUME CapTypeOK, Located, NoMissedSlot, CapTypeOK', reader' = reader,
         \A d \in Disks : readUsed'[d] >= readUsed[d] /\ foreground'[d] >= foreground[d]
  PROVE  NoMissedSlot'
<1> SUFFICES ASSUME NEW r \in Readers, reader[r].pc = "waiting", ~reader[r].signalled,
                    ScanSlotFree(reader[r].disk)'
             PROVE  FALSE
  BY DEF NoMissedSlot
<1> DEFINE d == reader[r].disk
<1>1. d \in Disks /\ d \in AllDisks /\ ~ScanSlotFree(d)
  BY DEF Located, NoMissedSlot, AllDisks
<1>2. SlotsOf[d] \in Nat /\ SlotsOf[d] > 0
  BY <1>1, CapacityConstants
<1>3. /\ readUsed[d] \in Int /\ readUsed'[d] \in Int
      /\ foreground[d] \in Int /\ foreground'[d] \in Int
  BY <1>1 DEF CapTypeOK
<1> QED
  BY <1>1, <1>2, <1>3 DEF ScanSlotFree, ReadLimit

\* A scan read that takes a slot, or starts or goes on waiting because its disk
\* has none, keeps the limits and leaves no other reader asleep on a free slot.
LEMMA ScanSlotStep ==
  ASSUME CapInv, CapTypeOK', NEW r \in Readers, NEW d \in Disks,
         cpuUsed' = cpuUsed, classifierUsed' = classifierUsed, faceLaneUsed' = faceLaneUsed,
         running' = running, foreground' = foreground,
         \/ ScanSlotFree(d) /\ TakeScanSlot(r, d)
         \/ ~ScanSlotFree(d) /\ readUsed' = readUsed
              /\ reader' = [reader EXCEPT ![r] = At(reader[r], "waiting", d)]
  PROVE  CapInv'
<1> USE DEF CapInv
<1>1. SlotsOf[d] \in Nat /\ SlotsOf[d] > 0 /\ d \in AllDisks
  BY CapacityConstants DEF AllDisks
<1>2. \A e \in Disks : readUsed[e] \in Int /\ readUsed'[e] \in Int /\ readUsed'[e] >= readUsed[e]
  BY <1>1 DEF TakeScanSlot, CapTypeOK, AllDisks
<1>3. WithinCapacity'
  BY <1>1 DEF WithinCapacity, TakeScanSlot, ScanSlotFree, ReadLimit, CapTypeOK, AllDisks
<1>4. /\ \A q \in Readers : q # r => reader'[q] = reader[q]
      /\ reader'[r].disk = d /\ reader'[r].pc \in {"waiting", "reading"}
      /\ reader'[r].pc = "waiting" => ~ScanSlotFree(d) /\ readUsed' = readUsed
  BY DEF TakeScanSlot, At, CapTypeOK
<1>5. \A e \in Disks : ScanSlotFree(e)' => ScanSlotFree(e)
  BY <1>2, CapacityConstants DEF ScanSlotFree, ReadLimit
<1>6. Located'
  BY <1>4 DEF Located
<1>7. NoMissedSlot'
  BY <1>4, <1>5, <1>6 DEF NoMissedSlot, Located
<1> QED
  BY <1>3, <1>6, <1>7

\* No step breaks the inductive invariant.
LEMMA CapStep == CapInv /\ [CapNext]_capVars => CapInv'
<1> SUFFICES ASSUME CapInv, [CapNext]_capVars PROVE CapInv'
  OBVIOUS
<1> USE CapacityConstants DEF CapInv
<1>0. CapTypeOK'
  BY TypeStep
<1>1. ASSUME NEW j \in JobIds, NEW k \in Kinds, NEW d \in DiskOf(k), ReserveJob(j, d, k)
      PROVE  CapInv'
  <2>1. d \in AllDisks /\ Demand[k] \in Resources /\ (Demand[k].read > 0 => d \in Disks)
    BY DEF DiskOf, AllDisks
  <2>2. Fits(d, Demand[k]) /\ Take(d, Demand[k]) /\ reader' = reader
    BY <1>1 DEF ReserveJob, CanReserveJob, scanVars
  <2>3. WithinCapacity'
    <3>1. \A q \in Kinds : running'[q] <= Concurrency[q]
      BY <1>1 DEF ReserveJob, CanReserveJob, CapTypeOK, WithinCapacity
    <3> QED
      BY <2>1, <2>2, <3>1, FitsWithin DEF WithinCapacity
  <2>4. \A e \in Disks : readUsed'[e] >= readUsed[e] /\ foreground'[e] >= foreground[e]
    BY <1>1, <2>1, <2>2, DemandFields DEF ReserveJob, Take, CapTypeOK, AllDisks
  <2> QED
    BY <1>0, <2>2, <2>3, <2>4, NoSlotFreed DEF Located
<1>2. ASSUME NEW j \in JobIds, ReleaseJob(j) PROVE CapInv'
  <2>1. job[j].disk \in AllDisks /\ Demand[job[j].kind] \in Resources /\ job[j].kind \in Kinds
    BY <1>2 DEF ReleaseJob, CapTypeOK, JobStates
  <2>2. WithinCapacity'
    <3>1. \A q \in Kinds : running'[q] <= Concurrency[q]
      BY <1>2, <2>1 DEF ReleaseJob, CapTypeOK, WithinCapacity
    <3> QED
      BY <1>2, <2>1, <3>1, GiveBackWithin DEF ReleaseJob, WithinCapacity
  <2> QED
    BY <1>0, <1>2, <2>2, BroadcastWakes DEF ReleaseJob, Broadcast, Located, NoMissedSlot
<1>3. ASSUME NEW j \in JobIds, NEW part \in LentDemands, TryAcquire(j, part) PROVE CapInv'
  <2>1. job[j].disk \in AllDisks /\ job[j].disk \in Disks /\ part \in Resources
    BY <1>3 DEF TryAcquire, CapTypeOK, JobStates, AllDisks
  <2>2. Fits(job[j].disk, part) /\ Take(job[j].disk, part) /\ reader' = reader
    BY <1>3 DEF TryAcquire, scanVars
  <2>3. WithinCapacity'
    BY <1>3, <2>1, <2>2, FitsWithin DEF TryAcquire, WithinCapacity
  <2>4. \A e \in Disks : readUsed'[e] >= readUsed[e] /\ foreground'[e] >= foreground[e]
    BY <1>3, <2>1, <2>2, DemandFields DEF TryAcquire, Take, CapTypeOK, AllDisks
  <2> QED
    BY <1>0, <2>2, <2>3, <2>4, NoSlotFreed DEF Located
<1>4. ASSUME NEW j \in JobIds, ReleaseLent(j) PROVE CapInv'
  <2>1. job[j].disk \in AllDisks /\ job[j].part \in Resources
    BY DEF CapTypeOK, JobStates
  <2>2. WithinCapacity'
    BY <1>4, <2>1, GiveBackWithin DEF ReleaseLent, WithinCapacity
  <2> QED
    BY <1>0, <1>4, <2>2, BroadcastWakes DEF ReleaseLent, Broadcast, Located, NoMissedSlot
<1>5. ASSUME NEW r \in Readers, NEW d \in Disks, AcquireScanRead(r, d) PROVE CapInv'
  BY <1>0, <1>5, ScanSlotStep DEF AcquireScanRead
<1>6. ASSUME NEW r \in Readers, RetryScanRead(r) PROVE CapInv'
  BY <1>0, <1>6, ScanSlotStep DEF RetryScanRead, Located
<1>7. ASSUME NEW r \in Readers, CancelScanRead(r) PROVE CapInv'
  BY <1>0, <1>7 DEF CancelScanRead, slotVars, WithinCapacity, Located, NoMissedSlot, At,
                    CapTypeOK, ScanSlotFree, ReadLimit
<1>8. ASSUME NEW r \in Readers, ReleaseScanRead(r) PROVE CapInv'
  <2>1. reader[r].disk \in Disks /\ reader[r].disk \in AllDisks
    BY <1>8 DEF ReleaseScanRead, Located, AllDisks
  <2>2. WithinCapacity'
    BY <1>8, <2>1 DEF ReleaseScanRead, WithinCapacity, CapTypeOK, AllDisks
  <2>3. \A q \in Readers : reader'[q] = IF q = r THEN At(reader[q], "idle", NoDisk)
                                                ELSE Signalled(reader[q])
    BY <1>8 DEF ReleaseScanRead
  <2>4. At(reader[r], "idle", NoDisk).pc = "idle"
    BY DEF At
  <2>5. Located' /\ NoMissedSlot'
    BY <2>3, <2>4, BroadcastWakes DEF Located, NoMissedSlot
  <2> QED
    BY <1>0, <2>2, <2>5
<1>9. ASSUME NEW r \in Readers, NEW d \in Disks, KeepScanAhead(r, d) PROVE CapInv'
  BY <1>0, <1>9 DEF KeepScanAhead, slotVars, WithinCapacity, Located, NoMissedSlot, Ahead,
                    CapTypeOK, ScanSlotFree, ReadLimit
<1>10. ASSUME NEW r \in Readers, EndScanAhead(r) PROVE CapInv'
  <2>1. WithinCapacity'
    BY <1>10 DEF EndScanAhead, slotVars, WithinCapacity
  <2>2. \A q \in Readers : reader'[q] = IF q = r THEN Ahead(reader[q], NoDisk)
                                                ELSE Signalled(reader[q])
    BY <1>10 DEF EndScanAhead
  <2>3. Ahead(reader[r], NoDisk).pc = "idle"
    BY <1>10 DEF Ahead, EndScanAhead
  <2>4. Located' /\ NoMissedSlot'
    BY <2>2, <2>3, BroadcastWakes DEF Located, NoMissedSlot
  <2> QED
    BY <1>0, <2>1, <2>4
<1>11. ASSUME NEW v \in Viewers, NEW d \in Disks, HoldForeground(v, d) PROVE CapInv'
  <2>1. \A e \in Disks : readUsed'[e] >= readUsed[e] /\ foreground'[e] >= foreground[e]
    BY <1>11 DEF HoldForeground, slotVars, CapTypeOK, AllDisks
  <2> QED
    BY <1>0, <1>11, <2>1, NoSlotFreed
    DEF HoldForeground, slotVars, scanVars, WithinCapacity, Located
<1>12. ASSUME NEW v \in Viewers, ReleaseForeground(v) PROVE CapInv'
  BY <1>0, <1>12, BroadcastWakes
  DEF ReleaseForeground, Broadcast, slotVars, WithinCapacity, Located, NoMissedSlot
<1>13. ASSUME NEW ds \in SUBSET Disks, SetDisks(ds) PROVE CapInv'
  BY <1>0, <1>13, BroadcastWakes
  DEF SetDisks, Broadcast, slotVars, WithinCapacity, Located, NoMissedSlot
<1>14. CASE UNCHANGED capVars
  BY <1>0, <1>14 DEF capVars, slotVars, scanVars, WithinCapacity, Located, NoMissedSlot,
                     ScanSlotFree, ReadLimit
<1> QED
  BY <1>1, <1>2, <1>3, <1>4, <1>5, <1>6, <1>7, <1>8, <1>9, <1>10, <1>11, <1>12, <1>13, <1>14
  DEF CapNext

\* The empty process starts with every slot free and no reader asleep.
LEMMA CapStart == CapInit => CapInv
<1> SUFFICES ASSUME CapInit PROVE CapInv
  OBVIOUS
<1>1. CapTypeOK
  BY CapacityConstants, JobRecords DEF CapInit, CapTypeOK, AllDisks, ReaderStates
<1>2. WithinCapacity
  BY CapacityConstants DEF CapInit, WithinCapacity, AllDisks
<1> QED
  BY <1>1, <1>2 DEF CapInv, CapInit, Located, NoMissedSlot

\* The limits of capacity.go hold for every machine and every mix of jobs,
\* split parts, scans and viewers: CPU, classifier and face-lane slots, the jobs
\* of each kind, and the reads of each disk by the slots of its type.
THEOREM LimitsHold == CapSpec => []WithinCapacity
<1>1. CapInv => WithinCapacity
  BY DEF CapInv
<1> QED
  BY <1>1, CapStart, CapStep, PTL DEF CapSpec

\* No wakeup of acquireScanRead is lost: whatever frees a slot or lifts the
\* limit of a disk has closed the channel every waiting scan read sleeps on.
THEOREM NoReadSleepsPastItsSlot == CapSpec => []NoMissedSlot
<1>1. CapInv => NoMissedSlot
  BY DEF CapInv
<1> QED
  BY <1>1, CapStart, CapStep, PTL DEF CapSpec

-----------------------------------------------------------------------------
(* The order in which a disk's slots are taken.                            *)

\* What any step that starts a new read of a disk obeys.
ReadStarts(d) == readUsed'[d] > readUsed[d]

\* A job or a lent part starts a read only on its own disk and only if it fits.
LEMMA JobReadFits ==
  ASSUME CapTypeOK, NEW e \in AllDisks, NEW demand \in Resources, NEW d \in Disks,
         Fits(e, demand), Take(e, demand), ReadStarts(d)
  PROVE  /\ scanWaiting[d] = 0 /\ readUsed'[d] <= ReadLimit(d, ReadSlots(d))
         /\ readUsed'[d] + Kept(d) <= ReadLimit(d, ReadSlots(d))
<1>1. d \in AllDisks /\ readUsed[d] \in Int
  BY DEF AllDisks, CapTypeOK
<1>2. demand.read \in Int /\ demand.read > 0 /\ d = e /\ readUsed'[d] = readUsed[d] + demand.read
  BY <1>1, DemandFields DEF Take, CapTypeOK, ReadStarts
<1>3. Kept(d) \in Int /\ Kept(d) >= 0
  BY <1>1 DEF Kept, CapTypeOK
<1>4. SlotsOf[d] \in Nat
  BY CapacityConstants
<1>5. ReadLimit(d, ReadSlots(d)) \in Int
  BY <1>4 DEF ReadLimit, ReadSlots
<1> QED
  BY <1>1, <1>2, <1>3, <1>5 DEF Fits

\* Only three actions start a read: a grant, a lent part and a scan read.
LEMMA WhoStartsReads ==
  ASSUME CapTypeOK, [CapNext]_capVars, NEW d \in Disks, ReadStarts(d)
  PROVE  \/ /\ scanWaiting[d] = 0 /\ readUsed'[d] <= ReadLimit(d, ReadSlots(d))
            /\ readUsed'[d] + Kept(d) <= ReadLimit(d, ReadSlots(d))
         \/ /\ scanHeld'[d] = scanHeld[d] + 1
            /\ readUsed'[d] <= ReadLimit(d, SlotsOf[d])
<1> DEFINE Goal == \/ /\ scanWaiting[d] = 0 /\ readUsed'[d] <= ReadLimit(d, ReadSlots(d))
                      /\ readUsed'[d] + Kept(d) <= ReadLimit(d, ReadSlots(d))
                   \/ /\ scanHeld'[d] = scanHeld[d] + 1
                      /\ readUsed'[d] <= ReadLimit(d, SlotsOf[d])
<1> USE CapacityConstants
<1>1. ASSUME NEW j \in JobIds, NEW k \in Kinds, NEW e \in DiskOf(k), ReserveJob(j, e, k) PROVE Goal
  BY <1>1, JobReadFits DEF ReserveJob, CanReserveJob, DiskOf, AllDisks
<1>2. ASSUME NEW j \in JobIds, NEW part \in LentDemands, TryAcquire(j, part) PROVE Goal
  <2>1. job[j].disk \in AllDisks /\ part \in Resources
    BY DEF CapTypeOK, JobStates
  <2> QED
    BY <1>2, <2>1, JobReadFits DEF TryAcquire
<1>3. ASSUME NEW r \in Readers, NEW e \in AllDisks, ScanSlotFree(e), TakeScanSlot(r, e) PROVE Goal
  <2>1. d = e /\ readUsed'[d] = readUsed[d] + 1 /\ scanHeld'[d] = scanHeld[d] + 1
    BY <1>3 DEF TakeScanSlot, ReadStarts, CapTypeOK, AllDisks
  <2>2. SlotsOf[d] \in Nat /\ readUsed[d] \in Int
    BY DEF CapTypeOK, AllDisks
  <2> QED
    BY <1>3, <2>1, <2>2 DEF ScanSlotFree, ReadLimit
<1>4. ASSUME NEW r \in Readers, NEW e \in Disks, AcquireScanRead(r, e) PROVE Goal
  BY <1>3, <1>4 DEF AcquireScanRead, ReadStarts, AllDisks, CapTypeOK
<1>5. ASSUME NEW r \in Readers, RetryScanRead(r) PROVE Goal
  <2>1. reader[r].disk \in AllDisks
    BY DEF CapTypeOK, ReaderStates
  <2> QED
    BY <1>3, <1>5, <2>1 DEF RetryScanRead, ReadStarts, AllDisks, CapTypeOK
<1>6. ASSUME NEW j \in JobIds, ReleaseJob(j) PROVE FALSE
  <2>1. job[j].disk \in AllDisks /\ Demand[job[j].kind] \in Resources
    BY <1>6 DEF ReleaseJob, CapTypeOK, JobStates
  <2> QED
    BY <1>6, <2>1, DemandFields DEF ReleaseJob, GiveBack, ReadStarts, CapTypeOK, AllDisks
<1>7. ASSUME NEW j \in JobIds, ReleaseLent(j) PROVE FALSE
  <2>1. job[j].disk \in AllDisks /\ job[j].part \in Resources
    BY DEF CapTypeOK, JobStates
  <2> QED
    BY <1>7, <2>1, DemandFields DEF ReleaseLent, GiveBack, ReadStarts, CapTypeOK, AllDisks
<1>8. ASSUME NEW r \in Readers, ReleaseScanRead(r) PROVE FALSE
  BY <1>8 DEF ReleaseScanRead, ReadStarts, CapTypeOK, AllDisks
<1>9. ASSUME readUsed' = readUsed PROVE FALSE
  BY <1>9 DEF ReadStarts, CapTypeOK, AllDisks
<1> QED
  BY <1>1, <1>2, <1>4, <1>5, <1>6, <1>7, <1>8, <1>9
  DEF CapNext, CancelScanRead, KeepScanAhead, EndScanAhead, HoldForeground, ReleaseForeground,
      SetDisks, slotVars, capVars

\* A scan read that waits for a disk takes its next free slot before any job
\* or lent part does, on every machine; and while the owner watches from a
\* disk, the one background read it may have is alone on it, whatever the type
\* of the disk.
THEOREM ReadsTakeTurns == CapSpec => ReadsGiveWay
<1> DEFINE GivesWay(d) ==
      readUsed'[d] > readUsed[d] =>
        /\ scanWaiting[d] > 0 => scanHeld'[d] > scanHeld[d]
        /\ foreground[d] > 0 => readUsed'[d] <= 1
<1>1. CapTypeOK /\ [CapNext]_capVars => [\A d \in Disks : GivesWay(d)]_capVars
  <2> SUFFICES ASSUME CapTypeOK, [CapNext]_capVars, NEW d \in Disks, readUsed'[d] > readUsed[d]
               PROVE  /\ scanWaiting[d] > 0 => scanHeld'[d] > scanHeld[d]
                      /\ foreground[d] > 0 => readUsed'[d] <= 1
    OBVIOUS
  <2>1. scanHeld[d] \in Int /\ SlotsOf[d] \in Nat /\ readUsed'[d] \in Int
    BY TypeStep, CapacityConstants DEF CapTypeOK, AllDisks
  <2>2. scanWaiting[d] > 0 => scanHeld'[d] > scanHeld[d]
    BY <2>1, WhoStartsReads DEF ReadStarts
  <2>3. foreground[d] > 0 =>
          \A n \in {SlotsOf[d], ReadSlots(d)} : ReadLimit(d, n) <= 1 /\ ReadLimit(d, n) \in Int
    BY <2>1 DEF ReadLimit, ReadSlots
  <2>4. foreground[d] > 0 => readUsed'[d] <= 1
    BY <2>1, <2>3, WhoStartsReads DEF ReadStarts
  <2> QED
    BY <2>2, <2>4
<1> QED
  BY <1>1, TypeCorrect, PTL DEF CapSpec, ReadsGiveWay

-----------------------------------------------------------------------------
(* The conservation of slots.                                              *)

\* Counting one element more, or one less.
LEMMA CountMore ==
  ASSUME NEW S, IsFiniteSet(S), NEW p, p \notin S, NEW n \in 0..1, NEW T,
         n = 1 => T = S \cup {p}, n = 0 => T = S
  PROVE  IsFiniteSet(T) /\ Cardinality(T) = Cardinality(S) + n
<1>1. Cardinality(S) \in Nat
  BY FS_CardinalityType
<1>2. CASE n = 1
  BY <1>1, <1>2, FS_AddElement
<1>3. CASE n = 0
  BY <1>1, <1>3
<1> QED
  BY <1>2, <1>3

LEMMA CountLess ==
  ASSUME NEW S, IsFiniteSet(S), NEW p, NEW n \in 0..1, p \in S <=> n = 1, NEW T, T = S \ {p}
  PROVE  IsFiniteSet(T) /\ Cardinality(T) = Cardinality(S) - n
<1>1. Cardinality(S) \in Nat
  BY FS_CardinalityType
<1>2. CASE n = 1
  BY <1>1, <1>2, FS_RemoveElement
<1>3. CASE n = 0
  <2>1. T = S
    BY <1>3
  <2> QED BY <1>1, <1>3, <2>1
<1> QED
  BY <1>2, <1>3

\* Everything counted is finite.
LEMMA PartsFinite ==
  /\ IsFiniteSet(RunningParts) /\ IsFiniteSet(JobsOnCPU) /\ IsFiniteSet(JobsClassifying)
  /\ IsFiniteSet(JobsOnFaceLane) /\ \A d \in Disks : IsFiniteSet(JobReads(d))
<1>1. IsFiniteSet(0..MaxLent)
  BY CapacityConstants, FS_Interval
<1>2. IsFiniteSet(JobIds \X (0..MaxLent))
  BY <1>1, CapacityConstants, FS_Product
<1>3. IsFiniteSet(RunningParts)
  BY <1>2, FS_Subset DEF RunningParts
<1> QED
  BY <1>3, FS_Subset DEF JobsOnCPU, JobsClassifying, JobsOnFaceLane, JobReads

LEMMA HoldersFinite ==
  /\ \A k : IsFiniteSet({j \in JobIds : job[j].kind = k})
  /\ \A pc, d : IsFiniteSet(ReadersIn(pc, d))
  /\ \A d : IsFiniteSet({r \in Readers : reader[r].ahead = d})
  /\ \A d : IsFiniteSet({v \in Viewers : viewer[v] = d})
BY CapacityConstants, FS_Subset DEF ReadersIn

\* What one resource's users become when a part starts.
LEMMA PartStarts ==
  ASSUME CapTypeOK, CapTypeOK', NEW j \in JobIds, NEW i \in 0..MaxLent, i \notin Parts(j),
         Parts(j)' = Parts(j) \cup {i},
         \A h \in JobIds \ {j} : job'[h] = job[h],
         \A m \in Parts(j) : PartDemand(j, m)' = PartDemand(j, m),
         Parts(j) # {} => job'[j].disk = job[j].disk,
         NEW demand \in Resources, PartDemand(j, i)' = demand
  PROVE  /\ Cardinality(JobsOnCPU)' = Cardinality(JobsOnCPU) + demand.cpu
         /\ Cardinality(JobsClassifying)' = Cardinality(JobsClassifying) + demand.classifier
         /\ Cardinality(JobsOnFaceLane)' = Cardinality(JobsOnFaceLane) + demand.faceLane
         /\ \A d \in Disks : Cardinality(JobReads(d))' =
              Cardinality(JobReads(d)) + IF job'[j].disk = d THEN demand.read ELSE 0
<1> DEFINE p == <<j, i>>
<1>1. p \notin RunningParts
  BY DEF RunningParts
<1>2. RunningParts' = RunningParts \cup {p}
  <2>1. \A h \in JobIds \ {j} : Parts(h)' = Parts(h)
    BY DEF Parts
  <2>2. ASSUME NEW h \in JobIds, NEW m \in 0..MaxLent
        PROVE  <<h, m>> \in RunningParts' <=> <<h, m>> \in RunningParts \cup {p}
    BY <2>1 DEF RunningParts
  <2>3. /\ RunningParts \subseteq JobIds \X (0..MaxLent)
        /\ RunningParts' \subseteq JobIds \X (0..MaxLent)
        /\ p \in JobIds \X (0..MaxLent)
    BY DEF RunningParts
  <2> HIDE DEF p
  <2> QED BY <2>2, <2>3
<1>3. ASSUME NEW q \in RunningParts
      PROVE  PartDemand(q[1], q[2])' = PartDemand(q[1], q[2]) /\ job'[q[1]].disk = job[q[1]].disk
  <2>1. q[1] \in JobIds /\ q[2] \in Parts(q[1])
    BY DEF RunningParts
  <2>2. CASE q[1] = j
    BY <2>1, <2>2
  <2>3. CASE q[1] # j
    BY <2>1, <2>3 DEF PartDemand
  <2> QED BY <2>2, <2>3
<1>4. p[1] = j /\ p[2] = i
  OBVIOUS
<1> HIDE DEF p
<1>5. /\ demand.cpu = 1 => JobsOnCPU' = JobsOnCPU \cup {p}
      /\ demand.cpu = 0 => JobsOnCPU' = JobsOnCPU
      /\ p \notin JobsOnCPU
  BY <1>1, <1>2, <1>3, <1>4 DEF JobsOnCPU
<1>6. /\ demand.classifier = 1 => JobsClassifying' = JobsClassifying \cup {p}
      /\ demand.classifier = 0 => JobsClassifying' = JobsClassifying
      /\ p \notin JobsClassifying
  BY <1>1, <1>2, <1>3, <1>4 DEF JobsClassifying
<1>7. /\ demand.faceLane = 1 => JobsOnFaceLane' = JobsOnFaceLane \cup {p}
      /\ demand.faceLane = 0 => JobsOnFaceLane' = JobsOnFaceLane
      /\ p \notin JobsOnFaceLane
  BY <1>1, <1>2, <1>3, <1>4 DEF JobsOnFaceLane
<1>8. ASSUME NEW d \in Disks
      PROVE  Cardinality(JobReads(d))' =
               Cardinality(JobReads(d)) + IF job'[j].disk = d THEN demand.read ELSE 0
  <2> DEFINE n == IF job'[j].disk = d THEN demand.read ELSE 0
  <2>1. /\ n = 1 => JobReads(d)' = JobReads(d) \cup {p}
        /\ n = 0 => JobReads(d)' = JobReads(d)
        /\ p \notin JobReads(d)
    BY <1>1, <1>2, <1>3, <1>4, DemandFields DEF JobReads
  <2>2. n \in 0..1
    BY DemandFields
  <2> HIDE DEF n
  <2>3. Cardinality(JobReads(d)') = Cardinality(JobReads(d)) + n
    BY <2>1, <2>2, PartsFinite, CountMore
  <2> QED BY <2>3 DEF n
<1>9. Cardinality(JobsOnCPU') = Cardinality(JobsOnCPU) + demand.cpu
  BY <1>5, PartsFinite, CountMore, DemandFields
<1>10. Cardinality(JobsClassifying') = Cardinality(JobsClassifying) + demand.classifier
  BY <1>6, PartsFinite, CountMore, DemandFields
<1>11. Cardinality(JobsOnFaceLane') = Cardinality(JobsOnFaceLane) + demand.faceLane
  BY <1>7, PartsFinite, CountMore, DemandFields
<1> QED
  BY <1>8, <1>9, <1>10, <1>11

\* And when one ends.
LEMMA PartEnds ==
  ASSUME CapTypeOK, CapTypeOK', NEW j \in JobIds, NEW i \in 0..MaxLent, i \in Parts(j),
         Parts(j)' = Parts(j) \ {i},
         \A h \in JobIds \ {j} : job'[h] = job[h],
         \A m \in Parts(j)' : PartDemand(j, m)' = PartDemand(j, m),
         Parts(j)' # {} => job'[j].disk = job[j].disk,
         NEW demand \in Resources, PartDemand(j, i) = demand
  PROVE  /\ Cardinality(JobsOnCPU)' = Cardinality(JobsOnCPU) - demand.cpu
         /\ Cardinality(JobsClassifying)' = Cardinality(JobsClassifying) - demand.classifier
         /\ Cardinality(JobsOnFaceLane)' = Cardinality(JobsOnFaceLane) - demand.faceLane
         /\ \A d \in Disks : Cardinality(JobReads(d))' =
              Cardinality(JobReads(d)) - IF job[j].disk = d THEN demand.read ELSE 0
<1> DEFINE p == <<j, i>>
<1>1. p \in RunningParts
  BY DEF RunningParts
<1>2. RunningParts' = RunningParts \ {p}
  <2>1. \A h \in JobIds \ {j} : Parts(h)' = Parts(h)
    BY DEF Parts
  <2>2. ASSUME NEW h \in JobIds, NEW m \in 0..MaxLent
        PROVE  <<h, m>> \in RunningParts' <=> <<h, m>> \in RunningParts \ {p}
    BY <2>1 DEF RunningParts
  <2>3. /\ RunningParts \subseteq JobIds \X (0..MaxLent)
        /\ RunningParts' \subseteq JobIds \X (0..MaxLent)
        /\ p \in JobIds \X (0..MaxLent)
    BY DEF RunningParts
  <2> HIDE DEF p
  <2> QED BY <2>2, <2>3
<1>3. ASSUME NEW q \in RunningParts'
      PROVE  PartDemand(q[1], q[2])' = PartDemand(q[1], q[2]) /\ job'[q[1]].disk = job[q[1]].disk
  <2>1. q[1] \in JobIds /\ q[2] \in Parts(q[1])'
    BY DEF RunningParts
  <2>2. CASE q[1] = j
    BY <2>1, <2>2
  <2>3. CASE q[1] # j
    BY <2>1, <2>3 DEF PartDemand
  <2> QED BY <2>2, <2>3
<1>4. p[1] = j /\ p[2] = i
  OBVIOUS
<1> HIDE DEF p
<1>5. JobsOnCPU' = JobsOnCPU \ {p} /\ (p \in JobsOnCPU <=> demand.cpu = 1)
  BY <1>1, <1>2, <1>3, <1>4 DEF JobsOnCPU
<1>6. JobsClassifying' = JobsClassifying \ {p} /\ (p \in JobsClassifying <=> demand.classifier = 1)
  BY <1>1, <1>2, <1>3, <1>4 DEF JobsClassifying
<1>7. JobsOnFaceLane' = JobsOnFaceLane \ {p} /\ (p \in JobsOnFaceLane <=> demand.faceLane = 1)
  BY <1>1, <1>2, <1>3, <1>4 DEF JobsOnFaceLane
<1>8. ASSUME NEW d \in Disks
      PROVE  Cardinality(JobReads(d))' =
               Cardinality(JobReads(d)) - IF job[j].disk = d THEN demand.read ELSE 0
  <2> DEFINE n == IF job[j].disk = d THEN demand.read ELSE 0
  <2>1. JobReads(d)' = JobReads(d) \ {p} /\ (p \in JobReads(d) <=> n = 1)
    BY <1>1, <1>2, <1>3, <1>4, DemandFields DEF JobReads
  <2>2. n \in 0..1
    BY DemandFields
  <2> HIDE DEF n
  <2>3. Cardinality(JobReads(d)') = Cardinality(JobReads(d)) - n
    BY <2>1, <2>2, PartsFinite, CountLess
  <2> QED BY <2>3 DEF n
<1>9. Cardinality(JobsOnCPU') = Cardinality(JobsOnCPU) - demand.cpu
  BY <1>5, PartsFinite, CountLess, DemandFields
<1>10. Cardinality(JobsClassifying') = Cardinality(JobsClassifying) - demand.classifier
  BY <1>6, PartsFinite, CountLess, DemandFields
<1>11. Cardinality(JobsOnFaceLane') = Cardinality(JobsOnFaceLane) - demand.faceLane
  BY <1>7, PartsFinite, CountLess, DemandFields
<1> QED
  BY <1>8, <1>9, <1>10, <1>11

\* The conservation of slots, by what holds them.
JobCounts ==
  /\ cpuUsed = Cardinality(JobsOnCPU)
  /\ classifierUsed = Cardinality(JobsClassifying)
  /\ faceLaneUsed = Cardinality(JobsOnFaceLane)
  /\ \A d \in Disks : readUsed[d] = Cardinality(JobReads(d)) + scanHeld[d]

KindCounts == \A k \in Kinds : running[k] = Cardinality({j \in JobIds : job[j].kind = k})

ReaderCounts ==
  \A d \in Disks :
    /\ scanHeld[d] = Cardinality(ReadersIn("reading", d))
    /\ scanWaiting[d] = Cardinality(ReadersIn("waiting", d))
    /\ scanAhead[d] = Cardinality({r \in Readers : reader[r].ahead = d})

ViewerCounts == \A d \in Disks : foreground[d] = Cardinality({v \in Viewers : viewer[v] = d})

LEMMA Holders == SlotsConserved <=> JobCounts /\ KindCounts /\ ReaderCounts /\ ViewerCounts
BY DEF SlotsConserved, JobCounts, KindCounts, ReaderCounts, ViewerCounts

\* The parts of a resource's counters move together with what a job holds.
LEMMA JobTakes ==
  ASSUME CapTypeOK, CapTypeOK', JobCounts,
         NEW j \in JobIds, NEW i \in 0..MaxLent, i \notin Parts(j),
         Parts(j)' = Parts(j) \cup {i},
         \A h \in JobIds \ {j} : job'[h] = job[h],
         \A m \in Parts(j) : PartDemand(j, m)' = PartDemand(j, m),
         Parts(j) # {} => job'[j].disk = job[j].disk,
         NEW demand \in Resources, PartDemand(j, i)' = demand,
         NEW d \in AllDisks, job'[j].disk = d, Take(d, demand), scanHeld' = scanHeld
  PROVE  JobCounts'
<1>1. /\ cpuUsed' = cpuUsed + demand.cpu /\ classifierUsed' = classifierUsed + demand.classifier
      /\ faceLaneUsed' = faceLaneUsed + demand.faceLane
      /\ \A e \in Disks : readUsed'[e] = readUsed[e] + IF d = e THEN demand.read ELSE 0
  BY DemandFields DEF Take, CapTypeOK, AllDisks
<1>2. /\ Cardinality(JobsOnCPU)' = Cardinality(JobsOnCPU) + demand.cpu
      /\ Cardinality(JobsClassifying)' = Cardinality(JobsClassifying) + demand.classifier
      /\ Cardinality(JobsOnFaceLane)' = Cardinality(JobsOnFaceLane) + demand.faceLane
      /\ \A e \in Disks : Cardinality(JobReads(e))' =
           Cardinality(JobReads(e)) + IF d = e THEN demand.read ELSE 0
  BY PartStarts
<1>3. ASSUME NEW e \in Disks PROVE (readUsed[e] = Cardinality(JobReads(e)) + scanHeld[e])'
  <2>1. Cardinality(JobReads(e)) \in Nat /\ scanHeld[e] \in Int
    BY PartsFinite, FS_CardinalityType DEF CapTypeOK, AllDisks
  <2>2. (IF d = e THEN demand.read ELSE 0) \in 0..1
    BY DemandFields
  <2> QED BY <1>1, <1>2, <2>1, <2>2 DEF JobCounts
<1> QED
  BY <1>1, <1>2, <1>3 DEF JobCounts

LEMMA JobReturns ==
  ASSUME CapTypeOK, CapTypeOK', JobCounts, NEW j \in JobIds, NEW i \in 0..MaxLent, i \in Parts(j),
         Parts(j)' = Parts(j) \ {i},
         \A h \in JobIds \ {j} : job'[h] = job[h],
         \A m \in Parts(j)' : PartDemand(j, m)' = PartDemand(j, m),
         Parts(j)' # {} => job'[j].disk = job[j].disk,
         NEW demand \in Resources, PartDemand(j, i) = demand,
         NEW d \in AllDisks, job[j].disk = d, GiveBack(d, demand), scanHeld' = scanHeld
  PROVE  JobCounts'
<1>1. /\ cpuUsed' = cpuUsed - demand.cpu /\ classifierUsed' = classifierUsed - demand.classifier
      /\ faceLaneUsed' = faceLaneUsed - demand.faceLane
      /\ \A e \in Disks : readUsed'[e] = readUsed[e] - IF d = e THEN demand.read ELSE 0
  BY DemandFields DEF GiveBack, CapTypeOK, AllDisks
<1>2. /\ Cardinality(JobsOnCPU)' = Cardinality(JobsOnCPU) - demand.cpu
      /\ Cardinality(JobsClassifying)' = Cardinality(JobsClassifying) - demand.classifier
      /\ Cardinality(JobsOnFaceLane)' = Cardinality(JobsOnFaceLane) - demand.faceLane
      /\ \A e \in Disks : Cardinality(JobReads(e))' =
           Cardinality(JobReads(e)) - IF d = e THEN demand.read ELSE 0
  BY PartEnds
<1>3. ASSUME NEW e \in Disks PROVE (readUsed[e] = Cardinality(JobReads(e)) + scanHeld[e])'
  <2>1. Cardinality(JobReads(e)) \in Nat /\ scanHeld[e] \in Int
    BY PartsFinite, FS_CardinalityType DEF CapTypeOK, AllDisks
  <2>2. (IF d = e THEN demand.read ELSE 0) \in 0..1
    BY DemandFields
  <2> QED BY <1>1, <1>2, <2>1, <2>2 DEF JobCounts
<1> QED
  BY <1>1, <1>2, <1>3 DEF JobCounts

\* One job more, or one less, of a kind.
LEMMA KindTakes ==
  ASSUME CapTypeOK, CapTypeOK', KindCounts, NEW j \in JobIds, job[j].kind = NoKind, NEW k \in Kinds,
         job'[j].kind = k, \A h \in JobIds \ {j} : job'[h] = job[h],
         running' = [running EXCEPT ![k] = @ + 1]
  PROVE  KindCounts'
<1> SUFFICES ASSUME NEW q \in Kinds
             PROVE  running'[q] = Cardinality({h \in JobIds : job'[h].kind = q})
  BY DEF KindCounts
<1> DEFINE S == {h \in JobIds : job[h].kind = q}
           T == {h \in JobIds : job'[h].kind = q}
           n == IF q = k THEN 1 ELSE 0
<1>1. running'[q] = running[q] + n /\ running[q] = Cardinality(S)
  <2>1. running[q] = Cardinality(S)
    BY DEF KindCounts
  <2>2. running'[q] = running[q] + n
    BY DEF CapTypeOK
  <2> QED BY <2>1, <2>2
<1>2. j \notin S /\ IsFiniteSet(S) /\ n \in 0..1
  <2>1. IsFiniteSet(S)
    BY CapacityConstants, FS_Subset
  <2> QED BY <2>1, CapacityConstants
<1>3. (n = 1 => T = S \cup {j}) /\ (n = 0 => T = S)
  BY CapacityConstants
<1> HIDE DEF S, T, n
<1>4. Cardinality(T) = Cardinality(S) + n
  BY <1>2, <1>3, CountMore
<1> QED
  BY <1>1, <1>4 DEF T

LEMMA KindReturns ==
  ASSUME CapTypeOK, CapTypeOK', KindCounts, NEW j \in JobIds, NEW k \in Kinds, job[j].kind = k,
         job'[j].kind = NoKind, \A h \in JobIds \ {j} : job'[h] = job[h],
         running' = [running EXCEPT ![k] = @ - 1]
  PROVE  KindCounts'
<1> SUFFICES ASSUME NEW q \in Kinds
             PROVE  running'[q] = Cardinality({h \in JobIds : job'[h].kind = q})
  BY DEF KindCounts
<1> DEFINE S == {h \in JobIds : job[h].kind = q}
           T == {h \in JobIds : job'[h].kind = q}
           n == IF q = k THEN 1 ELSE 0
<1>1. running'[q] = running[q] - n /\ running[q] = Cardinality(S)
  <2>1. running[q] = Cardinality(S)
    BY DEF KindCounts
  <2>2. running'[q] = running[q] - n
    BY DEF CapTypeOK
  <2> QED BY <2>1, <2>2
<1>2. (j \in S <=> n = 1) /\ IsFiniteSet(S) /\ n \in 0..1
  <2>1. IsFiniteSet(S)
    BY CapacityConstants, FS_Subset
  <2> QED BY <2>1
<1>3. T = S \ {j}
  BY CapacityConstants
<1> HIDE DEF S, T, n
<1>4. Cardinality(T) = Cardinality(S) - n
  BY <1>2, <1>3, CountLess
<1> QED
  BY <1>1, <1>4 DEF T

\* Where the readers are, apart from one of them.
LEMMA ReaderMoves ==
  ASSUME CapTypeOK, NEW r \in Readers, NEW S, IsFiniteSet(S), NEW T, S \subseteq Readers,
         T \subseteq Readers, \A q \in Readers \ {r} : q \in T <=> q \in S
  PROVE  /\ r \in S => Cardinality(T) = Cardinality(S) - (IF r \in T THEN 0 ELSE 1)
         /\ r \notin S => Cardinality(T) = Cardinality(S) + (IF r \in T THEN 1 ELSE 0)
<1>1. Cardinality(S) \in Nat
  BY FS_CardinalityType
<1>2. CASE r \in T <=> r \in S
  <2>1. T = S
    BY <1>2
  <2> QED BY <1>1, <1>2, <2>1
<1>3. CASE r \in T /\ r \notin S
  <2>1. T = S \cup {r}
    BY <1>3
  <2> QED BY <1>1, <1>3, <2>1, FS_AddElement
<1>4. CASE r \notin T /\ r \in S
  <2>1. T = S \ {r}
    BY <1>4
  <2> QED BY <1>1, <1>4, <2>1, FS_RemoveElement
<1> QED
  BY <1>2, <1>3, <1>4

LEMMA ReadersStay ==
  ASSUME CapTypeOK, ReaderCounts, UNCHANGED <<scanHeld, scanWaiting, scanAhead>>,
         reader' = reader \/ Broadcast
  PROVE  ReaderCounts'
<1>1. \A r \in Readers : /\ reader'[r].pc = reader[r].pc /\ reader'[r].disk = reader[r].disk
                         /\ reader'[r].ahead = reader[r].ahead
  BY DEF Broadcast, Signalled, CapTypeOK, ReaderStates
<1>2. \A pc, d : ReadersIn(pc, d)' = ReadersIn(pc, d)
  BY <1>1 DEF ReadersIn
<1>3. \A d : {r \in Readers : reader'[r].ahead = d} = {r \in Readers : reader[r].ahead = d}
  BY <1>1
<1>4. \A d : /\ Cardinality(ReadersIn("reading", d))' = Cardinality(ReadersIn("reading", d))
             /\ Cardinality(ReadersIn("waiting", d))' = Cardinality(ReadersIn("waiting", d))
             /\ Cardinality({r \in Readers : reader[r].ahead = d})' =
                  Cardinality({r \in Readers : reader[r].ahead = d})
  BY <1>2, <1>3
<1> QED
  BY <1>4 DEF ReaderCounts

\* One reader's share of the counts of a disk.
Share(rd, pc, d) == IF rd.pc = pc /\ rd.disk = d THEN 1 ELSE 0
AheadShare(rd, d) == IF rd.ahead = d THEN 1 ELSE 0

LEMMA Shares == \A rd, pc, d : Share(rd, pc, d) \in 0..1 /\ AheadShare(rd, d) \in 0..1
BY DEF Share, AheadShare

\* Every reader but r stays where it is.
OthersStay(r) ==
  \A q \in Readers \ {r} : /\ reader'[q].pc = reader[q].pc
                           /\ reader'[q].disk = reader[q].disk
                           /\ reader'[q].ahead = reader[q].ahead

\* How one reader's move changes the counts.
LEMMA PlaceMoved ==
  ASSUME CapTypeOK, NEW r \in Readers, OthersStay(r), NEW pc, NEW d
  PROVE  Cardinality(ReadersIn(pc, d))' =
           Cardinality(ReadersIn(pc, d)) + Share(reader'[r], pc, d) - Share(reader[r], pc, d)
<1> DEFINE S == ReadersIn(pc, d)
           T == ReadersIn(pc, d)'
<1>1. IsFiniteSet(S)
  BY HoldersFinite
<1>2. S \subseteq Readers /\ T \subseteq Readers
  BY DEF ReadersIn
<1>3. \A q \in Readers \ {r} : q \in T <=> q \in S
  BY DEF ReadersIn, OthersStay
<1>4. /\ r \in S <=> (reader[r].pc = pc /\ reader[r].disk = d)
      /\ r \in T <=> (reader'[r].pc = pc /\ reader'[r].disk = d)
  BY DEF ReadersIn
<1>5. Share(reader[r], pc, d) = (IF r \in S THEN 1 ELSE 0)
      /\ Share(reader'[r], pc, d) = (IF r \in T THEN 1 ELSE 0)
  BY <1>4 DEF Share
<1> HIDE DEF S, T
<1>6. Cardinality(S) \in Nat
  BY <1>1, FS_CardinalityType
<1>7. /\ r \in S => Cardinality(T) = Cardinality(S) - (IF r \in T THEN 0 ELSE 1)
      /\ r \notin S => Cardinality(T) = Cardinality(S) + (IF r \in T THEN 1 ELSE 0)
  BY <1>1, <1>2, <1>3, ReaderMoves
<1>8. Cardinality(T) = Cardinality(S) + Share(reader'[r], pc, d) - Share(reader[r], pc, d)
  BY <1>5, <1>6, <1>7
<1> QED
  BY <1>8 DEF S, T

LEMMA AheadMoved ==
  ASSUME CapTypeOK, NEW r \in Readers, OthersStay(r), NEW d
  PROVE  Cardinality({q \in Readers : reader'[q].ahead = d}) =
           Cardinality({q \in Readers : reader[q].ahead = d})
             + AheadShare(reader'[r], d) - AheadShare(reader[r], d)
<1> DEFINE S == {q \in Readers : reader[q].ahead = d}
           T == {q \in Readers : reader'[q].ahead = d}
<1>1. IsFiniteSet(S) /\ S \subseteq Readers /\ T \subseteq Readers
  BY CapacityConstants, FS_Subset
<1>2. \A q \in Readers \ {r} : q \in T <=> q \in S
  BY DEF OthersStay
<1>3. AheadShare(reader[r], d) = (IF r \in S THEN 1 ELSE 0)
      /\ AheadShare(reader'[r], d) = (IF r \in T THEN 1 ELSE 0)
  BY DEF AheadShare
<1> HIDE DEF S, T
<1>4. Cardinality(S) \in Nat
  BY <1>1, FS_CardinalityType
<1>5. /\ r \in S => Cardinality(T) = Cardinality(S) - (IF r \in T THEN 0 ELSE 1)
      /\ r \notin S => Cardinality(T) = Cardinality(S) + (IF r \in T THEN 1 ELSE 0)
  BY <1>1, <1>2, ReaderMoves
<1>6. Cardinality(T) = Cardinality(S) + AheadShare(reader'[r], d) - AheadShare(reader[r], d)
  BY <1>3, <1>4, <1>5
<1> QED
  BY <1>6 DEF S, T

\* The scan counters of capacity.go move with the reader.
Counted(r) ==
  \A d \in Disks :
    /\ scanHeld'[d] = scanHeld[d] + Share(reader'[r], "reading", d) - Share(reader[r], "reading", d)
    /\ scanWaiting'[d] = scanWaiting[d]
                           + Share(reader'[r], "waiting", d) - Share(reader[r], "waiting", d)
    /\ scanAhead'[d] = scanAhead[d] + AheadShare(reader'[r], d) - AheadShare(reader[r], d)

LEMMA ReaderCounted ==
  ASSUME CapTypeOK, ReaderCounts, NEW r \in Readers, OthersStay(r), Counted(r)
  PROVE  ReaderCounts'
<1> SUFFICES ASSUME NEW d \in Disks
             PROVE  /\ scanHeld'[d] = Cardinality(ReadersIn("reading", d))'
                    /\ scanWaiting'[d] = Cardinality(ReadersIn("waiting", d))'
                    /\ scanAhead'[d] = Cardinality({q \in Readers : reader'[q].ahead = d})
  BY DEF ReaderCounts
<1>1. scanHeld[d] = Cardinality(ReadersIn("reading", d))
      /\ scanWaiting[d] = Cardinality(ReadersIn("waiting", d))
  BY DEF ReaderCounts
<1>2. scanAhead[d] = Cardinality({q \in Readers : reader[q].ahead = d})
  BY DEF ReaderCounts
<1>3. scanHeld'[d] = Cardinality(ReadersIn("reading", d))'
  <2>1. Cardinality(ReadersIn("reading", d))' =
          Cardinality(ReadersIn("reading", d))
            + Share(reader'[r], "reading", d) - Share(reader[r], "reading", d)
    BY PlaceMoved
  <2> QED BY <1>1, <2>1 DEF Counted
<1>4. scanWaiting'[d] = Cardinality(ReadersIn("waiting", d))'
  <2>1. Cardinality(ReadersIn("waiting", d))' =
          Cardinality(ReadersIn("waiting", d))
            + Share(reader'[r], "waiting", d) - Share(reader[r], "waiting", d)
    BY PlaceMoved
  <2> QED BY <1>1, <2>1 DEF Counted
<1>5. scanAhead'[d] = Cardinality({q \in Readers : reader'[q].ahead = d})
  <2> DEFINE S == {q \in Readers : reader[q].ahead = d}
             T == {q \in Readers : reader'[q].ahead = d}
  <2>1. Cardinality(T) = Cardinality(S) + AheadShare(reader'[r], d) - AheadShare(reader[r], d)
    BY AheadMoved
  <2>2. scanAhead[d] = Cardinality(S)
    BY <1>2
  <2> HIDE DEF S, T
  <2>3. scanAhead'[d] = Cardinality(T)
    BY <2>1, <2>2 DEF Counted
  <2> QED BY <2>3 DEF T
<1> QED
  BY <1>3, <1>4, <1>5

\* What the scan's reads do to a disk's slots.
LEMMA ReadsCounted ==
  ASSUME CapTypeOK, CapTypeOK', JobCounts, job' = job,
         UNCHANGED <<cpuUsed, classifierUsed, faceLaneUsed>>,
         \A d \in Disks : readUsed'[d] - scanHeld'[d] = readUsed[d] - scanHeld[d]
  PROVE  JobCounts'
<1>1. ASSUME NEW d \in Disks PROVE readUsed'[d] = Cardinality(JobReads(d)) + scanHeld'[d]
  <2>1. Cardinality(JobReads(d)) \in Nat /\ scanHeld[d] \in Int /\ scanHeld'[d] \in Int
        /\ readUsed[d] \in Int /\ readUsed'[d] \in Int
    BY PartsFinite, FS_CardinalityType DEF CapTypeOK, AllDisks
  <2> QED BY <2>1 DEF JobCounts
<1>2. /\ JobsOnCPU' = JobsOnCPU /\ JobsClassifying' = JobsClassifying
      /\ JobsOnFaceLane' = JobsOnFaceLane
      /\ \A d \in Disks : JobReads(d)' = JobReads(d)
  BY DEF JobsOnCPU, JobsClassifying, JobsOnFaceLane, JobReads, RunningParts, Parts, PartDemand
<1> QED
  BY <1>1, <1>2 DEF JobCounts

\* What one action of a scan's reads does to the counts of capacity.go.
ScanMove(r) ==
  /\ OthersStay(r) /\ Counted(r) /\ job' = job
  /\ UNCHANGED <<cpuUsed, classifierUsed, faceLaneUsed, running, foreground, viewer>>
  /\ \A d \in Disks : readUsed'[d] - scanHeld'[d] = readUsed[d] - scanHeld[d]

\* A reader takes a place, with the others left alone or woken.
Placed(r, pc, d) ==
  /\ reader'[r].pc = pc /\ reader'[r].disk = d /\ reader'[r].ahead = reader[r].ahead
  /\ OthersStay(r)

LEMMA PlacedAt ==
  ASSUME CapTypeOK, NEW r \in Readers,
         NEW pc \in {"idle", "waiting", "reading"}, NEW d \in AllDisks,
         \/ reader' = [reader EXCEPT ![r] = At(reader[r], pc, d)]
         \/ reader' = [q \in Readers |->
              IF q = r THEN At(reader[q], pc, d) ELSE Signalled(reader[q])]
  PROVE  Placed(r, pc, d)
<1>1. reader'[r] = At(reader[r], pc, d)
  BY DEF CapTypeOK
<1>2. \A q \in Readers \ {r} : reader'[q] = reader[q] \/ reader'[q] = Signalled(reader[q])
  BY DEF CapTypeOK
<1>3. OthersStay(r)
  BY <1>2 DEF OthersStay, Signalled, CapTypeOK, ReaderStates
<1> QED
  BY <1>1, <1>3 DEF Placed, At

\* The arithmetic of a reader that goes from one place to another.
LEMMA ReaderGoes ==
  ASSUME CapTypeOK, NEW r \in Readers, NEW pc, NEW d \in AllDisks, Placed(r, pc, d),
         reader[r].pc = "idle" \/ reader[r].disk = d \/ d \notin Disks,
         scanAhead' = scanAhead,
         \A e \in Disks :
           /\ scanHeld'[e] = scanHeld[e] + (IF pc = "reading" /\ d = e THEN 1 ELSE 0)
                               - (IF reader[r].pc = "reading" /\ reader[r].disk = e THEN 1 ELSE 0)
           /\ scanWaiting'[e] = scanWaiting[e] + (IF pc = "waiting" /\ d = e THEN 1 ELSE 0)
                               - (IF reader[r].pc = "waiting" /\ reader[r].disk = e THEN 1 ELSE 0)
  PROVE  Counted(r)
<1>1. ASSUME NEW e \in Disks
      PROVE  /\ Share(reader'[r], "reading", e) = (IF pc = "reading" /\ d = e THEN 1 ELSE 0)
             /\ Share(reader'[r], "waiting", e) = (IF pc = "waiting" /\ d = e THEN 1 ELSE 0)
             /\ AheadShare(reader'[r], e) = AheadShare(reader[r], e)
  BY DEF Share, AheadShare, Placed
<1>2. ASSUME NEW e \in Disks
      PROVE  scanAhead'[e] = scanAhead[e] + AheadShare(reader'[r], e) - AheadShare(reader[r], e)
  <2>1. scanAhead[e] \in Int
    BY DEF CapTypeOK, AllDisks
  <2> QED BY <1>1, <2>1, Shares
<1>3. ASSUME NEW e \in Disks
      PROVE  /\ scanHeld'[e] = scanHeld[e] + Share(reader'[r], "reading", e)
                                 - Share(reader[r], "reading", e)
             /\ scanWaiting'[e] = scanWaiting[e] + Share(reader'[r], "waiting", e)
                                    - Share(reader[r], "waiting", e)
  BY <1>1 DEF Share
<1> QED
  BY <1>2, <1>3 DEF Counted

LEMMA ScanActions ==
  ASSUME CapInv, NEW r \in Readers,
         \/ \E d \in Disks : AcquireScanRead(r, d) \/ KeepScanAhead(r, d)
         \/ RetryScanRead(r) \/ CancelScanRead(r) \/ ReleaseScanRead(r) \/ EndScanAhead(r)
  PROVE  ScanMove(r)
<1>0. /\ CapTypeOK /\ NoDisk \notin Disks /\ Disks \subseteq AllDisks /\ NoDisk \in AllDisks
      /\ reader[r] \in ReaderStates /\ reader \in [Readers -> ReaderStates]
      /\ (reader[r].pc # "idle" => reader[r].disk \in Disks)
  BY CapacityConstants DEF CapInv, CapTypeOK, Located, AllDisks
<1>1. /\ readUsed \in [AllDisks -> Int] /\ scanHeld \in [AllDisks -> Int]
      /\ scanWaiting \in [AllDisks -> Int] /\ scanAhead \in [AllDisks -> Int]
  BY <1>0 DEF CapTypeOK
<1>4. job' = job /\ UNCHANGED <<cpuUsed, classifierUsed, faceLaneUsed, running, foreground, viewer>>
  BY DEF AcquireScanRead, TakeScanSlot, KeepScanAhead, RetryScanRead, CancelScanRead,
    ReleaseScanRead, EndScanAhead, slotVars
<1> DEFINE Reads == \A d \in Disks : readUsed'[d] - scanHeld'[d] = readUsed[d] - scanHeld[d]
<1>5. ASSUME NEW d \in Disks, AcquireScanRead(r, d) PROVE OthersStay(r) /\ Counted(r) /\ Reads
  <2>1. CASE ScanSlotFree(d) /\ TakeScanSlot(r, d) /\ UNCHANGED scanWaiting
    <3>1. Placed(r, "reading", d)
      BY <1>0, <2>1, PlacedAt DEF TakeScanSlot
    <3>2. scanAhead' = scanAhead /\ reader[r].pc = "idle"
      BY <1>5 DEF AcquireScanRead
    <3>3. \A e \in Disks : /\ scanHeld'[e] = scanHeld[e] + (IF d = e THEN 1 ELSE 0)
                           /\ readUsed'[e] = readUsed[e] + (IF d = e THEN 1 ELSE 0)
                           /\ scanWaiting'[e] = scanWaiting[e]
      BY <1>0, <1>1, <2>1 DEF TakeScanSlot
    <3>6. \A e \in Disks :
            /\ scanHeld'[e] = scanHeld[e] + (IF d = e THEN 1 ELSE 0)
                                 - (IF reader[r].pc = "reading" /\ reader[r].disk = e THEN 1 ELSE 0)
            /\ scanWaiting'[e] = scanWaiting[e] + 0
                                 - (IF reader[r].pc = "waiting" /\ reader[r].disk = e THEN 1 ELSE 0)
      BY <1>0, <1>1, <3>2, <3>3
    <3>4. Counted(r)
      BY <1>0, <3>1, <3>2, <3>6, ReaderGoes
    <3>5. Reads
      BY <1>0, <1>1, <3>3
    <3> QED BY <3>1, <3>4, <3>5 DEF Placed
  <2>2. CASE /\ ~ScanSlotFree(d)
             /\ scanWaiting' = [scanWaiting EXCEPT ![d] = @ + 1]
             /\ reader' = [reader EXCEPT ![r] = At(reader[r], "waiting", d)]
             /\ UNCHANGED <<readUsed, scanHeld>>
    <3>1. Placed(r, "waiting", d)
      BY <1>0, <2>2, PlacedAt
    <3>2. scanAhead' = scanAhead /\ reader[r].pc = "idle"
      BY <1>5 DEF AcquireScanRead
    <3>3. \A e \in Disks : /\ scanHeld'[e] = scanHeld[e] /\ readUsed'[e] = readUsed[e]
                           /\ scanWaiting'[e] = scanWaiting[e] + (IF d = e THEN 1 ELSE 0)
      BY <1>0, <1>1, <2>2
    <3>4. Counted(r)
      BY <1>0, <1>1, <3>1, <3>2, <3>3, ReaderGoes
    <3>5. Reads
      BY <1>0, <1>1, <3>3
    <3> QED BY <3>1, <3>4, <3>5 DEF Placed
  <2> QED BY <1>5, <2>1, <2>2 DEF AcquireScanRead
<1>6. ASSUME RetryScanRead(r) PROVE OthersStay(r) /\ Counted(r) /\ Reads
  <2> DEFINE d == reader[r].disk
  <2>0. d \in Disks /\ reader[r].pc = "waiting" /\ scanAhead' = scanAhead
    BY <1>0, <1>6 DEF RetryScanRead
  <2> HIDE DEF d
  <2>1. CASE TakeScanSlot(r, d) /\ scanWaiting' = [scanWaiting EXCEPT ![d] = @ - 1]
    <3>1. Placed(r, "reading", d)
      BY <1>0, <2>0, <2>1, PlacedAt DEF TakeScanSlot
    <3>3. \A e \in Disks : /\ scanHeld'[e] = scanHeld[e] + (IF d = e THEN 1 ELSE 0)
                           /\ readUsed'[e] = readUsed[e] + (IF d = e THEN 1 ELSE 0)
                           /\ scanWaiting'[e] = scanWaiting[e] - (IF d = e THEN 1 ELSE 0)
      BY <1>0, <1>1, <2>0, <2>1 DEF TakeScanSlot
    <3>4. Counted(r)
      BY <1>0, <1>1, <2>0, <3>1, <3>3, ReaderGoes DEF d
    <3>5. Reads
      BY <1>0, <1>1, <3>3
    <3> QED BY <3>1, <3>4, <3>5 DEF Placed
  <2>2. CASE /\ reader' = [reader EXCEPT ![r] = At(reader[r], "waiting", d)]
             /\ UNCHANGED <<readUsed, scanHeld, scanWaiting>>
    <3>1. Placed(r, "waiting", d)
      BY <1>0, <2>0, <2>2, PlacedAt
    <3>3. \A e \in Disks : /\ scanHeld'[e] = scanHeld[e] /\ readUsed'[e] = readUsed[e]
                           /\ scanWaiting'[e] = scanWaiting[e]
      BY <2>2
    <3>4. Counted(r)
      BY <1>0, <1>1, <2>0, <3>1, <3>3, ReaderGoes DEF d
    <3>5. Reads
      BY <1>0, <1>1, <3>3
    <3> QED BY <3>1, <3>4, <3>5 DEF Placed
  <2> QED BY <1>6, <2>1, <2>2 DEF RetryScanRead, d
<1>7. ASSUME CancelScanRead(r) PROVE OthersStay(r) /\ Counted(r) /\ Reads
  <2>0. /\ reader[r].disk \in Disks /\ reader[r].pc = "waiting" /\ scanAhead' = scanAhead
        /\ scanWaiting' = [scanWaiting EXCEPT ![reader[r].disk] = @ - 1]
        /\ readUsed' = readUsed /\ scanHeld' = scanHeld
    BY <1>0, <1>7 DEF CancelScanRead, slotVars
  <2>1. Placed(r, "idle", NoDisk)
    BY <1>0, <1>7, PlacedAt DEF CancelScanRead
  <2>2. \A e \in Disks : scanWaiting'[e] = scanWaiting[e] - (IF reader[r].disk = e THEN 1 ELSE 0)
    BY <1>0, <1>1, <2>0
  <2>3. Counted(r)
    BY <1>0, <1>1, <2>0, <2>1, <2>2, ReaderGoes
  <2> QED BY <2>0, <2>1, <2>3 DEF Placed
<1>8. ASSUME ReleaseScanRead(r) PROVE OthersStay(r) /\ Counted(r) /\ Reads
  <2>0. /\ reader[r].disk \in Disks /\ reader[r].pc = "reading" /\ scanAhead' = scanAhead
        /\ scanWaiting' = scanWaiting
        /\ readUsed' = [readUsed EXCEPT ![reader[r].disk] = @ - 1]
        /\ scanHeld' = [scanHeld EXCEPT ![reader[r].disk] = @ - 1]
    BY <1>0, <1>8 DEF ReleaseScanRead
  <2>1. Placed(r, "idle", NoDisk)
    BY <1>0, <1>8, PlacedAt DEF ReleaseScanRead
  <2>2. \A e \in Disks : /\ scanHeld'[e] = scanHeld[e] - (IF reader[r].disk = e THEN 1 ELSE 0)
                         /\ readUsed'[e] = readUsed[e] - (IF reader[r].disk = e THEN 1 ELSE 0)
    BY <1>0, <1>1, <2>0
  <2>3. Counted(r)
    BY <1>0, <1>1, <2>0, <2>1, <2>2, ReaderGoes
  <2>4. Reads
    BY <1>0, <1>1, <2>2
  <2> QED BY <2>1, <2>3, <2>4 DEF Placed
<1>9. ASSUME NEW d \in Disks, KeepScanAhead(r, d) PROVE OthersStay(r) /\ Counted(r) /\ Reads
  <2>0. /\ scanHeld' = scanHeld /\ scanWaiting' = scanWaiting /\ readUsed' = readUsed
        /\ scanAhead' = [scanAhead EXCEPT ![d] = @ + 1] /\ reader[r].ahead = NoDisk
        /\ reader' = [reader EXCEPT ![r] = Ahead(reader[r], d)]
    BY <1>9 DEF KeepScanAhead, slotVars
  <2>1. OthersStay(r) /\ reader'[r] = Ahead(reader[r], d)
    BY <1>0, <2>0 DEF OthersStay
  <2>2. \A e \in Disks : /\ Share(reader'[r], "reading", e) = Share(reader[r], "reading", e)
                         /\ Share(reader'[r], "waiting", e) = Share(reader[r], "waiting", e)
                         /\ AheadShare(reader'[r], e) = IF d = e THEN 1 ELSE 0
                         /\ AheadShare(reader[r], e) = 0
    BY <1>0, <2>0, <2>1 DEF Share, AheadShare, Ahead
  <2>3. \A e \in Disks : scanAhead'[e] = scanAhead[e] + IF d = e THEN 1 ELSE 0
    BY <1>0, <1>1, <2>0
  <2>4. Counted(r)
    BY <1>0, <1>1, <2>0, <2>2, <2>3, Shares DEF Counted
  <2> QED BY <2>0, <2>1, <2>4
<1>10. ASSUME EndScanAhead(r) PROVE OthersStay(r) /\ Counted(r) /\ Reads
  <2> DEFINE d == reader[r].ahead
  <2>0. /\ scanHeld' = scanHeld /\ scanWaiting' = scanWaiting /\ readUsed' = readUsed
        /\ scanAhead' = [scanAhead EXCEPT ![d] = @ - 1] /\ d \in Disks
        /\ reader' = [q \in Readers |->
             IF q = r THEN Ahead(reader[q], NoDisk) ELSE Signalled(reader[q])]
    BY <1>0, <1>10 DEF EndScanAhead, slotVars, ReaderStates, AllDisks
  <2>1. OthersStay(r) /\ reader'[r] = Ahead(reader[r], NoDisk)
    BY <1>0, <2>0 DEF OthersStay, Signalled, ReaderStates
  <2>2. \A e \in Disks : /\ Share(reader'[r], "reading", e) = Share(reader[r], "reading", e)
                         /\ Share(reader'[r], "waiting", e) = Share(reader[r], "waiting", e)
                         /\ AheadShare(reader'[r], e) = 0
                         /\ AheadShare(reader[r], e) = IF d = e THEN 1 ELSE 0
    BY <1>0, <2>0, <2>1 DEF Share, AheadShare, Ahead
  <2> HIDE DEF d
  <2>3. \A e \in Disks : scanAhead'[e] = scanAhead[e] - IF d = e THEN 1 ELSE 0
    BY <1>0, <1>1, <2>0
  <2>4. Counted(r)
    BY <1>0, <1>1, <2>0, <2>2, <2>3, Shares DEF Counted
  <2> QED BY <2>0, <2>1, <2>4
<1>11. OthersStay(r) /\ Counted(r) /\ Reads
  <2> HIDE DEF Reads
  <2> QED BY <1>5, <1>6, <1>7, <1>8, <1>9, <1>10
<1> QED
  BY <1>4, <1>11 DEF ScanMove

\* One foreground reader more, or one less, of a disk.
LEMMA ViewerMoves ==
  ASSUME CapTypeOK, ViewerCounts, NEW v \in Viewers, NEW from \in AllDisks, NEW to \in AllDisks,
         viewer[v] = from, viewer' = [viewer EXCEPT ![v] = to],
         \A d \in Disks : foreground'[d] = foreground[d] + (IF d = to THEN 1 ELSE 0)
                                                         - (IF d = from THEN 1 ELSE 0)
  PROVE  ViewerCounts'
<1> SUFFICES ASSUME NEW d \in Disks
             PROVE  foreground'[d] = Cardinality({w \in Viewers : viewer'[w] = d})
  BY DEF ViewerCounts
<1> DEFINE S == {w \in Viewers : viewer[w] = d}
           T == {w \in Viewers : viewer'[w] = d}
<1>1. foreground[d] = Cardinality(S)
  BY DEF ViewerCounts
<1>2. IsFiniteSet(S)
  BY CapacityConstants, FS_Subset
<1>3. viewer'[v] = to /\ \A w \in Viewers \ {v} : viewer'[w] = viewer[w]
  BY DEF CapTypeOK
<1>4. /\ v \in S <=> from = d
      /\ v \in T <=> to = d
      /\ \A w \in Viewers \ {v} : w \in T <=> w \in S
      /\ S \subseteq Viewers /\ T \subseteq Viewers
  BY <1>3
<1> HIDE DEF S, T
<1>5. Cardinality(S) \in Nat
  BY <1>2, FS_CardinalityType
<1>6. CASE from = d /\ to # d
  <2>1. T = S \ {v} /\ v \in S
    BY <1>4, <1>6
  <2>2. Cardinality(T) = Cardinality(S) - 1
    BY <1>2, <2>1, FS_RemoveElement
  <2> QED BY <1>1, <1>5, <1>6, <2>2 DEF T
<1>7. CASE from # d /\ to = d
  <2>1. T = S \cup {v} /\ v \notin S
    BY <1>4, <1>7
  <2>2. Cardinality(T) = Cardinality(S) + 1
    BY <1>2, <2>1, FS_AddElement
  <2> QED BY <1>1, <1>5, <1>7, <2>2 DEF T
<1>8. CASE from = d <=> to = d
  <2>1. \A w \in Viewers : w \in T <=> w \in S
    BY <1>4, <1>8
  <2>2. T = S
    BY <1>4, <2>1
  <2>3. foreground'[d] = foreground[d] /\ foreground[d] \in Int
    <3>1. foreground[d] \in Int
      BY DEF CapTypeOK, AllDisks
    <3>2. CASE from = d /\ to = d
      BY <3>1, <3>2
    <3>3. CASE from # d /\ to # d
      BY <3>1, <3>3
    <3> QED BY <1>8, <3>1, <3>2, <3>3
  <2> QED BY <1>1, <2>2, <2>3 DEF T
<1> QED
  BY <1>6, <1>7, <1>8

\* Where nothing a kind or a job holds is touched.
LEMMA JobsStay ==
  ASSUME JobCounts, KindCounts, job' = job, UNCHANGED <<slotVars, scanHeld, running>>
  PROVE  JobCounts' /\ KindCounts'
<1>1. /\ JobsOnCPU' = JobsOnCPU /\ JobsClassifying' = JobsClassifying
      /\ JobsOnFaceLane' = JobsOnFaceLane
      /\ \A d : JobReads(d)' = JobReads(d)
  BY DEF JobsOnCPU, JobsClassifying, JobsOnFaceLane, JobReads, RunningParts, Parts, PartDemand
<1> QED
  BY <1>1 DEF JobCounts, KindCounts, slotVars

LEMMA KindsStay ==
  ASSUME CapTypeOK, KindCounts, NEW j \in JobIds, running' = running,
         job'[j].kind = job[j].kind, \A h \in JobIds \ {j} : job'[h] = job[h]
  PROVE  KindCounts'
<1>1. \A k : {h \in JobIds : job'[h].kind = k} = {h \in JobIds : job[h].kind = k}
  OBVIOUS
<1> QED
  BY <1>1 DEF KindCounts

\* A job goroutine that runs nothing has no part on a lent slot.
FreeHoldsNothing == \A j \in JobIds : job[j].kind = NoKind => job[j].lent = 0

\* No step leaks a slot or returns one twice: one case per critical section.
LEMMA ConserveStep ==
  CapInv /\ FreeHoldsNothing /\ SlotsConserved /\ [CapNext]_capVars
    => FreeHoldsNothing' /\ SlotsConserved'
<1> SUFFICES ASSUME CapInv, [CapNext]_capVars, SlotsConserved, FreeHoldsNothing
             PROVE  FreeHoldsNothing' /\ SlotsConserved'
  OBVIOUS
<1> DEFINE Goal == FreeHoldsNothing' /\ JobCounts' /\ KindCounts' /\ ReaderCounts' /\ ViewerCounts'
<1>0. /\ CapTypeOK /\ CapTypeOK' /\ Located
      /\ JobCounts /\ KindCounts /\ ReaderCounts /\ ViewerCounts
  BY TypeStep, Holders DEF CapInv
<1>1. ASSUME NEW j \in JobIds, NEW k \in Kinds, NEW d \in DiskOf(k), ReserveJob(j, d, k) PROVE Goal
  <2>1. d \in AllDisks /\ Demand[k] \in Resources /\ NoKind \notin Kinds
    BY CapacityConstants DEF DiskOf, AllDisks
  <2>2. /\ job[j].kind = NoKind /\ job' = [job EXCEPT ![j] = Granted(k, d)]
        /\ Take(d, Demand[k]) /\ running' = [running EXCEPT ![k] = @ + 1]
        /\ UNCHANGED <<scanHeld, scanWaiting, scanAhead, reader, foreground, viewer>>
    BY <1>1 DEF ReserveJob, scanVars
  <2>3. job'[j] = Granted(k, d) /\ \A h \in JobIds \ {j} : job'[h] = job[h]
    BY <1>0, <2>2 DEF CapTypeOK
  <2>4. job'[j].kind = k /\ job'[j].disk = d /\ job'[j].lent = 0
    BY <2>3 DEF Granted
  <2>5. Parts(j) = {} /\ 0 \in 0..MaxLent
    BY <2>2, CapacityConstants DEF Parts
  <2>6. Parts(j)' = Parts(j) \cup {0}
    BY <2>1, <2>4, <2>5 DEF Parts
  <2>7. PartDemand(j, 0)' = Demand[k]
    BY <2>4 DEF PartDemand
  <2>8. JobCounts'
    BY <1>0, <2>1, <2>2, <2>3, <2>4, <2>5, <2>6, <2>7, JobTakes
  <2>9. KindCounts'
    BY <1>0, <2>2, <2>3, <2>4, KindTakes
  <2>10. ReaderCounts' /\ ViewerCounts'
    BY <1>0, <2>2, ReadersStay DEF ViewerCounts
  <2>11. FreeHoldsNothing'
    BY <2>3, <2>4 DEF FreeHoldsNothing
  <2> QED BY <2>8, <2>9, <2>10, <2>11
<1>2. ASSUME NEW j \in JobIds, ReleaseJob(j) PROVE Goal
  <2> DEFINE k == job[j].kind
             d == job[j].disk
  <2>1. d \in AllDisks /\ k \in Kinds /\ Demand[k] \in Resources /\ NoKind \notin Kinds
    BY <1>0, <1>2, CapacityConstants DEF ReleaseJob, CapTypeOK, JobStates
  <2>2. /\ job[j].lent = 0 /\ job' = [job EXCEPT ![j] = FreeJob]
        /\ GiveBack(d, Demand[k]) /\ running' = [running EXCEPT ![k] = @ - 1] /\ Broadcast
        /\ UNCHANGED <<scanHeld, scanWaiting, scanAhead, foreground, viewer>>
    BY <1>2 DEF ReleaseJob
  <2>3. job'[j] = FreeJob /\ \A h \in JobIds \ {j} : job'[h] = job[h]
    BY <1>0, <2>2 DEF CapTypeOK
  <2>4. job'[j].kind = NoKind
    BY <2>3 DEF FreeJob, Granted
  <2>5. Parts(j) = {0} /\ Parts(j)' = {} /\ 0 \in 0..MaxLent
    BY <2>1, <2>2, <2>4, CapacityConstants DEF Parts
  <2>6. Parts(j)' = Parts(j) \ {0}
    BY <2>5
  <2>7. PartDemand(j, 0) = Demand[k]
    BY DEF PartDemand
  <2>8. JobCounts'
    BY <1>0, <2>1, <2>2, <2>3, <2>5, <2>6, <2>7, JobReturns
  <2>9. KindCounts'
    BY <1>0, <2>1, <2>2, <2>3, <2>4, KindReturns
  <2>10. ReaderCounts' /\ ViewerCounts'
    BY <1>0, <2>2, ReadersStay DEF ViewerCounts
  <2>11. FreeHoldsNothing'
    <3>1. job'[j].lent = 0
      BY <2>3 DEF FreeJob, Granted
    <3> QED BY <2>3, <3>1 DEF FreeHoldsNothing
  <2> QED BY <2>8, <2>9, <2>10, <2>11
<1>3. ASSUME NEW j \in JobIds, NEW part \in LentDemands, TryAcquire(j, part) PROVE Goal
  <2> DEFINE d == job[j].disk
  <2>0. /\ d \in AllDisks /\ job[j].kind # NoKind /\ part \in Resources
        /\ job[j].lent \in 0..MaxLent /\ job[j].lent < MaxLent /\ MaxLent \in Nat
        /\ (job[j].lent > 0 => part = job[j].part)
    BY <1>0, <1>3, CapacityConstants DEF TryAcquire, CapTypeOK, JobStates
  <2>14. PICK i \in 0..MaxLent : i = job[j].lent + 1
    BY <2>0
  <2>1. /\ d \in AllDisks /\ job[j].kind # NoKind /\ part \in Resources
        /\ job[j].lent \in 0..MaxLent /\ i = job[j].lent + 1 /\ i > 0 /\ MaxLent \in Nat
        /\ (job[j].lent > 0 => part = job[j].part)
    BY <2>0, <2>14
  <2>2. /\ job' = [job EXCEPT ![j] = WithLent(j, i, part)]
        /\ Take(d, part) /\ running' = running
        /\ UNCHANGED <<scanHeld, scanWaiting, scanAhead, reader, foreground, viewer>>
    BY <1>3, <2>14 DEF TryAcquire, scanVars
  <2>3. job'[j] = WithLent(j, i, part) /\ \A h \in JobIds \ {j} : job'[h] = job[h]
    BY <1>0, <2>2 DEF CapTypeOK
  <2>4. job'[j].kind = job[j].kind /\ job'[j].disk = d /\ job'[j].lent = i /\ job'[j].part = part
    BY <2>3 DEF WithLent
  <2>5. Parts(j) = 0..job[j].lent /\ Parts(j)' = 0..i
    BY <2>1, <2>4 DEF Parts
  <2>6. i \notin Parts(j) /\ Parts(j)' = Parts(j) \cup {i}
    BY <2>1, <2>5
  <2>7. PartDemand(j, i)' = part
    BY <2>1, <2>4 DEF PartDemand
  <2>8. \A m \in Parts(j) : PartDemand(j, m)' = PartDemand(j, m)
    BY <2>1, <2>4, <2>5 DEF PartDemand
  <2> HIDE DEF d
  <2>9. JobCounts'
    <3>1. d \in AllDisks /\ part \in Resources /\ i \in 0..MaxLent
      BY <2>1
    <3>2. Take(d, part) /\ scanHeld' = scanHeld /\ job'[j].disk = d
      BY <2>2, <2>4
    <3>3. job'[j].disk = job[j].disk
      BY <2>4 DEF d
    <3>4. \A h \in JobIds \ {j} : job'[h] = job[h]
      BY <2>3
    <3> QED BY <1>0, <2>6, <2>7, <2>8, <3>1, <3>2, <3>3, <3>4, JobTakes
  <2>10. KindCounts'
    BY <1>0, <2>2, <2>3, <2>4, KindsStay
  <2>11. ReaderCounts' /\ ViewerCounts'
    BY <1>0, <2>2, ReadersStay DEF ViewerCounts
  <2>12. FreeHoldsNothing'
    BY <2>1, <2>3, <2>4 DEF FreeHoldsNothing
  <2> QED BY <2>9, <2>10, <2>11, <2>12
<1>4. ASSUME NEW j \in JobIds, ReleaseLent(j) PROVE Goal
  <2> DEFINE d == job[j].disk
             i == job[j].lent
             p == IF job[j].lent = 1 THEN NoPart ELSE job[j].part
  <2>1. /\ d \in AllDisks /\ job[j].part \in Resources
        /\ i \in 0..MaxLent /\ i > 0 /\ MaxLent \in Nat
    BY <1>0, <1>4, CapacityConstants DEF ReleaseLent, CapTypeOK, JobStates
  <2>2. /\ job' = [job EXCEPT ![j] = WithLent(j, i - 1, p)]
        /\ GiveBack(d, job[j].part) /\ running' = running /\ Broadcast
        /\ UNCHANGED <<scanHeld, scanWaiting, scanAhead, foreground, viewer>>
    BY <1>4 DEF ReleaseLent
  <2>3. job'[j] = WithLent(j, i - 1, p) /\ \A h \in JobIds \ {j} : job'[h] = job[h]
    BY <1>0, <2>2 DEF CapTypeOK
  <2>4. job'[j].kind = job[j].kind /\ job'[j].disk = d /\ job'[j].lent = i - 1
        /\ (i > 1 => job'[j].part = job[j].part)
    BY <2>1, <2>3 DEF WithLent
  <2>5. job[j].kind # NoKind
    BY <2>1 DEF FreeHoldsNothing
  <2>6. Parts(j) = 0..i /\ Parts(j)' = 0..(i - 1)
    BY <2>4, <2>5 DEF Parts
  <2>7. i \in Parts(j) /\ Parts(j)' = Parts(j) \ {i}
    BY <2>1, <2>6
  <2>8. PartDemand(j, i) = job[j].part
    BY <2>1 DEF PartDemand
  <2>9. \A m \in Parts(j)' : PartDemand(j, m)' = PartDemand(j, m)
    BY <2>1, <2>4, <2>6 DEF PartDemand
  <2>10. FreeHoldsNothing'
    BY <2>3, <2>4, <2>5 DEF FreeHoldsNothing
  <2> HIDE DEF d, i, p
  <2>11. JobCounts'
    BY <1>0, <2>1, <2>2, <2>3, <2>4, <2>7, <2>8, <2>9, JobReturns DEF d
  <2>12. KindCounts'
    BY <1>0, <2>2, <2>3, <2>4, KindsStay
  <2>13. ReaderCounts' /\ ViewerCounts'
    BY <1>0, <2>2, ReadersStay DEF ViewerCounts
  <2> QED BY <2>10, <2>11, <2>12, <2>13
<1>5. ASSUME NEW r \in Readers,
             \/ \E d \in Disks : AcquireScanRead(r, d) \/ KeepScanAhead(r, d)
             \/ RetryScanRead(r) \/ CancelScanRead(r) \/ ReleaseScanRead(r) \/ EndScanAhead(r)
      PROVE  Goal
  <2>1. ScanMove(r)
    BY <1>5, ScanActions
  <2>2. ReaderCounts'
    BY <1>0, <2>1, ReaderCounted DEF ScanMove
  <2>3. JobCounts'
    BY <1>0, <2>1, ReadsCounted DEF ScanMove
  <2>4. KindCounts' /\ ViewerCounts' /\ FreeHoldsNothing'
    BY <1>0, <2>1 DEF ScanMove, KindCounts, ViewerCounts, FreeHoldsNothing
  <2> QED BY <2>2, <2>3, <2>4
<1>6. ASSUME NEW v \in Viewers, NEW d \in Disks, HoldForeground(v, d) PROVE Goal
  <2>1. /\ viewer[v] = NoDisk /\ viewer' = [viewer EXCEPT ![v] = d] /\ job' = job
        /\ foreground' = [foreground EXCEPT ![d] = @ + 1]
        /\ UNCHANGED <<slotVars, running, scanHeld, scanWaiting, scanAhead, reader>>
    BY <1>6 DEF HoldForeground, scanVars
  <2>2. NoDisk \in AllDisks /\ d \in AllDisks /\ NoDisk \notin Disks
    BY CapacityConstants DEF AllDisks
  <2>3. \A e \in Disks : foreground'[e] = foreground[e] + (IF e = d THEN 1 ELSE 0)
                                                        - (IF e = NoDisk THEN 1 ELSE 0)
    BY <1>0, <2>1, <2>2 DEF CapTypeOK, AllDisks
  <2>4. ViewerCounts'
    BY <1>0, <2>1, <2>2, <2>3, ViewerMoves
  <2>5. JobCounts' /\ KindCounts'
    BY <1>0, <2>1, JobsStay
  <2>6. ReaderCounts' /\ FreeHoldsNothing'
    BY <1>0, <2>1, ReadersStay DEF FreeHoldsNothing
  <2> QED BY <2>4, <2>5, <2>6
<1>7. ASSUME NEW v \in Viewers, ReleaseForeground(v) PROVE Goal
  <2>1. /\ viewer' = [viewer EXCEPT ![v] = NoDisk] /\ job' = job /\ Broadcast
        /\ foreground' = [foreground EXCEPT ![viewer[v]] = @ - 1] /\ viewer[v] # NoDisk
        /\ UNCHANGED <<slotVars, running, scanHeld, scanWaiting, scanAhead>>
    BY <1>7 DEF ReleaseForeground
  <2>2. NoDisk \in AllDisks /\ viewer[v] \in AllDisks /\ NoDisk \notin Disks
    BY <1>0, CapacityConstants DEF AllDisks, CapTypeOK
  <2>3. \A e \in Disks : foreground'[e] = foreground[e] + (IF e = NoDisk THEN 1 ELSE 0)
                                                        - (IF e = viewer[v] THEN 1 ELSE 0)
    BY <1>0, <2>1, <2>2 DEF CapTypeOK, AllDisks
  <2>4. ViewerCounts'
    BY <1>0, <2>1, <2>2, <2>3, ViewerMoves
  <2>5. JobCounts' /\ KindCounts'
    BY <1>0, <2>1, JobsStay
  <2>6. ReaderCounts' /\ FreeHoldsNothing'
    BY <1>0, <2>1, ReadersStay DEF FreeHoldsNothing
  <2> QED BY <2>4, <2>5, <2>6
<1>8. ASSUME NEW ds \in SUBSET Disks, SetDisks(ds) PROVE Goal
  <2>1. /\ job' = job /\ Broadcast
        /\ UNCHANGED <<slotVars, running, scanHeld, scanWaiting, scanAhead, foreground, viewer>>
    BY <1>8 DEF SetDisks
  <2>2. JobCounts' /\ KindCounts'
    BY <1>0, <2>1, JobsStay
  <2>3. ReaderCounts' /\ FreeHoldsNothing' /\ ViewerCounts'
    BY <1>0, <2>1, ReadersStay DEF FreeHoldsNothing, ViewerCounts
  <2> QED BY <2>2, <2>3
<1>9. ASSUME UNCHANGED capVars PROVE Goal
  <2>1. UNCHANGED <<job, slotVars, running, scanHeld, scanWaiting, scanAhead, reader, foreground,
                    viewer>>
    BY <1>9 DEF capVars, scanVars
  <2>2. JobCounts' /\ KindCounts'
    BY <1>0, <2>1, JobsStay
  <2>3. ReaderCounts' /\ FreeHoldsNothing' /\ ViewerCounts'
    BY <1>0, <2>1, ReadersStay DEF FreeHoldsNothing, ViewerCounts
  <2> QED BY <2>2, <2>3
<1>10. Goal
  <2> HIDE DEF Goal
  <2> QED BY <1>1, <1>2, <1>3, <1>4, <1>5, <1>6, <1>7, <1>8, <1>9 DEF CapNext
<1> QED
  BY <1>10 DEF JobCounts, KindCounts, ReaderCounts, ViewerCounts, SlotsConserved

\* An empty process holds nothing.
LEMMA ConserveStart == CapInit => FreeHoldsNothing /\ SlotsConserved
<1> SUFFICES ASSUME CapInit PROVE FreeHoldsNothing /\ SlotsConserved
  OBVIOUS
<1>1. NoDisk \notin Disks /\ NoKind \notin Kinds /\ Disks \subseteq AllDisks
  BY CapacityConstants DEF AllDisks
<1>2. Cardinality({}) = 0
  BY FS_EmptySet
<1>3. \A j \in JobIds : job[j].kind = NoKind /\ job[j].lent = 0
  BY DEF CapInit, FreeJob, Granted
<1>4. /\ RunningParts = {} /\ \A k \in Kinds : {j \in JobIds : job[j].kind = k} = {}
  BY <1>1, <1>3 DEF RunningParts, Parts
<1>5. /\ JobsOnCPU = {} /\ JobsClassifying = {} /\ JobsOnFaceLane = {}
      /\ \A d \in Disks : JobReads(d) = {}
  BY <1>4 DEF JobsOnCPU, JobsClassifying, JobsOnFaceLane, JobReads
<1>6. /\ \A d \in Disks : /\ ReadersIn("reading", d) = {} /\ ReadersIn("waiting", d) = {}
                          /\ {r \in Readers : reader[r].ahead = d} = {}
                          /\ {v \in Viewers : viewer[v] = d} = {}
  BY <1>1 DEF CapInit, ReadersIn
<1>7. JobCounts
  BY <1>1, <1>2, <1>5 DEF JobCounts, CapInit
<1>8. KindCounts
  BY <1>2, <1>4 DEF KindCounts, CapInit
<1>9. ReaderCounts /\ ViewerCounts
  BY <1>1, <1>2, <1>6 DEF ReaderCounts, ViewerCounts, CapInit
<1> QED
  BY <1>3, <1>6, <1>7, <1>8, <1>9, Holders DEF FreeHoldsNothing

\* No slot leaks and none is returned twice, for every machine, every number of
\* job goroutines, split parts, scans and viewers, and every order in which they
\* come and go: each counter of capacity.go is the number of its holders.
THEOREM SlotsAreConserved == CapSpec => []SlotsConserved
<1> DEFINE Inv == CapInv /\ FreeHoldsNothing /\ SlotsConserved
<1>1. CapInit => Inv
  BY CapStart, ConserveStart
<1>2. Inv /\ [CapNext]_capVars => Inv'
  BY CapStep, ConserveStep
<1>3. Inv => SlotsConserved
  OBVIOUS
<1> HIDE DEF Inv
<1> QED
  BY <1>1, <1>2, <1>3, PTL DEF CapSpec

\* The slot a scan is owed between two reads: it reads ahead on the disk and is
\* not reading, while whoever reads for a scan there reads ahead too.
LEMMA OwedSlotIsKept ==
  ASSUME CapTypeOK, SlotsConserved, NEW d \in Disks, NEW r \in Readers,
         reader[r].ahead = d, reader[r].pc = "idle",
         \A q \in ReadersIn("reading", d) : reader[q].ahead = d
  PROVE  Kept(d) \in Nat /\ Kept(d) > 0
<1> DEFINE S == ReadersIn("reading", d)
           T == {q \in Readers : reader[q].ahead = d}
<1>1. IsFiniteSet(T)
  BY CapacityConstants, FS_Subset
<1>2. S \subseteq T /\ r \in T /\ r \notin S
  BY DEF ReadersIn
<1>3. scanHeld[d] = Cardinality(S) /\ scanAhead[d] = Cardinality(T)
  BY DEF SlotsConserved
<1> HIDE DEF S, T
<1>4. /\ Cardinality(S) \in Nat /\ Cardinality(T) \in Nat
      /\ Cardinality(S) < Cardinality(T)
  <2>1. IsFiniteSet(S) /\ S # T
    BY <1>1, <1>2, FS_Subset
  <2>2. Cardinality(S) <= Cardinality(T)
    BY <1>1, <1>2, FS_Subset
  <2>3. Cardinality(S) # Cardinality(T)
    BY <1>1, <1>2, <2>1, FS_Subset
  <2>4. Cardinality(S) \in Nat /\ Cardinality(T) \in Nat
    BY <1>1, <2>1, FS_CardinalityType
  <2> QED BY <2>2, <2>3, <2>4
<1> QED
  BY <1>3, <1>4 DEF Kept

\* Whatever jobs and split parts take while a scan works through a folder, they
\* leave the slot its next read can take at once.
THEOREM ScanSlotIsKept == CapSpec => ScanKeepsSlot
<1> DEFINE Keeps(d) ==
      /\ readUsed'[d] > readUsed[d]
      /\ scanHeld'[d] = scanHeld[d]
      /\ \E r \in Readers : reader[r].ahead = d /\ reader[r].pc = "idle"
      /\ \A r \in ReadersIn("reading", d) : reader[r].ahead = d
      => readUsed'[d] < ReadLimit(d, ReadSlots(d))
<1>1. CapTypeOK /\ SlotsConserved /\ [CapNext]_capVars => [\A d \in Disks : Keeps(d)]_capVars
  <2> SUFFICES ASSUME CapTypeOK, SlotsConserved, [CapNext]_capVars, NEW d \in Disks,
                      readUsed'[d] > readUsed[d], scanHeld'[d] = scanHeld[d],
                      NEW r \in Readers, reader[r].ahead = d, reader[r].pc = "idle",
                      \A q \in ReadersIn("reading", d) : reader[q].ahead = d
               PROVE  readUsed'[d] < ReadLimit(d, ReadSlots(d))
    OBVIOUS
  <2>1. scanHeld[d] \in Int /\ SlotsOf[d] \in Nat /\ readUsed'[d] \in Int
    BY TypeStep, CapacityConstants DEF CapTypeOK, AllDisks
  <2>2. readUsed'[d] + Kept(d) <= ReadLimit(d, ReadSlots(d))
    BY <2>1, WhoStartsReads DEF ReadStarts
  <2>3. Kept(d) \in Nat /\ Kept(d) > 0
    BY OwedSlotIsKept
  <2>4. ReadLimit(d, ReadSlots(d)) \in Int
    BY <2>1 DEF ReadLimit, ReadSlots
  <2> QED
    BY <2>1, <2>2, <2>3, <2>4
<1> QED
  BY <1>1, TypeCorrect, SlotsAreConserved, PTL DEF CapSpec, ScanKeepsSlot
=============================================================================
