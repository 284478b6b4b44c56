-------------------------- MODULE SchedulerProofs --------------------------
(***************************************************************************)
(* What the scheduler's loop, its job goroutines and the slots of Capacity *)
(* promise together, for every set of folders, disks, kinds, subjects and  *)
(* goroutines.                                                             *)
(***************************************************************************)
EXTENDS Scheduler, CapacityProofs, FunctionTheorems, FiniteSetTheorems, WellFoundedInduction,
        SequenceTheorems

FolderRecords ==
  [path : Paths \cup {NoPath}, disk : Disks \cup {NoDisk},
   unavailable : BOOLEAN, resolving : BOOLEAN, late : BOOLEAN]

\* The goroutine of the present turn that resolves f.
Asked(f) ==
  \E r \in resolvers : r.fresh /\ r.folder = f /\ r.path = known[f].path

Awaited(f) ==
  /\ ~known[f].resolving /\ ~known[f].unavailable => known[f].disk = DiskAt[known[f].path]
  /\ known[f].resolving /\ ~known[f].late => refresh = "waiting" /\ Asked(f)
  /\ known[f].resolving /\ known[f].late => known[f].unavailable

RootsInv ==
  /\ R!RootsTypeOK
  /\ \A f \in R!Known : Awaited(f)

\* Where the folders are part of the whole scheduler, a job parks a folder that
\* may have come back since the job looked at it, and whatever returns a slot
\* is about to call Wake.
Beside ==
  \/ \E f \in R!Known : R!MarkUnavailable(f)
  \/ owed' = TRUE /\ UNCHANGED <<folderPath, share, known, resolvers, recheck, minuteUp, refresh>>

RootsOrBeside == R!RootsNext \/ Beside

-----------------------------------------------------------------------------
(* Types.                                                                  *)

\* The states the operations on roots.known build.
LEMMA FolderBuilt ==
  ASSUME NEW p \in Paths, NEW disk \in Disks \cup {NoDisk}, NEW unavailable \in BOOLEAN
  PROVE  /\ R!State(p) \in FolderRecords /\ R!Unknown \in FolderRecords
         /\ [R!State(p) EXCEPT !.disk = disk, !.unavailable = unavailable] \in FolderRecords
BY DEF R!State, R!Unknown, FolderRecords

LEMMA Marked ==
  ASSUME NEW state \in FolderRecords
  PROVE  /\ [state EXCEPT !.unavailable = TRUE] \in FolderRecords
         /\ [state EXCEPT !.unavailable = TRUE, !.late = TRUE] \in FolderRecords
         /\ [state EXCEPT !.resolving = TRUE, !.late = FALSE] \in FolderRecords
BY DEF FolderRecords

\* What the steps make of roots.known and of the resolvers.
LEMMA BeginType ==
  ASSUME R!RootsTypeOK, R!BeginRefresh
  PROVE  known' \in [Folders -> FolderRecords] /\ resolvers' \subseteq R!Resolvers
<1>1. known \in [Folders -> FolderRecords] /\ folderPath \in [Folders -> Paths \cup {NoPath}]
  BY DEF R!RootsTypeOK, FolderRecords
<1>2. ASSUME NEW f \in Folders, f \in R!Pending PROVE R!Entered(f) \in FolderRecords
  <2>1. folderPath[f] \in Paths
    BY <1>1, <1>2 DEF R!Pending
  <2>2. R!State(folderPath[f]) \in FolderRecords
    BY <2>1, FolderBuilt
  <2> QED BY <1>1, <2>2, Marked DEF R!Entered
<1>3. known' \in [Folders -> FolderRecords]
  BY <1>1, <1>2, FolderBuilt DEF R!BeginRefresh, R!Unknown, R!State, FolderRecords
<1>4. \A f \in R!Pending : f \in Folders /\ folderPath[f] \in Paths
  BY <1>1 DEF R!Pending
<1>5. \A f \in R!Pending :
        [folder |-> f, path |-> folderPath[f], answer |-> "none", fresh |-> TRUE] \in R!Resolvers
  BY <1>4 DEF R!Resolvers
<1>6. resolvers' = resolvers \cup
        {[folder |-> f, path |-> folderPath[f], answer |-> "none", fresh |-> TRUE] :
           f \in R!Pending}
  BY DEF R!BeginRefresh
<1>7. resolvers \subseteq R!Resolvers
  BY DEF R!RootsTypeOK
<1>8. resolvers' \subseteq R!Resolvers
  BY <1>5, <1>6, <1>7
<1> QED
  BY <1>3, <1>8

\* Every step keeps the types: one case per action.
LEMMA RootsTypeStep == R!RootsTypeOK /\ [RootsOrBeside]_rootVars => R!RootsTypeOK'
<1> SUFFICES ASSUME R!RootsTypeOK, [RootsOrBeside]_rootVars PROVE R!RootsTypeOK'
  OBVIOUS
<1> USE DEF R!RootsTypeOK
<1>0. known \in [Folders -> FolderRecords] /\ resolvers \subseteq R!Resolvers
  BY DEF FolderRecords
<1>1. ASSUME NEW f \in Folders, NEW p \in Paths \cup {NoPath}, R!SetFolder(f, p)
      PROVE  R!RootsTypeOK'
  BY <1>1 DEF R!SetFolder
<1>2. ASSUME NEW p \in Paths, NEW s \in {"readable", "unreadable", "silent"}, R!ShareTurns(p, s)
      PROVE  R!RootsTypeOK'
  BY <1>2 DEF R!ShareTurns
<1>3. CASE R!MinutePasses BY <1>3 DEF R!MinutePasses
<1>4. CASE R!RequestRecheck BY <1>4 DEF R!RequestRecheck
<1>5. CASE R!BeginRefresh
  <2>1. known' \in [Folders -> FolderRecords] /\ resolvers' \subseteq R!Resolvers
    BY <1>5, BeginType
  <2>2. /\ refresh' \in {"idle", "waiting", "served"}
        /\ recheck' \in BOOLEAN /\ minuteUp' \in BOOLEAN
        /\ UNCHANGED <<folderPath, share, owed>>
    BY <1>5 DEF R!BeginRefresh
  <2> QED BY <2>1, <2>2 DEF FolderRecords
<1>6. ASSUME NEW r \in resolvers, R!ResolverReads(r) PROVE R!RootsTypeOK'
  <2>1. PICK answer \in {"disk", "error"} :
          resolvers' = (resolvers \ {r}) \cup {[r EXCEPT !.answer = answer]}
    BY <1>6 DEF R!ResolverReads
  <2>2. [r EXCEPT !.answer = answer] \in R!Resolvers
    BY <1>0 DEF R!Resolvers
  <2>3. resolvers' \subseteq R!Resolvers
    BY <1>0, <2>1, <2>2
  <2> QED BY <1>6, <2>3 DEF R!ResolverReads
<1>7. ASSUME NEW r \in resolvers, R!ResolverAnswers(r) PROVE R!RootsTypeOK'
  <2>1. r \in R!Resolvers /\ r.folder \in Folders /\ r.path \in Paths
    BY <1>0 DEF R!Resolvers
  <2>2. R!Resolved(r) \in FolderRecords
    BY <2>1, SchedulerConstants, FolderBuilt DEF R!Resolved
  <2>3. known' \in [Folders -> FolderRecords]
    BY <1>0, <1>7, <2>1, <2>2 DEF R!ResolverAnswers
  <2>4. resolvers' \subseteq R!Resolvers /\ minuteUp' \in BOOLEAN /\ owed' \in BOOLEAN
    BY <1>0, <1>7 DEF R!ResolverAnswers, R!MinuteAfter, FolderRecords
  <2> QED BY <1>7, <2>3, <2>4 DEF R!ResolverAnswers, FolderRecords
<1>8. CASE R!EndRefresh BY <1>8 DEF R!EndRefresh
<1>9. CASE R!ParkUnanswered
  <2>1. known' \in [Folders -> FolderRecords]
    BY <1>0, <1>9, Marked DEF R!ParkUnanswered
  <2>2. \A r \in resolvers : [r EXCEPT !.fresh = FALSE] \in R!Resolvers
    BY <1>0 DEF R!Resolvers
  <2>3. resolvers' \subseteq R!Resolvers
    BY <1>9, <2>2 DEF R!ParkUnanswered, R!Stale
  <2> QED BY <1>9, <2>1, <2>3 DEF R!ParkUnanswered, R!MinuteAfter, FolderRecords
<1>10. ASSUME NEW f \in R!Known, R!MarkUnavailable(f) PROVE R!RootsTypeOK'
  <2>1. known' = [known EXCEPT ![f] = [known[f] EXCEPT !.unavailable = TRUE]]
    BY <1>0, <1>10 DEF R!MarkUnavailable, R!Known
  <2>2. known' \in [Folders -> FolderRecords]
    BY <1>0, <2>1, Marked DEF R!Known
  <2> QED BY <1>10, <2>2 DEF R!MarkUnavailable, R!MinuteAfter, FolderRecords
<1>11. CASE R!EndTurn BY <1>11 DEF R!EndTurn
<1>12. CASE R!CallWake BY <1>12 DEF R!CallWake
<1>13. CASE UNCHANGED rootVars BY <1>13 DEF rootVars
<1>14. CASE Beside BY <1>10, <1>14 DEF Beside
<1> QED
  BY <1>1, <1>2, <1>3, <1>4, <1>5, <1>6, <1>7, <1>8, <1>9, <1>10, <1>11, <1>12, <1>13, <1>14
  DEF RootsOrBeside, R!RootsNext

-----------------------------------------------------------------------------
(* The inductive invariant.                                                *)

\* A step that changes nothing but the folders' paths, the shares, the clock
\* or the requests keeps it.
LEMMA Aside ==
  ASSUME RootsInv, UNCHANGED <<known, resolvers, refresh>>
  PROVE  \A f \in R!Known' : Awaited(f)'
BY DEF RootsInv, R!Known, Awaited, Asked

\* Every step keeps the invariant: one case per action.
LEMMA RootsStep == RootsInv /\ [RootsOrBeside]_rootVars => RootsInv'
<1> SUFFICES ASSUME RootsInv, [RootsOrBeside]_rootVars PROVE RootsInv'
  OBVIOUS
<1>0. /\ R!RootsTypeOK /\ R!RootsTypeOK'
      /\ known \in [Folders -> FolderRecords] /\ resolvers \subseteq R!Resolvers
      /\ folderPath \in [Folders -> Paths \cup {NoPath}] /\ NoPath \notin Paths
      /\ \A f \in R!Known : Awaited(f)
      /\ R!Known \subseteq Folders
  BY RootsTypeStep, SchedulerConstants, CapacityConstants DEF RootsInv, R!RootsTypeOK,
    FolderRecords, R!Known
<1>1. ASSUME NEW f \in Folders, NEW p \in Paths \cup {NoPath}, R!SetFolder(f, p)
      PROVE  \A g \in R!Known' : Awaited(g)'
  BY <1>1, Aside DEF R!SetFolder
<1>2. ASSUME NEW p \in Paths, NEW s \in {"readable", "unreadable", "silent"}, R!ShareTurns(p, s)
      PROVE  \A g \in R!Known' : Awaited(g)'
  BY <1>2, Aside DEF R!ShareTurns
<1>3. ASSUME R!MinutePasses \/ R!RequestRecheck \/ R!CallWake PROVE \A g \in R!Known' : Awaited(g)'
  BY <1>3, Aside DEF R!MinutePasses, R!RequestRecheck, R!CallWake
<1>4. ASSUME R!BeginRefresh, NEW f \in R!Known' PROVE Awaited(f)'
  <2>1. /\ refresh = "idle" /\ f \in Folders /\ folderPath[f] # NoPath
        /\ known'[f] = IF f \in R!Pending THEN R!Entered(f) ELSE known[f]
    BY <1>0, <1>4 DEF R!BeginRefresh, R!Known, R!Unknown, R!State
  <2>2. CASE f \in R!Pending
    <3>1. known'[f].path = folderPath[f] /\ known'[f].resolving /\ ~known'[f].late
      BY <1>0, <2>1, <2>2 DEF R!Entered, R!State, FolderRecords
    <3>2. refresh' = "waiting"
      BY <1>4, <2>2 DEF R!BeginRefresh
    <3>3. [folder |-> f, path |-> folderPath[f], answer |-> "none", fresh |-> TRUE] \in resolvers'
      BY <1>4, <2>2 DEF R!BeginRefresh
    <3>4. Asked(f)'
      BY <3>1, <3>3 DEF Asked
    <3> QED BY <3>1, <3>2, <3>4 DEF Awaited
  <2>3. CASE f \notin R!Pending
    <3>1. known'[f] = known[f] /\ f \in R!Known
      BY <1>4, <2>1, <2>3 DEF R!Known
    <3>2. known[f].resolving => known[f].late
      BY <1>0, <2>1, <3>1 DEF Awaited
    <3> QED BY <1>0, <3>1, <3>2 DEF Awaited
  <2> QED BY <2>2, <2>3
<1>5. ASSUME NEW r \in resolvers, R!ResolverReads(r), NEW f \in R!Known' PROVE Awaited(f)'
  <2>1. /\ UNCHANGED <<known, refresh>> /\ f \in R!Known
        /\ \E answer \in {"disk", "error"} :
             resolvers' = (resolvers \ {r}) \cup {[r EXCEPT !.answer = answer]}
    BY <1>5 DEF R!ResolverReads, R!Known
  <2>2. PICK answer \in {"disk", "error"} :
          resolvers' = (resolvers \ {r}) \cup {[r EXCEPT !.answer = answer]}
    BY <2>1
  <2>3. /\ [r EXCEPT !.answer = answer].folder = r.folder
        /\ [r EXCEPT !.answer = answer].path = r.path
        /\ [r EXCEPT !.answer = answer].fresh = r.fresh
    BY <1>0 DEF R!Resolvers
  <2>4. Asked(f) => Asked(f)'
    BY <2>1, <2>2, <2>3 DEF Asked
  <2> QED BY <1>0, <2>1, <2>4 DEF Awaited
<1>6. ASSUME NEW r \in resolvers, R!ResolverAnswers(r), NEW f \in R!Known' PROVE Awaited(f)'
  <2>1. r.folder \in Folders /\ r.path \in Paths /\ r.answer \in {"disk", "error"}
    BY <1>0, <1>6 DEF R!ResolverAnswers, R!Resolvers
  <2>2. resolvers' = resolvers \ {r} /\ refresh' = refresh
    BY <1>6 DEF R!ResolverAnswers
  <2>3. CASE R!Expected(r) /\ known' = [known EXCEPT ![r.folder] = R!Resolved(r)] /\ f = r.folder
    <3>1. known'[f] = R!Resolved(r)
      BY <1>0, <2>1, <2>3
    <3>2. /\ known'[f].path = r.path /\ ~known'[f].resolving
          /\ r.answer = "disk" => known'[f].disk = DiskAt[r.path]
          /\ r.answer = "error" => known'[f].unavailable
      BY <3>1 DEF R!Resolved, R!State
    <3> QED BY <2>1, <3>2 DEF Awaited
  <2>4. CASE known'[f] = known[f] /\ ~(R!Expected(r) /\ f = r.folder)
    <3>1. f \in R!Known
      BY <1>0, <1>6, <2>4 DEF R!Known
    <3>2. known[f].resolving /\ Asked(f) => Asked(f)'
      BY <2>2, <2>4 DEF Asked, R!Expected
    <3> QED BY <1>0, <2>2, <2>4, <3>1, <3>2 DEF Awaited
  <2> QED BY <1>0, <1>6, <2>1, <2>3, <2>4 DEF R!ResolverAnswers, R!Known
<1>7. ASSUME R!EndRefresh, NEW f \in R!Known' PROVE Awaited(f)'
  <2>1. UNCHANGED <<known, resolvers>> /\ f \in R!Known
    BY <1>7 DEF R!EndRefresh, R!Known
  <2>2. ~Asked(f)
    BY <1>7 DEF R!EndRefresh, Asked
  <2> QED BY <1>0, <2>1, <2>2 DEF Awaited
<1>8. ASSUME R!ParkUnanswered, NEW f \in R!Known' PROVE Awaited(f)'
  <2>1. /\ f \in Folders
        /\ known'[f] = IF f \in R!Unanswered
                       THEN [known[f] EXCEPT !.unavailable = TRUE, !.late = TRUE] ELSE known[f]
    BY <1>8 DEF R!ParkUnanswered, R!Known
  <2>2. f \in R!Known
    BY <1>8, <1>0, <2>1 DEF R!Known, FolderRecords, R!Unanswered
  <2>3. CASE known[f].resolving
    BY <1>0, <2>1, <2>2, <2>3 DEF R!Unanswered, Awaited, FolderRecords
  <2>4. CASE ~known[f].resolving
    <3>1. known'[f] = known[f]
      BY <2>1, <2>4 DEF R!Unanswered
    <3> QED BY <1>0, <2>2, <2>4, <3>1 DEF Awaited
  <2> QED BY <2>3, <2>4
<1>9. ASSUME NEW g \in R!Known, R!MarkUnavailable(g), NEW f \in R!Known' PROVE Awaited(f)'
  <2>1. /\ UNCHANGED <<resolvers, refresh>>
        /\ known' = [known EXCEPT ![g] = [known[g] EXCEPT !.unavailable = TRUE]]
    BY <1>0, <1>9 DEF R!MarkUnavailable
  <2>2. /\ f \in R!Known /\ known'[f].path = known[f].path /\ known'[f].disk = known[f].disk
        /\ known'[f].resolving = known[f].resolving /\ known'[f].late = known[f].late
        /\ known[f].unavailable => known'[f].unavailable
    BY <1>0, <2>1 DEF R!Known, FolderRecords
  <2>3. Asked(f) => Asked(f)'
    BY <2>1, <2>2 DEF Asked
  <2> QED BY <1>0, <2>1, <2>2, <2>3 DEF Awaited
<1>10. ASSUME R!EndTurn, NEW f \in R!Known' PROVE Awaited(f)'
  <2>1. UNCHANGED <<known, resolvers>> /\ refresh = "served" /\ f \in R!Known
    BY <1>10 DEF R!EndTurn, R!Known
  <2> QED BY <1>0, <2>1 DEF Awaited
<1>11. ASSUME UNCHANGED rootVars PROVE \A g \in R!Known' : Awaited(g)'
  BY <1>11, Aside DEF rootVars
<1>12. ASSUME Beside PROVE \A g \in R!Known' : Awaited(g)'
  BY <1>9, <1>12, Aside DEF Beside
<1> QED
  BY <1>0, <1>1, <1>2, <1>3, <1>4, <1>5, <1>6, <1>7, <1>8, <1>9, <1>10, <1>11, <1>12
  DEF RootsOrBeside, R!RootsNext, RootsInv

\* Nothing is known at the start.
LEMMA RootsStart == R!RootsInit => RootsInv
<1> SUFFICES ASSUME R!RootsInit PROVE RootsInv
  OBVIOUS
<1>1. R!Known = {}
  BY DEF R!RootsInit, R!Known, R!Unknown, R!State
<1>2. known \in [Folders -> FolderRecords]
  BY DEF R!RootsInit, R!Unknown, R!State, FolderRecords
<1>3. share \in [Paths -> {"readable", "unreadable", "silent"}]
  BY DEF R!RootsInit
<1>4. R!RootsTypeOK
  BY <1>2, <1>3 DEF R!RootsInit, R!RootsTypeOK, FolderRecords
<1> QED
  BY <1>1, <1>4 DEF RootsInv

\* What becomes servable while no turn waits for it was late, and calls Wake.
LEMMA LateStep ==
  ASSUME RootsInv, [RootsOrBeside]_rootVars, refresh # "waiting", NEW f \in Folders,
         f \notin R!Servable, f \in R!Servable'
  PROVE  owed'
<1>0. /\ known \in [Folders -> FolderRecords] /\ resolvers \subseteq R!Resolvers
      /\ \A g \in R!Known : Awaited(g)
  BY DEF RootsInv, R!RootsTypeOK, FolderRecords
<1>1. known'[f] # known[f]
  BY DEF R!Servable, R!Available, R!Unavailable, R!Known
<1>2. /\ known'[f].path # NoPath /\ ~known'[f].unavailable /\ ~known'[f].resolving
  BY DEF R!Servable, R!Available, R!Unavailable, R!Known
<1>3. ~R!BeginRefresh
  <2>1. SUFFICES ASSUME R!BeginRefresh PROVE FALSE
    OBVIOUS
  <2>2. known'[f] = R!Entered(f)
    BY <1>1, <1>2, <2>1 DEF R!BeginRefresh, R!Unknown, R!State
  <2> QED BY <1>0, <1>2, <2>2 DEF R!Entered, R!State, FolderRecords
<1>4. ~R!ParkUnanswered
  BY DEF R!ParkUnanswered
<1>5. ASSUME NEW g \in R!Known, R!MarkUnavailable(g) PROVE FALSE
  BY <1>0, <1>1, <1>2, <1>5 DEF R!MarkUnavailable, R!Known, FolderRecords
<1>6. PICK r \in resolvers : R!ResolverAnswers(r)
  BY <1>1, <1>3, <1>4, <1>5
  DEF RootsOrBeside, Beside, R!RootsNext, R!SetFolder, R!ShareTurns, R!MinutePasses,
    R!RequestRecheck, R!ResolverReads, R!EndRefresh,
      R!EndTurn, R!CallWake, rootVars
<1>7. r.folder \in Folders /\ r.path \in Paths
  BY <1>0 DEF R!Resolvers
<1>8. R!Expected(r) /\ r.folder = f /\ owed' = (owed \/ known[f].late)
  BY <1>0, <1>1, <1>6, <1>7 DEF R!ResolverAnswers
<1>9. f \in R!Known /\ known[f].resolving
  BY <1>7, <1>8, SchedulerConstants, CapacityConstants DEF R!Expected, R!Known
<1>10. known[f].late
  BY <1>0, <1>9 DEF Awaited
<1> QED
  BY <1>8, <1>10


-----------------------------------------------------------------------------
(* What the parts of the scheduler see of a step.                          *)

\* The kinds of jobs that run under a disk, or under none.
KindsFor(d) == {k \in Kinds : ReadsSource(k) <=> d # NoDisk}

\* Every step is one of the folders' steps, or one beside them.
LEMMA RootsPart ==
  ASSUME R!RootsTypeOK, [SchedNext]_schedVars
  PROVE  [RootsOrBeside]_rootVars
<1>1. CASE UNCHANGED rootVars
  BY <1>1
<1>2. CASE BeginStep \/ AwaitFolders \/ TakeSnapshot \/ CallWake
  BY <1>2 DEF BeginStep, AwaitFolders, TakeSnapshot, CallWake, RootsOrBeside, R!RootsNext
<1>3. ASSUME NEW j \in JobIds, Park(j) PROVE [RootsOrBeside]_rootVars
  <2> DEFINE f == FolderOf[proc[j].row]
  <2>1. R!MarkUnavailable(f)
    BY <1>3 DEF Park
  <2>2. CASE f \in R!Known
    BY <2>1, <2>2 DEF RootsOrBeside, Beside
  <2>3. CASE f \notin R!Known
    <3>1. {f} \cap R!Known = {} /\ minuteUp \in BOOLEAN
      BY <2>3 DEF R!RootsTypeOK
    <3>2. UNCHANGED rootVars
      BY <2>1, <2>3, <3>1 DEF R!MarkUnavailable, R!MinuteAfter, rootVars
    <3> QED BY <3>2
  <2> QED BY <2>2, <2>3
<1>4. CASE Beside
  BY <1>4 DEF RootsOrBeside
<1>5. CASE FolderSteps
  BY <1>5, SchedulerConstants DEF FolderSteps, RootsOrBeside, R!RootsNext
<1>6. ASSUME NEW r \in resolvers, FolderReads(r) \/ FolderAnswers(r)
      PROVE  [RootsOrBeside]_rootVars
  BY <1>6 DEF FolderReads, FolderAnswers, RootsOrBeside, R!RootsNext
<1>7. ASSUME NEW j \in JobIds, JobStep(j) \/ BorrowPart(j) PROVE [RootsOrBeside]_rootVars
  BY <1>1, <1>3, <1>4, <1>7 DEF JobStep, BorrowPart, HandlerReturns, CheckFolder, Record,
    RecordFails,
    FinishJob, ReturnPart, OweWake, Beside
<1>8. CASE LoopStep
  BY <1>1, <1>2, <1>8 DEF LoopStep, StepFails, ReadDue, VisitDisk, EndClass, EndVisit, SkipKind,
    ReserveKind, Claim, ClaimNothing, ClaimFails, EndTurn, WakeUp, TimerFires
<1>9. ASSUME NEW r \in Readers, ScanReads(r) \/ ScanReturns(r) PROVE [RootsOrBeside]_rootVars
  BY <1>1, <1>4, <1>9 DEF ScanReads, ScanReturns, OweWake, Beside
<1>10. ASSUME NEW v \in Viewers, OpenStream(v) \/ CloseStream(v) PROVE [RootsOrBeside]_rootVars
  BY <1>1, <1>4, <1>10 DEF OpenStream, CloseStream, OweWake, Beside
<1>11. ASSUME NEW r \in Rows, Enqueue(r) \/ BecomesDue(r) PROVE [RootsOrBeside]_rootVars
  BY <1>1, <1>4, <1>11 DEF Enqueue, BecomesDue, OweWake, Beside
<1>12. ASSUME NEW ks \in SUBSET Kinds, SetPaused(ks) PROVE [RootsOrBeside]_rootVars
  BY <1>1, <1>4, <1>12 DEF SetPaused, OweWake, Beside
<1>13. CASE UNCHANGED schedVars
  BY <1>1, <1>13 DEF schedVars
<1> QED
  BY <1>2, <1>5, <1>6, <1>7, <1>8, <1>9, <1>10, <1>11, <1>12, <1>13 DEF SchedNext

\* Every step is one critical section of the slots, or leaves them alone.
LEMMA CapPart ==
  ASSUME SchedTypeOK, loop.pc = "kind" => loop.left \subseteq KindsFor(loop.disk),
         [SchedNext]_schedVars
  PROVE  [CapNext]_capVars
<1>1. CASE UNCHANGED capVars
  BY <1>1
<1>2. CASE TakeSnapshot
  <2>1. Serving \in SUBSET Disks /\ SetDisks(Serving)
    BY <1>2 DEF TakeSnapshot, Serving
  <2> QED BY <2>1 DEF CapNext
<1>3. ASSUME NEW j \in JobIds, ReserveKind(j) PROVE [CapNext]_capVars
  <2>1. PICK k \in loop.left : ReserveJob(j, loop.disk, k)
    BY <1>3 DEF ReserveKind
  <2>2. k \in KindsFor(loop.disk) /\ loop.disk \in AllDisks
    BY <1>3, <2>1 DEF ReserveKind, SchedTypeOK, Turns
  <2>3. k \in Kinds /\ loop.disk \in DiskOf(k)
    BY <2>2, CapacityConstants DEF KindsFor, ReadsSource, DiskOf, AllDisks
  <2> QED BY <2>1, <2>3 DEF CapNext
<1>4. ASSUME NEW j \in JobIds, ReleaseJob(j) \/ ReleaseLent(j) PROVE [CapNext]_capVars
  BY <1>4 DEF CapNext
<1>5. CASE LoopStep
  BY <1>1, <1>2, <1>3, <1>4, <1>5 DEF LoopStep, StepFails, BeginStep, AwaitFolders, ReadDue,
    VisitDisk, EndClass, EndVisit, SkipKind, Claim, ClaimNothing, ClaimFails, EndTurn, WakeUp,
    TimerFires
<1>6. ASSUME NEW j \in JobIds, JobStep(j) PROVE [CapNext]_capVars
  BY <1>1, <1>4, <1>6 DEF JobStep, Moves, HandlerReturns, CheckFolder, Park, Record, RecordFails,
    FinishJob, ReturnPart
<1>7. ASSUME NEW j \in JobIds, BorrowPart(j) PROVE [CapNext]_capVars
  BY <1>7 DEF BorrowPart, CapNext
<1>8. ASSUME NEW r \in Readers, ScanReads(r) \/ ScanReturns(r) PROVE [CapNext]_capVars
  BY <1>8 DEF ScanReads, ScanSteps, ScanReturns, CapNext
<1>9. ASSUME NEW v \in Viewers, OpenStream(v) PROVE [CapNext]_capVars
  <2>1. PICK f \in R!Known : known[f].disk # NoDisk /\ HoldForeground(v, known[f].disk)
    BY <1>9 DEF OpenStream
  <2>2. known[f].disk \in Disks
    BY <2>1 DEF SchedTypeOK, R!RootsTypeOK, R!Known
  <2> QED BY <2>1, <2>2 DEF CapNext
<1>10. ASSUME NEW v \in Viewers, CloseStream(v) PROVE [CapNext]_capVars
  BY <1>10 DEF CloseStream, CapNext
<1>11. CASE CallWake \/ FolderSteps
  BY <1>1, <1>11 DEF CallWake, FolderSteps
<1>12. ASSUME NEW r \in Rows, Enqueue(r) \/ BecomesDue(r) PROVE [CapNext]_capVars
  BY <1>1, <1>12 DEF Enqueue, BecomesDue
<1>13. ASSUME NEW ks \in SUBSET Kinds, SetPaused(ks) PROVE [CapNext]_capVars
  BY <1>1, <1>13 DEF SetPaused
<1>14. ASSUME NEW r \in resolvers, FolderReads(r) \/ FolderAnswers(r) PROVE [CapNext]_capVars
  BY <1>1, <1>14 DEF FolderReads, FolderAnswers
<1>15. CASE UNCHANGED schedVars
  BY <1>1, <1>15 DEF schedVars
<1> QED
  BY <1>5, <1>6, <1>7, <1>8, <1>9, <1>10, <1>11, <1>12, <1>13, <1>14, <1>15 DEF SchedNext


-----------------------------------------------------------------------------
(* Types.                                                                  *)

Groups == Seq([disk : AllDisks, folders : SUBSET Folders])

\* The disks with an available folder can be counted.
LEMMA ServingFinite ==
  /\ Serving \subseteq Disks
  /\ Cardinality(Serving) \in Nat
<1>1. Serving \subseteq Disks
  BY DEF Serving
<1>2. DiskOrder \in Seq(Disks) /\ Disks = ToSet(DiskOrder)
  BY SchedulerConstants
<1>3. Len(DiskOrder) \in Nat /\ DiskOrder \in [1..Len(DiskOrder) -> Disks]
  BY <1>2
<1>4. \A d \in Disks : \E i \in 1..Len(DiskOrder) : DiskOrder[i] = d
  BY <1>2, <1>3 DEF ToSet
<1>5. DiskOrder \in Surjection(1..Len(DiskOrder), Disks)
  BY <1>3, <1>4 DEF Surjection
<1>6. IsFiniteSet(1..Len(DiskOrder))
  BY <1>3, FS_Interval
<1>7. IsFiniteSet(Disks)
  BY <1>5, <1>6, FS_Surjection
<1> QED
  BY <1>1, <1>7, FS_Subset, FS_CardinalityType

\* The groups of a snapshot, for the disks in the order ds.
GroupsOf(ds) ==
  Append([i \in DOMAIN ds |-> [disk |-> ds[i], folders |-> FoldersOn(ds[i])]],
         [disk |-> NoDisk, folders |-> {}])

LEMMA GroupsBuilt ==
  ASSUME NEW ds \in Bijection(1..Cardinality(Serving), Serving)
  PROVE  /\ GroupsOf(ds) \in Groups
         /\ Len(GroupsOf(ds)) = Cardinality(Serving) + 1
         /\ \A i \in 1..Cardinality(Serving) :
              GroupsOf(ds)[i] = [disk |-> ds[i], folders |-> FoldersOn(ds[i])]
         /\ GroupsOf(ds)[Cardinality(Serving) + 1] = [disk |-> NoDisk, folders |-> {}]
<1> DEFINE n == Cardinality(Serving)
           listed == [i \in DOMAIN ds |-> [disk |-> ds[i], folders |-> FoldersOn(ds[i])]]
<1>1. n \in Nat /\ Serving \subseteq AllDisks
  BY ServingFinite DEF AllDisks
<1>2. ds \in [1..n -> Serving] /\ DOMAIN ds = 1..n
  BY DEF Bijection, Injection
<1>3. \A d : FoldersOn(d) \in SUBSET Folders
  BY DEF FoldersOn, R!Available, R!Known
<1>4. \A i \in 1..n : [disk |-> ds[i], folders |-> FoldersOn(ds[i])]
                        \in [disk : AllDisks, folders : SUBSET Folders]
  BY <1>1, <1>2, <1>3
<1>5. listed \in [1..n -> [disk : AllDisks, folders : SUBSET Folders]]
  BY <1>2, <1>4
<1>6. listed \in Groups /\ Len(listed) = n
  <2> DEFINE group == [disk : AllDisks, folders : SUBSET Folders]
  <2>1. listed \in [1..n -> group] /\ n \in Nat
    BY <1>1, <1>5
  <2> HIDE DEF group, listed, n
  <2>2. listed \in Seq(group) /\ Len(listed) = n
    BY <2>1
  <2> QED BY <2>2 DEF Groups, group
<1>7. [disk |-> NoDisk, folders |-> {}] \in [disk : AllDisks, folders : SUBSET Folders]
  BY DEF AllDisks
<1>8. GroupsOf(ds) = Append(listed, [disk |-> NoDisk, folders |-> {}])
  BY DEF GroupsOf
<1>9. \A i \in 1..n : listed[i] = [disk |-> ds[i], folders |-> FoldersOn(ds[i])]
  BY <1>2
<1> HIDE DEF listed
<1> QED
  BY <1>1, <1>6, <1>7, <1>8, <1>9 DEF Groups

\* The least class of a set of them, and the one that stands for none.
LEMMA LeastClass ==
  ASSUME NEW S, S \subseteq 0..LastClass
  PROVE  /\ Least(S) \in 0..NoClass
         /\ \A c \in S : Least(S) <= c
<1>1. LastClass \in Nat
  BY SchedulerConstants
<1>2. CASE S = {}
  BY <1>1, <1>2 DEF Least, NoClass
<1>3. CASE S # {}
  <2>1. S \subseteq Nat
    BY <1>1
  <2>2. PICK m \in S : \A y \in S : ~(<<y, m>> \in OpToRel(<, Nat))
    BY <1>3, <2>1, NatLessThanWellFounded, WFMin
  <2>3. \A y \in S : ~(y < m)
    BY <2>1, <2>2 DEF OpToRel
  <2>4. \A y \in S : m <= y
    BY <2>1, <2>3
  <2>5. Min(S) \in S /\ \A y \in S : Min(S) <= y
    BY <2>4 DEF Min
  <2>6. PICK least \in 0..LastClass : least = Min(S)
    BY <2>5
  <2>7. Min(S) \in 0..NoClass
    BY <1>1, <2>6 DEF NoClass
  <2> QED BY <1>3, <2>5, <2>7 DEF Least
<1> QED
  BY <1>2, <1>3

\* Where the loop can be in its turn.
TurnOK ==
  /\ loop \in Turns /\ loop.idle <= Len(loop.groups)
  /\ nextGroup \in Nat
  /\ loop.pc \in {"prepare", "due", "asleep"} => loop.idle = 0
  /\ loop.pc \in {"kind", "claim"} =>
       loop.idle < Len(loop.groups) /\ loop.left \subseteq KindsFor(loop.disk)
  /\ loop.pc = "claim" => loop.kind \in loop.left
  /\ loop.pc # "prepare" => refresh = "idle"
  /\ loop.pc # "asleep" => loop.timer = {}
  /\ loop.pc = "asleep" => loop.since = {}

\* A job goroutine that parks or records knows the outcome of its job.
Decided == \A j \in JobIds : proc[j].phase \in {"parking", "recording"} => proc[j].outcome # "none"

\* A row's own goroutine, what a turn starts with, and the fields of a turn.
LEMMA TurnFields ==
  ASSUME loop \in Turns
  PROVE  /\ loop = [pc |-> loop.pc, timer |-> loop.timer, since |-> loop.since,
                    groups |-> loop.groups, due |-> loop.due, paused |-> loop.paused,
                    empty |-> loop.empty, class |-> loop.class, idle |-> loop.idle,
                    disk |-> loop.disk, left |-> loop.left, kind |-> loop.kind,
                    avoid |-> loop.avoid]
         /\ loop.timer \subseteq {"due", "recheck", "retry", "fired"} /\ loop.since \subseteq Rows
         /\ loop.groups \in Groups /\ loop.due \in [Kinds -> 0..NoClass]
         /\ loop.paused \subseteq Kinds /\ loop.empty \subseteq AllDisks \X Kinds
         /\ loop.class \in 0..LastClass /\ loop.idle \in Nat /\ loop.disk \in AllDisks
         /\ loop.left \subseteq Kinds /\ loop.kind \in Kinds \cup {NoKind}
         /\ loop.avoid \subseteq Folders
         /\ Len(loop.groups) \in Nat
         /\ loop.pc \in {"prepare", "due", "visit", "kind", "claim", "until", "asleep"}
BY DEF Turns, Groups

LEMMA TurnBuilt ==
  ASSUME NEW pc \in {"prepare", "due", "visit", "kind", "claim", "until", "asleep"},
         NEW timer \in SUBSET {"due", "recheck", "retry", "fired"}
  PROVE  /\ Turn(pc, timer) \in Turns
         /\ Turn(pc, timer).pc = pc /\ Turn(pc, timer).timer = timer
         /\ Turn(pc, timer).since = {} /\ Turn(pc, timer).idle = 0
         /\ Turn(pc, timer).groups = <<>> /\ Len(Turn(pc, timer).groups) = 0
         /\ Turn(pc, timer).empty = {} /\ Turn(pc, timer).left = {}
<1>1. LastClass \in Nat /\ NoClass \in 0..NoClass /\ 0 \in 0..LastClass
  BY SchedulerConstants DEF NoClass
<1>2. <<>> \in Groups /\ Len(<<>>) = 0
  BY DEF Groups
<1>3. NoDisk \in AllDisks
  BY DEF AllDisks
<1>4. [k \in Kinds |-> NoClass] \in [Kinds -> 0..NoClass]
  BY <1>1
<1>5. {} \in SUBSET Rows /\ {} \in SUBSET Kinds /\ {} \in SUBSET Folders
      /\ {} \in SUBSET (AllDisks \X Kinds) /\ 0 \in Nat
  OBVIOUS
<1> QED
  BY <1>1, <1>2, <1>3, <1>4, <1>5 DEF Turn, Turns, Groups

\* A step of the loop leads from one such place to another.
LEMMA LoopTypes ==
  ASSUME SchedTypeOK, TurnOK, LoopStep
  PROVE  TurnOK'
<1> USE TurnFields
<1>0. loop \in Turns /\ loop.idle <= Len(loop.groups) /\ nextGroup \in Nat
      /\ LastClass \in Nat
  BY SchedulerConstants DEF TurnOK
<1>1. ASSUME NEW timer \in SUBSET {"due", "recheck", "retry", "fired"}, Sleep(timer),
             nextGroup' = nextGroup, refresh' = refresh, loop.pc # "prepare" \/ refresh = "idle"
      PROVE  TurnOK'
  <2>1. loop' = Turn("asleep", timer)
    BY <1>1 DEF Sleep
  <2> QED BY <1>0, <1>1, <2>1, TurnBuilt DEF TurnOK
<1>2. ASSUME loop' = Turn("prepare", {}), nextGroup' = nextGroup PROVE TurnOK'
  <2>1. {} \in SUBSET {"due", "recheck", "retry", "fired"}
    OBVIOUS
  <2> QED BY <1>0, <1>2, <2>1, TurnBuilt DEF TurnOK
<1>3. CASE StepFails
  <2>1. {"retry"} \in SUBSET {"due", "recheck", "retry", "fired"}
    OBVIOUS
  <2> QED BY <1>1, <1>3, <2>1 DEF StepFails, rootVars
<1>4. CASE BeginStep
  <2> DEFINE s == {r \in Rows : row[r] = "delayed"}
  <2>1. loop' = [loop EXCEPT !.since = s] /\ loop.pc = "prepare" /\ nextGroup' = nextGroup
    BY <1>4 DEF BeginStep
  <2>2. s \in SUBSET Rows
    OBVIOUS
  <2> HIDE DEF s
  <2> QED BY <1>0, <2>1, <2>2 DEF TurnOK, Turns
<1>5. CASE AwaitFolders
  <2>1. UNCHANGED <<loop, nextGroup>> /\ refresh = "waiting"
    BY <1>5 DEF AwaitFolders, turnVars, R!EndRefresh, R!ParkUnanswered
  <2> QED BY <1>0, <2>1 DEF TurnOK
<1>6. CASE TakeSnapshot
  <2>1. PICK ds \in Bijection(1..Cardinality(Serving), Serving) :
          loop' = [loop EXCEPT !.pc = "due", !.groups = GroupsOf(ds)]
    BY <1>6 DEF TakeSnapshot, GroupsOf
  <2>2. GroupsOf(ds) \in Groups /\ Len(GroupsOf(ds)) \in Nat
    <3>1. GroupsOf(ds) \in Groups
      BY GroupsBuilt
    <3> HIDE DEF GroupsOf
    <3> QED BY <3>1 DEF Groups
  <2>3. refresh' = "idle" /\ nextGroup' = nextGroup /\ loop.pc = "prepare"
    BY <1>6 DEF TakeSnapshot, R!EndTurn
  <2> HIDE DEF GroupsOf
  <2>4. loop' \in Turns
    BY <1>0, <2>1, <2>2 DEF Turns, Groups
  <2>5. /\ loop'.pc = "due" /\ loop'.idle = loop.idle /\ loop'.groups = GroupsOf(ds)
        /\ loop'.timer = loop.timer
    BY <1>0, <2>1
  <2>6. loop.idle = 0 /\ loop.timer = {}
    BY <2>3 DEF TurnOK
  <2> QED BY <2>2, <2>3, <2>4, <2>5, <2>6, <1>0 DEF TurnOK
<1>7. CASE ReadDue
  <2> DEFINE due == [k \in Kinds |->
                       Least({ClassOf[r] :
                                 r \in {q \in Rows : row[q] = "queued" /\ KindOf[q] = k}})]
  <2>1. \A k \in Kinds :
          {ClassOf[r] : r \in {q \in Rows : row[q] = "queued" /\ KindOf[q] = k}}
            \subseteq 0..LastClass
    BY SchedulerConstants
  <2>2. due \in [Kinds -> 0..NoClass]
    BY <2>1, LeastClass
  <2>3. /\ loop' = [loop EXCEPT !.pc = "visit", !.paused = paused, !.due = due]
        /\ loop.pc = "due" /\ UNCHANGED <<nextGroup, refresh>>
    BY <1>7 DEF ReadDue, rootVars
  <2>4. paused \in SUBSET Kinds
    BY DEF SchedTypeOK
  <2> HIDE DEF due
  <2> QED BY <1>0, <2>2, <2>3, <2>4 DEF TurnOK, Turns
<1>8. CASE VisitDisk
  <2> DEFINE at == nextGroup % Len(loop.groups)
             d == loop.groups[at + 1].disk
  <2>1. loop.pc = "visit" /\ loop.idle < Len(loop.groups) /\ UNCHANGED refresh
    BY <1>8 DEF VisitDisk, rootVars
  <2>2. at \in Nat /\ at < Len(loop.groups) /\ (at + 1) % Len(loop.groups) \in Nat
    BY <1>0, <2>1
  <2>3. d \in AllDisks
    <3>1. at + 1 \in 1..Len(loop.groups)
      BY <1>0, <2>2
    <3>2. loop.groups[at + 1] \in [disk : AllDisks, folders : SUBSET Folders]
      BY <1>0, <3>1, ElementOfSeq, TurnFields DEF Groups
    <3> QED BY <3>2
  <2>4. KindsToTry(d) \subseteq KindsFor(d) /\ KindsToTry(d) \in SUBSET Kinds
    BY DEF KindsToTry, KindsFor
  <2>5. loop' = [loop EXCEPT !.pc = "kind", !.disk = d, !.left = KindsToTry(d)]
    BY <1>8 DEF VisitDisk
  <2>6. nextGroup' \in Nat
    BY <1>8, <2>2 DEF VisitDisk
  <2> HIDE DEF d, at
  <2> QED BY <1>0, <2>1, <2>3, <2>4, <2>5, <2>6 DEF TurnOK, Turns
<1>9. CASE EndClass
  <2> DEFINE pc == IF loop.class = LastClass THEN "until" ELSE "visit"
             class == IF loop.class = LastClass THEN 0 ELSE loop.class + 1
  <2>1. /\ loop' = [loop EXCEPT !.pc = pc, !.class = class, !.idle = 0, !.empty = {}]
        /\ loop.pc = "visit" /\ UNCHANGED <<nextGroup, refresh>>
    BY <1>9 DEF EndClass, rootVars
  <2>2. class \in 0..LastClass /\ pc \in {"until", "visit"} /\ {} \in SUBSET (AllDisks \X Kinds)
    BY <1>0
  <2> HIDE DEF pc, class
  <2>3. loop' \in Turns
    BY <1>0, <2>1, <2>2 DEF Turns
  <2>4. /\ loop'.pc = pc /\ loop'.idle = 0 /\ loop'.timer = loop.timer
        /\ loop'.groups = loop.groups
    BY <1>0, <2>1
  <2> QED BY <1>0, <2>1, <2>2, <2>3, <2>4 DEF TurnOK
<1>10. CASE EndVisit
  <2>1. /\ loop' = [loop EXCEPT !.pc = "visit", !.idle = loop.idle + 1, !.disk = NoDisk]
        /\ loop.pc = "kind" /\ UNCHANGED <<nextGroup, refresh>>
    BY <1>10 DEF EndVisit, rootVars
  <2>2. loop.idle + 1 <= Len(loop.groups) /\ loop.idle + 1 \in Nat /\ NoDisk \in AllDisks
    BY <1>0, <2>1 DEF TurnOK, AllDisks
  <2> QED BY <1>0, <2>1, <2>2 DEF TurnOK, Turns
<1>11. CASE SkipKind
  <2>1. PICK k \in loop.left : loop' = [loop EXCEPT !.left = loop.left \ {k}]
    BY <1>11 DEF SkipKind
  <2>2. loop.pc = "kind" /\ UNCHANGED <<nextGroup, refresh>>
    BY <1>11 DEF SkipKind, rootVars
  <2>3. loop.left \ {k} \in SUBSET Kinds /\ loop.left \ {k} \subseteq loop.left
    BY <1>0
  <2> QED BY <1>0, <2>1, <2>2, <2>3 DEF TurnOK, Turns
<1>12. ASSUME NEW j \in JobIds, ReserveKind(j) PROVE TurnOK'
  <2>1. PICK k \in loop.left :
          loop' = [loop EXCEPT !.pc = "claim", !.kind = k, !.avoid = R!Unavailable]
    BY <1>12 DEF ReserveKind
  <2>2. loop.pc = "kind" /\ UNCHANGED <<nextGroup, refresh>>
    BY <1>12 DEF ReserveKind, rootVars
  <2>3. k \in Kinds \cup {NoKind} /\ R!Unavailable \in SUBSET Folders
    BY <1>0 DEF R!Unavailable, R!Known
  <2> QED BY <1>0, <2>1, <2>2, <2>3 DEF TurnOK, Turns
<1>13. ASSUME NEW j \in JobIds, Claim(j) PROVE TurnOK'
  <2>1. /\ loop' = [loop EXCEPT !.pc = "visit", !.idle = 0, !.disk = NoDisk, !.left = {},
                                !.kind = NoKind, !.avoid = {}]
        /\ loop.pc = "claim" /\ UNCHANGED <<nextGroup, refresh>>
    BY <1>13 DEF Claim, rootVars
  <2>2. {} \in SUBSET Kinds /\ {} \in SUBSET Folders /\ NoDisk \in AllDisks
    BY DEF AllDisks
  <2>3. loop' \in Turns
    BY <1>0, <2>1, <2>2 DEF Turns
  <2>4. /\ loop'.pc = "visit" /\ loop'.idle = 0 /\ loop'.timer = loop.timer
        /\ loop'.groups = loop.groups
    BY <1>0, <2>1
  <2> QED BY <1>0, <2>1, <2>3, <2>4 DEF TurnOK
<1>14. ASSUME NEW j \in JobIds, ClaimNothing(j) PROVE TurnOK'
  <2>1. /\ loop' = [loop EXCEPT !.pc = "kind", !.kind = NoKind, !.avoid = {},
                                !.left = loop.left \ {loop.kind},
                                !.empty = loop.empty \cup {<<loop.disk, loop.kind>>}]
        /\ loop.pc = "claim" /\ UNCHANGED <<nextGroup, refresh>>
    BY <1>14 DEF ClaimNothing, rootVars
  <2>2. loop.left \ {loop.kind} \in SUBSET Kinds /\ {} \in SUBSET Folders
        /\ loop.left \ {loop.kind} \subseteq loop.left
    BY <1>0
  <2>3. loop.kind \in Kinds
    BY <1>0, <2>1 DEF TurnOK
  <2>4. loop.empty \cup {<<loop.disk, loop.kind>>} \in SUBSET (AllDisks \X Kinds)
    BY <1>0, <2>3
  <2> QED BY <1>0, <2>1, <2>2, <2>4 DEF TurnOK, Turns
<1>15. ASSUME NEW j \in JobIds, ClaimFails(j) PROVE TurnOK'
  <2>1. {"retry"} \in SUBSET {"due", "recheck", "retry", "fired"}
    OBVIOUS
  <2> QED BY <1>1, <1>15, <2>1 DEF ClaimFails, rootVars
<1>16. CASE EndTurn
  <2> DEFINE timer == (IF \E r \in Rows : row[r] = "delayed" THEN {"due"} ELSE {})
                      \cup (IF R!Unavailable # {} THEN {"recheck"} ELSE {})
  <2>1. timer \in SUBSET {"due", "recheck", "retry", "fired"}
    OBVIOUS
  <2>2. /\ loop' = Turn("prepare", {}) \/ Sleep(timer)
        /\ loop.pc = "until" /\ UNCHANGED <<nextGroup, refresh>>
    BY <1>16 DEF EndTurn, rootVars
  <2> HIDE DEF timer
  <2> QED BY <1>1, <1>2, <2>1, <2>2
<1>17. CASE WakeUp \/ TimerFires
  BY <1>2, <1>17 DEF WakeUp, TimerFires
<1> QED
  BY <1>3, <1>4, <1>5, <1>6, <1>7, <1>8, <1>9, <1>10, <1>11, <1>12, <1>13, <1>14, <1>15, <1>16,
    <1>17
  DEF LoopStep

\* The goroutines of jobs.
LEMMA ProcChanged ==
  ASSUME proc \in [JobIds -> Procs], NEW j \in JobIds,
         NEW phase \in {"free", "reserved", "handling", "checking", "parking", "recording",
                        "ended"},
         NEW outcome \in {"none", "ok", "snooze", "error"}, NEW r \in Rows \cup {NoRow}
  PROVE  /\ [proc EXCEPT ![j].phase = phase] \in [JobIds -> Procs]
         /\ [proc EXCEPT ![j].phase = phase, ![j].outcome = outcome] \in [JobIds -> Procs]
         /\ [proc EXCEPT ![j] = FreeProc] \in [JobIds -> Procs]
         /\ [proc EXCEPT ![j] = [FreeProc EXCEPT !.phase = "ended"]] \in [JobIds -> Procs]
         /\ [proc EXCEPT ![j] = [row |-> r, phase |-> phase, outcome |-> outcome]]
              \in [JobIds -> Procs]
<1>1. /\ FreeProc \in Procs /\ [FreeProc EXCEPT !.phase = "ended"] \in Procs
      /\ [row |-> r, phase |-> phase, outcome |-> outcome] \in Procs
  BY DEF FreeProc, Procs
<1>2. /\ [proc[j] EXCEPT !.phase = phase] \in Procs
      /\ [proc[j] EXCEPT !.phase = phase, !.outcome = outcome] \in Procs
  BY DEF Procs
<1>3. \A p \in Procs : [proc EXCEPT ![j] = p] \in [JobIds -> Procs]
  OBVIOUS
<1>4. /\ [proc EXCEPT ![j].phase = phase] = [proc EXCEPT ![j] = [proc[j] EXCEPT !.phase = phase]]
      /\ [proc EXCEPT ![j].phase = phase, ![j].outcome = outcome] =
           [proc EXCEPT ![j] = [proc[j] EXCEPT !.phase = phase, !.outcome = outcome]]
  BY DEF Procs
<1> QED
  BY <1>1, <1>2, <1>3, <1>4

\* What steps the scheduler takes besides the loop and the jobs.
ScanStep == \E r \in Readers : ScanReads(r) \/ ScanReturns(r)
ViewStep == \E v \in Viewers : OpenStream(v) \/ CloseStream(v)
QueueStep == \E r \in Rows : Enqueue(r) \/ BecomesDue(r)
PauseStep == \E ks \in SUBSET Kinds : SetPaused(ks)
AnswerStep == \E r \in resolvers : FolderReads(r) \/ FolderAnswers(r)

OtherStep ==
  \/ CallWake \/ FolderSteps \/ ScanStep \/ ViewStep \/ QueueStep \/ PauseStep \/ AnswerStep
  \/ UNCHANGED schedVars

LEMMA Steps ==
  [SchedNext]_schedVars <=>
    LoopStep \/ (\E j \in JobIds : JobStep(j) \/ BorrowPart(j)) \/ OtherStep
BY Zenon DEF SchedNext, OtherStep, ScanStep, ViewStep, QueueStep, PauseStep, AnswerStep

Phases == {"free", "reserved", "handling", "checking", "parking", "recording", "ended"}

\* What the goroutines of the jobs do.
LEMMA MovesType ==
  ASSUME proc \in [JobIds -> Procs], Decided, NEW j \in JobIds, NEW phase \in Phases,
         NEW outcome \in {"none", "ok", "snooze", "error"}, Moves(j, phase, outcome),
         phase \in {"parking", "recording"} => outcome # "none"
  PROVE  proc' \in [JobIds -> Procs] /\ Decided'
<1>1. proc' = [proc EXCEPT ![j].phase = phase, ![j].outcome = outcome]
  BY DEF Moves
<1>2. proc' \in [JobIds -> Procs]
  BY <1>1, ProcChanged DEF Phases
<1>3. proc'[j].phase = phase /\ proc'[j].outcome = outcome
  BY <1>1 DEF Procs
<1>4. \A i \in JobIds : i # j => proc'[i] = proc[i]
  BY <1>1
<1> QED
  BY <1>2, <1>3, <1>4 DEF Decided

\* A goroutine that starts or ends has decided nothing.
LEMMA ProcSet ==
  ASSUME proc \in [JobIds -> Procs], Decided, NEW j \in JobIds, NEW p \in Procs,
         p.phase \notin {"parking", "recording"}, proc' = [proc EXCEPT ![j] = p]
  PROVE  proc' \in [JobIds -> Procs] /\ Decided'
BY DEF Decided

LEMMA ProcTypes ==
  ASSUME SchedTypeOK, Decided, [SchedNext]_schedVars
  PROVE  proc' \in [JobIds -> Procs] /\ Decided'
<1> DEFINE Goal == proc' \in [JobIds -> Procs] /\ Decided'
<1>0. /\ proc \in [JobIds -> Procs]
      /\ \A j \in JobIds : proc[j].outcome \in {"none", "ok", "snooze", "error"}
  BY DEF SchedTypeOK, Procs
<1>1. FreeProc \in Procs /\ FreeProc.phase = "free"
      /\ [FreeProc EXCEPT !.phase = "ended"] \in Procs
      /\ [FreeProc EXCEPT !.phase = "ended"].phase = "ended"
  BY DEF FreeProc, Procs
<1>2. ASSUME UNCHANGED proc PROVE Goal
  BY <1>0, <1>2 DEF Decided
<1>3. ASSUME NEW j \in JobIds, HandlerReturns(j) PROVE Goal
  BY <1>0, <1>3, MovesType DEF HandlerReturns, Phases
<1>4. ASSUME NEW j \in JobIds, CheckFolder(j) PROVE Goal
  BY <1>0, <1>4, MovesType DEF CheckFolder, Phases
<1>5. ASSUME NEW j \in JobIds, Park(j) PROVE Goal
  BY <1>0, <1>5, MovesType DEF Park, Phases, Decided
<1>6. ASSUME NEW j \in JobIds, Record(j) \/ RecordFails(j) \/ FinishJob(j) \/ ClaimNothing(j)
                                \/ ClaimFails(j)
      PROVE  Goal
  BY <1>0, <1>1, <1>6, ProcSet DEF Record, RecordFails, FinishJob, ClaimNothing, ClaimFails
<1>7. ASSUME NEW j \in JobIds, Claim(j) PROVE Goal
  <2>1. PICK r \in Rows :
          proc' = [proc EXCEPT ![j] = [row |-> r, phase |-> "handling", outcome |-> "none"]]
    BY <1>7 DEF Claim, MostUrgent, Claimable
  <2>2. [row |-> r, phase |-> "handling", outcome |-> "none"] \in Procs
    BY DEF Procs
  <2> QED BY <1>0, <2>1, <2>2, ProcSet
<1>8. ASSUME NEW j \in JobIds, ReserveKind(j) PROVE Goal
  <2>1. proc' = [proc EXCEPT ![j] = [proc[j] EXCEPT !.phase = "reserved"]]
    BY <1>0, <1>8 DEF ReserveKind, Procs
  <2>2. [proc[j] EXCEPT !.phase = "reserved"] \in Procs
        /\ [proc[j] EXCEPT !.phase = "reserved"].phase = "reserved"
    BY <1>0 DEF Procs
  <2> QED BY <1>0, <2>1, <2>2, ProcSet
<1>9. CASE LoopStep
  BY <1>2, <1>6, <1>7, <1>8, <1>9 DEF LoopStep, StepFails, BeginStep, AwaitFolders, TakeSnapshot,
    ReadDue, VisitDisk, EndClass, EndVisit, SkipKind, EndTurn, WakeUp, TimerFires, queueVars
<1>10. ASSUME NEW j \in JobIds, JobStep(j) \/ BorrowPart(j) PROVE Goal
  BY <1>2, <1>3, <1>4, <1>5, <1>6, <1>10 DEF JobStep, BorrowPart, ReturnPart, queueVars
<1>11. ASSUME OtherStep
       PROVE  Goal
  <2>1. UNCHANGED proc
    BY <1>11 DEF OtherStep, ScanStep, ViewStep, QueueStep, PauseStep, AnswerStep,
      CallWake, FolderSteps, ScanReads, ScanReturns, OpenStream, CloseStream, Enqueue,
      BecomesDue, SetPaused, FolderReads, FolderAnswers, queueVars, schedVars
  <2> QED BY <1>2, <2>1
<1> QED
  BY <1>9, <1>10, <1>11, Steps

\* What a row of the jobs table goes through.
RowStates == {"absent", "queued", "delayed", "running", "stranded", "done", "failed"}

LEMMA RowTypes ==
  ASSUME SchedTypeOK, Decided, [SchedNext]_schedVars
  PROVE  row' \in [Rows -> RowStates]
<1>0. /\ row \in [Rows -> RowStates]
      /\ \A j \in JobIds : proc[j].outcome \in {"none", "ok", "snooze", "error"}
  BY DEF SchedTypeOK, RowStates, Procs
<1>1. ASSUME NEW r, NEW s \in RowStates, row' = [row EXCEPT ![r] = s]
      PROVE  row' \in [Rows -> RowStates]
  BY <1>0, <1>1
<1>2. ASSUME NEW j \in JobIds, Record(j) PROVE row' \in [Rows -> RowStates]
  <2>1. PICK s \in Outcomes(proc[j].outcome) : row' = [row EXCEPT ![proc[j].row] = s]
    BY <1>2 DEF Record
  <2>2. proc[j].outcome \in {"ok", "snooze", "error"}
    BY <1>0, <1>2 DEF Record, Decided
  <2>3. s \in RowStates
    BY <2>2, SchedulerConstants DEF Outcomes, RowStates
  <2> QED BY <1>1, <2>1, <2>3
<1>3. ASSUME \/ \E j \in JobIds : RecordFails(j) \/ Claim(j)
             \/ \E r \in Rows : Enqueue(r) \/ BecomesDue(r)
      PROVE  row' \in [Rows -> RowStates]
  BY <1>1, <1>3 DEF RecordFails, Claim, Enqueue, BecomesDue, RowStates
<1>4. ASSUME UNCHANGED row PROVE row' \in [Rows -> RowStates]
  BY <1>0, <1>4
<1>5. CASE LoopStep
  BY <1>3, <1>4, <1>5 DEF LoopStep, StepFails, BeginStep, AwaitFolders, TakeSnapshot,
    ReadDue, VisitDisk, EndClass, EndVisit, SkipKind, ReserveKind, ClaimNothing, ClaimFails,
    EndTurn, WakeUp, TimerFires, queueVars
<1>6. ASSUME NEW j \in JobIds, JobStep(j) \/ BorrowPart(j) PROVE row' \in [Rows -> RowStates]
  BY <1>2, <1>3, <1>4, <1>6 DEF JobStep, BorrowPart, ReturnPart, HandlerReturns, CheckFolder,
    Park, Moves,
    FinishJob, queueVars
<1>7. ASSUME OtherStep
      PROVE  row' \in [Rows -> RowStates]
  BY <1>3, <1>4, <1>7 DEF OtherStep, ScanStep, ViewStep, QueueStep, PauseStep, AnswerStep,
      CallWake, FolderSteps, ScanReads, ScanReturns, OpenStream, CloseStream,
      SetPaused, FolderReads, FolderAnswers, queueVars, schedVars
<1> QED
  BY <1>5, <1>6, <1>7, Steps

\* The bound on the counted claims, the paused kinds and the token.
LEMMA OtherTypes ==
  ASSUME SchedTypeOK, [SchedNext]_schedVars
  PROVE  /\ strayClaims' \in [Folders -> 0..2]
         /\ paused' \subseteq Kinds
         /\ wake' \in BOOLEAN
<1>0. strayClaims \in [Folders -> 0..2] /\ paused \subseteq Kinds /\ wake \in BOOLEAN
  BY DEF SchedTypeOK
<1>1. ASSUME NEW j \in JobIds, Claim(j) PROVE strayClaims' \in [Folders -> 0..2]
  <2>1. PICK r \in Rows :
          strayClaims' = [strayClaims EXCEPT ![FolderOf[r]] =
            IF FolderOf[r] \in R!Unavailable /\ loop.disk # NoDisk /\ @ < 2 THEN @ + 1 ELSE @]
    BY <1>1 DEF Claim, MostUrgent, Claimable
  <2> QED BY <1>0, <2>1, SchedulerConstants
<1>2. ASSUME NEW r \in resolvers, FolderAnswers(r) PROVE strayClaims' \in [Folders -> 0..2]
  BY <1>0, <1>2 DEF FolderAnswers
<1>3. CASE LoopStep
  <2>1. UNCHANGED paused /\ wake' \in BOOLEAN
    BY <1>0, <1>3 DEF LoopStep, StepFails, BeginStep, AwaitFolders, TakeSnapshot,
      ReadDue, VisitDisk, EndClass, EndVisit, SkipKind, ReserveKind, Claim, ClaimNothing,
        ClaimFails,
      EndTurn, WakeUp, TimerFires, queueVars, turnVars
  <2>2. strayClaims' \in [Folders -> 0..2]
    BY <1>0, <1>1, <1>3 DEF LoopStep, StepFails, BeginStep, AwaitFolders, TakeSnapshot,
      ReadDue, VisitDisk, EndClass, EndVisit, SkipKind, ReserveKind, ClaimNothing, ClaimFails,
      EndTurn, WakeUp, TimerFires, queueVars
  <2> QED BY <1>0, <2>1, <2>2
<1>4. ASSUME NEW j \in JobIds, JobStep(j) \/ BorrowPart(j)
      PROVE  UNCHANGED <<strayClaims, paused, wake>>
  BY <1>4 DEF JobStep, BorrowPart, ReturnPart, HandlerReturns, CheckFolder, Park, Moves,
    FinishJob, Record, RecordFails, queueVars, turnVars
<1>5. CASE FolderSteps \/ ScanStep \/ ViewStep \/ QueueStep \/ UNCHANGED schedVars
  <2>1. UNCHANGED <<strayClaims, paused, wake>>
    BY <1>5 DEF FolderSteps, ScanStep, ViewStep, QueueStep, ScanReads, ScanReturns, OpenStream,
      CloseStream, Enqueue, BecomesDue, queueVars, schedVars, turnVars
  <2> QED BY <1>0, <2>1
<1>6. CASE PauseStep
  <2>1. UNCHANGED <<strayClaims, wake>> /\ paused' \subseteq Kinds
    BY <1>6 DEF PauseStep, SetPaused, turnVars
  <2> QED BY <1>0, <2>1
<1>7. CASE CallWake
  <2>1. UNCHANGED <<strayClaims, paused>> /\ wake' = TRUE
    BY <1>7 DEF CallWake, queueVars
  <2> QED BY <1>0, <2>1
<1>8. CASE AnswerStep
  <2>1. UNCHANGED <<paused, wake>>
    BY <1>8 DEF AnswerStep, FolderReads, FolderAnswers, turnVars, queueVars
  <2>2. strayClaims' \in [Folders -> 0..2]
    BY <1>0, <1>2, <1>8 DEF AnswerStep, FolderReads, queueVars
  <2> QED BY <1>0, <2>1, <2>2
<1>9. CASE \E j \in JobIds : JobStep(j) \/ BorrowPart(j)
  BY <1>0, <1>4, <1>9
<1> QED
  BY <1>3, <1>5, <1>6, <1>7, <1>8, <1>9, Steps DEF OtherStep

\* The types, with what they rest on.
TypesInv == SchedTypeOK /\ RootsInv /\ TurnOK /\ Decided

LEMMA TurnTypes ==
  ASSUME SchedTypeOK, TurnOK, [SchedNext]_schedVars
  PROVE  TurnOK'
<1>0. loop \in Turns /\ loop.idle <= Len(loop.groups) /\ nextGroup \in Nat
  BY DEF TurnOK
<1>1. ASSUME UNCHANGED <<loop, nextGroup, refresh>> PROVE TurnOK'
  BY <1>1 DEF TurnOK
<1>2. ASSUME NEW r \in Rows, BecomesDue(r) PROVE TurnOK'
  <2>1. UNCHANGED <<nextGroup, refresh>>
    BY <1>2 DEF BecomesDue, rootVars
  <2>2. CASE loop' = loop
    BY <1>1, <2>1, <2>2
  <2>3. CASE loop.pc = "asleep" /\ loop' = [loop EXCEPT !.timer = loop.timer \cup {"fired"}]
    <3>1. loop.timer \cup {"fired"} \in SUBSET {"due", "recheck", "retry", "fired"}
      BY <1>0, TurnFields
    <3>2. loop' \in Turns
      BY <1>0, <2>3, <3>1 DEF Turns
    <3>3. /\ loop'.pc = "asleep" /\ loop'.idle = loop.idle /\ loop'.since = loop.since
          /\ loop'.groups = loop.groups
      BY <1>0, <2>3, TurnFields
    <3> QED BY <1>0, <2>1, <2>3, <3>2, <3>3 DEF TurnOK
  <2> QED BY <1>2, <2>2, <2>3 DEF BecomesDue
<1>3. CASE LoopStep
  BY <1>3, LoopTypes
<1>4. ASSUME NEW j \in JobIds, JobStep(j) \/ BorrowPart(j)
      PROVE  UNCHANGED <<loop, nextGroup, refresh>>
  BY <1>4 DEF JobStep, BorrowPart, ReturnPart, HandlerReturns, CheckFolder, Park, Moves,
    FinishJob, Record, RecordFails, rootVars, turnVars, OweWake, R!MarkUnavailable
<1>5. CASE CallWake \/ FolderSteps \/ ScanStep \/ ViewStep \/ PauseStep \/ AnswerStep
             \/ UNCHANGED schedVars
  <2>1. UNCHANGED <<loop, nextGroup, refresh>>
    BY <1>5 DEF ScanStep, ViewStep, PauseStep, AnswerStep, CallWake, FolderSteps, ScanReads,
      ScanReturns, OpenStream, CloseStream, SetPaused, FolderReads, FolderAnswers, OweWake,
      rootVars, schedVars, turnVars, R!CallWake, R!ShareTurns, R!MinutePasses, R!RequestRecheck,
      R!ResolverReads, R!ResolverAnswers
  <2> QED BY <1>1, <2>1
<1>6. ASSUME NEW r \in Rows, Enqueue(r) PROVE TurnOK'
  <2>1. UNCHANGED <<loop, nextGroup, refresh>>
    BY <1>6 DEF Enqueue, OweWake, turnVars
  <2> QED BY <1>1, <2>1
<1>7. CASE QueueStep
  BY <1>2, <1>6, <1>7 DEF QueueStep
<1>8. CASE \E j \in JobIds : JobStep(j) \/ BorrowPart(j)
  BY <1>1, <1>4, <1>8
<1> QED
  BY <1>3, <1>5, <1>7, <1>8, Steps DEF OtherStep

LEMMA TypesStep == TypesInv /\ [SchedNext]_schedVars => TypesInv'
<1> SUFFICES ASSUME TypesInv, [SchedNext]_schedVars PROVE TypesInv'
  OBVIOUS
<1>1. SchedTypeOK /\ RootsInv /\ TurnOK /\ Decided /\ R!RootsTypeOK /\ CapTypeOK
  BY DEF TypesInv, SchedTypeOK
<1>2. RootsInv'
  BY <1>1, RootsPart, RootsStep
<1>3. CapTypeOK'
  <2>1. [CapNext]_capVars
    BY <1>1, CapPart DEF TurnOK
  <2> QED BY <1>1, <2>1, TypeStep
<1>4. TurnOK'
  BY <1>1, TurnTypes
<1>5. Decided' /\ proc' \in [JobIds -> Procs]
  BY <1>1, ProcTypes
<1>6. row' \in [Rows -> RowStates]
  BY <1>1, RowTypes
<1>7. strayClaims' \in [Folders -> 0..2] /\ paused' \subseteq Kinds /\ wake' \in BOOLEAN
  BY <1>1, OtherTypes
<1> QED
  BY <1>2, <1>3, <1>4, <1>5, <1>6, <1>7 DEF TypesInv, SchedTypeOK, TurnOK, RootsInv, RowStates

LEMMA TypesStart == SchedInit => TypesInv
<1> SUFFICES ASSUME SchedInit PROVE TypesInv
  OBVIOUS
<1>1. CapTypeOK
  BY CapStart DEF SchedInit, CapInv
<1>2. RootsInv /\ R!RootsTypeOK
  BY RootsStart DEF SchedInit, RootsInv
<1>3. {} \in SUBSET {"due", "recheck", "retry", "fired"}
  OBVIOUS
<1>4. TurnOK
  BY <1>3, TurnBuilt DEF SchedInit, TurnOK
<1>5. proc \in [JobIds -> Procs] /\ Decided
  BY DEF SchedInit, FreeProc, Procs, Decided
<1>6. row \in [Rows -> RowStates]
  BY DEF SchedInit, RowStates
<1>7. strayClaims \in [Folders -> 0..2] /\ paused \subseteq Kinds
  BY DEF SchedInit
<1>8. wake \in BOOLEAN
  BY DEF SchedInit
<1> QED
  BY <1>1, <1>2, <1>4, <1>5, <1>6, <1>7, <1>8 DEF TypesInv, SchedTypeOK, TurnOK, RowStates

\* Every field of the loop's turn, every row and every job goroutine keeps its
\* type, together with the slots and the folders.
THEOREM SchedTyped == SchedSpec => []SchedTypeOK
<1>1. TypesInv => SchedTypeOK
  BY DEF TypesInv
<1> QED
  BY <1>1, TypesStart, TypesStep, PTL DEF SchedSpec

\* The scheduler uses its slots the way Capacity says: every step is one
\* critical section of capacity.go or leaves the slots alone.
THEOREM SchedulerImplementsCapacity == SchedSpec => CapSpec
<1>1. TypesInv /\ [SchedNext]_schedVars => [CapNext]_capVars
  BY CapPart DEF TypesInv, TurnOK
<1>2. SchedInit => CapInit
  BY DEF SchedInit
<1> QED
  BY <1>1, <1>2, TypesStart, TypesStep, PTL DEF SchedSpec, CapSpec

\* So whatever its loop, job goroutines, scans and streams do, the scheduler
\* leaks no slot, exceeds no limit and leaves no scan read asleep past a slot.
THEOREM SchedulerKeepsSlots == SchedSpec => [](SlotsConserved /\ WithinCapacity /\ NoMissedSlot)
BY SchedulerImplementsCapacity, SlotsAreConserved, LimitsHold, NoReadSleepsPastItsSlot, PTL

\* And its folders keep what Roots promises, although jobs park them and the
\* return of slots owes wake-ups beside its steps: a turn serves only folders
\* resolved for their present path, and a folder that comes back after its turn
\* wakes the loop.
THEOREM SchedulerKeepsFolders == SchedSpec => []R!TurnServesResolved /\ R!LateAnswerWakes
<1>1. TypesInv => R!TurnServesResolved
  BY DEF TypesInv, RootsInv, Awaited, R!TurnServesResolved, R!Servable, R!Available, R!Unavailable
<1>2. TypesInv /\ [SchedNext]_schedVars =>
        [refresh # "waiting" => \A f \in Folders :
           f \notin R!Servable /\ f \in R!Servable' => owed']_(R!rootVars)
  BY RootsPart, LateStep DEF TypesInv, RootsInv
<1> QED
  BY <1>1, <1>2, TypesStart, TypesStep, PTL DEF SchedSpec, R!LateAnswerWakes

-----------------------------------------------------------------------------
(* Rows and the goroutines that work on them.                              *)

AtWork == {"handling", "checking", "parking", "recording"}

RowsOwned ==
  /\ \A j \in JobIds : proc[j].row # NoRow <=> proc[j].phase \in AtWork
  /\ \A j \in JobIds : proc[j].row # NoRow => row[proc[j].row] = "running"
  /\ \A i, j \in JobIds : proc[i].row = proc[j].row /\ proc[i].row # NoRow => i = j
  /\ \A r \in Rows : row[r] = "running" => \E j \in JobIds : proc[j].row = r

\* A goroutine that keeps its row, or has none, leaves every other row alone.
LEMMA OwnedProc ==
  ASSUME TypesInv, RowsOwned, NEW j \in JobIds, NEW p \in Procs, row' = row,
         proc' = [proc EXCEPT ![j] = p], p.row = proc[j].row,
         p.phase \in AtWork <=> proc[j].phase \in AtWork
  PROVE  RowsOwned'
<1>1. proc \in [JobIds -> Procs]
  BY DEF TypesInv, SchedTypeOK
<1>2. proc'[j] = p /\ \A i \in JobIds : i # j => proc'[i] = proc[i]
  BY <1>1
<1>3. \A i \in JobIds : /\ proc'[i].row = proc[i].row
                         /\ (proc'[i].phase \in AtWork <=> proc[i].phase \in AtWork)
  BY <1>2
<1> QED
  BY <1>3 DEF RowsOwned

\* A row nobody works on may change, other than to running.
LEMMA OwnedRow ==
  ASSUME TypesInv, RowsOwned, NEW r \in Rows, NEW s, row[r] # "running", s # "running",
         proc' = proc, row' = [row EXCEPT ![r] = s]
  PROVE  RowsOwned'
<1>1. row'[r] = s /\ \A q \in Rows : q # r => row'[q] = row[q]
  BY DEF TypesInv, SchedTypeOK
<1>2. \A j \in JobIds : proc[j].row \in Rows \cup {NoRow}
  BY DEF TypesInv, SchedTypeOK, Procs
<1> QED
  BY <1>1, <1>2 DEF RowsOwned

\* A claim: the row gets its one goroutine.
LEMMA OwnedClaim ==
  ASSUME TypesInv, RowsOwned, NEW j \in JobIds, Claim(j)
  PROVE  RowsOwned'
<1>1. proc \in [JobIds -> Procs] /\ row \in [Rows -> RowStates] /\ proc[j].phase = "reserved"
  BY DEF TypesInv, SchedTypeOK, Claim, RowStates
<1>2. PICK r \in Rows :
        /\ row[r] = "queued" /\ row' = [row EXCEPT ![r] = "running"]
        /\ proc' = [proc EXCEPT ![j] = [row |-> r, phase |-> "handling", outcome |-> "none"]]
  BY DEF Claim, MostUrgent, Claimable
<1>3. /\ proc'[j].row = r /\ proc'[j].phase = "handling"
      /\ \A i \in JobIds : i # j => proc'[i] = proc[i]
  BY <1>1, <1>2
<1>4. row'[r] = "running" /\ \A q \in Rows : q # r => row'[q] = row[q]
  BY <1>1, <1>2
<1>5. proc[j].row = NoRow /\ \A i \in JobIds : proc[i].row # r
  <2>1. r # NoRow
    BY SchedulerConstants
  <2> QED BY <1>1, <1>2, <2>1 DEF RowsOwned, AtWork
<1>6. NoRow \notin Rows /\ \A i \in JobIds : proc[i].row \in Rows \cup {NoRow}
  BY <1>1, SchedulerConstants DEF Procs
<1>7. \A i \in JobIds : proc'[i].row # NoRow <=> proc'[i].phase \in AtWork
  BY <1>3, <1>6 DEF RowsOwned, AtWork
<1>8. \A i \in JobIds : proc'[i].row # NoRow => row'[proc'[i].row] = "running"
  BY <1>3, <1>4, <1>6 DEF RowsOwned
<1>9. \A h, i \in JobIds : proc'[h].row = proc'[i].row /\ proc'[h].row # NoRow => h = i
  BY <1>3, <1>5 DEF RowsOwned
<1>10. ASSUME NEW q \in Rows, row'[q] = "running" PROVE \E i \in JobIds : proc'[i].row = q
  <2>1. CASE q = r
    BY <1>3, <2>1
  <2>2. CASE q # r
    <3>1. PICK i \in JobIds : proc[i].row = q
      BY <1>4, <1>10, <2>2 DEF RowsOwned
    <3>2. i # j
      BY <1>5, <1>6, <3>1
    <3> QED BY <1>3, <3>1, <3>2
  <2> QED BY <2>1, <2>2
<1> QED
  BY <1>7, <1>8, <1>9, <1>10 DEF RowsOwned

\* A job that has recorded its outcome, or could not, has no row any more.
LEMMA OwnedEnd ==
  ASSUME TypesInv, RowsOwned, NEW j \in JobIds, NEW s, s # "running", proc[j].phase = "recording",
         row' = [row EXCEPT ![proc[j].row] = s],
         proc' = [proc EXCEPT ![j] = [FreeProc EXCEPT !.phase = "ended"]]
  PROVE  RowsOwned'
<1>1. proc \in [JobIds -> Procs] /\ row \in [Rows -> RowStates]
  BY DEF TypesInv, SchedTypeOK, RowStates
<1>2. /\ proc'[j].row = NoRow /\ proc'[j].phase = "ended"
      /\ \A i \in JobIds : i # j => proc'[i] = proc[i]
  BY <1>1 DEF FreeProc
<1> DEFINE r == proc[j].row
<1>3. r \in Rows /\ \A i \in JobIds : i # j => proc[i].row # r
  BY <1>1 DEF RowsOwned, AtWork, Procs
<1>4. row'[r] = s /\ \A q \in Rows : q # r => row'[q] = row[q]
  BY <1>1, <1>3
<1>5. \A i \in JobIds : proc[i].row \in Rows \cup {NoRow}
  BY <1>1 DEF Procs
<1> HIDE DEF r
<1>6. \A i \in JobIds : proc'[i].row # NoRow <=> proc'[i].phase \in AtWork
  BY <1>2 DEF RowsOwned, AtWork
<1>7. \A i \in JobIds : proc'[i].row # NoRow => row'[proc'[i].row] = "running"
  BY <1>2, <1>3, <1>4, <1>5 DEF RowsOwned
<1>8. \A h, i \in JobIds : proc'[h].row = proc'[i].row /\ proc'[h].row # NoRow => h = i
  BY <1>2 DEF RowsOwned
<1>9. \A q \in Rows : row'[q] = "running" => \E i \in JobIds : proc'[i].row = q
  BY <1>2, <1>3, <1>4 DEF RowsOwned, r
<1> QED
  BY <1>6, <1>7, <1>8, <1>9 DEF RowsOwned

LEMMA OwnedStep == TypesInv /\ RowsOwned /\ [SchedNext]_schedVars => RowsOwned'
<1> SUFFICES ASSUME TypesInv, RowsOwned, [SchedNext]_schedVars PROVE RowsOwned'
  OBVIOUS
<1>0. proc \in [JobIds -> Procs] /\ row \in [Rows -> RowStates] /\ Decided
      /\ \A j \in JobIds : proc[j].outcome \in {"none", "ok", "snooze", "error"}
  BY DEF TypesInv, SchedTypeOK, RowStates, Procs
<1>1. ASSUME UNCHANGED <<row, proc>> PROVE RowsOwned'
  BY <1>1 DEF RowsOwned
<1>2. ASSUME NEW j \in JobIds, NEW phase \in AtWork,
             NEW outcome \in {"none", "ok", "snooze", "error"}, Moves(j, phase, outcome),
             proc[j].phase \in AtWork
      PROVE  RowsOwned'
  <2> DEFINE p == [proc[j] EXCEPT !.phase = phase, !.outcome = outcome]
  <2>1. proc' = [proc EXCEPT ![j] = p] /\ row' = row
    BY <1>0, <1>2 DEF Moves, Procs
  <2>2. p \in Procs /\ p.row = proc[j].row /\ p.phase = phase
    BY <1>0, <1>2 DEF Procs, AtWork
  <2> HIDE DEF p
  <2> QED BY <1>2, <2>1, <2>2, OwnedProc
<1>3. ASSUME NEW j \in JobIds, HandlerReturns(j) \/ CheckFolder(j) \/ Park(j) PROVE RowsOwned'
  BY <1>0, <1>2, <1>3 DEF HandlerReturns, CheckFolder, Park, AtWork
<1>4. ASSUME NEW j \in JobIds, Record(j) \/ RecordFails(j) PROVE RowsOwned'
  <2>1. PICK s : /\ row' = [row EXCEPT ![proc[j].row] = s]
                 /\ s \in Outcomes(proc[j].outcome) \/ s = "stranded"
    BY <1>4 DEF Record, RecordFails
  <2>2. proc[j].outcome \in {"ok", "snooze", "error"} /\ proc[j].phase = "recording"
    BY <1>0, <1>4 DEF Record, RecordFails, Decided
  <2>3. s # "running"
    BY <2>1, <2>2, SchedulerConstants DEF Outcomes
  <2> QED BY <1>4, <2>1, <2>2, <2>3, OwnedEnd DEF Record, RecordFails
<1>5. ASSUME NEW j \in JobIds, FinishJob(j) \/ ClaimNothing(j) \/ ClaimFails(j) PROVE RowsOwned'
  <2>1. /\ proc' = [proc EXCEPT ![j] = FreeProc] /\ row' = row
        /\ proc[j].phase \in {"ended", "reserved"}
    BY <1>5 DEF FinishJob, ClaimNothing, ClaimFails
  <2>2. FreeProc \in Procs /\ FreeProc.row = NoRow /\ FreeProc.phase \notin AtWork
    BY DEF FreeProc, Procs, AtWork
  <2>3. proc[j].phase \notin AtWork
    BY <2>1 DEF AtWork
  <2>4. proc[j].row = NoRow
    BY <2>3 DEF RowsOwned
  <2> QED BY <2>1, <2>2, <2>3, <2>4, OwnedProc
<1>6. ASSUME NEW j \in JobIds, ReserveKind(j) PROVE RowsOwned'
  <2> DEFINE p == [proc[j] EXCEPT !.phase = "reserved"]
  <2>1. /\ proc' = [proc EXCEPT ![j] = p] /\ row' = row
        /\ proc[j].phase = "free"
    BY <1>0, <1>6 DEF ReserveKind, Procs
  <2>2. p \in Procs /\ p.row = proc[j].row /\ p.phase = "reserved"
    BY <1>0 DEF Procs
  <2> HIDE DEF p
  <2> QED BY <2>1, <2>2, OwnedProc DEF AtWork
<1>7. CASE LoopStep
  BY <1>1, <1>5, <1>6, <1>7, OwnedClaim DEF LoopStep, StepFails, BeginStep, AwaitFolders,
    TakeSnapshot,
    ReadDue, VisitDisk, EndClass, EndVisit, SkipKind, EndTurn, WakeUp, TimerFires, queueVars
<1>8. CASE \E j \in JobIds : JobStep(j) \/ BorrowPart(j)
  BY <1>1, <1>3, <1>4, <1>5, <1>8 DEF JobStep, BorrowPart, ReturnPart, queueVars
<1>9. CASE QueueStep
  BY <1>9, OwnedRow DEF QueueStep, Enqueue, BecomesDue
<1>10. CASE CallWake \/ FolderSteps \/ ScanStep \/ ViewStep \/ PauseStep \/ AnswerStep
              \/ UNCHANGED schedVars
  BY <1>1, <1>10 DEF ScanStep, ViewStep, PauseStep, AnswerStep, CallWake, FolderSteps, ScanReads,
      ScanReturns, OpenStream, CloseStream, SetPaused, FolderReads, FolderAnswers, queueVars,
        schedVars
<1> QED
  BY <1>7, <1>8, <1>9, <1>10, Steps DEF OtherStep

\* What the invariant counts.
LEMMA OwnersCounted ==
  ASSUME RowsOwned
  PROVE  RowsRunOnce
<1> SUFFICES ASSUME NEW r \in Rows
             PROVE  Cardinality({j \in JobIds : proc[j].row = r}) =
                      IF row[r] = "running" THEN 1 ELSE 0
  BY DEF RowsRunOnce
<1>1. r # NoRow
  BY SchedulerConstants
<1>2. CASE row[r] = "running"
  <2>1. PICK j \in JobIds : proc[j].row = r
    BY <1>2 DEF RowsOwned
  <2>2. {i \in JobIds : proc[i].row = r} = {j}
    BY <1>1, <2>1 DEF RowsOwned
  <2> QED BY <1>2, <2>2, FS_Singleton
<1>3. CASE row[r] # "running"
  <2>1. {i \in JobIds : proc[i].row = r} = {}
    BY <1>1, <1>3 DEF RowsOwned
  <2> QED BY <1>3, <2>1, FS_EmptySet
<1> QED
  BY <1>2, <1>3

LEMMA OwnedStart == SchedInit => RowsOwned
BY DEF SchedInit, RowsOwned, FreeProc, AtWork

\* No row is run by two goroutines and none is left running without one, for
\* every set of rows, kinds and folders and whatever fails.
THEOREM EachRowRunsOnce == SchedSpec => []RowsRunOnce
<1> QED
  BY TypesStart, TypesStep, OwnedStart, OwnedStep, OwnersCounted, PTL DEF SchedSpec

-----------------------------------------------------------------------------
(* Parked folders.                                                         *)

\* The scheduler runs on folders that stay where they are.
Registered ==
  \A f \in Folders : folderPath[f] # NoPath /\ known[f].path \in {NoPath, folderPath[f]}

\* The steps that touch what is known of the folders.
LEMMA WhoKnows ==
  ASSUME R!RootsTypeOK, [SchedNext]_schedVars
  PROVE  /\ UNCHANGED folderPath
         /\ \/ UNCHANGED known
            \/ BeginStep
            \/ AwaitFolders /\ R!ParkUnanswered
            \/ \E f \in R!Known : R!MarkUnavailable(f)
            \/ \E r \in resolvers : FolderAnswers(r)
<1> DEFINE Goal == \/ UNCHANGED known
                   \/ BeginStep
                   \/ AwaitFolders /\ R!ParkUnanswered
                   \/ \E f \in R!Known : R!MarkUnavailable(f)
                   \/ \E r \in resolvers : FolderAnswers(r)
<1>1. ASSUME NEW j \in JobIds, Park(j) PROVE UNCHANGED folderPath /\ Goal
  BY <1>1 DEF Park, R!MarkUnavailable
<1>2. CASE LoopStep
  BY <1>2 DEF LoopStep, StepFails, BeginStep, AwaitFolders, TakeSnapshot, ReadDue, VisitDisk,
    EndClass, EndVisit, SkipKind, ReserveKind, Claim, ClaimNothing, ClaimFails, EndTurn, WakeUp,
    TimerFires, rootVars, R!BeginRefresh, R!EndRefresh, R!ParkUnanswered, R!EndTurn
<1>3. ASSUME NEW j \in JobIds, JobStep(j) \/ BorrowPart(j) PROVE UNCHANGED folderPath /\ Goal
  BY <1>1, <1>3 DEF JobStep, BorrowPart, ReturnPart, HandlerReturns, CheckFolder, FinishJob, Record,
    RecordFails, rootVars, OweWake
<1>4. CASE CallWake \/ FolderSteps \/ ScanStep \/ ViewStep \/ QueueStep \/ PauseStep
             \/ UNCHANGED schedVars
  BY <1>4 DEF ScanStep, ViewStep, QueueStep, PauseStep, CallWake, FolderSteps, ScanReads,
    ScanReturns, OpenStream, CloseStream, Enqueue, BecomesDue, SetPaused, OweWake, rootVars,
      schedVars,
    R!CallWake, R!ShareTurns, R!MinutePasses, R!RequestRecheck
<1>5. CASE AnswerStep
  BY <1>5 DEF AnswerStep, FolderReads, FolderAnswers, R!ResolverReads, R!ResolverAnswers
<1> QED
  BY <1>2, <1>3, <1>4, <1>5, Steps DEF OtherStep

\* Only an answer makes a folder available again, and no step moves one.
LEMMA StaysUnavailable ==
  ASSUME R!RootsTypeOK, Registered, [SchedNext]_schedVars
  PROVE  /\ Registered'
         /\ \A f \in Folders : f \in R!Unavailable =>
              f \in R!Unavailable' \/ \E r \in resolvers : FolderAnswers(r)
<1>0. /\ known \in [Folders -> FolderRecords] /\ resolvers \subseteq R!Resolvers
      /\ folderPath \in [Folders -> Paths \cup {NoPath}]
      /\ NoPath \notin Paths
  BY SchedulerConstants DEF R!RootsTypeOK, FolderRecords
<1>1. CASE UNCHANGED <<known, folderPath>>
  BY <1>1 DEF Registered, R!Unavailable, R!Known
<1>2. CASE BeginStep
  <2>1. R!BeginRefresh /\ folderPath' = folderPath
    BY <1>2 DEF BeginStep, R!BeginRefresh
  <2>2. ASSUME NEW f \in Folders
        PROVE  /\ known'[f].path \in {NoPath, folderPath[f]}
               /\ f \in R!Unavailable => known'[f].path = known[f].path /\ known'[f].unavailable
    <3>1. folderPath[f] # NoPath
      BY DEF Registered
    <3>2. known'[f] = IF f \in R!Pending THEN R!Entered(f) ELSE known[f]
      BY <2>1, <3>1 DEF R!BeginRefresh
    <3>3. CASE f \notin R!Pending
      BY <3>2, <3>3 DEF Registered, R!Unavailable
    <3>4. CASE f \in R!Pending
      <4>1. R!Entered(f).path = folderPath[f]
        BY <1>0 DEF R!Entered, R!State, FolderRecords
      <4>2. f \in R!Unavailable => known[f].path = folderPath[f] /\ known[f].unavailable
        BY DEF Registered, R!Unavailable, R!Known
      <4>3. f \in R!Unavailable => R!Entered(f).unavailable
        BY <1>0, <4>2 DEF R!Entered, FolderRecords
      <4> QED BY <3>2, <3>4, <4>1, <4>2, <4>3
    <3> QED BY <3>3, <3>4
  <2> QED BY <2>1, <2>2 DEF Registered, R!Unavailable, R!Known
<1>3. CASE AwaitFolders /\ R!ParkUnanswered
  <2>1. \A f \in Folders : known'[f] = IF f \in R!Unanswered
                            THEN [known[f] EXCEPT !.unavailable = TRUE, !.late = TRUE] ELSE known[f]
    BY <1>3 DEF R!ParkUnanswered
  <2>2. \A f \in Folders : known'[f].path = known[f].path
                           /\ (known[f].unavailable => known'[f].unavailable)
    BY <1>0, <2>1 DEF FolderRecords
  <2>3. folderPath' = folderPath
    BY <1>3 DEF R!ParkUnanswered
  <2> QED BY <2>2, <2>3 DEF Registered, R!Unavailable, R!Known
<1>4. ASSUME NEW g \in R!Known, R!MarkUnavailable(g)
      PROVE  Registered' /\ \A f \in Folders : f \in R!Unavailable => f \in R!Unavailable'
  <2>1. known' = [known EXCEPT ![g] = [known[g] EXCEPT !.unavailable = TRUE]] /\ g \in Folders
    BY <1>0, <1>4 DEF R!MarkUnavailable, R!Known
  <2>2. \A f \in Folders : known'[f].path = known[f].path
                           /\ (known[f].unavailable => known'[f].unavailable)
    BY <1>0, <2>1 DEF FolderRecords
  <2>3. folderPath' = folderPath
    BY <1>4 DEF R!MarkUnavailable
  <2> QED BY <2>2, <2>3 DEF Registered, R!Unavailable, R!Known
<1>5. ASSUME NEW r \in resolvers, FolderAnswers(r) PROVE Registered'
  <2>1. r.folder \in Folders /\ r.path \in Paths
    BY <1>0 DEF R!Resolvers
  <2>2. folderPath' = folderPath
        /\ (known' = known \/ (known[r.folder].path = r.path
                               /\ known' = [known EXCEPT ![r.folder] = R!Resolved(r)]))
    BY <1>5 DEF FolderAnswers, R!ResolverAnswers, R!Expected
  <2>3. R!Resolved(r).path = r.path
    BY DEF R!Resolved, R!State
  <2>4. \A f \in Folders : known'[f].path = known[f].path
    BY <1>0, <2>1, <2>2, <2>3
  <2> QED BY <2>2, <2>4 DEF Registered
<1> QED
  BY <1>1, <1>2, <1>3, <1>4, <1>5, WhoKnows

\* A folder whose claim was under way when it was parked is passed over by
\* every later claim, until it is resolved again.
StrayOnce ==
  \A f \in Folders : strayClaims[f] # 0 =>
    /\ strayClaims[f] = 1
    /\ f \in R!Unavailable
    /\ loop.pc = "claim" => f \in loop.avoid

\* Only a claim counts one, and only an answer clears it.
LEMMA WhoStrays ==
  ASSUME [SchedNext]_schedVars
  PROVE  \/ UNCHANGED strayClaims
         \/ \E j \in JobIds : Claim(j)
         \/ \E r \in resolvers : FolderAnswers(r)
<1>1. CASE LoopStep
  BY <1>1 DEF LoopStep, StepFails, BeginStep, AwaitFolders, TakeSnapshot, ReadDue, VisitDisk,
    EndClass, EndVisit, SkipKind, ReserveKind, ClaimNothing, ClaimFails, EndTurn, WakeUp,
    TimerFires, queueVars
<1>2. CASE \E j \in JobIds : JobStep(j) \/ BorrowPart(j)
  BY <1>2 DEF JobStep, BorrowPart, ReturnPart, HandlerReturns, CheckFolder, Park, Moves,
    FinishJob, Record, RecordFails, queueVars
<1>3. CASE CallWake \/ FolderSteps \/ ScanStep \/ ViewStep \/ QueueStep \/ PauseStep
             \/ UNCHANGED schedVars
  BY <1>3 DEF ScanStep, ViewStep, QueueStep, PauseStep, CallWake, FolderSteps, ScanReads,
    ScanReturns, OpenStream, CloseStream, Enqueue, BecomesDue, SetPaused, queueVars, schedVars
<1>4. CASE AnswerStep
  BY <1>4 DEF AnswerStep, FolderReads, queueVars
<1> QED
  BY <1>1, <1>2, <1>3, <1>4, Steps DEF OtherStep

\* The loop enters a claim only by a reservation, which reads the folders.
LEMMA WhoReserves ==
  ASSUME TurnOK, [SchedNext]_schedVars, loop'.pc = "claim"
  PROVE  \/ loop.pc = "claim" /\ loop' = loop
         \/ \E j \in JobIds : ReserveKind(j)
<1>0. {} \in SUBSET {"due", "recheck", "retry", "fired"} /\ loop \in Turns
  BY DEF TurnOK
<1>1. \A pc \in {"prepare", "asleep"}, timer \in SUBSET {"due", "recheck", "retry", "fired"} :
        loop' # Turn(pc, timer)
  BY TurnBuilt
<1>2. ASSUME loop' = loop PROVE loop.pc = "claim" /\ loop' = loop
  BY <1>2
<1>3. ASSUME StepFails \/ EndTurn \/ WakeUp \/ TimerFires \/ \E j \in JobIds : ClaimFails(j)
      PROVE  FALSE
  <2>1. \E timer : loop' = Turn("asleep", timer) \/ loop' = Turn("prepare", timer)
    BY <1>3 DEF StepFails, EndTurn, WakeUp, TimerFires, ClaimFails, Sleep
  <2> QED BY <2>1 DEF Turn
<1>4. ASSUME BeginStep \/ TakeSnapshot \/ ReadDue \/ VisitDisk \/ EndClass \/ EndVisit \/ SkipKind
             \/ \E j \in JobIds : Claim(j) \/ ClaimNothing(j)
      PROVE  FALSE
  BY <1>0, <1>4, TurnFields DEF BeginStep, TakeSnapshot, ReadDue, VisitDisk, EndClass, EndVisit,
    SkipKind, Claim, ClaimNothing
<1>5. CASE LoopStep
  BY <1>2, <1>3, <1>4, <1>5 DEF LoopStep, AwaitFolders, turnVars
<1>6. CASE \E j \in JobIds : JobStep(j) \/ BorrowPart(j)
  BY <1>2, <1>6 DEF JobStep, BorrowPart, ReturnPart, HandlerReturns, CheckFolder, Park, Moves,
    FinishJob, Record, RecordFails, turnVars
<1>7. CASE CallWake \/ FolderSteps \/ ScanStep \/ ViewStep \/ PauseStep \/ AnswerStep
             \/ UNCHANGED schedVars
  BY <1>2, <1>7 DEF ScanStep, ViewStep, PauseStep, AnswerStep, CallWake, FolderSteps, ScanReads,
    ScanReturns, OpenStream, CloseStream, SetPaused, FolderReads, FolderAnswers, turnVars, schedVars
<1>8. CASE QueueStep
  BY <1>0, <1>2, <1>8, TurnFields DEF QueueStep, Enqueue, BecomesDue, turnVars
<1> QED
  BY <1>5, <1>6, <1>7, <1>8, Steps DEF OtherStep

LEMMA StrayStep ==
  TypesInv /\ Registered /\ StrayOnce /\ [SchedNext]_schedVars => StrayOnce'
<1> SUFFICES ASSUME TypesInv, Registered, StrayOnce, [SchedNext]_schedVars,
                    NEW f \in Folders, strayClaims'[f] # 0
             PROVE  /\ strayClaims'[f] = 1
                    /\ f \in R!Unavailable'
                    /\ loop'.pc = "claim" => f \in loop'.avoid
  BY DEF StrayOnce
<1>0. /\ R!RootsTypeOK /\ TurnOK /\ loop \in Turns /\ strayClaims \in [Folders -> 0..2]
      /\ strayClaims[f] # 0 => strayClaims[f] = 1 /\ f \in R!Unavailable
                               /\ (loop.pc = "claim" => f \in loop.avoid)
  BY DEF TypesInv, SchedTypeOK, TurnOK, StrayOnce
<1>1. ASSUME NEW j \in JobIds, Claim(j)
      PROVE  strayClaims'[f] = 1 /\ f \in R!Unavailable' /\ loop'.pc = "visit"
  <2>1. PICK r \in Claimable : strayClaims' = [strayClaims EXCEPT ![FolderOf[r]] =
            IF FolderOf[r] \in R!Unavailable /\ loop.disk # NoDisk /\ @ < 2 THEN @ + 1 ELSE @]
    BY <1>1 DEF Claim, MostUrgent
  <2>2. loop.disk # NoDisk => FolderOf[r] \notin loop.avoid
    BY <2>1 DEF Claimable
  <2>3. loop.pc = "claim" /\ loop'.pc = "visit"
    BY <1>0, <1>1, TurnFields DEF Claim
  <2>4. UNCHANGED known
    BY <1>1 DEF Claim, rootVars
  <2>5. strayClaims'[f] = 1 /\ f \in R!Unavailable
    BY <1>0, <2>1, <2>2, <2>3
  <2> QED BY <2>3, <2>4, <2>5 DEF R!Unavailable, R!Known
<1>2. ASSUME NEW r \in resolvers, FolderAnswers(r)
      PROVE  /\ strayClaims'[f] = strayClaims[f] /\ f \in R!Unavailable' /\ loop' = loop
  BY <1>0, <1>2 DEF FolderAnswers, turnVars
<1>3. ASSUME UNCHANGED strayClaims, ~\E r \in resolvers : FolderAnswers(r)
      PROVE  strayClaims'[f] = 1 /\ f \in R!Unavailable'
  BY <1>0, <1>3, StaysUnavailable
<1>4. ASSUME NEW j \in JobIds, ReserveKind(j), strayClaims[f] # 0
      PROVE  f \in loop'.avoid
  <2>1. loop'.avoid = R!Unavailable
    BY <1>0, <1>4, TurnFields DEF ReserveKind
  <2> QED BY <1>0, <1>4, <2>1
<1>5. ASSUME UNCHANGED strayClaims, loop'.pc = "claim" PROVE f \in loop'.avoid
  BY <1>0, <1>4, <1>5, WhoReserves
<1> QED
  BY <1>0, <1>1, <1>2, <1>3, <1>5, WhoStrays

LEMMA StrayStart == SchedInit => Registered /\ StrayOnce
BY DEF SchedInit, Registered, StrayOnce, R!RootsInit, R!Unknown, R!State

\* A folder parked in the middle of a turn is claimed from at most once more,
\* by the claim that had already read the folders.
THEOREM ParkedFolderIsLeft == SchedSpec => []ParkedClaimedOnce
<1>1. TypesInv /\ StrayOnce => ParkedClaimedOnce
  <2> SUFFICES ASSUME TypesInv, StrayOnce, NEW f \in Folders PROVE strayClaims[f] <= 1
    BY DEF ParkedClaimedOnce
  <2>1. strayClaims[f] \in 0..2
    BY DEF TypesInv, SchedTypeOK
  <2> QED BY <2>1 DEF StrayOnce
<1>2. TypesInv /\ Registered /\ [SchedNext]_schedVars => Registered'
  BY StaysUnavailable DEF TypesInv, SchedTypeOK
<1> QED
  BY <1>1, <1>2, TypesStart, TypesStep, StrayStart, StrayStep, PTL DEF SchedSpec

-----------------------------------------------------------------------------
(* Sleeping through work.                                                  *)

\* The loop will step again, or has been woken.
Alert ==
  \/ wake \/ owed
  \/ \E j \in JobIds : proc[j].phase = "ended"
  \/ loop.timer \cap {"retry", "fired"} # {}

InTurn == loop.pc \in {"due", "visit", "kind", "claim", "until"}

\* There is nothing to start for the row, or the loop steps again because of it.
Idle(r) ==
  \/ row[r] # "queued" \/ KindOf[r] \in paused
  \/ ReadsSource(KindOf[r]) /\ FolderOf[r] \notin R!Available
  \/ r \in loop.since

\* What the loop holds between a reservation and its claim.
HeldJob(k) == IF loop.pc = "claim" /\ loop.kind = k THEN 1 ELSE 0
HeldRead(d) == IF loop.pc = "claim" /\ loop.disk = d THEN Demand[loop.kind].read ELSE 0
HeldCPU == IF loop.pc = "claim" THEN Demand[loop.kind].cpu ELSE 0
HeldClassifier == IF loop.pc = "claim" THEN Demand[loop.kind].classifier ELSE 0
HeldFaceLane == IF loop.pc = "claim" THEN Demand[loop.kind].faceLane ELSE 0

\* A job of the kind would fit if the loop gave that back.
CouldReserve(d, k) ==
  /\ running[k] - HeldJob(k) < Concurrency[k]
  /\ cpuUsed - HeldCPU + Demand[k].cpu <= CPUSlots
  /\ classifierUsed - HeldClassifier + Demand[k].classifier <= ClassifierSlots
  /\ faceLaneUsed - HeldFaceLane + Demand[k].faceLane <= FaceLaneSlots
  /\ Demand[k].read > 0 =>
       /\ scanWaiting[d] = 0
       /\ readUsed[d] - HeldRead(d) + Demand[k].read + Kept(d) <= ReadLimit(d, ReadSlots(d))

Passed(r) ==
  \/ Idle(r)
  \/ ReadersIn("reading", DiskOfRow(r)) # {}
  \/ ~CouldReserve(DiskOfRow(r), KindOf[r])

\* A row that waits out its delay will be found when it is due.
DelayedNoticed ==
  \A r \in Rows : row[r] = "delayed" =>
    \/ loop.pc = "asleep" /\ "due" \in loop.timer
    \/ loop.pc = "prepare" /\ refresh = "idle"
    \/ r \in loop.since

FoldersGrouped ==
  InTurn => \A f \in R!Available : \E i \in DOMAIN loop.groups :
    loop.groups[i].disk = known[f].disk /\ f \in loop.groups[i].folders

NoDiskGrouped ==
  InTurn => \E i \in DOMAIN loop.groups : loop.groups[i].disk = NoDisk

DueNoticed ==
  InTurn /\ loop.pc # "due" =>
    /\ \A r \in Rows : row[r] = "queued" => loop.due[KindOf[r]] <= ClassOf[r] \/ r \in loop.since
    /\ loop.paused \subseteq paused

AvoidedAway == loop.pc = "claim" => loop.avoid \cap R!Available = {}

\* What a turn found empty stays without a row to start.
EmptyStays ==
  \A r \in Rows :
    <<DiskOfRow(r), KindOf[r]>> \in loop.empty /\ ClassOf[r] <= loop.class => Idle(r)

\* How many visits ago the loop turned to group i.
Ago(i) == IF i <= nextGroup THEN nextGroup - i + 1 ELSE nextGroup + Len(loop.groups) - i + 1

GroupPassed(d) ==
  \A r \in Rows : DiskOfRow(r) = d /\ ClassOf[r] <= loop.class => Passed(r)

\* The groups of the last idle visits, the kinds the present visit is done
\* with and, once the turn is over, every row.
VisitedPassed ==
  loop.pc = "visit" =>
    \A i \in DOMAIN loop.groups : Ago(i) <= loop.idle => GroupPassed(loop.groups[i].disk)

VisitingPassed ==
  loop.pc \in {"kind", "claim"} =>
    /\ \A i \in DOMAIN loop.groups : Ago(i) <= loop.idle + 1 =>
         loop.groups[i].disk = loop.disk \/ GroupPassed(loop.groups[i].disk)
    /\ \A r \in Rows :
         DiskOfRow(r) = loop.disk /\ ClassOf[r] <= loop.class /\ KindOf[r] \notin loop.left
           => Passed(r)

AllPassed == loop.pc \in {"until", "asleep"} => \A r \in Rows : Passed(r)

InRange ==
  /\ loop.pc = "visit" /\ loop.idle > 0 => nextGroup < Len(loop.groups)
  /\ loop.pc \in {"kind", "claim"} => nextGroup < Len(loop.groups)

Caught ==
  /\ DelayedNoticed /\ FoldersGrouped /\ NoDiskGrouped /\ DueNoticed /\ AvoidedAway /\ EmptyStays
  /\ VisitedPassed /\ VisitingPassed /\ AllPassed /\ InRange

\* The goroutine the loop reserved for holds what the loop is about to claim for.
Reservation ==
  /\ \A j \in JobIds : proc[j].phase = "reserved" =>
       loop.pc = "claim" /\ job[j] = Granted(loop.kind, loop.disk)
  /\ \A i, j \in JobIds : proc[i].phase = "reserved" /\ proc[j].phase = "reserved" => i = j

NothingEmptyYet == loop.pc \in {"prepare", "due"} => loop.empty = {}

Noticed == Reservation /\ NothingEmptyYet /\ (Alert \/ Caught)

\* The counters a reservation looks at, and the constants it compares them with.
LEMMA CapFacts ==
  ASSUME CapTypeOK, NEW d \in AllDisks, NEW k \in Kinds
  PROVE  /\ cpuUsed \in Int /\ classifierUsed \in Int /\ faceLaneUsed \in Int
         /\ running[k] \in Int /\ readUsed[d] \in Int /\ scanWaiting[d] \in Int
         /\ scanAhead[d] \in Int /\ scanHeld[d] \in Int /\ foreground[d] \in Int
         /\ Kept(d) \in Int /\ Kept(d) >= 0
         /\ ReadLimit(d, ReadSlots(d)) \in Int
         /\ Demand[k] \in Resources
         /\ Demand[k].read \in 0..1 /\ Demand[k].cpu \in 0..1
         /\ Demand[k].classifier \in 0..1 /\ Demand[k].faceLane \in 0..1
         /\ Concurrency[k] \in Int /\ CPUSlots \in Int /\ ClassifierSlots \in Int
         /\ FaceLaneSlots \in Int
<1>1. /\ cpuUsed \in Int /\ classifierUsed \in Int /\ faceLaneUsed \in Int
      /\ running[k] \in Int /\ readUsed[d] \in Int /\ scanWaiting[d] \in Int
      /\ scanAhead[d] \in Int /\ scanHeld[d] \in Int /\ foreground[d] \in Int
  BY DEF CapTypeOK
<1>2. Kept(d) \in Int /\ Kept(d) >= 0
  BY <1>1 DEF Kept
<1>3. Demand[k] \in Resources /\ Concurrency[k] \in Int
      /\ CPUSlots \in Int /\ ClassifierSlots \in Int /\ FaceLaneSlots \in Int
  BY CapacityConstants
<1>4. ReadSlots(d) \in Int
  BY CapacityConstants DEF ReadSlots, CapTypeOK
<1>5. ReadLimit(d, ReadSlots(d)) \in Int
  BY <1>4 DEF ReadLimit
<1> QED
  BY <1>1, <1>2, <1>3, <1>5, DemandFields

\* Outside a claim the loop holds nothing.
LEMMA NothingHeld ==
  ASSUME CapTypeOK, loop.pc # "claim", NEW d \in AllDisks, NEW k \in Kinds
  PROVE  CouldReserve(d, k) <=> CanReserveJob(d, k)
<1>1. /\ HeldJob(k) = 0 /\ HeldRead(d) = 0 /\ HeldCPU = 0 /\ HeldClassifier = 0 /\ HeldFaceLane = 0
  BY DEF HeldJob, HeldRead, HeldCPU, HeldClassifier, HeldFaceLane
<1>2. running[k] \in Int /\ cpuUsed \in Int /\ classifierUsed \in Int /\ faceLaneUsed \in Int
      /\ readUsed[d] \in Int
  BY CapFacts
<1> QED
  BY <1>1, <1>2 DEF CouldReserve, CanReserveJob, Fits

\* What a job could reserve, it could before, unless a scan reads the disk.
Tighter ==
  \A d \in AllDisks, k \in Kinds :
    /\ ReadersIn("reading", d) # {} => ReadersIn("reading", d)' # {}
    /\ CouldReserve(d, k)' => CouldReserve(d, k) \/ ReadersIn("reading", d)' # {}

\* The loop holds the same before and after.
HoldsOn == loop'.pc = loop.pc /\ loop'.kind = loop.kind /\ loop'.disk = loop.disk

LEMMA HeldOn ==
  ASSUME HoldsOn, NEW d \in AllDisks, NEW k \in Kinds
  PROVE  /\ HeldJob(k)' = HeldJob(k) /\ HeldRead(d)' = HeldRead(d) /\ HeldCPU' = HeldCPU
         /\ HeldClassifier' = HeldClassifier /\ HeldFaceLane' = HeldFaceLane
BY DEF HoldsOn, HeldJob, HeldRead, HeldCPU, HeldClassifier, HeldFaceLane

LEMMA HeldTypes ==
  ASSUME NEW d \in AllDisks, NEW k \in Kinds, loop.pc = "claim" => loop.kind \in Kinds
  PROVE  /\ HeldJob(k) \in Int /\ HeldRead(d) \in Int /\ HeldCPU \in Int
         /\ HeldClassifier \in Int /\ HeldFaceLane \in Int
<1>1. loop.pc = "claim" => Demand[loop.kind] \in Resources
  BY CapacityConstants
<1> QED
  BY <1>1, DemandFields DEF HeldJob, HeldRead, HeldCPU, HeldClassifier, HeldFaceLane

\* A reservation that finds every counter at least as high finds no more room.
LEMMA HigherCounters ==
  ASSUME CapTypeOK, CapTypeOK', HoldsOn, loop.pc = "claim" => loop.kind \in Kinds,
         NEW d \in AllDisks, NEW k \in Kinds,
         running'[k] >= running[k], cpuUsed' >= cpuUsed, classifierUsed' >= classifierUsed,
         faceLaneUsed' >= faceLaneUsed,
         Demand[k].read > 0 => /\ scanWaiting'[d] = 0 => scanWaiting[d] = 0
                               /\ readUsed'[d] + Kept(d)' >= readUsed[d] + Kept(d)
                               /\ ReadLimit(d, ReadSlots(d))' <= ReadLimit(d, ReadSlots(d))
  PROVE  CouldReserve(d, k)' => CouldReserve(d, k)
<1> SUFFICES ASSUME CouldReserve(d, k)' PROVE CouldReserve(d, k)
  OBVIOUS
<1>1. /\ HeldJob(k)' = HeldJob(k) /\ HeldRead(d)' = HeldRead(d) /\ HeldCPU' = HeldCPU
      /\ HeldClassifier' = HeldClassifier /\ HeldFaceLane' = HeldFaceLane
  BY HeldOn
<1>2. /\ HeldJob(k) \in Int /\ HeldRead(d) \in Int /\ HeldCPU \in Int
      /\ HeldClassifier \in Int /\ HeldFaceLane \in Int
  BY HeldTypes
<1>3. /\ cpuUsed \in Int /\ classifierUsed \in Int /\ faceLaneUsed \in Int
      /\ running[k] \in Int /\ readUsed[d] \in Int
      /\ Kept(d) \in Int /\ ReadLimit(d, ReadSlots(d)) \in Int
      /\ Demand[k].read \in 0..1 /\ Demand[k].cpu \in 0..1
      /\ Demand[k].classifier \in 0..1 /\ Demand[k].faceLane \in 0..1
      /\ Concurrency[k] \in Int /\ CPUSlots \in Int /\ ClassifierSlots \in Int
      /\ FaceLaneSlots \in Int
  BY CapFacts
<1>4. /\ cpuUsed' \in Int /\ classifierUsed' \in Int /\ faceLaneUsed' \in Int
      /\ running'[k] \in Int /\ readUsed'[d] \in Int
  BY DEF CapTypeOK
<1>5. Kept(d)' \in Int
  BY DEF CapTypeOK, Kept
<1>6. ReadSlots(d)' \in Int
  BY CapacityConstants DEF ReadSlots, CapTypeOK
<1>7. ReadLimit(d, ReadSlots(d))' \in Int
  BY <1>6 DEF ReadLimit
<1>8. /\ running'[k] - HeldJob(k) < Concurrency[k]
      /\ cpuUsed' - HeldCPU + Demand[k].cpu <= CPUSlots
      /\ classifierUsed' - HeldClassifier + Demand[k].classifier <= ClassifierSlots
      /\ faceLaneUsed' - HeldFaceLane + Demand[k].faceLane <= FaceLaneSlots
      /\ Demand[k].read > 0 =>
           /\ scanWaiting'[d] = 0
           /\ readUsed'[d] - HeldRead(d) + Demand[k].read + Kept(d)' <= ReadLimit(d, ReadSlots(d))'
  BY <1>1 DEF CouldReserve
<1>9. /\ running[k] - HeldJob(k) < Concurrency[k]
      /\ cpuUsed - HeldCPU + Demand[k].cpu <= CPUSlots
      /\ classifierUsed - HeldClassifier + Demand[k].classifier <= ClassifierSlots
      /\ faceLaneUsed - HeldFaceLane + Demand[k].faceLane <= FaceLaneSlots
  BY <1>2, <1>3, <1>4, <1>8
<1>10. Demand[k].read > 0 =>
         /\ scanWaiting[d] = 0
         /\ readUsed[d] - HeldRead(d) + Demand[k].read + Kept(d) <= ReadLimit(d, ReadSlots(d))
  BY <1>2, <1>3, <1>4, <1>5, <1>7, <1>8
<1> QED
  BY <1>9, <1>10 DEF CouldReserve

\* A part borrowed for a job raises the counters.
LEMMA BorrowTightens ==
  ASSUME CapTypeOK, CapTypeOK', HoldsOn, loop.pc = "claim" => loop.kind \in Kinds,
         NEW j \in JobIds, NEW part \in LentDemands, TryAcquire(j, part)
  PROVE  Tighter
<1>1. part \in Resources /\ job[j].disk \in AllDisks
  BY CapacityConstants DEF CapTypeOK, JobStates
<1>2. /\ part.read \in 0..1 /\ part.cpu \in 0..1
      /\ part.classifier \in 0..1 /\ part.faceLane \in 0..1
  BY <1>1, DemandFields
<1>3. SUFFICES ASSUME NEW d \in AllDisks, NEW k \in Kinds
               PROVE  /\ ReadersIn("reading", d)' = ReadersIn("reading", d)
                      /\ CouldReserve(d, k)' => CouldReserve(d, k)
  BY DEF Tighter
<1>4. UNCHANGED <<scanVars, served, running, foreground>>
  BY DEF TryAcquire
<1>5. /\ running'[k] = running[k] /\ scanWaiting'[d] = scanWaiting[d] /\ Kept(d)' = Kept(d)
      /\ ReadLimit(d, ReadSlots(d))' = ReadLimit(d, ReadSlots(d))
      /\ ReadersIn("reading", d)' = ReadersIn("reading", d)
  BY <1>4 DEF scanVars, Kept, ReadLimit, ReadSlots, ReadersIn
<1>6. /\ cpuUsed \in Int /\ classifierUsed \in Int /\ faceLaneUsed \in Int
      /\ readUsed[d] \in Int /\ Kept(d) \in Int /\ running[k] \in Int
      /\ ReadLimit(d, ReadSlots(d)) \in Int
  BY CapFacts
<1>7. /\ cpuUsed' = cpuUsed + part.cpu /\ classifierUsed' = classifierUsed + part.classifier
      /\ faceLaneUsed' = faceLaneUsed + part.faceLane
      /\ readUsed' = [readUsed EXCEPT ![job[j].disk] = @ + part.read]
  BY DEF TryAcquire, Take
<1>8. readUsed'[d] >= readUsed[d]
  BY <1>2, <1>6, <1>7 DEF CapTypeOK
<1>9. cpuUsed' >= cpuUsed /\ classifierUsed' >= classifierUsed /\ faceLaneUsed' >= faceLaneUsed
  BY <1>2, <1>6, <1>7
<1>10. readUsed'[d] + Kept(d)' >= readUsed[d] + Kept(d)
  <2>1. readUsed'[d] \in Int
    BY DEF CapTypeOK
  <2> QED BY <1>5, <1>6, <1>8, <2>1
<1>11. running'[k] >= running[k]
       /\ ReadLimit(d, ReadSlots(d))' <= ReadLimit(d, ReadSlots(d))
  BY <1>5, <1>6
<1>12. CouldReserve(d, k)' => CouldReserve(d, k)
  BY <1>5, <1>9, <1>10, <1>11, HigherCounters
<1> QED
  BY <1>5, <1>12

\* Where only a disk's waiting reads, its kept slots or its limit change.
LEMMA ScanTightens ==
  ASSUME CapTypeOK, CapTypeOK', HoldsOn, loop.pc = "claim" => loop.kind \in Kinds,
         UNCHANGED <<slotVars, running>>,
         \A d \in AllDisks :
           /\ scanWaiting'[d] = 0 => scanWaiting[d] = 0
           /\ Kept(d)' >= Kept(d)
           /\ ReadLimit(d, ReadSlots(d))' <= ReadLimit(d, ReadSlots(d))
           /\ ReadersIn("reading", d) # {} => ReadersIn("reading", d)' # {}
  PROVE  Tighter
<1> SUFFICES ASSUME NEW d \in AllDisks, NEW k \in Kinds
             PROVE  CouldReserve(d, k)' => CouldReserve(d, k)
  BY DEF Tighter
<1>1. /\ cpuUsed \in Int /\ classifierUsed \in Int /\ faceLaneUsed \in Int
      /\ readUsed[d] \in Int /\ Kept(d) \in Int /\ running[k] \in Int
  BY CapFacts
<1>2. Kept(d)' \in Int
  BY DEF CapTypeOK, Kept
<1>3. /\ running'[k] >= running[k] /\ cpuUsed' >= cpuUsed /\ classifierUsed' >= classifierUsed
      /\ faceLaneUsed' >= faceLaneUsed
  BY <1>1 DEF slotVars
<1>4. readUsed'[d] + Kept(d)' >= readUsed[d] + Kept(d)
  <2>1. readUsed'[d] = readUsed[d] /\ Kept(d)' >= Kept(d)
    BY DEF slotVars
  <2> QED BY <1>1, <1>2, <2>1
<1> QED
  BY <1>3, <1>4, HigherCounters

\* A reader that gets its slot reads; the other disks are as before.
LEMMA ReadTightens ==
  ASSUME CapTypeOK, CapTypeOK', HoldsOn, loop.pc = "claim" => loop.kind \in Kinds,
         NEW r \in Readers, NEW e \in AllDisks, TakeScanSlot(r, e), reader[r].pc # "reading",
         UNCHANGED <<cpuUsed, classifierUsed, faceLaneUsed, scanAhead, served, running,
                     foreground>>,
         \A d \in AllDisks \ {e} : scanWaiting'[d] = scanWaiting[d]
  PROVE  Tighter
<1>1. r \in ReadersIn("reading", e)'
  BY DEF TakeScanSlot, ReadersIn, At, CapTypeOK
<1>2. ASSUME NEW d \in AllDisks, d # e PROVE ReadersIn("reading", d)' = ReadersIn("reading", d)
  BY <1>2 DEF TakeScanSlot, ReadersIn, At, CapTypeOK
<1>3. ASSUME NEW d \in AllDisks, NEW k \in Kinds, d # e
      PROVE  CouldReserve(d, k)' => CouldReserve(d, k)
  <2>1. readUsed'[d] = readUsed[d] /\ scanHeld'[d] = scanHeld[d] /\ scanWaiting'[d] = scanWaiting[d]
    BY <1>3 DEF TakeScanSlot, CapTypeOK
  <2>2. Kept(d)' = Kept(d) /\ ReadLimit(d, ReadSlots(d))' = ReadLimit(d, ReadSlots(d))
    BY <2>1 DEF Kept, ReadLimit, ReadSlots
  <2>3. /\ cpuUsed \in Int /\ classifierUsed \in Int /\ faceLaneUsed \in Int
        /\ readUsed[d] \in Int /\ Kept(d) \in Int /\ running[k] \in Int
        /\ ReadLimit(d, ReadSlots(d)) \in Int
    BY CapFacts
  <2>4. /\ running'[k] >= running[k] /\ cpuUsed' >= cpuUsed /\ classifierUsed' >= classifierUsed
        /\ faceLaneUsed' >= faceLaneUsed
        /\ readUsed'[d] + Kept(d)' >= readUsed[d] + Kept(d)
        /\ ReadLimit(d, ReadSlots(d))' <= ReadLimit(d, ReadSlots(d))
    BY <2>1, <2>2, <2>3
  <2> QED BY <2>1, <2>4, HigherCounters
<1> QED
  BY <1>1, <1>2, <1>3 DEF Tighter

\* Every step beside the loop that takes a slot without owing a wake-up.
LEMMA SlotsTighten ==
  ASSUME CapTypeOK, CapTypeOK', SlotsConserved, HoldsOn, loop.pc = "claim" => loop.kind \in Kinds,
         \/ \E j \in JobIds, part \in LentDemands : TryAcquire(j, part)
         \/ \E r \in Readers : ScanSteps(r)
         \/ \E v \in Viewers, d \in Disks : HoldForeground(v, d)
         \/ UNCHANGED capVars
  PROVE  Tighter
<1>1. CASE \E j \in JobIds, part \in LentDemands : TryAcquire(j, part)
  BY <1>1, BorrowTightens
<1>2. ASSUME NEW r \in Readers, NEW e \in Disks, AcquireScanRead(r, e) PROVE Tighter
  <2>0. e \in AllDisks /\ reader[r].pc # "reading"
    BY <1>2 DEF AllDisks, AcquireScanRead
  <2>1. CASE TakeScanSlot(r, e)
    <3>1. \A d \in AllDisks \ {e} : scanWaiting'[d] = scanWaiting[d]
      BY <1>2 DEF AcquireScanRead, CapTypeOK
    <3>2. UNCHANGED <<cpuUsed, classifierUsed, faceLaneUsed, scanAhead, served, running,
                      foreground>>
      BY <1>2 DEF AcquireScanRead
    <3> QED BY <2>0, <2>1, <3>1, <3>2, ReadTightens
  <2>2. CASE /\ scanWaiting' = [scanWaiting EXCEPT ![e] = @ + 1]
             /\ reader' = [reader EXCEPT ![r] = At(reader[r], "waiting", e)]
             /\ UNCHANGED <<readUsed, scanHeld>>
    <3>1. scanWaiting[e] \in Nat
      <4>1. IsFiniteSet(ReadersIn("waiting", e))
        BY CapacityConstants, FS_Subset DEF ReadersIn
      <4> QED BY <4>1, FS_CardinalityType DEF SlotsConserved
    <3>2. UNCHANGED <<slotVars, running, scanAhead, scanHeld, served, foreground>>
      BY <1>2, <2>2 DEF AcquireScanRead, slotVars
    <3>3. ASSUME NEW d \in AllDisks
          PROVE  /\ scanWaiting'[d] = 0 => scanWaiting[d] = 0
                 /\ Kept(d)' >= Kept(d)
                 /\ ReadLimit(d, ReadSlots(d))' <= ReadLimit(d, ReadSlots(d))
                 /\ ReadersIn("reading", d) # {} => ReadersIn("reading", d)' # {}
      <4>1. scanWaiting'[d] = 0 => scanWaiting[d] = 0
        BY <2>2, <3>1 DEF CapTypeOK
      <4>2. /\ Kept(d)' = Kept(d) /\ ReadLimit(d, ReadSlots(d))' = ReadLimit(d, ReadSlots(d))
        BY <3>2 DEF Kept, ReadLimit, ReadSlots
      <4>3. Kept(d) \in Int /\ ReadLimit(d, ReadSlots(d)) \in Int
        <5>1. ReadSlots(d) \in Int
          BY CapacityConstants DEF ReadSlots, CapTypeOK
        <5> QED BY <5>1 DEF ReadLimit, Kept, CapTypeOK
      <4>4. ReadersIn("reading", d) \subseteq ReadersIn("reading", d)'
        BY <2>0, <2>2 DEF ReadersIn, CapTypeOK
      <4> QED BY <4>1, <4>2, <4>3, <4>4
    <3> QED BY <3>2, <3>3, ScanTightens
  <2> QED BY <1>2, <2>1, <2>2 DEF AcquireScanRead
<1>3. ASSUME NEW r \in Readers, RetryScanRead(r) PROVE Tighter
  <2> DEFINE e == reader[r].disk
  <2>0. e \in AllDisks /\ reader[r].pc # "reading"
    BY <1>3 DEF CapTypeOK, ReaderStates, RetryScanRead
  <2>1. CASE TakeScanSlot(r, e) /\ scanWaiting' = [scanWaiting EXCEPT ![e] = @ - 1]
    <3>1. \A d \in AllDisks \ {e} : scanWaiting'[d] = scanWaiting[d]
      BY <2>1 DEF CapTypeOK
    <3> QED BY <1>3, <2>0, <2>1, <3>1, ReadTightens DEF RetryScanRead
  <2>2. CASE /\ reader' = [reader EXCEPT ![r] = At(reader[r], "waiting", e)]
             /\ UNCHANGED <<readUsed, scanHeld, scanWaiting>>
    <3>1. UNCHANGED <<slotVars, running, scanAhead, scanHeld, served, foreground, scanWaiting>>
      BY <1>3, <2>2 DEF RetryScanRead, slotVars
    <3>2. ASSUME NEW d \in AllDisks
          PROVE  /\ scanWaiting'[d] = 0 => scanWaiting[d] = 0
                 /\ Kept(d)' >= Kept(d)
                 /\ ReadLimit(d, ReadSlots(d))' <= ReadLimit(d, ReadSlots(d))
                 /\ ReadersIn("reading", d) # {} => ReadersIn("reading", d)' # {}
      <4>2. /\ Kept(d)' = Kept(d) /\ ReadLimit(d, ReadSlots(d))' = ReadLimit(d, ReadSlots(d))
        BY <3>1 DEF Kept, ReadLimit, ReadSlots
      <4>3. Kept(d) \in Int /\ ReadLimit(d, ReadSlots(d)) \in Int
        <5>1. ReadSlots(d) \in Int
          BY CapacityConstants DEF ReadSlots, CapTypeOK
        <5> QED BY <5>1 DEF ReadLimit, Kept, CapTypeOK
      <4>4. ReadersIn("reading", d) \subseteq ReadersIn("reading", d)'
        BY <2>0, <2>2 DEF ReadersIn, CapTypeOK
      <4> QED BY <3>1, <4>2, <4>3, <4>4
    <3> QED BY <3>1, <3>2, ScanTightens
  <2> QED BY <1>3, <2>1, <2>2 DEF RetryScanRead
<1>4. ASSUME NEW r \in Readers, NEW e \in Disks, KeepScanAhead(r, e) PROVE Tighter
  <2>1. UNCHANGED <<slotVars, running, scanHeld, served, foreground, scanWaiting>>
    BY <1>4 DEF KeepScanAhead
  <2>2. ASSUME NEW d \in AllDisks
        PROVE  /\ scanWaiting'[d] = 0 => scanWaiting[d] = 0
               /\ Kept(d)' >= Kept(d)
               /\ ReadLimit(d, ReadSlots(d))' <= ReadLimit(d, ReadSlots(d))
               /\ ReadersIn("reading", d) # {} => ReadersIn("reading", d)' # {}
    <3>1. scanAhead'[d] \in {scanAhead[d], scanAhead[d] + 1}
      BY <1>4 DEF KeepScanAhead, CapTypeOK
    <3>2. scanAhead[d] \in Int /\ scanHeld[d] \in Int /\ scanHeld'[d] = scanHeld[d]
      BY <2>1 DEF CapTypeOK
    <3>3. Kept(d)' >= Kept(d)
      BY <3>1, <3>2 DEF Kept
    <3>4. ReadLimit(d, ReadSlots(d))' = ReadLimit(d, ReadSlots(d))
      BY <2>1 DEF ReadLimit, ReadSlots
    <3>5. ReadLimit(d, ReadSlots(d)) \in Int
      <4>1. ReadSlots(d) \in Int
        BY CapacityConstants DEF ReadSlots, CapTypeOK
      <4> QED BY <4>1 DEF ReadLimit
    <3>6. ReadersIn("reading", d) \subseteq ReadersIn("reading", d)'
      BY <1>4 DEF KeepScanAhead, Ahead, ReadersIn, CapTypeOK
    <3> QED BY <2>1, <3>3, <3>4, <3>5, <3>6
  <2> QED BY <2>1, <2>2, ScanTightens
<1>5. ASSUME NEW v \in Viewers, NEW e \in Disks, HoldForeground(v, e) PROVE Tighter
  <2>1. UNCHANGED <<slotVars, running, scanVars, served>>
    BY <1>5 DEF HoldForeground
  <2>2. ASSUME NEW d \in AllDisks
        PROVE  /\ scanWaiting'[d] = 0 => scanWaiting[d] = 0
               /\ Kept(d)' >= Kept(d)
               /\ ReadLimit(d, ReadSlots(d))' <= ReadLimit(d, ReadSlots(d))
               /\ ReadersIn("reading", d) # {} => ReadersIn("reading", d)' # {}
    <3>1. foreground'[d] \in {foreground[d], foreground[d] + 1} /\ foreground[d] \in Int
      BY <1>5 DEF HoldForeground, CapTypeOK
    <3>2. ReadSlots(d) \in Int /\ ReadSlots(d)' = ReadSlots(d)
      BY <2>1, CapacityConstants DEF ReadSlots, CapTypeOK
    <3>3. ReadLimit(d, ReadSlots(d))' <= ReadLimit(d, ReadSlots(d))
      BY <3>1, <3>2 DEF ReadLimit
    <3>4. Kept(d)' = Kept(d) /\ Kept(d) \in Int
      BY <2>1 DEF Kept, scanVars, CapTypeOK
    <3>5. ReadersIn("reading", d)' = ReadersIn("reading", d) /\ scanWaiting' = scanWaiting
      BY <2>1 DEF scanVars, ReadersIn
    <3> QED BY <3>3, <3>4, <3>5
  <2> QED BY <2>1, <2>2, ScanTightens
<1>6. CASE UNCHANGED capVars
  <2>1. UNCHANGED <<slotVars, running, scanVars, served, foreground>>
    BY <1>6 DEF capVars
  <2>2. ASSUME NEW d \in AllDisks
        PROVE  /\ scanWaiting'[d] = 0 => scanWaiting[d] = 0
               /\ Kept(d)' >= Kept(d)
               /\ ReadLimit(d, ReadSlots(d))' <= ReadLimit(d, ReadSlots(d))
               /\ ReadersIn("reading", d) # {} => ReadersIn("reading", d)' # {}
    <3>1. /\ Kept(d)' = Kept(d) /\ ReadLimit(d, ReadSlots(d))' = ReadLimit(d, ReadSlots(d))
          /\ ReadersIn("reading", d)' = ReadersIn("reading", d) /\ scanWaiting' = scanWaiting
      BY <2>1 DEF Kept, ReadLimit, ReadSlots, ReadersIn, scanVars
    <3>2. Kept(d) \in Int /\ ReadLimit(d, ReadSlots(d)) \in Int
      <4>1. ReadSlots(d) \in Int
        BY CapacityConstants DEF ReadSlots, CapTypeOK
      <4> QED BY <4>1 DEF ReadLimit, Kept, CapTypeOK
    <3> QED BY <3>1, <3>2
  <2> QED BY <2>1, <2>2, ScanTightens
<1> QED
  BY <1>1, <1>2, <1>3, <1>4, <1>5, <1>6 DEF ScanSteps

\* While the loop is not at the start of a turn, a folder comes back only with
\* a wake-up.
LEMMA FoldersStay ==
  ASSUME TypesInv, [SchedNext]_schedVars, loop.pc # "prepare", ~owed'
  PROVE  /\ \A f \in Folders : known'[f].disk = known[f].disk /\ known'[f].path = known[f].path
         /\ R!Available' \subseteq R!Available
<1>0. /\ R!RootsTypeOK /\ refresh = "idle" /\ known \in [Folders -> FolderRecords]
      /\ resolvers \subseteq R!Resolvers /\ \A f \in R!Known : Awaited(f)
  BY DEF TypesInv, RootsInv, SchedTypeOK, TurnOK, R!RootsTypeOK, FolderRecords
<1>1. CASE UNCHANGED known
  BY <1>1 DEF R!Available, R!Unavailable, R!Known
<1>2. ASSUME NEW f \in R!Known, R!MarkUnavailable(f)
      PROVE  /\ \A g \in Folders : known'[g].disk = known[g].disk /\ known'[g].path = known[g].path
             /\ R!Available' \subseteq R!Available
  <2>1. known' = [known EXCEPT ![f].unavailable = TRUE]
    BY <1>2 DEF R!MarkUnavailable
  <2>2. \A g \in Folders : /\ known'[g].disk = known[g].disk /\ known'[g].path = known[g].path
                           /\ known[g].unavailable => known'[g].unavailable
    BY <1>0, <2>1 DEF FolderRecords
  <2> QED BY <2>2 DEF R!Available, R!Unavailable, R!Known
<1>3. ~BeginStep
  BY DEF BeginStep
<1>4. ~(AwaitFolders /\ R!ParkUnanswered)
  BY <1>0 DEF R!ParkUnanswered
<1>5. ASSUME NEW r \in resolvers, FolderAnswers(r) PROVE UNCHANGED known
  <2>1. SUFFICES ASSUME R!Expected(r), owed' = (owed \/ known[r.folder].late) PROVE FALSE
    BY <1>5 DEF FolderAnswers, R!ResolverAnswers
  <2>2. r.folder \in Folders /\ r.path \in Paths
    BY <1>0 DEF R!Resolvers
  <2>3. r.folder \in R!Known /\ known[r.folder].resolving
    BY <2>1, <2>2, SchedulerConstants DEF R!Expected, R!Known
  <2>4. known[r.folder].late
    BY <1>0, <2>3 DEF Awaited
  <2> QED BY <2>1, <2>4
<1> QED
  BY <1>0, <1>1, <1>2, <1>3, <1>4, <1>5, WhoKnows

\* The loop stays where it is; a retry that becomes due may fire its timer.
SameTurn ==
  /\ loop'.pc = loop.pc /\ loop'.since = loop.since /\ loop'.groups = loop.groups
  /\ loop'.due = loop.due /\ loop'.paused = loop.paused /\ loop'.empty = loop.empty
  /\ loop'.class = loop.class /\ loop'.idle = loop.idle /\ loop'.disk = loop.disk
  /\ loop'.left = loop.left /\ loop'.kind = loop.kind /\ loop'.avoid = loop.avoid
  /\ loop.timer \subseteq loop'.timer
  /\ nextGroup' = nextGroup /\ refresh' = refresh

BesideLoop == (\E j \in JobIds : JobStep(j) \/ BorrowPart(j)) \/ OtherStep

LEMMA BesideTurn ==
  ASSUME loop \in Turns, BesideLoop
  PROVE  SameTurn
<1>1. ASSUME UNCHANGED <<loop, nextGroup, refresh>> PROVE SameTurn
  BY <1>1 DEF SameTurn
<1>2. ASSUME NEW r \in Rows, BecomesDue(r) PROVE SameTurn
  <2>1. UNCHANGED <<nextGroup, refresh>>
    BY <1>2 DEF BecomesDue, rootVars
  <2>2. CASE loop' = loop
    BY <1>1, <2>1, <2>2
  <2>3. CASE loop' = [loop EXCEPT !.timer = loop.timer \cup {"fired"}]
    BY <2>1, <2>3, TurnFields DEF SameTurn
  <2> QED BY <1>2, <2>2, <2>3 DEF BecomesDue
<1>3. ASSUME NEW j \in JobIds, JobStep(j) \/ BorrowPart(j)
      PROVE  UNCHANGED <<loop, nextGroup, refresh>>
  BY <1>3 DEF JobStep, BorrowPart, ReturnPart, HandlerReturns, CheckFolder, Park, Moves,
    FinishJob, Record, RecordFails, rootVars, turnVars, OweWake, R!MarkUnavailable
<1>4. CASE CallWake \/ FolderSteps \/ ScanStep \/ ViewStep \/ PauseStep \/ AnswerStep
             \/ UNCHANGED schedVars
  <2>1. UNCHANGED <<loop, nextGroup, refresh>>
    BY <1>4 DEF ScanStep, ViewStep, PauseStep, AnswerStep, CallWake, FolderSteps, ScanReads,
      ScanReturns, OpenStream, CloseStream, SetPaused, FolderReads, FolderAnswers, OweWake,
      rootVars, schedVars, turnVars, R!CallWake, R!ShareTurns, R!MinutePasses, R!RequestRecheck,
      R!ResolverReads, R!ResolverAnswers
  <2> QED BY <1>1, <2>1
<1>5. ASSUME NEW r \in Rows, Enqueue(r) PROVE SameTurn
  <2>1. UNCHANGED <<loop, nextGroup, refresh>>
    BY <1>5 DEF Enqueue, OweWake, turnVars
  <2> QED BY <1>1, <2>1
<1>6. CASE QueueStep
  BY <1>2, <1>5, <1>6 DEF QueueStep
<1>7. CASE \E j \in JobIds : JobStep(j) \/ BorrowPart(j)
  BY <1>1, <1>3, <1>7
<1> QED
  BY <1>4, <1>6, <1>7 DEF BesideLoop, OtherStep

\* Beside the loop a slot is returned only with a wake-up.
LEMMA BesideSlots ==
  ASSUME TypesInv, TypesInv', SlotsConserved, BesideLoop, ~owed'
  PROVE  Tighter
<1> DEFINE Takes == \/ \E j \in JobIds, part \in LentDemands : TryAcquire(j, part)
                    \/ \E r \in Readers : ScanSteps(r)
                    \/ \E v \in Viewers, d \in Disks : HoldForeground(v, d)
                    \/ UNCHANGED capVars
<1>1. ASSUME NEW j \in JobIds, JobStep(j) \/ BorrowPart(j) PROVE Takes
  BY <1>1 DEF JobStep, BorrowPart, HandlerReturns, CheckFolder, Park, Moves, Record, RecordFails,
    FinishJob, ReturnPart, OweWake
<1>2. ASSUME CallWake \/ FolderSteps \/ ScanStep \/ QueueStep \/ PauseStep \/ AnswerStep
             \/ UNCHANGED schedVars
      PROVE  Takes
  BY <1>2 DEF CallWake, FolderSteps, ScanStep, ScanReads, ScanReturns, OweWake, QueueStep, Enqueue,
    BecomesDue, PauseStep, SetPaused, AnswerStep, FolderReads, FolderAnswers, schedVars
<1>3. ASSUME ViewStep PROVE Takes
  <2>1. PICK v \in Viewers : OpenStream(v)
    BY <1>3 DEF ViewStep, CloseStream, OweWake
  <2>2. PICK f \in R!Known : known[f].disk # NoDisk /\ HoldForeground(v, known[f].disk)
    BY <2>1 DEF OpenStream
  <2>3. known[f].disk \in Disks
    BY <2>2 DEF TypesInv, SchedTypeOK, R!RootsTypeOK, R!Known
  <2> QED BY <2>2, <2>3
<1>4. Takes
  BY <1>1, <1>2, <1>3 DEF BesideLoop, OtherStep
<1>5. CapTypeOK /\ CapTypeOK' /\ loop \in Turns /\ (loop.pc = "claim" => loop.kind \in Kinds)
  BY DEF TypesInv, SchedTypeOK, TurnOK, Turns
<1>6. HoldsOn
  BY <1>5, BesideTurn DEF SameTurn, HoldsOn
<1> QED
  BY <1>4, <1>5, <1>6, SlotsTighten

\* And a row becomes due, or a kind is allowed again, only with a wake-up or
\* noticed by the turn.
LEMMA BesideRows ==
  ASSUME TypesInv, DelayedNoticed, BesideLoop, ~Alert'
  PROVE  /\ \A r \in Rows : row'[r] = "delayed" => row[r] = "delayed"
         /\ \A r \in Rows : row'[r] = "queued" =>
              row[r] = "queued" \/ r \in loop.since \/ (loop.pc = "prepare" /\ refresh = "idle")
         /\ paused \subseteq paused'
<1> DEFINE Goal == /\ \A r \in Rows : row'[r] = "delayed" => row[r] = "delayed"
                   /\ \A r \in Rows : row'[r] = "queued" =>
                        row[r] = "queued" \/ r \in loop.since
                          \/ (loop.pc = "prepare" /\ refresh = "idle")
                   /\ paused \subseteq paused'
<1>0. /\ row \in [Rows -> RowStates] /\ loop \in Turns /\ proc \in [JobIds -> Procs]
  BY DEF TypesInv, SchedTypeOK, TurnOK, RowStates
<1>1. ASSUME UNCHANGED row, paused \subseteq paused' PROVE Goal
  BY <1>1
<1>2. ASSUME NEW r \in Rows, BecomesDue(r) PROVE Goal
  <2>1. row[r] = "delayed" /\ row' = [row EXCEPT ![r] = "queued"] /\ paused' = paused
    BY <1>2 DEF BecomesDue
  <2>2. ~(loop.pc = "asleep" /\ "due" \in loop.timer)
    <3>1. SUFFICES ASSUME loop.pc = "asleep" /\ "due" \in loop.timer PROVE FALSE
      OBVIOUS
    <3>2. loop' = [loop EXCEPT !.timer = loop.timer \cup {"fired"}]
      BY <1>2, <3>1 DEF BecomesDue
    <3>3. "fired" \in loop'.timer
      BY <1>0, <3>2, TurnFields
    <3> QED BY <3>3 DEF Alert
  <2>3. r \in loop.since \/ (loop.pc = "prepare" /\ refresh = "idle")
    BY <2>1, <2>2 DEF DelayedNoticed
  <2> QED BY <1>0, <2>1, <2>3
<1>3. ASSUME NEW j \in JobIds, Record(j) \/ RecordFails(j) PROVE FALSE
  <2>1. proc' = [proc EXCEPT ![j] = [FreeProc EXCEPT !.phase = "ended"]]
    BY <1>3 DEF Record, RecordFails
  <2>2. proc'[j].phase = "ended"
    BY <1>0, <2>1 DEF FreeProc
  <2> QED BY <2>2 DEF Alert
<1>4. ASSUME NEW j \in JobIds, JobStep(j) \/ BorrowPart(j) PROVE Goal
  <2>1. UNCHANGED <<row, paused>>
    BY <1>3, <1>4 DEF JobStep, BorrowPart, ReturnPart, HandlerReturns, CheckFolder, Park, Moves,
      FinishJob, queueVars
  <2> QED BY <1>1, <2>1
<1>5. CASE CallWake \/ FolderSteps \/ ScanStep \/ ViewStep \/ AnswerStep \/ UNCHANGED schedVars
  <2>1. UNCHANGED <<row, paused>>
    BY <1>5 DEF CallWake, FolderSteps, ScanStep, ViewStep, AnswerStep, ScanReads, ScanReturns,
      OpenStream, CloseStream, FolderReads, FolderAnswers, queueVars, schedVars
  <2> QED BY <1>1, <2>1
<1>6. CASE PauseStep
  <2>1. UNCHANGED row /\ paused \subseteq paused'
    BY <1>6 DEF PauseStep, SetPaused, OweWake, Alert
  <2> QED BY <1>1, <2>1
<1>7. ASSUME NEW r \in Rows, Enqueue(r) PROVE FALSE
  BY <1>7 DEF Enqueue, OweWake, Alert
<1>8. CASE QueueStep
  BY <1>2, <1>7, <1>8 DEF QueueStep
<1> QED
  BY <1>4, <1>5, <1>6, <1>8 DEF BesideLoop, OtherStep

\* What the constants say of a row.
LEMMA RowFacts ==
  ASSUME TypesInv, NEW r \in Rows
  PROVE  /\ KindOf[r] \in Kinds /\ FolderOf[r] \in Folders
         /\ ClassOf[r] \in Nat /\ ClassOf[r] <= LastClass /\ LastClass \in Nat
         /\ DiskOfRow(r) \in AllDisks
         /\ ~ReadsSource(KindOf[r]) => DiskOfRow(r) = NoDisk
         /\ ReadsSource(KindOf[r]) => DiskOfRow(r) = known[FolderOf[r]].disk
<1>1. /\ KindOf[r] \in Kinds /\ FolderOf[r] \in Folders
      /\ ClassOf[r] \in Nat /\ ClassOf[r] <= LastClass /\ LastClass \in Nat
  BY SchedulerConstants
<1>2. known[FolderOf[r]].disk \in AllDisks
  BY <1>1 DEF TypesInv, SchedTypeOK, R!RootsTypeOK, AllDisks
<1> QED
  BY <1>1, <1>2 DEF DiskOfRow, AllDisks

\* While no turn waits for them, the available folders are on a disk.
LEMMA AvailableOnDisk ==
  ASSUME TypesInv, refresh # "waiting", NEW f \in R!Available
  PROVE  f \in Folders /\ known[f].disk \in Disks
<1>1. f \in R!Known /\ f \in Folders /\ ~known[f].unavailable
  BY DEF R!Available, R!Unavailable, R!Known
<1>2. Awaited(f)
  BY <1>1 DEF TypesInv, RootsInv
<1>3. ~known[f].resolving
  BY <1>1, <1>2 DEF Awaited
<1>4. known[f].disk = DiskAt[known[f].path]
  BY <1>1, <1>2, <1>3 DEF Awaited
<1>5. known[f].path \in Paths
  BY <1>1 DEF R!Known, TypesInv, RootsInv, R!RootsTypeOK
<1> QED
  BY <1>1, <1>4, <1>5, SchedulerConstants

\* A step after which what was passed is still passed.
Calm ==
  /\ Tighter
  /\ \A r \in Rows : DiskOfRow(r)' = DiskOfRow(r) /\ (Idle(r) => Idle(r)')

LEMMA CalmPassed ==
  ASSUME TypesInv, Calm
  PROVE  /\ \A r \in Rows : Passed(r) => Passed(r)'
         /\ loop'.class = loop.class => \A d : GroupPassed(d) => GroupPassed(d)'
<1>1. ASSUME NEW r \in Rows, Passed(r) PROVE Passed(r)'
  <2>1. DiskOfRow(r) \in AllDisks /\ KindOf[r] \in Kinds
    BY RowFacts
  <2>2. PICK d \in AllDisks : d = DiskOfRow(r)
    BY <2>1
  <2>3. PICK k \in Kinds : k = KindOf[r]
    BY <2>1
  <2>4. DiskOfRow(r)' = d /\ (Idle(r) => Idle(r)')
    BY <2>2 DEF Calm
  <2>5. /\ ReadersIn("reading", d) # {} => ReadersIn("reading", d)' # {}
        /\ CouldReserve(d, k)' => CouldReserve(d, k) \/ ReadersIn("reading", d)' # {}
    BY DEF Calm, Tighter
  <2>6. Idle(r) \/ ReadersIn("reading", d) # {} \/ ~CouldReserve(d, k)
    BY <1>1, <2>2, <2>3 DEF Passed
  <2>7. Idle(r)' \/ ReadersIn("reading", d)' # {} \/ ~CouldReserve(d, k)'
    BY <2>4, <2>5, <2>6
  <2>8. Passed(r)' <=> Idle(r)' \/ ReadersIn("reading", d)' # {} \/ ~CouldReserve(d, k)'
    BY <2>3, <2>4 DEF Passed
  <2> QED BY <2>7, <2>8
<1>2. ASSUME loop'.class = loop.class, NEW d, GroupPassed(d) PROVE GroupPassed(d)'
  BY <1>1, <1>2 DEF GroupPassed, Calm
<1> QED
  BY <1>1, <1>2

\* Rows stay idle while only the queue's other writers and the folders act.
LEMMA IdleOn ==
  ASSUME \A r \in Rows : row'[r] = "queued" => row[r] = "queued" \/ r \in loop'.since,
         paused \subseteq paused', loop.since \subseteq loop'.since,
         R!Available' \subseteq R!Available, NEW r \in Rows, Idle(r)
  PROVE  Idle(r)'
BY DEF Idle

LEMMA DiskOn ==
  ASSUME \A f \in Folders : known'[f].disk = known[f].disk, NEW r \in Rows
  PROVE  DiskOfRow(r)' = DiskOfRow(r)
BY SchedulerConstants DEF DiskOfRow

\* At the start of a turn only the rows that wait out a delay matter.
LEMMA CaughtInPrepare ==
  ASSUME TypesInv, loop.pc = "prepare", loop.empty = {}, DelayedNoticed
  PROVE  Caught
BY DEF Caught, FoldersGrouped, NoDiskGrouped, DueNoticed, AvoidedAway, EmptyStays, VisitedPassed,
  VisitingPassed, AllPassed, InRange, InTurn

\* A step beside the loop keeps what the loop has caught.
LEMMA CaughtBeside ==
  ASSUME TypesInv, TypesInv', SlotsConserved, [SchedNext]_schedVars, BesideLoop, ~Alert',
         NothingEmptyYet, Caught
  PROVE  Caught'
<1>0. loop \in Turns /\ ~owed'
  BY DEF TypesInv, TurnOK, Alert
<1>1. SameTurn
  BY <1>0, BesideTurn
<1>2. Tighter
  BY <1>0, BesideSlots
<1>3. /\ \A r \in Rows : row'[r] = "delayed" => row[r] = "delayed"
      /\ \A r \in Rows : row'[r] = "queued" =>
           row[r] = "queued" \/ r \in loop.since \/ (loop.pc = "prepare" /\ refresh = "idle")
      /\ paused \subseteq paused'
  BY BesideRows DEF Caught
<1>4. DelayedNoticed'
  BY <1>1, <1>3 DEF DelayedNoticed, Caught, SameTurn
<1>5. CASE loop.pc = "prepare"
  <2>1. loop'.pc = "prepare" /\ loop'.empty = {}
    BY <1>1, <1>5 DEF SameTurn, NothingEmptyYet
  <2>2. TypesInv' /\ (loop.pc = "prepare")' /\ (loop.empty = {})' /\ DelayedNoticed'
    BY <1>4, <2>1
  <2> QED BY <2>1, <1>4 DEF Caught, FoldersGrouped, NoDiskGrouped, DueNoticed, AvoidedAway,
        EmptyStays, VisitedPassed, VisitingPassed, AllPassed, InRange, InTurn
<1>6. CASE loop.pc # "prepare"
  <2>1. /\ \A f \in Folders : known'[f].disk = known[f].disk
        /\ R!Available' \subseteq R!Available
    BY <1>0, <1>6, FoldersStay
  <2>2. \A r \in Rows : row'[r] = "queued" => row[r] = "queued" \/ r \in loop'.since
    BY <1>1, <1>3, <1>6 DEF SameTurn
  <2>3. Calm
    <3>1. loop.since \subseteq loop'.since
      BY <1>1 DEF SameTurn
    <3> QED BY <1>2, <1>3, <2>1, <2>2, <3>1, IdleOn, DiskOn DEF Calm
  <2>4. \A r \in Rows : Passed(r) => Passed(r)'
    BY <2>3, CalmPassed
  <2>5. \A d : GroupPassed(d) => GroupPassed(d)'
    BY <1>1, <2>3, CalmPassed DEF SameTurn
  <2>6. FoldersGrouped'
    <3>1. SUFFICES ASSUME InTurn, NEW f \in R!Available'
                   PROVE  \E i \in DOMAIN loop.groups :
                            loop.groups[i].disk = known'[f].disk /\ f \in loop.groups[i].folders
      BY <1>1 DEF FoldersGrouped, InTurn, SameTurn
    <3>2. f \in R!Available /\ f \in Folders
      BY <2>1 DEF R!Available, R!Known
    <3> QED BY <2>1, <3>1, <3>2 DEF Caught, FoldersGrouped
  <2>7. NoDiskGrouped' /\ InRange'
    BY <1>1 DEF Caught, NoDiskGrouped, InRange, InTurn, SameTurn
  <2>8. DueNoticed'
    BY <1>1, <1>3, <2>2 DEF Caught, DueNoticed, InTurn, SameTurn
  <2>9. AvoidedAway'
    BY <1>1, <2>1 DEF Caught, AvoidedAway, SameTurn
  <2>10. EmptyStays'
    BY <1>1, <2>3 DEF Caught, EmptyStays, SameTurn, Calm
  <2>11. \A i : Ago(i)' = Ago(i)
    BY <1>1 DEF Ago, SameTurn
  <2>12. VisitedPassed'
    BY <1>1, <2>5, <2>11 DEF Caught, VisitedPassed, SameTurn
  <2>13. VisitingPassed'
    <3>1. SUFFICES ASSUME loop.pc \in {"kind", "claim"} PROVE VisitingPassed'
      BY <1>1 DEF VisitingPassed, SameTurn
    <3>2. \A i \in DOMAIN loop'.groups : Ago(i)' <= loop'.idle + 1 =>
            loop'.groups[i].disk = loop'.disk \/ GroupPassed(loop.groups[i].disk)'
      BY <1>1, <2>5, <2>11, <3>1 DEF Caught, VisitingPassed, SameTurn
    <3>3. \A r \in Rows :
            DiskOfRow(r)' = loop'.disk /\ ClassOf[r] <= loop'.class /\ KindOf[r] \notin loop'.left
              => Passed(r)'
      BY <1>1, <2>3, <2>4, <3>1 DEF Caught, VisitingPassed, SameTurn, Calm
    <3> QED BY <3>2, <3>3 DEF VisitingPassed
  <2>14. AllPassed'
    BY <1>1, <2>4 DEF Caught, AllPassed, SameTurn
  <2> QED BY <1>4, <2>6, <2>7, <2>8, <2>9, <2>10, <2>12, <2>13, <2>14 DEF Caught
<1> QED
  BY <1>5, <1>6

LEMMA PrepareNext ==
  ASSUME loop'.pc = "prepare", loop'.empty = {}, DelayedNoticed'
  PROVE  Caught'
BY DEF Caught, FoldersGrouped, NoDiskGrouped, DueNoticed, AvoidedAway, EmptyStays, VisitedPassed,
  VisitingPassed, AllPassed, InRange, InTurn

\* A step of the loop that only moves the loop.
LEMMA CalmLoop ==
  ASSUME TypesInv, TypesInv', UNCHANGED <<capVars, rootVars, queueVars>>,
         loop.pc # "claim", loop'.pc # "claim", loop.since \subseteq loop'.since
  PROVE  /\ Calm
         /\ \A r \in Rows : Passed(r) => Passed(r)'
         /\ loop'.class = loop.class => \A d : GroupPassed(d) => GroupPassed(d)'
<1>0. CapTypeOK /\ CapTypeOK'
  BY DEF TypesInv, SchedTypeOK
<1>1. ASSUME NEW d \in AllDisks, NEW k \in Kinds
      PROVE  /\ ReadersIn("reading", d)' = ReadersIn("reading", d)
             /\ CouldReserve(d, k)' <=> CouldReserve(d, k)
  <2>1. /\ HeldJob(k) = 0 /\ HeldRead(d) = 0
        /\ HeldCPU = 0 /\ HeldClassifier = 0 /\ HeldFaceLane = 0
        /\ HeldJob(k)' = 0 /\ HeldRead(d)' = 0 /\ HeldCPU' = 0 /\ HeldClassifier' = 0
        /\ HeldFaceLane' = 0
    BY DEF HeldJob, HeldRead, HeldCPU, HeldClassifier, HeldFaceLane
  <2>2. UNCHANGED <<slotVars, scanVars, served, running, foreground>>
    BY DEF capVars
  <2>3. /\ Kept(d)' = Kept(d) /\ ReadLimit(d, ReadSlots(d))' = ReadLimit(d, ReadSlots(d))
        /\ ReadersIn("reading", d)' = ReadersIn("reading", d)
    BY <2>2 DEF Kept, ReadLimit, ReadSlots, ReadersIn, scanVars
  <2> QED BY <2>1, <2>2, <2>3 DEF CouldReserve, slotVars, scanVars
<1>2. Tighter
  BY <1>1 DEF Tighter
<1>3. ASSUME NEW r \in Rows PROVE DiskOfRow(r)' = DiskOfRow(r) /\ (Idle(r) => Idle(r)')
  <2>1. UNCHANGED <<row, paused, known>>
    BY DEF queueVars, rootVars
  <2> QED BY <2>1 DEF DiskOfRow, Idle, R!Available, R!Unavailable, R!Known
<1>4. Calm
  BY <1>2, <1>3 DEF Calm
<1> QED
  BY <1>4, CalmPassed

\* A turn begins.
LEMMA CaughtAtStart ==
  ASSUME TypesInv, NothingEmptyYet, Caught, BeginStep \/ AwaitFolders
  PROVE  Caught'
<1>0. loop \in Turns
  BY DEF TypesInv, TurnOK
<1>1. CASE BeginStep
  <2>1. loop' = [loop EXCEPT !.since = {r \in Rows : row[r] = "delayed"}] /\ row' = row
        /\ loop.pc = "prepare"
    BY <1>1 DEF BeginStep, queueVars
  <2>2. /\ loop'.pc = "prepare" /\ loop'.empty = {}
        /\ loop'.since = {r \in Rows : row[r] = "delayed"}
    BY <1>0, <2>1, TurnFields DEF NothingEmptyYet
  <2>3. DelayedNoticed'
    BY <2>1, <2>2 DEF DelayedNoticed
  <2> QED BY <2>2, <2>3, PrepareNext
<1>2. CASE AwaitFolders
  <2>1. UNCHANGED <<loop, row>> /\ refresh = "waiting"
    BY <1>2 DEF AwaitFolders, turnVars, queueVars, R!EndRefresh, R!ParkUnanswered
  <2>2. loop.pc = "prepare"
    BY <2>1 DEF TypesInv, TurnOK
  <2>3. DelayedNoticed'
    BY <2>1, <2>2 DEF DelayedNoticed, Caught
  <2>4. loop'.pc = "prepare" /\ loop'.empty = {}
    BY <2>1, <2>2 DEF NothingEmptyYet
  <2> QED BY <2>3, <2>4, PrepareNext
<1> QED
  BY <1>1, <1>2

LEMMA CaughtAtWake ==
  ASSUME TypesInv, WakeUp \/ TimerFires
  PROVE  Caught'
<1>1. loop' = Turn("prepare", {}) /\ refresh' = refresh /\ refresh = "idle"
  BY DEF TypesInv, TurnOK, WakeUp, TimerFires, rootVars
<1>2. {} \in SUBSET {"due", "recheck", "retry", "fired"}
  OBVIOUS
<1>3. loop'.pc = "prepare" /\ loop'.empty = {}
  BY <1>1, <1>2, TurnBuilt
<1>4. DelayedNoticed'
  BY <1>1, <1>3 DEF DelayedNoticed
<1> QED
  BY <1>3, <1>4, PrepareNext

\* The snapshot groups every available folder.
LEMMA CaughtBySnapshot ==
  ASSUME TypesInv, NothingEmptyYet, Caught, TakeSnapshot
  PROVE  Caught'
<1>0. loop \in Turns
  BY DEF TypesInv, TurnOK
<1>1. PICK ds \in Bijection(1..Cardinality(Serving), Serving) :
        loop' = [loop EXCEPT !.pc = "due", !.groups = GroupsOf(ds)]
  BY DEF TakeSnapshot, GroupsOf
<1> DEFINE n == Cardinality(Serving)
<1>2. PICK groups : groups = GroupsOf(ds)
  OBVIOUS
<1>3. /\ groups \in Groups /\ Len(groups) = n + 1 /\ n \in Nat
      /\ \A i \in 1..n : groups[i] = [disk |-> ds[i], folders |-> FoldersOn(ds[i])]
      /\ groups[n + 1] = [disk |-> NoDisk, folders |-> {}]
  BY <1>2, GroupsBuilt, ServingFinite
<1>4. DOMAIN groups = 1..(n + 1)
  BY <1>3, LenProperties DEF Groups
<1>5. /\ loop'.pc = "due" /\ loop'.groups = groups /\ loop'.since = loop.since
      /\ loop'.empty = loop.empty
  BY <1>0, <1>1, <1>2, TurnFields
<1>6. /\ loop.pc = "prepare" /\ refresh = "served" /\ UNCHANGED <<row, known>>
  BY DEF TakeSnapshot, queueVars, R!EndTurn
<1>7. R!Available' = R!Available
  BY <1>6 DEF R!Available, R!Unavailable, R!Known
<1>8. DelayedNoticed'
  BY <1>5, <1>6 DEF DelayedNoticed, Caught
<1>9. ASSUME NEW f \in R!Available
      PROVE  \E i \in DOMAIN groups : groups[i].disk = known[f].disk /\ f \in groups[i].folders
  <2>1. f \in Folders /\ known[f].disk \in Disks
    BY <1>6, AvailableOnDisk
  <2>2. f \in FoldersOn(known[f].disk) /\ known[f].disk \in Serving
    BY <2>1 DEF FoldersOn, Serving
  <2>3. PICK i \in 1..n : ds[i] = known[f].disk
    BY <2>2 DEF Bijection, Surjection
  <2>4. groups[i] = [disk |-> known[f].disk, folders |-> FoldersOn(known[f].disk)]
    BY <1>3, <2>3
  <2>5. i \in DOMAIN groups
    BY <1>3, <1>4
  <2> QED BY <2>2, <2>4, <2>5
<1>10. FoldersGrouped'
  BY <1>5, <1>6, <1>7, <1>9 DEF FoldersGrouped
<1>11. NoDiskGrouped'
  <2>1. n + 1 \in DOMAIN groups
    BY <1>3, <1>4
  <2> QED BY <1>3, <1>5, <2>1 DEF NoDiskGrouped
<1>12. EmptyStays'
  BY <1>5, <1>6 DEF EmptyStays, NothingEmptyYet
<1> QED
  BY <1>5, <1>8, <1>10, <1>11, <1>12 DEF Caught, DueNoticed, AvoidedAway, VisitedPassed,
    VisitingPassed, AllPassed, InRange

\* A group was turned to at least once ago.
LEMMA AgoRange ==
  ASSUME TypesInv, NEW i \in DOMAIN loop.groups
  PROVE  /\ i \in Nat /\ i >= 1 /\ i <= Len(loop.groups) /\ Len(loop.groups) \in Nat
         /\ Ago(i) \in Int /\ Ago(i) >= 1
         /\ nextGroup < Len(loop.groups) => Ago(i) <= Len(loop.groups)
<1>1. loop.groups \in Groups /\ nextGroup \in Nat
  BY TurnFields DEF TypesInv, TurnOK
<1>2. DOMAIN loop.groups = 1..Len(loop.groups) /\ Len(loop.groups) \in Nat
  BY <1>1, LenProperties DEF Groups
<1> QED
  BY <1>1, <1>2 DEF Ago

\* The kinds that are due are read before the first visit.
LEMMA CaughtByDue ==
  ASSUME TypesInv, TypesInv', NothingEmptyYet, Caught, ReadDue
  PROVE  Caught'
<1>0. loop \in Turns /\ loop.pc = "due" /\ loop.idle = 0 /\ nextGroup' = nextGroup
  BY DEF TypesInv, TurnOK, ReadDue
<1> DEFINE Due(k) == {ClassOf[r] : r \in {q \in Rows : row[q] = "queued" /\ KindOf[q] = k}}
<1>1. loop' = [loop EXCEPT !.pc = "visit", !.paused = paused,
                            !.due = [k \in Kinds |-> Least(Due(k))]]
  BY DEF ReadDue
<1>2. /\ loop'.pc = "visit" /\ loop'.paused = paused /\ loop'.due = [k \in Kinds |-> Least(Due(k))]
      /\ loop'.since = loop.since /\ loop'.empty = {} /\ loop'.groups = loop.groups
      /\ loop'.idle = 0
  BY <1>0, <1>1, TurnFields DEF NothingEmptyYet
<1>3. UNCHANGED <<row, known, paused, refresh>>
  BY DEF ReadDue, queueVars, rootVars
<1>4. ASSUME NEW r \in Rows, row[r] = "queued" PROVE loop'.due[KindOf[r]] <= ClassOf[r]
  <2>1. KindOf[r] \in Kinds /\ ClassOf[r] \in Due(KindOf[r])
    BY <1>4, RowFacts
  <2>2. Due(KindOf[r]) \subseteq 0..LastClass
    BY SchedulerConstants
  <2>3. loop'.due[KindOf[r]] = Least(Due(KindOf[r]))
    BY <1>2, <2>1
  <2> HIDE DEF Due
  <2> QED BY <2>1, <2>2, <2>3, LeastClass
<1>5. DelayedNoticed'
  BY <1>0, <1>2, <1>3 DEF DelayedNoticed, Caught
<1>6. FoldersGrouped' /\ NoDiskGrouped'
  BY <1>0, <1>2, <1>3 DEF FoldersGrouped, NoDiskGrouped, Caught, InTurn, R!Available,
    R!Unavailable, R!Known
<1>7. DueNoticed'
  BY <1>2, <1>3, <1>4 DEF DueNoticed
<1>8. VisitedPassed'
  <2>1. ASSUME NEW i \in DOMAIN loop'.groups PROVE ~(Ago(i)' <= loop'.idle)
    <3>1. Ago(i) \in Int /\ Ago(i) >= 1
      BY <1>2, <2>1, AgoRange
    <3>2. Ago(i)' = Ago(i)
      BY <1>0, <1>2 DEF Ago
    <3> QED BY <1>2, <3>1, <3>2
  <2> QED BY <2>1 DEF VisitedPassed
<1>9. EmptyStays' /\ AvoidedAway' /\ VisitingPassed' /\ AllPassed'
  BY <1>2 DEF EmptyStays, AvoidedAway, VisitingPassed, AllPassed
<1>10. InRange'
  BY <1>2 DEF InRange
<1> QED
  BY <1>5, <1>6, <1>7, <1>8, <1>9, <1>10 DEF Caught

\* The parts of what the loop has caught that a step within the visits keeps.
TurnKept ==
  /\ loop'.since = loop.since /\ loop'.groups = loop.groups /\ loop'.due = loop.due
  /\ loop'.paused = loop.paused

\* What the queue and the folders look like to the loop.
Scene == DelayedNoticed /\ FoldersGrouped /\ NoDiskGrouped /\ DueNoticed

LEMMA SceneKept ==
  ASSUME UNCHANGED rootVars, paused' = paused, TurnKept, Caught,
         loop.pc \in {"visit", "kind", "claim"}, loop'.pc \in {"visit", "kind", "claim", "until"},
         \A r \in Rows : row'[r] = row[r] \/ row'[r] = "running"
  PROVE  Scene'
<1>1. UNCHANGED <<known, refresh>> /\ R!Available' = R!Available
  BY DEF rootVars, R!Available, R!Unavailable, R!Known
<1>2. DelayedNoticed'
  BY DEF DelayedNoticed, Caught, TurnKept
<1>3. FoldersGrouped' /\ NoDiskGrouped'
  BY <1>1 DEF FoldersGrouped, NoDiskGrouped, Caught, TurnKept, InTurn
<1>4. DueNoticed'
  BY DEF DueNoticed, Caught, TurnKept, InTurn
<1> QED
  BY <1>2, <1>3, <1>4 DEF Scene

\* The kinds a visit does not try have nothing to start there.
LEMMA NotTried ==
  ASSUME TypesInv, Caught, loop.pc = "visit", NEW r \in Rows,
         ClassOf[r] <= loop.class, KindOf[r] \notin KindsToTry(DiskOfRow(r))
  PROVE  Idle(r)
<1> SUFFICES ASSUME row[r] = "queued", KindOf[r] \notin paused, r \notin loop.since,
                    ReadsSource(KindOf[r]) => FolderOf[r] \in R!Available
             PROVE  FALSE
  BY DEF Idle
<1>1. KindOf[r] \in Kinds
  BY RowFacts
<1>2. ReadsSource(KindOf[r]) <=> DiskOfRow(r) # NoDisk
  <2>1. CASE ReadsSource(KindOf[r])
    <3>1. refresh # "waiting"
      BY DEF TypesInv, TurnOK
    <3>2. known[FolderOf[r]].disk \in Disks
      BY <2>1, <3>1, AvailableOnDisk
    <3> QED BY <2>1, <3>2, CapacityConstants, RowFacts
  <2>2. CASE ~ReadsSource(KindOf[r])
    BY <2>2, RowFacts
  <2> QED BY <2>1, <2>2
<1>3. loop.due[KindOf[r]] <= loop.class
  <2>1. loop.due[KindOf[r]] <= ClassOf[r]
    BY DEF Caught, DueNoticed, InTurn
  <2>2. loop.due[KindOf[r]] \in Int /\ loop.class \in Int /\ ClassOf[r] \in Int
    <3>1. loop.due \in [Kinds -> 0..NoClass] /\ loop.class \in 0..LastClass
      BY TurnFields DEF TypesInv, TurnOK
    <3> QED BY <1>1, <3>1, RowFacts
  <2> QED BY <2>1, <2>2
<1>4. <<DiskOfRow(r), KindOf[r]>> \notin loop.empty
  <2>1. ~Idle(r)
    BY DEF Idle
  <2> QED BY <2>1 DEF Caught, EmptyStays
<1>5. KindOf[r] \notin loop.paused
  BY DEF Caught, DueNoticed, InTurn
<1> QED
  BY <1>1, <1>2, <1>3, <1>4, <1>5 DEF KindsToTry

LEMMA Remainder ==
  ASSUME NEW x \in Nat, NEW n \in Nat, n > 0
  PROVE  /\ x % n \in Nat /\ x % n < n /\ (x < n => x % n = x)
         /\ ((x % n) + 1) % n = IF (x % n) + 1 < n THEN (x % n) + 1 ELSE 0
<1>1. x % n \in Nat /\ x % n < n /\ (x < n => x % n = x)
  OBVIOUS
<1>2. \A y \in Nat : (y < n => y % n = y) /\ n % n = 0
  OBVIOUS
<1> QED
  BY <1>1, <1>2

LEMMA CaughtByVisit ==
  ASSUME TypesInv, TypesInv', Caught, VisitDisk
  PROVE  Caught'
<1>0. /\ loop \in Turns /\ loop.pc = "visit" /\ loop.idle < Len(loop.groups) /\ nextGroup \in Nat
      /\ loop.idle \in Nat
  BY TurnFields DEF TypesInv, TurnOK, VisitDisk
<1>1. PICK n \in Nat : n = Len(loop.groups) /\ n > 0
  BY <1>0, TurnFields
<1>2. PICK at \in Nat : at = nextGroup % Len(loop.groups)
  BY <1>0, <1>1, Remainder
<1>3. /\ at < n /\ (nextGroup < n => at = nextGroup)
      /\ nextGroup' = IF at + 1 < n THEN at + 1 ELSE 0
  BY <1>0, <1>1, <1>2, Remainder DEF VisitDisk
<1>4. PICK d : d = loop.groups[at + 1].disk
  OBVIOUS
<1>5. loop' = [loop EXCEPT !.pc = "kind", !.disk = d, !.left = KindsToTry(d)]
  BY <1>2, <1>4 DEF VisitDisk
<1>6. /\ loop'.pc = "kind" /\ loop'.disk = d /\ loop'.left = KindsToTry(d)
      /\ loop'.idle = loop.idle /\ loop'.class = loop.class /\ loop'.empty = loop.empty
      /\ loop'.groups = loop.groups /\ TurnKept
  BY <1>0, <1>5, TurnFields DEF TurnKept
<1>7. UNCHANGED <<capVars, rootVars, queueVars>>
  BY DEF VisitDisk
<1>8. /\ Calm /\ \A r \in Rows : Passed(r) => Passed(r)'
      /\ \A e : GroupPassed(e) => GroupPassed(e)'
  <2>1. loop.pc # "claim" /\ loop'.pc # "claim" /\ loop.since \subseteq loop'.since
    BY <1>0, <1>6 DEF TurnKept
  <2> QED BY <1>6, <1>7, <2>1, CalmLoop
<1>9. Scene'
  <2>1. row' = row /\ paused' = paused
    BY <1>7 DEF queueVars
  <2> QED BY <1>0, <1>6, <1>7, <2>1, SceneKept
<1>10. EmptyStays' /\ AvoidedAway' /\ VisitedPassed' /\ AllPassed'
  <2>1. EmptyStays'
    BY <1>6, <1>8 DEF Caught, EmptyStays, Calm
  <2> QED BY <1>6, <2>1 DEF AvoidedAway, VisitedPassed, AllPassed
<1>11. InRange'
  <2>1. nextGroup' < Len(loop'.groups)
    BY <1>1, <1>3, <1>6
  <2> QED BY <2>1 DEF InRange
<1>12. ASSUME NEW i \in DOMAIN loop.groups, Ago(i)' <= loop.idle + 1
       PROVE  loop.groups[i].disk = d \/ GroupPassed(loop.groups[i].disk)'
  <2>1. i \in Nat /\ i >= 1 /\ i <= n /\ Ago(i) \in Int
    BY <1>1, AgoRange
  <2>2. Ago(i) = IF i <= nextGroup THEN nextGroup - i + 1 ELSE nextGroup + n - i + 1
    BY <1>1 DEF Ago
  <2>3. Ago(i)' = IF i <= nextGroup' THEN nextGroup' - i + 1 ELSE nextGroup' + n - i + 1
    BY <1>1, <1>6 DEF Ago
  <2>4. CASE i = at + 1
    BY <1>4, <2>4
  <2>5. CASE i # at + 1
    <3>1. Ago(i)' > 1
      BY <1>3, <2>1, <2>3, <2>5
    <3>2. loop.idle > 0
      BY <1>0, <1>12, <2>1, <2>3, <3>1, <1>3
    <3>3. nextGroup < n
      BY <1>0, <1>1, <3>2 DEF Caught, InRange
    <3>4. Ago(i)' = Ago(i) + 1
      <4>1. at = nextGroup
        BY <1>3, <3>3
      <4>2. CASE at + 1 < n
        <5>1. nextGroup' = at + 1
          BY <1>3, <4>2
        <5>2. i <= at <=> i <= at + 1
          BY <2>1, <2>5
        <5> QED BY <2>1, <2>2, <2>3, <4>1, <5>1, <5>2
      <4>3. CASE at + 1 = n
        <5>1. nextGroup' = 0 /\ i <= at
          BY <1>3, <2>1, <2>5, <4>3
        <5> QED BY <2>1, <2>2, <2>3, <4>1, <4>3, <5>1
      <4> QED BY <1>3, <4>1, <4>2, <4>3
    <3>5. Ago(i) <= loop.idle
      BY <1>0, <1>12, <2>1, <3>4
    <3>6. GroupPassed(loop.groups[i].disk)
      BY <1>0, <3>5 DEF Caught, VisitedPassed
    <3> QED BY <1>6, <1>8, <3>6
  <2> QED BY <2>4, <2>5
<1>13. ASSUME NEW r \in Rows, DiskOfRow(r)' = d, ClassOf[r] <= loop.class,
              KindOf[r] \notin KindsToTry(d)
       PROVE  Passed(r)'
  <2>1. DiskOfRow(r) = d
    BY <1>8, <1>13 DEF Calm
  <2>2. Idle(r)
    BY <1>0, <1>13, <2>1, NotTried
  <2> QED BY <1>8, <2>2 DEF Passed
<1>14. VisitingPassed'
  <2>1. \A i \in DOMAIN loop'.groups : Ago(i)' <= loop'.idle + 1 =>
          loop'.groups[i].disk = loop'.disk \/ GroupPassed(loop.groups[i].disk)'
    BY <1>6, <1>12
  <2>2. \A r \in Rows :
          DiskOfRow(r)' = loop'.disk /\ ClassOf[r] <= loop'.class /\ KindOf[r] \notin loop'.left
            => Passed(r)'
    BY <1>6, <1>13
  <2> QED BY <2>1, <2>2, <1>6 DEF VisitingPassed
<1> QED
  BY <1>9, <1>10, <1>11, <1>14 DEF Caught, Scene

\* A visit ends with every kind of its disk passed.
LEMMA CaughtByEndVisit ==
  ASSUME TypesInv, TypesInv', Caught, EndVisit
  PROVE  Caught'
<1>0. /\ loop \in Turns /\ loop.pc = "kind" /\ loop.left = {} /\ nextGroup' = nextGroup
      /\ loop.idle \in Nat
  BY TurnFields DEF TypesInv, TurnOK, EndVisit
<1>1. loop' = [loop EXCEPT !.pc = "visit", !.idle = loop.idle + 1, !.disk = NoDisk]
  BY DEF EndVisit
<1>2. /\ loop'.pc = "visit" /\ loop'.idle = loop.idle + 1 /\ loop'.class = loop.class
      /\ loop'.empty = loop.empty /\ loop'.groups = loop.groups /\ TurnKept
  BY <1>0, <1>1, TurnFields DEF TurnKept
<1>3. UNCHANGED <<capVars, rootVars, queueVars>>
  BY DEF EndVisit
<1>4. Calm /\ \A e : GroupPassed(e) => GroupPassed(e)'
  <2>1. loop.pc # "claim" /\ loop'.pc # "claim" /\ loop.since \subseteq loop'.since
    BY <1>0, <1>2 DEF TurnKept
  <2> QED BY <1>2, <1>3, <2>1, CalmLoop
<1>5. Scene'
  <2>1. row' = row /\ paused' = paused
    BY <1>3 DEF queueVars
  <2> QED BY <1>0, <1>2, <1>3, <2>1, SceneKept
<1>6. EmptyStays'
  BY <1>2, <1>4 DEF Caught, EmptyStays, Calm
<1>7. AvoidedAway' /\ VisitingPassed' /\ AllPassed'
  BY <1>2 DEF AvoidedAway, VisitingPassed, AllPassed
<1>8. InRange'
  BY <1>0, <1>2 DEF Caught, InRange
<1>9. GroupPassed(loop.disk)
  BY <1>0 DEF Caught, VisitingPassed, GroupPassed
<1>10. VisitedPassed'
  <2>1. \A i : Ago(i)' = Ago(i)
    BY <1>0, <1>2 DEF Ago
  <2>2. ASSUME NEW i \in DOMAIN loop.groups, Ago(i) <= loop.idle + 1
        PROVE  GroupPassed(loop.groups[i].disk)
    BY <1>0, <1>9, <2>2 DEF Caught, VisitingPassed
  <2> QED BY <1>2, <1>4, <2>1, <2>2 DEF VisitedPassed
<1> QED
  BY <1>5, <1>6, <1>7, <1>8, <1>10 DEF Caught, Scene

\* A kind is skipped because a job of it does not fit.
LEMMA CaughtBySkip ==
  ASSUME TypesInv, TypesInv', Caught, SkipKind
  PROVE  Caught'
<1>0. /\ loop \in Turns /\ loop.pc = "kind" /\ nextGroup' = nextGroup /\ loop.disk \in AllDisks
      /\ CapTypeOK
  BY TurnFields DEF TypesInv, TurnOK, SkipKind, SchedTypeOK
<1>1. PICK k \in loop.left : /\ ~CanReserveJob(loop.disk, k)
                             /\ loop' = [loop EXCEPT !.left = loop.left \ {k}]
  BY DEF SkipKind
<1>2. /\ loop'.pc = "kind" /\ loop'.left = loop.left \ {k} /\ loop'.class = loop.class
      /\ loop'.empty = loop.empty /\ loop'.groups = loop.groups /\ loop'.idle = loop.idle
      /\ loop'.disk = loop.disk /\ TurnKept
  BY <1>0, <1>1, TurnFields DEF TurnKept
<1>3. UNCHANGED <<capVars, rootVars, queueVars>>
  BY DEF SkipKind
<1>4. /\ Calm /\ \A r \in Rows : Passed(r) => Passed(r)'
      /\ \A e : GroupPassed(e) => GroupPassed(e)'
  <2>1. loop.pc # "claim" /\ loop'.pc # "claim" /\ loop.since \subseteq loop'.since
    BY <1>0, <1>2 DEF TurnKept
  <2> QED BY <1>2, <1>3, <2>1, CalmLoop
<1>5. Scene'
  <2>1. row' = row /\ paused' = paused
    BY <1>3 DEF queueVars
  <2> QED BY <1>0, <1>2, <1>3, <2>1, SceneKept
<1>6. EmptyStays'
  BY <1>2, <1>4 DEF Caught, EmptyStays, Calm
<1>7. AvoidedAway' /\ VisitedPassed' /\ AllPassed'
  BY <1>2 DEF AvoidedAway, VisitedPassed, AllPassed
<1>8. InRange'
  BY <1>0, <1>2 DEF Caught, InRange
<1>9. k \in Kinds
  BY <1>0, <1>1, TurnFields
<1>10. ~CouldReserve(loop.disk, k)
  BY <1>0, <1>1, <1>9, NothingHeld
<1>11. ASSUME NEW r \in Rows, DiskOfRow(r) = loop.disk, ClassOf[r] <= loop.class,
              KindOf[r] \notin loop.left \ {k}
       PROVE  Passed(r)
  <2>1. CASE KindOf[r] = k
    BY <1>10, <1>11, <2>1 DEF Passed
  <2>2. CASE KindOf[r] \notin loop.left
    BY <1>0, <1>11, <2>2 DEF Caught, VisitingPassed
  <2> QED BY <1>11, <2>1, <2>2
<1>12. VisitingPassed'
  <2>1. \A i : Ago(i)' = Ago(i)
    BY <1>0, <1>2 DEF Ago
  <2>2. \A i \in DOMAIN loop'.groups : Ago(i)' <= loop'.idle + 1 =>
          loop'.groups[i].disk = loop'.disk \/ GroupPassed(loop.groups[i].disk)'
    BY <1>0, <1>2, <1>4, <2>1 DEF Caught, VisitingPassed
  <2>3. \A r \in Rows :
          DiskOfRow(r)' = loop'.disk /\ ClassOf[r] <= loop'.class /\ KindOf[r] \notin loop'.left
            => Passed(r)'
    BY <1>2, <1>4, <1>11 DEF Calm
  <2> QED BY <2>2, <2>3, <1>2 DEF VisitingPassed
<1> QED
  BY <1>5, <1>6, <1>7, <1>8, <1>12 DEF Caught, Scene

\* After a round of visits without a grant every row of the class is passed.
LEMMA RoundPassed ==
  ASSUME TypesInv, Caught, loop.pc = "visit", loop.idle = Len(loop.groups), NEW r \in Rows,
         ClassOf[r] <= loop.class
  PROVE  Passed(r)
<1>1. /\ loop.groups \in Groups /\ loop.idle \in Nat /\ refresh # "waiting"
  BY TurnFields DEF TypesInv, TurnOK
<1>2. DOMAIN loop.groups = 1..Len(loop.groups)
  BY <1>1, LenProperties DEF Groups
<1>3. ASSUME NEW i \in DOMAIN loop.groups PROVE GroupPassed(loop.groups[i].disk)
  <2>1. loop.idle > 0
    BY <1>1, <1>2, <1>3
  <2>2. nextGroup < Len(loop.groups)
    BY <2>1 DEF Caught, InRange
  <2>3. Ago(i) <= loop.idle
    BY <2>2, AgoRange
  <2> QED BY <2>3 DEF Caught, VisitedPassed
<1>4. CASE ~ReadsSource(KindOf[r])
  <2>1. PICK i \in DOMAIN loop.groups : loop.groups[i].disk = NoDisk
    BY DEF Caught, NoDiskGrouped, InTurn
  <2>2. DiskOfRow(r) = loop.groups[i].disk
    BY <1>4, <2>1, RowFacts
  <2> QED BY <1>3, <2>2 DEF GroupPassed
<1>5. CASE ReadsSource(KindOf[r]) /\ FolderOf[r] \in R!Available
  <2>1. PICK i \in DOMAIN loop.groups : loop.groups[i].disk = known[FolderOf[r]].disk
    BY <1>5 DEF Caught, FoldersGrouped, InTurn
  <2>2. DiskOfRow(r) = loop.groups[i].disk
    BY <1>5, <2>1, RowFacts
  <2> QED BY <1>3, <2>2 DEF GroupPassed
<1>6. CASE ReadsSource(KindOf[r]) /\ FolderOf[r] \notin R!Available
  BY <1>6 DEF Passed, Idle
<1> QED
  BY <1>4, <1>5, <1>6

LEMMA CaughtByEndClass ==
  ASSUME TypesInv, TypesInv', Caught, EndClass
  PROVE  Caught'
<1>0. /\ loop \in Turns /\ loop.pc = "visit" /\ loop.idle = Len(loop.groups)
      /\ nextGroup' = nextGroup
  BY DEF TypesInv, TurnOK, EndClass
<1> DEFINE pc == IF loop.class = LastClass THEN "until" ELSE "visit"
           class == IF loop.class = LastClass THEN 0 ELSE loop.class + 1
<1>1. loop' = [loop EXCEPT !.pc = pc, !.class = class, !.idle = 0, !.empty = {}]
  BY DEF EndClass
<1>2. /\ loop'.pc = pc /\ loop'.idle = 0 /\ loop'.empty = {} /\ loop'.groups = loop.groups
      /\ TurnKept
  BY <1>0, <1>1, TurnFields DEF TurnKept
<1>3. UNCHANGED <<capVars, rootVars, queueVars>>
  BY DEF EndClass
<1>4. \A r \in Rows : Passed(r) => Passed(r)'
  <2>1. loop.pc # "claim" /\ loop'.pc # "claim" /\ loop.since \subseteq loop'.since
    BY <1>0, <1>2 DEF TurnKept
  <2> QED BY <1>3, <2>1, CalmLoop
<1>5. Scene'
  <2>1. row' = row /\ paused' = paused
    BY <1>3 DEF queueVars
  <2> QED BY <1>0, <1>2, <1>3, <2>1, SceneKept
<1>6. EmptyStays' /\ AvoidedAway' /\ VisitingPassed' /\ InRange'
  BY <1>2 DEF EmptyStays, AvoidedAway, VisitingPassed, InRange
<1>7. VisitedPassed'
  <2>1. ASSUME NEW i \in DOMAIN loop'.groups PROVE ~(Ago(i)' <= loop'.idle)
    <3>1. Ago(i) \in Int /\ Ago(i) >= 1
      BY <1>2, <2>1, AgoRange
    <3>2. Ago(i)' = Ago(i)
      BY <1>0, <1>2 DEF Ago
    <3> QED BY <1>2, <3>1, <3>2
  <2> QED BY <2>1 DEF VisitedPassed
<1>8. AllPassed'
  <2>1. SUFFICES ASSUME loop.class = LastClass PROVE \A r \in Rows : Passed(r)
    BY <1>1, <1>2, <1>4 DEF AllPassed
  <2> QED BY <1>0, <2>1, RowFacts, RoundPassed
<1> QED
  BY <1>5, <1>6, <1>7, <1>8 DEF Caught, Scene

\* The turn ends asleep only if no row it began with has become due.
LEMMA CaughtByEndTurn ==
  ASSUME TypesInv, TypesInv', Caught, EndTurn
  PROVE  Caught'
<1>0. /\ loop \in Turns /\ loop.pc = "until" /\ refresh' = refresh /\ refresh = "idle"
      /\ UNCHANGED <<capVars, rootVars, queueVars, nextGroup>>
  BY DEF TypesInv, TurnOK, EndTurn, rootVars
<1>1. CASE loop' = Turn("prepare", {})
  <2>1. {} \in SUBSET {"due", "recheck", "retry", "fired"}
    OBVIOUS
  <2>2. loop'.pc = "prepare" /\ loop'.empty = {}
    BY <1>1, <2>1, TurnBuilt
  <2>3. DelayedNoticed'
    BY <1>0, <2>2 DEF DelayedNoticed
  <2> QED BY <2>2, <2>3, PrepareNext
<1> DEFINE timer == (IF \E r \in Rows : row[r] = "delayed" THEN {"due"} ELSE {})
                    \cup (IF R!Unavailable # {} THEN {"recheck"} ELSE {})
<1>2. CASE loop' # Turn("prepare", {})
  <2>1. loop' = Turn("asleep", timer) /\ ~\E r \in loop.since : row[r] = "queued"
    BY <1>2 DEF EndTurn, Sleep
  <2>2. timer \in SUBSET {"due", "recheck", "retry", "fired"}
    OBVIOUS
  <2>3. /\ loop'.pc = "asleep" /\ loop'.timer = timer /\ loop'.since = {} /\ loop'.empty = {}
    BY <2>1, <2>2, TurnBuilt
  <2>4. UNCHANGED <<row, paused, known>>
    BY <1>0 DEF queueVars, rootVars
  <2>5. DelayedNoticed'
    BY <2>3, <2>4 DEF DelayedNoticed
  <2>6. /\ FoldersGrouped' /\ NoDiskGrouped' /\ DueNoticed' /\ AvoidedAway' /\ EmptyStays'
        /\ VisitedPassed' /\ VisitingPassed' /\ InRange'
    BY <2>3 DEF FoldersGrouped, NoDiskGrouped, DueNoticed, AvoidedAway, EmptyStays, VisitedPassed,
      VisitingPassed, InRange, InTurn
  <2>7. ASSUME NEW r \in Rows PROVE Passed(r)'
    <3>1. Passed(r)
      BY <1>0 DEF Caught, AllPassed
    <3>2. Idle(r) => Idle(r)'
      BY <2>1, <2>3, <2>4 DEF Idle, R!Available, R!Unavailable, R!Known
    <3>3. DiskOfRow(r)' = DiskOfRow(r)
      BY <2>4 DEF DiskOfRow
    <3>4. PICK d \in AllDisks, k \in Kinds : d = DiskOfRow(r) /\ k = KindOf[r]
      BY RowFacts
    <3>5. /\ ReadersIn("reading", d)' = ReadersIn("reading", d)
          /\ CanReserveJob(d, k)' <=> CanReserveJob(d, k)
      BY <1>0 DEF capVars, scanVars, slotVars, ReadersIn, CanReserveJob, Fits, Kept, ReadLimit,
        ReadSlots
    <3>6. CapTypeOK /\ CapTypeOK'
      BY DEF TypesInv, SchedTypeOK
    <3>7. CouldReserve(d, k) <=> CanReserveJob(d, k)
      BY <1>0, <3>6, NothingHeld
    <3>8. CouldReserve(d, k)' <=> CanReserveJob(d, k)'
      BY <2>3, <3>6 DEF CouldReserve, CanReserveJob, Fits, HeldJob, HeldRead, HeldCPU,
        HeldClassifier, HeldFaceLane, CapTypeOK
    <3> QED BY <3>1, <3>2, <3>3, <3>4, <3>5, <3>7, <3>8 DEF Passed
  <2>8. AllPassed'
    BY <2>7 DEF AllPassed
  <2> QED BY <2>5, <2>6, <2>8 DEF Caught
<1> QED
  BY <1>1, <1>2

\* What the loop takes for its claim it counts as its own.
LEMMA ReservedIsHeld ==
  ASSUME TypesInv, loop.pc = "kind", NEW j \in JobIds, NEW k \in Kinds,
         ReserveJob(j, loop.disk, k),
         loop'.pc = "claim", loop'.kind = k, loop'.disk = loop.disk
  PROVE  Tighter
<1> SUFFICES ASSUME NEW d \in AllDisks, NEW q \in Kinds
             PROVE  /\ ReadersIn("reading", d)' = ReadersIn("reading", d)
                    /\ CouldReserve(d, q)' <=> CouldReserve(d, q)
  BY DEF Tighter
<1>0. CapTypeOK /\ loop.disk \in AllDisks
  BY TurnFields DEF TypesInv, SchedTypeOK, TurnOK
<1>1. UNCHANGED <<scanVars, served, foreground>>
  BY DEF ReserveJob
<1>2. /\ scanWaiting' = scanWaiting /\ Kept(d)' = Kept(d)
      /\ ReadLimit(d, ReadSlots(d))' = ReadLimit(d, ReadSlots(d))
      /\ ReadersIn("reading", d)' = ReadersIn("reading", d)
  BY <1>1 DEF scanVars, Kept, ReadLimit, ReadSlots, ReadersIn
<1>3. /\ cpuUsed \in Int /\ classifierUsed \in Int /\ faceLaneUsed \in Int
      /\ readUsed[d] \in Int /\ running[q] \in Int /\ Kept(d) \in Int
      /\ ReadLimit(d, ReadSlots(d)) \in Int
  BY <1>0, CapFacts
<1>4. /\ Demand[k].read \in 0..1 /\ Demand[k].cpu \in 0..1
      /\ Demand[k].classifier \in 0..1 /\ Demand[k].faceLane \in 0..1
  BY CapacityConstants, DemandFields
<1>5. /\ cpuUsed' = cpuUsed + Demand[k].cpu
      /\ classifierUsed' = classifierUsed + Demand[k].classifier
      /\ faceLaneUsed' = faceLaneUsed + Demand[k].faceLane
      /\ readUsed' = [readUsed EXCEPT ![loop.disk] = readUsed[loop.disk] + Demand[k].read]
      /\ running' = [running EXCEPT ![k] = running[k] + 1]
  BY DEF ReserveJob, Take
<1>6. /\ HeldJob(q) = 0 /\ HeldRead(d) = 0 /\ HeldCPU = 0 /\ HeldClassifier = 0 /\ HeldFaceLane = 0
  BY DEF HeldJob, HeldRead, HeldCPU, HeldClassifier, HeldFaceLane
<1>7. /\ HeldCPU' = Demand[k].cpu /\ HeldClassifier' = Demand[k].classifier
      /\ HeldFaceLane' = Demand[k].faceLane
      /\ HeldJob(q)' = (IF q = k THEN 1 ELSE 0)
      /\ HeldRead(d)' = (IF d = loop.disk THEN Demand[k].read ELSE 0)
  BY DEF HeldJob, HeldRead, HeldCPU, HeldClassifier, HeldFaceLane
<1>8. running'[q] - HeldJob(q)' = running[q] - HeldJob(q)
  BY <1>0, <1>3, <1>5, <1>6, <1>7 DEF CapTypeOK
<1>9. readUsed'[d] - HeldRead(d)' = readUsed[d] - HeldRead(d)
  BY <1>0, <1>3, <1>4, <1>5, <1>6, <1>7 DEF CapTypeOK
<1>10. /\ cpuUsed' - HeldCPU' = cpuUsed - HeldCPU
       /\ classifierUsed' - HeldClassifier' = classifierUsed - HeldClassifier
       /\ faceLaneUsed' - HeldFaceLane' = faceLaneUsed - HeldFaceLane
  BY <1>3, <1>4, <1>5, <1>6, <1>7
<1> QED
  BY <1>2, <1>8, <1>9, <1>10 DEF CouldReserve

\* What it gives back after a claim that found nothing it no longer counts.
LEMMA ReturnedIsFree ==
  ASSUME TypesInv, loop.pc = "claim", loop.kind \in Kinds, NEW j \in JobIds,
         job[j] = Granted(loop.kind, loop.disk), ReleaseJob(j), loop'.pc = "kind"
  PROVE  Tighter
<1> SUFFICES ASSUME NEW d \in AllDisks, NEW q \in Kinds
             PROVE  /\ ReadersIn("reading", d)' = ReadersIn("reading", d)
                    /\ CouldReserve(d, q)' <=> CouldReserve(d, q)
  BY DEF Tighter
<1>0. CapTypeOK /\ loop.disk \in AllDisks
  BY TurnFields DEF TypesInv, SchedTypeOK, TurnOK
<1>1. UNCHANGED <<scanWaiting, scanAhead, scanHeld, served, foreground>> /\ Broadcast
  BY DEF ReleaseJob
<1>2. /\ Kept(d)' = Kept(d) /\ ReadLimit(d, ReadSlots(d))' = ReadLimit(d, ReadSlots(d))
  BY <1>1 DEF Kept, ReadLimit, ReadSlots
<1>3. ReadersIn("reading", d)' = ReadersIn("reading", d)
  <2>1. \A r \in Readers : reader'[r].pc = reader[r].pc /\ reader'[r].disk = reader[r].disk
    BY <1>1 DEF Broadcast, Signalled
  <2> QED BY <2>1 DEF ReadersIn
<1>4. /\ cpuUsed \in Int /\ classifierUsed \in Int /\ faceLaneUsed \in Int
      /\ readUsed[d] \in Int /\ running[q] \in Int /\ Kept(d) \in Int
      /\ ReadLimit(d, ReadSlots(d)) \in Int
  BY <1>0, CapFacts
<1>5. PICK k \in Kinds : k = loop.kind
  OBVIOUS
<1>6. /\ Demand[k].read \in 0..1 /\ Demand[k].cpu \in 0..1
      /\ Demand[k].classifier \in 0..1 /\ Demand[k].faceLane \in 0..1
  BY CapacityConstants, DemandFields
<1>7. job[j].kind = k /\ job[j].disk = loop.disk
  BY <1>5 DEF Granted
<1>8. /\ cpuUsed' = cpuUsed - Demand[k].cpu
      /\ classifierUsed' = classifierUsed - Demand[k].classifier
      /\ faceLaneUsed' = faceLaneUsed - Demand[k].faceLane
      /\ readUsed' = [readUsed EXCEPT ![loop.disk] = readUsed[loop.disk] - Demand[k].read]
      /\ running' = [running EXCEPT ![k] = running[k] - 1]
  BY <1>7 DEF ReleaseJob, GiveBack
<1>9. /\ HeldJob(q)' = 0 /\ HeldRead(d)' = 0 /\ HeldCPU' = 0 /\ HeldClassifier' = 0
      /\ HeldFaceLane' = 0
  BY DEF HeldJob, HeldRead, HeldCPU, HeldClassifier, HeldFaceLane
<1>10. /\ HeldCPU = Demand[k].cpu /\ HeldClassifier = Demand[k].classifier
       /\ HeldFaceLane = Demand[k].faceLane
       /\ HeldJob(q) = (IF q = k THEN 1 ELSE 0)
       /\ HeldRead(d) = (IF d = loop.disk THEN Demand[k].read ELSE 0)
  BY <1>5 DEF HeldJob, HeldRead, HeldCPU, HeldClassifier, HeldFaceLane
<1>11. running'[q] - HeldJob(q)' = running[q] - HeldJob(q)
  BY <1>0, <1>4, <1>8, <1>9, <1>10 DEF CapTypeOK
<1>12. readUsed'[d] - HeldRead(d)' = readUsed[d] - HeldRead(d)
  BY <1>0, <1>4, <1>6, <1>8, <1>9, <1>10 DEF CapTypeOK
<1>13. /\ cpuUsed' - HeldCPU' = cpuUsed - HeldCPU
       /\ classifierUsed' - HeldClassifier' = classifierUsed - HeldClassifier
       /\ faceLaneUsed' - HeldFaceLane' = faceLaneUsed - HeldFaceLane
  BY <1>4, <1>6, <1>8, <1>9, <1>10
<1> QED
  BY <1>1, <1>2, <1>3, <1>11, <1>12, <1>13 DEF CouldReserve

LEMMA CaughtByReserve ==
  ASSUME TypesInv, TypesInv', Caught, NEW j \in JobIds, ReserveKind(j)
  PROVE  Caught'
<1>0. /\ loop \in Turns /\ loop.pc = "kind" /\ nextGroup' = nextGroup
  BY DEF TypesInv, TurnOK, ReserveKind
<1>1. PICK k \in loop.left : /\ ReserveJob(j, loop.disk, k)
                             /\ loop' = [loop EXCEPT !.pc = "claim", !.kind = k,
                                                     !.avoid = R!Unavailable]
  BY DEF ReserveKind
<1>2. /\ loop'.pc = "claim" /\ loop'.kind = k /\ loop'.avoid = R!Unavailable
      /\ loop'.left = loop.left /\ loop'.class = loop.class
      /\ loop'.empty = loop.empty /\ loop'.groups = loop.groups /\ loop'.idle = loop.idle
      /\ loop'.disk = loop.disk /\ TurnKept
  BY <1>0, <1>1, TurnFields DEF TurnKept
<1>3. UNCHANGED rootVars /\ row' = row /\ paused' = paused
  BY DEF ReserveKind
<1>4. /\ UNCHANGED known /\ R!Available' = R!Available
  BY <1>3 DEF rootVars, R!Available, R!Unavailable, R!Known
<1>5. Calm
  <2>1. k \in Kinds
    BY <1>0, <1>1, TurnFields
  <2>2. Tighter
    BY <1>0, <1>1, <1>2, <2>1, ReservedIsHeld
  <2>3. ASSUME NEW r \in Rows PROVE DiskOfRow(r)' = DiskOfRow(r) /\ (Idle(r) => Idle(r)')
    BY <1>2, <1>3, <1>4 DEF DiskOfRow, Idle, TurnKept
  <2> QED BY <2>2, <2>3 DEF Calm
<1>6. /\ \A r \in Rows : Passed(r) => Passed(r)'
      /\ \A e : GroupPassed(e) => GroupPassed(e)'
  BY <1>2, <1>5, CalmPassed
<1>7. Scene'
  BY <1>0, <1>2, <1>3, SceneKept
<1>8. EmptyStays'
  BY <1>2, <1>5 DEF Caught, EmptyStays, Calm
<1>9. AvoidedAway'
  BY <1>2, <1>4 DEF AvoidedAway, R!Available
<1>10. VisitedPassed' /\ AllPassed'
  BY <1>2 DEF VisitedPassed, AllPassed
<1>11. InRange'
  BY <1>0, <1>2 DEF Caught, InRange
<1>12. VisitingPassed'
  <2>1. \A i : Ago(i)' = Ago(i)
    BY <1>0, <1>2 DEF Ago
  <2>2. \A i \in DOMAIN loop'.groups : Ago(i)' <= loop'.idle + 1 =>
          loop'.groups[i].disk = loop'.disk \/ GroupPassed(loop.groups[i].disk)'
    BY <1>0, <1>2, <1>6, <2>1 DEF Caught, VisitingPassed
  <2>3. \A r \in Rows :
          DiskOfRow(r)' = loop'.disk /\ ClassOf[r] <= loop'.class /\ KindOf[r] \notin loop'.left
            => Passed(r)'
    BY <1>0, <1>2, <1>5, <1>6 DEF Caught, VisitingPassed, Calm
  <2> QED BY <2>2, <2>3, <1>2 DEF VisitingPassed
<1> QED
  BY <1>7, <1>8, <1>9, <1>10, <1>11, <1>12 DEF Caught, Scene

\* A grant starts a new round of visits.
LEMMA CaughtByClaim ==
  ASSUME TypesInv, TypesInv', Caught, NEW j \in JobIds, Claim(j)
  PROVE  Caught'
<1>0. /\ loop \in Turns /\ loop.pc = "claim" /\ nextGroup' = nextGroup
  BY DEF TypesInv, TurnOK, Claim
<1>1. loop' = [loop EXCEPT !.pc = "visit", !.idle = 0, !.disk = NoDisk, !.left = {},
                           !.kind = NoKind, !.avoid = {}]
  BY DEF Claim
<1>2. /\ loop'.pc = "visit" /\ loop'.class = loop.class
      /\ loop'.empty = loop.empty /\ loop'.groups = loop.groups /\ loop'.idle = 0 /\ TurnKept
  BY <1>0, <1>1, TurnFields DEF TurnKept
<1>3. UNCHANGED rootVars /\ paused' = paused
  BY DEF Claim
<1>4. \A r \in Rows : row'[r] = row[r] \/ row'[r] = "running"
  BY DEF Claim, TypesInv, SchedTypeOK
<1>5. ASSUME NEW r \in Rows PROVE DiskOfRow(r)' = DiskOfRow(r) /\ (Idle(r) => Idle(r)')
  <2>1. UNCHANGED known /\ R!Available' = R!Available
    BY <1>3 DEF rootVars, R!Available, R!Unavailable, R!Known
  <2> QED BY <1>2, <1>3, <1>4, <2>1 DEF DiskOfRow, Idle, TurnKept
<1>6. Scene'
  BY <1>0, <1>2, <1>3, <1>4, SceneKept
<1>7. EmptyStays'
  BY <1>2, <1>5 DEF Caught, EmptyStays
<1>8. AvoidedAway' /\ VisitingPassed' /\ AllPassed' /\ InRange'
  BY <1>2 DEF AvoidedAway, VisitingPassed, AllPassed, InRange
<1>9. VisitedPassed'
  <2>1. ASSUME NEW i \in DOMAIN loop'.groups PROVE ~(Ago(i)' <= loop'.idle)
    <3>1. Ago(i) \in Int /\ Ago(i) >= 1
      BY <1>2, <2>1, AgoRange
    <3>2. Ago(i)' = Ago(i)
      BY <1>0, <1>2 DEF Ago
    <3> QED BY <1>2, <3>1, <3>2
  <2> QED BY <2>1 DEF VisitedPassed
<1> QED
  BY <1>6, <1>7, <1>8, <1>9 DEF Caught, Scene

\* A claim that finds nothing finds nothing of its kind on its disk.
LEMMA NothingToClaim ==
  ASSUME TypesInv, Caught, loop.pc = "claim", Claimable = {}, NEW r \in Rows,
         KindOf[r] = loop.kind, ClassOf[r] <= loop.class, DiskOfRow(r) = loop.disk
  PROVE  Idle(r)
<1> SUFFICES ASSUME row[r] = "queued", ReadsSource(KindOf[r]) => FolderOf[r] \in R!Available
             PROVE  FALSE
  BY DEF Idle
<1>1. loop.disk # NoDisk /\ FolderOf[r] \notin GroupFolders \ loop.avoid
  BY DEF Claimable
<1>2. loop.kind \in KindsFor(loop.disk)
  BY DEF TypesInv, TurnOK
<1>3. ReadsSource(KindOf[r])
  BY <1>1, <1>2 DEF KindsFor
<1>4. FolderOf[r] \in R!Available /\ known[FolderOf[r]].disk = loop.disk
  BY <1>3, RowFacts
<1>5. PICK i \in DOMAIN loop.groups : /\ loop.groups[i].disk = loop.disk
                                      /\ FolderOf[r] \in loop.groups[i].folders
  BY <1>4 DEF Caught, FoldersGrouped, InTurn
<1>6. FolderOf[r] \in GroupFolders
  BY <1>5 DEF GroupFolders
<1>7. FolderOf[r] \notin loop.avoid
  BY <1>4 DEF Caught, AvoidedAway
<1> QED
  BY <1>1, <1>6, <1>7

LEMMA CaughtByClaimNothing ==
  ASSUME TypesInv, TypesInv', Reservation, Caught, NEW j \in JobIds, ClaimNothing(j)
  PROVE  Caught'
<1>0. /\ loop \in Turns /\ loop.pc = "claim" /\ nextGroup' = nextGroup /\ Claimable = {}
      /\ loop.kind \in loop.left /\ loop.kind \in Kinds
  BY TurnFields DEF TypesInv, TurnOK, ClaimNothing
<1>1. loop' = [loop EXCEPT !.pc = "kind", !.kind = NoKind, !.avoid = {},
                           !.left = loop.left \ {loop.kind},
                           !.empty = loop.empty \cup {<<loop.disk, loop.kind>>}]
  BY DEF ClaimNothing
<1>2. /\ loop'.pc = "kind" /\ loop'.left = loop.left \ {loop.kind} /\ loop'.class = loop.class
      /\ loop'.empty = loop.empty \cup {<<loop.disk, loop.kind>>}
      /\ loop'.groups = loop.groups /\ loop'.idle = loop.idle
      /\ loop'.disk = loop.disk /\ TurnKept
  BY <1>0, <1>1, TurnFields DEF TurnKept
<1>3. UNCHANGED rootVars /\ row' = row /\ paused' = paused
  BY DEF ClaimNothing
<1>4. /\ UNCHANGED known /\ R!Available' = R!Available
  BY <1>3 DEF rootVars, R!Available, R!Unavailable, R!Known
<1>5. Calm
  <2>1. job[j] = Granted(loop.kind, loop.disk) /\ ReleaseJob(j)
    BY DEF Reservation, ClaimNothing
  <2>2. Tighter
    BY <1>0, <1>2, <2>1, ReturnedIsFree
  <2>3. ASSUME NEW r \in Rows PROVE DiskOfRow(r)' = DiskOfRow(r) /\ (Idle(r) => Idle(r)')
    BY <1>2, <1>3, <1>4 DEF DiskOfRow, Idle, TurnKept
  <2> QED BY <2>2, <2>3 DEF Calm
<1>6. /\ \A r \in Rows : Passed(r) => Passed(r)'
      /\ \A e : GroupPassed(e) => GroupPassed(e)'
  BY <1>2, <1>5, CalmPassed
<1>7. Scene'
  BY <1>0, <1>2, <1>3, SceneKept
<1>8. EmptyStays'
  <2>1. SUFFICES ASSUME NEW r \in Rows, <<DiskOfRow(r), KindOf[r]>> \in loop'.empty,
                        ClassOf[r] <= loop.class
                 PROVE  Idle(r)
    BY <1>2, <1>5 DEF EmptyStays, Calm
  <2>2. CASE <<DiskOfRow(r), KindOf[r]>> \in loop.empty
    BY <2>1, <2>2 DEF Caught, EmptyStays
  <2>3. CASE <<DiskOfRow(r), KindOf[r]>> = <<loop.disk, loop.kind>>
    BY <1>0, <2>1, <2>3, NothingToClaim
  <2> QED BY <1>2, <2>1, <2>2, <2>3
<1>9. AvoidedAway' /\ VisitedPassed' /\ AllPassed'
  BY <1>2 DEF AvoidedAway, VisitedPassed, AllPassed
<1>10. InRange'
  BY <1>0, <1>2 DEF Caught, InRange
<1>11. ASSUME NEW r \in Rows, DiskOfRow(r) = loop.disk, ClassOf[r] <= loop.class,
              KindOf[r] \notin loop.left \ {loop.kind}
       PROVE  Passed(r)
  <2>1. CASE KindOf[r] = loop.kind
    BY <1>0, <1>11, <2>1, NothingToClaim DEF Passed
  <2>2. CASE KindOf[r] \notin loop.left
    BY <1>0, <1>11, <2>2 DEF Caught, VisitingPassed
  <2> QED BY <1>11, <2>1, <2>2
<1>12. VisitingPassed'
  <2>1. \A i : Ago(i)' = Ago(i)
    BY <1>0, <1>2 DEF Ago
  <2>2. \A i \in DOMAIN loop'.groups : Ago(i)' <= loop'.idle + 1 =>
          loop'.groups[i].disk = loop'.disk \/ GroupPassed(loop.groups[i].disk)'
    BY <1>0, <1>2, <1>6, <2>1 DEF Caught, VisitingPassed
  <2>3. \A r \in Rows :
          DiskOfRow(r)' = loop'.disk /\ ClassOf[r] <= loop'.class /\ KindOf[r] \notin loop'.left
            => Passed(r)'
    BY <1>2, <1>5, <1>6, <1>11 DEF Calm
  <2> QED BY <2>2, <2>3, <1>2 DEF VisitingPassed
<1> QED
  BY <1>7, <1>8, <1>9, <1>10, <1>12 DEF Caught, Scene

\* Only stepping again ends the alert.
LEMMA AlertKept ==
  ASSUME TypesInv, Alert, [SchedNext]_schedVars, ~(WakeUp \/ TimerFires)
  PROVE  Alert'
<1>0. /\ loop \in Turns /\ proc \in [JobIds -> Procs] /\ (loop.pc # "asleep" => loop.timer = {})
  BY DEF TypesInv, SchedTypeOK, TurnOK
<1>1. ASSUME NEW j \in JobIds, proc[j].phase \in {"free", "reserved", "handling", "checking",
                                                  "parking", "recording"},
             \A i \in JobIds : i # j => proc'[i] = proc[i],
             UNCHANGED <<wake, owed>>, loop.timer = {} \/ loop.timer \subseteq loop'.timer
      PROVE  Alert'
  BY <1>1 DEF Alert
<1>2. ASSUME UNCHANGED <<wake, owed, proc>>, loop.timer = {} \/ loop.timer \subseteq loop'.timer
      PROVE  Alert'
  BY <1>2 DEF Alert
<1>3. ASSUME StepFails \/ BeginStep \/ AwaitFolders \/ TakeSnapshot \/ ReadDue \/ VisitDisk
             \/ EndClass \/ EndVisit \/ SkipKind \/ EndTurn
      PROVE  Alert'
  <2>1. UNCHANGED <<wake, owed, proc>>
    BY <1>3 DEF StepFails, BeginStep, AwaitFolders, TakeSnapshot, ReadDue, VisitDisk,
      EndClass, EndVisit, SkipKind, EndTurn, queueVars, turnVars, rootVars,
      R!BeginRefresh, R!EndRefresh, R!ParkUnanswered, R!EndTurn
  <2>2. loop.timer = {} \/ loop' = loop
    BY <1>0, <1>3 DEF StepFails, BeginStep, AwaitFolders, TakeSnapshot, ReadDue, VisitDisk,
      EndClass, EndVisit, SkipKind, EndTurn, turnVars
  <2> QED BY <1>2, <2>1, <2>2
<1>4. ASSUME NEW j \in JobIds, ReserveKind(j) \/ Claim(j) \/ ClaimNothing(j) \/ ClaimFails(j)
      PROVE  Alert'
  <2>1. UNCHANGED <<wake, owed>> /\ loop.timer = {}
    BY <1>0, <1>4 DEF ReserveKind, Claim, ClaimNothing, ClaimFails, rootVars
  <2>2. proc[j].phase \in {"free", "reserved"}
    BY <1>4 DEF ReserveKind, Claim, ClaimNothing, ClaimFails
  <2>3. \A i \in JobIds : i # j => proc'[i] = proc[i]
    BY <1>0, <1>4 DEF ReserveKind, Claim, ClaimNothing, ClaimFails
  <2> QED BY <1>1, <2>1, <2>2, <2>3
<1>5. CASE LoopStep
  BY <1>3, <1>4, <1>5 DEF LoopStep
<1>6. ASSUME BesideLoop PROVE loop.timer \subseteq loop'.timer
  BY <1>0, <1>6, BesideTurn DEF SameTurn
<1>7. ASSUME NEW j \in JobIds, JobStep(j) \/ BorrowPart(j) PROVE Alert'
  <2>0. loop.timer \subseteq loop'.timer
    BY <1>6, <1>7 DEF BesideLoop
  <2>1. CASE FinishJob(j) \/ ReturnPart(j)
    BY <2>1 DEF FinishJob, ReturnPart, OweWake, Alert
  <2>2. CASE BorrowPart(j)
    <3>1. UNCHANGED <<wake, owed, proc>>
      BY <2>2 DEF BorrowPart, rootVars, turnVars, queueVars
    <3> QED BY <1>2, <2>0, <3>1
  <2>3. CASE HandlerReturns(j) \/ CheckFolder(j) \/ Park(j) \/ Record(j) \/ RecordFails(j)
    <3>1. proc[j].phase \in {"handling", "checking", "parking", "recording"}
      BY <2>3 DEF HandlerReturns, CheckFolder, Park, Record, RecordFails
    <3>2. UNCHANGED <<wake, owed>>
      BY <2>3 DEF HandlerReturns, CheckFolder, Park, Record, RecordFails, Moves, turnVars, rootVars,
        R!MarkUnavailable
    <3>3. \A i \in JobIds : i # j => proc'[i] = proc[i]
      BY <1>0, <2>3 DEF HandlerReturns, CheckFolder, Park, Record, RecordFails, Moves
    <3> QED BY <1>1, <2>0, <3>1, <3>2, <3>3
  <2> QED BY <1>7, <2>1, <2>2, <2>3 DEF JobStep
<1>8. CASE OtherStep
  <2>0. loop.timer \subseteq loop'.timer
    BY <1>6, <1>8 DEF BesideLoop
  <2>1. CASE CallWake
    BY <2>1 DEF CallWake, Alert
  <2>2. CASE FolderSteps \/ ScanStep \/ ViewStep \/ QueueStep \/ PauseStep
             \/ UNCHANGED schedVars
    <3>1. CASE FolderSteps
      BY <2>0, <3>1 DEF Alert, FolderSteps, R!ShareTurns, R!MinutePasses, R!RequestRecheck,
        turnVars, queueVars
    <3>2. CASE ScanStep
      BY <2>0, <3>2 DEF Alert, ScanStep, ScanReads, ScanReturns, OweWake, rootVars, turnVars,
        queueVars
    <3>3. CASE ViewStep
      BY <2>0, <3>3 DEF Alert, ViewStep, OpenStream, CloseStream, OweWake, rootVars, turnVars,
        queueVars
    <3>4. ASSUME NEW r \in Rows, Enqueue(r) \/ BecomesDue(r) PROVE Alert'
      BY <2>0, <3>4 DEF Alert, Enqueue, BecomesDue, OweWake, rootVars, turnVars
    <3>5. ASSUME NEW ks \in SUBSET Kinds, SetPaused(ks) PROVE Alert'
      BY <2>0, <3>5 DEF Alert, SetPaused, OweWake, rootVars, turnVars
    <3>6. CASE UNCHANGED schedVars
      BY <2>0, <3>6 DEF Alert, schedVars, rootVars, turnVars, queueVars
    <3> QED BY <2>2, <3>1, <3>2, <3>3, <3>4, <3>5, <3>6 DEF QueueStep, PauseStep
  <2>3. ASSUME NEW r \in resolvers, FolderReads(r) PROVE Alert'
    <3>1. UNCHANGED <<wake, proc, owed>>
      BY <2>3 DEF FolderReads, turnVars, queueVars, R!ResolverReads
    <3> QED BY <2>0, <3>1 DEF Alert
  <2>4. ASSUME NEW r \in resolvers, FolderAnswers(r) PROVE Alert'
    <3>1. UNCHANGED <<wake, proc>>
      BY <2>4 DEF FolderAnswers, turnVars
    <3>2. owed' = owed \/ owed' = (owed \/ known[r.folder].late)
      BY <2>4 DEF FolderAnswers, R!ResolverAnswers
    <3> QED BY <2>0, <3>1, <3>2 DEF Alert
  <2> QED BY <1>8, <2>1, <2>2, <2>3, <2>4 DEF OtherStep, AnswerStep
<1> QED
  BY <1>5, <1>7, <1>8, Steps

\* A row stays with the goroutine the loop reserved for it until it is claimed.
LEMMA ReservationStep ==
  ASSUME TypesInv, Reservation, [SchedNext]_schedVars
  PROVE  Reservation'
<1> DEFINE Reserved(j) == proc[j].phase = "reserved"
<1>0. /\ loop \in Turns /\ proc \in [JobIds -> Procs] /\ CapTypeOK /\ job \in [JobIds -> JobStates]
  BY DEF TypesInv, SchedTypeOK, TurnOK, CapTypeOK
<1>1. ASSUME \A j \in JobIds : Reserved(j)' => Reserved(j) /\ job'[j] = job[j],
             loop.pc = "claim" =>
               loop'.pc = "claim" /\ loop'.kind = loop.kind /\ loop'.disk = loop.disk
      PROVE  Reservation'
  BY <1>1 DEF Reservation, Granted
<1>2. ASSUME NEW j \in JobIds, ReserveKind(j) PROVE Reservation'
  <2>1. PICK k \in loop.left : /\ ReserveJob(j, loop.disk, k)
                               /\ loop' = [loop EXCEPT !.pc = "claim", !.kind = k,
                                                       !.avoid = R!Unavailable]
    BY <1>2 DEF ReserveKind
  <2>2. loop'.pc = "claim" /\ loop'.kind = k /\ loop'.disk = loop.disk /\ loop.pc = "kind"
    BY <1>0, <1>2, <2>1, TurnFields DEF ReserveKind
  <2>3. job'[j] = Granted(k, loop.disk)
    BY <1>0, <2>1 DEF ReserveJob
  <2>4. \A i \in JobIds : ~Reserved(i)
    BY <2>2 DEF Reservation
  <2>5. \A i \in JobIds : i # j => ~Reserved(i)'
    BY <1>0, <1>2, <2>4 DEF ReserveKind
  <2> QED BY <2>2, <2>3, <2>5 DEF Reservation, Granted
<1>3. ASSUME NEW j \in JobIds, Claim(j) \/ ClaimNothing(j) \/ ClaimFails(j) PROVE Reservation'
  <2>1. Reserved(j)
    BY <1>3 DEF Claim, ClaimNothing, ClaimFails
  <2>2. \A i \in JobIds : i # j => ~Reserved(i)
    BY <2>1 DEF Reservation
  <2>3. ~Reserved(j)'
    BY <1>0, <1>3 DEF Claim, ClaimNothing, ClaimFails, FreeProc
  <2>4. \A i \in JobIds : i # j => proc'[i] = proc[i]
    BY <1>0, <1>3 DEF Claim, ClaimNothing, ClaimFails
  <2>5. \A i \in JobIds : ~Reserved(i)'
    BY <2>2, <2>3, <2>4
  <2> QED BY <2>5 DEF Reservation
<1>4. ASSUME StepFails \/ BeginStep \/ AwaitFolders \/ TakeSnapshot \/ ReadDue \/ VisitDisk
             \/ EndClass \/ EndVisit \/ SkipKind \/ EndTurn \/ WakeUp \/ TimerFires
      PROVE  Reservation'
  <2>1. UNCHANGED <<job, proc>>
    BY <1>4 DEF StepFails, BeginStep, AwaitFolders, TakeSnapshot, ReadDue, VisitDisk, EndClass,
      EndVisit, SkipKind, EndTurn, WakeUp, TimerFires, queueVars, capVars, SetDisks
  <2>2. loop.pc # "claim" \/ loop' = loop
    BY <1>4 DEF StepFails, BeginStep, AwaitFolders, TakeSnapshot, ReadDue, VisitDisk, EndClass,
      EndVisit, SkipKind, EndTurn, WakeUp, TimerFires, turnVars
  <2> QED BY <1>1, <2>1, <2>2
<1>5. CASE LoopStep
  BY <1>2, <1>3, <1>4, <1>5 DEF LoopStep
<1>6. ASSUME BesideLoop
      PROVE  loop'.pc = loop.pc /\ loop'.kind = loop.kind /\ loop'.disk = loop.disk
  BY <1>0, <1>6, BesideTurn DEF SameTurn
<1>7. ASSUME NEW j \in JobIds, JobStep(j) \/ BorrowPart(j),
             NEW i \in JobIds, Reserved(i)'
      PROVE  Reserved(i) /\ job'[i] = job[i]
  <2>1. CASE HandlerReturns(j) \/ CheckFolder(j) \/ Park(j) \/ Record(j) \/ RecordFails(j)
    <3>1. UNCHANGED job
      BY <2>1 DEF HandlerReturns, CheckFolder, Park, Record, RecordFails, Moves, capVars
    <3>2. i # j
      BY <1>0, <1>7, <2>1 DEF HandlerReturns, CheckFolder, Park, Record, RecordFails, Moves,
        FreeProc,
        Procs
    <3>3. proc'[i] = proc[i]
      BY <1>0, <2>1, <3>2 DEF HandlerReturns, CheckFolder, Park, Record, RecordFails, Moves
    <3> QED BY <1>7, <3>1, <3>3
  <2>2. CASE FinishJob(j)
    BY <1>0, <1>7, <2>2 DEF FinishJob, FreeProc, ReleaseJob
  <2>3. CASE ReturnPart(j)
    <3>1. UNCHANGED proc /\ ReleaseLent(j)
      BY <2>3 DEF ReturnPart, queueVars
    <3>2. Reserved(i)
      BY <1>7, <3>1
    <3>3. job[i].lent = 0
      BY <3>2 DEF Reservation, Granted
    <3>4. i # j
      BY <3>1, <3>3 DEF ReleaseLent
    <3> QED BY <1>0, <3>1, <3>2, <3>4 DEF ReleaseLent
  <2>4. CASE BorrowPart(j)
    <3>1. /\ UNCHANGED proc /\ proc[j].phase = "handling"
          /\ \E part \in LentDemands : TryAcquire(j, part)
      BY <2>4 DEF BorrowPart, queueVars
    <3>2. i # j /\ Reserved(i)
      BY <1>7, <3>1
    <3> QED BY <1>0, <3>1, <3>2 DEF TryAcquire
  <2> QED BY <1>7, <2>1, <2>2, <2>3, <2>4 DEF JobStep
<1>8. ASSUME OtherStep PROVE UNCHANGED <<job, proc>>
  BY <1>8 DEF OtherStep, CallWake, FolderSteps, ScanStep, ViewStep, QueueStep, PauseStep,
    AnswerStep,
    ScanReads, ScanReturns, ScanSteps, OpenStream, CloseStream, Enqueue, BecomesDue, SetPaused,
    FolderReads, FolderAnswers, capVars, queueVars, schedVars, AcquireScanRead, RetryScanRead,
    CancelScanRead, ReleaseScanRead, KeepScanAhead, EndScanAhead, HoldForeground, ReleaseForeground
<1>9. CASE BesideLoop
  BY <1>1, <1>6, <1>7, <1>8, <1>9 DEF BesideLoop
<1> QED
  BY <1>5, <1>9, Steps DEF BesideLoop

\* No disk is found empty before the visits.
LEMMA NothingEmptyStep ==
  ASSUME TypesInv, NothingEmptyYet, [SchedNext]_schedVars
  PROVE  NothingEmptyYet'
<1>0. loop \in Turns /\ {} \in SUBSET {"due", "recheck", "retry", "fired"}
  BY DEF TypesInv, TurnOK
<1>1. ASSUME loop'.pc = loop.pc, loop'.empty = loop.empty PROVE NothingEmptyYet'
  BY <1>1 DEF NothingEmptyYet
<1>2. ASSUME NEW timer, loop' = Turn("asleep", timer) \/ loop' = Turn("prepare", timer)
      PROVE  NothingEmptyYet'
  BY <1>2 DEF Turn, NothingEmptyYet
<1>3. CASE StepFails \/ EndTurn \/ WakeUp \/ TimerFires \/ \E j \in JobIds : ClaimFails(j)
  BY <1>2, <1>3 DEF StepFails, EndTurn, WakeUp, TimerFires, ClaimFails, Sleep
<1>4. CASE BeginStep \/ AwaitFolders
  BY <1>0, <1>1, <1>4, TurnFields DEF BeginStep, AwaitFolders, turnVars
<1>5. CASE TakeSnapshot
  <2>1. PICK groups : loop' = [loop EXCEPT !.pc = "due", !.groups = groups]
    BY <1>5 DEF TakeSnapshot
  <2>2. loop'.empty = loop.empty /\ loop.pc = "prepare"
    BY <1>0, <1>5, <2>1, TurnFields DEF TakeSnapshot
  <2> QED BY <2>2 DEF NothingEmptyYet
<1>6. ASSUME ReadDue \/ VisitDisk \/ EndClass \/ EndVisit \/ SkipKind
             \/ \E j \in JobIds : ReserveKind(j) \/ Claim(j) \/ ClaimNothing(j)
      PROVE  loop'.pc \in {"visit", "kind", "claim", "until"}
  BY <1>0, <1>6, TurnFields DEF ReadDue, VisitDisk, EndClass, EndVisit, SkipKind, ReserveKind,
    Claim,
    ClaimNothing
<1>7. CASE LoopStep
  BY <1>3, <1>4, <1>5, <1>6, <1>7 DEF LoopStep, NothingEmptyYet
<1>8. CASE BesideLoop
  BY <1>0, <1>1, <1>8, BesideTurn DEF SameTurn
<1> QED
  BY <1>7, <1>8, Steps DEF BesideLoop

\* A failed step sets a timer.
LEMMA FailureAlerts ==
  ASSUME StepFails \/ \E j \in JobIds : ClaimFails(j)
  PROVE  Alert'
<1>1. loop' = Turn("asleep", {"retry"})
  BY DEF StepFails, ClaimFails, Sleep
<1>2. {"retry"} \in SUBSET {"due", "recheck", "retry", "fired"}
  OBVIOUS
<1>3. loop'.timer = {"retry"}
  BY <1>1, <1>2, TurnBuilt
<1> QED
  BY <1>3 DEF Alert

LEMMA NoticedStep ==
  ASSUME TypesInv, TypesInv', SlotsConserved, Noticed, [SchedNext]_schedVars
  PROVE  Noticed'
<1>1. Reservation' /\ NothingEmptyYet'
  BY ReservationStep, NothingEmptyStep DEF Noticed
<1>2. SUFFICES ASSUME ~Alert' PROVE Caught'
  BY <1>1 DEF Noticed
<1>3. CASE WakeUp \/ TimerFires
  BY <1>3, CaughtAtWake
<1>4. CASE ~(WakeUp \/ TimerFires)
  <2>1. Reservation /\ NothingEmptyYet /\ Caught
    BY <1>2, <1>4, AlertKept DEF Noticed
  <2>2. CASE BesideLoop
    BY <1>2, <2>1, <2>2, CaughtBeside
  <2>3. CASE BeginStep \/ AwaitFolders
    BY <2>1, <2>3, CaughtAtStart
  <2>4. CASE TakeSnapshot
    BY <2>1, <2>4, CaughtBySnapshot
  <2>5. CASE ReadDue
    BY <2>1, <2>5, CaughtByDue
  <2>6. CASE VisitDisk
    BY <2>1, <2>6, CaughtByVisit
  <2>7. CASE EndVisit
    BY <2>1, <2>7, CaughtByEndVisit
  <2>8. CASE SkipKind
    BY <2>1, <2>8, CaughtBySkip
  <2>9. CASE EndClass
    BY <2>1, <2>9, CaughtByEndClass
  <2>10. CASE EndTurn
    BY <2>1, <2>10, CaughtByEndTurn
  <2>11. ASSUME NEW j \in JobIds, ReserveKind(j) PROVE Caught'
    BY <2>1, <2>11, CaughtByReserve
  <2>12. ASSUME NEW j \in JobIds, Claim(j) PROVE Caught'
    BY <2>1, <2>12, CaughtByClaim
  <2>13. ASSUME NEW j \in JobIds, ClaimNothing(j) PROVE Caught'
    BY <2>1, <2>13, CaughtByClaimNothing
  <2>14. CASE LoopStep
    BY <1>2, <1>4, <2>3, <2>4, <2>5, <2>6, <2>7, <2>8, <2>9, <2>10, <2>11, <2>12, <2>13, <2>14,
      FailureAlerts DEF LoopStep
  <2> QED BY <2>2, <2>14, Steps DEF BesideLoop
<1> QED
  BY <1>3, <1>4

LEMMA NoticedStart == SchedInit => Noticed
<1> SUFFICES ASSUME SchedInit PROVE Noticed
  OBVIOUS
<1>1. {} \in SUBSET {"due", "recheck", "retry", "fired"}
  OBVIOUS
<1>2. loop.pc = "prepare" /\ loop.empty = {} /\ refresh = "idle"
  BY <1>1, TurnBuilt DEF SchedInit, R!RootsInit
<1>3. TypesInv /\ DelayedNoticed
  BY <1>2, TypesStart DEF DelayedNoticed
<1>4. Caught
  BY <1>2, <1>3, CaughtInPrepare
<1>5. Reservation
  BY DEF SchedInit, FreeProc, Reservation
<1> QED
  BY <1>2, <1>4, <1>5 DEF Noticed, NothingEmptyYet

\* Whatever the loop's goroutine, the jobs, the scans, the streams, the folders
\* and the queue's other writers do and in whatever order: a loop that rests
\* has passed every row, and what could let a row run since then is about to
\* wake it.
THEOREM NeverSleepsThroughWork == SchedSpec => []NoSleepThroughWork
<1>1. TypesInv /\ Noticed => NoSleepThroughWork
  <2> SUFFICES ASSUME TypesInv, Noticed, Resting, NEW r \in Rows, Runnable(r)
               PROVE  ReadersIn("reading", DiskOfRow(r)) # {}
    BY DEF NoSleepThroughWork
  <2>1. Caught /\ loop.pc = "asleep"
    BY DEF Noticed, Alert, Resting
  <2>2. Passed(r)
    BY <2>1 DEF Caught, AllPassed
  <2>3. ~Idle(r)
    BY <2>1 DEF Runnable, Idle, TypesInv, TurnOK
  <2>4. CouldReserve(DiskOfRow(r), KindOf[r])
    BY <2>1, NothingHeld, RowFacts DEF Runnable, TypesInv, SchedTypeOK
  <2> QED BY <2>2, <2>3, <2>4 DEF Passed
<1> QED
  BY <1>1, TypesStart, TypesStep, NoticedStart, NoticedStep, SchedulerKeepsSlots, PTL DEF SchedSpec

-----------------------------------------------------------------------------
(* The order of the classes, while nothing has woken the loop.             *)

\* What a turn may pass over without a wake-up: a row that waited out a delay
\* when the turn began, a paused feature, a disk a scan reads, a kind at its
\* limit.
Excused(q) ==
  \/ q \in loop.since \/ KindOf[q] \in paused
  \/ ReadersIn("reading", DiskOfRow(q)) # {}
  \/ running[KindOf[q]] = Concurrency[KindOf[q]]

\* Every turn begins with the most urgent class.
StartsUrgent == loop.pc \in {"prepare", "due", "asleep"} => loop.class = 0

\* The classes before the present one are passed.
EarlierPassed ==
  loop.pc \in {"visit", "kind", "claim"} =>
    \A r \in Rows : ClassOf[r] < loop.class => Passed(r)

GroupsHold ==
  InTurn => \A i \in DOMAIN loop.groups : \A f \in loop.groups[i].folders :
    f \in R!Known /\ known[f].disk = loop.groups[i].disk

\* A row of an earlier class that wants what the loop has reserved was passed
\* for another reason than its slots, or the claim cannot see it.
Outranked ==
  loop.pc = "claim" => \A q \in Rows :
    row[q] = "queued" /\ ClassOf[q] < loop.class /\ Demand[KindOf[q]] = Demand[loop.kind]
      /\ DiskOfRow(q) = loop.disk
    => Excused(q) \/ (loop.disk # NoDisk /\ FolderOf[q] \notin GroupFolders \ loop.avoid)

InOrder == EarlierPassed /\ GroupsHold /\ Outranked
Ranked == StartsUrgent /\ (Alert \/ InOrder)

\* Beside the loop no kind gets a job, and one that ends owes a wake-up.
LEMMA KindsRunOn ==
  ASSUME BesideLoop, ~owed'
  PROVE  UNCHANGED running
<1>1. ASSUME NEW j \in JobIds, JobStep(j) \/ BorrowPart(j) PROVE UNCHANGED running
  BY <1>1 DEF JobStep, BorrowPart, HandlerReturns, CheckFolder, Park, Moves, Record, RecordFails,
    FinishJob, ReturnPart, OweWake, TryAcquire, capVars
<1>2. CASE ScanStep
  BY <1>2 DEF ScanStep, ScanReads, ScanSteps, ScanReturns, OweWake, AcquireScanRead,
    KeepScanAhead, RetryScanRead
<1>3. CASE ViewStep
  BY <1>3 DEF ViewStep, OpenStream, CloseStream, OweWake, HoldForeground
<1>4. CASE CallWake \/ FolderSteps \/ QueueStep \/ PauseStep \/ AnswerStep \/ UNCHANGED schedVars
  BY <1>4 DEF CallWake, FolderSteps, QueueStep, Enqueue, BecomesDue, PauseStep, SetPaused,
    AnswerStep, FolderReads, FolderAnswers, schedVars, capVars
<1> QED
  BY <1>1, <1>2, <1>3, <1>4 DEF BesideLoop, OtherStep

\* A step beside the loop within a turn is calm.
LEMMA CalmBeside ==
  ASSUME TypesInv, TypesInv', SlotsConserved, [SchedNext]_schedVars, BesideLoop, ~Alert',
         DelayedNoticed, loop.pc # "prepare"
  PROVE  /\ SameTurn /\ Calm /\ paused \subseteq paused'
         /\ \A f \in Folders : known'[f].disk = known[f].disk /\ known'[f].path = known[f].path
         /\ \A r \in Rows : row'[r] = "queued" => row[r] = "queued" \/ r \in loop.since
<1>0. loop \in Turns /\ ~owed'
  BY DEF TypesInv, TurnOK, Alert
<1>1. SameTurn /\ Tighter
  BY <1>0, BesideTurn, BesideSlots
<1>2. /\ \A r \in Rows : row'[r] = "queued" => row[r] = "queued" \/ r \in loop.since
      /\ paused \subseteq paused'
  BY BesideRows
<1>3. /\ \A f \in Folders : known'[f].disk = known[f].disk /\ known'[f].path = known[f].path
      /\ R!Available' \subseteq R!Available
  BY <1>0, FoldersStay
<1>4. loop'.since = loop.since
  BY <1>1 DEF SameTurn
<1> QED
  BY <1>1, <1>2, <1>3, <1>4, IdleOn, DiskOn DEF Calm

LEMMA InOrderBeside ==
  ASSUME TypesInv, TypesInv', SlotsConserved, [SchedNext]_schedVars, BesideLoop, ~Alert',
         DelayedNoticed, InOrder
  PROVE  InOrder'
<1>0. loop \in Turns /\ ~owed'
  BY DEF TypesInv, TurnOK, Alert
<1>1. SameTurn
  BY <1>0, BesideTurn
<1>2. CASE loop.pc = "prepare"
  BY <1>1, <1>2 DEF InOrder, EarlierPassed, GroupsHold, Outranked, InTurn, SameTurn
<1>3. CASE loop.pc # "prepare"
  <2>1. /\ Calm /\ paused \subseteq paused'
        /\ \A f \in Folders : known'[f].disk = known[f].disk /\ known'[f].path = known[f].path
        /\ \A r \in Rows : row'[r] = "queued" => row[r] = "queued" \/ r \in loop.since
    BY <1>3, CalmBeside
  <2>2. \A r \in Rows : Passed(r) => Passed(r)'
    BY <2>1, CalmPassed
  <2>3. EarlierPassed'
    BY <1>1, <2>2 DEF InOrder, EarlierPassed, SameTurn
  <2>4. \A f \in R!Known : f \in R!Known' /\ known'[f].disk = known[f].disk
    BY <2>1 DEF R!Known
  <2>5. GroupsHold'
    BY <1>1, <2>4 DEF InOrder, GroupsHold, InTurn, SameTurn
  <2>6. ASSUME NEW q \in Rows, row'[q] = "queued", Excused(q) \/ row[q] # "queued"
        PROVE  Excused(q)'
    <3>1. PICK d \in AllDisks : d = DiskOfRow(q)
      BY RowFacts
    <3>2. DiskOfRow(q)' = d
      BY <2>1, <3>1 DEF Calm
    <3>3. ReadersIn("reading", d) # {} => ReadersIn("reading", d)' # {}
      <4>1. PICK k \in Kinds : k = KindOf[q]
        BY RowFacts
      <4> QED BY <2>1 DEF Calm, Tighter
    <3>4. running' = running
      BY <1>0, KindsRunOn
    <3>5. Excused(q) => \/ q \in loop.since \/ KindOf[q] \in paused
                        \/ ReadersIn("reading", d) # {}
                        \/ running[KindOf[q]] = Concurrency[KindOf[q]]
      BY <3>1 DEF Excused
    <3>6. Excused(q)' <=> \/ q \in loop'.since \/ KindOf[q] \in paused'
                          \/ ReadersIn("reading", d)' # {}
                          \/ running'[KindOf[q]] = Concurrency[KindOf[q]]
      BY <3>2 DEF Excused
    <3> QED BY <1>1, <2>1, <2>6, <3>3, <3>4, <3>5, <3>6 DEF SameTurn
  <2>7. Outranked'
    <3>1. SUFFICES ASSUME loop.pc = "claim", NEW q \in Rows, row'[q] = "queued",
                          ClassOf[q] < loop.class, Demand[KindOf[q]] = Demand[loop.kind],
                          DiskOfRow(q)' = loop.disk, ~Excused(q)'
                   PROVE  loop.disk # NoDisk /\ FolderOf[q] \notin GroupFolders' \ loop.avoid
      BY <1>1 DEF Outranked, SameTurn
    <3>2. row[q] = "queued" /\ ~Excused(q)
      BY <2>6, <3>1
    <3>3. DiskOfRow(q) = loop.disk
      BY <2>1, <3>1 DEF Calm
    <3>4. loop.disk # NoDisk /\ FolderOf[q] \notin GroupFolders \ loop.avoid
      BY <3>1, <3>2, <3>3 DEF InOrder, Outranked
    <3>5. GroupFolders' = GroupFolders
      BY <1>1 DEF GroupFolders, SameTurn
    <3> QED BY <3>4, <3>5
  <2> QED BY <2>3, <2>5, <2>7 DEF InOrder
<1> QED
  BY <1>2, <1>3

LEMMA StartsUrgentStep ==
  ASSUME TypesInv, StartsUrgent, [SchedNext]_schedVars
  PROVE  StartsUrgent'
<1>0. loop \in Turns
  BY DEF TypesInv, TurnOK
<1>1. ASSUME NEW timer, loop' = Turn("asleep", timer) \/ loop' = Turn("prepare", timer)
      PROVE  StartsUrgent'
  BY <1>1 DEF Turn, StartsUrgent
<1>2. CASE StepFails \/ EndTurn \/ WakeUp \/ TimerFires \/ \E j \in JobIds : ClaimFails(j)
  BY <1>1, <1>2 DEF StepFails, EndTurn, WakeUp, TimerFires, ClaimFails, Sleep
<1>3. ASSUME loop'.class = loop.class, loop.pc \in {"prepare", "due", "asleep"} PROVE StartsUrgent'
  BY <1>3 DEF StartsUrgent
<1>4. CASE BeginStep
  BY <1>0, <1>3, <1>4, TurnFields DEF BeginStep
<1>5. CASE TakeSnapshot
  <2>1. PICK groups : loop' = [loop EXCEPT !.pc = "due", !.groups = groups]
    BY <1>5 DEF TakeSnapshot
  <2> QED BY <1>0, <1>3, <1>5, <2>1, TurnFields DEF TakeSnapshot
<1>6. ASSUME ReadDue \/ VisitDisk \/ EndClass \/ EndVisit \/ SkipKind
             \/ \E j \in JobIds : ReserveKind(j) \/ Claim(j) \/ ClaimNothing(j)
      PROVE  loop'.pc \in {"visit", "kind", "claim", "until"}
  <2>1. CASE ReadDue \/ VisitDisk \/ EndVisit \/ SkipKind
    BY <1>0, <2>1, TurnFields DEF ReadDue, VisitDisk, EndVisit, SkipKind
  <2>2. CASE EndClass
    BY <1>0, <2>2, TurnFields DEF EndClass
  <2>3. CASE \E j \in JobIds : ReserveKind(j) \/ Claim(j) \/ ClaimNothing(j)
    BY <1>0, <2>3, TurnFields DEF ReserveKind, Claim, ClaimNothing
  <2> QED BY <1>6, <2>1, <2>2, <2>3
<1>7. CASE AwaitFolders
  BY <1>7 DEF AwaitFolders, turnVars, StartsUrgent
<1>8. CASE LoopStep
  BY <1>2, <1>4, <1>5, <1>6, <1>7, <1>8 DEF LoopStep, StartsUrgent
<1>9. CASE BesideLoop
  BY <1>0, <1>9, BesideTurn DEF SameTurn, StartsUrgent
<1> QED
  BY <1>8, <1>9, Steps DEF BesideLoop

\* Outside a turn there is no order to keep.
LEMMA InOrderOutside ==
  ASSUME loop'.pc \in {"prepare", "asleep"}
  PROVE  InOrder'
BY DEF InOrder, EarlierPassed, GroupsHold, Outranked, InTurn

LEMMA InOrderAround ==
  ASSUME TypesInv, BeginStep \/ AwaitFolders \/ WakeUp \/ TimerFires \/ EndTurn
  PROVE  InOrder'
<1>0. loop \in Turns
  BY DEF TypesInv, TurnOK
<1>1. ASSUME NEW timer, loop' = Turn("asleep", timer) \/ loop' = Turn("prepare", timer)
      PROVE  loop'.pc \in {"prepare", "asleep"}
  BY <1>1 DEF Turn
<1>2. CASE WakeUp \/ TimerFires \/ EndTurn
  BY <1>1, <1>2, InOrderOutside DEF EndTurn, WakeUp, TimerFires, Sleep
<1>3. CASE BeginStep
  <2>1. loop'.pc = "prepare"
    BY <1>0, <1>3, TurnFields DEF BeginStep
  <2> QED BY <2>1, InOrderOutside
<1>4. CASE AwaitFolders
  <2>1. loop' = loop /\ refresh = "waiting"
    BY <1>4 DEF AwaitFolders, turnVars, R!EndRefresh, R!ParkUnanswered
  <2>2. loop'.pc = "prepare"
    BY <2>1 DEF TypesInv, TurnOK
  <2> QED BY <2>2, InOrderOutside
<1> QED
  BY <1>2, <1>3, <1>4

\* A snapshot groups the folders by the disk they are known to be on.
LEMMA InOrderBySnapshot ==
  ASSUME TypesInv, TakeSnapshot
  PROVE  InOrder'
<1>0. loop \in Turns
  BY DEF TypesInv, TurnOK
<1>1. PICK ds \in Bijection(1..Cardinality(Serving), Serving) :
        loop' = [loop EXCEPT !.pc = "due", !.groups = GroupsOf(ds)]
  BY DEF TakeSnapshot, GroupsOf
<1> DEFINE n == Cardinality(Serving)
<1>2. PICK groups : groups = GroupsOf(ds)
  OBVIOUS
<1>3. /\ groups \in Groups /\ Len(groups) = n + 1 /\ n \in Nat
      /\ \A i \in 1..n : groups[i] = [disk |-> ds[i], folders |-> FoldersOn(ds[i])]
      /\ groups[n + 1] = [disk |-> NoDisk, folders |-> {}]
  BY <1>2, GroupsBuilt, ServingFinite
<1>4. DOMAIN groups = 1..(n + 1)
  BY <1>3, LenProperties DEF Groups
<1>5. loop'.pc = "due" /\ loop'.groups = groups
  BY <1>0, <1>1, <1>2, TurnFields
<1>6. UNCHANGED known
  BY DEF TakeSnapshot, R!EndTurn
<1>7. ASSUME NEW i \in DOMAIN groups, NEW f \in groups[i].folders
      PROVE  f \in R!Known /\ known[f].disk = groups[i].disk
  <2>1. CASE i = n + 1
    BY <1>3, <1>7, <2>1
  <2>2. CASE i \in 1..n
    <3>1. groups[i] = [disk |-> ds[i], folders |-> FoldersOn(ds[i])]
      BY <1>3, <2>2
    <3>2. groups[i].disk = ds[i] /\ f \in FoldersOn(ds[i])
      BY <1>7, <3>1
    <3> QED BY <3>2 DEF FoldersOn, R!Available
  <2> QED BY <1>3, <1>4, <2>1, <2>2
<1>8. GroupsHold'
  BY <1>5, <1>6, <1>7 DEF GroupsHold, R!Known
<1> QED
  BY <1>5, <1>8 DEF InOrder, EarlierPassed, Outranked

\* The groups of a turn are those of its snapshot.
LEMMA GroupsStay ==
  ASSUME InOrder, InTurn, UNCHANGED rootVars, loop'.groups = loop.groups
  PROVE  GroupsHold'
BY DEF InOrder, GroupsHold, rootVars, R!Known

\* A class is over once a full turn over the disks has passed its rows.
LEMMA InOrderByVisits ==
  ASSUME TypesInv, TypesInv', Caught, StartsUrgent, InOrder,
         ReadDue \/ VisitDisk \/ EndVisit \/ SkipKind \/ EndClass
  PROVE  InOrder'
<1>0. loop \in Turns /\ LastClass \in Nat /\ loop.class \in Nat
  BY TurnFields, SchedulerConstants DEF TypesInv, TurnOK
<1>1. UNCHANGED <<capVars, rootVars, queueVars>>
  BY DEF ReadDue, VisitDisk, EndVisit, SkipKind, EndClass
<1>2. /\ loop'.since = loop.since /\ loop'.groups = loop.groups
      /\ loop.pc \in {"due", "visit", "kind"} /\ loop'.pc \in {"visit", "kind", "until"}
  BY <1>0, TurnFields DEF ReadDue, VisitDisk, EndVisit, SkipKind, EndClass
<1>3. \A r \in Rows : Passed(r) => Passed(r)'
  BY <1>1, <1>2, CalmLoop
<1>4. GroupsHold' /\ Outranked'
  BY <1>1, <1>2, GroupsStay DEF InTurn, Outranked
<1>5. CASE ReadDue
  <2>1. loop'.class = 0
    BY <1>0, <1>5, TurnFields DEF ReadDue, StartsUrgent
  <2>2. \A r \in Rows : ~(ClassOf[r] < loop'.class)
    BY <2>1, RowFacts
  <2> QED BY <1>4, <2>2 DEF InOrder, EarlierPassed
<1>6. CASE VisitDisk \/ EndVisit \/ SkipKind
  <2>1. loop'.class = loop.class /\ loop.pc \in {"visit", "kind"}
    BY <1>0, <1>6, TurnFields DEF VisitDisk, EndVisit, SkipKind
  <2> QED BY <1>3, <1>4, <2>1 DEF InOrder, EarlierPassed
<1>7. CASE EndClass
  <2>1. loop.pc = "visit" /\ loop.idle = Len(loop.groups)
    BY <1>7 DEF EndClass
  <2>2. loop'.pc = "visit" => loop'.class = loop.class + 1
    BY <1>0, <1>7, TurnFields DEF EndClass
  <2>3. ASSUME loop'.pc = "visit", NEW r \in Rows, ClassOf[r] < loop'.class
        PROVE  Passed(r)'
    <3>1. ClassOf[r] <= loop.class
      BY <1>0, <2>2, <2>3, RowFacts
    <3>2. Passed(r)
      BY <2>1, <3>1, RoundPassed
    <3> QED BY <1>3, <3>2
  <2>4. loop'.pc \in {"visit", "until"}
    BY <1>0, <1>7, TurnFields DEF EndClass
  <2>5. EarlierPassed'
    BY <2>3, <2>4 DEF EarlierPassed
  <2> QED BY <1>4, <2>5 DEF InOrder
<1> QED
  BY <1>5, <1>6, <1>7

\* What the loop reserves it takes from no row that was passed for its slots.
LEMMA InOrderByReserve ==
  ASSUME TypesInv, TypesInv', WithinCapacity, InOrder, NEW j \in JobIds, ReserveKind(j)
  PROVE  InOrder'
<1>0. /\ loop \in Turns /\ loop.pc = "kind" /\ CapTypeOK
      /\ loop.left \subseteq KindsFor(loop.disk)
  BY DEF TypesInv, SchedTypeOK, TurnOK, ReserveKind
<1>1. PICK k \in loop.left : /\ ReserveJob(j, loop.disk, k)
                             /\ loop' = [loop EXCEPT !.pc = "claim", !.kind = k,
                                                     !.avoid = R!Unavailable]
  BY DEF ReserveKind
<1>2. /\ loop'.pc = "claim" /\ loop'.kind = k /\ loop'.avoid = R!Unavailable
      /\ loop'.class = loop.class /\ loop'.groups = loop.groups
      /\ loop'.disk = loop.disk /\ loop'.since = loop.since
  BY <1>0, <1>1, TurnFields
<1>3. UNCHANGED rootVars /\ row' = row /\ paused' = paused
  BY DEF ReserveKind
<1>4. /\ UNCHANGED known /\ R!Available' = R!Available
  BY <1>3 DEF rootVars, R!Available, R!Unavailable, R!Known
<1>5. k \in Kinds /\ (ReadsSource(k) <=> loop.disk # NoDisk)
  BY <1>0, <1>1, TurnFields DEF KindsFor
<1>6. Calm
  <2>1. Tighter
    BY <1>0, <1>1, <1>2, <1>5, ReservedIsHeld
  <2>2. ASSUME NEW r \in Rows PROVE DiskOfRow(r)' = DiskOfRow(r) /\ (Idle(r) => Idle(r)')
    BY <1>2, <1>3, <1>4 DEF DiskOfRow, Idle
  <2> QED BY <2>1, <2>2 DEF Calm
<1>7. \A r \in Rows : Passed(r) => Passed(r)'
  BY <1>6, CalmPassed
<1>8. EarlierPassed'
  BY <1>0, <1>2, <1>7 DEF InOrder, EarlierPassed
<1>9. GroupsHold'
  BY <1>0, <1>2, <1>3, GroupsStay DEF InTurn
<1>10. ASSUME NEW q \in Rows, row[q] = "queued", ClassOf[q] < loop.class,
              Demand[KindOf[q]] = Demand[k], DiskOfRow(q) = loop.disk, ~Excused(q)'
       PROVE  loop.disk # NoDisk /\ FolderOf[q] \notin GroupFolders \ R!Unavailable
  <2>1. PICK d \in AllDisks, kq \in Kinds : d = DiskOfRow(q) /\ kq = KindOf[q]
    BY RowFacts
  <2>2. Passed(q)
    BY <1>0, <1>10 DEF InOrder, EarlierPassed
  <2>3. DiskOfRow(q)' = d
    BY <1>6, <2>1 DEF Calm
  <2>4. /\ q \notin loop'.since /\ KindOf[q] \notin paused' /\ ReadersIn("reading", d)' = {}
        /\ running'[kq] # Concurrency[kq]
    BY <1>10, <2>1, <2>3 DEF Excused
  <2>5. ReadersIn("reading", d) = {}
    BY <1>1, <2>4 DEF ReserveJob, scanVars, ReadersIn
  <2>6. CanReserveJob(d, kq)
    <3>1. CanReserveJob(d, k)
      BY <1>1, <1>10, <2>1 DEF ReserveJob
    <3>2. running[kq] < Concurrency[kq]
      <4>1. CASE kq = k
        BY <3>1, <4>1 DEF CanReserveJob
      <4>2. CASE kq # k
        <5>1. running'[kq] = running[kq]
          BY <1>0, <1>1, <4>2 DEF ReserveJob, CapTypeOK
        <5>2. running[kq] \in Int /\ Concurrency[kq] \in Int /\ running[kq] <= Concurrency[kq]
          BY <1>0, <2>1, CapFacts DEF WithinCapacity
        <5> QED BY <2>4, <5>1, <5>2
      <4> QED BY <4>1, <4>2
    <3>3. Demand[kq] = Demand[k]
      BY <1>10, <2>1
    <3> QED BY <3>1, <3>2, <3>3 DEF CanReserveJob
  <2>7. CouldReserve(d, kq)
    BY <1>0, <2>6, NothingHeld
  <2>8. Idle(q)
    BY <2>1, <2>2, <2>5, <2>7 DEF Passed
  <2>9. ReadsSource(KindOf[q]) /\ FolderOf[q] \notin R!Available
    BY <1>2, <1>3, <1>10, <2>4, <2>8 DEF Idle
  <2>10. loop.disk # NoDisk
    BY <1>5, <1>10, <2>9 DEF ReadsSource
  <2>11. GroupFolders \subseteq R!Known
    BY <1>0 DEF GroupFolders, InOrder, GroupsHold, InTurn
  <2> QED BY <2>9, <2>10, <2>11 DEF R!Available
<1>11. GroupFolders' = GroupFolders
  BY <1>2 DEF GroupFolders
<1>12. Outranked'
  BY <1>2, <1>3, <1>6, <1>10, <1>11 DEF Outranked, Calm
<1> QED
  BY <1>8, <1>9, <1>12 DEF InOrder

\* A claim hands what the loop held to a row, or gives it back.
LEMMA ClaimedStaysTaken ==
  ASSUME TypesInv, TypesInv', UNCHANGED capVars, loop.pc = "claim", loop'.pc = "visit"
  PROVE  Tighter
<1> SUFFICES ASSUME NEW d \in AllDisks, NEW q \in Kinds
             PROVE  /\ ReadersIn("reading", d)' = ReadersIn("reading", d)
                    /\ CouldReserve(d, q)' => CouldReserve(d, q)
  BY DEF Tighter
<1>0. CapTypeOK /\ loop.kind \in Kinds
  BY TurnFields DEF TypesInv, SchedTypeOK, TurnOK
<1>1. UNCHANGED <<slotVars, scanVars, served, running, foreground>>
  BY DEF capVars
<1>2. /\ scanWaiting' = scanWaiting /\ Kept(d)' = Kept(d)
      /\ ReadLimit(d, ReadSlots(d))' = ReadLimit(d, ReadSlots(d))
      /\ ReadersIn("reading", d)' = ReadersIn("reading", d)
  BY <1>1 DEF scanVars, Kept, ReadLimit, ReadSlots, ReadersIn
<1>3. PICK k \in Kinds : k = loop.kind
  BY <1>0
<1>4. /\ cpuUsed \in Int /\ classifierUsed \in Int /\ faceLaneUsed \in Int
      /\ readUsed[d] \in Int /\ running[q] \in Int /\ Kept(d) \in Int
      /\ ReadLimit(d, ReadSlots(d)) \in Int /\ Concurrency[q] \in Int
      /\ CPUSlots \in Int /\ ClassifierSlots \in Int /\ FaceLaneSlots \in Int
  BY <1>0, CapFacts
<1>5. /\ Demand[k].read \in 0..1 /\ Demand[k].cpu \in 0..1
      /\ Demand[k].classifier \in 0..1 /\ Demand[k].faceLane \in 0..1
  BY CapacityConstants, DemandFields
<1>6. /\ Demand[q].read \in 0..1 /\ Demand[q].cpu \in 0..1
      /\ Demand[q].classifier \in 0..1 /\ Demand[q].faceLane \in 0..1
  BY CapacityConstants, DemandFields
<1>7. /\ HeldJob(q)' = 0 /\ HeldRead(d)' = 0 /\ HeldCPU' = 0 /\ HeldClassifier' = 0
      /\ HeldFaceLane' = 0
  BY DEF HeldJob, HeldRead, HeldCPU, HeldClassifier, HeldFaceLane
<1>8. /\ HeldCPU \in 0..1 /\ HeldClassifier \in 0..1 /\ HeldFaceLane \in 0..1
      /\ HeldJob(q) \in 0..1 /\ HeldRead(d) \in 0..1
  BY <1>3, <1>5 DEF HeldJob, HeldRead, HeldCPU, HeldClassifier, HeldFaceLane
<1>9. /\ cpuUsed' = cpuUsed /\ classifierUsed' = classifierUsed /\ faceLaneUsed' = faceLaneUsed
      /\ readUsed' = readUsed /\ running' = running
  BY <1>1 DEF slotVars
<1> QED
  BY <1>2, <1>4, <1>6, <1>7, <1>8, <1>9 DEF CouldReserve

LEMMA InOrderByClaim ==
  ASSUME TypesInv, TypesInv', Reservation, InOrder,
         NEW j \in JobIds, Claim(j) \/ ClaimNothing(j)
  PROVE  InOrder'
<1>0. /\ loop \in Turns /\ loop.pc = "claim" /\ loop.kind \in Kinds
      /\ UNCHANGED rootVars /\ paused' = paused
  BY TurnFields DEF TypesInv, TurnOK, Claim, ClaimNothing
<1>1. /\ loop'.class = loop.class /\ loop'.groups = loop.groups /\ loop'.since = loop.since
      /\ loop'.pc \in {"visit", "kind"}
  BY <1>0, TurnFields DEF Claim, ClaimNothing
<1>2. Tighter
  <2>1. CASE Claim(j)
    <3>1. loop'.pc = "visit" /\ UNCHANGED capVars
      BY <1>0, <2>1, TurnFields DEF Claim
    <3> QED BY <1>0, <3>1, ClaimedStaysTaken
  <2>2. CASE ClaimNothing(j)
    <3>1. job[j] = Granted(loop.kind, loop.disk) /\ ReleaseJob(j)
      BY <2>2 DEF Reservation, ClaimNothing
    <3>2. loop'.pc = "kind"
      BY <1>0, <2>2, TurnFields DEF ClaimNothing
    <3> QED BY <1>0, <3>1, <3>2, ReturnedIsFree
  <2> QED BY <2>1, <2>2
<1>3. \A r \in Rows : row'[r] = row[r] \/ row'[r] = "running"
  BY DEF Claim, ClaimNothing, TypesInv, SchedTypeOK
<1>4. UNCHANGED known /\ R!Available' = R!Available
  BY <1>0 DEF rootVars, R!Available, R!Unavailable, R!Known
<1>5. Calm
  BY <1>0, <1>1, <1>2, <1>3, <1>4 DEF Calm, DiskOfRow, Idle
<1>6. \A r \in Rows : Passed(r) => Passed(r)'
  BY <1>5, CalmPassed
<1>7. EarlierPassed'
  BY <1>0, <1>1, <1>6 DEF InOrder, EarlierPassed
<1>8. GroupsHold'
  BY <1>0, <1>1, GroupsStay DEF InTurn
<1>9. Outranked'
  BY <1>1 DEF Outranked
<1> QED
  BY <1>7, <1>8, <1>9 DEF InOrder

LEMMA RankedStep ==
  ASSUME TypesInv, TypesInv', SlotsConserved, WithinCapacity, Noticed, Ranked,
         [SchedNext]_schedVars
  PROVE  Ranked'
<1>1. StartsUrgent'
  BY StartsUrgentStep DEF Ranked
<1>2. SUFFICES ASSUME ~Alert' PROVE InOrder'
  BY <1>1 DEF Ranked
<1>3. CASE WakeUp \/ TimerFires
  BY <1>3, InOrderAround
<1>4. CASE ~(WakeUp \/ TimerFires)
  <2>1. ~Alert
    BY <1>2, <1>4, AlertKept
  <2>2. Reservation /\ Caught /\ StartsUrgent /\ InOrder
    BY <2>1 DEF Noticed, Ranked
  <2>3. CASE BesideLoop
    <3>1. DelayedNoticed
      BY <2>2 DEF Caught
    <3> QED BY <1>2, <2>2, <2>3, <3>1, InOrderBeside
  <2>4. CASE BeginStep \/ AwaitFolders \/ EndTurn
    BY <2>4, InOrderAround
  <2>5. CASE TakeSnapshot
    BY <2>5, InOrderBySnapshot
  <2>6. CASE ReadDue \/ VisitDisk \/ EndVisit \/ SkipKind \/ EndClass
    BY <2>2, <2>6, InOrderByVisits
  <2>7. ASSUME NEW j \in JobIds, ReserveKind(j) PROVE InOrder'
    BY <2>2, <2>7, InOrderByReserve
  <2>8. ASSUME NEW j \in JobIds, Claim(j) \/ ClaimNothing(j) PROVE InOrder'
    BY <2>2, <2>8, InOrderByClaim
  <2>9. CASE LoopStep
    BY <1>2, <1>4, <2>4, <2>5, <2>6, <2>7, <2>8, <2>9, FailureAlerts DEF LoopStep
  <2> QED BY <2>3, <2>9, Steps DEF BesideLoop
<1> QED
  BY <1>3, <1>4

LEMMA RankedStart == SchedInit => Ranked
<1> SUFFICES ASSUME SchedInit PROVE Ranked
  OBVIOUS
<1>1. loop.pc = "prepare" /\ loop.class = 0
  BY DEF SchedInit, Turn
<1> QED
  BY <1>1 DEF Ranked, StartsUrgent, InOrder, EarlierPassed, GroupsHold, Outranked, InTurn

\* Only a claim starts a row.
LEMMA WhoStarts ==
  ASSUME TypesInv, [SchedNext]_schedVars, NEW r \in Rows,
         row[r] = "queued", row'[r] = "running"
  PROVE  \E j \in JobIds : Claim(j)
<1>0. row \in [Rows -> RowStates] /\ proc \in [JobIds -> Procs]
  BY DEF TypesInv, SchedTypeOK, RowStates
<1>1. ASSUME NEW q, NEW s, s # "running", row' = [row EXCEPT ![q] = s] PROVE FALSE
  BY <1>0, <1>1
<1>2. ASSUME UNCHANGED row PROVE FALSE
  BY <1>2
<1>3. ASSUME NEW j \in JobIds, Record(j) PROVE FALSE
  <2>1. PICK s \in Outcomes(proc[j].outcome) : row' = [row EXCEPT ![proc[j].row] = s]
    BY <1>3 DEF Record
  <2>2. proc[j].outcome \in {"ok", "snooze", "error"}
    BY <1>0, <1>3 DEF Record, TypesInv, Decided, Procs
  <2>3. s # "running"
    BY <2>2, SchedulerConstants DEF Outcomes
  <2> QED BY <1>1, <2>1, <2>3
<1>4. ASSUME \/ \E j \in JobIds : RecordFails(j)
             \/ \E q \in Rows : Enqueue(q) \/ BecomesDue(q)
      PROVE  FALSE
  BY <1>1, <1>4 DEF RecordFails, Enqueue, BecomesDue
<1>5. CASE LoopStep
  BY <1>2, <1>5 DEF LoopStep, StepFails, BeginStep, AwaitFolders, TakeSnapshot, ReadDue,
    VisitDisk, EndClass, EndVisit, SkipKind, ReserveKind, ClaimNothing, ClaimFails, EndTurn,
    WakeUp, TimerFires, queueVars
<1>6. ASSUME NEW j \in JobIds, JobStep(j) \/ BorrowPart(j) PROVE FALSE
  BY <1>2, <1>3, <1>4, <1>6 DEF JobStep, BorrowPart, ReturnPart, HandlerReturns, CheckFolder,
    Park, Moves, FinishJob, queueVars
<1>7. ASSUME OtherStep PROVE FALSE
  BY <1>2, <1>4, <1>7 DEF OtherStep, ScanStep, ViewStep, QueueStep, PauseStep, AnswerStep,
    CallWake, FolderSteps, ScanReads, ScanReturns, OpenStream, CloseStream, SetPaused,
    FolderReads, FolderAnswers, queueVars, schedVars
<1> QED
  BY <1>5, <1>6, <1>7, Steps

\* A row of an earlier class stays behind a claim only for a reason.
LEMMA ClaimOutranks ==
  ASSUME TypesInv, Noticed, Ranked, NEW j \in JobIds, Claim(j),
         NEW r \in Rows, row[r] = "queued", row'[r] = "running",
         NEW q \in Rows, row[q] = "queued", ClassOf[q] < ClassOf[r],
         Demand[KindOf[q]] = Demand[KindOf[r]], FolderOf[q] = FolderOf[r]
  PROVE  KindOf[q] # KindOf[r] /\ (Alert \/ Excused(q))
<1>0. /\ loop \in Turns /\ loop.pc = "claim" /\ loop.kind \in KindsFor(loop.disk)
      /\ loop.class \in Nat
  BY TurnFields DEF TypesInv, TurnOK, Claim
<1>1. r \in MostUrgent(Claimable)
  BY DEF Claim, TypesInv, SchedTypeOK
<1>2. /\ KindOf[r] = loop.kind /\ ClassOf[r] <= loop.class
      /\ loop.disk # NoDisk => FolderOf[r] \in GroupFolders \ loop.avoid
  BY <1>1 DEF MostUrgent, Claimable
<1>3. ClassOf[q] \in Nat /\ ClassOf[r] \in Nat /\ ClassOf[q] < loop.class
  BY <1>0, <1>2, RowFacts
<1>4. KindOf[q] # KindOf[r]
  <2>1. SUFFICES ASSUME KindOf[q] = KindOf[r] PROVE FALSE
    OBVIOUS
  <2>2. q \in Claimable
    BY <1>0, <1>2, <1>3, <2>1 DEF Claimable
  <2>3. ClassOf[r] <= ClassOf[q]
    BY <1>1, <2>2 DEF MostUrgent
  <2> QED BY <1>3, <2>3
<1>5. ASSUME ~Alert PROVE Excused(q)
  <2>1. InOrder
    BY <1>5 DEF Ranked
  <2>2. ReadsSource(KindOf[q]) <=> loop.disk # NoDisk
    BY <1>0, <1>2 DEF KindsFor, ReadsSource
  <2>3. DiskOfRow(q) = loop.disk
    <3>1. CASE loop.disk = NoDisk
      BY <2>2, <3>1 DEF DiskOfRow
    <3>2. CASE loop.disk # NoDisk
      <4>1. FolderOf[q] \in GroupFolders
        BY <1>2, <3>2
      <4>2. known[FolderOf[q]].disk = loop.disk
        BY <1>0, <2>1, <4>1 DEF GroupFolders, InOrder, GroupsHold, InTurn
      <4> QED BY <2>2, <3>2, <4>2 DEF DiskOfRow
    <3> QED BY <3>1, <3>2
  <2>4. Excused(q) \/ (loop.disk # NoDisk /\ FolderOf[q] \notin GroupFolders \ loop.avoid)
    BY <1>0, <1>2, <1>3, <2>1, <2>3 DEF InOrder, Outranked
  <2> QED BY <1>2, <2>4
<1> QED
  BY <1>4, <1>5

\* A claim never takes a less urgent row of the same kind, and it takes one of
\* another kind that wants the same of the same folder only past a row that
\* waited out a delay when the turn began, whose feature is off, whose disk a
\* scan reads or whose kind is at its limit -- or once a wake-up, which the
\* next turn serves, has been called: the order of the classes is strict
\* within what a turn has seen.
THEOREM ClassesInOrderUnlessWoken ==
  SchedSpec =>
    [][\A r, q \in Rows :
         /\ row[r] = "queued" /\ row'[r] = "running" /\ row[q] = "queued"
         /\ ClassOf[q] < ClassOf[r]
         /\ Demand[KindOf[q]] = Demand[KindOf[r]] /\ FolderOf[q] = FolderOf[r]
         => KindOf[q] # KindOf[r] /\ (Alert \/ Excused(q))]_schedVars
<1> DEFINE Ordered ==
      \A r, q \in Rows :
        /\ row[r] = "queued" /\ row'[r] = "running" /\ row[q] = "queued"
        /\ ClassOf[q] < ClassOf[r]
        /\ Demand[KindOf[q]] = Demand[KindOf[r]] /\ FolderOf[q] = FolderOf[r]
        => KindOf[q] # KindOf[r] /\ (Alert \/ Excused(q))
<1>1. TypesInv /\ Noticed /\ Ranked /\ [SchedNext]_schedVars => [Ordered]_schedVars
  BY WhoStarts, ClaimOutranks
<1>2. SchedSpec => [](TypesInv /\ Noticed)
  BY TypesStart, TypesStep, NoticedStart, NoticedStep, SchedulerKeepsSlots, PTL DEF SchedSpec
<1>3. SchedSpec => []Ranked
  BY <1>2, RankedStart, RankedStep, SchedulerKeepsSlots, PTL DEF SchedSpec
<1> QED
  BY <1>1, <1>2, <1>3, PTL DEF SchedSpec
=============================================================================
