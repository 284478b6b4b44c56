------------------------------- MODULE Roots -------------------------------
(***************************************************************************)
(* The media folders' disks and availability, internal/jobs/roots.go.      *)
(*                                                                         *)
(* The scheduler's loop starts one resolver goroutine per folder it has to *)
(* resolve and waits at most DiskResolveTimeout for their answers; folders *)
(* that have not answered are parked and their late answer wakes the       *)
(* scheduler.  Meanwhile the owner registers, moves and removes folders,   *)
(* shares stop answering and come back, jobs park their folder and scans   *)
(* ask for a recheck.  Time is abstracted: minuteUp says that              *)
(* RootRecheckInterval has passed since checkedAt.                         *)
(***************************************************************************)
EXTENDS Integers, FiniteSets

CONSTANTS
  Folders,          \* ids of media folders
  Paths,            \* where a media folder may be
  NoPath,           \* of a folder that is not registered
  Disks,            \* keys of the disks
  NoDisk,           \* of a folder whose disk was never resolved
  DiskAt            \* the disk of each path

ASSUME RootsConstants ==
  /\ NoPath \notin Paths /\ NoDisk \notin Disks
  /\ DiskAt \in [Paths -> Disks]

VARIABLES
  folderPath,       \* the media_folders rows
  share,            \* what a read of each path meets now
  known,            \* roots.known
  resolvers,        \* goroutines in resolveOne
  recheck,          \* roots.recheck
  minuteUp,         \* a minute has passed since roots.checkedAt
  refresh,          \* where the loop is: "idle", "waiting" in refresh, "served"
  owed              \* a goroutine is about to call Wake; such calls coalesce

rootVars == <<folderPath, share, known, resolvers, recheck, minuteUp, refresh, owed>>

State(path) ==
  [path |-> path, disk |-> NoDisk, unavailable |-> FALSE, resolving |-> FALSE, late |-> FALSE]
Unknown == State(NoPath)

RootsInit ==
  /\ folderPath \in [Folders -> Paths \cup {NoPath}]
  /\ \A f, g \in Folders : folderPath[f] = folderPath[g] => f = g \/ folderPath[f] = NoPath
  /\ share \in [Paths -> {"readable", "unreadable"}]
  /\ known = [f \in Folders |-> Unknown]
  /\ resolvers = {}
  /\ recheck = FALSE /\ minuteUp = FALSE
  /\ refresh = "idle"
  /\ owed = FALSE

Known == {f \in Folders : known[f].path # NoPath}
Unavailable == {f \in Known : known[f].unavailable}
Available == Known \ Unavailable

-----------------------------------------------------------------------------
(* The owner and the shares.                                               *)

\* Registers, moves or, with NoPath, removes a folder; paths are unique.
SetFolder(f, p) ==
  /\ folderPath[f] # p
  /\ p # NoPath => \A g \in Folders : folderPath[g] # p
  /\ folderPath' = [folderPath EXCEPT ![f] = p]
  /\ UNCHANGED <<share, known, resolvers, recheck, minuteUp, refresh, owed>>

ShareTurns(p, state) ==
  /\ share[p] # state
  /\ share' = [share EXCEPT ![p] = state]
  /\ UNCHANGED <<folderPath, known, resolvers, recheck, minuteUp, refresh, owed>>

MinutePasses ==
  /\ ~minuteUp /\ Unavailable # {}
  /\ minuteUp' = TRUE
  /\ UNCHANGED <<folderPath, share, known, resolvers, recheck, refresh, owed>>

\* Scheduler.RecheckRoots: the request, then the Wake.
RequestRecheck ==
  /\ recheck' = TRUE
  /\ owed' = TRUE
  /\ UNCHANGED <<folderPath, share, known, resolvers, minuteUp, refresh>>

-----------------------------------------------------------------------------
(* refresh, on the loop.                                                   *)

\* Mutant: no folder is rechecked before somebody asks for it.
RechecksOnRequest == recheck

Rechecks == recheck \/ (Unavailable # {} /\ minuteUp)

Pending ==
  {f \in Folders :
     /\ folderPath[f] # NoPath
     /\ \/ known[f].path # folderPath[f]
        \/ Rechecks /\ known[f].unavailable /\ ~known[f].resolving}

\* pending: the state a folder enters its resolution with.
Entered(f) ==
  LET state == IF known[f].path = folderPath[f] THEN known[f] ELSE State(folderPath[f])
  IN  [state EXCEPT !.resolving = TRUE, !.late = FALSE]

BeginRefresh ==
  /\ refresh = "idle"
  /\ known' = [f \in Folders |->
       IF folderPath[f] = NoPath THEN Unknown
       ELSE IF f \in Pending THEN Entered(f) ELSE known[f]]
  /\ resolvers' = resolvers \cup
       {[folder |-> f, path |-> folderPath[f], answer |-> "none", fresh |-> TRUE] : f \in Pending}
  /\ recheck' = FALSE
  /\ minuteUp' = (minuteUp /\ ~Rechecks)
  /\ refresh' = IF Pending = {} THEN "served" ELSE "waiting"
  /\ UNCHANGED <<folderPath, share, owed>>

\* The disk lookup returns; a share that does not answer blocks it.
ResolverReads(r) ==
  /\ r \in resolvers /\ r.answer = "none" /\ share[r.path] # "silent"
  /\ resolvers' = (resolvers \ {r}) \cup
       {[r EXCEPT !.answer = IF share[r.path] = "readable" THEN "disk" ELSE "error"]}
  /\ UNCHANGED <<folderPath, share, known, recheck, minuteUp, refresh, owed>>

\* checkedAt restarts when the first folder becomes unavailable.
MinuteAfter(gone) == minuteUp /\ ~(gone # {} /\ Unavailable = {})

Resolved(r) ==
  [State(r.path) EXCEPT !.disk = IF r.answer = "disk" THEN DiskAt[r.path] ELSE NoDisk,
                        !.unavailable = r.answer = "error"]

Expected(r) == known[r.folder].resolving /\ known[r.folder].path = r.path

\* resolveOne's critical section.  An answer the folder no longer waits for,
\* because it was removed or moved, changes nothing.
ResolverAnswers(r) ==
  /\ r \in resolvers /\ r.answer # "none"
  /\ resolvers' = resolvers \ {r}
  /\ \/ /\ Expected(r)
        /\ known' = [known EXCEPT ![r.folder] = Resolved(r)]
        /\ minuteUp' = MinuteAfter(IF r.answer = "error" THEN {r.folder} ELSE {})
        /\ owed' = (owed \/ known[r.folder].late)
     \/ /\ ~Expected(r)
        /\ UNCHANGED <<known, minuteUp, owed>>
  /\ UNCHANGED <<folderPath, share, recheck, refresh>>

EndRefresh ==
  /\ refresh = "waiting"
  /\ ~\E r \in resolvers : r.fresh
  /\ refresh' = "served"
  /\ UNCHANGED <<folderPath, share, known, resolvers, recheck, minuteUp, owed>>

\* No turn waits for these answers any more.
Stale(rs) == {[r EXCEPT !.fresh = FALSE] : r \in rs}

Unanswered == {f \in Known : known[f].resolving}

\* Mutant: a parked folder's late answer wakes nobody.
ParkUnansweredQuietly ==
  /\ refresh = "waiting"
  /\ known' = [f \in Folders |->
       IF f \in Unanswered THEN [known[f] EXCEPT !.unavailable = TRUE] ELSE known[f]]
  /\ minuteUp' = MinuteAfter(Unanswered)
  /\ refresh' = "served"
  /\ resolvers' = Stale(resolvers)
  /\ UNCHANGED <<folderPath, share, recheck, owed>>

\* Mutant: the timeout only marks the late folders and leaves them available.
ParkUnansweredLateOnly ==
  /\ refresh = "waiting"
  /\ known' = [f \in Folders |->
       IF f \in Unanswered THEN [known[f] EXCEPT !.late = TRUE] ELSE known[f]]
  /\ minuteUp' = MinuteAfter(Unanswered)
  /\ refresh' = "served"
  /\ resolvers' = Stale(resolvers)
  /\ UNCHANGED <<folderPath, share, recheck, owed>>

\* DiskResolveTimeout passed.
ParkUnanswered ==
  /\ refresh = "waiting"
  /\ known' = [f \in Folders |->
       IF f \in Unanswered THEN [known[f] EXCEPT !.unavailable = TRUE, !.late = TRUE]
                           ELSE known[f]]
  /\ minuteUp' = MinuteAfter(Unanswered)
  /\ refresh' = "served"
  /\ resolvers' = Stale(resolvers)
  /\ UNCHANGED <<folderPath, share, recheck, owed>>

-----------------------------------------------------------------------------
\* markUnavailable: a failed job whose folder cannot be read parks it.
MarkUnavailable(f) ==
  /\ known' = IF f \in Known THEN [known EXCEPT ![f].unavailable = TRUE] ELSE known
  /\ minuteUp' = MinuteAfter({f} \cap Known)
  /\ UNCHANGED <<folderPath, share, resolvers, recheck, refresh, owed>>

\* The rest of the loop's turn, and the Wake calls, as far as this component
\* sees them.
EndTurn ==
  /\ refresh = "served"
  /\ refresh' = "idle"
  /\ UNCHANGED <<folderPath, share, known, resolvers, recheck, minuteUp, owed>>

CallWake ==
  /\ owed
  /\ owed' = FALSE
  /\ UNCHANGED <<folderPath, share, known, resolvers, recheck, minuteUp, refresh>>

RootsNext ==
  \/ \E f \in Folders, p \in Paths \cup {NoPath} : SetFolder(f, p)
  \/ \E p \in Paths, s \in {"readable", "unreadable", "silent"} : ShareTurns(p, s)
  \/ MinutePasses
  \/ RequestRecheck
  \/ BeginRefresh
  \/ \E r \in resolvers : ResolverReads(r) \/ ResolverAnswers(r)
  \/ EndRefresh
  \/ ParkUnanswered
  \/ \E f \in Known : share[known[f].path] # "readable" /\ MarkUnavailable(f)
  \/ EndTurn
  \/ CallWake

RootsSpec == RootsInit /\ [][RootsNext]_rootVars

Resolvers ==
  [folder : Folders, path : Paths, answer : {"none", "disk", "error"}, fresh : BOOLEAN]

\* The loop keeps taking turns while a folder is unavailable, because it sleeps
\* no longer than the recheck; its timeout, and goroutines that are not blocked
\* on a silent share, make progress.
RootsFairness ==
  /\ WF_rootVars(MinutePasses)
  /\ WF_rootVars(BeginRefresh \/ EndRefresh \/ ParkUnanswered \/ EndTurn)
  /\ \A p \in Paths : WF_rootVars(\E r \in resolvers : r.path = p /\ ResolverReads(r))
  /\ WF_rootVars(\E r \in resolvers : ResolverAnswers(r))

RootsFairSpec == RootsSpec /\ RootsFairness

-----------------------------------------------------------------------------
(* Properties.                                                             *)

RootsTypeOK ==
  /\ folderPath \in [Folders -> Paths \cup {NoPath}]
  /\ share \in [Paths -> {"readable", "unreadable", "silent"}]
  /\ known \in [Folders -> [path : Paths \cup {NoPath}, disk : Disks \cup {NoDisk},
                            unavailable : BOOLEAN, resolving : BOOLEAN, late : BOOLEAN]]
  /\ resolvers \subseteq Resolvers
  /\ recheck \in BOOLEAN /\ minuteUp \in BOOLEAN
  /\ refresh \in {"idle", "waiting", "served"}
  /\ owed \in BOOLEAN

\* The folders a turn serves are those it can group by disk: after refresh no
\* available folder is still being resolved, so snapshot never groups a folder
\* under the empty key of an unresolved disk, and never under the disk of a
\* path it has left.
Servable == {f \in Available : ~known[f].resolving /\ known[f].disk = DiskAt[known[f].path]}
TurnServesResolved == refresh # "waiting" => Available = Servable

\* A folder that becomes servable while no turn waits for it wakes the
\* scheduler: a turn that has begun took its folders before the answer.
LateAnswerWakes ==
  [][refresh # "waiting" => \A f \in Folders :
       f \notin Servable /\ f \in Servable' => owed']_rootVars

\* A media folder that stays registered and readable is served in the end,
\* also when its share was silent, when it was parked by a job, or when its
\* answer came late.
ReadableFolderServed ==
  \A f \in Folders, p \in Paths :
    <>[](folderPath[f] = p /\ share[p] = "readable") => <>[](known[f].path = p /\ f \in Servable)

=============================================================================
